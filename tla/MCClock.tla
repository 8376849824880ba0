------------------------------ MODULE MCClock ------------------------------
(***************************************************************************)
(* Instances of Clock for TLC: two devices with one tab each.              *)
(***************************************************************************)
EXTENDS Clock

CONSTANTS a, b

Apart == [t \in Tab |-> IF t = a THEN 1 ELSE 2]
=============================================================================
