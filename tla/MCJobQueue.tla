----------------------------- MODULE MCJobQueue -----------------------------
(***************************************************************************)
(* Instances of JobQueue for TLC: the jobs of one session, and agents with *)
(* one slot each.                                                          *)
(***************************************************************************)
EXTENDS JobQueue

CONSTANTS a, b, a1, b1, session

OneSession == [j \in Job |-> session]
Slots      == [r \in Run |-> IF r = b1 THEN b ELSE a]
=============================================================================
