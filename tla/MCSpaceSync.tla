---------------------------- MODULE MCSpaceSync ----------------------------
(***************************************************************************)
(* Instances of SpaceSync for TLC: a phone p that creates the space, a     *)
(* tablet t that joins it, and the ops they may author.                    *)
(***************************************************************************)
EXTENDS SpaceSync

CONSTANTS p, t, ann, bob, space, account, name, amount

TwoUsers == [d \in Device |-> IF d = p THEN ann ELSE bob]
OneUser  == [d \in Device |-> ann]

An(hlc, by, entity, fields, deleted) ==
  [entity |-> entity, fields |-> fields, deleted |-> deleted, hlc |-> hlc, by |-> by]

Create == An(1, p, space, {name}, FALSE)
Add    == An(2, p, account, {name, amount}, FALSE)
Rename == An(3, t, account, {name}, FALSE)
Title  == An(2, t, space, {name}, FALSE)
Remove == An(4, p, account, {}, TRUE)

(* The space, an account, and two edits of it that meet.                   *)
Meeting == {Create, Add, Rename, Remove}
(* The same without the second edit.                                       *)
Joining == {Create, Add, Rename}
(* The space and the tablet's edit of it.                                  *)
Small   == {Create, Title}
AddOnly == {Add}
TitleOnly == {Title}
=============================================================================
