---------------------------- MODULE SharedLedger ----------------------------
(***************************************************************************)
(* What synchronisation promises of one space, without requests, pages or  *)
(* queues: ops are authored, enter one append-only log, and every device   *)
(* shows exactly the merge of the ops it holds.  A device that claims the  *)
(* log up to a position holds every op up to it.                           *)
(***************************************************************************)
EXTENDS Merge, FiniteSets

CONSTANTS Device, Op

VARIABLES
  made,   \* ops authored
  pos,    \* the position of an op in the log, 0 outside it
  holds,  \* the ops merged on a device
  upto,   \* the position a device claims
  view    \* what a device shows

ledgerVars == <<made, pos, holds, upto, view>>

Logged    == {op \in Op : pos[op] # 0}
End       == Newest({pos[op] : op \in Op} \cup {0})
Prefix(n) == {op \in Logged : pos[op] <= n}

Init ==
  /\ made = {}
  /\ pos = [op \in Op |-> 0]
  /\ holds = [d \in Device |-> {}]
  /\ upto = [d \in Device |-> 0]
  /\ view = [d \in Device |-> NoRows]

Hold(d, S) ==
  /\ holds' = [holds EXCEPT ![d] = S]
  /\ view' = [view EXCEPT ![d] = MergeOps(NoRows, S)]

(* A write that changes nothing on its device is dropped.                  *)
Author(d, op) ==
  /\ op \notin made
  /\ made' = made \cup {op}
  /\ Hold(d, holds[d] \cup {op}) \/ UNCHANGED <<holds, view>>
  /\ UNCHANGED <<pos, upto>>

Append(S) ==
  /\ S \subseteq made \ Logged
  /\ pos' \in [Op -> Nat]
  /\ \A op \in Op \ S : pos'[op] = pos[op]
  /\ {pos'[op] : op \in S} = End + 1 .. End + Cardinality(S)
  /\ UNCHANGED <<made, holds, upto, view>>

Learn(d, S) ==
  /\ S \subseteq Logged
  /\ Hold(d, holds[d] \cup S)
  /\ UNCHANGED <<made, pos, upto>>

Advance(d, n) ==
  /\ n \in 0 .. End
  /\ Prefix(n) \subseteq holds[d]
  /\ upto' = [upto EXCEPT ![d] = n]
  /\ UNCHANGED <<made, pos, holds, view>>

Forget(d) ==
  /\ Hold(d, {})
  /\ upto' = [upto EXCEPT ![d] = 0]
  /\ UNCHANGED <<made, pos>>

Next ==
  \/ \E S \in SUBSET Op : Append(S)
  \/ \E d \in Device :
       \/ \E op \in Op : Author(d, op)
       \/ \E S \in SUBSET Op : Learn(d, S)
       \/ \E n \in 0 .. End : Advance(d, n)
       \/ Forget(d)

Spec == Init /\ [][Next]_ledgerVars
=============================================================================
