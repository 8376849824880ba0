------------------------------- MODULE Merge -------------------------------
(***************************************************************************)
(* The last-writer-wins merge that every replica of a munni space runs:    *)
(* apps/web/src/sync/merge.ts on the devices, LwwMerge.cs on the server.   *)
(*                                                                         *)
(* An op carries one HLC stamp for all the fields it writes.  An encoded   *)
(* HLC is a fixed-width string whose order is total, and its last          *)
(* component names the device, so two different ops never share a stamp:   *)
(* a stamp stands here for its rank in 1..MaxHlc, and the value a field    *)
(* holds is identified by the stamp of the op that wrote it.               *)
(***************************************************************************)
EXTENDS Integers

CONSTANTS
  Entity,         \* the rows of one space
  Field,          \* the fields of a row
  DELETED_FIELD,  \* the pseudo-field "$deleted"
  MaxHlc          \* the largest stamp of the fixed-width encoding

ASSUME MergeAssumption ==
  /\ DELETED_FIELD \notin Field
  /\ MaxHlc \in Nat \ {0}

Hlc  == 1 .. MaxHlc
Cell == Field \cup {DELETED_FIELD}

(* fieldVersions: the stamp of the last write to each cell, 0 for a cell   *)
(* nothing has written.  A row nobody wrote is the row of zeros.           *)
Row   == [Cell -> 0 .. MaxHlc]
Rows  == [Entity -> Row]
NoRow == [c \in Cell |-> 0]
NoRows == [e \in Entity |-> NoRow]

IsOp(op) ==
  /\ op.entity \in Entity /\ op.fields \subseteq Field
  /\ op.deleted \in BOOLEAN /\ op.hlc \in Hlc

(* Fields an op can win: its own, and the pseudo-field of a deletion.      *)
Touches(op) == op.fields \cup (IF op.deleted THEN {DELETED_FIELD} ELSE {})

(* applyOp: every cell the op touches takes its stamp if that is newer.    *)
ApplyOp(row, op) ==
  [c \in Cell |-> IF c \in Touches(op) /\ op.hlc > row[c]
                  THEN op.hlc ELSE row[c]]

(* deriveDeleted: deleted while no field is newer than the tombstone.      *)
IsDeleted(row) ==
  /\ row[DELETED_FIELD] # 0
  /\ \A f \in Field : row[f] <= row[DELETED_FIELD]

(* Repo's transaction body for one op: read the op's row, merge, put.      *)
Put(rows, op) == [rows EXCEPT ![op.entity] = ApplyOp(@, op)]

(* `changed`: at least one cell of the op won.                             *)
Changes(rows, op) == \E c \in Touches(op) : op.hlc > rows[op.entity][c]

(***************************************************************************)
(* Merging a whole page in one transaction.  merge.ts promises that the    *)
(* order within the page is irrelevant, so the result is stated without    *)
(* one: each cell keeps the newest stamp of its own and the page's.        *)
(* MergeProofs.tla shows that the op-by-op loop gives it in every order.   *)
(***************************************************************************)
Writers(S, e, c) == {op \in S : op.entity = e /\ c \in Touches(op)}

Newest(T) == CHOOSE n \in T : \A m \in T : m <= n

(* Mutant: a cell that is already written keeps its value.                 *)
MergeOpsFirstWins(rows, S) ==
  [e \in Entity |->
    [c \in Cell |-> IF rows[e][c] # 0 THEN rows[e][c]
                    ELSE Newest({0} \cup {op.hlc : op \in Writers(S, e, c)})]]

MergeOps(rows, S) ==
  [e \in Entity |->
    [c \in Cell |-> Newest({rows[e][c]} \cup {op.hlc : op \in Writers(S, e, c)})]]

(* rows is exactly what the ops of S add up to.                            *)
IsJoin(S, rows) ==
  \A e \in Entity, c \in Cell :
    /\ \A op \in Writers(S, e, c) : op.hlc <= rows[e][c]
    /\ \/ rows[e][c] = 0
       \/ \E op \in Writers(S, e, c) : op.hlc = rows[e][c]
=============================================================================
