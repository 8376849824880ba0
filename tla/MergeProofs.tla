---------------------------- MODULE MergeProofs ----------------------------
(***************************************************************************)
(* Facts about the merge for every set of entities, fields and stamps:     *)
(* applying ops one at a time or a page at a time keeps a row equal to the *)
(* join of the ops it has seen, and there is only one such row.            *)
(***************************************************************************)
EXTENDS Merge, FiniteSets, WellFoundedInduction, TLAPS

(* A nonempty set of numbers with an upper bound has a largest one.        *)
LEMMA MaxExists ==
  ASSUME NEW N \in Nat, NEW T \in SUBSET (0 .. N), T # {}
  PROVE  \E m \in T : \A x \in T : x <= m
<1> DEFINE U == {n \in Nat : \A x \in T : x <= n}
           R == OpToRel(<, Nat)
<1>1. IsWellFoundedOn(R, Nat)
  BY NatLessThanWellFounded
<1>2. U \subseteq Nat /\ N \in U
  OBVIOUS
<1>3. \E m \in U : \A y \in U : ~ (<<y, m>> \in R)
  <2> HIDE DEF U, R
  <2> QED BY <1>1, <1>2, WFMin
<1>4. PICK m \in U : \A y \in U : ~ (y < m)
  BY <1>3 DEF OpToRel
<1>5. m \in T
  <2> SUFFICES ASSUME m \notin T PROVE FALSE OBVIOUS
  <2>1. PICK x \in T : TRUE
    OBVIOUS
  <2>2. m - 1 \in U
    BY <1>4, <2>1
  <2> QED BY <2>2, <1>4
<1> QED BY <1>4, <1>5

(* Newest picks that number.                                               *)
LEMMA NewestIsMax ==
  ASSUME NEW N \in Nat, NEW T \in SUBSET (0 .. N), T # {}
  PROVE  Newest(T) \in T /\ \A x \in T : x <= Newest(T)
<1>1. \E m \in T : \A x \in T : x <= m
  BY MaxExists
<1> QED BY <1>1 DEF Newest

(* The stamps that meet in one cell.                                       *)
LEMMA MeetingStamps ==
  ASSUME NEW rows \in Rows, NEW S, \A op \in S : IsOp(op),
         NEW e \in Entity, NEW c \in Cell
  PROVE  /\ {rows[e][c]} \cup {op.hlc : op \in Writers(S, e, c)} \in SUBSET (0 .. MaxHlc)
         /\ MaxHlc \in Nat
BY MergeAssumption DEF Rows, Row, Writers, IsOp, Hlc

(* Merging a page gives rows, and each cell the newest stamp that met.     *)
LEMMA MergeOpsCell ==
  ASSUME NEW rows \in Rows, NEW S, \A op \in S : IsOp(op),
         NEW e \in Entity, NEW c \in Cell
  PROVE  LET m == MergeOps(rows, S)[e][c]
         IN /\ m \in 0 .. MaxHlc
            /\ m = rows[e][c] \/ \E op \in Writers(S, e, c) : m = op.hlc
            /\ rows[e][c] <= m
            /\ \A op \in Writers(S, e, c) : op.hlc <= m
<1> DEFINE T == {rows[e][c]} \cup {op.hlc : op \in Writers(S, e, c)}
<1>1. T \in SUBSET (0 .. MaxHlc) /\ T # {} /\ MaxHlc \in Nat
  BY MeetingStamps
<1>2. Newest(T) \in T /\ \A x \in T : x <= Newest(T)
  <2> HIDE DEF T
  <2> QED BY <1>1, NewestIsMax
<1>3. MergeOps(rows, S)[e][c] = Newest(T)
  BY DEF MergeOps
<1> QED BY <1>1, <1>2, <1>3

(* Merging a page of ops into rows gives rows.                             *)
LEMMA MergeOpsType ==
  ASSUME NEW rows \in Rows, NEW S, \A op \in S : IsOp(op)
  PROVE  MergeOps(rows, S) \in Rows
<1>1. ASSUME NEW e \in Entity, NEW c \in Cell
      PROVE  MergeOps(rows, S)[e][c] \in 0 .. MaxHlc
  BY MergeOpsCell
<1>2. MergeOps(rows, S) = [e \in Entity |-> [c \in Cell |-> MergeOps(rows, S)[e][c]]]
  BY DEF MergeOps
<1> QED BY <1>1, <1>2 DEF Rows, Row

(* So does merging one op.                                                 *)
LEMMA PutType ==
  ASSUME NEW rows \in Rows, NEW op, IsOp(op)
  PROVE  Put(rows, op) \in Rows
BY MergeAssumption DEF Put, ApplyOp, Rows, Row, IsOp, Hlc

(* Rows are equal when all their cells are.                                *)
LEMMA RowsEqual ==
  ASSUME NEW r1 \in Rows, NEW r2 \in Rows,
         \A e \in Entity, c \in Cell : r1[e][c] = r2[e][c]
  PROVE  r1 = r2
<1>1. ASSUME NEW e \in Entity PROVE r1[e] = r2[e]
  <2>1. r1[e] \in Row /\ r2[e] \in Row
    BY DEF Rows
  <2> QED BY <2>1 DEF Row
<1> QED BY <1>1 DEF Rows

(* The empty rows are rows ...                                             *)
LEMMA NoRowsType == NoRows \in Rows
BY MergeAssumption DEF NoRows, NoRow, Rows, Row

(* ... and the join of no ops.                                             *)
LEMMA NoRowsJoin == IsJoin({}, NoRows)
BY DEF IsJoin, NoRows, NoRow, Writers

(* A page merged into the join of S gives the join of S and the page.      *)
LEMMA MergeOpsJoin ==
  ASSUME NEW rows \in Rows, NEW S, NEW P,
         \A op \in S \cup P : IsOp(op), IsJoin(S, rows)
  PROVE  IsJoin(S \cup P, MergeOps(rows, P))
<1> SUFFICES ASSUME NEW e \in Entity, NEW c \in Cell
             PROVE  /\ \A op \in Writers(S \cup P, e, c) : op.hlc <= MergeOps(rows, P)[e][c]
                    /\ \/ MergeOps(rows, P)[e][c] = 0
                       \/ \E op \in Writers(S \cup P, e, c) : op.hlc = MergeOps(rows, P)[e][c]
  BY DEF IsJoin
<1> DEFINE m == MergeOps(rows, P)[e][c]
<1>1. /\ m \in 0 .. MaxHlc
      /\ m = rows[e][c] \/ \E op \in Writers(P, e, c) : m = op.hlc
      /\ rows[e][c] <= m
      /\ \A op \in Writers(P, e, c) : op.hlc <= m
  BY MergeOpsCell
<1>2. /\ \A op \in Writers(S, e, c) : op.hlc <= rows[e][c]
      /\ rows[e][c] = 0 \/ \E op \in Writers(S, e, c) : op.hlc = rows[e][c]
  BY DEF IsJoin
<1>3. Writers(S \cup P, e, c) = Writers(S, e, c) \cup Writers(P, e, c)
  BY DEF Writers
<1>4. rows[e][c] \in 0 .. MaxHlc /\ MaxHlc \in Nat
  BY MergeAssumption DEF Rows, Row
<1>5. \A op \in Writers(S, e, c) : op.hlc \in 0 .. MaxHlc
  BY MergeAssumption DEF Writers, IsOp, Hlc
<1> HIDE DEF m
<1>6. \A op \in Writers(S \cup P, e, c) : op.hlc <= m
  BY <1>1, <1>2, <1>3, <1>4, <1>5
<1>7. m = 0 \/ \E op \in Writers(S \cup P, e, c) : op.hlc = m
  BY <1>1, <1>2, <1>3
<1> QED BY <1>6, <1>7 DEF m

(* The transaction for one op is the page of that op alone.                *)
LEMMA PutIsMerge ==
  ASSUME NEW rows \in Rows, NEW op, IsOp(op)
  PROVE  Put(rows, op) = MergeOps(rows, {op})
<1>1. ASSUME NEW e \in Entity, NEW c \in Cell
      PROVE  Put(rows, op)[e][c] = MergeOps(rows, {op})[e][c]
  <2> DEFINE m == MergeOps(rows, {op})[e][c]
  <2>1. /\ m \in 0 .. MaxHlc
        /\ m = rows[e][c] \/ \E o \in Writers({op}, e, c) : m = o.hlc
        /\ rows[e][c] <= m
        /\ \A o \in Writers({op}, e, c) : o.hlc <= m
    BY MergeOpsCell
  <2>2. rows[e][c] \in 0 .. MaxHlc /\ op.hlc \in 1 .. MaxHlc /\ MaxHlc \in Nat
    BY MergeAssumption DEF Rows, Row, IsOp, Hlc
  <2>3. Put(rows, op)[e][c] =
          IF op.entity = e /\ c \in Touches(op) /\ op.hlc > rows[e][c]
          THEN op.hlc ELSE rows[e][c]
    BY DEF Put, ApplyOp, Rows, Row
  <2> HIDE DEF m
  <2>4. ASSUME op.entity = e /\ c \in Touches(op) PROVE Put(rows, op)[e][c] = m
    BY <2>1, <2>2, <2>3, <2>4 DEF Writers
  <2>5. ASSUME ~ (op.entity = e /\ c \in Touches(op)) PROVE Put(rows, op)[e][c] = m
    BY <2>1, <2>2, <2>3, <2>5 DEF Writers
  <2> QED BY <2>4, <2>5 DEF m
<1>2. Put(rows, op) \in Rows /\ MergeOps(rows, {op}) \in Rows
  BY PutType, MergeOpsType
<1> QED BY <1>1, <1>2, RowsEqual

(* There is one join: rows that are joins of the same ops are equal, so    *)
(* neither the order of arrival nor the paging nor a replay can matter     *)
(* ("any order of applying the same set of ops ends in the same state").   *)
THEOREM JoinUnique ==
  ASSUME NEW S, \A op \in S : IsOp(op),
         NEW r1 \in Rows, NEW r2 \in Rows, IsJoin(S, r1), IsJoin(S, r2)
  PROVE  r1 = r2
<1>1. ASSUME NEW e \in Entity, NEW c \in Cell PROVE r1[e][c] = r2[e][c]
  <2>1. /\ r1[e][c] \in 0 .. MaxHlc /\ r2[e][c] \in 0 .. MaxHlc /\ MaxHlc \in Nat
    BY MergeAssumption DEF Rows, Row
  <2>2. /\ \A op \in Writers(S, e, c) : op.hlc <= r1[e][c]
        /\ r1[e][c] = 0 \/ \E op \in Writers(S, e, c) : op.hlc = r1[e][c]
        /\ \A op \in Writers(S, e, c) : op.hlc <= r2[e][c]
        /\ r2[e][c] = 0 \/ \E op \in Writers(S, e, c) : op.hlc = r2[e][c]
    BY DEF IsJoin
  <2> QED BY <2>1, <2>2
<1> QED BY <1>1, RowsEqual

(* Two pages may be merged in either order, and one of them twice.         *)
THEOREM PagesCommute ==
  ASSUME NEW rows \in Rows, NEW S, NEW P, NEW Q,
         \A op \in S \cup P \cup Q : IsOp(op), IsJoin(S, rows)
  PROVE  /\ MergeOps(MergeOps(rows, P), Q) = MergeOps(MergeOps(rows, Q), P)
         /\ MergeOps(MergeOps(rows, P), P) = MergeOps(rows, P)
<1> DEFINE rp == MergeOps(rows, P)
           rq == MergeOps(rows, Q)
<1>1. rp \in Rows /\ IsJoin(S \cup P, rp)
  BY MergeOpsType, MergeOpsJoin
<1>2. rq \in Rows /\ IsJoin(S \cup Q, rq)
  BY MergeOpsType, MergeOpsJoin
<1> HIDE DEF rp, rq
<1>3. MergeOps(rp, Q) \in Rows /\ IsJoin((S \cup P) \cup Q, MergeOps(rp, Q))
  <2>1. \A op \in (S \cup P) \cup Q : IsOp(op)
    OBVIOUS
  <2> QED BY <1>1, <2>1, MergeOpsType, MergeOpsJoin
<1>4. MergeOps(rq, P) \in Rows /\ IsJoin((S \cup P) \cup Q, MergeOps(rq, P))
  <2>1. /\ \A op \in (S \cup Q) \cup P : IsOp(op)
        /\ (S \cup Q) \cup P = (S \cup P) \cup Q
    OBVIOUS
  <2> QED BY <1>2, <2>1, MergeOpsType, MergeOpsJoin
<1>5. MergeOps(rp, P) \in Rows /\ IsJoin(S \cup P, MergeOps(rp, P))
  <2>1. /\ \A op \in (S \cup P) \cup P : IsOp(op)
        /\ (S \cup P) \cup P = S \cup P
    OBVIOUS
  <2> QED BY <1>1, <2>1, MergeOpsType, MergeOpsJoin
<1>6. MergeOps(rp, Q) = MergeOps(rq, P)
  <2>1. \A op \in (S \cup P) \cup Q : IsOp(op)
    OBVIOUS
  <2> QED BY <1>3, <1>4, <2>1, JoinUnique
<1>7. MergeOps(rp, P) = rp
  BY <1>1, <1>5, JoinUnique
<1> QED BY <1>6, <1>7 DEF rp, rq
=============================================================================
