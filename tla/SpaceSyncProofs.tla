-------------------------- MODULE SpaceSyncProofs --------------------------
(***************************************************************************)
(* Theorems about SpaceSync, for every set of devices, users and ops, and  *)
(* every chunk and page size.                                              *)
(***************************************************************************)
EXTENDS SpaceSync, MergeProofs, FiniteSetTheorems

(***************************************************************************)
(* Type correctness.  It needs to know that a head a pull has read is not  *)
(* ahead of the log, that a page about to be applied is not empty, and     *)
(* which chunk an answered push belongs to.                                *)
(***************************************************************************)
RoundOK(d) ==
  /\ app[d].latest <= lastSeq
  /\ app[d].pc \in {"apply", "stamp"} => app[d].page # {}
  /\ req[App(d)] # NoReq =>
       \/ app[d].pc = "retry"
       \/ app[d].pc = "push" /\ app[d].chunks # <<>> /\ req[App(d)].ops = Head(app[d].chunks)

TypeInv == TypeOK /\ \A d \in Device : RoundOK(d) /\ sw[d].latest <= lastSeq

(* The assumption on Op, op by op.                                         *)
LEMMA OpsTyped == \A op \in Op : IsOp(op) /\ op.by \in Device
BY SpaceSyncAssumption

(* Subsets of Op are finite.                                               *)
LEMMA OpsFinite ==
  ASSUME NEW S \in SUBSET Op
  PROVE  IsFiniteSet(S) /\ Cardinality(S) \in Nat
BY SpaceSyncAssumption, FS_Subset, FS_CardinalityType

(* Ranks are positions 1..|S|.                                             *)
LEMMA RankInRange ==
  ASSUME NEW S \in SUBSET Op, NEW op \in S
  PROVE  Rank(S, op) \in 1 .. Cardinality(S)
<1> DEFINE T == {p \in S : p.hlc <= op.hlc}
<1>1. T \in SUBSET S /\ IsFiniteSet(S) /\ Cardinality(S) \in Nat
  BY OpsFinite
<1>2. op \in T
  BY OpsTyped, MergeAssumption DEF IsOp, Hlc
<1>3. IsFiniteSet(T) /\ Cardinality(T) \in Nat /\ Cardinality(T) <= Cardinality(S)
  BY <1>1, FS_Subset, FS_CardinalityType
<1>4. Cardinality(T) # 0
  BY <1>2, <1>3, FS_EmptySet
<1> QED BY <1>1, <1>3, <1>4 DEF Rank

(* An outbox is cut into a sequence of sets of ops.                        *)
LEMMA ChunkedType ==
  ASSUME NEW S \in SUBSET Op
  PROVE  Chunked(S) \in Seq(SUBSET Op)
<1> DEFINE n == (Cardinality(S) + PushChunk - 1) \div PushChunk
<1>1. Cardinality(S) + PushChunk - 1 \in Nat /\ PushChunk \in Nat \ {0}
  BY OpsFinite, SpaceSyncAssumption
<1>2. n \in Nat
  BY <1>1
<1>3. \A i \in 1 .. n : FirstOf(S, i * PushChunk) \ FirstOf(S, (i - 1) * PushChunk) \in SUBSET Op
  BY DEF FirstOf
<1> HIDE DEF n
<1>4. [i \in 1 .. n |-> FirstOf(S, i * PushChunk) \ FirstOf(S, (i - 1) * PushChunk)]
        \in Seq(SUBSET Op)
  BY <1>2, <1>3
<1> QED BY <1>4 DEF Chunked, n

(* Request builds a request,                                               *)
LEMMA RequestType ==
  ASSUME NEW a \in Phases, NEW S \in SUBSET Op, NEW n \in 0 .. PushTries
  PROVE  Request(a, S, n) \in Requests
BY NoRowsType DEF Request, Requests

(* NewReq one that is sent,                                                *)
LEMMA NewRequestType ==
  /\ NoReq \in Requests
  /\ \A S \in SUBSET Op : NewReq(S) \in Requests
<1>1. PushTries \in Nat /\ PushTries >= 1
  BY SpaceSyncAssumption
<1> QED BY <1>1, RequestType DEF Phases, NoReq, NewReq

(* and Answer one that is answered.                                        *)
LEMMA AnswerType ==
  ASSUME NEW c, req[c] \in Requests, NEW a \in Phases
  PROVE  Answer(c, a) \in Requests
<1>1. PushTries \in Nat /\ req[c].ops \in SUBSET Op
  BY SpaceSyncAssumption DEF Requests
<1> QED BY <1>1, RequestType DEF Answer

(* The initial states satisfy the invariant.                               *)
LEMMA InitType == Init => TypeInv
<1> SUFFICES ASSUME Init PROVE TypeInv
  OBVIOUS
<1>1. NoReq \in Requests
  BY NewRequestType
<1>2. Idle \in Round
  BY DEF Round, AppPcs, Idle
<1>3. Asleep \in WorkerEvent
  BY DEF WorkerEvent, SwPcs, Asleep
<1>4. TypeOK
  BY <1>1, <1>2, <1>3, NoRowsType, SpaceSyncAssumption DEF Init, TypeOK
<1>5. \A d \in Device : RoundOK(d) /\ sw[d].latest <= lastSeq
  BY DEF Init, RoundOK, Idle, Asleep, App, Lane
<1> QED BY <1>4, <1>5 DEF TypeInv

(* What the invariant says of one device, ready to use.                    *)
LEMMA TypeFacts ==
  ASSUME TypeInv
  PROVE  /\ lastSeq \in Nat /\ seq \in [Op -> 0 .. lastSeq] /\ srow \in Rows
         /\ \A c \in Lane : req[c] \in Requests
         /\ \A d \in Device :
              /\ app[d] \in Round /\ sw[d] \in WorkerEvent
              /\ rows[d] \in Rows
              /\ outbox[d] \in SUBSET Op /\ parked[d] \in SUBSET Op
              /\ seen[d] \in SUBSET Op
              /\ cursor[d] \in 0 .. lastSeq
              /\ App(d) \in Lane /\ Worker(d) \in Lane /\ UserOf[d] \in User
BY SpaceSyncAssumption DEF TypeInv, TypeOK, Lane, App, Worker

(* A local write stores the op it was given.                               *)
LEMMA EditType ==
  ASSUME TypeInv, NEW d \in Device, NEW op \in Op, Edit(d, op)
  PROVE  TypeInv'
<1>1. Put(rows[d], op) \in Rows
  BY TypeFacts, OpsTyped, PutType
<1>2. TypeOK'
  BY <1>1 DEF TypeInv, TypeOK, Edit, server, memory
<1>3. \A e \in Device : RoundOK(e)' /\ sw'[e].latest <= lastSeq'
  BY DEF TypeInv, RoundOK, App, Edit, server, memory
<1> QED BY <1>2, <1>3 DEF TypeInv

(* What the server does to a request keeps it the request of its chunk.    *)
LEMMA ServeRequests ==
  ASSUME TypeInv, NEW c \in Lane, Serve(c)
  PROVE  /\ req' \in [Lane -> Requests]
         /\ \A l \in Lane : l[2] # "stray" =>
              /\ req'[l].ops = req[l].ops
              /\ req'[l] # NoReq => req[l] # NoReq
<1>1. /\ req[c] \in Requests /\ req \in [Lane -> Requests]
      /\ NoReq \in Requests /\ \A a \in Phases : Answer(c, a) \in Requests
  BY TypeFacts, NewRequestType, AnswerType DEF TypeInv, TypeOK
<1>2. Answer(c, "200") \in Requests /\ Answer(c, "400") \in Requests
      /\ Answer(c, "403") \in Requests /\ Answer(c, "500") \in Requests
  BY <1>1 DEF Phases
<1>3. req[c].phase \in {"sent", "read"} /\ req[c] # NoReq
  BY DEF Serve, Receive, Collide, Commit, NoReq, Request
<1>4. \A a : Answer(c, a).ops = req[c].ops
  BY DEF Answer, Request
<1>5. ASSUME NEW a \in {"200", "400", "403", "500"}, Reply(c, a)
      PROVE  /\ req' \in [Lane -> Requests]
             /\ \A l \in Lane : l[2] # "stray" =>
                  /\ req'[l].ops = req[l].ops
                  /\ req'[l] # NoReq => req[l] # NoReq
  BY <1>1, <1>2, <1>3, <1>4, <1>5 DEF Reply
<1>6. CASE Receive(c)
  <2>1. CASE req' = [req EXCEPT ![c].phase = "read", ![c].at = lastSeq, ![c].rows = srow,
                                ![c].known = req[c].ops \cap Landed]
    BY <1>1, <1>3, <2>1, TypeFacts DEF Requests, Phases, Landed
  <2> QED BY <1>5, <1>6, <2>1 DEF Receive
<1>7. CASE Collide(c)
  <2>1. CASE /\ req[c].tries < PushTries
             /\ req' = [req EXCEPT ![c] = Request("sent", req[c].ops, req[c].tries + 1)]
    <3>1. req[c].tries + 1 \in 0 .. PushTries /\ req[c].ops \in SUBSET Op /\ "sent" \in Phases
      BY <1>1, <2>1, SpaceSyncAssumption DEF Requests, Phases
    <3>2. Request("sent", req[c].ops, req[c].tries + 1) \in Requests
      BY <3>1, RequestType
    <3>3. Request("sent", req[c].ops, req[c].tries + 1).ops = req[c].ops
      BY DEF Request
    <3> QED BY <1>1, <1>3, <2>1, <3>2, <3>3
  <2> QED BY <1>5, <1>7, <2>1 DEF Collide
<1>8. CASE Commit(c)
  BY <1>5, <1>8 DEF Commit
<1> QED BY <1>6, <1>7, <1>8 DEF Serve

(* Commit moves the log forward by the accepted ops.                       *)
LEMMA CommitType ==
  ASSUME TypeInv, NEW c \in Lane, Commit(c)
  PROVE  /\ lastSeq' \in Nat /\ lastSeq <= lastSeq'
         /\ seq' \in [Op -> 0 .. lastSeq']
         /\ srow' \in Rows
         /\ role' \in [User -> {"none", "owner", "contributor", "reader"}]
         /\ granted' \in SUBSET User
<1> DEFINE r == req[c]
           new == Accepted(r)
<1>1. r \in Requests /\ new \in SUBSET Op /\ r.at \in Nat /\ r.rows \in Rows
  BY TypeFacts DEF Requests, Accepted
<1>2. lastSeq \in Nat /\ seq \in [Op -> 0 .. lastSeq] /\ srow \in Rows
  BY TypeFacts
<1>3. Cardinality(new) \in Nat /\ \A op \in new : Rank(new, op) \in 1 .. Cardinality(new)
  <2> HIDE DEF new
  <2> QED BY <1>1, OpsFinite, RankInRange
<1>4. new = {} \/ r.at = lastSeq
  BY DEF Commit, IsUniqueViolation
<1>5. /\ seq' = [op \in Op |-> IF op \in new THEN r.at + Rank(new, op) ELSE seq[op]]
      /\ lastSeq' = IF new = {} THEN lastSeq ELSE r.at + Cardinality(new)
      /\ srow' = [e \in Entity |-> IF \E op \in new : op.entity = e
                                   THEN MergeOps(r.rows, new)[e] ELSE srow[e]]
      /\ role' = IF r.at = 0 THEN [role EXCEPT ![UserOf[c[1]]] = "owner"] ELSE role
      /\ granted' = IF r.at = 0 THEN granted \cup {UserOf[c[1]]} ELSE granted
  BY DEF Commit
<1>6. MergeOps(r.rows, new) \in Rows
  BY <1>1, OpsTyped, MergeOpsType
<1>7. UserOf[c[1]] \in User
  BY SpaceSyncAssumption DEF Lane
<1> HIDE DEF new, r
<1>8. lastSeq' \in Nat /\ lastSeq <= lastSeq'
  BY <1>2, <1>3, <1>4, <1>5
<1>9. seq' \in [Op -> 0 .. lastSeq']
  BY <1>1, <1>2, <1>3, <1>4, <1>5
<1>10. srow' \in Rows
  BY <1>2, <1>5, <1>6 DEF Rows
<1>11. role' \in [User -> {"none", "owner", "contributor", "reader"}] /\ granted' \in SUBSET User
  BY <1>5, <1>7 DEF TypeInv, TypeOK
<1> QED BY <1>8, <1>9, <1>10, <1>11

(* The server's steps keep the invariant.                                  *)
LEMMA ServeType ==
  ASSUME TypeInv, NEW c \in Lane, Serve(c)
  PROVE  TypeInv'
<1>1. /\ req' \in [Lane -> Requests]
      /\ \A l \in Lane : l[2] # "stray" =>
           /\ req'[l].ops = req[l].ops
           /\ req'[l] # NoReq => req[l] # NoReq
  BY ServeRequests
<1>2. /\ lastSeq' \in Nat /\ lastSeq <= lastSeq'
      /\ seq' \in [Op -> 0 .. lastSeq']
      /\ srow' \in Rows
      /\ role' \in [User -> {"none", "owner", "contributor", "reader"}]
      /\ granted' \in SUBSET User
  <2>1. CASE Commit(c)
    BY <2>1, CommitType
  <2>2. CASE Receive(c) \/ Collide(c)
    <3>1. UNCHANGED <<server, history>>
      BY <2>2 DEF Receive, Collide
    <3> QED BY <3>1 DEF TypeInv, TypeOK, server, history
  <2> QED BY <2>1, <2>2 DEF Serve
<1>3. UNCHANGED <<stored, memory, refused, made, moves, faults>>
  BY DEF Serve, Receive, Collide, Commit, server, history
<1>4. TypeOK'
  BY <1>1, <1>2, <1>3 DEF TypeInv, TypeOK, stored, memory
<1>5. ASSUME NEW d \in Device PROVE RoundOK(d)' /\ sw'[d].latest <= lastSeq'
  <2>1. App(d) \in Lane /\ App(d)[2] # "stray"
    BY DEF App, Lane
  <2>2. /\ req'[App(d)].ops = req[App(d)].ops
        /\ req'[App(d)] # NoReq => req[App(d)] # NoReq
    BY <1>1, <2>1
  <2>3. app[d].latest \in Nat /\ sw[d].latest \in Nat /\ lastSeq \in Nat
    BY TypeFacts DEF Round, WorkerEvent
  <2>4. RoundOK(d) /\ sw[d].latest <= lastSeq
    BY DEF TypeInv
  <2>5. app' = app /\ sw' = sw /\ App(d)' = App(d) /\ NoReq' = NoReq
    BY <1>3 DEF memory, App
  <2> QED BY <1>2, <2>2, <2>3, <2>4, <2>5 DEF RoundOK
<1> QED BY <1>4, <1>5 DEF TypeInv

(***************************************************************************)
(* A step of one device's app that leaves the log and the worker alone     *)
(* keeps the invariant if what it stores has its type and its round is in  *)
(* order.                                                                  *)
(***************************************************************************)
StoredType ==
  /\ rows \in [Device -> Rows]
  /\ outbox \in [Device -> SUBSET Op] /\ parked \in [Device -> SUBSET Op]
  /\ seen \in [Device -> SUBSET Op]
  /\ cursor \in [Device -> 0 .. lastSeq] /\ evicted \in [Device -> BOOLEAN]
  /\ offered \in [Device -> BOOLEAN]

(* What is left to show of a step of the app or of its failure: the app's  *)
(* own variables.                                                          *)
LEMMA AppFaultType ==
  ASSUME TypeInv, NEW d \in Device, NEW x \in Round,
         app' = [app EXCEPT ![d] = x],
         UNCHANGED <<server, sw, made, granted, moves>>, faults' \in 0 .. MaxFaults,
         StoredType',
         req' \in [Lane -> Requests],
         \A e \in Device \ {d} : req'[App(e)] = req[App(e)],
         x.latest <= lastSeq,
         x.pc \in {"apply", "stamp"} => x.page # {},
         req'[App(d)] # NoReq =>
           \/ x.pc = "retry"
           \/ x.pc = "push" /\ x.chunks # <<>> /\ req'[App(d)].ops = Head(x.chunks)
  PROVE  TypeInv'
<1>1. /\ app \in [Device -> Round] /\ app' \in [Device -> Round] /\ app'[d] = x
      /\ \A e \in Device \ {d} : app'[e] = app[e]
  BY DEF TypeInv, TypeOK
<1>2. TypeOK'
  BY <1>1 DEF TypeInv, TypeOK, StoredType, server
<1>3. ASSUME NEW e \in Device PROVE RoundOK(e)' /\ sw'[e].latest <= lastSeq'
  <2>1. lastSeq' = lastSeq /\ sw' = sw /\ NoReq' = NoReq /\ App(e)' = App(e)
    BY DEF server, App
  <2>2. RoundOK(e) /\ sw[e].latest <= lastSeq
    BY DEF TypeInv
  <2>3. CASE e = d
    BY <1>1, <2>1, <2>2, <2>3 DEF RoundOK
  <2>4. CASE e # d
    BY <1>1, <2>1, <2>2, <2>4 DEF RoundOK
  <2> QED BY <2>3, <2>4
<1> QED BY <1>2, <1>3 DEF TypeInv

(* Without a failure the bookkeeping stands still.                         *)
LEMMA AppType ==
  ASSUME TypeInv, NEW d \in Device, NEW x \in Round,
         app' = [app EXCEPT ![d] = x],
         UNCHANGED <<server, sw, history>>, StoredType',
         req' \in [Lane -> Requests],
         \A e \in Device \ {d} : req'[App(e)] = req[App(e)],
         x.latest <= lastSeq,
         x.pc \in {"apply", "stamp"} => x.page # {},
         req'[App(d)] # NoReq =>
           \/ x.pc = "retry"
           \/ x.pc = "push" /\ x.chunks # <<>> /\ req'[App(d)].ops = Head(x.chunks)
  PROVE  TypeInv'
<1>1. UNCHANGED <<server, sw, made, granted, moves>> /\ faults' \in 0 .. MaxFaults
  BY DEF history, TypeInv, TypeOK
<1> QED BY <1>1, AppFaultType

(* What every device stores has its type, and keeps it when left alone.    *)
LEMMA StoredFacts ==
  ASSUME TypeInv
  PROVE  /\ StoredType
         /\ app \in [Device -> Round] /\ req \in [Lane -> Requests]
         /\ lastSeq \in Nat
BY DEF TypeInv, TypeOK, StoredType

(* A round's record stays one when its fields are set.                     *)
LEMMA RoundFacts ==
  ASSUME TypeInv, NEW d \in Device
  PROVE  /\ app[d] \in Round /\ app[d].latest \in Nat /\ app[d].latest <= lastSeq
         /\ app[d].pc \in {"apply", "stamp"} => app[d].page # {}
         /\ Idle \in Round /\ Idle.latest <= lastSeq /\ Idle.pc = "idle"
         /\ App(d) \in Lane
<1>1. Idle \in Round /\ Idle.latest = 0 /\ Idle.pc = "idle"
  BY DEF Round, AppPcs, Idle
<1>2. Idle.latest <= lastSeq
  <2>1. 0 <= lastSeq
    BY TypeFacts
  <2> QED BY <1>1, <2>1
<1> QED BY <1>1, <1>2, TypeFacts DEF TypeInv, RoundOK, Round

(* A purge leaves the device's storage well typed.                         *)
LEMMA PurgeType ==
  ASSUME TypeInv, NEW d \in Device, Purge(d), lastSeq' = lastSeq,
         evicted' \in [Device -> BOOLEAN], offered' \in [Device -> BOOLEAN]
  PROVE  StoredType'
<1>1. NoRows \in Rows /\ 0 \in 0 .. lastSeq
  BY NoRowsType, StoredFacts
<1> QED BY <1>1, StoredFacts DEF Purge, StoredType

(* A round starts with nothing in hand, or the space is purged.            *)
LEMMA StartRoundType ==
  ASSUME TypeInv, NEW d \in Device, StartRound(d)
  PROVE  TypeInv'
<1>1. CASE Purge(d) /\ UNCHANGED <<evicted, app>>
  <2>1. StoredType'
    BY <1>1, StoredFacts, PurgeType DEF StartRound, server, StoredType
  <2>2. app' = [app EXCEPT ![d] = app[d]]
    BY <1>1, StoredFacts
  <2> QED BY <2>1, <2>2, StoredFacts, RoundFacts, AppType DEF StartRound, TypeInv, RoundOK
<1>2. CASE ClearTombstone(d) /\ Go(d, "retry") /\ UNCHANGED <<rows, outbox, parked, cursor, seen>>
  <2>1. StoredType'
    BY <1>2, StoredFacts DEF StartRound, ClearTombstone, StoredType, server
  <2> DEFINE x == [app[d] EXCEPT !.pc = "retry"]
  <2>2. app' = [app EXCEPT ![d] = x]
    BY <1>2 DEF Go
  <2>3. x \in Round /\ x.latest = app[d].latest /\ x.pc = "retry"
    BY RoundFacts DEF Round, AppPcs
  <2> HIDE DEF x
  <2> QED BY <2>1, <2>2, <2>3, StoredFacts, RoundFacts, AppType DEF StartRound
<1> QED BY <1>1, <1>2 DEF StartRound

(* The parked ops read are ops.                                            *)
LEMMA ReadParkedType ==
  ASSUME TypeInv, NEW d \in Device, ReadParked(d)
  PROVE  TypeInv'
<1> DEFINE x == [app[d] EXCEPT !.all = parked[d], !.left = parked[d]]
<1>1. StoredType'
  BY StoredFacts DEF ReadParked, StoredType, stored, server
<1>2. app' = [app EXCEPT ![d] = x]
  BY DEF ReadParked
<1>3. x \in Round /\ x.latest = app[d].latest /\ x.pc = "retry"
  BY RoundFacts, TypeFacts DEF ReadParked, Round
<1> HIDE DEF x
<1> QED BY <1>1, <1>2, <1>3, StoredFacts, RoundFacts, AppType DEF ReadParked

(* A request leaves the app.                                               *)
LEMMA SendType ==
  ASSUME TypeInv, NEW d \in Device, NEW S \in SUBSET Op, Send(App(d), S)
  PROVE  /\ req' \in [Lane -> Requests] /\ req'[App(d)].ops = S
         /\ \A e \in Device \ {d} : req'[App(e)] = req[App(e)]
<1> DEFINE n == NewReq(S)
<1>1. n \in Requests /\ n.ops = S
  BY NewRequestType DEF NewReq, Request
<1>2. req' = [req EXCEPT ![App(d)] = n]
  BY DEF Send
<1> HIDE DEF n
<1> QED BY <1>1, <1>2, StoredFacts, RoundFacts DEF App

(* A parked op is offered by a round in `retry'.                           *)
LEMMA OfferParkedType ==
  ASSUME TypeInv, NEW d \in Device, OfferParked(d)
  PROVE  TypeInv'
<1>1. StoredType'
  BY StoredFacts DEF OfferParked, StoredType, stored, server, memory
<1>2. app' = [app EXCEPT ![d] = app[d]] /\ sw' = sw
  BY StoredFacts DEF OfferParked, memory
<1>3. PICK S \in SUBSET Op : Send(App(d), S)
  <2>1. app[d].left \in SUBSET Op
    BY RoundFacts DEF Round
  <2> QED BY <2>1 DEF OfferParked
<1>4. /\ req' \in [Lane -> Requests]
      /\ \A e \in Device \ {d} : req'[App(e)] = req[App(e)]
  BY <1>3, SendType
<1> QED BY <1>1, <1>2, <1>4, RoundFacts, AppType DEF OfferParked

(* The answer is consumed.                                                 *)
LEMMA ConsumeType ==
  ASSUME TypeInv, NEW d \in Device, req' = [req EXCEPT ![App(d)] = NoReq]
  PROVE  /\ req' \in [Lane -> Requests] /\ req'[App(d)] = NoReq
         /\ \A e \in Device \ {d} : req'[App(e)] = req[App(e)]
BY StoredFacts, RoundFacts, NewRequestType DEF App

(* The answered op leaves those still to offer.                            *)
LEMMA ParkedAnsweredType ==
  ASSUME TypeInv, NEW d \in Device, ParkedAnswered(d)
  PROVE  TypeInv'
<1> DEFINE r == req[App(d)]
           x == [app[d] EXCEPT
                   !.left = IF r.phase = "403" THEN {} ELSE @ \ r.ops,
                   !.took = IF r.phase = "200" THEN @ \cup r.ops ELSE @]
<1>1. StoredType'
  BY StoredFacts DEF ParkedAnswered, StoredType, stored, server
<1>2. app' = [app EXCEPT ![d] = x]
  BY DEF ParkedAnswered
<1>3. r.ops \in SUBSET Op
  BY RoundFacts, StoredFacts DEF Requests
<1>4. x \in Round /\ x.latest = app[d].latest /\ x.pc = "retry"
  <2> HIDE DEF r
  <2> QED BY <1>3, RoundFacts DEF ParkedAnswered, Round
<1> HIDE DEF x
<1> QED BY <1>1, <1>2, <1>4, ConsumeType, RoundFacts, AppType DEF ParkedAnswered

(* The parked list is rewritten and the outbox cut into chunks.            *)
LEMMA EndRetryType ==
  ASSUME TypeInv, NEW d \in Device, EndRetry(d)
  PROVE  TypeInv'
<1> DEFINE x == [Idle EXCEPT !.pc = "push", !.chunks = Chunked(outbox[d])]
<1>1. app[d].all \ app[d].took \in SUBSET Op
  BY RoundFacts DEF Round
<1>2. StoredType'
  BY <1>1, StoredFacts DEF EndRetry, StoredType, server
<1>3. app' = [app EXCEPT ![d] = x]
  BY DEF EndRetry
<1>4. Chunked(outbox[d]) \in Seq(SUBSET Op)
  BY TypeFacts, ChunkedType
<1>5. x \in Round /\ x.latest = Idle.latest /\ x.pc = "push"
  BY <1>4, RoundFacts DEF Round, AppPcs
<1>6. req' = req /\ req'[App(d)] = NoReq /\ UNCHANGED <<server, sw, history>>
  BY DEF EndRetry
<1> HIDE DEF x
<1> QED BY <1>2, <1>3, <1>5, <1>6, StoredFacts, RoundFacts, AppType

(* The head of the chunks becomes the request.                             *)
LEMMA PushNextType ==
  ASSUME TypeInv, NEW d \in Device, PushNext(d)
  PROVE  TypeInv'
<1>1. StoredType'
  BY StoredFacts DEF PushNext, StoredType, stored, server, memory
<1>2. app' = [app EXCEPT ![d] = app[d]] /\ sw' = sw
  BY StoredFacts DEF PushNext, memory
<1>3. Head(app[d].chunks) \in SUBSET Op
  BY RoundFacts DEF Round, PushNext
<1>4. /\ req' \in [Lane -> Requests] /\ req'[App(d)].ops = Head(app[d].chunks)
      /\ \A e \in Device \ {d} : req'[App(e)] = req[App(e)]
  BY <1>3, SendType DEF PushNext
<1> QED BY <1>1, <1>2, <1>4, RoundFacts, AppType DEF PushNext

(* A round that ends is back to Idle.                                      *)
LEMMA EndRoundType ==
  ASSUME TypeInv, NEW d \in Device, EndRound(d)
  PROVE  \E x \in Round : /\ app' = [app EXCEPT ![d] = x] /\ x.latest <= lastSeq
                          /\ x.pc \notin {"apply", "stamp"}
<1>1. app' = [app EXCEPT ![d] = Idle]
  BY DEF EndRound
<1>2. Idle.pc \notin {"apply", "stamp"}
  BY DEF Idle
<1> QED BY <1>1, <1>2, RoundFacts

(* Each of the four answers leaves chunks, outbox and quarantine well      *)
(* typed.                                                                  *)
LEMMA PushAnsweredType ==
  ASSUME TypeInv, NEW d \in Device, PushAnswered(d)
  PROVE  TypeInv'
<1> DEFINE S == Head(app[d].chunks)
           rest == Tail(app[d].chunks)
           half == FirstOf(S, (Cardinality(S) + 1) \div 2)
<1>1. app[d].pc = "push" /\ app[d].chunks # <<>>
  BY DEF TypeInv, RoundOK, PushAnswered, Answered, NoReq, Request
<1>2. S \in SUBSET Op /\ rest \in Seq(SUBSET Op)
  BY <1>1, RoundFacts DEF Round
<1>3. half \in SUBSET Op
  BY <1>2 DEF FirstOf
<1>4. StoredType'
  <2>1. /\ outbox' = outbox \/ outbox' = [outbox EXCEPT ![d] = @ \ S]
        /\ parked' = parked \/ parked' = [parked EXCEPT ![d] = @ \cup S]
        /\ UNCHANGED <<rows, seen, cursor, evicted, offered, lastSeq>>
    BY DEF PushAnswered, Quarantine, server
  <2> HIDE DEF S
  <2> QED BY <1>2, <2>1, StoredFacts DEF StoredType
<1>5. UNCHANGED <<server, sw, history>> /\ req' = [req EXCEPT ![App(d)] = NoReq]
  BY DEF PushAnswered
<1>6. PICK x \in Round : app' = [app EXCEPT ![d] = x] /\ x.latest <= lastSeq
                          /\ x.pc \notin {"apply", "stamp"}
  <2>1. CASE app' = [app EXCEPT ![d].chunks = rest]
    <3> DEFINE x == [app[d] EXCEPT !.chunks = rest]
    <3>1. app' = [app EXCEPT ![d] = x]
      BY <2>1
    <3>2. x \in Round /\ x.latest = app[d].latest /\ x.pc = "push"
      <4> HIDE DEF rest
      <4> QED BY <1>1, <1>2, RoundFacts DEF Round
    <3> HIDE DEF x
    <3> QED BY <3>1, <3>2, RoundFacts
  <2>2. CASE app' = [app EXCEPT ![d].pc = "unqueue", ![d].unq = S, ![d].chunks = rest]
    <3> DEFINE x == [app[d] EXCEPT !.pc = "unqueue", !.unq = S, !.chunks = rest]
    <3>1. app' = [app EXCEPT ![d] = x]
      BY <2>2
    <3>2. x \in Round /\ x.latest = app[d].latest /\ x.pc = "unqueue"
      <4> HIDE DEF rest, S
      <4> QED BY <1>1, <1>2, RoundFacts DEF Round, AppPcs
    <3> HIDE DEF x
    <3> QED BY <3>1, <3>2, RoundFacts
  <2>3. CASE app' = [app EXCEPT ![d].chunks = <<half, S \ half>> \o rest]
    <3> DEFINE cs == <<half, S \ half>> \o rest
               x == [app[d] EXCEPT !.chunks = cs]
    <3>1. app' = [app EXCEPT ![d] = x]
      BY <2>3
    <3>2. cs \in Seq(SUBSET Op)
      <4>1. S \ half \in SUBSET Op
        BY <1>2
      <4> HIDE DEF S, half, rest
      <4> QED BY <1>2, <1>3, <4>1
    <3>3. x \in Round /\ x.latest = app[d].latest /\ x.pc = "push"
      <4> HIDE DEF cs
      <4> QED BY <1>1, <3>2, RoundFacts DEF Round
    <3> HIDE DEF x
    <3> QED BY <3>1, <3>3, RoundFacts
  <2>4. CASE app' = [app EXCEPT ![d].denied = TRUE, ![d].chunks = <<>>]
    <3> DEFINE cs == <<>>
               x == [app[d] EXCEPT !.denied = TRUE, !.chunks = cs]
    <3>1. app' = [app EXCEPT ![d] = x]
      BY <2>4
    <3>2. x \in Round /\ x.latest = app[d].latest /\ x.pc = "push"
      <4>1. cs \in Seq(SUBSET Op)
        OBVIOUS
      <4> HIDE DEF cs
      <4> QED BY <1>1, <4>1, RoundFacts DEF Round
    <3> HIDE DEF x
    <3> QED BY <3>1, <3>2, RoundFacts
  <2>5. CASE EndRound(d)
    BY <2>5, EndRoundType
  <2> QED BY <2>1, <2>2, <2>3, <2>4, <2>5 DEF PushAnswered
<1> QED BY <1>4, <1>5, <1>6, ConsumeType, RoundFacts, AppType

(* What was parked leaves the outbox.                                      *)
LEMMA UnqueueType ==
  ASSUME TypeInv, NEW d \in Device, Unqueue(d)
  PROVE  TypeInv'
<1>1. StoredType'
  BY StoredFacts DEF Unqueue, StoredType, server
<1>2. UNCHANGED <<server, sw, history, req>> /\ req[App(d)] = NoReq
  BY DEF Unqueue, TypeInv, RoundOK
<1>3. PICK x \in Round : app' = [app EXCEPT ![d] = x] /\ x.latest <= lastSeq
                          /\ x.pc \notin {"apply", "stamp"}
  <2>1. CASE app' = [app EXCEPT ![d].pc = "push", ![d].unq = {}]
    <3> DEFINE x == [app[d] EXCEPT !.pc = "push", !.unq = {}]
    <3>1. app' = [app EXCEPT ![d] = x]
      BY <2>1
    <3>2. x \in Round /\ x.latest = app[d].latest /\ x.pc = "push"
      BY RoundFacts DEF Round, AppPcs
    <3> HIDE DEF x
    <3> QED BY <3>1, <3>2, RoundFacts
  <2>2. CASE EndRound(d)
    BY <2>2, EndRoundType
  <2> QED BY <2>1, <2>2 DEF Unqueue
<1> QED BY <1>1, <1>2, <1>3, StoredFacts, AppType

(* The pull starts from the stored cursor.                                 *)
LEMMA StartPullType ==
  ASSUME TypeInv, NEW d \in Device, StartPull(d)
  PROVE  TypeInv'
<1> DEFINE x == [app[d] EXCEPT !.pc = "head", !.since = cursor[d]]
<1>1. StoredType'
  BY StoredFacts DEF StartPull, StoredType, stored, server
<1>2. app' = [app EXCEPT ![d] = x]
  BY DEF StartPull
<1>3. x \in Round /\ x.latest = app[d].latest /\ x.pc = "head"
  <2>1. cursor[d] \in Nat
    BY TypeFacts
  <2> QED BY <2>1, RoundFacts DEF Round, AppPcs
<1>4. req' = req /\ req'[App(d)] = NoReq /\ UNCHANGED <<server, sw, history>>
  BY DEF StartPull
<1> HIDE DEF x
<1> QED BY <1>1, <1>2, <1>3, <1>4, StoredFacts, RoundFacts, AppType

(* Only a round that pushes has a request of the app under way.            *)
LEMMA NoRequest ==
  ASSUME TypeInv, NEW d \in Device, app[d].pc \notin {"retry", "push"}
  PROVE  req[App(d)] = NoReq
BY DEF TypeInv, RoundOK

(* The head read is a position of the log.                                 *)
LEMMA PullHeadType ==
  ASSUME TypeInv, NEW d \in Device, PullHead(d)
  PROVE  TypeInv'
<1>1. StoredType'
  BY StoredFacts DEF PullHead, StoredType, server
<1>2. PICK x \in Round : app' = [app EXCEPT ![d] = x] /\ x.latest <= lastSeq
                          /\ x.pc \notin {"apply", "stamp"}
  <2>1. CASE app' = [app EXCEPT ![d].pc = "ops", ![d].latest = lastSeq]
    <3> DEFINE x == [app[d] EXCEPT !.pc = "ops", !.latest = lastSeq]
    <3>1. app' = [app EXCEPT ![d] = x]
      BY <2>1
    <3>2. x \in Round /\ x.latest = lastSeq /\ x.pc = "ops"
      BY StoredFacts, RoundFacts DEF Round, AppPcs
    <3>3. x.latest <= lastSeq
      <4>1. lastSeq <= lastSeq
        BY StoredFacts
      <4> QED BY <3>2, <4>1
    <3> HIDE DEF x
    <3> QED BY <3>1, <3>2, <3>3
  <2>2. CASE Go(d, "purge")
    <3> DEFINE x == [app[d] EXCEPT !.pc = "purge"]
    <3>1. app' = [app EXCEPT ![d] = x]
      BY <2>2 DEF Go
    <3>2. x \in Round /\ x.latest = app[d].latest /\ x.pc = "purge"
      BY RoundFacts DEF Round, AppPcs
    <3> HIDE DEF x
    <3> QED BY <3>1, <3>2, RoundFacts
  <2> QED BY <2>1, <2>2 DEF PullHead
<1>3. req' = req /\ req'[App(d)] = NoReq /\ UNCHANGED <<server, sw, history>>
  BY NoRequest DEF PullHead
<1> QED BY <1>1, <1>2, <1>3, StoredFacts, AppType

(* A page after the cursor lies in the log.                                *)
LEMMA PullOpsType ==
  ASSUME TypeInv, NEW d \in Device, PullOps(d)
  PROVE  TypeInv'
<1> DEFINE P == PageAfter(app[d].since)
           l == IF P = {} THEN "drained" ELSE "apply"
           x == [app[d] EXCEPT !.page = P, !.pc = l]
<1>1. StoredType'
  BY StoredFacts DEF PullOps, StoredType, stored, server
<1>2. app' = [app EXCEPT ![d] = x]
  BY DEF PullOps
<1>3. P \in SUBSET Op
  BY DEF PageAfter, After
<1>4. l \in AppPcs /\ (l # "drained" => P # {}) /\ l # "stamp"
  BY DEF AppPcs
<1>5. x \in Round /\ x.latest = app[d].latest /\ x.pc = l /\ x.page = P
  <2> HIDE DEF P, l
  <2> QED BY <1>3, <1>4, RoundFacts DEF Round
<1>6. req' = req /\ req'[App(d)] = NoReq /\ UNCHANGED <<server, sw, history>>
  BY NoRequest DEF PullOps
<1> HIDE DEF x, l, P
<1> QED BY <1>1, <1>2, <1>4, <1>5, <1>6, StoredFacts, RoundFacts, AppType

(* Merging a page of ops keeps the rows' type.                             *)
LEMMA ApplyType ==
  ASSUME TypeInv, NEW d \in Device, NEW P \in SUBSET Op, Apply(d, P)
  PROVE  rows' \in [Device -> Rows] /\ seen' \in [Device -> SUBSET Op]
<1>1. MergeOps(rows[d], P) \in Rows
  BY TypeFacts, OpsTyped, MergeOpsType
<1> QED BY <1>1, StoredFacts DEF Apply, StoredType

(* The page is merged into the rows.                                       *)
LEMMA PullApplyType ==
  ASSUME TypeInv, NEW d \in Device, PullApply(d)
  PROVE  TypeInv'
<1> DEFINE x == [app[d] EXCEPT !.pc = "stamp"]
<1>1. app[d].page \in SUBSET Op /\ app[d].page # {}
  BY RoundFacts DEF Round, PullApply
<1>2. StoredType'
  BY <1>1, ApplyType, StoredFacts DEF PullApply, StoredType, server
<1>3. app' = [app EXCEPT ![d] = x]
  BY DEF PullApply, Go
<1>4. x \in Round /\ x.latest = app[d].latest /\ x.page = app[d].page
  BY RoundFacts DEF Round, AppPcs
<1>5. req' = req /\ req'[App(d)] = NoReq /\ UNCHANGED <<server, sw, history>>
  BY NoRequest DEF PullApply
<1> HIDE DEF x
<1> QED BY <1>1, <1>2, <1>3, <1>4, <1>5, StoredFacts, RoundFacts, AppType

(* nextSince is a position of the log.                                     *)
LEMMA NextSinceType ==
  ASSUME TypeInv, NEW P \in SUBSET Op, P # {}
  PROVE  NextSince(P) \in 0 .. lastSeq
<1> DEFINE T == {seq[op] : op \in P}
<1>1. T \in SUBSET (0 .. lastSeq) /\ T # {} /\ lastSeq \in Nat
  BY TypeFacts
<1>2. Newest(T) \in T
  <2> HIDE DEF T
  <2> QED BY <1>1, NewestIsMax
<1> QED BY <1>1, <1>2 DEF NextSince

(* The pull's last step ends the round or goes on to park.                 *)
LEMMA AfterPullType ==
  ASSUME TypeInv, NEW d \in Device, AfterPull(d)
  PROVE  \E x \in Round : /\ app' = [app EXCEPT ![d] = x] /\ x.latest <= lastSeq
                          /\ x.pc \notin {"apply", "stamp"}
<1>1. CASE Go(d, "park")
  <2> DEFINE x == [app[d] EXCEPT !.pc = "park"]
  <2>1. app' = [app EXCEPT ![d] = x]
    BY <1>1 DEF Go
  <2>2. x \in Round /\ x.latest = app[d].latest /\ x.pc = "park"
    BY RoundFacts DEF Round, AppPcs
  <2> HIDE DEF x
  <2> QED BY <2>1, <2>2, RoundFacts
<1> QED BY <1>1, EndRoundType DEF AfterPull

(* nextSince moves the cursor to a position of the log.                    *)
LEMMA PullStampType ==
  ASSUME TypeInv, NEW d \in Device, PullStamp(d)
  PROVE  TypeInv'
<1> DEFINE n == NextCursor(d)
<1>1. n \in 0 .. lastSeq /\ n \in Nat
  <2>1. app[d].page \in SUBSET Op /\ app[d].page # {}
    BY RoundFacts DEF Round, PullStamp
  <2> QED BY <2>1, NextSinceType, StoredFacts DEF NextCursor
<1>2. StoredType'
  <2>1. cursor' = [cursor EXCEPT ![d] = n] /\ UNCHANGED <<lastSeq, rows, outbox, parked, evicted, seen, offered>>
    BY DEF PullStamp, server
  <2> HIDE DEF n
  <2> QED BY <1>1, <2>1, StoredFacts DEF StoredType
<1>3. PICK x \in Round : app' = [app EXCEPT ![d] = x] /\ x.latest <= lastSeq
                          /\ x.pc \notin {"apply", "stamp"}
  <2>1. CASE app' = [app EXCEPT ![d].pc = "head", ![d].since = n, ![d].page = {}]
    <3> DEFINE x == [app[d] EXCEPT !.pc = "head", !.since = n, !.page = {}]
    <3>1. app' = [app EXCEPT ![d] = x]
      BY <2>1
    <3>2. x \in Round /\ x.latest = app[d].latest /\ x.pc = "head"
      <4> HIDE DEF n
      <4> QED BY <1>1, RoundFacts DEF Round, AppPcs
    <3> HIDE DEF x
    <3> QED BY <3>1, <3>2, RoundFacts
  <2> QED BY <2>1, AfterPullType DEF PullStamp
<1>4. req' = req /\ req'[App(d)] = NoReq /\ UNCHANGED <<server, sw, history>>
  BY NoRequest DEF PullStamp
<1> QED BY <1>2, <1>3, <1>4, StoredFacts, AppType

(* The head the answer reported is one, too.                               *)
LEMMA DrainedType ==
  ASSUME TypeInv, NEW d \in Device, Drained(d)
  PROVE  TypeInv'
<1>1. StoredType'
  <2>1. app[d].latest \in 0 .. lastSeq
    BY RoundFacts, StoredFacts
  <2>2. \/ cursor' = cursor
        \/ cursor' = [cursor EXCEPT ![d] = app[d].latest]
    BY DEF Drained
  <2>3. UNCHANGED <<lastSeq, rows, outbox, parked, evicted, seen, offered>>
    BY DEF Drained, server
  <2> QED BY <2>1, <2>2, <2>3, StoredFacts DEF StoredType
<1>2. PICK x \in Round : app' = [app EXCEPT ![d] = x] /\ x.latest <= lastSeq
                          /\ x.pc \notin {"apply", "stamp"}
  BY AfterPullType DEF Drained
<1>3. req' = req /\ req'[App(d)] = NoReq /\ UNCHANGED <<server, sw, history>>
  BY NoRequest DEF Drained
<1> QED BY <1>1, <1>2, <1>3, StoredFacts, AppType

(* A reader's outbox joins the quarantine.                                 *)
LEMMA ParkReadOnlyType ==
  ASSUME TypeInv, NEW d \in Device, ParkReadOnly(d)
  PROVE  TypeInv'
<1> DEFINE x == [app[d] EXCEPT !.pc = "unqueue", !.unq = outbox[d]]
<1>1. StoredType'
  BY StoredFacts DEF ParkReadOnly, Quarantine, StoredType, server
<1>2. app' = [app EXCEPT ![d] = x]
  BY DEF ParkReadOnly
<1>3. x \in Round /\ x.latest = app[d].latest /\ x.pc = "unqueue"
  BY TypeFacts, RoundFacts DEF Round, AppPcs
<1>4. req' = req /\ req'[App(d)] = NoReq /\ UNCHANGED <<server, sw, history>>
  BY NoRequest DEF ParkReadOnly
<1> HIDE DEF x
<1> QED BY <1>1, <1>2, <1>3, <1>4, StoredFacts, RoundFacts, AppType

(* An eviction purges and ends the round.                                  *)
LEMMA EvictPurgeType ==
  ASSUME TypeInv, NEW d \in Device, EvictPurge(d)
  PROVE  TypeInv'
<1>1. StoredType'
  BY StoredFacts, PurgeType DEF EvictPurge, server, StoredType
<1>2. PICK x \in Round : app' = [app EXCEPT ![d] = x] /\ x.latest <= lastSeq
                          /\ x.pc \notin {"apply", "stamp"}
  BY EndRoundType DEF EvictPurge
<1>3. req' = req /\ req'[App(d)] = NoReq /\ UNCHANGED <<server, sw, history>>
  BY NoRequest DEF EvictPurge
<1> QED BY <1>1, <1>2, <1>3, StoredFacts, AppType

(* The steps of a round together.                                          *)
LEMMA AppStepType ==
  ASSUME TypeInv, NEW d \in Device, AppStep(d)
  PROVE  TypeInv'
BY StartRoundType, ReadParkedType, OfferParkedType, ParkedAnsweredType, EndRetryType,
   PushNextType, PushAnsweredType, UnqueueType, StartPullType, PullHeadType, PullOpsType,
   PullApplyType, PullStampType, DrainedType, ParkReadOnlyType, EvictPurgeType
   DEF AppStep

(***************************************************************************)
(* The same for a step of one device's worker, which may send and consume  *)
(* requests of its own lane.                                               *)
(***************************************************************************)
LEMMA WorkerFaultType ==
  ASSUME TypeInv, NEW d \in Device, NEW x \in WorkerEvent,
         sw' = [sw EXCEPT ![d] = x], x.latest <= lastSeq,
         UNCHANGED <<server, app, made, granted, moves>>, faults' \in 0 .. MaxFaults,
         StoredType',
         req' \in [Lane -> Requests],
         \A e \in Device : req'[App(e)] = req[App(e)]
  PROVE  TypeInv'
<1>1. /\ sw \in [Device -> WorkerEvent] /\ sw' \in [Device -> WorkerEvent] /\ sw'[d] = x
      /\ \A e \in Device \ {d} : sw'[e] = sw[e]
  BY DEF TypeInv, TypeOK
<1>2. TypeOK'
  BY <1>1 DEF TypeInv, TypeOK, StoredType, server
<1>3. ASSUME NEW e \in Device PROVE RoundOK(e)' /\ sw'[e].latest <= lastSeq'
  <2>1. lastSeq' = lastSeq /\ app' = app /\ NoReq' = NoReq /\ App(e)' = App(e)
    BY DEF server, App
  <2>2. RoundOK(e) /\ sw[e].latest <= lastSeq
    BY DEF TypeInv
  <2>3. RoundOK(e)'
    BY <2>1, <2>2 DEF RoundOK
  <2>4. CASE e = d
    BY <1>1, <2>1, <2>3, <2>4
  <2>5. CASE e # d
    BY <1>1, <2>1, <2>2, <2>3, <2>5
  <2> QED BY <2>4, <2>5
<1> QED BY <1>2, <1>3 DEF TypeInv

(* Without a failure the bookkeeping stands still.                         *)
LEMMA WorkerType ==
  ASSUME TypeInv, NEW d \in Device, NEW x \in WorkerEvent,
         sw' = [sw EXCEPT ![d] = x], x.latest <= lastSeq,
         UNCHANGED <<server, app, history>>, StoredType',
         req' \in [Lane -> Requests],
         \A e \in Device : req'[App(e)] = req[App(e)]
  PROVE  TypeInv'
<1>1. UNCHANGED <<server, app, made, granted, moves>> /\ faults' \in 0 .. MaxFaults
  BY DEF history, TypeInv, TypeOK
<1> QED BY <1>1, WorkerFaultType

(* A worker event's record stays one when its fields are set.              *)
LEMMA WorkerFacts ==
  ASSUME TypeInv, NEW d \in Device
  PROVE  /\ sw[d] \in WorkerEvent /\ sw[d].latest \in 0 .. lastSeq /\ sw[d].latest <= lastSeq
         /\ Asleep \in WorkerEvent /\ Asleep.latest <= lastSeq
         /\ Worker(d) \in Lane /\ \A e \in Device : Worker(d) # App(e)
<1>1. Asleep \in WorkerEvent /\ Asleep.latest = 0
  BY DEF WorkerEvent, SwPcs, Asleep
<1>2. 0 <= lastSeq
  BY TypeFacts
<1>3. Asleep.latest <= lastSeq
  BY <1>1, <1>2
<1>4. sw[d] \in WorkerEvent /\ sw[d].latest <= lastSeq
  BY TypeFacts DEF TypeInv
<1>5. sw[d].latest \in 0 .. lastSeq
  BY <1>4, TypeFacts DEF WorkerEvent
<1>6. Worker(d) \in Lane /\ \A e \in Device : Worker(d) # App(e)
  BY DEF Worker, App, Lane
<1> QED BY <1>1, <1>3, <1>4, <1>5, <1>6

(* A worker's event over, or killed.                                       *)
LEMMA RestType ==
  ASSUME TypeInv, NEW d \in Device, Rest(d)
  PROVE  \E x \in WorkerEvent : sw' = [sw EXCEPT ![d] = x] /\ x.latest <= lastSeq
BY WorkerFacts DEF Rest

(* A wake-up reads the cursor.                                             *)
LEMMA WakePullType ==
  ASSUME TypeInv, NEW d \in Device, WakePull(d)
  PROVE  TypeInv'
<1> DEFINE x == [sw[d] EXCEPT !.pc = "head", !.since = cursor[d]]
<1>1. StoredType'
  BY StoredFacts DEF WakePull, StoredType, stored, server
<1>2. cursor[d] \in Nat
  BY TypeFacts
<1>3. x \in WorkerEvent /\ x.latest = sw[d].latest
  BY <1>2, WorkerFacts DEF WorkerEvent, SwPcs
<1>4. sw' = [sw EXCEPT ![d] = x] /\ req' = req /\ UNCHANGED <<server, app, history>>
  BY DEF WakePull
<1> HIDE DEF x
<1> QED BY <1>1, <1>3, <1>4, StoredFacts, WorkerFacts, WorkerType

(* The head the worker read is a position of the log.                      *)
LEMMA WorkerHeadType ==
  ASSUME TypeInv, NEW d \in Device, WorkerHead(d)
  PROVE  TypeInv'
<1>1. StoredType'
  BY StoredFacts DEF WorkerHead, StoredType, stored, server
<1>2. PICK x \in WorkerEvent : sw' = [sw EXCEPT ![d] = x] /\ x.latest <= lastSeq
  <2>1. CASE sw' = [sw EXCEPT ![d].pc = "ops", ![d].latest = lastSeq]
    <3> DEFINE x == [sw[d] EXCEPT !.pc = "ops", !.latest = lastSeq]
    <3>1. sw' = [sw EXCEPT ![d] = x]
      BY <2>1
    <3>2. x \in WorkerEvent /\ x.latest = lastSeq
      BY StoredFacts, WorkerFacts DEF WorkerEvent, SwPcs
    <3>3. x.latest <= lastSeq
      <4>1. lastSeq <= lastSeq
        BY StoredFacts
      <4> QED BY <3>2, <4>1
    <3> HIDE DEF x
    <3> QED BY <3>1, <3>2, <3>3
  <2> QED BY <2>1, RestType DEF WorkerHead
<1>3. req' = req /\ UNCHANGED <<server, app, history>>
  BY DEF WorkerHead
<1> QED BY <1>1, <1>2, <1>3, StoredFacts, WorkerType

(* The worker's page consists of ops.                                      *)
LEMMA WorkerOpsType ==
  ASSUME TypeInv, NEW d \in Device, WorkerOps(d)
  PROVE  TypeInv'
<1> DEFINE P == PageAfter(sw[d].since)
           x == [sw[d] EXCEPT !.pc = "apply", !.page = P]
<1>1. StoredType'
  BY StoredFacts DEF WorkerOps, StoredType, stored, server
<1>2. P \in SUBSET Op
  BY DEF PageAfter, After
<1>3. x \in WorkerEvent /\ x.latest = sw[d].latest
  <2> HIDE DEF P
  <2> QED BY <1>2, WorkerFacts DEF WorkerEvent, SwPcs
<1>4. sw' = [sw EXCEPT ![d] = x] /\ req' = req /\ UNCHANGED <<server, app, history>>
  BY DEF WorkerOps
<1> HIDE DEF x
<1> QED BY <1>1, <1>3, <1>4, StoredFacts, WorkerFacts, WorkerType

(* The worker merges its page into the rows.                               *)
LEMMA WorkerApplyType ==
  ASSUME TypeInv, NEW d \in Device, WorkerApply(d)
  PROVE  TypeInv'
<1> DEFINE x == [sw[d] EXCEPT !.pc = "stamp"]
<1>1. sw[d].page \in SUBSET Op
  BY WorkerFacts DEF WorkerEvent
<1>2. StoredType'
  BY <1>1, ApplyType, StoredFacts DEF WorkerApply, StoredType, server
<1>3. x \in WorkerEvent /\ x.latest = sw[d].latest
  BY WorkerFacts DEF WorkerEvent, SwPcs
<1>4. sw' = [sw EXCEPT ![d] = x] /\ req' = req /\ UNCHANGED <<server, app, history>>
  BY DEF WorkerApply
<1> HIDE DEF x
<1> QED BY <1>2, <1>3, <1>4, StoredFacts, WorkerFacts, WorkerType

(* The head it read bounds the cursor it stores.                           *)
LEMMA WorkerStampType ==
  ASSUME TypeInv, NEW d \in Device, WorkerStamp(d)
  PROVE  TypeInv'
<1>1. StoredType'
  <2>1. cursor' = cursor \/ cursor' = [cursor EXCEPT ![d] = sw[d].latest]
    BY DEF WorkerStamp, WorkerCursor
  <2>2. UNCHANGED <<lastSeq, rows, outbox, parked, evicted, seen, offered>>
    BY DEF WorkerStamp, server
  <2> QED BY <2>1, <2>2, WorkerFacts, StoredFacts DEF StoredType
<1>2. PICK x \in WorkerEvent : sw' = [sw EXCEPT ![d] = x] /\ x.latest <= lastSeq
  BY RestType DEF WorkerStamp
<1>3. req' = req /\ UNCHANGED <<server, app, history>>
  BY DEF WorkerStamp
<1> QED BY <1>1, <1>2, <1>3, StoredFacts, WorkerType

(* A flush reads the outbox.                                               *)
LEMMA WakeFlushType ==
  ASSUME TypeInv, NEW d \in Device, WakeFlush(d)
  PROVE  TypeInv'
<1> DEFINE x == [sw[d] EXCEPT !.pc = "flush", !.ops = outbox[d]]
<1>1. StoredType'
  BY StoredFacts DEF WakeFlush, StoredType, stored, server
<1>2. x \in WorkerEvent /\ x.latest = sw[d].latest
  BY TypeFacts, WorkerFacts DEF WorkerEvent, SwPcs
<1>3. sw' = [sw EXCEPT ![d] = x] /\ req' = req /\ UNCHANGED <<server, app, history>>
  BY DEF WakeFlush
<1> HIDE DEF x
<1> QED BY <1>1, <1>2, <1>3, StoredFacts, WorkerFacts, WorkerType

(* A flush drops a tombstoned space's ops or goes on to send them.         *)
LEMMA FlushCheckType ==
  ASSUME TypeInv, NEW d \in Device, FlushCheck(d)
  PROVE  TypeInv'
<1>1. StoredType'
  BY StoredFacts DEF FlushCheck, StoredType, server
<1>2. PICK x \in WorkerEvent : sw' = [sw EXCEPT ![d] = x] /\ x.latest <= lastSeq
  <2>1. CASE sw' = [sw EXCEPT ![d].pc = "send"]
    <3> DEFINE x == [sw[d] EXCEPT !.pc = "send"]
    <3>1. sw' = [sw EXCEPT ![d] = x]
      BY <2>1
    <3>2. x \in WorkerEvent /\ x.latest = sw[d].latest
      BY WorkerFacts DEF WorkerEvent, SwPcs
    <3> HIDE DEF x
    <3> QED BY <3>1, <3>2, WorkerFacts
  <2> QED BY <2>1, RestType DEF FlushCheck
<1>3. req' = req /\ UNCHANGED <<server, app, history>>
  BY DEF FlushCheck
<1> QED BY <1>1, <1>2, <1>3, StoredFacts, WorkerFacts, WorkerType

LEMMA FlushSendType ==
  ASSUME TypeInv, NEW d \in Device, FlushSend(d)
  PROVE  TypeInv'
<1> DEFINE x == [sw[d] EXCEPT !.pc = "await"]
           n == NewReq(sw[d].ops)
<1>1. StoredType' /\ UNCHANGED <<server, app, history>>
  BY StoredFacts DEF FlushSend, StoredType, stored, server
<1>2. x \in WorkerEvent /\ x.latest = sw[d].latest
  BY WorkerFacts DEF WorkerEvent, SwPcs
<1>3. n \in Requests
  BY WorkerFacts, NewRequestType DEF WorkerEvent
<1>4. sw' = [sw EXCEPT ![d] = x] /\ req' = [req EXCEPT ![Worker(d)] = n]
  BY DEF FlushSend, Send
<1> HIDE DEF x, n
<1>5. req' \in [Lane -> Requests] /\ \A e \in Device : req'[App(e)] = req[App(e)]
  BY <1>3, <1>4, StoredFacts, WorkerFacts
<1> QED BY <1>1, <1>2, <1>4, <1>5, WorkerFacts, WorkerType

(* The answer empties the outbox of what was flushed, or does not.         *)
LEMMA FlushAnsweredType ==
  ASSUME TypeInv, NEW d \in Device, FlushAnswered(d)
  PROVE  TypeInv'
<1>1. StoredType'
  BY StoredFacts DEF FlushAnswered, StoredType, server
<1>2. PICK x \in WorkerEvent : sw' = [sw EXCEPT ![d] = x] /\ x.latest <= lastSeq
  BY RestType DEF FlushAnswered
<1>3. req' \in [Lane -> Requests] /\ \A e \in Device : req'[App(e)] = req[App(e)]
  BY NewRequestType, StoredFacts, WorkerFacts DEF FlushAnswered
<1>4. UNCHANGED <<server, app, history>>
  BY DEF FlushAnswered
<1> QED BY <1>1, <1>2, <1>3, <1>4, WorkerType

(* The steps of a worker together.                                         *)
LEMMA WorkerStepType ==
  ASSUME TypeInv, NEW d \in Device, WorkerStep(d)
  PROVE  TypeInv'
BY WakePullType, WorkerHeadType, WorkerOpsType, WorkerApplyType, WorkerStampType,
   WakeFlushType, FlushCheckType, FlushSendType, FlushAnsweredType DEF WorkerStep

(***************************************************************************)
(* Membership moves and the validator's correction touch neither the log   *)
(* nor the requests; leaving also purges.                                  *)
(***************************************************************************)
LEMMA MoveType ==
  ASSUME TypeInv,
         UNCHANGED <<seq, lastSeq, srow, req, app, sw, offered, made, faults>>,
         role' \in [User -> {"none", "owner", "contributor", "reader"}],
         refused' \in SUBSET Refusable, granted' \in SUBSET User,
         moves' \in 0 .. MaxMoves, StoredType'
  PROVE  TypeInv'
<1>1. TypeOK'
  BY DEF TypeInv, TypeOK, StoredType
<1>2. \A d \in Device : RoundOK(d)' /\ sw'[d].latest <= lastSeq'
  BY DEF TypeInv, RoundOK, App
<1> QED BY <1>1, <1>2 DEF TypeInv

(* The owner grants, changes and revokes roles.                            *)
LEMMA UserMovesType ==
  ASSUME TypeInv, NEW u \in User, Grant(u) \/ Rerole(u) \/ Revoke(u)
  PROVE  TypeInv'
<1>1. StoredType'
  BY StoredFacts DEF Grant, Rerole, Revoke, StoredType, stored, memory
<1>2. moves' \in 0 .. MaxMoves
  BY SpaceSyncAssumption DEF Grant, Rerole, Revoke, Move, TypeInv, TypeOK
<1>3. /\ role' \in [User -> {"none", "owner", "contributor", "reader"}]
      /\ granted' \in SUBSET User /\ refused' \in SUBSET Refusable
  BY DEF Grant, Rerole, Revoke, TypeInv, TypeOK
<1>4. UNCHANGED <<seq, lastSeq, srow, req, app, sw, offered, made, faults>>
  BY DEF Grant, Rerole, Revoke, memory
<1> QED BY <1>1, <1>2, <1>3, <1>4, MoveType

(* A departure drops the role and purges the device.                       *)
LEMMA LeaveType ==
  ASSUME TypeInv, NEW d \in Device, Leave(d)
  PROVE  TypeInv'
<1>1. StoredType'
  BY StoredFacts, PurgeType DEF Leave, StoredType, memory
<1>2. moves' \in 0 .. MaxMoves
  BY SpaceSyncAssumption DEF Leave, Move, TypeInv, TypeOK
<1>3. /\ role' \in [User -> {"none", "owner", "contributor", "reader"}]
      /\ granted' \in SUBSET User /\ refused' \in SUBSET Refusable
  BY TypeFacts DEF Leave, TypeInv, TypeOK
<1>4. UNCHANGED <<seq, lastSeq, srow, req, app, sw, offered, made, faults>>
  BY DEF Leave, memory
<1> QED BY <1>1, <1>2, <1>3, <1>4, MoveType

(* A corrected validator refuses nothing.                                  *)
LEMMA FixServerType ==
  ASSUME TypeInv, FixServer
  PROVE  TypeInv'
<1>1. StoredType'
  BY StoredFacts DEF FixServer, StoredType, stored, memory
<1>2. /\ role' \in [User -> {"none", "owner", "contributor", "reader"}]
      /\ granted' \in SUBSET User /\ refused' \in SUBSET Refusable /\ moves' \in 0 .. MaxMoves
  BY DEF FixServer, TypeInv, TypeOK, history
<1>3. UNCHANGED <<seq, lastSeq, srow, req, app, sw, offered, made, faults>>
  BY DEF FixServer, memory, history
<1> QED BY <1>1, <1>2, <1>3, MoveType

(***************************************************************************)
(* Failures: the request of a caller that is gone may live on as a stray.  *)
(***************************************************************************)
LEMMA AbandonType ==
  ASSUME TypeInv, NEW c \in Lane, c[2] # "stray", NEW r \in Requests, Abandon(c, r)
  PROVE  /\ req' \in [Lane -> Requests] /\ req'[c] = r
         /\ \A l \in Lane \ {c} : l[2] # "stray" => req'[l] = req[l]
<1> DEFINE stray == <<c[1], "stray">>
<1>1. stray \in Lane /\ stray # c /\ stray[2] = "stray"
  BY DEF Lane
<1>2. \/ req' = [req EXCEPT ![c] = r]
      \/ req' = [req EXCEPT ![c] = r, ![stray] = req[c]]
  BY DEF Abandon
<1>3. req \in [Lane -> Requests]
  BY StoredFacts
<1> HIDE DEF stray
<1> QED BY <1>1, <1>2, <1>3

(* A lost push is answered `lost' and may go on as a stray.                *)
LEMMA LosePushType ==
  ASSUME TypeInv, NEW c \in Lane, LosePush(c)
  PROVE  TypeInv'
<1> DEFINE r == Answer(c, "lost")
<1>1. r \in Requests /\ r.ops = req[c].ops /\ req[c] # NoReq
  <2>1. r \in Requests
    BY TypeFacts, AnswerType DEF Phases
  <2>2. r.ops = req[c].ops
    BY DEF Answer, Request
  <2>3. req[c] # NoReq
    BY DEF LosePush, NoReq, Request
  <2> QED BY <2>1, <2>2, <2>3
<1>2. Abandon(c, r) /\ c[2] # "stray" /\ UNCHANGED <<server, stored, memory, made, granted, moves>>
  BY DEF LosePush
<1> HIDE DEF r
<1>3. /\ req' \in [Lane -> Requests] /\ req'[c] = r
      /\ \A l \in Lane \ {c} : l[2] # "stray" => req'[l] = req[l]
  BY <1>1, <1>2, AbandonType
<1>4. faults' \in 0 .. MaxFaults
  BY SpaceSyncAssumption DEF LosePush, Fault, TypeInv, TypeOK
<1>5. TypeOK'
  BY <1>2, <1>3, <1>4 DEF TypeInv, TypeOK, server, stored, memory
<1>6. ASSUME NEW d \in Device PROVE RoundOK(d)' /\ sw'[d].latest <= lastSeq'
  <2>1. App(d) \in Lane /\ App(d)[2] # "stray"
    BY DEF App, Lane
  <2>2. req'[App(d)].ops = req[App(d)].ops /\ (req'[App(d)] # NoReq => req[App(d)] # NoReq)
    BY <1>1, <1>3, <2>1
  <2>3. app' = app /\ sw' = sw /\ lastSeq' = lastSeq /\ App(d)' = App(d) /\ NoReq' = NoReq
    BY <1>2 DEF server, memory, App
  <2>4. RoundOK(d) /\ sw[d].latest <= lastSeq
    BY DEF TypeInv
  <2> QED BY <2>2, <2>3, <2>4 DEF RoundOK
<1> QED BY <1>5, <1>6 DEF TypeInv

(* The bound on failures.                                                  *)
LEMMA FaultType ==
  ASSUME TypeInv, Fault
  PROVE  faults' \in 0 .. MaxFaults
BY SpaceSyncAssumption DEF Fault, TypeInv, TypeOK

(* A lost pull ends the round.                                             *)
LEMMA LosePullType ==
  ASSUME TypeInv, NEW d \in Device, LosePull(d)
  PROVE  TypeInv'
<1>1. StoredType'
  BY StoredFacts DEF LosePull, StoredType, stored, server
<1>2. PICK x \in Round : /\ app' = [app EXCEPT ![d] = x] /\ x.latest <= lastSeq
                         /\ x.pc \notin {"apply", "stamp"}
  BY EndRoundType DEF LosePull
<1>3. /\ req' = req /\ req'[App(d)] = NoReq
      /\ UNCHANGED <<server, sw, made, granted, moves>> /\ Fault
  BY NoRequest DEF LosePull
<1> QED BY <1>1, <1>2, <1>3, FaultType, StoredFacts, AppFaultType

(* A closed app forgets its round.                                         *)
LEMMA CloseAppType ==
  ASSUME TypeInv, NEW d \in Device, CloseApp(d)
  PROVE  TypeInv'
<1>1. StoredType'
  BY StoredFacts DEF CloseApp, StoredType, stored, server
<1>2. PICK x \in Round : /\ app' = [app EXCEPT ![d] = x] /\ x.latest <= lastSeq
                         /\ x.pc \notin {"apply", "stamp"}
  BY EndRoundType DEF CloseApp
<1>3. UNCHANGED <<server, sw, made, granted, moves>> /\ Fault /\ Abandon(App(d), NoReq)
  BY DEF CloseApp
<1>4. App(d) \in Lane /\ App(d)[2] # "stray" /\ NoReq \in Requests
  BY NewRequestType DEF App, Lane
<1>5. /\ req' \in [Lane -> Requests] /\ req'[App(d)] = NoReq
      /\ \A l \in Lane \ {App(d)} : l[2] # "stray" => req'[l] = req[l]
  BY <1>3, <1>4, AbandonType
<1>6. \A e \in Device \ {d} : App(e) \in Lane \ {App(d)} /\ App(e)[2] # "stray"
  BY DEF App, Lane
<1> QED BY <1>1, <1>2, <1>3, <1>5, <1>6, FaultType, AppFaultType

(* A killed worker forgets its event.                                      *)
LEMMA KillWorkerType ==
  ASSUME TypeInv, NEW d \in Device, KillWorker(d)
  PROVE  TypeInv'
<1>1. StoredType'
  BY StoredFacts DEF KillWorker, StoredType, stored, server
<1>2. PICK x \in WorkerEvent : sw' = [sw EXCEPT ![d] = x] /\ x.latest <= lastSeq
  BY RestType DEF KillWorker
<1>3. UNCHANGED <<server, app, made, granted, moves>> /\ Fault /\ Abandon(Worker(d), NoReq)
  BY DEF KillWorker
<1>4. Worker(d) \in Lane /\ Worker(d)[2] # "stray" /\ NoReq \in Requests
  BY NewRequestType DEF Worker, Lane
<1>5. /\ req' \in [Lane -> Requests]
      /\ \A l \in Lane \ {Worker(d)} : l[2] # "stray" => req'[l] = req[l]
  BY <1>3, <1>4, AbandonType
<1>6. \A e \in Device : App(e) \in Lane \ {Worker(d)} /\ App(e)[2] # "stray"
  BY DEF App, Worker, Lane
<1> QED BY <1>1, <1>2, <1>3, <1>5, <1>6, FaultType, WorkerFaultType

(* Moves and failures together.                                            *)
LEMMA EnvironmentType == TypeInv /\ Environment => TypeInv'
BY UserMovesType, LeaveType, FixServerType, LosePushType, LosePullType, CloseAppType,
   KillWorkerType DEF Environment

(* Nothing changes when nothing does.                                      *)
LEMMA StutterType == TypeInv /\ UNCHANGED vars => TypeInv'
<1> SUFFICES ASSUME TypeInv, UNCHANGED vars PROVE TypeInv'
  OBVIOUS
<1>1. TypeOK'
  BY DEF TypeInv, TypeOK, vars, server, stored, memory, history
<1>2. \A d \in Device : RoundOK(d)' /\ sw'[d].latest <= lastSeq'
  BY DEF TypeInv, RoundOK, App, vars, server, stored, memory, history
<1> QED BY <1>1, <1>2 DEF TypeInv

(* Every step keeps the invariant.                                         *)
LEMMA NextType == TypeInv /\ [Next]_vars => TypeInv'
<1>1. TypeInv /\ Next => TypeInv'
  BY EditType, AppStepType, WorkerStepType, ServeType, EnvironmentType DEF Next
<1> QED BY <1>1, StutterType

(* Every variable keeps its type, and no cursor ever passes the end of the *)
(* log, whatever the interleaving of apps, workers and requests.           *)
THEOREM TypeCorrect == Spec => []TypeOK
<1>1. TypeInv => TypeOK
  BY DEF TypeInv
<1> QED BY InitType, NextType, <1>1, PTL DEF Spec

=============================================================================
