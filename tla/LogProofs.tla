----------------------------- MODULE LogProofs -----------------------------
(***************************************************************************)
(* The server's log, for every set of devices, users and ops: pushes that  *)
(* race each other leave the rows equal to what the log adds up to, and    *)
(* the log only grows at its end.                                          *)
(***************************************************************************)
EXTENDS SpaceSyncProofs

(***************************************************************************)
(* ServerIsJoin is not inductive: a request between its reads and its      *)
(* commit carries a copy of the rows, and the copy is the truth only while *)
(* LastSeq has not moved.  When it has moved the request can no longer     *)
(* accept anything, because its Seqs are taken.                            *)
(***************************************************************************)
ReadOK(r) ==
  r.phase = "read" =>
    /\ r.at <= lastSeq /\ r.known \subseteq Landed
    /\ r.at = lastSeq => r.known = r.ops \cap Landed /\ r.rows = srow

LogInv == ServerIsJoin /\ \A c \in Lane : ReadOK(req[c])

(* The empty log and the empty rows agree, and no request has been read.   *)
LEMMA InitLog == Init => LogInv
<1> SUFFICES ASSUME Init PROVE LogInv
  OBVIOUS
<1>1. Landed = {} /\ srow = NoRows
  BY DEF Init, Landed
<1>2. ServerIsJoin
  BY <1>1, NoRowsJoin DEF ServerIsJoin
<1>3. \A c \in Lane : ReadOK(req[c])
  BY DEF Init, ReadOK, NoReq, Request
<1> QED BY <1>2, <1>3 DEF LogInv

(* A step that leaves the log alone and invents no request that has        *)
(* already been read keeps the invariant.                                  *)
NoNewRead ==
  \A c \in Lane : req'[c].phase = "read" => \E l \in Lane : req'[c] = req[l]

(* A step that leaves the log, the rows and what was read alone keeps it.  *)
LEMMA FrameLog ==
  ASSUME LogInv, UNCHANGED <<seq, lastSeq, srow>>, NoNewRead
  PROVE  LogInv'
<1>1. Landed' = Landed
  BY DEF Landed
<1>2. ServerIsJoin'
  BY <1>1 DEF LogInv, ServerIsJoin
<1>3. \A c \in Lane : ReadOK(req[c])'
  BY <1>1 DEF LogInv, ReadOK, NoNewRead
<1> QED BY <1>2, <1>3 DEF LogInv

(* Requests that are new or consumed have not been read.                   *)
LEMMA ReplacedRequest ==
  ASSUME TypeInv, NEW c \in Lane, NEW r, r.phase # "read", req' = [req EXCEPT ![c] = r]
  PROVE  NoNewRead
BY StoredFacts DEF NoNewRead

(* A caller that sends a request or consumes an answer keeps the           *)
(* invariant.                                                              *)
LEMMA SentOrConsumed ==
  ASSUME TypeInv, NEW c \in Lane,
         \/ req' = req
         \/ req' = [req EXCEPT ![c] = NoReq]
         \/ \E S : Send(c, S)
  PROVE  NoNewRead
<1>1. CASE req' = req
  BY <1>1 DEF NoNewRead
<1>2. CASE req' = [req EXCEPT ![c] = NoReq]
  BY <1>2, ReplacedRequest DEF NoReq, Request
<1>3. ASSUME NEW S, Send(c, S) PROVE NoNewRead
  BY <1>3, ReplacedRequest DEF Send, NewReq, Request
<1> QED BY <1>1, <1>2, <1>3

(* The steps of a round.                                                   *)
LEMMA AppLog ==
  ASSUME TypeInv, LogInv, NEW d \in Device, AppStep(d)
  PROVE  LogInv'
<1>1. \/ req' = req
      \/ req' = [req EXCEPT ![App(d)] = NoReq]
      \/ \E S : Send(App(d), S)
  BY DEF AppStep, StartRound, ReadParked, OfferParked, ParkedAnswered, EndRetry, PushNext,
         PushAnswered, Unqueue, StartPull, PullHead, PullOps, PullApply, PullStamp, Drained,
         ParkReadOnly, EvictPurge
<1>2. UNCHANGED server
  BY DEF AppStep, StartRound, ReadParked, OfferParked, ParkedAnswered, EndRetry, PushNext,
         PushAnswered, Unqueue, StartPull, PullHead, PullOps, PullApply, PullStamp, Drained,
         ParkReadOnly, EvictPurge
<1> QED BY <1>1, <1>2, RoundFacts, SentOrConsumed, FrameLog DEF server

(* The steps of a worker event.                                            *)
LEMMA WorkerLog ==
  ASSUME TypeInv, LogInv, NEW d \in Device, WorkerStep(d)
  PROVE  LogInv'
<1>1. \/ req' = req
      \/ req' = [req EXCEPT ![Worker(d)] = NoReq]
      \/ \E S : Send(Worker(d), S)
  BY DEF WorkerStep, WakePull, WorkerHead, WorkerOps, WorkerApply, WorkerStamp, WakeFlush,
         FlushCheck, FlushSend, FlushAnswered
<1>2. UNCHANGED server
  BY DEF WorkerStep, WakePull, WorkerHead, WorkerOps, WorkerApply, WorkerStamp, WakeFlush,
         FlushCheck, FlushSend, FlushAnswered
<1> QED BY <1>1, <1>2, WorkerFacts, SentOrConsumed, FrameLog DEF server

(* An abandoned request may go on as a stray: it is the request it was.    *)
LEMMA AbandonLog ==
  ASSUME TypeInv, NEW c \in Lane, NEW r, r.phase # "read", Abandon(c, r)
  PROVE  NoNewRead
<1> DEFINE stray == <<c[1], "stray">>
<1>1. \/ req' = [req EXCEPT ![c] = r]
      \/ req' = [req EXCEPT ![c] = r, ![stray] = req[c]]
  BY DEF Abandon
<1>2. req \in [Lane -> Requests]
  BY StoredFacts
<1> HIDE DEF stray
<1> QED BY <1>1, <1>2 DEF NoNewRead

(* Membership moves and failures.                                          *)
LEMMA EnvironmentLog ==
  ASSUME TypeInv, LogInv, Environment
  PROVE  LogInv'
<1>1. ASSUME NEW u \in User, Grant(u) \/ Rerole(u) \/ Revoke(u) PROVE LogInv'
  BY <1>1, FrameLog DEF Grant, Rerole, Revoke, NoNewRead
<1>2. ASSUME NEW d \in Device, Leave(d) \/ LosePull(d) PROVE LogInv'
  BY <1>2, FrameLog DEF Leave, LosePull, NoNewRead, server
<1>3. ASSUME NEW d \in Device, CloseApp(d) PROVE LogInv'
  BY <1>3, RoundFacts, AbandonLog, FrameLog DEF CloseApp, server, NoReq, Request
<1>4. ASSUME NEW d \in Device, KillWorker(d) PROVE LogInv'
  BY <1>4, WorkerFacts, AbandonLog, FrameLog DEF KillWorker, server, NoReq, Request
<1>5. ASSUME NEW c \in Lane, LosePush(c) PROVE LogInv'
  BY <1>5, AbandonLog, FrameLog DEF LosePush, server, Answer, Request
<1>6. ASSUME FixServer PROVE LogInv'
  BY <1>6, FrameLog DEF FixServer, NoNewRead
<1> QED BY <1>1, <1>2, <1>3, <1>4, <1>5, <1>6 DEF Environment

(* A request that gets its answer holds no read data any more.             *)
LEMMA ReplyLog ==
  ASSUME TypeInv, NEW c \in Lane, NEW a \in Phases \ {"read"}, Reply(c, a)
  PROVE  NoNewRead
<1> DEFINE r == IF c[2] = "stray" THEN NoReq ELSE Answer(c, a)
<1>1. req' = [req EXCEPT ![c] = r]
  BY DEF Reply
<1>2. r.phase # "read"
  BY DEF Answer, NoReq, Request
<1> HIDE DEF r
<1> QED BY <1>1, <1>2, ReplacedRequest

(* What the handler reads is the log and the rows of that moment.          *)
LEMMA ReceiveLog ==
  ASSUME TypeInv, LogInv, NEW c \in Lane, Receive(c)
  PROVE  LogInv'
<1>1. UNCHANGED <<seq, lastSeq, srow>>
  BY DEF Receive, server
<1>2. ASSUME NEW a \in {"400", "403"}, Reply(c, a) PROVE LogInv'
  BY <1>1, <1>2, ReplyLog, FrameLog DEF Phases
<1>3. CASE req' = [req EXCEPT ![c].phase = "read", ![c].at = lastSeq, ![c].rows = srow,
                              ![c].known = req[c].ops \cap Landed]
  <2> DEFINE x == [req[c] EXCEPT !.phase = "read", !.at = lastSeq, !.rows = srow,
                                 !.known = req[c].ops \cap Landed]
  <2>1. req' = [req EXCEPT ![c] = x]
    BY <1>3
  <2>2. Landed' = Landed
    BY <1>1 DEF Landed
  <2>3. x.known = x.ops \cap Landed /\ x.rows = srow /\ x.at <= lastSeq
    BY TypeFacts DEF Requests
  <2> HIDE DEF x
  <2>4. ASSUME NEW l \in Lane PROVE ReadOK(req[l])'
    <3>1. req'[l] = IF l = c THEN x ELSE req[l]
      BY <2>1, StoredFacts
    <3>2. CASE l = c
      BY <1>1, <2>2, <2>3, <3>1, <3>2 DEF ReadOK
    <3>3. CASE l # c
      BY <1>1, <2>2, <3>1, <3>3 DEF ReadOK, LogInv
    <3> QED BY <3>2, <3>3
  <2> QED BY <1>1, <2>2, <2>4 DEF LogInv, ServerIsJoin
<1> QED BY <1>2, <1>3 DEF Receive

(* A unique violation starts over or gives up: the log stays.              *)
LEMMA CollideLog ==
  ASSUME TypeInv, LogInv, NEW c \in Lane, Collide(c)
  PROVE  LogInv'
<1>1. UNCHANGED <<seq, lastSeq, srow>>
  BY DEF Collide, server
<1>2. ASSUME Reply(c, "500") PROVE LogInv'
  BY <1>1, <1>2, ReplyLog, FrameLog DEF Phases
<1>3. CASE req' = [req EXCEPT ![c] = Request("sent", req[c].ops, req[c].tries + 1)]
  BY <1>1, <1>3, ReplacedRequest, FrameLog DEF Request
<1> QED BY <1>2, <1>3 DEF Collide

(***************************************************************************)
(* The heart of it.  A commit that accepts something still holds the rows  *)
(* as they are, so what it writes back is the merge of the log and its     *)
(* new ops; one that accepts nothing writes nothing.                       *)
(***************************************************************************)
LEMMA CommitAppends ==
  ASSUME TypeInv, LogInv, NEW c \in Lane, Commit(c)
  PROVE  LET new == Accepted(req[c])
         IN /\ new \in SUBSET Op /\ new \cap Landed = {}
            /\ Landed' = Landed \cup new
            /\ \A op \in new : seq'[op] > lastSeq
            /\ \A op \in Op \ new : seq'[op] = seq[op]
            /\ srow' = MergeOps(srow, new)
            /\ new = {} => lastSeq' = lastSeq
            /\ new # {} => lastSeq' > lastSeq
<1> DEFINE r == req[c]
           new == Accepted(r)
<1>1. /\ r \in Requests /\ r.ops \in SUBSET Op /\ r.at \in Nat /\ r.rows \in Rows
      /\ r.phase = "read" /\ ReadOK(r)
  BY TypeFacts DEF Requests, Commit, LogInv
<1>2. new \in SUBSET Op
  BY <1>1 DEF Accepted
<1>3. lastSeq \in Nat /\ seq \in [Op -> 0 .. lastSeq] /\ srow \in Rows
  BY TypeFacts
<1>4. new # {} => r.at = lastSeq
  BY DEF Commit, IsUniqueViolation
<1>5. new # {} => r.rows = srow /\ new \cap Landed = {}
  BY <1>1, <1>4 DEF ReadOK, Accepted
<1>6. /\ seq' = [op \in Op |-> IF op \in new THEN r.at + Rank(new, op) ELSE seq[op]]
      /\ lastSeq' = IF new = {} THEN lastSeq ELSE r.at + Cardinality(new)
      /\ srow' = [e \in Entity |-> IF \E op \in new : op.entity = e
                                   THEN MergeOps(r.rows, new)[e] ELSE srow[e]]
  BY DEF Commit
<1>7. Cardinality(new) \in Nat /\ \A op \in new : Rank(new, op) \in 1 .. Cardinality(new)
  <2> HIDE DEF new
  <2> QED BY <1>2, OpsFinite, RankInRange
<1> HIDE DEF new, r
<1>8. \A op \in new : seq'[op] > lastSeq
  BY <1>2, <1>3, <1>4, <1>6, <1>7
<1>9. \A op \in Op \ new : seq'[op] = seq[op]
  BY <1>6
<1>10. Landed' = Landed \cup new
  BY <1>2, <1>3, <1>8, <1>9 DEF Landed
<1>11. srow' = MergeOps(srow, new)
  <2>1. MergeOps(srow, new) \in Rows
    BY <1>2, <1>3, OpsTyped, MergeOpsType
  <2>2. ASSUME NEW e \in Entity PROVE srow'[e] = MergeOps(srow, new)[e]
    <3>1. CASE \E op \in new : op.entity = e
      BY <1>5, <1>6, <3>1
    <3>2. CASE ~ \E op \in new : op.entity = e
      <4>1. ASSUME NEW k \in Cell PROVE MergeOps(srow, new)[e][k] = srow[e][k]
        <5>1. Writers(new, e, k) = {}
          BY <3>2 DEF Writers
        <5> QED BY <1>2, <1>3, <5>1, OpsTyped, MergeOpsCell
      <4>2. srow[e] \in Row /\ MergeOps(srow, new)[e] \in Row
        BY <1>3, <2>1 DEF Rows
      <4>3. MergeOps(srow, new)[e] = srow[e]
        BY <4>1, <4>2 DEF Row
      <4> QED BY <1>6, <3>2, <4>3
    <3> QED BY <3>1, <3>2
  <2>3. srow' \in [Entity -> Row]
    BY CommitType DEF Rows
  <2> QED BY <2>1, <2>2, <2>3 DEF Rows
<1>12. /\ new = {} => lastSeq' = lastSeq
       /\ new # {} => lastSeq' > lastSeq
  <2>1. new # {} => Cardinality(new) > 0
    BY <1>7
  <2> QED BY <1>3, <1>4, <1>6, <1>7, <2>1
<1> QED BY <1>2, <1>5, <1>8, <1>9, <1>10, <1>11, <1>12 DEF new, r

(* A commit on current reads leaves rows that join the longer log.         *)
LEMMA CommitLog ==
  ASSUME TypeInv, LogInv, NEW c \in Lane, Commit(c)
  PROVE  LogInv'
<1> DEFINE new == Accepted(req[c])
<1>1. /\ new \in SUBSET Op
      /\ Landed' = Landed \cup new
      /\ srow' = MergeOps(srow, new)
      /\ new = {} => lastSeq' = lastSeq
      /\ new # {} => lastSeq' > lastSeq
  BY CommitAppends
<1> HIDE DEF new
<1>2. Landed \in SUBSET Op /\ srow \in Rows /\ lastSeq \in Nat
  BY TypeFacts DEF Landed
<1>3. ServerIsJoin'
  <2>1. \A op \in Landed \cup new : IsOp(op)
    BY <1>1, <1>2, OpsTyped
  <2>2. IsJoin(Landed \cup new, MergeOps(srow, new))
    BY <1>2, <2>1, MergeOpsJoin DEF LogInv, ServerIsJoin
  <2> QED BY <1>1, <2>2 DEF ServerIsJoin
<1>4. NoNewRead
  BY ReplyLog DEF Commit, Phases
<1>5. srow' = srow \/ new # {}
  <2>1. ASSUME new = {} PROVE MergeOps(srow, new) = srow
    <3>1. ASSUME NEW e \in Entity, NEW k \in Cell PROVE MergeOps(srow, new)[e][k] = srow[e][k]
      <4>1. Writers(new, e, k) = {}
        BY <2>1 DEF Writers
      <4> QED BY <1>1, <1>2, <4>1, OpsTyped, MergeOpsCell
    <3>2. MergeOps(srow, new) \in Rows
      BY <1>1, <1>2, OpsTyped, MergeOpsType
    <3> QED BY <1>2, <3>1, <3>2, RowsEqual
  <2> QED BY <1>1, <2>1
<1>6. ASSUME NEW l \in Lane PROVE ReadOK(req[l])'
  <2>1. SUFFICES ASSUME req'[l].phase = "read" 
                 PROVE  /\ req'[l].at <= lastSeq' /\ req'[l].known \subseteq Landed'
                        /\ req'[l].at = lastSeq' => /\ req'[l].known = req'[l].ops \cap Landed'
                                                    /\ req'[l].rows = srow'
    BY DEF ReadOK
  <2>2. PICK k \in Lane : req'[l] = req[k]
    BY <1>4, <2>1 DEF NoNewRead
  <2>3. ReadOK(req[k]) 
    BY DEF LogInv
  <2>4. CASE new = {}
    BY <1>1, <1>5, <2>1, <2>2, <2>3, <2>4 DEF ReadOK
  <2>5. CASE new # {}
    <3>1. req[k].at \in Nat /\ req[k].at <= lastSeq /\ lastSeq' \in Nat
      BY <2>1, <2>2, <2>3, TypeFacts, CommitType DEF ReadOK, Requests
    <3>2. req[k].at # lastSeq' /\ req[k].at <= lastSeq'
      BY <1>1, <1>2, <2>5, <3>1
    <3> QED BY <1>1, <2>1, <2>2, <2>3, <3>2 DEF ReadOK
  <2> QED BY <2>4, <2>5
<1> QED BY <1>3, <1>6 DEF LogInv

(* Every step keeps the invariant.                                         *)
LEMMA NextLog == TypeInv /\ LogInv /\ [Next]_vars => LogInv'
<1> SUFFICES ASSUME TypeInv, LogInv, [Next]_vars PROVE LogInv'
  OBVIOUS
<1>1. ASSUME NEW d \in Device, NEW op \in Op, Edit(d, op) PROVE LogInv'
  BY <1>1, FrameLog DEF Edit, NoNewRead, server
<1>2. ASSUME NEW c \in Lane, Serve(c) PROVE LogInv'
  BY <1>2, ReceiveLog, CollideLog, CommitLog DEF Serve
<1>3. CASE UNCHANGED vars
  BY <1>3, FrameLog DEF vars, server, NoNewRead
<1> QED BY <1>1, <1>2, <1>3, AppLog, WorkerLog, EnvironmentLog DEF Next

(* The rows the server keeps are the merge of the ops in its log, although *)
(* SyncWriter reads a row, merges and writes it back whole while other     *)
(* pushes do the same, and although a lost push is sent and served again.  *)
THEOREM ServerCorrect == Spec => []ServerIsJoin
<1>1. LogInv => ServerIsJoin
  BY DEF LogInv
<1> QED BY InitType, NextType, InitLog, NextLog, <1>1, PTL DEF Spec

(* Only a commit writes the log.                                           *)
LEMMA LogFrame ==
  ASSUME Next, \A c \in Lane : ~ Commit(c)
  PROVE  seq' = seq
<1>1. ASSUME NEW d \in Device, AppStep(d) PROVE seq' = seq
  BY <1>1 DEF AppStep, StartRound, ReadParked, OfferParked, ParkedAnswered, EndRetry, PushNext,
         PushAnswered, Unqueue, StartPull, PullHead, PullOps, PullApply, PullStamp, Drained,
         ParkReadOnly, EvictPurge, server
<1>2. ASSUME NEW d \in Device, WorkerStep(d) PROVE seq' = seq
  BY <1>2 DEF WorkerStep, WakePull, WorkerHead, WorkerOps, WorkerApply, WorkerStamp, WakeFlush,
         FlushCheck, FlushSend, FlushAnswered, server
<1>3. ASSUME NEW d \in Device, NEW op \in Op, Edit(d, op) PROVE seq' = seq
  BY <1>3 DEF Edit, server
<1>4. ASSUME NEW c \in Lane, Receive(c) \/ Collide(c) PROVE seq' = seq
  BY <1>4 DEF Receive, Collide, server
<1>5. ASSUME Environment PROVE seq' = seq
  BY <1>5 DEF Environment, Grant, Rerole, Revoke, Leave, LosePull, CloseApp, KillWorker,
              LosePush, FixServer, server
<1> QED BY <1>1, <1>2, <1>3, <1>4, <1>5 DEF Next, Serve

(* An op enters the log once and behind everything in it.                  *)
THEOREM LogOnlyGrows == Spec => LogAppendOnly
<1>1. TypeInv /\ LogInv /\ [Next]_vars => [Appends]_vars
  <2> SUFFICES ASSUME TypeInv, LogInv, Next PROVE Appends
    OBVIOUS
  <2>1. ASSUME NEW c \in Lane, Commit(c) PROVE Appends
    <3> DEFINE new == Accepted(req[c])
    <3>1. /\ new \in SUBSET Op /\ new \cap Landed = {}
          /\ \A op \in new : seq'[op] > lastSeq
          /\ \A op \in Op \ new : seq'[op] = seq[op]
      BY <2>1, CommitAppends
    <3> HIDE DEF new
    <3>2. \A op \in new : seq[op] = 0
      BY <3>1 DEF Landed
    <3> QED BY <3>1, <3>2 DEF Appends
  <2>2. CASE \A c \in Lane : ~ Commit(c)
    <3>1. seq' = seq
      BY <2>2, LogFrame
    <3> QED BY <3>1 DEF Appends
  <2> QED BY <2>1, <2>2
<1> QED BY InitType, NextType, InitLog, NextLog, <1>1, PTL DEF Spec, LogAppendOnly

=============================================================================
