---------------------------- MODULE DeviceProofs ----------------------------

(***************************************************************************)
(* What a device can rely on, for every set of devices, users and ops:     *)
(* nothing it shows is lost, its cursor never runs ahead of its rows, it   *)
(* ends where the server is, and the protocol as a whole implements        *)
(* SharedLedger.  Some of it is false when a worker or a departure meets a *)
(* round at the wrong moment; the premise of the theorem then names the    *)
(* race, as a formula about steps.                                         *)
(***************************************************************************)
EXTENDS LogProofs

(***************************************************************************)
(* Tombstones.  A round under way runs for a space that is not tombstoned. *)
(***************************************************************************)
TombInv == \A d \in Device : app[d].pc \notin {"idle", "purge"} => ~ evicted[d]

(* Initially no round runs.                                                *)
LEMMA InitTomb == Init => TombInv
BY DEF Init, TombInv, Idle

(* What the steps of a round do to its label and to the tombstone.         *)
LEMMA AppTomb ==
  ASSUME TypeInv, TombInv, NEW d \in Device, AppStep(d)
  PROVE  TombInv'
<1>1. app \in [Device -> Round] /\ evicted \in [Device -> BOOLEAN]
  BY StoredFacts DEF StoredType
<1>2. \A e \in Device \ {d} : app'[e] = app[e] /\ evicted'[e] = evicted[e]
  BY <1>1 DEF AppStep, StartRound, ReadParked, OfferParked, ParkedAnswered, EndRetry, PushNext,
         PushAnswered, Unqueue, StartPull, PullHead, PullOps, PullApply, PullStamp, Drained,
         ParkReadOnly, EvictPurge, Go, EndRound, AfterPull, ClearTombstone, stored, memory
<1>3. \/ app'[d].pc \in {"idle", "purge"}
      \/ ~ evicted'[d]
      \/ app[d].pc \notin {"idle", "purge"} /\ evicted'[d] = evicted[d]
  BY <1>1 DEF AppStep, StartRound, ReadParked, OfferParked, ParkedAnswered, EndRetry, PushNext,
         PushAnswered, Unqueue, StartPull, PullHead, PullOps, PullApply, PullStamp, Drained,
         ParkReadOnly, EvictPurge, Go, EndRound, AfterPull, ClearTombstone, stored, memory, Idle,
         Round
<1> QED BY <1>2, <1>3 DEF TombInv

(* The rest leaves rounds and tombstones alone, or ends a round.           *)
LEMMA NextTomb == TypeInv /\ TombInv /\ [Next]_vars => TombInv'
<1> SUFFICES ASSUME TypeInv, TombInv, [Next]_vars PROVE TombInv'
  OBVIOUS
<1>1. ASSUME UNCHANGED <<app, evicted>> PROVE TombInv'
  BY <1>1 DEF TombInv
<1>2. ASSUME NEW d \in Device, EndRound(d), UNCHANGED evicted PROVE TombInv'
  <2>1. app'[d] = Idle /\ \A e \in Device \ {d} : app'[e] = app[e]
    BY <1>2, StoredFacts DEF EndRound
  <2> QED BY <1>2, <2>1 DEF TombInv, Idle
<1>3. ASSUME NEW d \in Device, NEW op \in Op, Edit(d, op) PROVE TombInv'
  BY <1>1, <1>3 DEF Edit, memory
<1>4. ASSUME NEW d \in Device, WorkerStep(d) PROVE TombInv'
  BY <1>1, <1>4 DEF WorkerStep, WakePull, WorkerHead, WorkerOps, WorkerApply, WorkerStamp,
     WakeFlush, FlushCheck, FlushSend, FlushAnswered, stored
<1>5. ASSUME NEW c \in Lane, Serve(c) PROVE TombInv'
  BY <1>1, <1>5 DEF Serve, Receive, Collide, Commit, stored, memory
<1>6. ASSUME Environment PROVE TombInv'
  BY <1>1, <1>2, <1>6 DEF Environment, Grant, Rerole, Revoke, Leave, LosePull, CloseApp,
     KillWorker, LosePush, FixServer, stored, memory
<1>7. CASE UNCHANGED vars
  BY <1>1, <1>7 DEF vars, stored, memory
<1> QED BY <1>3, <1>4, <1>5, <1>6, <1>7, AppTomb DEF Next

(* A request of the app is sent by a step of its round.                    *)
Sends(d) == req[App(d)] = NoReq /\ req'[App(d)].phase = "sent"

(* The server, the worker, the caller's departure and failures send none.  *)
LEMMA SendersOnly ==
  ASSUME TypeInv, Next, NEW d \in Device, Sends(d)
  PROVE  OfferParked(d) \/ PushNext(d)
<1> DEFINE l == App(d)
<1>1. l \in Lane /\ req \in [Lane -> Requests] /\ l[2] = "app" /\ l[1] = d
  BY StoredFacts DEF Lane, App
<1>2. req[l] = NoReq /\ req'[l].phase = "sent" /\ NoReq.phase = "none"
  BY DEF Sends, NoReq, Request
<1>3. req' # req
  BY <1>2
<1>4. ASSUME NEW c \in Lane, NEW r, req' = [req EXCEPT ![c] = r], r.phase # "sent" PROVE FALSE
  BY <1>1, <1>2, <1>4
<1>5. ASSUME NEW c \in Lane, NEW a \in Phases \ {"sent"}, Reply(c, a) PROVE FALSE
  BY <1>2, <1>4, <1>5 DEF Reply, Answer, NoReq, Request
<1>6. ASSUME NEW c \in Lane, NEW r, Abandon(c, r), r.phase # "sent", c[2] # "stray" PROVE FALSE
  <2>1. CASE req' = [req EXCEPT ![c] = r]
    BY <1>4, <1>6, <2>1
  <2>2. CASE req' = [req EXCEPT ![c] = r, ![<<c[1], "stray">>] = req[c]]
    BY <1>1, <1>2, <1>6, <2>2
  <2> QED BY <1>6, <2>1, <2>2 DEF Abandon
<1>7. ASSUME NEW c \in Lane, Serve(c) PROVE FALSE
  <2>1. req[c].phase \in {"sent", "read"}
    BY <1>7 DEF Serve, Receive, Collide, Commit
  <2>2. c # l
    BY <1>2, <2>1
  <2>3. \E r : req' = [req EXCEPT ![c] = r]
    BY <1>7, <1>1 DEF Serve, Receive, Collide, Commit, Reply
  <2> QED BY <1>1, <1>2, <2>2, <2>3
<1>8. ASSUME Environment PROVE FALSE
  BY <1>2, <1>3, <1>6, <1>8, RoundFacts, WorkerFacts DEF Environment, Grant, Rerole, Revoke, Leave,
     LosePull, CloseApp, KillWorker, LosePush, FixServer, Answer, Request, NoReq, App, Worker
<1>9. ASSUME NEW e \in Device, WorkerStep(e) PROVE FALSE
  <2>1. req' = req \/ \E x : req' = [req EXCEPT ![Worker(e)] = x]
    BY <1>9 DEF WorkerStep, WakePull, WorkerHead, WorkerOps, WorkerApply, WorkerStamp,
       WakeFlush, FlushCheck, FlushSend, FlushAnswered, Send
  <2>2. Worker(e) # l
    BY <1>1 DEF Worker
  <2> QED BY <1>1, <1>2, <1>3, <2>1, <2>2
<1>10. ASSUME NEW e \in Device, AppStep(e) PROVE OfferParked(d) \/ PushNext(d)
  <2>1. \/ req' = req
        \/ req' = [req EXCEPT ![App(e)] = NoReq]
        \/ OfferParked(e) \/ PushNext(e)
    BY <1>10 DEF AppStep, StartRound, ReadParked, ParkedAnswered, EndRetry, PushAnswered, Unqueue,
       StartPull, PullHead, PullOps, PullApply, PullStamp, Drained, ParkReadOnly, EvictPurge
  <2>2. OfferParked(e) \/ PushNext(e)
    BY <1>2, <1>3, <1>4, <2>1, RoundFacts
  <2>3. \E S : Send(App(e), S)
    BY <2>2 DEF OfferParked, PushNext
  <2>4. App(e) = l
    BY <1>1, <1>2, <2>3 DEF Send
  <2> QED BY <2>2, <2>4 DEF App
<1>11. ASSUME NEW e \in Device, NEW op \in Op, Edit(e, op) PROVE FALSE
  BY <1>3, <1>11 DEF Edit
<1> QED BY <1>7, <1>8, <1>9, <1>10, <1>11 DEF Next

(* However the app, its worker, the server and departures interleave, no   *)
(* round pushes for a space that its device knows to be lost (#306).       *)
THEOREM QuietOnceEvicted == Spec => QuietWhenEvicted
<1> DEFINE Quiet == \A d \in Device :
             evicted[d] => ~ (req[App(d)] = NoReq /\ req'[App(d)].phase = "sent")
<1>1. TypeInv /\ TombInv /\ [Next]_vars => [Quiet]_vars
  <2> SUFFICES ASSUME TypeInv, TombInv, Next PROVE Quiet
    OBVIOUS
  <2>1. ASSUME NEW d \in Device, Sends(d) PROVE ~ evicted[d]
    BY <2>1, SendersOnly DEF TombInv, OfferParked, PushNext
  <2> QED BY <2>1 DEF Sends
<1> QED BY InitType, NextType, InitTomb, NextTomb, <1>1, PTL DEF Spec, QuietWhenEvicted

(***************************************************************************)
(* Every op that is queued, parked, under way or in the log was authored.  *)
(***************************************************************************)
AuthoredOn(d) ==
  /\ outbox[d] \subseteq made /\ parked[d] \subseteq made /\ sw[d].ops \subseteq made
  /\ app[d].all \subseteq made /\ app[d].left \subseteq made /\ app[d].unq \subseteq made
  /\ app[d].chunks \in Seq(SUBSET made)

Authored ==
  /\ Landed \subseteq made
  /\ \A c \in Lane : req[c].ops \subseteq made
  /\ \A d \in Device : AuthoredOn(d)

(* At first there is nothing.                                              *)
LEMMA InitAuthored == Init => Authored
<1> SUFFICES ASSUME Init PROVE Authored
  OBVIOUS
<1>1. Landed \subseteq made
  BY DEF Init, Landed
<1>2. \A c \in Lane : req[c].ops \subseteq made
  BY DEF Init, NoReq, Request
<1>3. \A d \in Device : AuthoredOn(d)
  <2>1. /\ Idle.all = {} /\ Idle.left = {} /\ Idle.unq = {} /\ Idle.chunks = <<>>
        /\ Asleep.ops = {}
    BY DEF Idle, Asleep
  <2>2. << >> \in Seq(SUBSET made)
    OBVIOUS
  <2> QED BY <2>1, <2>2 DEF Init, AuthoredOn
<1> QED BY <1>1, <1>2, <1>3 DEF Authored

(* The chunks of an outbox hold its ops.                                   *)
LEMMA ChunksInside ==
  ASSUME NEW S \in SUBSET Op, NEW T, S \subseteq T
  PROVE  Chunked(S) \in Seq(SUBSET T)
<1> DEFINE n == (Cardinality(S) + PushChunk - 1) \div PushChunk
<1>1. Cardinality(S) + PushChunk - 1 \in Nat /\ PushChunk \in Nat \ {0}
  BY OpsFinite, SpaceSyncAssumption
<1>2. n \in Nat
  BY <1>1
<1>3. \A i \in 1 .. n : FirstOf(S, i * PushChunk) \ FirstOf(S, (i - 1) * PushChunk) \in SUBSET T
  BY DEF FirstOf
<1> HIDE DEF n
<1>4. [i \in 1 .. n |-> FirstOf(S, i * PushChunk) \ FirstOf(S, (i - 1) * PushChunk)]
        \in Seq(SUBSET T)
  BY <1>2, <1>3
<1> QED BY <1>4 DEF Chunked, n

(* A step of device d that authors nothing and lands nothing keeps it if   *)
(* what d holds afterwards is authored.                                    *)
LEMMA DeviceAuthored ==
  ASSUME Authored, NEW d \in Device, UNCHANGED <<seq, made>>,
         \A c \in Lane : req'[c].ops \subseteq made,
         \A e \in Device \ {d} : /\ outbox'[e] = outbox[e] /\ parked'[e] = parked[e]
                                 /\ sw'[e] = sw[e] /\ app'[e] = app[e],
         AuthoredOn(d)'
  PROVE  Authored'
<1>1. Landed' = Landed
  BY DEF Landed
<1>2. \A e \in Device \ {d} : AuthoredOn(e)'
  BY DEF Authored, AuthoredOn
<1> QED BY <1>1, <1>2 DEF Authored

(* What a caller sends is authored; consuming an answer asks for nothing.  *)
LEMMA SentAuthored ==
  ASSUME TypeInv, Authored, NEW c \in Lane,
         \/ req' = req
         \/ req' = [req EXCEPT ![c] = NoReq]
         \/ \E S \in SUBSET made : Send(c, S)
  PROVE  \A l \in Lane : req'[l].ops \subseteq made
<1>1. \A l \in Lane : req[l].ops \subseteq made
  BY DEF Authored
<1>2. req \in [Lane -> Requests]
  BY StoredFacts
<1>3. CASE req' = [req EXCEPT ![c] = NoReq]
  BY <1>1, <1>2, <1>3 DEF NoReq, Request
<1>4. ASSUME NEW S \in SUBSET made, Send(c, S) PROVE \A l \in Lane : req'[l].ops \subseteq made
  BY <1>1, <1>2, <1>4 DEF Send, NewReq, Request
<1> QED BY <1>1, <1>3, <1>4

(* A round leaves the other devices alone.                                 *)
LEMMA AppOthers ==
  ASSUME TypeInv, NEW d \in Device, AppStep(d), NEW e \in Device \ {d}
  PROVE  /\ app'[e] = app[e] /\ sw'[e] = sw[e]
         /\ rows'[e] = rows[e] /\ seen'[e] = seen[e] /\ cursor'[e] = cursor[e]
         /\ outbox'[e] = outbox[e] /\ parked'[e] = parked[e] /\ evicted'[e] = evicted[e]
         /\ req'[App(e)] = req[App(e)] /\ req'[Worker(e)] = req[Worker(e)]
<1>1. /\ StoredType /\ app \in [Device -> Round] /\ req \in [Lane -> Requests]
  BY StoredFacts
<1>2. App(d) # App(e) /\ App(d) # Worker(e)
  BY DEF App, Worker
<1>3. /\ app'[e] = app[e] /\ sw'[e] = sw[e]
      /\ rows'[e] = rows[e] /\ seen'[e] = seen[e] /\ cursor'[e] = cursor[e]
      /\ outbox'[e] = outbox[e] /\ parked'[e] = parked[e] /\ evicted'[e] = evicted[e]
  BY <1>1 DEF AppStep, StartRound, ReadParked, OfferParked, ParkedAnswered, EndRetry, PushNext,
         PushAnswered, Unqueue, StartPull, PullHead, PullOps, PullApply, PullStamp, Drained,
         ParkReadOnly, EvictPurge, Go, EndRound, AfterPull, ClearTombstone, Purge, Apply,
         Quarantine, stored, memory, StoredType
<1>4. \/ req' = req
      \/ req' = [req EXCEPT ![App(d)] = NoReq]
      \/ \E S : Send(App(d), S)
  BY DEF AppStep, StartRound, ReadParked, OfferParked, ParkedAnswered, EndRetry, PushNext,
         PushAnswered, Unqueue, StartPull, PullHead, PullOps, PullApply, PullStamp, Drained,
         ParkReadOnly, EvictPurge
<1>5. \/ req' = req
      \/ \E r : req' = [req EXCEPT ![App(d)] = r]
  BY <1>4 DEF Send
<1>6. App(e) \in Lane /\ Worker(e) \in Lane
  BY DEF App, Worker, Lane
<1>7. req'[App(e)] = req[App(e)] /\ req'[Worker(e)] = req[Worker(e)]
  BY <1>1, <1>2, <1>5, <1>6
<1> QED BY <1>3, <1>7

(* So does a worker's event.                                               *)
LEMMA WorkerOthers ==
  ASSUME TypeInv, NEW d \in Device, WorkerStep(d), NEW e \in Device \ {d}
  PROVE  /\ app'[e] = app[e] /\ sw'[e] = sw[e]
         /\ rows'[e] = rows[e] /\ seen'[e] = seen[e] /\ cursor'[e] = cursor[e]
         /\ outbox'[e] = outbox[e] /\ parked'[e] = parked[e] /\ evicted'[e] = evicted[e]
         /\ req'[App(e)] = req[App(e)] /\ req'[Worker(e)] = req[Worker(e)]
<1>1. /\ StoredType /\ app \in [Device -> Round] /\ req \in [Lane -> Requests]
      /\ sw \in [Device -> WorkerEvent]
  BY StoredFacts DEF TypeInv, TypeOK
<1>2. Worker(d) # App(e) /\ Worker(d) # Worker(e)
  BY DEF App, Worker
<1>3. /\ app'[e] = app[e] /\ sw'[e] = sw[e]
      /\ rows'[e] = rows[e] /\ seen'[e] = seen[e] /\ cursor'[e] = cursor[e]
      /\ outbox'[e] = outbox[e] /\ parked'[e] = parked[e] /\ evicted'[e] = evicted[e]
  BY <1>1 DEF WorkerStep, WakePull, WorkerHead, WorkerOps, WorkerApply, WorkerStamp,
         WakeFlush, FlushCheck, FlushSend, FlushAnswered, Rest, Apply, stored, StoredType
<1>4. \/ req' = req
      \/ req' = [req EXCEPT ![Worker(d)] = NoReq]
      \/ \E S : Send(Worker(d), S)
  BY DEF WorkerStep, WakePull, WorkerHead, WorkerOps, WorkerApply, WorkerStamp, WakeFlush,
         FlushCheck, FlushSend, FlushAnswered
<1>5. \/ req' = req
      \/ \E r : req' = [req EXCEPT ![Worker(d)] = r]
  BY <1>4 DEF Send
<1>6. App(e) \in Lane /\ Worker(e) \in Lane
  BY DEF App, Worker, Lane
<1>7. req'[App(e)] = req[App(e)] /\ req'[Worker(e)] = req[Worker(e)]
  BY <1>1, <1>2, <1>5, <1>6
<1> QED BY <1>3, <1>7

(* The round goes on at another label with its locals as they were.        *)
SameLocals(d) ==
  /\ app'[d].all = app[d].all /\ app'[d].left = app[d].left /\ app'[d].took = app[d].took
  /\ app'[d].chunks = app[d].chunks /\ app'[d].denied = app[d].denied
  /\ app'[d].unq = app[d].unq /\ app'[d].since = app[d].since
  /\ app'[d].latest = app[d].latest /\ app'[d].page = app[d].page

(* Go does that,                                                           *)
LEMMA GoLocals ==
  ASSUME TypeInv, NEW d \in Device, NEW l, Go(d, l)
  PROVE  app'[d].pc = l /\ SameLocals(d)
<1>1. app'[d] = [app[d] EXCEPT !.pc = l] /\ app[d] \in Round
  BY StoredFacts, RoundFacts DEF Go
<1> QED BY <1>1 DEF Round, SameLocals

(* and a pull either ends the round or goes on to park.                    *)
LEMMA AfterPullLocals ==
  ASSUME TypeInv, NEW d \in Device, AfterPull(d) \/ EndRound(d)
  PROVE  app'[d] = Idle \/ (app[d].denied /\ app'[d].pc = "park" /\ SameLocals(d))
BY GoLocals, StoredFacts DEF AfterPull, EndRound

(* A round offers, pushes and parks what it found queued or parked.        *)
LEMMA AppAuthored ==
  ASSUME TypeInv, Authored, NEW d \in Device, AppStep(d)
  PROVE  Authored'
<1> USE DEF stored, memory, server, history
<1>1. /\ StoredType /\ app \in [Device -> Round] /\ UNCHANGED <<seq, made, sw>>
      /\ App(d) \in Lane /\ app[d] \in Round /\ app[d].chunks \in Seq(SUBSET Op)
  <2>1. UNCHANGED <<seq, made, sw>>
    BY DEF AppStep, StartRound, ReadParked, OfferParked, ParkedAnswered, EndRetry, PushNext,
         PushAnswered, Unqueue, StartPull, PullHead, PullOps, PullApply, PullStamp, Drained,
         ParkReadOnly, EvictPurge
  <2> QED BY <2>1, StoredFacts, RoundFacts DEF Round
<1>2. AuthoredOn(d) /\ \A c \in Lane : req[c].ops \subseteq made
  BY DEF Authored
<1>3. \A c \in Lane : req'[c].ops \subseteq made
  <2>1. CASE \/ req' = req
             \/ req' = [req EXCEPT ![App(d)] = NoReq]
    BY <1>1, <2>1, SentAuthored
  <2>2. ASSUME NEW op \in app[d].left, Send(App(d), {op})
        PROVE  \A c \in Lane : req'[c].ops \subseteq made
    BY <1>1, <1>2, <2>2, SentAuthored DEF AuthoredOn
  <2>3. ASSUME app[d].chunks # << >>, Send(App(d), Head(app[d].chunks))
        PROVE  \A c \in Lane : req'[c].ops \subseteq made
    <3>1. Head(app[d].chunks) \in SUBSET made
      BY <1>2, <2>3 DEF AuthoredOn
    <3> QED BY <1>1, <2>3, <3>1, SentAuthored
  <2> QED BY <2>1, <2>2, <2>3 DEF AppStep, StartRound, ReadParked, OfferParked, ParkedAnswered,
         EndRetry, PushNext, PushAnswered, Unqueue, StartPull, PullHead, PullOps, PullApply,
         PullStamp, Drained, ParkReadOnly, EvictPurge
<1>4. AuthoredOn(d)'
  <2>1. Idle.all = {} /\ Idle.left = {} /\ Idle.unq = {} /\ Idle.chunks \in Seq(SUBSET made)
    <3>1. << >> \in Seq(SUBSET made)
      OBVIOUS
    <3> QED BY <3>1 DEF Idle
  <2>2. ASSUME outbox'[d] \subseteq outbox[d], parked'[d] \subseteq parked[d] \cup outbox[d],
               app'[d].all \subseteq app[d].all \cup parked[d],
               app'[d].left \subseteq app[d].left \cup parked[d],
               app'[d].unq \subseteq app[d].unq \cup outbox[d],
               app'[d].chunks \in {app[d].chunks, Idle.chunks}
        PROVE  AuthoredOn(d)'
    BY <1>1, <1>2, <2>1, <2>2 DEF AuthoredOn
  <2>3. ASSUME app' = app, outbox' = outbox, parked' = parked PROVE AuthoredOn(d)'
    BY <2>2, <2>3
  <2>6. ASSUME app'[d] = Idle, outbox'[d] \subseteq outbox[d], parked'[d] \subseteq parked[d]
        PROVE  AuthoredOn(d)'
    BY <2>1, <2>2, <2>6
  <2>7. ASSUME StartRound(d) PROVE AuthoredOn(d)'
    <3>1. CASE Go(d, "retry") /\ outbox' = outbox /\ parked' = parked
      BY <2>2, <3>1, GoLocals DEF SameLocals
    <3>2. CASE Purge(d) /\ app' = app
      BY <1>1, <2>2, <3>2 DEF Purge, StoredType
    <3> QED BY <2>7, <3>1, <3>2 DEF StartRound
  <2>8. ASSUME ReadParked(d) PROVE AuthoredOn(d)'
    BY <1>1, <2>2, <2>8 DEF ReadParked, Round
  <2>9. ASSUME OfferParked(d) PROVE AuthoredOn(d)'
    BY <1>1, <2>2, <2>9 DEF OfferParked, Round
  <2>10. ASSUME ParkedAnswered(d) PROVE AuthoredOn(d)'
    BY <1>1, <2>2, <2>10 DEF ParkedAnswered, Round
  <2>11. ASSUME PushNext(d) PROVE AuthoredOn(d)'
    BY <1>1, <2>2, <2>11 DEF PushNext, Round
  <2>12. ASSUME Unqueue(d) PROVE AuthoredOn(d)'
    <3>0. outbox'[d] \subseteq outbox[d] /\ parked' = parked
      BY <1>1, <2>12 DEF Unqueue, StoredType
    <3>1. CASE EndRound(d)
      BY <2>6, <3>0, <3>1, <1>1 DEF EndRound
    <3>2. CASE app' = [app EXCEPT ![d].pc = "push", ![d].unq = {}]
      BY <1>1, <2>2, <3>0, <3>2 DEF Round
    <3> QED BY <2>12, <3>1, <3>2 DEF Unqueue
  <2>13. ASSUME StartPull(d) PROVE AuthoredOn(d)'
    BY <1>1, <2>2, <2>13 DEF StartPull, Round
  <2>14. ASSUME PullHead(d) PROVE AuthoredOn(d)'
    <3>1. CASE Go(d, "purge")
      BY <2>2, <2>14, <3>1, GoLocals DEF PullHead, SameLocals
    <3>2. CASE app' = [app EXCEPT ![d].pc = "ops", ![d].latest = lastSeq]
      BY <1>1, <2>2, <2>14, <3>2 DEF PullHead, Round
    <3> QED BY <2>14, <3>1, <3>2 DEF PullHead
  <2>15. ASSUME PullOps(d) PROVE AuthoredOn(d)'
    BY <1>1, <2>2, <2>15 DEF PullOps, Round
  <2>16. ASSUME PullApply(d) PROVE AuthoredOn(d)'
    BY <2>2, <2>16, GoLocals DEF PullApply, SameLocals
  <2>17. ASSUME PullStamp(d) PROVE AuthoredOn(d)'
    <3>1. CASE AfterPull(d)
      BY <2>2, <2>6, <2>17, <3>1, AfterPullLocals DEF PullStamp, SameLocals
    <3>2. ASSUME NEW n, app' = [app EXCEPT ![d].pc = "head", ![d].since = n, ![d].page = {}]
          PROVE  AuthoredOn(d)'
      BY <1>1, <2>2, <2>17, <3>2 DEF PullStamp, Round
    <3> QED BY <2>17, <3>1, <3>2 DEF PullStamp
  <2>18. ASSUME Drained(d) PROVE AuthoredOn(d)'
    BY <1>1, <2>2, <2>6, <2>18, AfterPullLocals DEF Drained, SameLocals
  <2>19. ASSUME ParkReadOnly(d) PROVE AuthoredOn(d)'
    BY <1>1, <2>2, <2>19 DEF ParkReadOnly, Quarantine, Round, StoredType
  <2>20. ASSUME EvictPurge(d) PROVE AuthoredOn(d)'
    BY <1>1, <2>6, <2>20 DEF EvictPurge, Purge, EndRound, StoredType
  <2>4. ASSUME EndRetry(d) PROVE AuthoredOn(d)'
    <3> DEFINE cs == Chunked(outbox[d])
    <3>1. cs \in Seq(SUBSET made)
      <4>1. outbox[d] \in SUBSET Op /\ outbox[d] \subseteq made
        BY <1>1, <1>2 DEF StoredType, AuthoredOn
      <4> QED BY <4>1, ChunksInside
    <3>2. app' = [app EXCEPT ![d] = [Idle EXCEPT !.pc = "push", !.chunks = cs]]
      BY <2>4 DEF EndRetry
    <3> HIDE DEF cs
    <3>3. outbox' = outbox /\ parked'[d] \subseteq made
      BY <1>1, <1>2, <2>4 DEF EndRetry, AuthoredOn, StoredType
    <3>4. /\ app'[d].all = {} /\ app'[d].left = {} /\ app'[d].unq = {} /\ app'[d].chunks = cs
      BY <1>1, <3>2 DEF Idle
    <3> QED BY <1>1, <1>2, <3>1, <3>3, <3>4 DEF AuthoredOn
  <2>5. ASSUME PushAnswered(d) PROVE AuthoredOn(d)'
    <3> DEFINE S == Head(app[d].chunks)
               rest == Tail(app[d].chunks)
               half == FirstOf(S, (Cardinality(S) + 1) \div 2)
    <3>1. app[d].chunks \in Seq(SUBSET made) /\ app[d].chunks # << >>
      <4>1. req[App(d)] # NoReq /\ app[d].pc = "push"
        BY <2>5 DEF PushAnswered, Answered, NoReq, Request
      <4> QED BY <1>2, <4>1 DEF AuthoredOn, TypeInv, RoundOK
    <3>2. S \in SUBSET made /\ rest \in Seq(SUBSET made)
      BY <3>1
    <3>3. half \in SUBSET made
      BY <3>2 DEF FirstOf
    <3>4. << >> \in Seq(SUBSET made)
      OBVIOUS
    <3>5. PushAnswered(d)
      BY <2>5
    <3> HIDE DEF S, rest, half
    <3>6. << half, S \ half >> \in Seq(SUBSET made)
      BY <3>2, <3>3
    <3>7. << half, S \ half >> \o rest \in Seq(SUBSET made)
      BY <3>2, <3>6
    <3>8. outbox'[d] \subseteq outbox[d] /\ parked'[d] \subseteq parked[d] \cup S
      BY <1>1, <3>5 DEF PushAnswered, Quarantine, StoredType, S
    <3>9. CASE EndRound(d)
      <4>1. app'[d] = Idle
        BY <1>1, <3>9 DEF EndRound
      <4> QED BY <1>1, <1>2, <2>1, <3>2, <3>8, <4>1 DEF AuthoredOn
    <3>10. CASE ~ EndRound(d)
      <4> DEFINE cut == << half, S \ half >> \o rest
      <4>1. \/ app' = [app EXCEPT ![d].chunks = rest]
            \/ app' = [app EXCEPT ![d].pc = "unqueue", ![d].unq = S, ![d].chunks = rest]
            \/ app' = [app EXCEPT ![d].chunks = cut]
            \/ app' = [app EXCEPT ![d].denied = TRUE, ![d].chunks = << >>]
        BY <3>5, <3>10 DEF PushAnswered, S, rest, half
      <4> HIDE DEF cut
      <4>2. /\ app'[d].all = app[d].all /\ app'[d].left = app[d].left
            /\ app'[d].unq \in {app[d].unq, S} /\ app'[d].chunks \in {rest, cut, << >>}
        BY <1>1, <4>1 DEF Round
      <4>3. cut \in Seq(SUBSET made)
        BY <3>7 DEF cut
      <4> QED BY <1>1, <1>2, <3>2, <3>4, <3>8, <4>2, <4>3 DEF AuthoredOn
    <3> QED BY <3>9, <3>10
  <2> QED BY <2>4, <2>5, <2>7, <2>8, <2>9, <2>10, <2>11, <2>12, <2>13, <2>14, <2>15, <2>16, <2>17, <2>18, <2>19, <2>20 DEF AppStep
<1> QED BY <1>1, <1>2, <1>3, <1>4, AppOthers, DeviceAuthored

(* A worker sends what it found queued.                                    *)
LEMMA WorkerAuthored ==
  ASSUME TypeInv, Authored, NEW d \in Device, WorkerStep(d)
  PROVE  Authored'
<1> USE DEF stored, server, history
<1>1. /\ StoredType /\ UNCHANGED <<seq, made, app>> /\ Worker(d) \in Lane
      /\ sw \in [Device -> WorkerEvent] /\ sw[d] \in WorkerEvent
  <2>1. UNCHANGED <<seq, made, app>>
    BY DEF WorkerStep, WakePull, WorkerHead, WorkerOps, WorkerApply, WorkerStamp,
         WakeFlush, FlushCheck, FlushSend, FlushAnswered
  <2> QED BY <2>1, StoredFacts, WorkerFacts DEF TypeInv, TypeOK
<1>2. AuthoredOn(d) /\ \A c \in Lane : req[c].ops \subseteq made
  BY DEF Authored
<1>3. \A c \in Lane : req'[c].ops \subseteq made
  <2>1. \/ req' = req
        \/ req' = [req EXCEPT ![Worker(d)] = NoReq]
        \/ Send(Worker(d), sw[d].ops)
    BY DEF WorkerStep, WakePull, WorkerHead, WorkerOps, WorkerApply, WorkerStamp,
         WakeFlush, FlushCheck, FlushSend, FlushAnswered
  <2>2. sw[d].ops \in SUBSET made
    BY <1>2 DEF AuthoredOn
  <2> QED BY <1>1, <2>1, <2>2, SentAuthored
<1>4. AuthoredOn(d)'
  <2>1. ASSUME outbox'[d] \subseteq outbox[d], parked' = parked,
               sw'[d].ops \in {sw[d].ops, outbox[d], {}}
        PROVE  AuthoredOn(d)'
    BY <1>1, <1>2, <2>1 DEF AuthoredOn
  <2>2. ASSUME Rest(d) PROVE sw'[d].ops = {}
    BY <1>1, <2>2 DEF Rest, Asleep
  <2>3. ASSUME WakePull(d) \/ WorkerOps(d) \/ WorkerApply(d) \/ WakeFlush(d)
        PROVE  AuthoredOn(d)'
    BY <1>1, <2>1, <2>3 DEF WakePull, WorkerOps, WorkerApply, WakeFlush, WorkerEvent
  <2>4. ASSUME WorkerHead(d) PROVE AuthoredOn(d)'
    <3>1. CASE sw' = [sw EXCEPT ![d].pc = "ops", ![d].latest = lastSeq]
      BY <1>1, <2>1, <2>4, <3>1 DEF WorkerHead, WorkerEvent
    <3> QED BY <2>1, <2>2, <2>4, <3>1 DEF WorkerHead
  <2>5. ASSUME FlushSend(d) PROVE AuthoredOn(d)'
    BY <1>1, <2>1, <2>5 DEF FlushSend, WorkerEvent
  <2>6. ASSUME WorkerStamp(d) \/ FlushAnswered(d) PROVE AuthoredOn(d)'
    BY <1>1, <2>1, <2>2, <2>6 DEF WorkerStamp, FlushAnswered, StoredType
  <2>7. ASSUME FlushCheck(d) PROVE AuthoredOn(d)'
    <3>1. CASE sw' = [sw EXCEPT ![d].pc = "send"] /\ UNCHANGED outbox
      BY <1>1, <2>1, <2>7, <3>1 DEF FlushCheck, WorkerEvent
    <3>2. CASE outbox' = [outbox EXCEPT ![d] = @ \ sw[d].ops] /\ Rest(d)
      BY <1>1, <2>1, <2>2, <2>7, <3>2 DEF FlushCheck, StoredType
    <3> QED BY <2>7, <3>1, <3>2 DEF FlushCheck
  <2> QED BY <2>3, <2>4, <2>5, <2>6, <2>7 DEF WorkerStep
<1> QED BY <1>1, <1>2, <1>3, <1>4, WorkerOthers, DeviceAuthored

(* The server accepts only ops of the request, which keeps its ops.        *)
LEMMA ServeOps ==
  ASSUME TypeInv, NEW c \in Lane, Serve(c), NEW l \in Lane
  PROVE  req'[l].ops \subseteq req[l].ops
<1>1. req \in [Lane -> Requests] /\ req[c] \in Requests
  BY StoredFacts
<1>2. ASSUME NEW a, Reply(c, a) PROVE req'[l].ops \subseteq req[l].ops
  BY <1>1, <1>2 DEF Reply, Answer, NoReq, Request
<1>3. ASSUME Collide(c) PROVE req'[l].ops \subseteq req[l].ops
  BY <1>1, <1>2, <1>3 DEF Collide, Request
<1>4. ASSUME Receive(c) PROVE req'[l].ops \subseteq req[l].ops
  <2>1. CASE req' = [req EXCEPT ![c].phase = "read", ![c].at = lastSeq, ![c].rows = srow,
                                ![c].known = req[c].ops \cap Landed]
    BY <1>1, <2>1 DEF Requests
  <2> QED BY <1>2, <1>4, <2>1 DEF Receive
<1> QED BY <1>2, <1>3, <1>4 DEF Serve, Commit

(* What lands was asked for.                                               *)
LEMMA ServeAuthored ==
  ASSUME TypeInv, LogInv, Authored, NEW c \in Lane, Serve(c)
  PROVE  Authored'
<1>1. UNCHANGED <<outbox, parked, app, sw, made>>
  BY DEF Serve, Receive, Collide, Commit, stored, memory, history
<1>2. Landed' \subseteq Landed \cup req[c].ops
  <2>1. CASE Commit(c)
    BY <2>1, CommitAppends DEF Accepted
  <2>2. CASE ~ Commit(c)
    BY <2>2 DEF Serve, Receive, Collide, server, Landed
  <2> QED BY <2>1, <2>2
<1>3. \A l \in Lane : req'[l].ops \subseteq made
  BY <1>1, ServeOps DEF Authored
<1>4. \A d \in Device : AuthoredOn(d)'
  BY <1>1 DEF Authored, AuthoredOn
<1> QED BY <1>1, <1>2, <1>3, <1>4 DEF Authored

(* An abandoned request asks for what it asked for.                        *)
LEMMA AbandonOps ==
  ASSUME TypeInv, NEW c \in Lane, NEW r, r.ops \subseteq req[c].ops, Abandon(c, r), NEW l \in Lane
  PROVE  \E k \in Lane : req'[l].ops \subseteq req[k].ops
<1> DEFINE stray == <<c[1], "stray">>
<1>1. \/ req' = [req EXCEPT ![c] = r]
      \/ req' = [req EXCEPT ![c] = r, ![stray] = req[c]]
  BY DEF Abandon
<1>2. req \in [Lane -> Requests]
  BY StoredFacts
<1> HIDE DEF stray
<1> QED BY <1>1, <1>2

(* Membership moves and failures author nothing.                           *)
LEMMA EnvironmentAuthored ==
  ASSUME TypeInv, Authored, Environment
  PROVE  Authored'
<1> USE DEF stored, memory, server, history
<1>1. StoredType /\ app \in [Device -> Round] /\ sw \in [Device -> WorkerEvent]
  BY StoredFacts DEF TypeInv, TypeOK
<1>2. UNCHANGED <<seq, made>> /\ Landed' = Landed
  BY DEF Environment, Grant, Rerole, Revoke, Leave, LosePull, CloseApp, KillWorker, LosePush,
     FixServer, Landed
<1>3. \A c \in Lane : req'[c].ops \subseteq made
  <2>1. ASSUME NEW c \in Lane, NEW r, r.ops \subseteq req[c].ops, Abandon(c, r)
        PROVE  \A l \in Lane : req'[l].ops \subseteq made
    BY <2>1, AbandonOps DEF Authored
  <2>2. NoReq.ops = {} /\ \A c \in Lane : \A a : Answer(c, a).ops = req[c].ops
    BY DEF NoReq, Request, Answer
  <2>3. CASE req' = req
    BY <2>3 DEF Authored
  <2> QED BY <2>1, <2>2, <2>3, RoundFacts, WorkerFacts DEF Environment, Grant, Rerole, Revoke,
     Leave, LosePull, CloseApp, KillWorker, LosePush, FixServer
<1>4. \A d \in Device :
        /\ outbox'[d] \subseteq outbox[d] /\ parked'[d] \subseteq parked[d]
        /\ app'[d] \in {app[d], Idle} /\ sw'[d] \in {sw[d], Asleep}
  BY <1>1 DEF Environment, Grant, Rerole, Revoke, Leave, LosePull, CloseApp, KillWorker, LosePush,
     FixServer, Purge, EndRound, Rest, StoredType
<1>5. \A d \in Device : AuthoredOn(d)'
  <2>1. /\ Idle.all = {} /\ Idle.left = {} /\ Idle.unq = {} /\ Idle.chunks = << >>
        /\ Asleep.ops = {}
    BY DEF Idle, Asleep
  <2>2. << >> \in Seq(SUBSET made)
    OBVIOUS
  <2> QED BY <1>2, <1>4, <2>1, <2>2 DEF Authored, AuthoredOn
<1> QED BY <1>2, <1>3, <1>5 DEF Authored

(* Every step keeps it.                                                    *)
LEMMA NextAuthored == TypeInv /\ LogInv /\ Authored /\ [Next]_vars => Authored'
<1> SUFFICES ASSUME TypeInv, LogInv, Authored, [Next]_vars PROVE Authored'
  OBVIOUS
<1>1. ASSUME NEW d \in Device, NEW op \in Op, Edit(d, op) PROVE Authored'
  <2>1. /\ UNCHANGED <<req, app, sw, parked>> /\ Landed' = Landed /\ made' = made \cup {op}
    BY <1>1 DEF Edit, server, memory, Landed
  <2>2. \A e \in Device : outbox'[e] \subseteq outbox[e] \cup {op}
    BY <1>1, StoredFacts DEF Edit, StoredType
  <2>3. \A e \in Device : app[e].chunks \in Seq(SUBSET made')
    <3>1. ASSUME NEW cs \in Seq(SUBSET made) PROVE cs \in Seq(SUBSET made')
      BY <2>1
    <3> QED BY <3>1 DEF Authored, AuthoredOn
  <2> QED BY <2>1, <2>2, <2>3 DEF Authored, AuthoredOn
<1>2. CASE UNCHANGED vars
  BY <1>2 DEF vars, server, stored, memory, history, Authored, AuthoredOn, Landed
<1> QED BY <1>1, <1>2, AppAuthored, WorkerAuthored, ServeAuthored, EnvironmentAuthored DEF Next

(***************************************************************************)
(* Positions.  No two ops of the log share one, and the last is taken.     *)
(***************************************************************************)
Positions ==
  /\ \A p, q \in Landed : seq[p] = seq[q] => p = q
  /\ lastSeq # 0 => \E op \in Op : seq[op] = lastSeq

(* Two ops of a push have different ranks.                                 *)
LEMMA RankInjective ==
  ASSUME NEW S \in SUBSET Op, NEW p \in S, NEW q \in S, Rank(S, p) = Rank(S, q)
  PROVE  p = q
<1>1. ASSUME NEW x \in S, NEW y \in S, x.hlc < y.hlc PROVE Rank(S, x) # Rank(S, y)
  <2> DEFINE X == {o \in S : o.hlc <= x.hlc}
             Y == {o \in S : o.hlc <= y.hlc}
  <2>1. \A o \in S : o.hlc \in Int
    BY OpsTyped, MergeAssumption DEF IsOp, Hlc
  <2>2. X \in SUBSET Y /\ y \in Y /\ y \notin X /\ Y \in SUBSET Op
    BY <1>1, <2>1
  <2>3. IsFiniteSet(Y)
    BY <2>2, OpsFinite
  <2> HIDE DEF X, Y
  <2>4. Cardinality(X) # Cardinality(Y)
    BY <2>2, <2>3, FS_Subset
  <2> QED BY <2>4 DEF Rank, X, Y
<1>2. p.hlc \in Int /\ q.hlc \in Int
  BY OpsTyped, MergeAssumption DEF IsOp, Hlc
<1>3. p.hlc = q.hlc
  BY <1>1, <1>2
<1> QED BY <1>3, SpaceSyncAssumption

(* ... and together the ranks are 1..|S|.                                  *)
LEMMA RanksAreDense ==
  ASSUME NEW S \in SUBSET Op
  PROVE  {Rank(S, op) : op \in S} = 1 .. Cardinality(S)
<1> DEFINE n == Cardinality(S)
           f == [op \in S |-> Rank(S, op)]
<1>1. IsFiniteSet(S) /\ n \in Nat
  BY OpsFinite
<1>2. IsFiniteSet(1 .. n) /\ Cardinality(1 .. n) = n
  BY <1>1, FS_Interval
<1>3. f \in [S -> 1 .. n]
  BY RankInRange
<1>4. f \in Injection(S, 1 .. n)
  BY <1>3, RankInjective DEF Injection, IsInjective
<1>5. f \in Surjection(S, 1 .. n)
  <2> HIDE DEF f, n
  <2> QED BY <1>1, <1>2, <1>4, FS_Injection DEF n
<1>6. \A m \in 1 .. n : \E op \in S : f[op] = m
  BY <1>5 DEF Surjection
<1> QED BY <1>3, <1>6

(* What a commit that accepts something does to the positions.             *)
LEMMA CommitPositions ==
  ASSUME TypeInv, LogInv, NEW c \in Lane, Commit(c), Accepted(req[c]) # {}
  PROVE  LET new == Accepted(req[c])
         IN /\ \A op \in new : seq'[op] = lastSeq + Rank(new, op)
            /\ lastSeq' = lastSeq + Cardinality(new)
            /\ {seq'[op] : op \in new} = lastSeq + 1 .. lastSeq + Cardinality(new)
<1> DEFINE new == Accepted(req[c])
<1>1. new \in SUBSET Op
  BY CommitAppends
<1>2. req[c].at = lastSeq
  BY DEF Commit, IsUniqueViolation
<1>3. /\ seq' = [op \in Op |-> IF op \in new THEN lastSeq + Rank(new, op) ELSE seq[op]]
      /\ lastSeq' = lastSeq + Cardinality(new)
  BY <1>2 DEF Commit
<1> HIDE DEF new
<1>4. {Rank(new, op) : op \in new} = 1 .. Cardinality(new)
  BY <1>1, RanksAreDense
<1>5. lastSeq \in Nat /\ Cardinality(new) \in Nat
  BY <1>1, StoredFacts, OpsFinite
<1>6. \A op \in new : Rank(new, op) \in 1 .. Cardinality(new)
  BY <1>1, RankInRange
<1>7. \A op \in new : seq'[op] = lastSeq + Rank(new, op)
  BY <1>1, <1>3
<1>8. {seq'[op] : op \in new} = lastSeq + 1 .. lastSeq + Cardinality(new)
  <2>1. ASSUME NEW m \in lastSeq + 1 .. lastSeq + Cardinality(new)
        PROVE  m \in {seq'[op] : op \in new}
    <3>1. m - lastSeq \in 1 .. Cardinality(new)
      BY <1>5
    <3>2. PICK op \in new : Rank(new, op) = m - lastSeq
      BY <1>4, <3>1
    <3> QED BY <1>5, <1>7, <3>2
  <2>2. ASSUME NEW op \in new PROVE seq'[op] \in lastSeq + 1 .. lastSeq + Cardinality(new)
    BY <1>5, <1>6, <1>7
  <2> QED BY <2>1, <2>2
<1> QED BY <1>3, <1>7, <1>8 DEF new

(* Only a commit moves the log.                                            *)
LEMMA LogStays ==
  ASSUME Next, \A c \in Lane : ~ Commit(c)
  PROVE  UNCHANGED <<seq, lastSeq>> /\ Landed' = Landed
<1>1. UNCHANGED <<seq, lastSeq>>
  <2>1. ASSUME NEW d \in Device, AppStep(d) PROVE UNCHANGED <<seq, lastSeq>>
    BY <2>1 DEF AppStep, StartRound, ReadParked, OfferParked, ParkedAnswered, EndRetry, PushNext,
         PushAnswered, Unqueue, StartPull, PullHead, PullOps, PullApply, PullStamp, Drained,
         ParkReadOnly, EvictPurge, server
  <2>2. ASSUME NEW d \in Device, WorkerStep(d) PROVE UNCHANGED <<seq, lastSeq>>
    BY <2>2 DEF WorkerStep, WakePull, WorkerHead, WorkerOps, WorkerApply, WorkerStamp, WakeFlush,
         FlushCheck, FlushSend, FlushAnswered, server
  <2>3. ASSUME NEW c \in Lane, Receive(c) \/ Collide(c) PROVE UNCHANGED <<seq, lastSeq>>
    BY <2>3 DEF Receive, Collide, server
  <2>4. ASSUME Environment PROVE UNCHANGED <<seq, lastSeq>>
    BY <2>4 DEF Environment, Grant, Rerole, Revoke, Leave, LosePull, CloseApp, KillWorker,
              LosePush, FixServer, server
  <2>5. ASSUME NEW d \in Device, NEW op \in Op, Edit(d, op) PROVE UNCHANGED <<seq, lastSeq>>
    BY <2>5 DEF Edit, server
  <2> QED BY <2>1, <2>2, <2>3, <2>4, <2>5 DEF Next, Serve
<1> QED BY <1>1 DEF Landed

(* Initially nothing has a position.                                       *)
LEMMA InitPositions == Init => Positions
BY DEF Init, Positions, Landed

(* Only a commit gives positions, and it gives the next ones.              *)
LEMMA NextPositions == TypeInv /\ LogInv /\ Positions /\ [Next]_vars => Positions'
<1> SUFFICES ASSUME TypeInv, LogInv, Positions, [Next]_vars PROVE Positions'
  OBVIOUS
<1>1. CASE UNCHANGED <<seq, lastSeq>>
  BY <1>1 DEF Positions, Landed
<1>2. ASSUME NEW c \in Lane, Commit(c) PROVE Positions'
  <2> DEFINE new == Accepted(req[c])
  <2>1. /\ new \in SUBSET Op /\ Landed' = Landed \cup new /\ new \cap Landed = {}
        /\ \A op \in new : seq'[op] > lastSeq
        /\ \A op \in Op \ new : seq'[op] = seq[op]
        /\ new = {} => lastSeq' = lastSeq
    BY <1>2, CommitAppends
  <2>2. new # {} => /\ \A op \in new : seq'[op] = lastSeq + Rank(new, op)
                    /\ lastSeq' = lastSeq + Cardinality(new)
                    /\ {seq'[op] : op \in new} = lastSeq + 1 .. lastSeq + Cardinality(new)
    BY <1>2, CommitPositions
  <2> HIDE DEF new
  <2>3. lastSeq \in Nat /\ seq \in [Op -> 0 .. lastSeq] /\ Cardinality(new) \in Nat
    BY <2>1, TypeFacts, OpsFinite
  <2>4. \A op \in new : Rank(new, op) \in 1 .. Cardinality(new)
    BY <2>1, RankInRange
  <2>5. ASSUME NEW p \in Landed', NEW q \in Landed', seq'[p] = seq'[q] PROVE p = q
    <3>1. CASE p \in new /\ q \in new
      <4>1. Rank(new, p) = Rank(new, q)
        BY <2>2, <2>3, <2>4, <2>5, <3>1
      <4> QED BY <2>1, <3>1, <4>1, RankInjective
    <3>2. CASE p \notin new /\ q \notin new
      BY <2>1, <2>5, <3>2 DEF Positions, Landed
    <3>3. CASE (p \in new) # (q \in new)
      BY <2>1, <2>3, <2>5, <3>3 DEF Landed
    <3> QED BY <3>1, <3>2, <3>3
  <2>6. ASSUME lastSeq' # 0 PROVE \E op \in Op : seq'[op] = lastSeq'
    <3>1. CASE new = {}
      BY <2>1, <2>6, <3>1 DEF Positions
    <3>2. CASE new # {}
      <4>1. Cardinality(new) >= 1
        BY <2>3, <2>4, <3>2
      <4>2. lastSeq' \in lastSeq + 1 .. lastSeq + Cardinality(new)
        BY <2>2, <2>3, <3>2, <4>1
      <4> QED BY <2>1, <2>2, <3>2, <4>2
    <3> QED BY <3>1, <3>2
  <2> QED BY <2>5, <2>6 DEF Positions
<1> QED BY <1>1, <1>2, LogStays DEF vars, server

(***************************************************************************)
(* Nothing a device shows is lost: it is queued, parked or in the log.     *)
(* The invariant follows the ops through the gaps of a round: those the    *)
(* server took from the parked list but that still stand in it, those      *)
(* parked but still queued, and those a worker waits for.                  *)
(***************************************************************************)
HandedOver(d) ==
  /\ seen[d] \subseteq outbox[d] \cup parked[d] \cup Landed
  /\ app[d].took \subseteq Landed
  /\ app[d].pc = "idle" => app[d] = Idle
  /\ app[d].pc = "retry" =>
       \/ parked[d] \subseteq app[d].all
       \/ app[d].left = {} /\ app[d].took = {} /\ req[App(d)] = NoReq
  /\ app[d].pc = "unqueue" => app[d].unq \cap seen[d] \subseteq parked[d] \cup Landed
  /\ app[d].page \subseteq Landed /\ sw[d].page \subseteq Landed
  /\ sw[d].pc = "await" => req[Worker(d)].ops = sw[d].ops

Granted(c) == req[c].phase = "200" => req[c].ops \subseteq Landed

HandInv == (\A d \in Device : HandedOver(d)) /\ \A c \in Lane : Granted(c)

(* Nothing is shown at first.                                              *)
LEMMA InitHands == Init => HandInv
<1> SUFFICES ASSUME Init PROVE HandInv
  OBVIOUS
<1>1. \A d \in Device : HandedOver(d)
  BY DEF Init, HandedOver, Idle, Asleep
<1>2. \A c \in Lane : Granted(c)
  BY DEF Init, Granted, NoReq, Request
<1> QED BY <1>1, <1>2 DEF HandInv

(* A caller that sends a request or consumes an answer grants nothing.     *)
LEMMA SentGranted ==
  ASSUME TypeInv, HandInv, NEW c \in Lane, Landed' = Landed,
         \/ req' = req
         \/ req' = [req EXCEPT ![c] = NoReq]
         \/ \E S : Send(c, S)
  PROVE  \A l \in Lane : Granted(l)'
<1>1. \A l \in Lane : Granted(l)
  BY DEF HandInv
<1>2. req \in [Lane -> Requests]
  BY StoredFacts
<1>3. CASE req' = req
  BY <1>1, <1>3 DEF Granted
<1>4. CASE req' = [req EXCEPT ![c] = NoReq]
  BY <1>1, <1>2, <1>4 DEF NoReq, Request, Granted
<1>5. ASSUME NEW S, Send(c, S) PROVE \A l \in Lane : Granted(l)'
  BY <1>1, <1>2, <1>5 DEF Send, NewReq, Request, Granted
<1> QED BY <1>3, <1>4, <1>5

(* The end of a round leaves nothing in hand.                              *)
LEMMA IdleHands ==
  /\ Idle.pc = "idle" /\ Idle.took = {} /\ Idle.page = {} /\ Idle.left = {} /\ Idle.all = {}
  /\ Asleep.pc = "idle" /\ Asleep.page = {}
BY DEF Idle, Asleep

(* A round takes an op out of the outbox only when the server has it, or   *)
(* the parked list.                                                        *)
LEMMA AppHands ==
  ASSUME TypeInv, HandInv, NEW d \in Device, AppStep(d)
  PROVE  HandedOver(d)'
<1>1. /\ StoredType /\ app \in [Device -> Round] /\ req \in [Lane -> Requests]
      /\ App(d) \in Lane /\ Worker(d) \in Lane /\ App(d) # Worker(d) /\ app[d] \in Round
  BY StoredFacts, RoundFacts, WorkerFacts
<1>2. HandedOver(d) /\ Granted(App(d)) /\ (app[d].pc \notin {"retry", "push"} => req[App(d)] = NoReq)
  BY <1>1, NoRequest DEF HandInv
<1>3. Landed' = Landed /\ sw' = sw /\ req'[Worker(d)] = req[Worker(d)]
  <2>1. UNCHANGED <<seq, sw>>
    BY DEF AppStep, StartRound, ReadParked, OfferParked, ParkedAnswered, EndRetry, PushNext,
         PushAnswered, Unqueue, StartPull, PullHead, PullOps, PullApply, PullStamp, Drained,
         ParkReadOnly, EvictPurge, server, memory
  <2>2. \/ req' = req
        \/ req' = [req EXCEPT ![App(d)] = NoReq]
        \/ \E S : Send(App(d), S)
    BY DEF AppStep, StartRound, ReadParked, OfferParked, ParkedAnswered, EndRetry, PushNext,
         PushAnswered, Unqueue, StartPull, PullHead, PullOps, PullApply, PullStamp, Drained,
         ParkReadOnly, EvictPurge
  <2>3. req' = req \/ \E r : req' = [req EXCEPT ![App(d)] = r]
    BY <2>2 DEF Send
  <2> QED BY <1>1, <2>1, <2>3 DEF Landed
<1> USE DEF stored, memory
<1>4. ASSUME StartRound(d) PROVE HandedOver(d)'
  <2>1. CASE Go(d, "retry") /\ UNCHANGED <<rows, outbox, parked, seen>>
    BY <1>2, <1>3, <1>4, <2>1, GoLocals, IdleHands DEF HandedOver, SameLocals, StartRound
  <2>2. CASE Purge(d) /\ app' = app
    BY <1>1, <1>2, <1>3, <1>4, <2>2 DEF HandedOver, Purge, StoredType, StartRound
  <2> QED BY <1>4, <2>1, <2>2 DEF StartRound
<1>5. ASSUME ReadParked(d) PROVE HandedOver(d)'
  BY <1>1, <1>2, <1>3, <1>5 DEF ReadParked, HandedOver, Round
<1>6. ASSUME OfferParked(d) PROVE HandedOver(d)'
  BY <1>1, <1>2, <1>3, <1>6 DEF OfferParked, HandedOver
<1>7. ASSUME ParkedAnswered(d) PROVE HandedOver(d)'
  <2>1. req[App(d)] # NoReq
    BY <1>7 DEF ParkedAnswered, Answered, NoReq, Request
  <2>2. /\ app'[d].pc = "retry" /\ app'[d].all = app[d].all /\ app'[d].page = app[d].page
        /\ app'[d].took \subseteq Landed
    BY <1>1, <1>2, <1>7 DEF ParkedAnswered, Round, HandedOver, Granted
  <2> QED BY <1>2, <1>3, <1>7, <2>1, <2>2 DEF ParkedAnswered, HandedOver
<1>8. ASSUME EndRetry(d) PROVE HandedOver(d)'
  <2> DEFINE cs == Chunked(outbox[d])
  <2>1. app' = [app EXCEPT ![d] = [Idle EXCEPT !.pc = "push", !.chunks = cs]]
    BY <1>8 DEF EndRetry
  <2> HIDE DEF cs
  <2>2. app'[d].pc = "push" /\ app'[d].took = {} /\ app'[d].page = {}
    BY <1>1, <2>1 DEF Idle
  <2>3. parked[d] \subseteq parked'[d] \cup Landed
    BY <1>1, <1>2, <1>8 DEF EndRetry, HandedOver, StoredType
  <2> QED BY <1>2, <1>3, <1>8, <2>2, <2>3 DEF EndRetry, HandedOver
<1>9. ASSUME PushNext(d) PROVE HandedOver(d)'
  BY <1>1, <1>2, <1>3, <1>9 DEF PushNext, HandedOver
<1>10. ASSUME PushAnswered(d) PROVE HandedOver(d)'
  <2> DEFINE S == Head(app[d].chunks)
             rest == Tail(app[d].chunks)
             cut == << FirstOf(S, (Cardinality(S) + 1) \div 2),
                       S \ FirstOf(S, (Cardinality(S) + 1) \div 2) >> \o rest
  <2>1. app[d].pc = "push" /\ req[App(d)].ops = S
    BY <1>10 DEF PushAnswered, Answered, NoReq, Request, TypeInv, RoundOK
  <2>2. \/ /\ req[App(d)].phase = "200" /\ outbox' = [outbox EXCEPT ![d] = @ \ S]
           /\ app' = [app EXCEPT ![d].chunks = rest] /\ parked' = parked
        \/ /\ outbox' = outbox /\ parked' = [parked EXCEPT ![d] = @ \cup S]
           /\ app' = [app EXCEPT ![d].pc = "unqueue", ![d].unq = S, ![d].chunks = rest]
        \/ /\ UNCHANGED <<outbox, parked>>
           /\ \/ app' = [app EXCEPT ![d].chunks = cut]
              \/ app' = [app EXCEPT ![d].denied = TRUE, ![d].chunks = << >>]
              \/ EndRound(d)
    BY <1>10 DEF PushAnswered, Quarantine
  <2>3. seen' = seen
    BY <1>10 DEF PushAnswered
  <2> HIDE DEF S, rest, cut
  <2>4. CASE EndRound(d) /\ UNCHANGED <<outbox, parked>>
    BY <1>1, <1>2, <1>3, <2>3, <2>4, IdleHands DEF EndRound, HandedOver
  <2>5. CASE /\ UNCHANGED <<outbox, parked>>
             /\ \/ app' = [app EXCEPT ![d].chunks = cut]
                \/ app' = [app EXCEPT ![d].denied = TRUE, ![d].chunks = << >>]
    <3>1. app'[d].pc = "push" /\ app'[d].took = app[d].took /\ app'[d].page = app[d].page
      BY <1>1, <2>1, <2>5 DEF Round
    <3> QED BY <1>2, <1>3, <2>3, <2>5, <3>1 DEF HandedOver
  <2>6. CASE /\ req[App(d)].phase = "200" /\ outbox' = [outbox EXCEPT ![d] = @ \ S]
             /\ app' = [app EXCEPT ![d].chunks = rest] /\ parked' = parked
    <3>1. app'[d].pc = "push" /\ app'[d].took = app[d].took /\ app'[d].page = app[d].page
      BY <1>1, <2>1, <2>6 DEF Round
    <3>2. outbox[d] \subseteq outbox'[d] \cup Landed
      BY <1>1, <1>2, <2>1, <2>6 DEF Granted, StoredType
    <3> QED BY <1>2, <1>3, <2>3, <2>6, <3>1, <3>2 DEF HandedOver
  <2>7. CASE /\ outbox' = outbox /\ parked' = [parked EXCEPT ![d] = @ \cup S]
             /\ app' = [app EXCEPT ![d].pc = "unqueue", ![d].unq = S, ![d].chunks = rest]
    <3>1. /\ app'[d].pc = "unqueue" /\ app'[d].took = app[d].took /\ app'[d].page = app[d].page
          /\ app'[d].unq = S
      BY <1>1, <2>1, <2>7 DEF Round
    <3>2. parked'[d] = parked[d] \cup S
      BY <1>1, <2>7 DEF StoredType
    <3> QED BY <1>2, <1>3, <2>3, <2>7, <3>1, <3>2 DEF HandedOver
  <2> QED BY <2>2, <2>4, <2>5, <2>6, <2>7
<1>11. ASSUME Unqueue(d) PROVE HandedOver(d)'
  <2>1. outbox'[d] = outbox[d] \ app[d].unq /\ UNCHANGED <<parked, seen>>
    BY <1>1, <1>11 DEF Unqueue, StoredType
  <2>2. seen[d] \subseteq outbox'[d] \cup parked[d] \cup Landed
    BY <1>2, <1>11, <2>1 DEF HandedOver, Unqueue
  <2>3. CASE EndRound(d)
    BY <1>1, <1>2, <1>3, <2>1, <2>2, <2>3, IdleHands DEF EndRound, HandedOver
  <2>4. CASE app' = [app EXCEPT ![d].pc = "push", ![d].unq = {}]
    <3>1. app'[d].pc = "push" /\ app'[d].took = app[d].took /\ app'[d].page = app[d].page
      BY <1>1, <2>4 DEF Round
    <3> QED BY <1>2, <1>3, <2>1, <2>2, <3>1 DEF HandedOver
  <2> QED BY <1>11, <2>3, <2>4 DEF Unqueue
<1>12. ASSUME StartPull(d) PROVE HandedOver(d)'
  BY <1>1, <1>2, <1>3, <1>12 DEF StartPull, HandedOver, Round
<1>13. ASSUME PullHead(d) PROVE HandedOver(d)'
  <2>1. CASE Go(d, "purge")
    BY <1>2, <1>3, <1>13, <2>1, GoLocals DEF PullHead, HandedOver, SameLocals
  <2>2. CASE app' = [app EXCEPT ![d].pc = "ops", ![d].latest = lastSeq]
    BY <1>1, <1>2, <1>3, <1>13, <2>2 DEF PullHead, HandedOver, Round
  <2> QED BY <1>13, <2>1, <2>2 DEF PullHead
<1>14. ASSUME PullOps(d) PROVE HandedOver(d)'
  <2> DEFINE P == PageAfter(app[d].since)
             l == IF P = {} THEN "drained" ELSE "apply"
  <2>1. app' = [app EXCEPT ![d].page = P, ![d].pc = l]
    BY <1>14 DEF PullOps
  <2>2. P \subseteq Landed
    BY TypeFacts DEF PageAfter, After, Landed, Round
  <2>3. l \in {"drained", "apply"}
    OBVIOUS
  <2> HIDE DEF P, l
  <2>4. app'[d].page = P /\ app'[d].pc = l /\ app'[d].took = app[d].took
    BY <1>1, <2>1 DEF Round
  <2> QED BY <1>2, <1>3, <1>14, <2>2, <2>3, <2>4 DEF PullOps, HandedOver
<1>15. ASSUME PullApply(d) PROVE HandedOver(d)'
  BY <1>1, <1>2, <1>3, <1>15, GoLocals DEF PullApply, Apply, HandedOver, SameLocals, StoredType
<1>16. ASSUME PullStamp(d) PROVE HandedOver(d)'
  <2>1. CASE AfterPull(d)
    BY <1>2, <1>3, <1>16, <2>1, AfterPullLocals, IdleHands DEF PullStamp, HandedOver, SameLocals
  <2>2. ASSUME NEW n, app' = [app EXCEPT ![d].pc = "head", ![d].since = n, ![d].page = {}]
        PROVE  HandedOver(d)'
    BY <1>1, <1>2, <1>3, <1>16, <2>2 DEF PullStamp, HandedOver, Round
  <2> QED BY <1>16, <2>1, <2>2 DEF PullStamp
<1>17. ASSUME Drained(d) PROVE HandedOver(d)'
  BY <1>2, <1>3, <1>17, AfterPullLocals, IdleHands DEF Drained, HandedOver, SameLocals
<1>18. ASSUME ParkReadOnly(d) PROVE HandedOver(d)'
  <2>1. /\ app'[d].pc = "unqueue" /\ app'[d].took = app[d].took /\ app'[d].page = app[d].page
        /\ app'[d].unq = outbox[d]
    BY <1>1, <1>18 DEF ParkReadOnly, Round
  <2>2. parked'[d] = parked[d] \cup outbox[d] /\ UNCHANGED <<outbox, seen>>
    BY <1>1, <1>18 DEF ParkReadOnly, Quarantine, StoredType
  <2> QED BY <1>2, <1>3, <2>1, <2>2 DEF HandedOver
<1>19. ASSUME EvictPurge(d) PROVE HandedOver(d)'
  BY <1>1, <1>2, <1>3, <1>19, IdleHands DEF EvictPurge, Purge, EndRound, HandedOver, StoredType
<1> QED BY <1>4, <1>5, <1>6, <1>7, <1>8, <1>9, <1>10, <1>11, <1>12, <1>13, <1>14, <1>15, <1>16,
           <1>17, <1>18, <1>19 DEF AppStep

(* The flush of a tombstoned space drops its ops while the app has not yet *)
(* purged their rows (swSync.ts:138): the premise rules that event out.    *)
QuietFlush == \A d \in Device : FlushCheck(d) => ~ evicted[d]

(* Any other event of the worker only drops what the server has.           *)
LEMMA WorkerHands ==
  ASSUME TypeInv, HandInv, NEW d \in Device, WorkerStep(d), QuietFlush
  PROVE  HandedOver(d)'
<1>1. /\ StoredType /\ req \in [Lane -> Requests] /\ sw \in [Device -> WorkerEvent]
      /\ App(d) \in Lane /\ Worker(d) \in Lane /\ App(d) # Worker(d) /\ sw[d] \in WorkerEvent
  BY StoredFacts, RoundFacts, WorkerFacts DEF TypeInv, TypeOK
<1>2. HandedOver(d) /\ Granted(Worker(d))
  BY <1>1 DEF HandInv
<1>3. Landed' = Landed /\ app' = app /\ parked' = parked /\ req'[App(d)] = req[App(d)]
  <2>1. UNCHANGED <<seq, app, parked>>
    BY DEF WorkerStep, WakePull, WorkerHead, WorkerOps, WorkerApply, WorkerStamp, WakeFlush,
         FlushCheck, FlushSend, FlushAnswered, server, stored
  <2>2. \/ req' = req
        \/ req' = [req EXCEPT ![Worker(d)] = NoReq]
        \/ \E S : Send(Worker(d), S)
    BY DEF WorkerStep, WakePull, WorkerHead, WorkerOps, WorkerApply, WorkerStamp, WakeFlush,
         FlushCheck, FlushSend, FlushAnswered
  <2>3. req' = req \/ \E r : req' = [req EXCEPT ![Worker(d)] = r]
    BY <2>2 DEF Send
  <2> QED BY <1>1, <2>1, <2>3 DEF Landed
<1> USE DEF stored
<1>4. ASSUME Rest(d) PROVE sw'[d] = Asleep
  BY <1>1, <1>4 DEF Rest
<1>5. ASSUME WakePull(d) \/ WakeFlush(d) PROVE HandedOver(d)'
  BY <1>1, <1>2, <1>3, <1>5 DEF WakePull, WakeFlush, HandedOver, WorkerEvent
<1>6. ASSUME WorkerHead(d) PROVE HandedOver(d)'
  <2>1. CASE sw' = [sw EXCEPT ![d].pc = "ops", ![d].latest = lastSeq]
    BY <1>1, <1>2, <1>3, <1>6, <2>1 DEF WorkerHead, HandedOver, WorkerEvent
  <2> QED BY <1>2, <1>3, <1>4, <1>6, <2>1, IdleHands DEF WorkerHead, HandedOver
<1>7. ASSUME WorkerOps(d) PROVE HandedOver(d)'
  <2> DEFINE P == PageAfter(sw[d].since)
  <2>1. sw' = [sw EXCEPT ![d].pc = "apply", ![d].page = P]
    BY <1>7 DEF WorkerOps
  <2>2. P \subseteq Landed
    BY <1>1, TypeFacts DEF PageAfter, After, Landed, WorkerEvent
  <2> HIDE DEF P
  <2>3. sw'[d].pc = "apply" /\ sw'[d].page = P
    BY <1>1, <2>1 DEF WorkerEvent
  <2> QED BY <1>2, <1>3, <1>7, <2>2, <2>3 DEF WorkerOps, HandedOver
<1>8. ASSUME WorkerApply(d) PROVE HandedOver(d)'
  <2>1. sw'[d].pc = "stamp" /\ sw'[d].page = sw[d].page
    BY <1>1, <1>8 DEF WorkerApply, WorkerEvent
  <2>2. seen'[d] = seen[d] \cup sw[d].page
    BY <1>1, <1>8 DEF WorkerApply, Apply, StoredType
  <2> QED BY <1>2, <1>3, <1>8, <2>1, <2>2 DEF WorkerApply, HandedOver
<1>9. ASSUME WorkerStamp(d) PROVE HandedOver(d)'
  BY <1>2, <1>3, <1>4, <1>9, IdleHands DEF WorkerStamp, HandedOver
<1>10. ASSUME FlushSend(d) PROVE HandedOver(d)'
  <2>1. /\ Send(Worker(d), sw[d].ops) /\ sw' = [sw EXCEPT ![d].pc = "await"]
        /\ UNCHANGED <<outbox, seen>>
    BY <1>10 DEF FlushSend
  <2>2. req'[Worker(d)].ops = sw[d].ops
    BY <1>1, <2>1 DEF Send, NewReq, Request
  <2>3. sw'[d].ops = sw[d].ops /\ sw'[d].page = sw[d].page
    BY <1>1, <2>1 DEF WorkerEvent
  <2> QED BY <1>2, <1>3, <2>1, <2>2, <2>3 DEF HandedOver
<1>11. ASSUME FlushAnswered(d) PROVE HandedOver(d)'
  <2>1. outbox[d] \subseteq outbox'[d] \cup Landed
    BY <1>1, <1>2, <1>11 DEF FlushAnswered, Flushed, HandedOver, Granted, StoredType
  <2> QED BY <1>2, <1>3, <1>4, <1>11, <2>1, IdleHands DEF FlushAnswered, HandedOver
<1>12. ASSUME FlushCheck(d) PROVE HandedOver(d)'
  <2>1. sw' = [sw EXCEPT ![d].pc = "send"] /\ UNCHANGED <<req, outbox, seen>>
    BY <1>12 DEF FlushCheck, QuietFlush
  <2>2. sw'[d].pc = "send" /\ sw'[d].ops = sw[d].ops /\ sw'[d].page = sw[d].page
    BY <1>1, <2>1 DEF WorkerEvent
  <2> QED BY <1>2, <1>3, <2>1, <2>2 DEF HandedOver
<1> QED BY <1>5, <1>6, <1>7, <1>8, <1>9, <1>10, <1>11, <1>12 DEF WorkerStep

(* A step of one device leaves the hands of the others alone.              *)
LEMMA OtherHands ==
  ASSUME TypeInv, HandInv, NEW d \in Device, AppStep(d) \/ WorkerStep(d), NEW e \in Device \ {d}
  PROVE  HandedOver(e)'
<1>1. Landed' = Landed
  BY DEF AppStep, StartRound, ReadParked, OfferParked, ParkedAnswered, EndRetry, PushNext,
         PushAnswered, Unqueue, StartPull, PullHead, PullOps, PullApply, PullStamp, Drained,
         ParkReadOnly, EvictPurge, WorkerStep, WakePull, WorkerHead, WorkerOps, WorkerApply,
         WorkerStamp, WakeFlush, FlushCheck, FlushSend, FlushAnswered, server, Landed
<1>2. HandedOver(e)
  BY DEF HandInv
<1>3. /\ app'[e] = app[e] /\ sw'[e] = sw[e] /\ seen'[e] = seen[e]
      /\ outbox'[e] = outbox[e] /\ parked'[e] = parked[e]
      /\ req'[App(e)] = req[App(e)] /\ req'[Worker(e)] = req[Worker(e)]
  BY AppOthers, WorkerOthers
<1> QED BY <1>1, <1>2, <1>3 DEF HandedOver

(* A success is answered only after the commit.                            *)
LEMMA ServeGranted ==
  ASSUME TypeInv, LogInv, HandInv, NEW c \in Lane, Serve(c), NEW l \in Lane
  PROVE  Granted(l)' /\ Landed \subseteq Landed'
<1>1. Landed \subseteq Landed'
  <2>1. CASE Commit(c)
    BY <2>1, CommitAppends
  <2>2. CASE ~ Commit(c)
    BY <2>2 DEF Serve, Receive, Collide, server, Landed
  <2> QED BY <2>1, <2>2
<1>2. req \in [Lane -> Requests] /\ Granted(l) /\ req[c] \in Requests
  BY StoredFacts DEF HandInv
<1>3. ASSUME NEW a, Reply(c, a), a # "200" PROVE Granted(l)'
  BY <1>1, <1>2, <1>3 DEF Reply, Answer, NoReq, Request, Granted
<1>4. ASSUME Receive(c) PROVE Granted(l)'
  <2>1. CASE req' = [req EXCEPT ![c].phase = "read", ![c].at = lastSeq, ![c].rows = srow,
                                ![c].known = req[c].ops \cap Landed]
    <3> DEFINE x == [req[c] EXCEPT !.phase = "read", !.at = lastSeq, !.rows = srow,
                                   !.known = req[c].ops \cap Landed]
    <3>1. req' = [req EXCEPT ![c] = x]
      BY <2>1
    <3>2. x.phase = "read"
      BY <1>2 DEF Requests
    <3> HIDE DEF x
    <3> QED BY <1>1, <1>2, <3>1, <3>2 DEF Granted
  <2> QED BY <1>3, <1>4, <2>1 DEF Receive
<1>5. ASSUME Collide(c) PROVE Granted(l)'
  <2>1. CASE req' = [req EXCEPT ![c] = Request("sent", req[c].ops, req[c].tries + 1)]
    BY <1>1, <1>2, <2>1 DEF Request, Granted
  <2> QED BY <1>3, <1>5, <2>1 DEF Collide
<1>6. ASSUME Commit(c) PROVE Granted(l)'
  <2>1. req[c].ops \subseteq Landed'
    <3>1. Accepted(req[c]) \subseteq Landed'
      BY <1>6, CommitAppends
    <3>2. req[c].known \subseteq Landed
      BY <1>6 DEF LogInv, ReadOK, Commit
    <3> QED BY <1>1, <3>1, <3>2 DEF Accepted
  <2>2. Reply(c, "200")
    BY <1>6 DEF Commit
  <2> QED BY <1>1, <1>2, <2>1, <2>2 DEF Reply, Answer, NoReq, Request, Granted
<1> QED BY <1>1, <1>4, <1>5, <1>6 DEF Serve

(* ... and the requests of the devices keep their ops.                     *)
LEMMA ServeHands ==
  ASSUME TypeInv, LogInv, HandInv, NEW c \in Lane, Serve(c)
  PROVE  HandInv'
<1>1. UNCHANGED <<stored, app, sw>>
  BY DEF Serve, Receive, Collide, Commit, memory
<1>2. ASSUME NEW d \in Device PROVE HandedOver(d)'
  <2>1. App(d) \in Lane /\ Worker(d) \in Lane /\ App(d)[2] # "stray" /\ Worker(d)[2] # "stray"
    BY RoundFacts, WorkerFacts DEF App, Worker
  <2>2. /\ req'[Worker(d)].ops = req[Worker(d)].ops
        /\ req'[App(d)] # NoReq => req[App(d)] # NoReq
    BY <2>1, ServeRequests
  <2>3. Landed \subseteq Landed'
    BY ServeGranted
  <2>4. HandedOver(d)
    BY DEF HandInv
  <2> QED BY <1>1, <2>2, <2>3, <2>4 DEF HandedOver, stored
<1> QED BY <1>2, ServeGranted DEF HandInv

(* What is left of an abandoned request has not been granted.              *)
LEMMA AbandonGranted ==
  ASSUME TypeInv, HandInv, Landed' = Landed, NEW c \in Lane, NEW r, r.phase # "200", Abandon(c, r),
         NEW l \in Lane
  PROVE  Granted(l)'
<1> DEFINE stray == <<c[1], "stray">>
<1>1. \/ req' = [req EXCEPT ![c] = r]
      \/ /\ req[c].phase \in {"sent", "read"}
         /\ req' = [req EXCEPT ![c] = r, ![stray] = req[c]]
  BY DEF Abandon
<1>2. req \in [Lane -> Requests] /\ Granted(l) 
  BY StoredFacts DEF HandInv
<1> HIDE DEF stray
<1> QED BY <1>1, <1>2 DEF Granted

(* The user's departure purges what it forgets; failures end rounds and    *)
(* events, and what a worker waits for is lost or granted as it was.       *)
LEMMA EnvironmentHands ==
  ASSUME TypeInv, HandInv, Environment
  PROVE  HandInv'
<1> USE DEF stored, memory, server
<1>1. StoredType /\ app \in [Device -> Round] /\ sw \in [Device -> WorkerEvent]
      /\ req \in [Lane -> Requests]
  BY StoredFacts DEF TypeInv, TypeOK
<1>2. \A d \in Device : HandedOver(d) /\ App(d) \in Lane /\ Worker(d) \in Lane
  BY RoundFacts, WorkerFacts DEF HandInv
<1>3. seq' = seq /\ Landed' = Landed
  BY DEF Environment, Grant, Rerole, Revoke, Leave, LosePull, CloseApp, KillWorker, LosePush,
     FixServer, Landed
<1>4. ASSUME UNCHANGED <<req, stored, app, sw>> PROVE HandInv'
  BY <1>3, <1>4 DEF HandInv, HandedOver, Granted
<1>5. ASSUME NEW d \in Device, Leave(d) PROVE HandInv'
  <2>1. UNCHANGED <<req, app, sw>> /\ Purge(d)
    BY <1>5 DEF Leave
  <2>2. \A e \in Device :
          \/ seen'[e] = {} /\ outbox'[e] = {} /\ parked'[e] = {}
          \/ seen'[e] = seen[e] /\ outbox'[e] = outbox[e] /\ parked'[e] = parked[e]
    BY <1>1, <2>1 DEF Purge, StoredType
  <2>3. \A e \in Device : HandedOver(e)'
    BY <1>2, <1>3, <2>1, <2>2 DEF HandedOver
  <2>4. \A c \in Lane : Granted(c)'
    BY <1>3, <2>1 DEF HandInv, Granted
  <2> QED BY <2>3, <2>4 DEF HandInv
<1>6. ASSUME NEW d \in Device, LosePull(d) PROVE HandInv'
  <2>1. UNCHANGED <<req, stored, sw>> /\ app' = [app EXCEPT ![d] = Idle]
    BY <1>6 DEF LosePull, EndRound
  <2>2. \A e \in Device : app'[e] \in {app[e], Idle}
    BY <1>1, <2>1
  <2>3. \A e \in Device : HandedOver(e)'
    BY <1>2, <1>3, <2>1, <2>2, IdleHands DEF HandedOver
  <2>4. \A c \in Lane : Granted(c)'
    BY <1>3, <2>1 DEF HandInv, Granted
  <2> QED BY <2>3, <2>4 DEF HandInv
<1>7. ASSUME NEW d \in Device, CloseApp(d) PROVE HandInv'
  <2>1. UNCHANGED <<stored, sw>> /\ app' = [app EXCEPT ![d] = Idle] /\ Abandon(App(d), NoReq)
    BY <1>7 DEF CloseApp, EndRound
  <2>2. \A e \in Device : app'[e] \in {app[e], Idle} /\ (e # d => app'[e] = app[e])
    BY <1>1, <2>1
  <2>3. app'[d] = Idle
    BY <1>1, <2>1
  <2>4. NoReq \in Requests /\ NoReq.phase # "200"
    BY NewRequestType DEF NoReq, Request
  <2>5. /\ \A e \in Device : req'[Worker(e)] = req[Worker(e)]
        /\ \A e \in Device \ {d} : req'[App(e)] = req[App(e)]
    <3>1. App(d)[2] # "stray"
      BY DEF App
    <3>2. \A l \in Lane \ {App(d)} : l[2] # "stray" => req'[l] = req[l]
      BY <1>2, <2>1, <2>4, <3>1, AbandonType
    <3> QED BY <1>2, <3>2 DEF App, Worker
  <2>6. \A e \in Device : HandedOver(e)'
    BY <1>2, <1>3, <2>1, <2>2, <2>3, <2>5, IdleHands DEF HandedOver
  <2>7. \A c \in Lane : Granted(c)'
    BY <1>2, <1>3, <2>1, <2>4, AbandonGranted
  <2> QED BY <2>6, <2>7 DEF HandInv
<1>8. ASSUME NEW d \in Device, KillWorker(d) PROVE HandInv'
  <2>1. UNCHANGED <<stored, app>> /\ sw' = [sw EXCEPT ![d] = Asleep] /\ Abandon(Worker(d), NoReq)
    BY <1>8 DEF KillWorker, Rest
  <2>2. sw'[d] = Asleep /\ \A e \in Device \ {d} : sw'[e] = sw[e]
    BY <1>1, <2>1
  <2>3. NoReq \in Requests /\ NoReq.phase # "200"
    BY NewRequestType DEF NoReq, Request
  <2>4. /\ \A e \in Device : req'[App(e)] = req[App(e)]
        /\ \A e \in Device \ {d} : req'[Worker(e)] = req[Worker(e)]
    <3>1. Worker(d)[2] # "stray"
      BY DEF Worker
    <3>2. \A l \in Lane \ {Worker(d)} : l[2] # "stray" => req'[l] = req[l]
      BY <1>2, <2>1, <2>3, <3>1, AbandonType
    <3> QED BY <1>2, <3>2 DEF App, Worker
  <2>5. \A e \in Device : HandedOver(e)'
    BY <1>2, <1>3, <2>1, <2>2, <2>4, IdleHands DEF HandedOver
  <2>6. \A c \in Lane : Granted(c)'
    BY <1>2, <1>3, <2>1, <2>3, AbandonGranted
  <2> QED BY <2>5, <2>6 DEF HandInv
<1>9. ASSUME NEW c \in Lane, LosePush(c) PROVE HandInv'
  <2> DEFINE r == Answer(c, "lost")
  <2>1. UNCHANGED <<stored, app, sw>> /\ Abandon(c, r) /\ c[2] # "stray" /\ req[c] # NoReq
    BY <1>9 DEF LosePush, NoReq, Request
  <2>2. r \in Requests /\ r.ops = req[c].ops /\ r.phase # "200"
    BY <1>1, AnswerType DEF Phases, Answer, Request
  <2> HIDE DEF r
  <2>3. req'[c] = r /\ \A l \in Lane \ {c} : l[2] # "stray" => req'[l] = req[l]
    BY <2>1, <2>2, AbandonType
  <2>4. ASSUME NEW e \in Device
        PROVE  /\ req'[Worker(e)].ops = req[Worker(e)].ops
               /\ req'[App(e)] # NoReq => req[App(e)] # NoReq
    <3>1. App(e)[2] # "stray" /\ Worker(e)[2] # "stray" /\ App(e) \in Lane /\ Worker(e) \in Lane
      BY <1>2 DEF App, Worker
    <3> QED BY <2>1, <2>2, <2>3, <3>1
  <2>5. \A e \in Device : HandedOver(e)'
    BY <1>2, <1>3, <2>1, <2>4 DEF HandedOver
  <2>6. \A l \in Lane : Granted(l)'
    BY <1>3, <2>1, <2>2, AbandonGranted
  <2> QED BY <2>5, <2>6 DEF HandInv
<1> QED BY <1>4, <1>5, <1>6, <1>7, <1>8, <1>9 DEF Environment, Grant, Rerole, Revoke, FixServer

(* A user's write is queued with its row.                                  *)
LEMMA EditHands ==
  ASSUME TypeInv, Authored, HandInv, NEW d \in Device, NEW op \in Op, Edit(d, op)
  PROVE  HandInv'
<1>1. UNCHANGED <<seq, req, app, sw, parked>> /\ Landed' = Landed /\ op \notin made
  BY DEF Edit, server, memory, Landed
<1>2. \A e \in Device : \/ seen'[e] = seen[e] /\ outbox'[e] = outbox[e]
                        \/ seen'[e] = seen[e] \cup {op} /\ outbox'[e] = outbox[e] \cup {op}
  BY StoredFacts DEF Edit, StoredType
<1>3. \A e \in Device : HandedOver(e)'
  BY <1>1, <1>2 DEF HandInv, HandedOver, Authored, AuthoredOn
<1> QED BY <1>1, <1>3 DEF HandInv, Granted

(* Every step but the ill-timed flush keeps it.                            *)
LEMMA NextHands ==
  TypeInv /\ LogInv /\ Authored /\ HandInv /\ [Next]_vars /\ [QuietFlush]_vars => HandInv'
<1> SUFFICES ASSUME TypeInv, LogInv, Authored, HandInv, [Next]_vars, [QuietFlush]_vars
             PROVE  HandInv'
  OBVIOUS
<1>1. CASE UNCHANGED vars
  BY <1>1 DEF vars, server, stored, memory, HandInv, HandedOver, Granted, Landed
<1>2. ASSUME Next, QuietFlush PROVE HandInv'
  <2>1. ASSUME NEW d \in Device, AppStep(d) \/ WorkerStep(d) PROVE HandInv'
    <3>1. \A e \in Device : HandedOver(e)'
      BY <1>2, <2>1, AppHands, WorkerHands, OtherHands
    <3>2. /\ Landed' = Landed
          /\ \E l \in Lane : \/ req' = req
                             \/ req' = [req EXCEPT ![l] = NoReq]
                             \/ \E S : Send(l, S)
      <4>1. App(d) \in Lane /\ Worker(d) \in Lane
        BY RoundFacts, WorkerFacts
      <4> QED BY <2>1, <4>1 DEF AppStep, StartRound, ReadParked, OfferParked, ParkedAnswered,
         EndRetry, PushNext, PushAnswered, Unqueue, StartPull, PullHead, PullOps, PullApply,
         PullStamp, Drained, ParkReadOnly, EvictPurge, WorkerStep, WakePull, WorkerHead,
         WorkerOps, WorkerApply, WorkerStamp, WakeFlush, FlushCheck, FlushSend, FlushAnswered, server, Landed
    <3>3. \A l \in Lane : Granted(l)'
      BY <3>2, SentGranted
    <3> QED BY <3>1, <3>3 DEF HandInv
  <2> QED BY <1>2, <2>1, ServeHands, EnvironmentHands, EditHands DEF Next
<1> QED BY <1>1, <1>2

(* Whatever a device shows is in the log, or still queued or parked there, *)
(* through every crash, lost answer, refusal and membership change - as    *)
(* long as no worker flushes a space that is already tombstoned.           *)
THEOREM NothingIsLost == Spec /\ [][QuietFlush]_vars => []NothingLost
<1>1. HandInv => NothingLost
  BY DEF HandInv, HandedOver, NothingLost
<1> QED BY InitType, NextType, InitLog, NextLog, InitAuthored, NextAuthored, InitHands, NextHands,
           <1>1, PTL DEF Spec

(***************************************************************************)
(* What a step does to the rows, the held ops and the cursor of a device:  *)
(* nothing, a write, a page merged, a cursor set, or a purge.              *)
(***************************************************************************)
LearnsPage(d) ==
  /\ \/ app[d].pc = "apply" /\ Apply(d, app[d].page)
     \/ sw[d].pc = "apply" /\ Apply(d, sw[d].page)
  /\ UNCHANGED <<seq, made, cursor>>

SetsCursor(d, n) ==
  /\ \/ app[d].pc = "stamp" /\ n = NextCursor(d)
     \/ app[d].pc = "drained" /\ n = app[d].latest
     \/ sw[d].pc = "stamp" /\ n = sw[d].latest
  /\ cursor' = [cursor EXCEPT ![d] = n]
  /\ UNCHANGED <<seq, made, rows, seen>>

Forgets(d) == Purge(d) /\ UNCHANGED <<seq, made>>

StoresNothing == UNCHANGED <<rows, seen, cursor>>

(* A round does one of these.                                              *)
LEMMA AppStores ==
  ASSUME NEW d \in Device, AppStep(d)
  PROVE  \/ StoresNothing /\ UNCHANGED <<seq, made>>
         \/ LearnsPage(d)
         \/ Forgets(d)
         \/ \E n : SetsCursor(d, n)
<1> USE DEF stored, memory, server, history
<1>1. ASSUME StartRound(d) PROVE (StoresNothing /\ UNCHANGED <<seq, made>>) \/ Forgets(d)
  BY <1>1 DEF StartRound, StoresNothing, Forgets
<1>2. ASSUME PullApply(d) PROVE LearnsPage(d)
  BY <1>2 DEF PullApply, LearnsPage
<1>3. ASSUME PullStamp(d) PROVE SetsCursor(d, NextCursor(d))
  BY <1>3 DEF PullStamp, SetsCursor
<1>4. ASSUME Drained(d) PROVE (StoresNothing /\ UNCHANGED <<seq, made>>) \/ SetsCursor(d, app[d].latest)
  BY <1>4 DEF Drained, SetsCursor, StoresNothing
<1>5. ASSUME EvictPurge(d) PROVE Forgets(d)
  BY <1>5 DEF EvictPurge, Forgets
<1>6. ASSUME ReadParked(d) \/ OfferParked(d) \/ ParkedAnswered(d) \/ EndRetry(d) \/ PushNext(d)
             \/ PushAnswered(d) \/ Unqueue(d) \/ StartPull(d) \/ PullHead(d) \/ PullOps(d)
             \/ ParkReadOnly(d)
      PROVE  StoresNothing /\ UNCHANGED <<seq, made>>
  BY <1>6 DEF ReadParked, OfferParked, ParkedAnswered, EndRetry, PushNext, PushAnswered, Unqueue,
     StartPull, PullHead, PullOps, ParkReadOnly, StoresNothing
<1> QED BY <1>1, <1>2, <1>3, <1>4, <1>5, <1>6 DEF AppStep

(* So does a worker's event.                                               *)
LEMMA WorkerStores ==
  ASSUME NEW d \in Device, WorkerStep(d)
  PROVE  (StoresNothing /\ UNCHANGED <<seq, made>>) \/ LearnsPage(d) \/ \E n : SetsCursor(d, n)
<1> USE DEF stored, memory, server, history
<1>1. ASSUME WorkerApply(d) PROVE LearnsPage(d)
  BY <1>1 DEF WorkerApply, LearnsPage
<1>2. ASSUME WorkerStamp(d) PROVE (StoresNothing /\ UNCHANGED <<seq, made>>) \/ SetsCursor(d, sw[d].latest)
  BY <1>2 DEF WorkerStamp, WorkerCursor, SetsCursor, StoresNothing
<1>3. ASSUME WakePull(d) \/ WorkerHead(d) \/ WorkerOps(d) \/ WakeFlush(d) \/ FlushCheck(d)
             \/ FlushSend(d) \/ FlushAnswered(d)
      PROVE  StoresNothing /\ UNCHANGED <<seq, made>>
  BY <1>3 DEF WakePull, WorkerHead, WorkerOps, WakeFlush, FlushCheck, FlushSend, FlushAnswered, StoresNothing
<1> QED BY <1>1, <1>2, <1>3 DEF WorkerStep

(* Every step does one of these, or a commit appends.                      *)
LEMMA StepStores ==
  ASSUME Next
  PROVE  \/ StoresNothing /\ UNCHANGED <<seq, made>>
         \/ StoresNothing /\ made' = made /\ \E c \in Lane : Commit(c)
         \/ \E d \in Device, op \in Op : Edit(d, op)
         \/ \E d \in Device : \/ LearnsPage(d) \/ Forgets(d)
                              \/ \E n : SetsCursor(d, n)
<1> USE DEF stored, memory, server, history
<1>1. ASSUME NEW c \in Lane, Serve(c)
      PROVE  \/ StoresNothing /\ UNCHANGED <<seq, made>>
             \/ StoresNothing /\ made' = made /\ Commit(c)
  BY <1>1 DEF Serve, Receive, Collide, Commit, StoresNothing
<1>2. ASSUME NEW d \in Device, Leave(d) PROVE Forgets(d)
  BY <1>2 DEF Leave, Forgets
<1>3. ASSUME Environment, \A d \in Device : ~ Leave(d)
      PROVE  StoresNothing /\ UNCHANGED <<seq, made>>
  BY <1>3 DEF Environment, Grant, Rerole, Revoke, LosePull, CloseApp, KillWorker, LosePush,
     FixServer, StoresNothing
<1> QED BY <1>1, <1>2, <1>3, AppStores, WorkerStores DEF Next

(* The rows of a device are the merge of the ops it holds.                 *)
RowsInv == \A d \in Device : IsJoin(seen[d], rows[d])

(* Nothing is held and nothing shown at first.                             *)
LEMMA InitRows == Init => RowsInv
BY NoRowsJoin DEF Init, RowsInv

(* Every step keeps them so.                                               *)
LEMMA NextRows == TypeInv /\ RowsInv /\ [Next]_vars => RowsInv'
<1> SUFFICES ASSUME TypeInv, RowsInv, [Next]_vars PROVE RowsInv'
  OBVIOUS
<1>1. StoredType /\ \A d \in Device : rows[d] \in Rows /\ seen[d] \in SUBSET Op /\ IsJoin(seen[d], rows[d])
  BY StoredFacts, TypeFacts DEF RowsInv
<1>2. CASE UNCHANGED <<rows, seen>>
  BY <1>2 DEF RowsInv
<1>3. ASSUME NEW d \in Device, NEW P \in SUBSET Op, Apply(d, P) PROVE RowsInv'
  <2>1. IsJoin(seen[d] \cup P, MergeOps(rows[d], P))
    BY <1>1, OpsTyped, MergeOpsJoin
  <2>2. \A e \in Device : /\ rows'[e] = IF e = d THEN MergeOps(rows[d], P) ELSE rows[e]
                          /\ seen'[e] = IF e = d THEN seen[d] \cup P ELSE seen[e]
    BY <1>1, <1>3 DEF Apply, StoredType
  <2> QED BY <1>1, <2>1, <2>2 DEF RowsInv
<1>4. ASSUME NEW d \in Device, LearnsPage(d) PROVE RowsInv'
  BY <1>3, <1>4, TypeFacts DEF LearnsPage, Round, WorkerEvent
<1>5. ASSUME NEW d \in Device, Purge(d) PROVE RowsInv'
  <2>1. \A e \in Device : \/ rows'[e] = NoRows /\ seen'[e] = {}
                          \/ rows'[e] = rows[e] /\ seen'[e] = seen[e]
    BY <1>1, <1>5 DEF Purge, StoredType
  <2> QED BY <1>1, <2>1, NoRowsJoin DEF RowsInv
<1>6. ASSUME NEW d \in Device, NEW op \in Op, Edit(d, op) PROVE RowsInv'
  <2>1. IsJoin(seen[d] \cup {op}, Put(rows[d], op))
    <3>1. IsJoin(seen[d] \cup {op}, MergeOps(rows[d], {op}))
      BY <1>1, OpsTyped, MergeOpsJoin
    <3> QED BY <1>1, <3>1, OpsTyped, PutIsMerge
  <2>2. \/ \A e \in Device : /\ rows'[e] = IF e = d THEN Put(rows[d], op) ELSE rows[e]
                             /\ seen'[e] = IF e = d THEN seen[d] \cup {op} ELSE seen[e]
        \/ UNCHANGED <<rows, seen>>
    BY <1>1, <1>6 DEF Edit, StoredType
  <2> QED BY <1>1, <1>2, <2>1, <2>2 DEF RowsInv
<1>7. CASE UNCHANGED vars
  BY <1>2, <1>7 DEF vars, stored
<1> QED BY <1>2, <1>4, <1>5, <1>6, <1>7, StepStores DEF StoresNothing, Forgets, SetsCursor

(***************************************************************************)
(* Pages.  UpTo(n) is what a device that claims position n must hold.      *)
(***************************************************************************)
UpTo(n) == {op \in Landed : seq[op] <= n}

(* A nonempty set of naturals has a least element.                         *)
LEMMA MinExists ==
  ASSUME NEW T \in SUBSET Nat, T # {}
  PROVE  \E m \in T : \A x \in T : m <= x
<1> DEFINE R == OpToRel(<, Nat)
<1>1. IsWellFoundedOn(R, Nat)
  BY NatLessThanWellFounded
<1>2. \E m \in T : \A x \in T : ~ (<<x, m>> \in R)
  <2> HIDE DEF R
  <2> QED BY <1>1, WFMin
<1>3. PICK m \in T : \A x \in T : ~ (x < m)
  BY <1>2 DEF OpToRel
<1> QED BY <1>3

(* A page with room for what follows the cursor is all of it.              *)
LEMMA WholePage ==
  ASSUME TypeInv, NEW n \in Nat, Cardinality(After(n)) <= PageSize
  PROVE  PageAfter(n) = After(n)
<1>1. ASSUME NEW op \in After(n)
      PROVE  Cardinality({p \in After(n) : seq[p] <= seq[op]}) <= PageSize
  <2> DEFINE X == {p \in After(n) : seq[p] <= seq[op]}
  <2>1. X \in SUBSET After(n) /\ After(n) \in SUBSET Op
    BY DEF After
  <2>2. Cardinality(X) \in Nat /\ Cardinality(After(n)) \in Nat /\ Cardinality(X) <= Cardinality(After(n))
    <3> HIDE DEF X
    <3> QED BY <2>1, OpsFinite, FS_Subset
  <2>3. PageSize \in Nat
    BY SpaceSyncAssumption
  <2> HIDE DEF X
  <2>4. Cardinality(X) <= PageSize
    BY <2>2, <2>3
  <2> QED BY <2>4 DEF X
<1> QED BY <1>1 DEF PageAfter

(* A page is empty only at the end of the log.                             *)
LEMMA EmptyPage ==
  ASSUME TypeInv, Positions, NEW n \in Nat, PageAfter(n) = {}
  PROVE  After(n) = {}
<1> SUFFICES ASSUME After(n) # {} PROVE FALSE
  OBVIOUS
<1> DEFINE T == {seq[op] : op \in After(n)}
<1>1. After(n) \subseteq Op /\ seq \in [Op -> 0 .. lastSeq] /\ lastSeq \in Nat
  BY TypeFacts DEF After
<1>2. T \in SUBSET Nat /\ T # {}
  BY <1>1
<1>3. PICK m \in T : \A x \in T : m <= x
  BY <1>2, MinExists
<1>4. PICK op \in After(n) : seq[op] = m
  BY <1>3
<1>5. After(n) \subseteq Landed
  BY <1>1 DEF After, Landed
<1>6. \A p \in After(n) : seq[p] <= seq[op] => p = op
  <2>1. \A p \in After(n) : seq[op] <= seq[p]
    BY <1>3, <1>4
  <2>2. \A p \in After(n) : seq[p] \in Nat
    BY <1>1
  <2> QED BY <1>4, <1>5, <2>1, <2>2 DEF Positions
<1>7. {p \in After(n) : seq[p] <= seq[op]} = {op}
  <2>1. seq[op] <= seq[op]
    BY <1>1, <1>4
  <2> QED BY <1>6, <2>1
<1>8. Cardinality({op}) = 1 /\ PageSize \in Nat \ {0}
  BY FS_Singleton, SpaceSyncAssumption
<1>9. op \in PageAfter(n)
  BY <1>7, <1>8 DEF PageAfter
<1> QED BY <1>9

(* Below the newest op of a page there is nothing the page left out.       *)
LEMMA PageIsPrefix ==
  ASSUME TypeInv, NEW n \in Nat, PageAfter(n) # {}
  PROVE  UpTo(NextSince(PageAfter(n))) \subseteq UpTo(n) \cup PageAfter(n)
<1> DEFINE P == PageAfter(n)
           T == {seq[op] : op \in P}
<1>1. After(n) \in SUBSET Op /\ P \in SUBSET After(n) /\ seq \in [Op -> 0 .. lastSeq]
      /\ lastSeq \in Nat
  BY TypeFacts DEF After, PageAfter
<1>2. PICK q \in P : seq[q] = NextSince(P)
  <2>1. T \in SUBSET (0 .. lastSeq) /\ T # {}
    BY <1>1
  <2>2. Newest(T) \in T
    <3> HIDE DEF T
    <3> QED BY <1>1, <2>1, NewestIsMax
  <2> QED BY <2>2 DEF NextSince
<1>3. ASSUME NEW op \in UpTo(NextSince(P)), op \notin UpTo(n) PROVE op \in P
  <2>1. op \in After(n) /\ seq[op] <= seq[q] /\ op \in Op /\ q \in Op
    BY <1>1, <1>2, <1>3 DEF UpTo, After, Landed
  <2> DEFINE X == {p \in After(n) : seq[p] <= seq[op]}
             Y == {p \in After(n) : seq[p] <= seq[q]}
  <2>2. X \in SUBSET Y /\ Y \in SUBSET Op
    BY <1>1, <2>1
  <2>3. Cardinality(Y) <= PageSize
    BY <1>2 DEF PageAfter
  <2>4. Cardinality(X) <= Cardinality(Y) /\ Cardinality(X) \in Nat /\ Cardinality(Y) \in Nat
    <3> HIDE DEF X, Y
    <3> QED BY <2>2, OpsFinite, FS_Subset
  <2>5. PageSize \in Nat
    BY SpaceSyncAssumption
  <2>6. Cardinality(X) <= PageSize
    <3> HIDE DEF X, Y
    <3> QED BY <2>3, <2>4, <2>5
  <2> QED BY <2>1, <2>6 DEF PageAfter
<1> QED BY <1>3

(* Commits append behind the position: what is up to it stays the same.    *)
LEMMA UpToStays ==
  ASSUME TypeInv, LogInv, [Next]_vars
  PROVE  \A n \in Nat : n <= lastSeq => {op \in Landed' : seq'[op] <= n} = UpTo(n)
<1> SUFFICES ASSUME NEW n \in Nat, n <= lastSeq
             PROVE  {op \in Landed' : seq'[op] <= n} = UpTo(n)
  OBVIOUS
<1>1. seq \in [Op -> 0 .. lastSeq] /\ lastSeq \in Nat
  BY TypeFacts
<1>2. CASE seq' = seq
  BY <1>2 DEF UpTo, Landed
<1>3. ASSUME NEW c \in Lane, Commit(c) PROVE {op \in Landed' : seq'[op] <= n} = UpTo(n)
  <2> DEFINE new == Accepted(req[c])
  <2>1. /\ new \in SUBSET Op /\ Landed' = Landed \cup new /\ new \cap Landed = {}
        /\ \A op \in new : seq'[op] > lastSeq
        /\ \A op \in Op \ new : seq'[op] = seq[op]
    BY <1>3, CommitAppends
  <2> HIDE DEF new
  <2>2. seq' \in [Op -> 0 .. lastSeq'] /\ lastSeq' \in Nat
    BY <1>3, CommitType
  <2>3. \A op \in new : ~ (seq'[op] <= n)
    BY <1>1, <2>1, <2>2
  <2>4. \A op \in Landed : op \in Op \ new
    BY <2>1 DEF Landed
  <2> QED BY <2>1, <2>3, <2>4 DEF UpTo
<1> QED BY <1>2, <1>3, LogFrame DEF vars, server

(* The ops of the log keep their positions,                                *)
LEMMA LandedStays ==
  ASSUME TypeInv, LogInv, [Next]_vars
  PROVE  Landed \subseteq Landed' /\ \A op \in Landed : seq'[op] = seq[op]
<1>1. CASE seq' = seq
  BY <1>1 DEF Landed
<1>2. ASSUME NEW c \in Lane, Commit(c)
      PROVE  Landed \subseteq Landed' /\ \A op \in Landed : seq'[op] = seq[op]
  BY <1>2, CommitAppends DEF Landed
<1> QED BY <1>1, <1>2, LogFrame DEF vars, server

(* and the log its end.                                                    *)
LEMMA LastSeqGrows ==
  ASSUME TypeInv, [Next]_vars
  PROVE  lastSeq \in Nat /\ lastSeq' \in Nat /\ lastSeq <= lastSeq'
<1>1. lastSeq \in Nat
  BY TypeFacts
<1>2. CASE lastSeq' = lastSeq
  BY <1>1, <1>2
<1> QED BY <1>1, <1>2, CommitType, LogStays DEF vars, server

(* So a page keeps the position of its newest op.                          *)
LEMMA NextSinceStays ==
  ASSUME TypeInv, LogInv, [Next]_vars
  PROVE  \A P \in SUBSET Landed : Newest({seq'[op] : op \in P}) = NextSince(P)
<1> SUFFICES ASSUME NEW P \in SUBSET Landed
             PROVE  Newest({seq'[op] : op \in P}) = NextSince(P)
  OBVIOUS
<1>1. {seq'[op] : op \in P} = {seq[op] : op \in P}
  BY LandedStays
<1> QED BY <1>1 DEF NextSince

(***************************************************************************)
(* Pulls.  The cursor claims a prefix of the log.  While a pull is under   *)
(* way its own position claims one too, and what lies between it and the   *)
(* newest op of its page is in the page.                                   *)
(***************************************************************************)
CursorHeld(d) == UpTo(cursor[d]) \subseteq seen[d]

RoundPull(d) ==
  /\ app[d].page \subseteq Landed
  /\ app[d].pc \in {"head", "ops", "apply"} =>
       app[d].since <= lastSeq /\ UpTo(app[d].since) \subseteq seen[d]
  /\ app[d].pc = "apply" => UpTo(NextSince(app[d].page)) \subseteq seen[d] \cup app[d].page
  /\ app[d].pc = "stamp" => UpTo(NextSince(app[d].page)) \subseteq seen[d]
  /\ app[d].pc = "drained" => UpTo(app[d].latest) \subseteq seen[d]

WorkerPull(d) ==
  /\ sw[d].page \subseteq Landed
  /\ sw[d].pc \in {"head", "ops"} => sw[d].since <= lastSeq /\ UpTo(sw[d].since) \subseteq seen[d]
  /\ sw[d].pc = "apply" => UpTo(sw[d].latest) \subseteq seen[d] \cup sw[d].page
  /\ sw[d].pc = "stamp" => UpTo(sw[d].latest) \subseteq seen[d]

PullInv == \A d \in Device : CursorHeld(d) /\ RoundPull(d) /\ WorkerPull(d)

(* A pull is broken when the rows it fills are purged under it (leaveSpace *)
(* and an eviction take no lock), or when the worker's one page does not   *)
(* hold all that follows its cursor (swSync.ts:70): the premise of what    *)
(* follows rules both out.                                                 *)
Pulling(d) ==
  \/ app[d].pc \in {"head", "ops", "apply", "stamp", "drained"}
  \/ sw[d].pc \in {"head", "ops", "apply", "stamp"}

UnbrokenPulls ==
  \A d \in Device :
    /\ Pulling(d) => seen[d] \subseteq seen'[d]
    /\ WorkerOps(d) => Cardinality(After(sw[d].since)) <= PageSize

(* Nothing is claimed at first.                                            *)
LEMMA InitPull == Init => PullInv
<1> SUFFICES ASSUME Init PROVE PullInv
  OBVIOUS
<1>1. Landed = {}
  BY DEF Init, Landed
<1> QED BY <1>1 DEF Init, PullInv, CursorHeld, RoundPull, WorkerPull, UpTo, Idle, Asleep

(* Whatever sets a cursor has put the ops below it into the rows.          *)
LEMMA NextCursorHeld ==
  ASSUME TypeInv, LogInv, PullInv, [Next]_vars, NEW d \in Device
  PROVE  CursorHeld(d)'
<1>1. /\ StoredType /\ lastSeq \in Nat /\ seq \in [Op -> 0 .. lastSeq]
      /\ cursor[d] \in Nat /\ cursor[d] <= lastSeq /\ CursorHeld(d)
  BY StoredFacts, TypeFacts DEF StoredType, PullInv
<1>2. \A n \in Nat : n <= lastSeq => {op \in Landed' : seq'[op] <= n} = UpTo(n)
  BY UpToStays
<1>3. ASSUME cursor'[d] = cursor[d], seen[d] \subseteq seen'[d] PROVE CursorHeld(d)'
  BY <1>1, <1>2, <1>3 DEF CursorHeld, UpTo
<1>4. ASSUME NEW e \in Device, LearnsPage(e) PROVE CursorHeld(d)'
  BY <1>1, <1>3, <1>4 DEF LearnsPage, Apply, StoredType
<1>5. ASSUME NEW e \in Device, Forgets(e) PROVE CursorHeld(d)'
  <2>1. CASE e = d
    <3>1. cursor'[d] = 0 /\ seq' = seq /\ Landed' = Landed
      BY <1>1, <1>5, <2>1 DEF Forgets, Purge, StoredType, Landed
    <3>2. \A op \in Landed : ~ (seq[op] <= 0)
      BY <1>1 DEF Landed
    <3> QED BY <3>1, <3>2 DEF CursorHeld, UpTo
  <2>2. CASE e # d
    BY <1>1, <1>3, <1>5, <2>2 DEF Forgets, Purge, StoredType
  <2> QED BY <2>1, <2>2
<1>6. ASSUME NEW e \in Device, NEW n, SetsCursor(e, n) PROVE CursorHeld(d)'
  <2>1. CASE e = d
    <3>1. cursor'[d] = n /\ seen' = seen /\ seq' = seq /\ Landed' = Landed
      BY <1>1, <1>6, <2>1 DEF SetsCursor, StoredType, Landed
    <3>2. UpTo(n) \subseteq seen[d]
      BY <1>6, <2>1 DEF SetsCursor, PullInv, RoundPull, WorkerPull, NextCursor
    <3> QED BY <3>1, <3>2 DEF CursorHeld, UpTo
  <2>2. CASE e # d
    BY <1>1, <1>3, <1>6, <2>2 DEF SetsCursor, StoredType
  <2> QED BY <2>1, <2>2
<1>7. ASSUME NEW e \in Device, NEW op \in Op, Edit(e, op) PROVE CursorHeld(d)'
  BY <1>1, <1>3, <1>7 DEF Edit, StoredType
<1>8. CASE UNCHANGED <<seen, cursor>>
  BY <1>3, <1>8
<1> QED BY <1>4, <1>5, <1>6, <1>7, <1>8, StepStores DEF StoresNothing, vars, stored

(* Only its own steps move a round on,                                     *)
LEMMA RoundMovers ==
  ASSUME TypeInv, [Next]_vars, NEW d \in Device, ~ AppStep(d)
  PROVE  app'[d] = app[d] \/ app'[d] = Idle
<1>1. app \in [Device -> Round]
  BY StoredFacts
<1>2. ASSUME NEW e \in Device, AppStep(e) PROVE app'[d] = app[d]
  BY <1>2, AppOthers
<1>3. ASSUME NEW e \in Device, WorkerStep(e) PROVE app' = app
  BY <1>3 DEF WorkerStep, WakePull, WorkerHead, WorkerOps, WorkerApply, WorkerStamp, WakeFlush,
         FlushCheck, FlushSend, FlushAnswered
<1>4. ASSUME NEW c \in Lane, Serve(c) PROVE app' = app
  BY <1>4 DEF Serve, Receive, Collide, Commit, memory
<1>5. ASSUME Environment PROVE app'[d] = app[d] \/ app'[d] = Idle
  BY <1>1, <1>5 DEF Environment, Grant, Rerole, Revoke, Leave, LosePull, CloseApp, KillWorker,
     LosePush, FixServer, EndRound, memory
<1>6. ASSUME NEW e \in Device, NEW op \in Op, Edit(e, op) PROVE app' = app
  BY <1>6 DEF Edit, memory
<1>7. CASE UNCHANGED vars
  BY <1>7 DEF vars, memory
<1> QED BY <1>2, <1>3, <1>4, <1>5, <1>6, <1>7 DEF Next

(* and only its own steps a worker's event.                                *)
LEMMA WorkerMovers ==
  ASSUME TypeInv, [Next]_vars, NEW d \in Device, ~ WorkerStep(d)
  PROVE  sw'[d] = sw[d] \/ sw'[d] = Asleep
<1>1. sw \in [Device -> WorkerEvent]
  BY DEF TypeInv, TypeOK
<1>2. ASSUME NEW e \in Device, AppStep(e) PROVE sw' = sw
  BY <1>2 DEF AppStep, StartRound, ReadParked, OfferParked, ParkedAnswered, EndRetry, PushNext,
         PushAnswered, Unqueue, StartPull, PullHead, PullOps, PullApply, PullStamp, Drained,
         ParkReadOnly, EvictPurge, memory
<1>3. ASSUME NEW e \in Device, WorkerStep(e) PROVE sw'[d] = sw[d]
  BY <1>3, WorkerOthers
<1>4. ASSUME NEW c \in Lane, Serve(c) PROVE sw' = sw
  BY <1>4 DEF Serve, Receive, Collide, Commit, memory
<1>5. ASSUME Environment PROVE sw'[d] = sw[d] \/ sw'[d] = Asleep
  BY <1>1, <1>5 DEF Environment, Grant, Rerole, Revoke, Leave, LosePull, CloseApp, KillWorker,
     LosePush, FixServer, Rest, memory
<1>6. ASSUME NEW e \in Device, NEW op \in Op, Edit(e, op) PROVE sw' = sw
  BY <1>6 DEF Edit, memory
<1>7. CASE UNCHANGED vars
  BY <1>7 DEF vars, memory
<1> QED BY <1>2, <1>3, <1>4, <1>5, <1>6, <1>7 DEF Next

(* A round that waits while others act keeps what it claims: commits       *)
(* append behind it, and nothing is purged under it.                       *)
LEMMA RoundWaits ==
  ASSUME TypeInv, LogInv, [Next]_vars, NEW d \in Device, RoundPull(d), ~ AppStep(d),
         Pulling(d) => seen[d] \subseteq seen'[d]
  PROVE  RoundPull(d)'
<1>1. CASE app'[d] = Idle
  BY <1>1 DEF RoundPull, Idle
<1>2. CASE app'[d] = app[d]
  <2>1. \A n \in Nat : n <= lastSeq => {op \in Landed' : seq'[op] <= n} = UpTo(n)
    BY UpToStays
  <2>2. /\ Landed \subseteq Landed' /\ lastSeq \in Nat /\ lastSeq' \in Nat /\ lastSeq <= lastSeq'
        /\ app[d].since \in Nat /\ app[d].latest \in Nat /\ app[d].latest <= lastSeq
        /\ app[d].page \in SUBSET Op
    BY LandedStays, LastSeqGrows, RoundFacts DEF Round
  <2>3. ASSUME app[d].pc \in {"apply", "stamp"}
        PROVE  /\ NextSince(app[d].page) \in Nat /\ NextSince(app[d].page) <= lastSeq
               /\ NextSince(app[d].page)' = NextSince(app[d].page)
    <3>1. NextSince(app[d].page) \in 0 .. lastSeq
      BY <2>2, <2>3, RoundFacts, NextSinceType
    <3>2. Newest({seq'[op] : op \in app[d].page}) = NextSince(app[d].page)
      BY NextSinceStays DEF RoundPull
    <3> QED BY <1>2, <2>2, <3>1, <3>2 DEF NextSince
  <2>4. app[d].page \subseteq Landed'
    BY <2>2 DEF RoundPull
  <2>5. ASSUME app[d].pc \in {"head", "ops", "apply"}
        PROVE  app[d].since <= lastSeq' /\ UpTo(app[d].since)' \subseteq seen'[d]
    <3>1. app[d].since <= lastSeq /\ UpTo(app[d].since) \subseteq seen'[d]
      BY <2>5 DEF RoundPull, Pulling
    <3> QED BY <1>2, <2>1, <2>2, <3>1 DEF UpTo
  <2>6. ASSUME app[d].pc = "apply"
        PROVE  UpTo(NextSince(app[d].page))' \subseteq seen'[d] \cup app[d].page
    <3>1. UpTo(NextSince(app[d].page)) \subseteq seen'[d] \cup app[d].page
      BY <2>6 DEF RoundPull, Pulling
    <3> QED BY <2>1, <2>3, <2>6, <3>1 DEF UpTo
  <2>7. ASSUME app[d].pc = "stamp"
        PROVE  UpTo(NextSince(app[d].page))' \subseteq seen'[d]
    <3>1. UpTo(NextSince(app[d].page)) \subseteq seen'[d]
      BY <2>7 DEF RoundPull, Pulling
    <3> QED BY <2>1, <2>3, <2>7, <3>1 DEF UpTo
  <2>8. ASSUME app[d].pc = "drained" PROVE UpTo(app[d].latest)' \subseteq seen'[d]
    <3>1. UpTo(app[d].latest) \subseteq seen'[d]
      BY <2>8 DEF RoundPull, Pulling
    <3> QED BY <1>2, <2>1, <2>2, <3>1 DEF UpTo
  <2> QED BY <1>2, <2>4, <2>5, <2>6, <2>7, <2>8 DEF RoundPull
<1> QED BY <1>1, <1>2, RoundMovers

(* So does a worker that waits.                                            *)
LEMMA WorkerWaits ==
  ASSUME TypeInv, LogInv, [Next]_vars, NEW d \in Device, WorkerPull(d), ~ WorkerStep(d),
         Pulling(d) => seen[d] \subseteq seen'[d]
  PROVE  WorkerPull(d)'
<1>1. CASE sw'[d] = Asleep
  BY <1>1 DEF WorkerPull, Asleep
<1>2. CASE sw'[d] = sw[d]
  <2>1. \A n \in Nat : n <= lastSeq => {op \in Landed' : seq'[op] <= n} = UpTo(n)
    BY UpToStays
  <2>2. /\ Landed \subseteq Landed' /\ lastSeq \in Nat /\ lastSeq' \in Nat /\ lastSeq <= lastSeq'
        /\ sw[d].since \in Nat /\ sw[d].latest \in Nat /\ sw[d].latest <= lastSeq
    BY LandedStays, LastSeqGrows, WorkerFacts DEF WorkerEvent
  <2>3. sw[d].page \subseteq Landed'
    BY <2>2 DEF WorkerPull
  <2>4. ASSUME sw[d].pc \in {"head", "ops"}
        PROVE  sw[d].since <= lastSeq' /\ UpTo(sw[d].since)' \subseteq seen'[d]
    <3>1. sw[d].since <= lastSeq /\ UpTo(sw[d].since) \subseteq seen'[d]
      BY <2>4 DEF WorkerPull, Pulling
    <3> QED BY <1>2, <2>1, <2>2, <3>1 DEF UpTo
  <2>5. ASSUME sw[d].pc = "apply" PROVE UpTo(sw[d].latest)' \subseteq seen'[d] \cup sw[d].page
    <3>1. UpTo(sw[d].latest) \subseteq seen'[d] \cup sw[d].page
      BY <2>5 DEF WorkerPull, Pulling
    <3> QED BY <1>2, <2>1, <2>2, <3>1 DEF UpTo
  <2>6. ASSUME sw[d].pc = "stamp" PROVE UpTo(sw[d].latest)' \subseteq seen'[d]
    <3>1. UpTo(sw[d].latest) \subseteq seen'[d]
      BY <2>6 DEF WorkerPull, Pulling
    <3> QED BY <1>2, <2>1, <2>2, <3>1 DEF UpTo
  <2> QED BY <1>2, <2>3, <2>4, <2>5, <2>6 DEF WorkerPull
<1> QED BY <1>1, <1>2, WorkerMovers

(* A round claims what it has read and merged.                             *)
LEMMA AppPulls ==
  ASSUME TypeInv, Positions, PullInv, NEW d \in Device, AppStep(d)
  PROVE  RoundPull(d)'
<1> USE DEF stored, memory, server
<1>1. /\ StoredType /\ app \in [Device -> Round] /\ app[d] \in Round
      /\ lastSeq \in Nat /\ cursor[d] \in Nat /\ cursor[d] <= lastSeq
      /\ app[d].since \in Nat /\ app[d].page \in SUBSET Op
  BY StoredFacts, RoundFacts DEF StoredType, Round
<1>2. CursorHeld(d) /\ RoundPull(d)
  BY DEF PullInv
<1>3. UNCHANGED <<seq, lastSeq>> /\ Landed' = Landed
  <2>1. UNCHANGED <<seq, lastSeq>>
    BY DEF AppStep, StartRound, ReadParked, OfferParked, ParkedAnswered, EndRetry, PushNext,
         PushAnswered, Unqueue, StartPull, PullHead, PullOps, PullApply, PullStamp, Drained,
         ParkReadOnly, EvictPurge
  <2> QED BY <2>1 DEF Landed
<1>4. \A n : {op \in Landed' : seq'[op] <= n} = UpTo(n)
  BY <1>3 DEF UpTo
<1>5. \A P : Newest({seq'[op] : op \in P}) = NextSince(P)
  BY <1>3 DEF NextSince
<1>6. ASSUME app'[d].page \subseteq Landed,
             app'[d].pc \notin {"head", "ops", "apply", "stamp", "drained"}
      PROVE  RoundPull(d)'
  BY <1>3, <1>6 DEF RoundPull
<1>7. ASSUME app'[d] = Idle PROVE RoundPull(d)'
  BY <1>6, <1>7, IdleHands
<1>8. ASSUME StartRound(d) \/ ReadParked(d) \/ OfferParked(d) \/ ParkedAnswered(d) \/ EndRetry(d)
             \/ PushNext(d)
      PROVE  RoundPull(d)'
  <2>1. ASSUME StartRound(d) PROVE RoundPull(d)'
    <3>1. CASE Go(d, "retry")
      BY <1>2, <1>6, <3>1, GoLocals DEF RoundPull, SameLocals
    <3>2. CASE app' = app
      BY <1>2, <1>6, <2>1, <3>2 DEF RoundPull, StartRound
    <3> QED BY <2>1, <3>1, <3>2 DEF StartRound
  <2>2. ASSUME ReadParked(d) \/ ParkedAnswered(d) PROVE RoundPull(d)'
    <3>1. app'[d].pc = "retry" /\ app'[d].page = app[d].page
      BY <1>1, <2>2 DEF ReadParked, ParkedAnswered, Round
    <3> QED BY <1>2, <1>6, <3>1 DEF RoundPull
  <2>3. ASSUME OfferParked(d) \/ PushNext(d) PROVE RoundPull(d)'
    BY <1>2, <1>6, <2>3 DEF OfferParked, PushNext, RoundPull
  <2>4. ASSUME EndRetry(d) PROVE RoundPull(d)'
    <3> DEFINE cs == Chunked(outbox[d])
    <3>1. app' = [app EXCEPT ![d] = [Idle EXCEPT !.pc = "push", !.chunks = cs]]
      BY <2>4 DEF EndRetry
    <3> HIDE DEF cs
    <3>2. app'[d].pc = "push" /\ app'[d].page = {}
      BY <1>1, <3>1 DEF Idle
    <3> QED BY <1>6, <3>2
  <2> QED BY <1>8, <2>1, <2>2, <2>3, <2>4
<1>9. ASSUME PushAnswered(d) PROVE RoundPull(d)'
  <2> DEFINE S == Head(app[d].chunks)
             rest == Tail(app[d].chunks)
             cut == << FirstOf(S, (Cardinality(S) + 1) \div 2),
                       S \ FirstOf(S, (Cardinality(S) + 1) \div 2) >> \o rest
  <2>1. \/ app' = [app EXCEPT ![d].chunks = rest]
        \/ app' = [app EXCEPT ![d].pc = "unqueue", ![d].unq = S, ![d].chunks = rest]
        \/ app' = [app EXCEPT ![d].chunks = cut]
        \/ app' = [app EXCEPT ![d].denied = TRUE, ![d].chunks = << >>]
        \/ EndRound(d)
    BY <1>9 DEF PushAnswered
  <2>2. app[d].pc = "push"
    BY <1>9 DEF PushAnswered
  <2> HIDE DEF S, rest, cut
  <2>3. CASE EndRound(d)
    BY <1>1, <1>7, <2>3 DEF EndRound
  <2>4. CASE ~ EndRound(d)
    <3>1. app'[d].pc \in {"push", "unqueue"} /\ app'[d].page = app[d].page
      BY <1>1, <2>1, <2>2, <2>4 DEF Round
    <3> QED BY <1>2, <1>6, <3>1 DEF RoundPull
  <2> QED BY <2>3, <2>4
<1>10. ASSUME Unqueue(d) PROVE RoundPull(d)'
  <2>1. CASE EndRound(d)
    BY <1>1, <1>7, <2>1 DEF EndRound
  <2>2. CASE app' = [app EXCEPT ![d].pc = "push", ![d].unq = {}]
    <3>1. app'[d].pc = "push" /\ app'[d].page = app[d].page
      BY <1>1, <2>2 DEF Round
    <3> QED BY <1>2, <1>6, <3>1 DEF RoundPull
  <2> QED BY <1>10, <2>1, <2>2 DEF Unqueue
<1>11. ASSUME StartPull(d) PROVE RoundPull(d)'
  <2>1. app'[d].pc = "head" /\ app'[d].since = cursor[d] /\ app'[d].page = app[d].page
    BY <1>1, <1>11 DEF StartPull, Round
  <2>2. seen' = seen
    BY <1>11 DEF StartPull
  <2> QED BY <1>1, <1>2, <1>3, <1>4, <2>1, <2>2 DEF RoundPull, CursorHeld, UpTo
<1>12. ASSUME PullHead(d) PROVE RoundPull(d)'
  <2>1. CASE Go(d, "purge")
    BY <1>2, <1>6, <2>1, GoLocals DEF RoundPull, SameLocals
  <2>2. CASE app' = [app EXCEPT ![d].pc = "ops", ![d].latest = lastSeq]
    <3>1. app'[d].pc = "ops" /\ app'[d].since = app[d].since /\ app'[d].page = app[d].page
      BY <1>1, <2>2 DEF Round
    <3>2. seen' = seen /\ app[d].pc = "head"
      BY <1>12 DEF PullHead
    <3> QED BY <1>2, <1>3, <3>1, <3>2 DEF RoundPull, UpTo
  <2> QED BY <1>12, <2>1, <2>2 DEF PullHead
<1>13. ASSUME PullOps(d) PROVE RoundPull(d)'
  <2> DEFINE n == app[d].since
             P == PageAfter(n)
             l == IF P = {} THEN "drained" ELSE "apply"
  <2>1. app' = [app EXCEPT ![d].page = P, ![d].pc = l] /\ app[d].pc = "ops" /\ seen' = seen
    BY <1>13 DEF PullOps
  <2>2. P \subseteq Landed
    BY <1>1, TypeFacts DEF PageAfter, After, Landed
  <2>3. n \in Nat /\ n <= lastSeq /\ UpTo(n) \subseteq seen[d]
    BY <1>1, <1>2, <2>1 DEF RoundPull
  <2>4. CASE P = {}
    <3>1. app'[d].pc = "drained" /\ app'[d].page = {} /\ app'[d].latest = app[d].latest
      BY <1>1, <2>1, <2>4 DEF Round
    <3>2. After(n) = {}
      BY <2>3, <2>4, EmptyPage
    <3>3. UpTo(app[d].latest) \subseteq UpTo(n)
      <4>1. \A op \in Landed : seq[op] \in Nat
        BY TypeFacts DEF Landed
      <4> QED BY <2>3, <3>2, <4>1 DEF UpTo, After, Landed
    <3> QED BY <1>3, <2>1, <2>3, <3>1, <3>3 DEF RoundPull, UpTo
  <2>5. CASE P # {}
    <3>1. UpTo(NextSince(P)) \subseteq seen[d] \cup P
      BY <2>3, <2>5, PageIsPrefix
    <3> HIDE DEF P, n
    <3>2. /\ app'[d].pc = "apply" /\ app'[d].page = P /\ app'[d].since = app[d].since
      BY <1>1, <2>1, <2>5 DEF Round
    <3> QED BY <1>3, <2>1, <2>2, <2>3, <3>1, <3>2 DEF RoundPull, UpTo, NextSince, n
  <2> QED BY <2>4, <2>5
<1>14. ASSUME PullApply(d) PROVE RoundPull(d)'
  <2>1. app'[d].pc = "stamp" /\ app'[d].page = app[d].page /\ app[d].pc = "apply"
    BY <1>14, GoLocals DEF PullApply, SameLocals
  <2>2. seen'[d] = seen[d] \cup app[d].page
    BY <1>1, <1>14 DEF PullApply, Apply, StoredType
  <2> QED BY <1>2, <1>3, <2>1, <2>2 DEF RoundPull, UpTo, NextSince
<1>15. ASSUME PullStamp(d) PROVE RoundPull(d)'
  <2>1. CASE AfterPull(d)
    BY <1>2, <1>6, <1>7, <2>1, AfterPullLocals DEF RoundPull, SameLocals
  <2>2. CASE app' = [app EXCEPT ![d].pc = "head", ![d].since = NextCursor(d), ![d].page = {}]
    <3>1. app[d].page # {} /\ app[d].pc = "stamp" /\ seen' = seen
      BY <1>15, RoundFacts DEF PullStamp
    <3> DEFINE n == NextCursor(d)
    <3>2. n \in Nat /\ n <= lastSeq
      BY <1>1, <3>1, NextSinceType DEF NextCursor
    <3>3. UpTo(n) \subseteq seen[d]
      BY <1>2, <3>1 DEF RoundPull, NextCursor
    <3> HIDE DEF n
    <3>4. app'[d].pc = "head" /\ app'[d].since = n /\ app'[d].page = {}
      BY <1>1, <2>2 DEF Round, n
    <3> QED BY <1>3, <3>1, <3>2, <3>3, <3>4 DEF RoundPull, UpTo
  <2> QED BY <1>15, <2>1, <2>2 DEF PullStamp
<1>16. ASSUME Drained(d) PROVE RoundPull(d)'
  BY <1>2, <1>6, <1>7, <1>16, AfterPullLocals DEF Drained, RoundPull, SameLocals
<1>17. ASSUME ParkReadOnly(d) PROVE RoundPull(d)'
  <2>1. app'[d].pc = "unqueue" /\ app'[d].page = app[d].page
    BY <1>1, <1>17 DEF ParkReadOnly, Round
  <2> QED BY <1>2, <1>6, <2>1 DEF RoundPull
<1>18. ASSUME EvictPurge(d) PROVE RoundPull(d)'
  BY <1>1, <1>7, <1>18 DEF EvictPurge, EndRound
<1> QED BY <1>8, <1>9, <1>10, <1>11, <1>12, <1>13, <1>14, <1>15, <1>16, <1>17, <1>18 DEF AppStep

(* A worker claims the head it was told, of which its page holds all.      *)
LEMMA WorkerPulls ==
  ASSUME TypeInv, PullInv, NEW d \in Device, WorkerStep(d), UnbrokenPulls
  PROVE  WorkerPull(d)'
<1> USE DEF stored, server
<1>1. /\ StoredType /\ sw \in [Device -> WorkerEvent] /\ sw[d] \in WorkerEvent
      /\ lastSeq \in Nat /\ cursor[d] \in Nat /\ cursor[d] <= lastSeq
      /\ sw[d].since \in Nat /\ sw[d].page \in SUBSET Op
  BY StoredFacts, WorkerFacts DEF StoredType, WorkerEvent, TypeInv, TypeOK
<1>2. CursorHeld(d) /\ WorkerPull(d)
  BY DEF PullInv
<1>3. UNCHANGED <<seq, lastSeq>> /\ Landed' = Landed
  <2>1. UNCHANGED <<seq, lastSeq>>
    BY DEF WorkerStep, WakePull, WorkerHead, WorkerOps, WorkerApply, WorkerStamp, WakeFlush,
         FlushCheck, FlushSend, FlushAnswered
  <2> QED BY <2>1 DEF Landed
<1>4. ASSUME sw'[d].page \subseteq Landed, sw'[d].pc \notin {"head", "ops", "apply", "stamp"}
      PROVE  WorkerPull(d)'
  BY <1>3, <1>4 DEF WorkerPull
<1>5. ASSUME Rest(d) PROVE WorkerPull(d)'
  <2>1. sw'[d] = Asleep
    BY <1>1, <1>5 DEF Rest
  <2> QED BY <1>4, <2>1, IdleHands
<1>6. ASSUME WakePull(d) PROVE WorkerPull(d)'
  <2>1. sw'[d].pc = "head" /\ sw'[d].since = cursor[d] /\ sw'[d].page = sw[d].page /\ seen' = seen
    BY <1>1, <1>6 DEF WakePull, WorkerEvent
  <2> QED BY <1>1, <1>2, <1>3, <2>1 DEF WorkerPull, CursorHeld, UpTo
<1>7. ASSUME WorkerHead(d) PROVE WorkerPull(d)'
  <2>1. CASE sw' = [sw EXCEPT ![d].pc = "ops", ![d].latest = lastSeq]
    <3>1. sw'[d].pc = "ops" /\ sw'[d].since = sw[d].since /\ sw'[d].page = sw[d].page
      BY <1>1, <2>1 DEF WorkerEvent
    <3>2. sw[d].pc = "head" /\ seen' = seen
      BY <1>7 DEF WorkerHead
    <3> QED BY <1>2, <1>3, <3>1, <3>2 DEF WorkerPull, UpTo
  <2> QED BY <1>5, <1>7, <2>1 DEF WorkerHead
<1>8. ASSUME WorkerOps(d) PROVE WorkerPull(d)'
  <2> DEFINE P == PageAfter(sw[d].since)
  <2>1. P = After(sw[d].since)
    BY <1>1, <1>8, WholePage DEF UnbrokenPulls
  <2>2. sw' = [sw EXCEPT ![d].pc = "apply", ![d].page = P] /\ sw[d].pc = "ops" /\ seen' = seen
    BY <1>8 DEF WorkerOps
  <2>3. P \subseteq Landed
    BY <1>1, TypeFacts DEF PageAfter, After, Landed
  <2>4. UpTo(sw[d].latest) \subseteq UpTo(sw[d].since) \cup P
    <3>1. \A op \in Landed : seq[op] \in Nat
      BY TypeFacts DEF Landed
    <3> QED BY <1>1, <2>1, <3>1 DEF UpTo, After, Landed
  <2> HIDE DEF P
  <2>5. sw'[d].pc = "apply" /\ sw'[d].page = P /\ sw'[d].latest = sw[d].latest
    BY <1>1, <2>2 DEF WorkerEvent
  <2> QED BY <1>2, <1>3, <2>2, <2>3, <2>4, <2>5 DEF WorkerPull, UpTo
<1>9. ASSUME WorkerApply(d) PROVE WorkerPull(d)'
  <2>1. /\ sw'[d].pc = "stamp" /\ sw'[d].page = sw[d].page /\ sw'[d].latest = sw[d].latest
        /\ sw[d].pc = "apply"
    BY <1>1, <1>9 DEF WorkerApply, WorkerEvent
  <2>2. seen'[d] = seen[d] \cup sw[d].page
    BY <1>1, <1>9 DEF WorkerApply, Apply, StoredType
  <2> QED BY <1>2, <1>3, <2>1, <2>2 DEF WorkerPull, UpTo
<1>10. ASSUME WorkerStamp(d) \/ FlushAnswered(d) PROVE WorkerPull(d)'
  BY <1>5, <1>10 DEF WorkerStamp, FlushAnswered
<1>11. ASSUME WakeFlush(d) PROVE WorkerPull(d)'
  <2>1. sw'[d].pc = "flush" /\ sw'[d].page = sw[d].page
    BY <1>1, <1>11 DEF WakeFlush, WorkerEvent
  <2> QED BY <1>2, <1>4, <2>1 DEF WorkerPull
<1>12. ASSUME FlushSend(d) PROVE WorkerPull(d)'
  <2>1. sw'[d].pc = "await" /\ sw'[d].page = sw[d].page
    BY <1>1, <1>12 DEF FlushSend, WorkerEvent
  <2> QED BY <1>2, <1>4, <2>1 DEF WorkerPull
<1>13. ASSUME FlushCheck(d) PROVE WorkerPull(d)'
  <2>1. CASE sw' = [sw EXCEPT ![d].pc = "send"]
    <3>1. sw'[d].pc = "send" /\ sw'[d].page = sw[d].page
      BY <1>1, <2>1 DEF WorkerEvent
    <3> QED BY <1>2, <1>4, <3>1 DEF WorkerPull
  <2> QED BY <1>5, <1>13, <2>1 DEF FlushCheck
<1> QED BY <1>6, <1>7, <1>8, <1>9, <1>10, <1>11, <1>12, <1>13 DEF WorkerStep

(* Every step but one that breaks a pull keeps it.                         *)
LEMMA NextPull ==
  TypeInv /\ LogInv /\ Positions /\ PullInv /\ [Next]_vars /\ [UnbrokenPulls]_vars => PullInv'
<1> SUFFICES ASSUME TypeInv, LogInv, Positions, PullInv, [Next]_vars, [UnbrokenPulls]_vars,
                    NEW d \in Device
             PROVE  CursorHeld(d)' /\ RoundPull(d)' /\ WorkerPull(d)'
  BY DEF PullInv
<1>1. Pulling(d) => seen[d] \subseteq seen'[d]
  BY DEF UnbrokenPulls, vars, stored
<1>2. RoundPull(d)'
  BY <1>1, AppPulls, RoundWaits DEF PullInv
<1>3. WorkerPull(d)'
  <2>1. CASE WorkerStep(d) /\ UnbrokenPulls
    BY <2>1, WorkerPulls
  <2>2. CASE ~ WorkerStep(d)
    BY <1>1, <2>2, WorkerWaits DEF PullInv
  <2>3. CASE UNCHANGED vars
    BY <2>3 DEF vars, server, stored, memory, PullInv, WorkerPull, UpTo, Landed
  <2> QED BY <2>1, <2>2, <2>3
<1> QED BY <1>2, <1>3, NextCursorHeld

(* What a device claims it holds, so nothing at or before its cursor could *)
(* still change its rows: the pull never skips an op (#305), provided no   *)
(* purge comes under a pull and a worker's page is not cut short.          *)
THEOREM CursorIsSound == Spec /\ [][UnbrokenPulls]_vars => []CursorSound
<1>1. TypeInv /\ RowsInv /\ PullInv => CursorSound
  <2> SUFFICES ASSUME TypeInv, RowsInv, PullInv, NEW d \in Device, NEW op \in Op,
                      0 < seq[op], seq[op] <= cursor[d], Changes(rows[d], op)
               PROVE  FALSE
    BY DEF CursorSound
  <2>1. op \in UpTo(cursor[d])
    BY TypeFacts DEF UpTo, Landed
  <2>2. op \in seen[d]
    BY <2>1 DEF PullInv, CursorHeld
  <2>3. PICK k \in Touches(op) : op.hlc > rows[d][op.entity][k]
    BY DEF Changes
  <2>4. op.entity \in Entity /\ k \in Cell
    BY OpsTyped DEF IsOp, Touches, Cell
  <2>5. op.hlc <= rows[d][op.entity][k]
    BY <2>2, <2>4 DEF RowsInv, IsJoin, Writers
  <2>6. rows[d][op.entity][k] \in Int /\ op.hlc \in Int
    BY <2>4, TypeFacts, OpsTyped, MergeAssumption DEF Rows, Row, IsOp, Hlc
  <2> QED BY <2>3, <2>5, <2>6
<1> QED BY InitType, NextType, InitLog, NextLog, InitPositions, NextPositions, InitRows, NextRows,
           InitPull, NextPull, <1>1, PTL DEF Spec

(* A device with nothing left to push and nothing left to pull shows the   *)
(* server's rows, whatever order its own and the others' ops reached it.   *)
THEOREM DevicesConverge ==
  Spec /\ [][QuietFlush]_vars /\ [][UnbrokenPulls]_vars => []Converged
<1>1. TypeInv /\ LogInv /\ HandInv /\ RowsInv /\ PullInv => Converged
  <2> SUFFICES ASSUME TypeInv, LogInv, HandInv, RowsInv, PullInv, NEW d \in Device,
                      cursor[d] = lastSeq, outbox[d] = {}, parked[d] = {}
               PROVE  rows[d] = srow
    BY DEF Converged
  <2>1. seen[d] \subseteq Landed
    BY DEF HandInv, HandedOver
  <2>2. Landed \subseteq seen[d]
    <3>1. \A op \in Landed : seq[op] <= cursor[d]
      BY TypeFacts DEF Landed
    <3> QED BY <3>1 DEF PullInv, CursorHeld, UpTo
  <2>3. IsJoin(Landed, rows[d]) /\ IsJoin(Landed, srow)
    <3>1. seen[d] = Landed
      BY <2>1, <2>2
    <3> QED BY <3>1 DEF RowsInv, LogInv, ServerIsJoin
  <2> QED BY <2>3, TypeFacts, OpsTyped, JoinUnique DEF Landed
<1> QED BY InitType, NextType, InitLog, NextLog, InitAuthored, NextAuthored, InitHands, NextHands,
           InitPositions, NextPositions, InitRows, NextRows, InitPull, NextPull, <1>1, PTL DEF Spec

(***************************************************************************)
(* The protocol implements SharedLedger.                                   *)
(***************************************************************************)

(* The ledger's merge is the one of the protocol.                          *)
LEMMA SameMerge ==
  /\ Ledger!NoRows = NoRows
  /\ \A S : Ledger!MergeOps(NoRows, S) = MergeOps(NoRows, S)
BY DEF Ledger!NoRows, Ledger!NoRow, Ledger!Cell, NoRows, NoRow, Cell, Ledger!MergeOps, MergeOps,
   Ledger!Writers, Writers, Ledger!Touches, Touches, Ledger!Newest, Newest

(* So is its way of counting.                                              *)
LEMMA SameCardinality == \A S : Ledger!Cardinality(S) = Cardinality(S)
BY DEF Ledger!Cardinality, Cardinality

(* Rows that join the ops held are the view of the ledger.                 *)
LEMMA JoinIsMerge ==
  ASSUME NEW S \in SUBSET Op, NEW r \in Rows, IsJoin(S, r)
  PROVE  r = MergeOps(NoRows, S)
<1>1. IsJoin({} \cup S, MergeOps(NoRows, S))
  BY NoRowsType, NoRowsJoin, OpsTyped, MergeOpsJoin
<1>2. MergeOps(NoRows, S) \in Rows /\ {} \cup S = S
  BY NoRowsType, OpsTyped, MergeOpsType
<1> QED BY <1>1, <1>2, OpsTyped, JoinUnique

(* The end of the ledger is the space's LastSeq.                           *)
LEMMA EndIsLastSeq ==
  ASSUME TypeInv, Positions
  PROVE  Ledger!End = lastSeq /\ Ledger!Logged = Landed
<1> DEFINE T == {seq[op] : op \in Op} \cup {0}
<1>1. seq \in [Op -> 0 .. lastSeq] /\ lastSeq \in Nat
  BY TypeFacts
<1>2. T \in SUBSET (0 .. lastSeq) /\ T # {} /\ lastSeq \in T
  BY <1>1 DEF Positions
<1>3. Newest(T) \in T /\ \A x \in T : x <= Newest(T)
  <2> HIDE DEF T
  <2> QED BY <1>1, <1>2, NewestIsMax
<1>4. Newest(T) = lastSeq
  <2> HIDE DEF T
  <2>1. Newest(T) \in 0 .. lastSeq /\ lastSeq <= Newest(T)
    BY <1>2, <1>3
  <2> QED BY <1>1, <2>1
<1>5. Ledger!End = Newest(T)
  BY DEF Ledger!End, Ledger!Newest, Newest
<1> QED BY <1>4, <1>5 DEF Ledger!Logged, Landed

(* The first state of a space is the empty ledger.                         *)
LEMMA InitLedger == Init => Ledger!Init
BY SameMerge DEF Init, Ledger!Init

(* A device whose rows change holds what they add up to.                   *)
LEMMA HoldsWhatItShows ==
  ASSUME TypeInv, TypeInv', RowsInv', NEW d \in Device, NEW S \in SUBSET Op, NEW r,
         seen' = [seen EXCEPT ![d] = S], rows' = [rows EXCEPT ![d] = r]
  PROVE  Ledger!Hold(d, S)
<1>1. rows'[d] = r /\ seen'[d] = S
  BY StoredFacts DEF StoredType
<1>2. r \in Rows /\ IsJoin(S, r)
  <2>1. rows' \in [Device -> Rows]
    BY DEF TypeInv, TypeOK
  <2> QED BY <1>1, <2>1 DEF RowsInv
<1>3. r = MergeOps(NoRows, S)
  BY <1>2, JoinIsMerge
<1> QED BY <1>3, SameMerge DEF Ledger!Hold

(* Every step of the protocol is a step of the ledger or none.             *)
LEMMA StepLedger ==
  ASSUME TypeInv, LogInv, Authored, Positions, RowsInv, PullInv, Next, TypeInv', RowsInv'
  PROVE  Ledger!Next \/ UNCHANGED Ledger!ledgerVars
<1>1. /\ StoredType /\ lastSeq \in Nat /\ seq \in [Op -> 0 .. lastSeq]
      /\ Ledger!End = lastSeq /\ Ledger!Logged = Landed
  BY StoredFacts, TypeFacts, EndIsLastSeq
<1>2. CASE StoresNothing /\ UNCHANGED <<seq, made>>
  BY <1>2 DEF StoresNothing, Ledger!ledgerVars
<1>3. ASSUME StoresNothing, made' = made, NEW c \in Lane, Commit(c)
      PROVE  Ledger!Next \/ UNCHANGED Ledger!ledgerVars
  <2> DEFINE new == Accepted(req[c])
  <2>1. /\ new \in SUBSET Op /\ new \cap Landed = {}
        /\ \A op \in Op \ new : seq'[op] = seq[op]
    BY <1>3, CommitAppends
  <2>2. seq' \in [Op -> 0 .. lastSeq'] /\ lastSeq' \in Nat
    BY <1>3, CommitType
  <2>3. new \subseteq made
    BY DEF Authored, Accepted
  <2>4. new # {} => {seq'[op] : op \in new} = lastSeq + 1 .. lastSeq + Cardinality(new)
    BY <1>3, CommitPositions
  <2> HIDE DEF new
  <2>5. CASE new = {}
    <3>1. seq' = seq
      BY <1>1, <2>1, <2>2, <2>5
    <3> QED BY <1>3, <3>1 DEF StoresNothing, Ledger!ledgerVars
  <2>6. CASE new # {}
    <3>1. seq' \in [Op -> Nat]
      BY <2>2
    <3>2. new \subseteq made \ Ledger!Logged
      BY <1>1, <2>1, <2>3
    <3>3. {seq'[op] : op \in new} = Ledger!End + 1 .. Ledger!End + Cardinality(new)
      BY <1>1, <2>4, <2>6
    <3>4. UNCHANGED <<made, seen, cursor, rows>>
      BY <1>3 DEF StoresNothing
    <3>5. Ledger!Append(new)
      BY <2>1, <3>1, <3>2, <3>3, <3>4, SameCardinality DEF Ledger!Append
    <3> QED BY <2>1, <3>5 DEF Ledger!Next
  <2> QED BY <2>5, <2>6
<1>4. ASSUME NEW d \in Device, NEW op \in Op, Edit(d, op)
      PROVE  Ledger!Next \/ UNCHANGED Ledger!ledgerVars
  <2>1. \/ UNCHANGED <<seen, rows>>
        \/ Ledger!Hold(d, seen[d] \cup {op})
    <3>1. CASE /\ seen' = [seen EXCEPT ![d] = seen[d] \cup {op}]
               /\ rows' = [rows EXCEPT ![d] = Put(rows[d], op)]
      <4>1. seen[d] \cup {op} \in SUBSET Op
        BY TypeFacts
      <4> QED BY <3>1, <4>1, HoldsWhatItShows
    <3> QED BY <1>4, <3>1 DEF Edit
  <2>2. Ledger!Author(d, op)
    BY <1>4, <2>1 DEF Edit, server, Ledger!Author
  <2> QED BY <2>2 DEF Ledger!Next
<1>5. ASSUME NEW d \in Device, LearnsPage(d)
      PROVE  Ledger!Next \/ UNCHANGED Ledger!ledgerVars
  <2>1. PICK P : P \subseteq Landed /\ Apply(d, P)
    BY <1>5 DEF LearnsPage, PullInv, RoundPull, WorkerPull
  <2>2. P \in SUBSET Op /\ seen[d] \cup P \in SUBSET Op
    BY <2>1, TypeFacts DEF Landed
  <2>3. Ledger!Hold(d, seen[d] \cup P)
    BY <2>1, <2>2, HoldsWhatItShows DEF Apply
  <2>4. Ledger!Learn(d, P)
    BY <1>1, <1>5, <2>1, <2>3 DEF LearnsPage, Ledger!Learn
  <2> QED BY <2>2, <2>4 DEF Ledger!Next
<1>6. ASSUME NEW d \in Device, Forgets(d)
      PROVE  Ledger!Next \/ UNCHANGED Ledger!ledgerVars
  <2>1. Ledger!Hold(d, {})
    BY <1>6, HoldsWhatItShows DEF Forgets, Purge
  <2>2. Ledger!Forget(d)
    BY <1>6, <2>1 DEF Forgets, Purge, Ledger!Forget
  <2> QED BY <2>2 DEF Ledger!Next
<1>7. ASSUME NEW d \in Device, NEW n, SetsCursor(d, n)
      PROVE  Ledger!Next \/ UNCHANGED Ledger!ledgerVars
  <2>1. n \in 0 .. lastSeq
    <3>1. CASE app[d].pc = "stamp" /\ n = NextCursor(d)
      BY <3>1, RoundFacts, NextSinceType DEF NextCursor, Round
    <3>2. CASE app[d].pc = "drained" /\ n = app[d].latest
      BY <1>1, <3>2, RoundFacts
    <3>3. CASE sw[d].pc = "stamp" /\ n = sw[d].latest
      BY <3>3, WorkerFacts
    <3> QED BY <1>7, <3>1, <3>2, <3>3 DEF SetsCursor
  <2>2. UpTo(n) \subseteq seen[d]
    BY <1>7 DEF SetsCursor, PullInv, RoundPull, WorkerPull, NextCursor
  <2>3. Ledger!Advance(d, n)
    BY <1>1, <1>7, <2>1, <2>2 DEF SetsCursor, UpTo, Ledger!Advance, Ledger!Prefix
  <2> QED BY <1>1, <2>1, <2>3 DEF Ledger!Next
<1> QED BY <1>2, <1>3, <1>4, <1>5, <1>6, <1>7, StepStores

(* The whole protocol - chunks, bisected refusals, retries, strays, two    *)
(* pulls over one database - implements the append-only ledger with one    *)
(* position per device, as long as no pull is broken.                      *)
THEOREM LedgerImplemented == Spec /\ [][UnbrokenPulls]_vars => ImplementsLedger
<1>1. /\ TypeInv /\ LogInv /\ Authored /\ Positions /\ RowsInv /\ PullInv
      /\ TypeInv' /\ RowsInv' /\ [Next]_vars
      => [Ledger!Next]_(Ledger!ledgerVars)
  <2>1. ASSUME UNCHANGED vars PROVE UNCHANGED Ledger!ledgerVars
    BY <2>1 DEF vars, server, stored, history, Ledger!ledgerVars
  <2> QED BY <2>1, StepLedger
<1> QED BY InitType, NextType, InitLog, NextLog, InitAuthored, NextAuthored, InitPositions,
           NextPositions, InitRows, NextRows, InitPull, NextPull, InitLedger, <1>1, PTL
           DEF Spec, ImplementsLedger, Ledger!Spec

(***************************************************************************)
(* Where the premises hold by themselves: devices whose worker is never    *)
(* woken (no push subscription, no Background Sync), and users who do not  *)
(* leave a space while a round runs.                                       *)
(***************************************************************************)
Woken ==
  \A d \in Device :
    /\ sw[d].pc \in {"flush", "send", "await"} => d \in Flushers
    /\ sw[d].pc \in {"head", "ops", "apply", "stamp"} => d \in Pullers

(* Workers sleep at first,                                                 *)
LEMMA InitWoken == Init => Woken
BY DEF Init, Woken, Asleep

(* and act only after the event that wakes them.                           *)
LEMMA NextWoken == TypeInv /\ Woken /\ [Next]_vars => Woken'
<1> SUFFICES ASSUME TypeInv, Woken, [Next]_vars, NEW d \in Device
             PROVE  /\ sw'[d].pc \in {"flush", "send", "await"} => d \in Flushers
                    /\ sw'[d].pc \in {"head", "ops", "apply", "stamp"} => d \in Pullers
  BY DEF Woken
<1>1. sw \in [Device -> WorkerEvent] /\ sw[d] \in WorkerEvent
  BY WorkerFacts DEF TypeInv, TypeOK
<1>2. CASE sw'[d] = sw[d] \/ sw'[d] = Asleep
  BY <1>2 DEF Woken, Asleep
<1>3. CASE WorkerStep(d)
  <2>1. ASSUME WakePull(d) \/ WakeFlush(d)
        PROVE  \/ sw'[d].pc = "head" /\ d \in Pullers
               \/ sw'[d].pc = "flush" /\ d \in Flushers
    BY <1>1, <2>1 DEF WakePull, WakeFlush, WorkerEvent
  <2>2. ASSUME WorkerHead(d) \/ WorkerOps(d) \/ WorkerApply(d)
        PROVE  sw'[d] = Asleep \/ (sw'[d].pc \in {"ops", "apply", "stamp"} /\ d \in Pullers)
    BY <1>1, <2>2 DEF WorkerHead, WorkerOps, WorkerApply, WorkerEvent, Rest, Woken
  <2>3. ASSUME FlushCheck(d) \/ FlushSend(d)
        PROVE  sw'[d] = Asleep \/ (sw'[d].pc \in {"send", "await"} /\ d \in Flushers)
    BY <1>1, <2>3 DEF FlushCheck, FlushSend, WorkerEvent, Rest, Woken
  <2>4. ASSUME WorkerStamp(d) \/ FlushAnswered(d) PROVE sw'[d] = Asleep
    BY <1>1, <2>4 DEF WorkerStamp, FlushAnswered, Rest
  <2> QED BY <1>2, <1>3, <2>1, <2>2, <2>3, <2>4 DEF WorkerStep
<1> QED BY <1>2, <1>3, WorkerMovers

(* Without departures under a round only an idle round, or one that is     *)
(* evicted, lets the rows be purged.                                       *)
LEMMA RoundsKeepRows ==
  ASSUME TypeInv, [Next]_vars, ~ LeaveMidRound, NEW d \in Device,
         app[d].pc \notin {"idle", "purge"}
  PROVE  seen[d] \subseteq seen'[d]
<1>1. StoredType
  BY StoredFacts
<1>2. ASSUME AppStep(d) PROVE seen[d] \subseteq seen'[d]
  <2>1. ~ StartRound(d) /\ ~ EvictPurge(d)
    BY DEF StartRound, EvictPurge
  <2> QED BY <1>1, <1>2, <2>1 DEF AppStep, ReadParked, OfferParked, ParkedAnswered, EndRetry,
         PushNext, PushAnswered, Unqueue, StartPull, PullHead, PullOps, PullApply, PullStamp,
         Drained, ParkReadOnly, Apply, stored, StoredType
<1>3. ASSUME NEW e \in Device, WorkerStep(e) PROVE seen[d] \subseteq seen'[d]
  BY <1>1, <1>3, WorkerStores DEF StoresNothing, LearnsPage, Apply, SetsCursor, StoredType
<1>4. ASSUME NEW e \in Device, Leave(e) PROVE seen[d] \subseteq seen'[d]
  BY <1>1, <1>4 DEF Leave, Purge, StoredType
<1>5. ASSUME Environment, \A e \in Device : ~ Leave(e) PROVE seen' = seen
  BY <1>5 DEF Environment, Grant, Rerole, Revoke, LosePull, CloseApp, KillWorker, LosePush,
     FixServer, stored
<1>6. ASSUME NEW e \in Device, NEW op \in Op, Edit(e, op) PROVE seen[d] \subseteq seen'[d]
  BY <1>1, <1>6 DEF Edit, StoredType
<1>7. ASSUME NEW c \in Lane, Serve(c) PROVE seen' = seen
  BY <1>7 DEF Serve, Receive, Collide, Commit, stored
<1>8. CASE UNCHANGED vars
  BY <1>8 DEF vars, stored
<1> QED BY <1>2, <1>3, <1>4, <1>5, <1>6, <1>7, <1>8, AppOthers DEF Next

(* A device without Background Sync loses nothing, premise or not.         *)
THEOREM NothingIsLostByRounds ==
  ASSUME Flushers = {}
  PROVE  Spec => []NothingLost
<1>1. Woken /\ [Next]_vars => [QuietFlush]_vars
  BY DEF Woken, QuietFlush, FlushCheck
<1> QED BY InitType, NextType, InitWoken, NextWoken, NothingIsLost, <1>1, PTL DEF Spec

(* Rounds are unbroken where no worker pulls and nobody leaves under one.  *)
LEMMA RoundsAreUnbroken ==
  ASSUME Pullers = {}, ~ LeaveMidRound, TypeInv, Woken, [Next]_vars
  PROVE  [UnbrokenPulls]_vars
<1> SUFFICES ASSUME Next, NEW d \in Device
             PROVE  /\ Pulling(d) => seen[d] \subseteq seen'[d]
                    /\ ~ WorkerOps(d)
  BY DEF UnbrokenPulls
<1>1. sw[d].pc \notin {"head", "ops", "apply", "stamp"}
  BY DEF Woken
<1> QED BY <1>1, RoundsKeepRows DEF Pulling, WorkerOps

(* Without a worker that pulls, and with no one leaving in mid-round, the  *)
(* app alone never skips an op, and implements the ledger.                 *)
THEOREM RoundsAreSound ==
  ASSUME Pullers = {}, ~ LeaveMidRound
  PROVE  /\ Spec => []CursorSound
         /\ Spec => ImplementsLedger
<1>1. TypeInv /\ Woken /\ [Next]_vars => [UnbrokenPulls]_vars
  BY RoundsAreUnbroken
<1>2. Spec => [][UnbrokenPulls]_vars
  BY InitType, NextType, InitWoken, NextWoken, <1>1, PTL DEF Spec
<1> QED BY <1>2, CursorIsSound, LedgerImplemented, PTL

(* Without a worker at all, devices that hold the same rows and have       *)
(* nothing to push show the same.                                          *)
THEOREM RoundsConverge ==
  ASSUME Flushers = {}, Pullers = {}, ~ LeaveMidRound
  PROVE  Spec => []Converged
<1>1. TypeInv /\ Woken /\ [Next]_vars => [UnbrokenPulls]_vars
  BY RoundsAreUnbroken
<1>2. Woken /\ [Next]_vars => [QuietFlush]_vars
  BY DEF Woken, QuietFlush, FlushCheck
<1> QED BY InitType, NextType, InitWoken, NextWoken, <1>1, <1>2, DevicesConverge, PTL DEF Spec

(***************************************************************************)
(* A personal space: all devices are one user's, and nothing is refused.   *)
(* Then nobody is ever evicted, and workers and rounds are free to race.   *)
(***************************************************************************)
Personal == Refusable = {} /\ \A d, e \in Device : UserOf[d] = UserOf[e]

Owner(d) == role[UserOf[d]] = "owner"

(* The user owns the space once it exists; before, a round has an op of it *)
(* to push before it pulls.                                                *)
AtHome(d) ==
  /\ ~ evicted[d] /\ parked[d] = {}
  /\ app[d].all = {} /\ app[d].left = {} /\ ~ app[d].denied
  /\ app[d].pc \notin {"unqueue", "park", "purge"}
  /\ \/ Owner(d)
     \/ /\ role[UserOf[d]] = "none" /\ lastSeq = 0
        /\ app[d].pc \in {"idle", "retry", "push"}
        /\ app[d].pc = "retry" => outbox[d] # {}
        /\ app[d].pc = "push" => app[d].chunks # <<>>

(* No push is turned down, and the first that is granted makes the owner.  *)
Allowed(c) ==
  /\ req[c].phase \notin {"400", "403"}
  /\ req[c].phase = "200" => Owner(c[1])

Home == (\A d \in Device : AtHome(d)) /\ \A c \in Lane : Allowed(c)

(* At first nothing is anybody's.                                          *)
LEMMA InitHome == Init => Home
<1> SUFFICES ASSUME Init PROVE Home
  OBVIOUS
<1>1. \A d \in Device : UserOf[d] \in User
  BY SpaceSyncAssumption
<1>2. \A d \in Device : AtHome(d)
  BY <1>1 DEF Init, AtHome, Idle
<1>3. \A c \in Lane : Allowed(c)
  BY DEF Init, Allowed, NoReq, Request
<1> QED BY <1>2, <1>3 DEF Home

(* A queue that holds anything is cut into at least one chunk.             *)
LEMMA SomeChunk ==
  ASSUME NEW S \in SUBSET Op, S # {} PROVE Chunked(S) # <<>>
<1> DEFINE a == Cardinality(S) + PushChunk - 1
           n == a \div PushChunk
<1>1. IsFiniteSet(S) /\ Cardinality(S) \in Nat /\ Cardinality(S) # 0
  BY OpsFinite, FS_EmptySet
<1>2. PushChunk \in Nat \ {0} /\ a \in Nat /\ a >= PushChunk
  BY <1>1, SpaceSyncAssumption
<1>3. n \in Nat /\ n >= 1
  BY <1>2
<1> HIDE DEF n
<1>4. Chunked(S) = [i \in 1 .. n |-> FirstOf(S, i * PushChunk) \ FirstOf(S, (i - 1) * PushChunk)]
  BY DEF Chunked, n
<1>5. 1 \in DOMAIN Chunked(S)
  BY <1>3, <1>4
<1> QED BY <1>5

(* A space that is shown and not in the log yet is queued.                 *)
LEMMA ShownIsQueued ==
  ASSUME TypeInv, HandInv, RowsInv, NEW d \in Device, HasSpace(d), parked[d] = {}, lastSeq = 0
  PROVE  outbox[d] # {}
<1>1. Landed = {}
  BY TypeFacts DEF Landed
<1>2. SUFFICES seen[d] # {}
  BY <1>1 DEF HandInv, HandedOver
<1>3. ASSUME seen[d] = {} PROVE FALSE
  <2>1. rows[d] \in Rows /\ IsJoin({}, rows[d])
    BY <1>3, TypeFacts DEF RowsInv
  <2>2. PICK none \in Rows : none = NoRows
    BY NoRowsType
  <2>3. IsJoin({}, none) /\ \A op \in {} : IsOp(op)
    BY <2>2, NoRowsJoin
  <2>4. rows[d] = none
    BY <2>1, <2>3, JoinUnique
  <2> QED BY <2>2, <2>4, SpaceSyncAssumption DEF HasSpace, NoRows
<1> QED BY <1>3

(* The server never turns the owner down.                                  *)
LEMMA ServeHome ==
  ASSUME Personal, TypeInv, LogInv, Home, NEW c \in Lane, Serve(c) PROVE Home'
<1>1. /\ req \in [Lane -> Requests] /\ req[c] \in Requests /\ lastSeq \in Nat
      /\ role \in [User -> {"none", "owner", "contributor", "reader"}] /\ refused = {}
  BY StoredFacts DEF TypeInv, TypeOK, Personal
<1>2. c[1] \in Device /\ \A d \in Device : UserOf[d] = UserOf[c[1]] /\ UserOf[d] \in User
  BY SpaceSyncAssumption DEF Lane, Personal
<1>3. UNCHANGED <<stored, app>>
  BY DEF Serve, Receive, Collide, Commit, memory
<1>4. /\ lastSeq # 0 => Owner(c[1])
      /\ \A l \in Lane : l[1] \in Device /\ Allowed(l)
  BY <1>2 DEF Home, AtHome, Lane
<1>5. ASSUME NEW a, Reply(c, a), a \notin {"400", "403"}, NEW l \in Lane
      PROVE  \/ req'[l].phase = req[l].phase
             \/ req'[l].phase = a /\ l = c
             \/ req'[l].phase = "none"
  BY <1>1, <1>5 DEF Reply, Answer, NoReq, Request
<1>6. CASE Receive(c)
  <2>1. req[c].ops \cap refused = {} /\ ~ (Exists /\ ~ CanWrite(UserOf[c[1]]))
    BY <1>1, <1>4 DEF Exists, CanWrite, Owner
  <2>2. \A l \in Lane : req'[l].phase \in {req[l].phase, "read"}
    BY <1>1, <1>6, <2>1 DEF Receive, Requests
  <2>3. UNCHANGED <<role, lastSeq>>
    BY <1>6 DEF Receive, server
  <2> QED BY <1>3, <1>4, <2>2, <2>3 DEF Home, AtHome, Allowed, Owner, stored
<1>7. CASE Collide(c)
  <2>1. \A l \in Lane : req'[l].phase \in {req[l].phase, "sent", "500", "none"}
    <3>1. CASE req' = [req EXCEPT ![c] = Request("sent", req[c].ops, req[c].tries + 1)]
      BY <1>1, <3>1 DEF Request
    <3> QED BY <1>5, <1>7, <3>1 DEF Collide
  <2>2. UNCHANGED <<role, lastSeq>>
    BY <1>7 DEF Collide, server
  <2> QED BY <1>3, <1>4, <2>1, <2>2 DEF Home, AtHome, Allowed, Owner, stored
<1>8. CASE Commit(c)
  <2>1. req[c].at \in Nat /\ (req[c].at # 0 => lastSeq # 0)
    BY <1>1, <1>8 DEF Commit, LogInv, ReadOK, Requests
  <2>2. role'[UserOf[c[1]]] = "owner"
    BY <1>1, <1>2, <1>4, <1>8, <2>1 DEF Commit, Owner
  <2>3. \A d \in Device : Owner(d)'
    BY <1>2, <2>2 DEF Owner
  <2>4. \A l \in Lane : req'[l].phase \in {req[l].phase, "200", "none"}
    BY <1>5, <1>8 DEF Commit
  <2> QED BY <1>3, <1>4, <2>3, <2>4 DEF Home, AtHome, Allowed, stored
<1> QED BY <1>6, <1>7, <1>8 DEF Serve

(* A round of the owner is never denied.                                   *)
LEMMA AppHome ==
  ASSUME TypeInv, HandInv, RowsInv, Home, NEW d \in Device, AppStep(d) PROVE Home'
<1>1. /\ StoredType /\ app \in [Device -> Round] /\ req \in [Lane -> Requests]
      /\ app[d] \in Round /\ App(d) \in Lane /\ Idle \in Round /\ AtHome(d) /\ Allowed(App(d))
  BY StoredFacts, RoundFacts DEF Home
<1>2. UNCHANGED server
  BY DEF AppStep, StartRound, ReadParked, OfferParked, ParkedAnswered, EndRetry, PushNext,
         PushAnswered, Unqueue, StartPull, PullHead, PullOps, PullApply, PullStamp, Drained,
         ParkReadOnly, EvictPurge
<1>3. ASSUME NEW l \in Lane PROVE Allowed(l)'
  <2>1. \/ req' = req
        \/ req' = [req EXCEPT ![App(d)] = NoReq]
        \/ \E S : Send(App(d), S)
    BY DEF AppStep, StartRound, ReadParked, OfferParked, ParkedAnswered, EndRetry, PushNext,
           PushAnswered, Unqueue, StartPull, PullHead, PullOps, PullApply, PullStamp, Drained,
           ParkReadOnly, EvictPurge
  <2>2. req'[l].phase \in {req[l].phase, "none", "sent"}
    BY <1>1, <2>1 DEF Send, NewReq, NoReq, Request
  <2> QED BY <1>2, <2>2 DEF Home, Allowed, Owner, server
<1>4. ASSUME NEW e \in Device \ {d} PROVE AtHome(e)'
  BY <1>2, <1>4, AppOthers DEF Home, AtHome, Owner, server
<1>5. AtHome(d)'
  <2> USE DEF stored, memory, server
  <2>1. ASSUME app'[d] = Idle, evicted'[d] = evicted[d], parked'[d] = parked[d] PROVE AtHome(d)'
    BY <1>1, <1>2, <2>1 DEF AtHome, Owner, Idle
  <2>0. ASSUME NEW label, Go(d, label)
        PROVE  /\ app'[d].pc = label /\ app'[d].all = app[d].all /\ app'[d].left = app[d].left
               /\ app'[d].denied = app[d].denied /\ app'[d].chunks = app[d].chunks
    BY <1>1, <2>0 DEF Go, Round
  <2>2. CASE StartRound(d)
    <3>1. ToSync(d) /\ app[d].pc = "idle" /\ app'[d].pc = "retry" /\ ~ evicted'[d]
          /\ app'[d].all = {} /\ app'[d].left = {} /\ ~ app'[d].denied
          /\ UNCHANGED <<outbox, parked>>
      <4>1. ClearTombstone(d) /\ Go(d, "retry") /\ ToSync(d) /\ app[d].pc = "idle"
            /\ UNCHANGED <<outbox, parked>>
        BY <1>1, <2>2 DEF StartRound, AtHome
      <4>2. ~ evicted'[d]
        BY <1>1, <4>1 DEF ClearTombstone, StoredType
      <4> QED BY <1>1, <2>0, <4>1, <4>2 DEF AtHome
    <3>2. ASSUME ~ Owner(d) PROVE outbox[d] # {}
      BY <1>1, <3>1, <3>2, ShownIsQueued DEF AtHome, ToSync, Member
    <3> QED BY <1>1, <1>2, <3>1, <3>2 DEF AtHome, Owner
  <2>3. CASE ReadParked(d) \/ OfferParked(d) \/ ParkedAnswered(d)
    <3>1. UNCHANGED <<evicted, parked, outbox>>
      BY <2>3 DEF ReadParked, OfferParked, ParkedAnswered
    <3>2. /\ app'[d].pc = app[d].pc /\ app'[d].denied = app[d].denied
          /\ app'[d].chunks = app[d].chunks /\ app'[d].all = {} /\ app'[d].left = {}
      <4>1. CASE ReadParked(d)
        BY <1>1, <4>1 DEF ReadParked, AtHome, Round
      <4>2. CASE OfferParked(d)
        BY <1>1, <4>2 DEF OfferParked, AtHome
      <4>3. CASE ParkedAnswered(d)
        BY <1>1, <4>3 DEF ParkedAnswered, AtHome, Round
      <4> QED BY <2>3, <4>1, <4>2, <4>3
    <3> QED BY <1>1, <1>2, <3>1, <3>2 DEF AtHome, Owner
  <2>4. CASE EndRetry(d)
    <3>1. outbox[d] # {} => Chunked(outbox[d]) # <<>>
      BY <1>1, SomeChunk DEF StoredType
    <3>2. /\ app'[d] = [Idle EXCEPT !.pc = "push", !.chunks = Chunked(outbox[d])]
          /\ parked'[d] = {} /\ evicted' = evicted /\ app[d].pc = "retry"
      BY <1>1, <2>4 DEF EndRetry, AtHome, StoredType
    <3>3. /\ app'[d].pc = "push" /\ app'[d].chunks = Chunked(outbox[d])
          /\ app'[d].all = {} /\ app'[d].left = {} /\ ~ app'[d].denied
      BY <3>2 DEF Idle
    <3> QED BY <1>1, <1>2, <3>1, <3>2, <3>3 DEF AtHome, Owner
  <2>5. CASE PushNext(d)
    BY <1>1, <1>2, <2>5 DEF PushNext, AtHome, Owner
  <2>6. CASE PushAnswered(d)
    <3>1. CASE req[App(d)].phase = "200"
      <4>1. Owner(d)
        BY <1>1, <3>1 DEF Allowed, App
      <4> QED BY <1>1, <1>2, <2>6, <3>1, <4>1 DEF PushAnswered, AtHome, Owner, Round
    <3>2. CASE req[App(d)].phase \in {"500", "lost"}
      BY <1>1, <2>1, <2>6, <3>2 DEF PushAnswered, EndRound
    <3> QED BY <1>1, <2>6, <3>1, <3>2 DEF PushAnswered, Allowed
  <2>7. CASE StartPull(d)
    BY <1>1, <1>2, <2>7 DEF StartPull, AtHome, Owner, Round
  <2>8. CASE PullHead(d)
    <3>1. Owner(d) /\ Member(UserOf[d])
      BY <1>1, <2>8 DEF PullHead, AtHome, Owner, Member
    <3>2. /\ app' = [app EXCEPT ![d].pc = "ops", ![d].latest = lastSeq]
          /\ UNCHANGED <<evicted, parked>>
      BY <2>8, <3>1 DEF PullHead
    <3>3. /\ app'[d].pc = "ops" /\ app'[d].all = app[d].all /\ app'[d].left = app[d].left
          /\ app'[d].denied = app[d].denied
      BY <1>1, <3>2 DEF Round
    <3> QED BY <1>1, <1>2, <3>1, <3>2, <3>3 DEF AtHome, Owner
  <2>9. CASE PullOps(d) \/ PullApply(d)
    <3>1. Owner(d) /\ UNCHANGED <<evicted, parked>>
      BY <1>1, <2>9 DEF PullOps, PullApply, AtHome
    <3>2. /\ app'[d].pc \in {"drained", "apply", "stamp"} /\ app'[d].all = app[d].all
          /\ app'[d].left = app[d].left /\ app'[d].denied = app[d].denied
      <4>1. CASE PullOps(d)
        BY <1>1, <4>1 DEF PullOps, Round
      <4>2. CASE PullApply(d)
        BY <2>0, <4>2 DEF PullApply
      <4> QED BY <2>9, <4>1, <4>2
    <3> QED BY <1>1, <1>2, <3>1, <3>2 DEF AtHome, Owner
  <2>10. CASE PullStamp(d) \/ Drained(d)
    <3>1. UNCHANGED <<evicted, parked>> /\ Owner(d)
      BY <1>1, <2>10 DEF PullStamp, Drained, AtHome
    <3>2. \/ app'[d] = Idle
          \/ app' = [app EXCEPT ![d].pc = "head", ![d].since = NextCursor(d), ![d].page = {}]
      BY <1>1, <2>10 DEF PullStamp, Drained, AfterPull, EndRound, AtHome
    <3>3. CASE app' = [app EXCEPT ![d].pc = "head", ![d].since = NextCursor(d), ![d].page = {}]
      <4>1. /\ app'[d].pc = "head" /\ app'[d].all = app[d].all /\ app'[d].left = app[d].left
            /\ app'[d].denied = app[d].denied
        BY <1>1, <3>3 DEF Round
      <4> QED BY <1>1, <1>2, <3>1, <4>1 DEF AtHome, Owner
    <3> QED BY <2>1, <3>1, <3>2, <3>3
  <2>11. CASE Unqueue(d) \/ ParkReadOnly(d) \/ EvictPurge(d)
    BY <1>1, <2>11 DEF Unqueue, ParkReadOnly, EvictPurge, AtHome
  <2> QED BY <2>2, <2>3, <2>4, <2>5, <2>6, <2>7, <2>8, <2>9, <2>10, <2>11 DEF AppStep
<1> QED BY <1>3, <1>4, <1>5 DEF Home

(* A worker empties the outbox only of what the owner has pushed.          *)
LEMMA WorkerHome ==
  ASSUME TypeInv, Home, NEW d \in Device, WorkerStep(d) PROVE Home'
<1>1. /\ StoredType /\ req \in [Lane -> Requests]
      /\ Worker(d) \in Lane /\ AtHome(d) /\ Allowed(Worker(d))
  BY StoredFacts, WorkerFacts DEF Home
<1>2. UNCHANGED server /\ UNCHANGED <<parked, evicted, app>>
  BY DEF WorkerStep, WakePull, WorkerHead, WorkerOps, WorkerApply, WorkerStamp, WakeFlush,
         FlushCheck, FlushSend, FlushAnswered, stored
<1>3. ASSUME NEW l \in Lane PROVE Allowed(l)'
  <2>1. \/ req' = req
        \/ req' = [req EXCEPT ![Worker(d)] = NoReq]
        \/ \E S : Send(Worker(d), S)
    BY DEF WorkerStep, WakePull, WorkerHead, WorkerOps, WorkerApply, WorkerStamp, WakeFlush,
           FlushCheck, FlushSend, FlushAnswered
  <2>2. req'[l].phase \in {req[l].phase, "none", "sent"}
    BY <1>1, <2>1 DEF Send, NewReq, NoReq, Request
  <2> QED BY <1>2, <2>2 DEF Home, Allowed, Owner, server
<1>4. \/ outbox' = outbox
      \/ Owner(d) /\ (\A e \in Device \ {d} : outbox'[e] = outbox[e])
  <2>1. CASE FlushAnswered(d)
    <3>1. Flushed(d) => Owner(d)
      BY <1>1 DEF Flushed, Allowed, Worker
    <3> QED BY <1>1, <2>1, <3>1 DEF FlushAnswered, StoredType
  <2>2. CASE FlushCheck(d)
    BY <1>1, <2>2 DEF FlushCheck, AtHome
  <2> QED BY <2>1, <2>2 DEF WorkerStep, WakePull, WorkerHead, WorkerOps, WorkerApply, WorkerStamp,
                            WakeFlush, FlushSend, stored
<1> QED BY <1>2, <1>3, <1>4 DEF Home, AtHome, Owner, server

(* Nobody moves the owner, and failures deny nothing.                      *)
LEMMA EnvironmentHome ==
  ASSUME Personal, TypeInv, Home, Environment PROVE Home'
<1> USE DEF stored, memory, server
<1>1. /\ StoredType /\ app \in [Device -> Round] /\ req \in [Lane -> Requests]
      /\ role \in [User -> {"none", "owner", "contributor", "reader"}]
      /\ \A d \in Device : UserOf[d] \in User /\ role[UserOf[d]] \in {"none", "owner"}
      /\ \A d \in Device : lastSeq # 0 => Owner(d)
  BY StoredFacts, SpaceSyncAssumption DEF TypeInv, TypeOK, Home, AtHome, Owner
<1>2. ASSUME NEW u \in User, Grant(u) \/ Rerole(u) \/ Revoke(u) PROVE Home'
  <2>1. \A d \in Device : role'[UserOf[d]] = role[UserOf[d]]
    BY <1>1, <1>2 DEF Grant, Rerole, Revoke, Exists, Owner
  <2>2. UNCHANGED <<stored, app, req, lastSeq>>
    BY <1>2 DEF Grant, Rerole, Revoke
  <2> QED BY <2>1, <2>2 DEF Home, AtHome, Allowed, Owner, Lane
<1>3. ASSUME NEW d \in Device, Leave(d) PROVE FALSE
  BY <1>1, <1>3 DEF Leave
<1>4. ASSUME UNCHANGED <<role, lastSeq, stored>>,
             \A d \in Device : app'[d] \in {app[d], Idle},
             \A l \in Lane : \/ req'[l].phase \in {"none", "lost"}
                             \/ req'[l].phase = req[l].phase
                             \/ req'[l].phase \in {"sent", "read"}
      PROVE  Home'
  <2>1. ASSUME NEW d \in Device PROVE AtHome(d)'
    BY <1>4, IdleHands DEF Home, AtHome, Owner, Idle
  <2>2. \A l \in Lane : Allowed(l)'
    BY <1>4 DEF Home, Allowed, Owner
  <2> QED BY <2>1, <2>2 DEF Home
<1>5. ASSUME NEW c \in Lane, NEW r, r.phase \in {"none", "lost"}, Abandon(c, r), NEW l \in Lane
      PROVE  \/ req'[l].phase \in {"none", "lost"}
             \/ req'[l].phase = req[l].phase
             \/ req'[l].phase \in {"sent", "read"}
  <2> DEFINE stray == <<c[1], "stray">>
  <2>1. \/ req' = [req EXCEPT ![c] = r]
        \/ /\ req[c].phase \in {"sent", "read"}
           /\ req' = [req EXCEPT ![c] = r, ![stray] = req[c]]
    BY <1>5 DEF Abandon
  <2> HIDE DEF stray
  <2> QED BY <1>1, <1>5, <2>1
<1>6. ASSUME NEW d \in Device, LosePull(d) PROVE Home'
  BY <1>1, <1>4, <1>6 DEF LosePull, EndRound
<1>7. ASSUME NEW d \in Device, CloseApp(d) PROVE Home'
  <2>1. NoReq.phase = "none" /\ App(d) \in Lane /\ Abandon(App(d), NoReq)
    BY <1>7, RoundFacts DEF CloseApp, NoReq, Request
  <2>2. \A l \in Lane : \/ req'[l].phase \in {"none", "lost"}
                        \/ req'[l].phase = req[l].phase
                        \/ req'[l].phase \in {"sent", "read"}
    BY <1>5, <2>1
  <2> QED BY <1>1, <1>4, <1>7, <2>2 DEF CloseApp, EndRound
<1>8. ASSUME NEW d \in Device, KillWorker(d) PROVE Home'
  <2>1. NoReq.phase = "none" /\ Worker(d) \in Lane /\ Abandon(Worker(d), NoReq)
    BY <1>8, WorkerFacts DEF KillWorker, NoReq, Request
  <2>2. \A l \in Lane : \/ req'[l].phase \in {"none", "lost"}
                        \/ req'[l].phase = req[l].phase
                        \/ req'[l].phase \in {"sent", "read"}
    BY <1>5, <2>1
  <2> QED BY <1>4, <1>8, <2>2 DEF KillWorker
<1>9. ASSUME NEW c \in Lane, LosePush(c) PROVE Home'
  <2>1. Answer(c, "lost").phase = "lost" /\ Abandon(c, Answer(c, "lost"))
    BY <1>9 DEF LosePush, Answer, Request
  <2>2. \A l \in Lane : \/ req'[l].phase \in {"none", "lost"}
                        \/ req'[l].phase = req[l].phase
                        \/ req'[l].phase \in {"sent", "read"}
    BY <1>5, <2>1
  <2> QED BY <1>4, <1>9, <2>2 DEF LosePush
<1>10. CASE FixServer
  BY <1>4, <1>10 DEF FixServer
<1> QED BY <1>2, <1>3, <1>6, <1>7, <1>8, <1>9, <1>10 DEF Environment

(* Every step keeps a personal space at home.                              *)
LEMMA NextHome ==
  ASSUME Personal, TypeInv, LogInv, HandInv, RowsInv, Home, [Next]_vars PROVE Home'
<1>1. CASE UNCHANGED vars
  BY <1>1 DEF vars, server, stored, memory, Home, AtHome, Allowed, Owner
<1>2. ASSUME NEW d \in Device, NEW op \in Op, Edit(d, op) PROVE Home'
  <2>1. \A e \in Device : outbox'[e] = outbox[e] \/ outbox'[e] = outbox[e] \cup {op}
    BY <1>2, StoredFacts DEF Edit, StoredType
  <2> QED BY <1>2, <2>1 DEF Edit, server, memory, Home, AtHome, Allowed, Owner
<1> QED BY <1>1, <1>2, ServeHome, AppHome, WorkerHome, EnvironmentHome DEF Next

(* Where no device is evicted nothing is purged.                           *)
LEMMA HomeIsKept ==
  ASSUME Personal, TypeInv, Home, [Next]_vars, NEW d \in Device
  PROVE  seen[d] \subseteq seen'[d]
<1>1. StoredType /\ AtHome(d) /\ role[UserOf[d]] \in {"none", "owner"}
  BY StoredFacts DEF Home, AtHome, Owner
<1>2. ASSUME AppStep(d) PROVE seen[d] \subseteq seen'[d]
  <2>1. ~ EvictPurge(d) /\ (StartRound(d) => seen' = seen)
    BY <1>1 DEF EvictPurge, StartRound, AtHome
  <2> QED BY <1>1, <1>2, <2>1 DEF AppStep, ReadParked, OfferParked, ParkedAnswered, EndRetry,
         PushNext, PushAnswered, Unqueue, StartPull, PullHead, PullOps, PullApply, PullStamp,
         Drained, ParkReadOnly, Apply, stored, StoredType
<1>3. ASSUME NEW e \in Device, WorkerStep(e) PROVE seen[d] \subseteq seen'[d]
  BY <1>1, <1>3, WorkerStores DEF StoresNothing, LearnsPage, Apply, SetsCursor, StoredType
<1>4. ASSUME NEW e \in Device, Leave(e) PROVE FALSE
  BY <1>4 DEF Leave, Home, AtHome, Owner
<1>5. ASSUME Environment PROVE seen' = seen
  BY <1>4, <1>5 DEF Environment, Grant, Rerole, Revoke, LosePull, CloseApp, KillWorker, LosePush,
     FixServer, stored
<1>6. ASSUME NEW e \in Device, NEW op \in Op, Edit(e, op) PROVE seen[d] \subseteq seen'[d]
  BY <1>1, <1>6 DEF Edit, StoredType
<1>7. ASSUME NEW c \in Lane, Serve(c) PROVE seen' = seen
  BY <1>7 DEF Serve, Receive, Collide, Commit, stored
<1>8. CASE UNCHANGED vars
  BY <1>8 DEF vars, stored
<1> QED BY <1>2, <1>3, <1>5, <1>6, <1>7, <1>8, AppOthers DEF Next

(* So flushes are quiet,                                                   *)
LEMMA HomeIsQuiet == Home /\ [Next]_vars => [QuietFlush]_vars
BY DEF Home, AtHome, QuietFlush

(* and pulls unbroken, if a page holds the log.                            *)
LEMMA HomeIsUnbroken ==
  ASSUME Personal, Cardinality(Op) <= PageSize, TypeInv, Home, [Next]_vars
  PROVE  [UnbrokenPulls]_vars
<1> SUFFICES ASSUME NEW d \in Device
             PROVE  /\ seen[d] \subseteq seen'[d]
                    /\ Cardinality(After(sw[d].since)) <= PageSize
  BY DEF UnbrokenPulls
<1>1. After(sw[d].since) \in SUBSET Op /\ PageSize \in Nat
  BY SpaceSyncAssumption DEF After
<1>2. /\ Cardinality(After(sw[d].since)) \in Nat /\ Cardinality(Op) \in Nat
      /\ Cardinality(After(sw[d].since)) <= Cardinality(Op)
  BY <1>1, OpsFinite, FS_Subset, SpaceSyncAssumption
<1> QED BY <1>1, <1>2, HomeIsKept

(* In a personal space rounds, pulls in the background and flushes may     *)
(* race, crash and repeat as they like: nothing shown is lost.             *)
THEOREM PersonalIsKept ==
  ASSUME Personal
  PROVE  Spec => []NothingLost
<1>1. TypeInv /\ LogInv /\ HandInv /\ RowsInv /\ Home /\ [Next]_vars => Home'
  BY NextHome
<1>2. HandInv => NothingLost
  BY DEF HandInv, HandedOver, NothingLost
<1> QED BY InitType, NextType, InitLog, NextLog, InitAuthored, NextAuthored, InitHands, NextHands,
           InitRows, NextRows, InitHome, HomeIsQuiet, <1>1, <1>2, PTL DEF Spec

(* If its log fits a page, the worker skips no op either, its devices      *)
(* converge, and the protocol implements the ledger.                       *)
THEOREM PersonalConverges ==
  ASSUME Personal, Cardinality(Op) <= PageSize
  PROVE  /\ Spec => []CursorSound
         /\ Spec => []Converged
         /\ Spec => ImplementsLedger
<1>1. TypeInv /\ LogInv /\ HandInv /\ RowsInv /\ Home /\ [Next]_vars => Home'
  BY NextHome
<1>2. TypeInv /\ Home /\ [Next]_vars => [UnbrokenPulls]_vars
  BY HomeIsUnbroken
<1>3. Spec => [][QuietFlush]_vars /\ [][UnbrokenPulls]_vars
  BY InitType, NextType, InitLog, NextLog, InitAuthored, NextAuthored, InitHands, NextHands,
     InitRows, NextRows, InitHome, HomeIsQuiet, <1>1, <1>2, PTL DEF Spec
<1> QED BY <1>3, CursorIsSound, DevicesConverge, LedgerImplemented, PTL
=============================================================================
