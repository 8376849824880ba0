----------------------------- MODULE SpaceSync -----------------------------
(***************************************************************************)
(* Op-log synchronisation of ONE munni space between the devices of its    *)
(* members and the server:                                                 *)
(*                                                                         *)
(*   server   Sync/SyncEndpoints.cs (push, pull) and Sync/SyncWriter.cs    *)
(*   device   db/repo.ts (local writes), sync/engine.ts (the app's sync    *)
(*            round) and sync/swSync.ts (the service worker's pull and     *)
(*            outbox flush, over the same IndexedDB as the app)            *)
(*                                                                         *)
(* A step is one thing that happens without another actor in between: one  *)
(* IndexedDB transaction, one statement of the server's handler whose      *)
(* timing matters, one answer reaching its caller.  An app, its worker and *)
(* the server's request handlers interleave at every await.                *)
(***************************************************************************)
EXTENDS Merge, FiniteSets, Sequences

CONSTANTS
  Device, User,
  UserOf,         \* whose device it is
  Op,             \* the ops the devices may author
  SpaceRow,       \* the entity that is the space's own row
  Creation,       \* the op that creates the space on its first device
  PushChunk,      \* ops per push request (PUSH_CHUNK)
  PageSize,       \* ops per pull answer (Take(1000))
  PushTries,      \* attempts at a push that hits a unique violation
  Pullers,        \* devices whose worker is woken by web push to pull
  Flushers,       \* devices whose worker gets Background Sync events
  Refusable,      \* ops the server's validator may refuse (400) at first
  LeaveMidRound,  \* may the user leave the space while a round runs?
  MaxMoves,       \* bound: membership changes
  MaxFaults       \* bound: crashes and failed requests

ASSUME SpaceSyncAssumption ==
  /\ UserOf \in [Device -> User]
  /\ SpaceRow \in Entity
  /\ IsFiniteSet(Op)
  /\ \A op \in Op : IsOp(op) /\ op.by \in Device
  /\ \A p, q \in Op : p.hlc = q.hlc => p = q
  /\ {PushChunk, PageSize, PushTries} \subseteq Nat \ {0}
  /\ Pullers \subseteq Device /\ Flushers \subseteq Device
  /\ Refusable \subseteq Op
  /\ LeaveMidRound \in BOOLEAN
  /\ MaxMoves \in Nat /\ MaxFaults \in Nat

VARIABLES
  \* the server
  seq,        \* SyncOps: the Seq an op was accepted at, 0 when it was not
  lastSeq,    \* Spaces.LastSeq
  srow,       \* EntityRows
  role,       \* SpaceMembers, "none" without a row
  refused,    \* the ops the validator answers 400 to
  req,        \* push requests, by lane
  \* one device's IndexedDB
  rows, outbox, parked, cursor, evicted,
  seen,       \* (history) ops merged into rows since they were last purged
  \* in memory
  offered,    \* parkedRetried: this session already re-offered parked ops
  app,        \* the app's round
  sw,         \* the service worker's pull or flush
  \* history and bounds
  made,       \* ops authored so far
  granted,    \* users who have ever been members
  moves, faults

server  == <<seq, lastSeq, srow, role, refused>>
stored  == <<rows, outbox, parked, cursor, evicted, seen>>
memory  == <<offered, app, sw>>
history == <<made, granted, moves, faults>>
vars    == <<server, req, stored, memory, history>>

----------------------------------------------------------------------------
(* Helpers.                                                                *)

Landed   == {op \in Op : seq[op] # 0}
Exists   == lastSeq # 0      \* the first push creates the Spaces row
Member(u)   == role[u] # "none"
CanWrite(u) == role[u] \in {"owner", "contributor"}

(* The device shows the space: a live row of the `space` table.            *)
HasSpace(d) == rows[d][SpaceRow] # NoRow /\ ~ IsDeleted(rows[d][SpaceRow])

Rank(S, op) == Cardinality({p \in S : p.hlc <= op.hlc})

(* The first n of S in HLC order, as outboxBySpace sorts it.               *)
FirstOf(S, n) == {op \in S : Rank(S, op) <= n}

(* The outbox cut into chunks of PushChunk, in HLC order.                  *)
Chunked(S) ==
  [i \in 1 .. (Cardinality(S) + PushChunk - 1) \div PushChunk |->
     FirstOf(S, i * PushChunk) \ FirstOf(S, (i - 1) * PushChunk)]

(* Pull's page: the first PageSize accepted ops after a cursor.            *)
After(from) == {op \in Op : seq[op] > from}
PageAfter(from) ==
  {op \in After(from) :
     Cardinality({p \in After(from) : seq[p] <= seq[op]}) <= PageSize}

(* nextSince: the Seq of the last op of a page.                            *)
NextSince(P) == Newest({seq[op] : op \in P})

Lane   == Device \X {"app", "worker", "stray"}
Request(phase, S, tries) ==
  [phase |-> phase, ops |-> S, at |-> 0, rows |-> NoRows, known |-> {}, tries |-> tries]
NoReq        == Request("none", {}, 0)
NewReq(S)    == Request("sent", S, 1)
Answer(c, a) == Request(a, req[c].ops, 0)

(* The locals of a round (syncSpace, pushChunk, retryParked, drainPull) and *)
(* of a worker event, as they are outside one.                             *)
Idle == [pc |-> "idle",
         all |-> {}, left |-> {}, took |-> {},  \* retryParked: read, to offer, accepted
         chunks |-> <<>>,                       \* still to push
         denied |-> FALSE,                      \* writeDenied
         unq |-> {},                            \* parked, still in the outbox
         since |-> 0, latest |-> 0, page |-> {}]
Asleep == [pc |-> "idle", ops |-> {}, since |-> 0, latest |-> 0, page |-> {}]

Init ==
  /\ seq = [op \in Op |-> 0] /\ lastSeq = 0 /\ srow = NoRows
  /\ role = [u \in User |-> "none"] /\ refused \in SUBSET Refusable
  /\ req = [c \in Lane |-> NoReq]
  /\ rows = [d \in Device |-> NoRows]
  /\ outbox = [d \in Device |-> {}] /\ parked = [d \in Device |-> {}]
  /\ cursor = [d \in Device |-> 0] /\ evicted = [d \in Device |-> FALSE]
  /\ seen = [d \in Device |-> {}]
  /\ offered = [d \in Device |-> FALSE]
  /\ app = [d \in Device |-> Idle] /\ sw = [d \in Device |-> Asleep]
  /\ made = {} /\ granted = {} /\ moves = 0 /\ faults = 0

----------------------------------------------------------------------------
(* The device's storage: one IndexedDB transaction each.                   *)

(* Repo.write: merge the op into its row and queue it, both or neither;    *)
(* an op that wins no cell is dropped.  The clock only moves forward.      *)
(* Users edit a space they see; a writer may also race the purge of a      *)
(* space that was lost (skipKnownEvicted).                                 *)
Edit(d, op) ==
  /\ op \notin made /\ op.by = d
  /\ \A p \in made : p.by = d => p.hlc < op.hlc
  /\ HasSpace(d) \/ evicted[d] \/ op = Creation
  /\ made' = made \cup {op}
  /\ IF Changes(rows[d], op)
     THEN /\ rows' = [rows EXCEPT ![d] = Put(@, op)]
          /\ outbox' = [outbox EXCEPT ![d] = @ \cup {op}]
          /\ seen' = [seen EXCEPT ![d] = @ \cup {op}]
     ELSE UNCHANGED <<rows, outbox, seen>>
  /\ UNCHANGED <<parked, cursor, evicted, server, req, memory,
                 granted, moves, faults>>

(* applyRemoteOps.                                                         *)
Apply(d, P) ==
  /\ rows' = [rows EXCEPT ![d] = MergeOps(@, P)]
  /\ seen' = [seen EXCEPT ![d] = @ \cup P]

(* Mutant: the purge leaves the cursor key behind.                         *)
PurgeKeepingCursor(d) ==
  /\ rows' = [rows EXCEPT ![d] = NoRows]
  /\ outbox' = [outbox EXCEPT ![d] = {}]
  /\ parked' = [parked EXCEPT ![d] = {}]
  /\ seen' = [seen EXCEPT ![d] = {}]
  /\ UNCHANGED cursor

(* purgeSpace; the eviction tombstone survives it.                         *)
Purge(d) ==
  /\ rows' = [rows EXCEPT ![d] = NoRows]
  /\ outbox' = [outbox EXCEPT ![d] = {}]
  /\ cursor' = [cursor EXCEPT ![d] = 0]
  /\ parked' = [parked EXCEPT ![d] = {}]
  /\ seen' = [seen EXCEPT ![d] = {}]

----------------------------------------------------------------------------
(* The server's push handler, on the request in lane c.                    *)

Reply(c, a) ==
  req' = [req EXCEPT ![c] = IF c[2] = "stray" THEN NoReq ELSE Answer(c, a)]

(* The validator, then PushOnce up to its reads: the space and its         *)
(* LastSeq, the membership, the known op ids and the rows.                 *)
Receive(c) ==
  /\ req[c].phase = "sent"
  /\ IF req[c].ops \cap refused # {} THEN Reply(c, "400")
     ELSE IF Exists /\ ~ CanWrite(UserOf[c[1]]) THEN Reply(c, "403")
     ELSE req' = [req EXCEPT ![c].phase = "read", ![c].at = lastSeq,
                             ![c].rows = srow,
                             ![c].known = req[c].ops \cap Landed]
  /\ UNCHANGED <<server, stored, memory, history>>

(* Mutant: op ids are not looked up.                                       *)
AcceptedAgain(r) == r.ops

(* The ops of the request that ApplyAsync accepts.                         *)
Accepted(r) == r.ops \ r.known

(* Mutant: the unique indexes are gone.                                    *)
NoUniqueIndex(r) == FALSE

(* SaveChanges hits a unique index: (SpaceId, Seq), (SpaceId, OpId) or the *)
(* key of the Spaces row, when another push committed after the reads.     *)
IsUniqueViolation(r) == Accepted(r) # {} /\ lastSeq # r.at

Collide(c) ==
  /\ req[c].phase = "read" /\ IsUniqueViolation(req[c])
  /\ IF req[c].tries < PushTries
     THEN req' = [req EXCEPT ![c] = Request("sent", req[c].ops, req[c].tries + 1)]
     ELSE Reply(c, "500")
  /\ UNCHANGED <<server, stored, memory, history>>

(* SaveChanges commits: the accepted ops take the next Seqs in their HLC   *)
(* order, their rows are written as computed from the rows read; the first *)
(* push also creates the space and makes its pusher the owner.             *)
Commit(c) ==
  LET r == req[c]
      new == Accepted(r)
      u == UserOf[c[1]]
  IN /\ r.phase = "read" /\ ~ IsUniqueViolation(r)
     /\ seq' = [op \in Op |-> IF op \in new THEN r.at + Rank(new, op) ELSE seq[op]]
     /\ lastSeq' = IF new = {} THEN lastSeq ELSE r.at + Cardinality(new)
     /\ srow' = [e \in Entity |-> IF \E op \in new : op.entity = e
                                  THEN MergeOps(r.rows, new)[e] ELSE srow[e]]
     /\ role' = IF r.at = 0 THEN [role EXCEPT ![u] = "owner"] ELSE role
     /\ granted' = IF r.at = 0 THEN granted \cup {u} ELSE granted
     /\ Reply(c, "200")
     /\ UNCHANGED <<refused, stored, memory, made, moves, faults>>

Serve(c) == Receive(c) \/ Collide(c) \/ Commit(c)

----------------------------------------------------------------------------
(* The app's round: syncAll and syncSpace, for one space.                  *)

App(d) == <<d, "app">>
Go(d, label) == app' = [app EXCEPT ![d].pc = label]
EndRound(d)  == app' = [app EXCEPT ![d] = Idle]
Send(c, S)   == req' = [req EXCEPT ![c] = NewReq(S)]

(* Mutants: only spaces already on the device are synced; the tombstone of *)
(* a space granted again stays.                                            *)
ToSyncLocalOnly(d) == HasSpace(d) \/ outbox[d] # {}
KeepTombstone(d)   == UNCHANGED evicted

(* syncAll, while no round runs: the spaces shown, the spaces with queued  *)
(* ops and the spaces the server lists.  skipKnownEvicted: a space known   *)
(* to be lost is purged until it is listed again, which clears the         *)
(* tombstone.  A grant or a removal between the listing and this read has  *)
(* the effect of one just after or just before it.                         *)
ToSync(d) == HasSpace(d) \/ outbox[d] # {} \/ Member(UserOf[d])
ClearTombstone(d) == evicted' = [evicted EXCEPT ![d] = FALSE]

StartRound(d) ==
  /\ app[d].pc = "idle" /\ ToSync(d)
  /\ IF evicted[d] /\ ~ Member(UserOf[d])
     THEN Purge(d) /\ UNCHANGED <<evicted, app>>
     ELSE /\ ClearTombstone(d) /\ Go(d, "retry")
          /\ UNCHANGED <<rows, outbox, parked, cursor, seen>>
  /\ UNCHANGED <<server, req, offered, sw, history>>

(* retryParked reads the parked ops once per session ...                   *)
ReadParked(d) ==
  /\ app[d].pc = "retry" /\ ~ offered[d]
  /\ offered' = [offered EXCEPT ![d] = TRUE]
  /\ app' = [app EXCEPT ![d].all = parked[d], ![d].left = parked[d]]
  /\ UNCHANGED <<server, req, stored, sw, history>>

(* ... and pushes them one by one; the model leaves open in which order    *)
(* they were parked.                                                       *)
OfferParked(d) ==
  /\ app[d].pc = "retry" /\ offered[d] /\ req[App(d)] = NoReq
  /\ \E op \in app[d].left : Send(App(d), {op})
  /\ UNCHANGED <<server, stored, memory, history>>

Answered(c) == req[c].phase \in {"200", "400", "403", "500", "lost"}

(* An op the server refuses stays parked; a 403 stops the offering.        *)
ParkedAnswered(d) ==
  LET r == req[App(d)]
  IN /\ app[d].pc = "retry" /\ Answered(App(d))
     /\ app' = [app EXCEPT
          ![d].left = IF r.phase = "403" THEN {} ELSE @ \ r.ops,
          ![d].took = IF r.phase = "200" THEN @ \cup r.ops ELSE @]
     /\ req' = [req EXCEPT ![App(d)] = NoReq]
     /\ UNCHANGED <<server, stored, offered, sw, history>>

(* The parked list is rewritten if the server took any of it; the outbox   *)
(* is read and chunked.                                                    *)
EndRetry(d) ==
  /\ app[d].pc = "retry" /\ offered[d] /\ req[App(d)] = NoReq /\ app[d].left = {}
  /\ parked' = IF app[d].took = {} THEN parked
               ELSE [parked EXCEPT ![d] = app[d].all \ app[d].took]
  /\ app' = [app EXCEPT ![d] = [Idle EXCEPT !.pc = "push", !.chunks = Chunked(outbox[d])]]
  /\ UNCHANGED <<server, req, rows, outbox, cursor, evicted, seen, offered, sw, history>>

PushNext(d) ==
  /\ app[d].pc = "push" /\ req[App(d)] = NoReq /\ app[d].chunks # <<>>
  /\ Send(App(d), Head(app[d].chunks))
  /\ UNCHANGED <<server, stored, memory, history>>

(* Mutant: refused ops leave the outbox for nowhere.                       *)
QuarantineNothing(d, S) == UNCHANGED parked

(* metaPut of the parked list: ops join it before they leave the outbox in *)
(* a transaction of its own.                                               *)
Quarantine(d, S) == parked' = [parked EXCEPT ![d] = @ \cup S]

(* pushChunk's answers: 200 drops the chunk from the outbox; 400 bisects   *)
(* down to the guilty op; 403 leaves the verdict to the pull; anything     *)
(* else ends the round.                                                    *)
PushAnswered(d) ==
  LET a == req[App(d)].phase
      S == Head(app[d].chunks)
      rest == Tail(app[d].chunks)
      half == FirstOf(S, (Cardinality(S) + 1) \div 2)
  IN /\ app[d].pc = "push" /\ Answered(App(d))
     /\ req' = [req EXCEPT ![App(d)] = NoReq]
     /\ \/ /\ a = "200"
           /\ outbox' = [outbox EXCEPT ![d] = @ \ S]
           /\ app' = [app EXCEPT ![d].chunks = rest]
           /\ UNCHANGED parked
        \/ /\ a = "400" /\ Cardinality(S) = 1
           /\ Quarantine(d, S)
           /\ app' = [app EXCEPT ![d].pc = "unqueue", ![d].unq = S, ![d].chunks = rest]
           /\ UNCHANGED outbox
        \/ /\ a = "400" /\ Cardinality(S) > 1
           /\ app' = [app EXCEPT ![d].chunks = <<half, S \ half>> \o rest]
           /\ UNCHANGED <<outbox, parked>>
        \/ /\ a = "403"
           /\ app' = [app EXCEPT ![d].denied = TRUE, ![d].chunks = <<>>]
           /\ UNCHANGED <<outbox, parked>>
        \/ /\ a \in {"500", "lost"}
           /\ EndRound(d)
           /\ UNCHANGED <<outbox, parked>>
     /\ UNCHANGED <<server, rows, cursor, evicted, seen, offered, sw, history>>

(* outboxDelete of what was parked, by pushChunk or by parkReadOnlyOps.    *)
Unqueue(d) ==
  /\ app[d].pc = "unqueue"
  /\ outbox' = [outbox EXCEPT ![d] = @ \ app[d].unq]
  /\ IF app[d].denied THEN EndRound(d)
     ELSE app' = [app EXCEPT ![d].pc = "push", ![d].unq = {}]
  /\ UNCHANGED <<server, req, rows, parked, cursor, evicted, seen, offered, sw, history>>

StartPull(d) ==
  /\ app[d].pc = "push" /\ app[d].chunks = <<>> /\ req[App(d)] = NoReq
  /\ app' = [app EXCEPT ![d].pc = "head", ![d].since = cursor[d]]
  /\ UNCHANGED <<server, req, stored, offered, sw, history>>

(* The server's Pull: the membership and the space row in one statement,   *)
(* the ops in a later one.  A 403 is an eviction (evictSpace's tombstone). *)
PullHead(d) ==
  /\ app[d].pc = "head"
  /\ IF Member(UserOf[d])
     THEN /\ app' = [app EXCEPT ![d].pc = "ops", ![d].latest = lastSeq]
          /\ UNCHANGED evicted
     ELSE /\ evicted' = [evicted EXCEPT ![d] = TRUE]
          /\ Go(d, "purge")
  /\ UNCHANGED <<server, req, rows, outbox, parked, cursor, seen, offered, sw, history>>

PullOps(d) ==
  /\ app[d].pc = "ops"
  /\ app' = [app EXCEPT
       ![d].page = PageAfter(app[d].since),
       ![d].pc = IF PageAfter(app[d].since) = {} THEN "drained" ELSE "apply"]
  /\ UNCHANGED <<server, req, stored, offered, sw, history>>

PullApply(d) ==
  /\ app[d].pc = "apply"
  /\ Apply(d, app[d].page)
  /\ Go(d, "stamp")
  /\ UNCHANGED <<server, req, outbox, parked, cursor, evicted, offered, sw, history>>

(* Mutant: a reader's queued ops stay in the outbox.                       *)
AfterPullNoParking(d) == EndRound(d)

AfterPull(d) == IF app[d].denied THEN Go(d, "park") ELSE EndRound(d)

(* Mutants: the cursor goes to the head of the space (#305), or beyond it. *)
CursorAtHead(d)   == app[d].latest
CursorPastHead(d) == app[d].latest + 1

(* Where drainPull puts the cursor after a page: nextSince.                *)
NextCursor(d) == NextSince(app[d].page)

PullStamp(d) ==
  /\ app[d].pc = "stamp"
  /\ cursor' = [cursor EXCEPT ![d] = NextCursor(d)]
  /\ IF NextCursor(d) >= app[d].latest THEN AfterPull(d)
     ELSE app' = [app EXCEPT ![d].pc = "head", ![d].since = NextCursor(d), ![d].page = {}]
  /\ UNCHANGED <<server, req, rows, outbox, parked, evicted, seen, offered, sw, history>>

(* An empty page: the cursor moves up to the head the answer reported.     *)
Drained(d) ==
  /\ app[d].pc = "drained"
  /\ cursor' = IF app[d].latest > app[d].since
               THEN [cursor EXCEPT ![d] = app[d].latest] ELSE cursor
  /\ AfterPull(d)
  /\ UNCHANGED <<server, req, rows, outbox, parked, evicted, seen, offered, sw, history>>

(* parkReadOnlyOps: a reader's queued ops are kept for a role upgrade.     *)
ParkReadOnly(d) ==
  /\ app[d].pc = "park"
  /\ Quarantine(d, outbox[d])
  /\ app' = [app EXCEPT ![d].pc = "unqueue", ![d].unq = outbox[d]]
  /\ UNCHANGED <<server, req, rows, outbox, cursor, evicted, seen, offered, sw, history>>

EvictPurge(d) ==
  /\ app[d].pc = "purge"
  /\ Purge(d) /\ EndRound(d)
  /\ UNCHANGED <<server, req, evicted, offered, sw, history>>

AppStep(d) ==
  \/ StartRound(d) \/ ReadParked(d) \/ OfferParked(d) \/ ParkedAnswered(d)
  \/ EndRetry(d) \/ PushNext(d) \/ PushAnswered(d) \/ Unqueue(d)
  \/ StartPull(d) \/ PullHead(d) \/ PullOps(d) \/ PullApply(d)
  \/ PullStamp(d) \/ Drained(d) \/ ParkReadOnly(d) \/ EvictPurge(d)

----------------------------------------------------------------------------
(* The service worker: backgroundPull on a web push, flushOutbox on a      *)
(* Background Sync event.  It shares the database with the app and takes   *)
(* no lock.  An error ends the event.                                      *)

Worker(d) == <<d, "worker">>
Rest(d)   == sw' = [sw EXCEPT ![d] = Asleep]

WakePull(d) ==
  /\ d \in Pullers /\ sw[d].pc = "idle"
  /\ sw' = [sw EXCEPT ![d].pc = "head", ![d].since = cursor[d]]
  /\ UNCHANGED <<server, req, stored, offered, app, history>>

WorkerHead(d) ==
  /\ sw[d].pc = "head"
  /\ IF Member(UserOf[d])
     THEN sw' = [sw EXCEPT ![d].pc = "ops", ![d].latest = lastSeq]
     ELSE Rest(d)
  /\ UNCHANGED <<server, req, stored, offered, app, history>>

WorkerOps(d) ==
  /\ sw[d].pc = "ops"
  /\ sw' = [sw EXCEPT ![d].pc = "apply", ![d].page = PageAfter(sw[d].since)]
  /\ UNCHANGED <<server, req, stored, offered, app, history>>

WorkerApply(d) ==
  /\ sw[d].pc = "apply"
  /\ Apply(d, sw[d].page)
  /\ sw' = [sw EXCEPT ![d].pc = "stamp"]
  /\ UNCHANGED <<server, req, outbox, parked, cursor, evicted, offered, app, history>>

(* Mutant: the head as it is by now.                                       *)
WorkerCursorNow(d) == lastSeq

(* One page, and the cursor goes to the head the server reported.          *)
WorkerCursor(d) == sw[d].latest

WorkerStamp(d) ==
  /\ sw[d].pc = "stamp"
  /\ cursor' = IF WorkerCursor(d) # sw[d].since
               THEN [cursor EXCEPT ![d] = WorkerCursor(d)] ELSE cursor
  /\ Rest(d)
  /\ UNCHANGED <<server, req, rows, outbox, parked, evicted, seen, offered, app, history>>

WakeFlush(d) ==
  /\ d \in Flushers /\ sw[d].pc = "idle" /\ outbox[d] # {}
  /\ sw' = [sw EXCEPT ![d].pc = "flush", ![d].ops = outbox[d]]
  /\ UNCHANGED <<server, req, stored, offered, app, history>>

(* A tombstoned space's ops are dropped, others are for sending ...        *)
FlushCheck(d) ==
  /\ sw[d].pc = "flush"
  /\ IF evicted[d]
     THEN outbox' = [outbox EXCEPT ![d] = @ \ sw[d].ops] /\ Rest(d)
     ELSE sw' = [sw EXCEPT ![d].pc = "send"] /\ UNCHANGED outbox
  /\ UNCHANGED <<server, req, rows, parked, cursor, evicted, seen, offered, app, history>>

(* ... and go out in one request, tombstoned meanwhile or not.             *)
FlushSend(d) ==
  /\ sw[d].pc = "send"
  /\ Send(Worker(d), sw[d].ops)
  /\ sw' = [sw EXCEPT ![d].pc = "await"]
  /\ UNCHANGED <<server, stored, offered, app, history>>

(* Mutant: the outbox is emptied whatever the answer.                      *)
FlushedAnyway(d) == TRUE

Flushed(d) == req[Worker(d)].phase = "200"

FlushAnswered(d) ==
  /\ sw[d].pc = "await" /\ Answered(Worker(d))
  /\ outbox' = IF Flushed(d)
               THEN [outbox EXCEPT ![d] = @ \ sw[d].ops] ELSE outbox
  /\ req' = [req EXCEPT ![Worker(d)] = NoReq]
  /\ Rest(d)
  /\ UNCHANGED <<server, rows, parked, cursor, evicted, seen, offered, app, history>>

WorkerStep(d) ==
  \/ WakePull(d) \/ WorkerHead(d) \/ WorkerOps(d) \/ WorkerApply(d)
  \/ WorkerStamp(d) \/ WakeFlush(d) \/ FlushCheck(d) \/ FlushSend(d)
  \/ FlushAnswered(d)

----------------------------------------------------------------------------
(* Membership moves, the user's departure, and failures.                   *)

Move == moves < MaxMoves /\ moves' = moves + 1

(* An accepted invitation.                                                 *)
Grant(u) ==
  /\ Move /\ Exists /\ role[u] = "none"
  /\ \E r \in {"contributor", "reader"} : role' = [role EXCEPT ![u] = r]
  /\ granted' = granted \cup {u}
  /\ UNCHANGED <<seq, lastSeq, srow, refused, req, stored, memory, made, faults>>

(* The owner changes a member's role.                                      *)
Rerole(u) ==
  /\ Move /\ role[u] \in {"contributor", "reader"}
  /\ role' = [role EXCEPT ![u] = IF @ = "reader" THEN "contributor" ELSE "reader"]
  /\ UNCHANGED <<seq, lastSeq, srow, refused, req, stored, memory, made, granted, faults>>

(* The owner removes a member.                                             *)
Revoke(u) ==
  /\ Move /\ role[u] \in {"contributor", "reader"}
  /\ role' = [role EXCEPT ![u] = "none"]
  /\ UNCHANGED <<seq, lastSeq, srow, refused, req, stored, memory, made, granted, faults>>

(* leaveSpace: the server drops the membership, then the device purges,    *)
(* without asking whether a round is running.                              *)
Leave(d) ==
  /\ Move /\ role[UserOf[d]] \in {"contributor", "reader"} /\ HasSpace(d)
  /\ LeaveMidRound \/ app[d].pc = "idle"
  /\ role' = [role EXCEPT ![UserOf[d]] = "none"]
  /\ Purge(d)
  /\ UNCHANGED <<seq, lastSeq, srow, refused, req, evicted, memory, made, granted, faults>>

(* The validator is corrected.                                             *)
FixServer ==
  /\ refused # {} /\ refused' = {}
  /\ UNCHANGED <<seq, lastSeq, srow, role, req, stored, memory, history>>

Fault == faults < MaxFaults /\ faults' = faults + 1

(* What is left of a request whose caller is gone: nothing, or a stray     *)
(* that the server may still serve.                                        *)
Abandon(c, r) ==
  LET stray == <<c[1], "stray">>
  IN \/ req' = [req EXCEPT ![c] = r]
     \/ /\ req[c].phase \in {"sent", "read"} /\ req[stray] = NoReq
        /\ req' = [req EXCEPT ![c] = r, ![stray] = req[c]]

(* The caller sees a network error; the request may be served all the same. *)
LosePush(c) ==
  /\ Fault /\ c[2] # "stray" /\ req[c].phase \in {"sent", "read"}
  /\ Abandon(c, Answer(c, "lost"))
  /\ UNCHANGED <<server, stored, memory, made, granted, moves>>

LosePull(d) ==
  /\ Fault /\ app[d].pc \in {"head", "ops"}
  /\ EndRound(d)
  /\ UNCHANGED <<server, req, stored, offered, sw, made, granted, moves>>

(* The app is closed, or the browser kills the worker.                     *)
CloseApp(d) ==
  /\ Fault /\ (app[d].pc # "idle" \/ offered[d])
  /\ EndRound(d) /\ offered' = [offered EXCEPT ![d] = FALSE]
  /\ Abandon(App(d), NoReq)
  /\ UNCHANGED <<server, stored, sw, made, granted, moves>>

KillWorker(d) ==
  /\ Fault /\ sw[d].pc # "idle"
  /\ Rest(d)
  /\ Abandon(Worker(d), NoReq)
  /\ UNCHANGED <<server, stored, offered, app, made, granted, moves>>

Environment ==
  \/ \E u \in User : Grant(u) \/ Rerole(u) \/ Revoke(u)
  \/ \E d \in Device : Leave(d) \/ LosePull(d) \/ CloseApp(d) \/ KillWorker(d)
  \/ \E c \in Lane : LosePush(c)
  \/ FixServer

Next ==
  \/ \E d \in Device, op \in Op : Edit(d, op)
  \/ \E d \in Device : AppStep(d) \/ WorkerStep(d)
  \/ \E c \in Lane : Serve(c)
  \/ Environment

Spec == Init /\ [][Next]_vars

(* Fairness: a round that can take its next step takes it (the 10 s poll,  *)
(* the 2 s nudge and the wake-ups start rounds; awaits settle), and the    *)
(* server serves what it received.  Nothing makes a worker, a user or a    *)
(* failure act.                                                            *)
FairSpec ==
  /\ Spec
  /\ \A d \in Device : WF_vars(AppStep(d))
  /\ \A c \in Lane : WF_vars(Serve(c))

----------------------------------------------------------------------------
(* Properties.                                                             *)

Phases == {"none", "sent", "read", "200", "400", "403", "500", "lost"}
Requests == [phase : Phases, ops : SUBSET Op, at : Nat, rows : Rows,
             known : SUBSET Op, tries : 0 .. PushTries]
AppPcs == {"idle", "retry", "push", "unqueue", "head", "ops", "apply", "stamp",
           "drained", "park", "purge"}
Round == [pc : AppPcs, all : SUBSET Op, left : SUBSET Op, took : SUBSET Op,
          chunks : Seq(SUBSET Op), denied : BOOLEAN, unq : SUBSET Op,
          since : Nat, latest : Nat, page : SUBSET Op]
SwPcs == {"idle", "head", "ops", "apply", "stamp", "flush", "send", "await"}
WorkerEvent == [pc : SwPcs, ops : SUBSET Op, since : Nat, latest : Nat, page : SUBSET Op]

(* Every variable has its type, and no cursor is ahead of the log.         *)
TypeOK ==
  /\ seq \in [Op -> 0 .. lastSeq] /\ lastSeq \in Nat /\ srow \in Rows
  /\ role \in [User -> {"none", "owner", "contributor", "reader"}]
  /\ refused \in SUBSET Refusable
  /\ req \in [Lane -> Requests]
  /\ rows \in [Device -> Rows]
  /\ outbox \in [Device -> SUBSET Op] /\ parked \in [Device -> SUBSET Op]
  /\ cursor \in [Device -> 0 .. lastSeq] /\ evicted \in [Device -> BOOLEAN]
  /\ seen \in [Device -> SUBSET Op]
  /\ offered \in [Device -> BOOLEAN]
  /\ app \in [Device -> Round] /\ sw \in [Device -> WorkerEvent]
  /\ made \in SUBSET Op /\ granted \in SUBSET User
  /\ moves \in 0 .. MaxMoves /\ faults \in 0 .. MaxFaults

(* The server's materialised rows are what its log adds up to, whichever   *)
(* pushes raced (SyncWriter reads a row, merges and writes it back whole). *)
ServerIsJoin == IsJoin(Landed, srow)

Appends ==
  \A op \in Op : seq'[op] = seq[op] \/ (seq[op] = 0 /\ seq'[op] > lastSeq)

(* An op enters the log once, behind everything already in it: a retry, a  *)
(* stray request or the worker's copy of a push never lands it again, and  *)
(* nothing is inserted before a cursor some device may already hold.       *)
LogAppendOnly == [][Appends]_vars

(* Whatever a device shows is in the log, or still queued or parked on the *)
(* device that shows it ("nothing is ever lost", swSync.ts).               *)
NothingLost == \A d \in Device : seen[d] \subseteq outbox[d] \cup parked[d] \cup Landed

(* No op at or before a device's cursor could still change its rows: the   *)
(* pull will never ask for it again (#305 bug 4 skipped ops forever).      *)
CursorSound ==
  \A d \in Device, op \in Op :
    0 < seq[op] /\ seq[op] <= cursor[d] => ~ Changes(rows[d], op)

(* A device with nothing left to push and nothing left to pull shows the   *)
(* server's rows, whatever order its own and the others' ops reached it.   *)
Converged ==
  \A d \in Device :
    cursor[d] = lastSeq /\ outbox[d] = {} /\ parked[d] = {} => rows[d] = srow

(* While a space is tombstoned no round of the app pushes for it (#306):   *)
(* neither what was queued or parked when the eviction was learnt nor what *)
(* a writer queued behind the purge.  The worker is not held to it: it     *)
(* reads the tombstone and pushes in two awaits (swSync.ts:137 and 142).   *)
QuietWhenEvicted ==
  [][\A d \in Device :
       evicted[d] => ~ (req[App(d)] = NoReq /\ req'[App(d)].phase = "sent")]_vars

(* The queue of every device runs dry: each op lands, is parked or goes    *)
(* with its space; no refusal, role or race makes the push retry forever.  *)
OutboxDrains == \A d \in Device : <>[](outbox[d] = {})

(* In the end a member's device shows everything that landed, and a device *)
(* of someone who is not a member shows nothing.                           *)
EventuallyConsistent ==
  \A d \in Device : <>[](
    IF Member(UserOf[d]) THEN \A op \in Landed : ~ Changes(rows[d], op)
    ELSE Exists => rows[d] = NoRows)

Ledger == INSTANCE SharedLedger WITH pos <- seq, holds <- seen, upto <- cursor, view <- rows
(* The whole protocol implements an append-only ledger with one position   *)
(* per device.                                                             *)
ImplementsLedger == Ledger!Spec
=============================================================================
