------------------------------- MODULE Ingest -------------------------------
(***************************************************************************)
(* How the transactions of one bank connection reach the account's feed:   *)
(* the control plane runs a fetch as a job and stages what the party       *)
(* reports (Staging/ResultService.cs), the relay reads the page, files it  *)
(* as ops, acknowledges it and settles the mirror of the party's pending   *)
(* rows (ConnectorSyncService.cs, ConnectorIngest.cs).                     *)
(*                                                                         *)
(* A sync waits for its job; a job that outruns the wait is collected      *)
(* later, by any device or by the scheduler.  Calls of several devices and *)
(* of the scheduler interleave at every save.  A row's content is the      *)
(* number of times the party has worded it anew.                           *)
(***************************************************************************)
EXTENDS Integers, FiniteSets

CONSTANTS
  Held,        \* references of rows the party has not booked ("pending:...")
  Booked,      \* references of booked rows
  Job,         \* fetch jobs of the session
  Call,        \* sync and collect requests at the relay
  Faults,      \* bound: what may go wrong
  MaxContent,  \* bound: contents of a booked row
  MaxFaults    \* bound: how often something goes wrong

ASSUME IngestAssumption ==
  /\ Held \cap Booked = {}
  /\ Faults \subseteq {"crash", "outrun", "partial", "failed", "unacked"}
  /\ MaxContent \in Nat \ {0} /\ MaxFaults \in Nat

Ref == Held \cup Booked

VARIABLES
  party,    \* what the party reports: 0 before, the content while, Gone after
  jobs,     \* the state of each fetch job
  staged,   \* ResultRow: at most one row per reference
  calls,    \* the relay's requests
  filed,    \* the ops conn:<row>:<content> the feed's log holds
  feed,     \* the feed's transaction rows
  tracked,  \* ConnectorPendingTx
  opinion,  \* txMeta: who last said what a booked row is
  faults    \* what has gone wrong so far

vars == <<party, jobs, staged, calls, filed, feed, tracked, opinion, faults>>

Gone == MaxContent + 1
Reported == {r \in Ref : party[r] \in 1 .. MaxContent}

Wrong(what) == what \in Faults /\ faults < MaxFaults /\ faults' = faults + 1

(* A request: the job it is about, whether it waits for it (a sync) or     *)
(* comes for it later (a collect), the page it read, whether that page was *)
(* the whole of what the party holds, and whether it crossed another: one  *)
(* that filed a page since, or whose job took over the rows it waits for.  *)
(* A request that settles keeps what was remembered when it began to.      *)
Idle == [at |-> "idle"]
Asking == [at |-> "asking"]
Began(j, how) == [at |-> "waiting", how |-> how, job |-> j, page |-> {},
                  whole |-> FALSE, crossed |-> FALSE, was |-> {}]

Busy(c) == calls[c].at \notin {"idle", "asking"}
Finished(j) == jobs[j] \in {"whole", "partial"}
PageOf(j) == {s \in staged : s.job = j}

Put(c, at) == [calls EXCEPT ![c].at = at]
Crossing(C) == [c \in Call |-> IF c \in C THEN [calls[c] EXCEPT !.crossed = TRUE] ELSE calls[c]]

TypeOK ==
  /\ party \in [Ref -> 0 .. Gone]
  /\ jobs \in [Job -> {"none", "running", "whole", "partial"}]
  /\ \A s \in staged : s.ref \in Ref /\ s.val \in 1 .. MaxContent /\ s.job \in Job
  /\ \A s, t \in staged : s.ref = t.ref => s = t
  /\ \A c \in Call : Busy(c) =>
       /\ calls[c].at \in {"waiting", "read", "filed", "predicted", "acked", "settled"}
       /\ calls[c].how \in {"sync", "collect"} /\ calls[c].job \in Job
  /\ filed \subseteq Ref \X (1 .. MaxContent)
  /\ \A r \in Ref : feed[r].val \in 0 .. MaxContent /\ feed[r].dead \in BOOLEAN
  /\ \A r \in Ref : feed[r].val # 0 <=> \E v \in 1 .. MaxContent : <<r, v>> \in filed
  /\ tracked \subseteq Held
  /\ opinion \in [Booked -> {"nobody", "predictor", "person"}]
  /\ faults \in 0 .. MaxFaults

Init ==
  /\ party = [r \in Ref |-> 0]
  /\ jobs = [j \in Job |-> "none"]
  /\ staged = {}
  /\ calls = [c \in Call |-> Idle]
  /\ filed = {}
  /\ feed = [r \in Ref |-> [val |-> 0, dead |-> FALSE]]
  /\ tracked = {}
  /\ opinion = [b \in Booked |-> "nobody"]
  /\ faults = 0

----------------------------------------------------------------------------
(* The party: a row appears, a booked one is worded anew, one it has not   *)
(* booked disappears (booked under another reference, or withdrawn).       *)
Appears(r) ==
  /\ party[r] = 0
  /\ party' = [party EXCEPT ![r] = 1]
  /\ UNCHANGED <<jobs, staged, calls, filed, feed, tracked, opinion, faults>>

Reworded(b) ==
  /\ party[b] \in 1 .. MaxContent - 1
  /\ party' = [party EXCEPT ![b] = @ + 1]
  /\ UNCHANGED <<jobs, staged, calls, filed, feed, tracked, opinion, faults>>

Disappears(p) ==
  /\ party[p] = 1
  /\ party' = [party EXCEPT ![p] = Gone]
  /\ UNCHANGED <<jobs, staged, calls, filed, feed, tracked, opinion, faults>>

----------------------------------------------------------------------------
(* The control plane.                                                      *)

(* StageAsync: a row the session already has moves, with its new content,  *)
(* to the pass that reports it again.                                      *)
(* Mutant: every pass stages rows of its own.                              *)
RestagedApart(j, R) == staged \cup {[ref |-> r, val |-> party[r], job |-> j] : r \in R}

Restaged(j, R) ==
  {s \in staged : s.ref \notin R} \cup {[ref |-> r, val |-> party[r], job |-> j] : r \in R}

(* The job ran: it staged all the party reports, or the adapter capped     *)
(* itself and staged part of it.                                           *)
Runs(j) ==
  /\ jobs[j] = "running"
  /\ \/ /\ staged' = Restaged(j, Reported)
        /\ jobs' = [jobs EXCEPT ![j] = "whole"]
        /\ UNCHANGED faults
     \/ /\ Wrong("partial")
        /\ \E R \in SUBSET Reported : staged' = Restaged(j, R)
        /\ jobs' = [jobs EXCEPT ![j] = "partial"]
  /\ calls' = Crossing({c \in Call : calls[c].at = "waiting" /\ calls[c].job # j})
  /\ UNCHANGED <<party, filed, feed, tracked, opinion>>

(* The job ended without a page: so does the sync that waits for it.       *)
Fails(j) ==
  /\ jobs[j] = "running"
  /\ Wrong("failed")
  /\ jobs' = [jobs EXCEPT ![j] = "none"]
  /\ calls' = [c \in Call |-> IF Busy(c) /\ calls[c].job = j THEN Idle ELSE calls[c]]
  /\ UNCHANGED <<party, staged, filed, feed, tracked, opinion>>

(* AckAsync: the rows that still stand on the acknowledged page's cursor.  *)
(* Mutant: everything the resource has staged.                             *)
AckedAll(j) == {}

Acked(j) == staged \ PageOf(j)

(* Retention: unacknowledged rows die anyway, though never those a running *)
(* sync waits for: staging dates its rows anew.                            *)
Sweeps(j) ==
  /\ Finished(j) /\ PageOf(j) # {}
  /\ \A c \in Call : calls[c].at = "waiting" => calls[c].job # j
  /\ Wrong("unacked")
  /\ staged' = staged \ PageOf(j)
  /\ UNCHANGED <<party, jobs, calls, filed, feed, tracked, opinion>>

----------------------------------------------------------------------------
(* The relay.                                                              *)

(* A job slot is of use again when nothing of its job is left to collect.  *)
Spent(j) ==
  \/ jobs[j] = "none"
  \/ Finished(j) /\ PageOf(j) = {} /\ \A c \in Call : Busy(c) => calls[c].job # j

(* SyncAsync asks for the transactions.  While a fetch of this session     *)
(* runs, the caller is handed that job to collect instead; else a job of   *)
(* its own is queued, one more if somebody asked in the meantime.          *)
Asks(c) ==
  /\ calls[c] = Idle
  /\ \A j \in Job : jobs[j] # "running"
  /\ \E j \in Job : Spent(j)
  /\ calls' = [calls EXCEPT ![c] = Asking]
  /\ UNCHANGED <<party, jobs, staged, filed, feed, tracked, opinion, faults>>

Enqueues(c) ==
  /\ calls[c] = Asking
  /\ \E j \in Job :
       /\ Spent(j)
       /\ jobs' = [jobs EXCEPT ![j] = "running"]
       /\ calls' = [calls EXCEPT ![c] = Began(j, "sync")]
  /\ UNCHANGED <<party, staged, filed, feed, tracked, opinion, faults>>

(* The wait is over before the job is: 202, and the app or the scheduler   *)
(* follows the job.                                                        *)
Outruns(c) ==
  /\ Busy(c) /\ calls[c].at = "waiting" /\ jobs[calls[c].job] = "running"
  /\ Wrong("outrun")
  /\ calls' = [calls EXCEPT ![c] = Idle]
  /\ UNCHANGED <<party, jobs, staged, filed, feed, tracked, opinion>>

Holding(call) == [call EXCEPT !.at = "read", !.page = PageOf(call.job),
                              !.whole = (jobs[call.job] = "whole")]

(* The job is done in time: the answer carries its page.                   *)
Reads(c) ==
  /\ Busy(c) /\ calls[c].at = "waiting" /\ Finished(calls[c].job)
  /\ calls' = [calls EXCEPT ![c] = Holding(@)]
  /\ UNCHANGED <<party, jobs, staged, filed, feed, tracked, opinion, faults>>

(* CollectAsync: the page of a job that was followed to its end.           *)
Collects(c, j) ==
  /\ calls[c] = Idle /\ Finished(j) /\ PageOf(j) # {}
  /\ calls' = [calls EXCEPT ![c] = Holding(Began(j, "collect"))]
  /\ UNCHANGED <<party, jobs, staged, filed, feed, tracked, opinion, faults>>

(* ApplyAsync: an op whose id the log holds is a repeat, whatever happened *)
(* to its row since.                                                       *)
(* Mutants: op ids drawn anew for every pass; op ids of the row alone.     *)
FreshOpsAlways(page) == page

FreshOpsByRow(page) == {s \in page : \A v \in 1 .. MaxContent : <<s.ref, v>> \notin filed}

FreshOps(page) == {s \in page : <<s.ref, s.val>> \notin filed}

(* The fields of an op take the stamp of this moment: they win against     *)
(* what the row has, a tombstone included.                                 *)
FeedAfter(S) ==
  [r \in Ref |-> IF \E s \in S : s.ref = r
                 THEN [val |-> (CHOOSE s \in S : s.ref = r).val, dead |-> FALSE]
                 ELSE feed[r]]

(* IngestAsync, first save: the page's rows into the feed.                 *)
Files(c) ==
  /\ Busy(c) /\ calls[c].at = "read"
  /\ LET S == FreshOps(calls[c].page)
     IN  /\ feed' = FeedAfter(S)
         /\ filed' = filed \cup {<<s.ref, s.val>> : s \in S}
  /\ calls' = [Crossing({d \in Call \ {c} : Busy(d)}) EXCEPT ![c].at = "filed"]
  /\ UNCHANGED <<party, jobs, staged, tracked, opinion, faults>>

(* OverlayOp: the prediction carries the lowest of all stamps, and one op  *)
(* id per row, so that it only ever fills what nobody has said.            *)
(* Mutant: the prediction carries the stamp of this moment.                *)
OverlaidNow(b) == "predictor"

Overlaid(b) == IF opinion[b] = "nobody" THEN "predictor" ELSE opinion[b]

(* IngestAsync, second save: an opinion about every booked row, in the     *)
(* space the account is attached to.                                       *)
Predicts(c) ==
  /\ Busy(c) /\ calls[c].at = "filed"
  /\ opinion' = [b \in Booked |-> IF \E s \in calls[c].page : s.ref = b
                                  THEN Overlaid(b) ELSE opinion[b]]
  /\ calls' = Put(c, "predicted")
  /\ UNCHANGED <<party, jobs, staged, filed, feed, tracked, faults>>

(* The page is acknowledged; an acknowledgement that fails is logged, and  *)
(* the rows are served again.                                              *)
Acknowledges(c) ==
  /\ Busy(c) /\ calls[c].at = "predicted"
  /\ \/ staged' = Acked(calls[c].job) /\ UNCHANGED faults
     \/ Wrong("unacked") /\ UNCHANGED staged
  /\ calls' = Put(c, "acked")
  /\ UNCHANGED <<party, jobs, filed, feed, tracked, opinion>>

(* A page's cursor is the one its last row stands on: every page with rows *)
(* has one.                                                                *)
HasCursor(page) == page # {}

(* When the pending rows are settled: after a sync's page, when it is the  *)
(* whole; after a collected page, when it brought rows and no cursor.  The *)
(* code settles a collected page before it acknowledges it; that none with *)
(* rows is settled makes the order of the two of no consequence.           *)
(* Mutant: a part of what the party holds settles too.                     *)
SettlesAnyway(call) == call.how = "sync"

Settles(call) ==
  IF call.how = "sync" THEN call.whole
  ELSE call.page # {} /\ ~ HasCursor(call.page)

(* SettlePendingAsync, first save: what was remembered and is not on the   *)
(* page is tombstoned.                                                     *)
(* Mutant: what is gone is forgotten, and its row stays.                   *)
SettledForgetting(seen) == feed

Settled(seen) ==
  [r \in Ref |-> IF r \in tracked \ seen THEN [feed[r] EXCEPT !.dead = TRUE] ELSE feed[r]]

Pending(call) == {s.ref : s \in call.page} \cap Held

Finishes(c) ==
  /\ Busy(c) /\ calls[c].at = "acked"
  /\ IF Settles(calls[c])
     THEN /\ feed' = Settled(Pending(calls[c]))
          /\ calls' = [calls EXCEPT ![c].at = "settled", ![c].was = tracked]
     ELSE UNCHANGED feed /\ calls' = [calls EXCEPT ![c] = Idle]
  /\ UNCHANGED <<party, jobs, staged, filed, tracked, opinion, faults>>

(* Second save: those are forgotten, what is new on the page is            *)
(* remembered.  A row somebody else forgot or remembered since fails it.   *)
Remembers(c) ==
  /\ Busy(c) /\ calls[c].at = "settled"
  /\ LET gone == calls[c].was \ Pending(calls[c])
         new == Pending(calls[c]) \ calls[c].was
     IN  tracked' = IF gone \subseteq tracked /\ new \cap tracked = {}
                    THEN (tracked \ gone) \cup new ELSE tracked
  /\ calls' = [calls EXCEPT ![c] = Idle]
  /\ UNCHANGED <<party, jobs, staged, filed, feed, opinion, faults>>

(* A request is cancelled, its connection breaks, a save or a call to the  *)
(* control plane throws, or the relay restarts.                            *)
Crashes(c) ==
  /\ calls[c] # Idle
  /\ Wrong("crash")
  /\ calls' = [calls EXCEPT ![c] = Idle]
  /\ UNCHANGED <<party, jobs, staged, filed, feed, tracked, opinion>>

----------------------------------------------------------------------------
(* A person, through the sync of a device: decides what a row is, or       *)
(* deletes a booked row from the feed.                                     *)
Decides(b) ==
  /\ feed[b].val # 0 /\ opinion[b] # "person"
  /\ opinion' = [opinion EXCEPT ![b] = "person"]
  /\ UNCHANGED <<party, jobs, staged, calls, filed, feed, tracked, faults>>

Deletes(b) ==
  /\ feed[b].val # 0 /\ ~ feed[b].dead
  /\ feed' = [feed EXCEPT ![b].dead = TRUE]
  /\ UNCHANGED <<party, jobs, staged, calls, filed, tracked, opinion, faults>>

Next ==
  \/ \E r \in Ref : Appears(r)
  \/ \E b \in Booked : Reworded(b) \/ Decides(b) \/ Deletes(b)
  \/ \E p \in Held : Disappears(p)
  \/ \E j \in Job : Runs(j) \/ Fails(j) \/ Sweeps(j)
  \/ \E c \in Call : Asks(c) \/ Enqueues(c) \/ Outruns(c) \/ Reads(c) \/ Files(c) \/ Predicts(c)
                     \/ Acknowledges(c) \/ Finishes(c) \/ Remembers(c) \/ Crashes(c)
  \/ \E c \in Call, j \in Job : Collects(c, j)

Spec == Init /\ [][Next]_vars

(* The scheduler and the people of an account keep syncing, a job that was *)
(* taken ends, and a request that nothing stops goes on.                   *)
Works(c) == Enqueues(c) \/ Reads(c) \/ Files(c) \/ Predicts(c) \/ Acknowledges(c)
            \/ Finishes(c) \/ Remembers(c)

Fairness ==
  /\ \A j \in Job : WF_vars(Runs(j))
  /\ \A c \in Call : WF_vars(Asks(c)) /\ WF_vars(Works(c))

FairSpec == Spec /\ Fairness

----------------------------------------------------------------------------
Alive(r) == feed[r].val # 0 /\ ~ feed[r].dead
Steps(c, from, to) == Busy(c) /\ calls[c].at = from /\ calls'[c].at = to

(* A staged row is acknowledged away only once its very content is in the  *)
(* feed: a later pass may have moved the row to a page of its own between  *)
(* the reading of a page and its acknowledgement.                          *)
AckedIsFiled ==
  [][\A c \in Call : Steps(c, "predicted", "acked") =>
       \A s \in staged \ staged' : <<s.ref, s.val>> \in filed]_vars

(* A row never goes back to words the party has since replaced, however    *)
(* late a job's page is collected, unless two requests crossed.            *)
NeverBackwards ==
  [][\A c \in Call : Steps(c, "read", "filed") /\ ~ calls[c].crossed =>
       \A b \in Booked : feed'[b].val >= feed[b].val]_vars

(* Only a row that is gone at the party is tombstoned by the settlement,   *)
(* unless two requests crossed.                                            *)
OnlyGoneDies ==
  [][\A p \in Held, c \in Call :
       Steps(c, "acked", "settled") /\ ~ calls[c].crossed /\ Alive(p) /\ feed'[p].dead
         => party[p] = Gone]_vars

(* What a person said stands: no sync overrules the choice for a row, and  *)
(* a row that was deleted comes back only with words never seen before.    *)
PersonStands ==
  [][/\ \A b \in Booked : opinion[b] = "person" => opinion'[b] = "person"
     /\ \A b \in Booked : feed[b].dead /\ ~ feed'[b].dead
          => <<b, feed'[b].val>> \notin filed]_vars

(* Whatever the party keeps reporting ends in the feed's log, through      *)
(* crashes, partial pages, lost acknowledgements and jobs nobody collects. *)
EveryRowLands ==
  \A r \in Ref, v \in 1 .. MaxContent :
    party[r] = v ~> (<<r, v>> \in filed \/ party[r] # v)

(* A pending row the relay remembers, once gone at the party, goes from    *)
(* the feed.                                                               *)
GoneGoes ==
  \A p \in Held : (p \in tracked /\ party[p] = Gone) ~> ~ Alive(p)

(* A mirrored row is remembered so that it is tombstoned when the party    *)
(* stops reporting it (ConnectorPendingTx.cs:5-9); until then some request *)
(* still holds it.                                                         *)
MirrorRemembered ==
  \A p \in Held : Alive(p) =>
    \/ p \in tracked
    \/ \E c \in Call : Busy(c) /\ \E s \in calls[c].page : s.ref = p
=============================================================================
