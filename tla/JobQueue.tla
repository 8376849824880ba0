------------------------------ MODULE JobQueue ------------------------------
(***************************************************************************)
(* The job queue of the connector platform: jobs (logins and fetches at    *)
(* banks and shops) that agents lease, run and report, the questions they  *)
(* put to the user, and the sweeper that ends what nobody ends.            *)
(*                                                                         *)
(*   Jobs/EfLeasedJobQueue.cs    enqueue, lease, renew, progress, outcome  *)
(*   Challenges/ChallengeService.cs, ExpiryService.cs   questions, sweep   *)
(*   Jobs/JobOutcomeService.cs, the agent and login endpoints: who calls   *)
(*   Connector.Kit.Agent/Execution/JobRunner.cs: what a run does           *)
(*                                                                         *)
(* A job is one database row.  Every handler reads it first and decides.   *)
(* Some then write with a conditional UPDATE, others save the columns they *)
(* changed, with no version check.  Overlap names the handlers that others *)
(* may interleave with between read and write; the rest are one step.      *)
(***************************************************************************)
EXTENDS Integers, FiniteSets

Kind == {"claim", "progress", "note", "raise", "answer", "succeed", "final", "retriable"}

CONSTANTS
  Job, Login,          \* jobs; those that carry the user's credentials
  Session, SessionOf,  \* the session a job belongs to
  Agent, Run, AgentOf, \* an agent's slots: each runs one job at a time
  Nobody, NoJob,       \* LeaseOwner = null; an idle slot
  MaxAttempts,         \* leases a job may take
  Overlap,             \* handlers that others may write in the middle of
  MaxAsked,            \* bound: questions raised in all
  MaxFaults            \* bound: runs that vanish, reports that do not land

ASSUME JobQueueAssumption ==
  /\ Login \subseteq Job
  /\ SessionOf \in [Job -> Session] /\ AgentOf \in [Run -> Agent]
  /\ Nobody \notin Agent /\ NoJob \notin Job
  /\ MaxAttempts \in Nat \ {0} /\ Overlap \subseteq Kind
  /\ {MaxAsked, MaxFaults} \subseteq Nat
  /\ {"user", "sweeper"} \cap Run = {}

VARIABLES
  job,     \* the Jobs table
  asked,   \* questions raised so far, which number them
  open,    \* those of a job neither answered nor expired
  held,    \* the handler in flight in each lane: what it read
  works,   \* the job a slot believes it runs
  sent,    \* did the run send the credentials, and did its note of it land
  faults

agents == <<works, sent, faults>>
questions == <<asked, open>>
vars == <<job, questions, held, agents>>

Active   == {"leased", "running", "awaiting"}
Terminal == {"succeeded", "failed"}
Lane     == Run \cup {"user", "sweeper"}
Idle     == [kind |-> "none"]

Init ==
  /\ job = [j \in Job |-> [state |-> "absent", owner |-> Nobody, lease |-> "none",
                           attempts |-> 0, latch |-> FALSE, secrets |-> FALSE]]
  /\ asked = 0 /\ open = [j \in Job |-> {}]
  /\ held = [l \in Lane |-> Idle]
  /\ works = [r \in Run |-> NoJob] /\ sent = [r \in Run |-> "no"]
  /\ faults = 0

----------------------------------------------------------------------------
(* What a handler makes of the row it read.                                *)

(* Mutant: the lease stays on the row.                                     *)
RequeuedKeepingLease(row) == [row EXCEPT !.state = "queued", !.owner = Nobody]

Requeued(row) == [row EXCEPT !.state = "queued", !.owner = Nobody, !.lease = "none"]

(* Mutant: the inputs stay in the row.                                     *)
EndedWithSecrets(row, how) ==
  [row EXCEPT !.state = how, !.owner = Nobody, !.lease = "none"]

Ended(row, how) ==
  [row EXCEPT !.state = how, !.owner = Nobody, !.lease = "none", !.secrets = FALSE]

(* Mutant: the latch is not consulted.                                     *)
MayRetryLatched(row) == row.attempts < MaxAttempts /\ row.state \in {"leased", "running"}

(* A job parked on a question has no transition back to the queue.         *)
MayRetry(row) ==
  /\ ~ row.latch
  /\ row.attempts < MaxAttempts
  /\ row.state \in {"leased", "running"}

(* Mutant: an answer sets any job running.                                 *)
AnsweredAnyhow(row) == [row EXCEPT !.state = "running"]

Answered(row) == IF row.state = "awaiting" THEN [row EXCEPT !.state = "running"] ELSE row

Decide(kind, row) ==
  CASE kind = "raise"     -> [row EXCEPT !.state = "awaiting"]
    [] kind = "answer"    -> Answered(row)
    [] kind = "succeed"   -> Ended(row, "succeeded")
    [] kind = "final"     -> Ended(row, "failed")
    [] kind = "retriable" -> IF MayRetry(row) THEN Requeued(row) ELSE Ended(row, "failed")

(* SaveChanges writes the columns that differ from what was read.          *)
Saved(now, read, new) == [c \in DOMAIN now |-> IF new[c] # read[c] THEN new[c] ELSE now[c]]

(* TryClaim and Progress are conditional UPDATEs of the row as it is.      *)
Claimed(now, r) ==
  IF now.state = "queued" /\ now.owner = Nobody
  THEN [now EXCEPT !.state = "leased", !.owner = AgentOf[r], !.lease = "live",
                   !.attempts = @ + 1]
  ELSE now

(* Mutant: the decision made on the row that was read is written.          *)
ProgressedAsRead(now, h) ==
  [now EXCEPT !.state = IF h.row.state = "leased" THEN "running" ELSE @,
              !.latch = @ \/ h.kind = "note"]

(* Only leased becomes running; the latch is set whatever the state.       *)
Progressed(now, h) ==
  [now EXCEPT !.state = IF @ = "leased" /\ h.row.state = "leased" THEN "running" ELSE @,
              !.latch = @ \/ h.kind = "note"]

Written(l, h) ==
  CASE h.kind = "claim"                -> Claimed(job[h.job], l)
    [] h.kind \in {"progress", "note"} -> Progressed(job[h.job], h)
    [] OTHER                           -> Saved(job[h.job], h.row, Decide(h.kind, h.row))

(* The end of the handler h of lane l: the row, and what the caller, the   *)
(* slot or the questions learn of it.                                      *)
Finish(l, h) ==
  LET won == h.kind = "claim" /\ Written(l, h) # job[h.job]
  IN /\ job' = [job EXCEPT ![h.job] = Written(l, h)]
     /\ works' = IF won THEN [works EXCEPT ![l] = h.job]
                 ELSE IF l \in Run /\ h.kind \in {"succeed", "final", "retriable"}
                 THEN [works EXCEPT ![l] = NoJob] ELSE works
     /\ sent' = IF won THEN [sent EXCEPT ![l] = "no"]
                ELSE IF h.kind = "note" THEN [sent EXCEPT ![l] = "noted"] ELSE sent
     /\ asked' = IF h.kind = "raise" THEN asked + 1 ELSE asked
     /\ open' = [open EXCEPT ![h.job] =
                   CASE h.kind = "raise"  -> @ \cup {asked + 1}
                     [] h.kind = "answer" -> @ \ {h.question}
                     [] OTHER             -> @]
     /\ UNCHANGED faults

Conditional == {"claim", "progress", "note"}

(* A conditional UPDATE uses nothing of the row that was read but its      *)
(* state; the rest is dropped, so that reads alike count once.             *)
Carried(kind, row) ==
  IF kind \in Conditional
  THEN [row EXCEPT !.owner = Nobody, !.lease = "none", !.attempts = 0, !.latch = FALSE]
  ELSE row

Handler(kind, j, q) ==
  [kind |-> kind, job |-> j, question |-> q, row |-> Carried(kind, job[j])]

(* A handler of lane l reads the row; it ends at once, or later.           *)
Handle(l, h) ==
  /\ held[l] = Idle
  /\ IF h.kind \in Overlap
     THEN held' = [held EXCEPT ![l] = h] /\ UNCHANGED <<job, questions, agents>>
     ELSE Finish(l, h) /\ UNCHANGED held

Save(l) ==
  /\ held[l] # Idle
  /\ Finish(l, held[l])
  /\ held' = [held EXCEPT ![l] = Idle]

----------------------------------------------------------------------------
(* Consumers and users.                                                    *)

Enqueue(j) ==
  /\ job[j].state = "absent"
  /\ job' = [job EXCEPT ![j].state = "queued", ![j].secrets = TRUE]
  /\ UNCHANGED <<questions, held, agents>>

Answer(j) ==
  \E q \in open[j] : Handle("user", Handler("answer", j, q))

(* A cancelled login fails with a code that is never retried.              *)
Cancel(j) ==
  /\ job[j].state \notin Terminal \cup {"absent"}
  /\ Handle("user", Handler("final", j, 0))

----------------------------------------------------------------------------
(* An agent's slot.                                                        *)

(* QueuedFor, where the candidates are read: queued, and no other job of   *)
(* its session is active.  The claim itself does not ask again.            *)
Eligible(j) ==
  /\ job[j].state = "queued"
  /\ \A k \in Job \ {j} : SessionOf[k] = SessionOf[j] => job[k].state \notin Active

TryLease(r) ==
  /\ works[r] = NoJob
  /\ \E j \in Job : Eligible(j) /\ Handle(r, Handler("claim", j, 0))

Owns(r) == works[r] # NoJob /\ job[works[r]].owner = AgentOf[r]

(* The UPDATE does not ask whether the lease already ran out.              *)
RenewLease(r) ==
  /\ Owns(r) /\ job[works[r]].state \in Active
  /\ job' = [job EXCEPT ![works[r]].lease = "live"]
  /\ UNCHANGED <<questions, held, agents>>

(* CredentialSubmitted: the credentials go upstream, and a note of it is   *)
(* queued for the next progress report.                                    *)
Submit(r) ==
  /\ works[r] \in Login /\ sent[r] = "no"
  /\ sent' = [sent EXCEPT ![r] = "due"]
  /\ UNCHANGED <<job, questions, held, works, faults>>

Progress(r) ==
  /\ Owns(r) /\ job[works[r]].state \notin Terminal
  /\ Handle(r, Handler(IF sent[r] = "no" THEN "progress" ELSE "note", works[r], 0))

Raise(r) ==
  /\ Owns(r) /\ job[works[r]].state \notin Terminal
  /\ asked < MaxAsked
  /\ Handle(r, Handler("raise", works[r], 0))

(* The outcome, once the progress reports landed or were given up; a       *)
(* failure comes with a code that may be retried or one that may not.      *)
Report(r) ==
  /\ Owns(r) /\ job[works[r]].state \notin Terminal
  /\ sent[r] # "due"
  /\ \E kind \in {"succeed", "final", "retriable"} : Handle(r, Handler(kind, works[r], 0))

(* A run whose lease is gone is refused at its next call, and stops.       *)
LeaseLost(r) ==
  /\ works[r] # NoJob /\ ~ Owns(r) /\ held[r] = Idle
  /\ works' = [works EXCEPT ![r] = NoJob]
  /\ UNCHANGED <<job, questions, held, sent, faults>>

Fault == faults < MaxFaults /\ faults' = faults + 1

(* PostProgressAsync gives up after three attempts.                        *)
DropProgress(r) ==
  /\ Fault /\ works[r] # NoJob /\ sent[r] = "due"
  /\ sent' = [sent EXCEPT ![r] = "dropped"]
  /\ UNCHANGED <<job, questions, held, works>>

(* The agent dies, or its outcome never gets through.                      *)
Crash(r) ==
  /\ Fault /\ works[r] # NoJob
  /\ works' = [works EXCEPT ![r] = NoJob]
  /\ UNCHANGED <<job, questions, held, sent>>

----------------------------------------------------------------------------
(* Time and the sweeper.                                                   *)

LeaseRunsOut(j) ==
  /\ job[j].lease = "live"
  /\ job' = [job EXCEPT ![j].lease = "over"]
  /\ UNCHANGED <<questions, held, agents>>

QuestionExpires(j) ==
  /\ \E q \in open[j] : open' = [open EXCEPT ![j] = @ \ {q}]
  /\ UNCHANGED <<job, asked, held, agents>>

(* FailJobsOnExpiredChallenges: challenge_expired is a retriable code.     *)
FailUnanswered(j) ==
  /\ job[j].state = "awaiting" /\ open[j] = {}
  /\ Handle("sweeper", Handler("retriable", j, 0))

Lost(row) == row.lease = "over" /\ row.state \in Active

(* Mutant: a job may come back more often.                                 *)
RecoverableAlways(row) == ~ row.latch

Recoverable(row) == ~ row.latch /\ row.attempts < MaxAttempts

(* RequeueExpiredLeases, with both of its BurnAsync.                       *)
RequeueExpired ==
  /\ held["sweeper"] = Idle
  /\ \E j \in Job : Lost(job[j])
  /\ job' = [j \in Job |->
       IF ~ Lost(job[j]) THEN job[j]
       ELSE IF Recoverable(job[j]) THEN Requeued(job[j]) ELSE Ended(job[j], "failed")]
  /\ UNCHANGED <<questions, held, agents>>

(* ExpireAbandoned: queued, never leased or requeued, for too long.        *)
ExpireAbandoned(j) ==
  /\ held["sweeper"] = Idle
  /\ job[j].state = "queued" /\ job[j].lease = "none"
  /\ job' = [job EXCEPT ![j].state = "failed", ![j].secrets = FALSE]
  /\ UNCHANGED <<questions, held, agents>>

----------------------------------------------------------------------------

RunStep(r) ==
  \/ TryLease(r) \/ RenewLease(r) \/ Submit(r) \/ Progress(r) \/ Raise(r)
  \/ Report(r) \/ LeaseLost(r) \/ DropProgress(r) \/ Crash(r)

Next ==
  \/ \E j \in Job : Enqueue(j) \/ Answer(j) \/ Cancel(j)
  \/ \E r \in Run : RunStep(r)
  \/ \E j \in Job : LeaseRunsOut(j) \/ QuestionExpires(j)
  \/ \E j \in Job : FailUnanswered(j) \/ ExpireAbandoned(j)
  \/ RequeueExpired
  \/ \E l \in Lane : Save(l)

Spec == Init /\ [][Next]_vars

(* No slot believes that it runs j for the agent that owns it.             *)
Forsaken(j) == \A r \in Run : works[r] = j => AgentOf[r] # job[j].owner

(* Fairness: the sweep runs every few seconds; a lease nobody renews and a *)
(* question nobody answers run out; a run has a budget, and then reports   *)
(* or finds its lease gone; a handler that was started ends.  Nothing      *)
(* makes users or agents take a job, answer or renew.                      *)
FairSpec ==
  /\ Spec
  /\ WF_vars(RequeueExpired)
  /\ \A j \in Job :
       /\ WF_vars(FailUnanswered(j)) /\ WF_vars(ExpireAbandoned(j))
       /\ WF_vars(QuestionExpires(j))
       /\ WF_vars(Forsaken(j) /\ LeaseRunsOut(j))
  /\ \A r \in Run : SF_vars(Report(r) \/ LeaseLost(r)) /\ WF_vars(sent[r] = "due" /\ Progress(r))
  /\ \A l \in Lane : WF_vars(Save(l))

----------------------------------------------------------------------------
(* Properties.                                                             *)

Row == [state : {"absent", "queued"} \cup Active \cup Terminal,
        owner : Agent \cup {Nobody}, lease : {"none", "live", "over"},
        attempts : 0 .. MaxAttempts, latch : BOOLEAN, secrets : BOOLEAN]

(* Every variable has its type; no job is leased more than MaxAttempts     *)
(* times.                                                                  *)
TypeOK ==
  /\ job \in [Job -> Row]
  /\ asked \in Nat /\ open \in [Job -> SUBSET Nat]
  /\ \A l \in Lane : held[l] # Idle => held[l].job \in Job /\ held[l].row \in Row
  /\ works \in [Run -> Job \cup {NoJob}] /\ sent \in [Run -> {"no", "due", "noted", "dropped"}]
  /\ faults \in 0 .. MaxFaults

(* A job in an active state has an owner and a lease that can run out, and *)
(* no other job has: without a lease no sweep ever matches it.  False      *)
(* where an answer may be saved over the end of its job.                   *)
ActiveIsLeased ==
  \A j \in Job : LET row == job[j] IN
    /\ row.state \in Active <=> row.owner # Nobody
    /\ row.state \in Active <=> row.lease # "none"

(* A job that ended stays as it ended: no late report, claim, note, answer *)
(* or sweep gives it another state ("[JobState.Succeeded] = []", and so    *)
(* for a failed job).  False where an outcome may be saved over another.   *)
EndedStaysEnded ==
  [][\A j \in Job : job[j].state \in Terminal => job'[j].state = job[j].state]_vars

(* A job that ended holds no credentials.                                  *)
NoSecretsAtRest == \A j \in Job : job[j].state \in Terminal => ~ job[j].secrets

(* Once the platform knows that a credential went upstream, the job does   *)
(* not go back to the queue: neither for an agent's retriable failure nor  *)
(* for a lease that ran out ("After CredentialSubmitted a lost lease fails *)
(* permanently").                                                          *)
NeverAfterCredential ==
  [][\A j \in Job : job[j].latch /\ job[j].state \in Active => job'[j].state # "queued"]_vars

(* Every job ends, whoever dies and whatever stays unanswered ("Everything *)
(* in this service has a deadline").  False where an answer may be saved   *)
(* over the end of its job: nothing holds a lease on it any more.          *)
EveryJobEnds == \A j \in Job : (job[j].state # "absent") ~> (job[j].state \in Terminal)
=============================================================================
