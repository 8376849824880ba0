--------------------------- MODULE JobQueueProofs ---------------------------
(***************************************************************************)
(* Safety of the job queue, for any jobs, sessions, agents and slots, and  *)
(* for any set of handlers that are interleaved with others.               *)
(*                                                                         *)
(* Handlers that write with a conditional UPDATE need no assumption: the   *)
(* guard in the WHERE clause is what makes the row they read moments ago   *)
(* irrelevant.  Questions, answers and outcomes save a row they read       *)
(* before, and the code does not check that it still is that row: an       *)
(* outcome may overwrite an end, an answer may leave a job running without *)
(* a lease.  FreshSaves names that one race.  All but the last of these    *)
(* theorems say: as long as it does not happen, whatever else interleaves. *)
(***************************************************************************)
EXTENDS JobQueue, TLAPS

(* A question, an answer or an outcome is saved while the row is the one   *)
(* that its handler read.                                                  *)
FreshSaves ==
  \A l \in Lane :
    held[l] # Idle /\ held[l].kind \notin Conditional /\ Save(l) => job[held[l].job] = held[l].row

(* A row as every handler finds and leaves it: the property's conjuncts,   *)
(* and that a job in the queue still has a lease to take.                  *)
RowOK(row) ==
  /\ row \in Row
  /\ row.state \in {"absent", "queued"} => row.attempts < MaxAttempts
  /\ row.state \in Active <=> row.owner # Nobody
  /\ row.state \in Active <=> row.lease # "none"
  /\ row.state \in Terminal => ~ row.secrets

(* What a step may make of a row.                                          *)
RowStep(old, new) ==
  /\ old.state \in Terminal => new.state = old.state
  /\ old.latch /\ old.state \in Active => new.state # "queued"

(* What a handler in flight decided upon.                                  *)
ReadOK(l, h) ==
  /\ h.job \in Job /\ h.question \in Nat /\ h.kind \in Kind /\ h.row \in Row
  /\ h.kind \in Conditional => l \in Run
  /\ h.kind \notin Conditional => RowOK(h.row)
  /\ h.kind \notin Conditional \cup {"answer"} => h.row.state \notin Terminal
  /\ h.kind = "raise" => h.row.state \in Active

HeldOK ==
  /\ held = [l \in Lane |-> held[l]]
  /\ \A l \in Lane : held[l] # Idle => ReadOK(l, held[l])

OthersOK ==
  /\ asked \in Nat /\ open \in [Job -> SUBSET Nat]
  /\ works \in [Run -> Job \cup {NoJob}] /\ sent \in [Run -> {"no", "due", "noted", "dropped"}]
  /\ faults \in 0 .. MaxFaults

QueueInv ==
  /\ job = [j \in Job |-> job[j]] /\ \A j \in Job : RowOK(job[j])
  /\ HeldOK /\ OthersOK

(* What every step does to every row.                                      *)
StepOK == \A j \in Job : RowOK(job'[j]) /\ RowStep(job[j], job'[j])

----------------------------------------------------------------------------
(* What handlers make of a row.                                            *)

(* A save of a row nobody wrote since is the row decided upon.             *)
LEMMA SavedAlone ==
  ASSUME NEW row \in Row, NEW new \in Row
  PROVE  Saved(row, row, new) = new
BY DEF Saved, Row

LEMMA RequeuedOK ==
  ASSUME NEW row, RowOK(row), row.state \in Active, ~ row.latch, row.attempts < MaxAttempts
  PROVE  RowOK(Requeued(row)) /\ RowStep(row, Requeued(row))
BY JobQueueAssumption DEF Requeued, RowOK, RowStep, Row, Active, Terminal

LEMMA EndedOK ==
  ASSUME NEW row, RowOK(row), row.state \notin Terminal, NEW how \in Terminal
  PROVE  RowOK(Ended(row, how)) /\ RowStep(row, Ended(row, how))
BY JobQueueAssumption DEF Ended, RowOK, RowStep, Row, Active, Terminal

(* The handlers that read, decide and save, in one step.                   *)
LEMMA DecideOK ==
  ASSUME NEW row, RowOK(row), row.state \notin Terminal,
         NEW kind \in {"raise", "answer", "succeed", "final", "retriable"},
         kind = "raise" => row.state \in Active
  PROVE  RowOK(Decide(kind, row)) /\ RowStep(row, Decide(kind, row))
<1>1. CASE kind = "raise"
  BY <1>1 DEF Decide, RowOK, RowStep, Row, Active, Terminal
<1>2. CASE kind = "answer"
  BY <1>2 DEF Decide, Answered, RowOK, RowStep, Row, Active, Terminal
<1>3. CASE kind \in {"succeed", "final"}
  BY <1>3, EndedOK DEF Decide, Terminal
<1>4. CASE kind = "retriable"
  BY <1>4, EndedOK, RequeuedOK DEF Decide, MayRetry, Terminal, Active
<1> QED BY <1>1, <1>2, <1>3, <1>4

(* An answer leaves a job alone that is not waiting for one.               *)
LEMMA AnsweredOK ==
  ASSUME NEW row, RowOK(row)
  PROVE  RowOK(Decide("answer", row)) /\ RowStep(row, Decide("answer", row))
BY DEF Decide, Answered, RowOK, RowStep, Row, Active, Terminal

LEMMA Untouched == ASSUME NEW row PROVE RowStep(row, row)
BY DEF RowStep, Active

LEMMA ClaimedOK ==
  ASSUME NEW row, RowOK(row), NEW r \in Run
  PROVE  RowOK(Claimed(row, r)) /\ RowStep(row, Claimed(row, r))
<1>1. AgentOf[r] \in Agent /\ AgentOf[r] # Nobody
  BY JobQueueAssumption
<1>2. CASE row.state = "queued" /\ row.owner = Nobody
  <2> DEFINE new == [row EXCEPT !.state = "leased", !.owner = AgentOf[r], !.lease = "live",
                                !.attempts = row.attempts + 1]
  <2>1. Claimed(row, r) = new
    BY <1>2 DEF Claimed
  <2>2. row.attempts + 1 \in 0 .. MaxAttempts
    BY <1>2, JobQueueAssumption DEF RowOK, Row
  <2>3. new \in Row
    BY <1>1, <2>2 DEF RowOK, Row, Active
  <2>4. new.state = "leased" /\ new.owner = AgentOf[r] /\ new.lease = "live"
    BY DEF RowOK, Row
  <2> HIDE DEF new
  <2>5. RowOK(new) /\ RowStep(row, new)
    BY <1>1, <1>2, <2>3, <2>4 DEF RowOK, RowStep, Active, Terminal
  <2> QED BY <2>1, <2>5
<1>3. CASE ~ (row.state = "queued" /\ row.owner = Nobody)
  BY <1>3 DEF Claimed, RowStep, Active
<1> QED BY <1>2, <1>3

LEMMA ProgressedOK ==
  ASSUME NEW row, RowOK(row), NEW h
  PROVE  RowOK(Progressed(row, h)) /\ RowStep(row, Progressed(row, h))
BY DEF Progressed, RowOK, RowStep, Row, Active, Terminal

----------------------------------------------------------------------------
(* What handlers make of the state.                                        *)

(* A conditional UPDATE keeps the row in order whatever was read.          *)
LEMMA UpdateOK ==
  ASSUME QueueInv, NEW l \in Run, NEW h, h.job \in Job, h.kind \in Conditional
  PROVE  RowOK(Written(l, h)) /\ RowStep(job[h.job], Written(l, h))
<1>1. RowOK(job[h.job])
  BY DEF QueueInv
<1>2. CASE h.kind = "claim"
  BY <1>1, <1>2, ClaimedOK DEF Written
<1>3. CASE h.kind \in {"progress", "note"}
  BY <1>1, <1>3, ProgressedOK DEF Written
<1> QED BY <1>2, <1>3 DEF Conditional

(* A save of a row nobody wrote since is the handler's decision.           *)
LEMMA SaveOK ==
  ASSUME QueueInv, NEW l \in Lane, NEW h, ReadOK(l, h), h.kind \notin Conditional,
         h.row = job[h.job]
  PROVE  RowOK(Written(l, h)) /\ RowStep(job[h.job], Written(l, h))
<1> DEFINE new == Decide(h.kind, h.row)
<1>1. h.kind \in {"raise", "answer", "succeed", "final", "retriable"}
  BY DEF ReadOK, Kind, Conditional
<1>2. RowOK(new) /\ RowStep(h.row, new)
  BY <1>1, DecideOK, AnsweredOK DEF ReadOK
<1>3. h.row \in Row /\ new \in Row
  BY <1>2 DEF RowOK, ReadOK
<1>4. Saved(job[h.job], h.row, new) = new
  BY <1>3, SavedAlone
<1>5. Written(l, h) = Saved(job[h.job], h.row, new)
  BY <1>1 DEF Written
<1> QED BY <1>2, <1>4, <1>5

LEMMA FinishOK ==
  ASSUME QueueInv, NEW l \in Lane, NEW h, h.job \in Job, h.question \in Nat,
         RowOK(Written(l, h)), RowStep(job[h.job], Written(l, h)), Finish(l, h)
  PROVE  StepOK /\ OthersOK' /\ job' = [j \in Job |-> job'[j]]
<1>1. job' = [job EXCEPT ![h.job] = Written(l, h)]
  BY DEF Finish
<1>2. job' = [j \in Job |-> job'[j]]
  BY <1>1 DEF QueueInv
<1>3. StepOK
  BY <1>1, Untouched DEF QueueInv, StepOK
<1>4. works' \in [Run -> Job \cup {NoJob}]
  BY DEF Finish, QueueInv, OthersOK
<1>5. sent' \in [Run -> {"no", "due", "noted", "dropped"}]
  BY DEF Finish, QueueInv, OthersOK
<1>6. asked' \in Nat
  BY DEF Finish, QueueInv, OthersOK
<1>7. open' \in [Job -> SUBSET Nat]
  <2>1. open[h.job] \subseteq Nat /\ asked + 1 \in Nat
    BY DEF QueueInv, OthersOK
  <2> QED BY <2>1 DEF Finish, QueueInv, OthersOK
<1>8. faults' \in 0 .. MaxFaults
  BY DEF Finish, QueueInv, OthersOK
<1> QED BY <1>2, <1>3, <1>4, <1>5, <1>6, <1>7, <1>8 DEF OthersOK

(* A step that leaves the table alone leaves it in order.                  *)
LEMMA RowsAlone == QueueInv /\ UNCHANGED job => StepOK
BY Untouched DEF QueueInv, StepOK

(* What a handler in flight carries of the row it read.                    *)
LEMMA CarriedOK ==
  ASSUME NEW row \in Row, NEW kind
  PROVE  Carried(kind, row) \in Row
<1>1. CASE kind \in Conditional
  <2> DEFINE new == [row EXCEPT !.owner = Nobody, !.lease = "none", !.attempts = 0, !.latch = FALSE]
  <2>1. Carried(kind, row) = new
    BY <1>1 DEF Carried
  <2>2. 0 \in 0 .. MaxAttempts
    BY JobQueueAssumption
  <2>3. new \in Row
    BY <2>2 DEF Row
  <2> QED BY <2>1, <2>3
<1>2. CASE kind \notin Conditional
  BY <1>2 DEF Carried
<1> QED BY <1>1, <1>2

(* A handler that starts: it ends at once, or its lane holds it.           *)
LEMMA HandleOK ==
  ASSUME QueueInv, NEW l \in Lane, NEW kind \in Kind, NEW j \in Job, NEW q \in Nat,
         kind \in Conditional => l \in Run,
         kind \notin Conditional \cup {"answer"} => job[j].state \notin Terminal,
         kind = "raise" => job[j].state \in Active,
         Handle(l, Handler(kind, j, q))
  PROVE  QueueInv' /\ StepOK
<1> DEFINE h == Handler(kind, j, q)
<1>1. h.kind = kind /\ h.job = j /\ h.question = q /\ h.row = Carried(kind, job[j])
  BY DEF Handler
<1>6. RowOK(job[j]) /\ job[j] \in Row
  BY DEF QueueInv, RowOK
<1>7. h.row \in Row /\ (kind \notin Conditional => h.row = job[j])
  <2> HIDE DEF h
  <2>1. Carried(kind, job[j]) \in Row
    BY <1>6, CarriedOK
  <2> QED BY <1>1, <2>1 DEF Carried
<1>2. Handle(l, h)
  OBVIOUS
<1> HIDE DEF h
<1>3. ReadOK(l, h)
  BY <1>1, <1>6, <1>7 DEF ReadOK, Conditional
<1>4. CASE kind \in Overlap
  <2>1. held' = [held EXCEPT ![l] = h] /\ UNCHANGED <<job, questions, agents>>
    BY <1>1, <1>2, <1>4 DEF Handle
  <2>2. HeldOK'
    BY <1>3, <2>1 DEF QueueInv, HeldOK, ReadOK
  <2> QED BY <2>1, <2>2, RowsAlone DEF QueueInv, OthersOK, StepOK, questions, agents
<1>5. CASE kind \notin Overlap
  <2>1. Finish(l, h) /\ UNCHANGED held
    BY <1>1, <1>2, <1>5 DEF Handle
  <2>2. RowOK(Written(l, h)) /\ RowStep(job[h.job], Written(l, h))
    <3>1. CASE kind \in Conditional
      BY <1>1, <3>1, UpdateOK
    <3>2. CASE kind \notin Conditional
      BY <1>1, <1>3, <1>7, <3>2, SaveOK
    <3> QED BY <3>1, <3>2
  <2>3. StepOK /\ OthersOK' /\ job' = [k \in Job |-> job'[k]]
    BY <1>1, <2>1, <2>2, FinishOK
  <2>4. HeldOK'
    BY <2>1 DEF QueueInv, HeldOK
  <2> QED BY <2>3, <2>4 DEF QueueInv, StepOK
<1> QED BY <1>4, <1>5

(* A step that touches neither rows nor handlers.                          *)
LEMMA OthersStep == QueueInv /\ OthersOK' /\ UNCHANGED <<job, held>> => QueueInv' /\ StepOK
BY RowsAlone DEF QueueInv, HeldOK

(* A step that touches nothing but rows.                                   *)
LEMMA RowsStep ==
  ASSUME QueueInv, StepOK, job' = [j \in Job |-> job'[j]], UNCHANGED <<questions, held, agents>>
  PROVE  QueueInv'
BY DEF QueueInv, StepOK, HeldOK, OthersOK, questions, agents

(* A step that touches one row.                                            *)
LEMMA RowStepOK ==
  ASSUME QueueInv, NEW j \in Job, NEW new, RowOK(new), RowStep(job[j], new),
         job' = [job EXCEPT ![j] = new], UNCHANGED <<questions, held, agents>>
  PROVE  QueueInv' /\ StepOK
<1>1. StepOK
  BY Untouched DEF QueueInv, StepOK
<1>2. job' = [k \in Job |-> job'[k]]
  BY DEF QueueInv
<1> QED BY <1>1, <1>2, RowsStep

----------------------------------------------------------------------------
(* Steps.                                                                  *)

(* A slot that owns its job works on an active one.                        *)
LEMMA OwnedIsActive ==
  ASSUME QueueInv, NEW r \in Run, Owns(r)
  PROVE  works[r] \in Job /\ job[works[r]].state \in Active
<1>1. works[r] \in Job
  BY DEF Owns, QueueInv, OthersOK
<1>2. AgentOf[r] # Nobody
  BY JobQueueAssumption
<1> QED BY <1>1, <1>2 DEF Owns, QueueInv, RowOK

LEMMA InitQueue == Init => QueueInv
<1> SUFFICES ASSUME Init PROVE QueueInv
  OBVIOUS
<1>1. \A j \in Job : RowOK(job[j])
  BY JobQueueAssumption DEF Init, RowOK, Row, Active, Terminal
<1>2. HeldOK
  BY DEF Init, HeldOK
<1>3. OthersOK
  BY JobQueueAssumption DEF Init, OthersOK
<1> QED BY <1>1, <1>2, <1>3 DEF QueueInv, Init

LEMMA UserStep ==
  ASSUME QueueInv, NEW j \in Job,
         Enqueue(j) \/ Answer(j) \/ Cancel(j)
  PROVE  QueueInv' /\ StepOK
<1>0. RowOK(job[j]) /\ "user" \in Lane /\ 0 \in Nat
  BY DEF QueueInv, Lane
<1>1. CASE Enqueue(j)
  <2> DEFINE new == [job[j] EXCEPT !.state = "queued", !.secrets = TRUE]
  <2>1. RowOK(new) /\ RowStep(job[j], new)
    BY <1>0, <1>1 DEF Enqueue, RowOK, RowStep, Row, Active, Terminal
  <2>2. job' = [job EXCEPT ![j] = new] /\ UNCHANGED <<questions, held, agents>>
    BY <1>1 DEF Enqueue
  <2> HIDE DEF new
  <2> QED BY <2>1, <2>2, RowStepOK
<1>2. CASE Answer(j)
  <2>1. PICK q \in open[j] : Handle("user", Handler("answer", j, q))
    BY <1>2 DEF Answer
  <2>2. q \in Nat
    BY DEF QueueInv, OthersOK
  <2> QED BY <1>0, <2>1, <2>2, HandleOK DEF Conditional, Kind
<1>3. CASE Cancel(j)
  <2>1. job[j].state \notin Terminal /\ Handle("user", Handler("final", j, 0))
    BY <1>3 DEF Cancel
  <2> QED BY <1>0, <2>1, HandleOK DEF Conditional, Kind
<1> QED BY <1>1, <1>2, <1>3

(* What a slot asks of the platform.                                       *)
LEMMA SlotCalls ==
  ASSUME QueueInv, NEW r \in Run,
         TryLease(r) \/ Progress(r) \/ Raise(r) \/ Report(r)
  PROVE  QueueInv' /\ StepOK
<1>0. r \in Lane /\ 0 \in Nat
  BY DEF Lane
<1>1. CASE TryLease(r)
  BY <1>0, <1>1, HandleOK DEF TryLease, Conditional, Kind
<1>2. CASE Progress(r)
  <2>1. works[r] \in Job
    BY <1>2, OwnedIsActive DEF Progress
  <2>2. PICK kind \in {"progress", "note"} : Handle(r, Handler(kind, works[r], 0))
    BY <1>2 DEF Progress
  <2> QED BY <1>0, <2>1, <2>2, HandleOK DEF Conditional, Kind
<1>3. CASE Raise(r)
  <2>1. works[r] \in Job /\ job[works[r]].state \in Active \ Terminal
    BY <1>3, OwnedIsActive DEF Raise
  <2>2. Handle(r, Handler("raise", works[r], 0))
    BY <1>3 DEF Raise
  <2> QED BY <1>0, <2>1, <2>2, HandleOK DEF Conditional, Kind
<1>4. CASE Report(r)
  <2>1. works[r] \in Job /\ job[works[r]].state \notin Terminal
    BY <1>4, OwnedIsActive DEF Report
  <2>2. PICK kind \in {"succeed", "final", "retriable"} : Handle(r, Handler(kind, works[r], 0))
    BY <1>4 DEF Report
  <2> QED BY <1>0, <2>1, <2>2, HandleOK DEF Conditional, Kind
<1> QED BY <1>1, <1>2, <1>3, <1>4

LEMMA SlotSteps ==
  ASSUME QueueInv, NEW r \in Run, RunStep(r)
  PROVE  QueueInv' /\ StepOK
<1>1. CASE RenewLease(r)
  <2> DEFINE j == works[r]
             new == [job[j] EXCEPT !.lease = "live"]
  <2>1. j \in Job /\ job[j].state \in Active /\ RowOK(job[j])
    BY <1>1, OwnedIsActive DEF RenewLease, QueueInv
  <2>2. RowOK(new) /\ RowStep(job[j], new)
    BY <2>1 DEF RowOK, RowStep, Row, Active, Terminal
  <2>3. job' = [job EXCEPT ![j] = new] /\ UNCHANGED <<questions, held, agents>>
    BY <1>1 DEF RenewLease
  <2> HIDE DEF j, new
  <2> QED BY <2>1, <2>2, <2>3, RowStepOK
<1>2. CASE Submit(r)
  <2>1. works[r] \in Job
    BY <1>2, JobQueueAssumption DEF Submit
  <2>2. OthersOK'
    BY <1>2, <2>1 DEF Submit, QueueInv, OthersOK, questions
  <2> QED BY <1>2, <2>2, OthersStep DEF Submit
<1>3. CASE LeaseLost(r) \/ DropProgress(r) \/ Crash(r)
  <2>1. faults' \in 0 .. MaxFaults
    BY <1>3, JobQueueAssumption DEF LeaseLost, DropProgress, Crash, Fault, QueueInv, OthersOK
  <2>2. OthersOK'
    BY <1>3, <2>1 DEF LeaseLost, DropProgress, Crash, QueueInv, OthersOK, questions
  <2> QED BY <1>3, <2>2, OthersStep DEF LeaseLost, DropProgress, Crash
<1> QED BY <1>1, <1>2, <1>3, SlotCalls DEF RunStep

LEMMA TimeAndSweep ==
  ASSUME QueueInv, NEW j \in Job,
         LeaseRunsOut(j) \/ QuestionExpires(j) \/ FailUnanswered(j) \/ ExpireAbandoned(j)
  PROVE  QueueInv' /\ StepOK
<1>0. RowOK(job[j]) /\ "sweeper" \in Lane /\ 0 \in Nat
  BY DEF QueueInv, Lane
<1>1. CASE LeaseRunsOut(j)
  <2> DEFINE new == [job[j] EXCEPT !.lease = "over"]
  <2>1. RowOK(new) /\ RowStep(job[j], new)
    BY <1>0, <1>1 DEF LeaseRunsOut, RowOK, RowStep, Row, Active, Terminal
  <2>2. job' = [job EXCEPT ![j] = new] /\ UNCHANGED <<questions, held, agents>>
    BY <1>1 DEF LeaseRunsOut
  <2> HIDE DEF new
  <2> QED BY <2>1, <2>2, RowStepOK
<1>2. CASE QuestionExpires(j)
  <2>1. OthersOK'
    BY <1>2 DEF QuestionExpires, QueueInv, OthersOK, agents
  <2> QED BY <1>2, <2>1, OthersStep DEF QuestionExpires
<1>3. CASE FailUnanswered(j)
  <2>1. job[j].state \notin Terminal /\ Handle("sweeper", Handler("retriable", j, 0))
    BY <1>3 DEF FailUnanswered, Terminal
  <2> QED BY <1>0, <2>1, HandleOK DEF Conditional, Kind
<1>4. CASE ExpireAbandoned(j)
  <2> DEFINE new == [job[j] EXCEPT !.state = "failed", !.secrets = FALSE]
  <2>1. RowOK(new) /\ RowStep(job[j], new)
    BY <1>0, <1>4 DEF ExpireAbandoned, RowOK, RowStep, Row, Active, Terminal
  <2>2. job' = [job EXCEPT ![j] = new] /\ UNCHANGED <<questions, held, agents>>
    BY <1>4 DEF ExpireAbandoned
  <2> HIDE DEF new
  <2> QED BY <2>1, <2>2, RowStepOK
<1> QED BY <1>1, <1>2, <1>3, <1>4

LEMMA SweepLeases ==
  ASSUME QueueInv, RequeueExpired
  PROVE  QueueInv' /\ StepOK
<1>1. ASSUME NEW j \in Job
      PROVE  RowOK(job'[j]) /\ RowStep(job[j], job'[j])
  <2>1. RowOK(job[j])
    BY DEF QueueInv
  <2>2. job'[j] = IF ~ Lost(job[j]) THEN job[j]
                  ELSE IF Recoverable(job[j]) THEN Requeued(job[j]) ELSE Ended(job[j], "failed")
    BY DEF RequeueExpired
  <2>3. Lost(job[j]) => job[j].state \in Active /\ job[j].state \notin Terminal
    BY DEF Lost, Active, Terminal
  <2>4. CASE ~ Lost(job[j])
    BY <2>1, <2>2, <2>4, Untouched
  <2>5. CASE Lost(job[j]) /\ Recoverable(job[j])
    BY <2>1, <2>2, <2>3, <2>5, RequeuedOK DEF Recoverable
  <2>6. CASE Lost(job[j]) /\ ~ Recoverable(job[j])
    BY <2>1, <2>2, <2>3, <2>6, EndedOK DEF Terminal
  <2> QED BY <2>4, <2>5, <2>6
<1>2. job' = [j \in Job |-> job'[j]] /\ UNCHANGED <<questions, held, agents>>
  BY DEF RequeueExpired
<1> QED BY <1>1, <1>2, RowsStep DEF StepOK

LEMMA HeldEnds ==
  ASSUME QueueInv, FreshSaves, NEW l \in Lane, Save(l)
  PROVE  QueueInv' /\ StepOK
<1> DEFINE h == held[l]
<1>1. ReadOK(l, h) /\ h # Idle
  BY DEF Save, QueueInv, HeldOK
<1>2. RowOK(Written(l, h)) /\ RowStep(job[h.job], Written(l, h))
  <2>1. CASE h.kind \in Conditional
    BY <1>1, <2>1, UpdateOK DEF ReadOK
  <2>2. CASE h.kind \notin Conditional
    <3>1. h.row = job[h.job]
      BY <1>1, <2>2 DEF FreshSaves
    <3> QED BY <1>1, <2>2, <3>1, SaveOK
  <2> QED BY <2>1, <2>2
<1>3. h.job \in Job /\ h.question \in Nat /\ Finish(l, h)
  BY <1>1 DEF ReadOK, Save
<1>4. StepOK /\ OthersOK' /\ job' = [j \in Job |-> job'[j]]
  BY <1>2, <1>3, FinishOK
<1>5. HeldOK'
  BY DEF Save, QueueInv, HeldOK
<1> QED BY <1>4, <1>5 DEF QueueInv, StepOK

LEMMA QueueStep ==
  ASSUME QueueInv, [Next]_vars, [FreshSaves]_vars
  PROVE  QueueInv' /\ StepOK
<1>1. CASE UNCHANGED vars
  <2>1. QueueInv'
    BY <1>1 DEF vars, questions, agents, QueueInv, HeldOK, OthersOK
  <2> QED BY <1>1, <2>1, RowsAlone DEF vars
<1>2. CASE Next /\ FreshSaves
  BY <1>2, UserStep, SlotSteps, TimeAndSweep, SweepLeases, HeldEnds DEF Next
<1> QED BY <1>1, <1>2

LEMMA QueueAlways == Spec /\ [][FreshSaves]_vars => []QueueInv
<1>1. QueueInv /\ [Next]_vars /\ [FreshSaves]_vars => QueueInv'
  BY QueueStep
<1> QED BY <1>1, InitQueue, PTL DEF Spec

----------------------------------------------------------------------------

(* Every variable has its type, and no job is leased more often than       *)
(* MaxAttempts, whoever dies or reports twice and whatever interleaves,    *)
(* unless a question, an answer or an outcome is saved over a row that was *)
(* written since it was read.                                              *)
THEOREM QueueTypes == Spec /\ [][FreshSaves]_vars => []TypeOK
<1>1. QueueInv => TypeOK
  <2> SUFFICES ASSUME QueueInv PROVE TypeOK
    OBVIOUS
  <2>1. job \in [Job -> Row]
    BY DEF QueueInv, RowOK
  <2>2. \A l \in Lane : held[l] # Idle => held[l].job \in Job /\ held[l].row \in Row
    BY DEF QueueInv, HeldOK, ReadOK, RowOK
  <2> QED BY <2>1, <2>2 DEF QueueInv, OthersOK, TypeOK
<1> QED BY <1>1, QueueAlways, PTL

(* A job has an owner and a lease exactly while it is active, so the sweep *)
(* finds every job whose agent is gone, unless a stale save gives an ended *)
(* or requeued job an active state: that is the only way to a job without  *)
(* a lease that no sweep matches.                                          *)
THEOREM LeasedWhileActive == Spec /\ [][FreshSaves]_vars => []ActiveIsLeased
<1>1. QueueInv => ActiveIsLeased
  BY DEF QueueInv, RowOK, ActiveIsLeased
<1> QED BY <1>1, QueueAlways, PTL

(* Claims, progress reports, notes and sweeps that land late, in any       *)
(* order, never reopen a job; only a stale save can.                       *)
THEOREM EndedForGood == Spec /\ [][FreshSaves]_vars => EndedStaysEnded
<1>1. QueueInv /\ [Next]_vars /\ [FreshSaves]_vars
        => [\A j \in Job : job[j].state \in Terminal => job'[j].state = job[j].state]_vars
  BY QueueStep DEF StepOK, RowStep
<1> QED BY <1>1, QueueAlways, PTL DEF Spec, EndedStaysEnded

(* No retry of a job whose credentials the platform knows to be spent,     *)
(* unless an outcome is saved over the note of it.                         *)
THEOREM NoRetryAfterCredential == Spec /\ [][FreshSaves]_vars => NeverAfterCredential
<1>1. QueueInv /\ [Next]_vars /\ [FreshSaves]_vars
        => [\A j \in Job : job[j].latch /\ job[j].state \in Active => job'[j].state # "queued"]_vars
  BY QueueStep DEF StepOK, RowStep
<1> QED BY <1>1, QueueAlways, PTL DEF Spec, NeverAfterCredential
----------------------------------------------------------------------------
(* Credentials, whatever is saved over whatever: they enter a row once,    *)
(* when it is created, and whatever ends a job takes them out of it.       *)

WideRow == [state : {"absent", "queued"} \cup Active \cup Terminal,
            owner : Agent \cup {Nobody}, lease : {"none", "live", "over"},
            attempts : Nat, latch : BOOLEAN, secrets : BOOLEAN]

Sealed(row) ==
  /\ row \in WideRow
  /\ row.state \in Terminal => ~ row.secrets
  /\ row.state = "absent" => row.owner = Nobody

(* What a step makes of a row that exists.                                 *)
Seals(old, new) ==
  /\ Sealed(new)
  /\ old.state # "absent" => new.state # "absent" /\ (~ old.secrets => ~ new.secrets)

(* A handler in flight read a row that exists, and credentials that were   *)
(* gone by then stay gone.                                                 *)
ReadSealed(l, h, table) ==
  /\ h.job \in Job /\ h.kind \in Kind /\ h.row \in WideRow
  /\ h.kind \in Conditional => l \in Run
  /\ table[h.job].state # "absent" /\ (~ h.row.secrets => ~ table[h.job].secrets)

SealInv ==
  /\ job = [j \in Job |-> job[j]] /\ \A j \in Job : Sealed(job[j])
  /\ open = [j \in Job |-> open[j]]
  /\ \A j \in Job : open[j] # {} => job[j].state # "absent"
  /\ works \in [Run -> Job \cup {NoJob}]
  /\ held = [l \in Lane |-> held[l]]
  /\ \A l \in Lane : held[l] # Idle => ReadSealed(l, held[l], job)

SealStep == \A j \in Job : Seals(job[j], job'[j])

LEMMA SealsSame == ASSUME NEW row, Sealed(row) PROVE Seals(row, row)
BY DEF Seals

LEMMA SealsClaim ==
  ASSUME NEW row, Sealed(row), row.state # "absent", NEW r \in Run
  PROVE  Seals(row, Claimed(row, r))
<1>1. AgentOf[r] \in Agent /\ row.attempts + 1 \in Nat
  BY JobQueueAssumption DEF Sealed, WideRow
<1> QED BY <1>1 DEF Claimed, Seals, Sealed, WideRow, Active, Terminal

LEMMA SealsProgress ==
  ASSUME NEW row, Sealed(row), row.state # "absent", NEW h
  PROVE  Seals(row, Progressed(row, h))
BY DEF Progressed, Seals, Sealed, WideRow, Active, Terminal

(* A save: every column is the one there is, or the one decided upon.      *)
LEMMA SavedColumns ==
  ASSUME NEW now \in WideRow, NEW read \in WideRow, NEW new \in WideRow
  PROVE  /\ Saved(now, read, new) \in WideRow
         /\ Saved(now, read, new).state = IF new.state # read.state THEN new.state ELSE now.state
         /\ Saved(now, read, new).secrets
              = IF new.secrets # read.secrets THEN new.secrets ELSE now.secrets
<1>1. DOMAIN now = {"state", "owner", "lease", "attempts", "latch", "secrets"}
  BY DEF WideRow
<1> DEFINE c(f) == IF new[f] # read[f] THEN new[f] ELSE now[f]
<1>2. Saved(now, read, new)
        = [f \in {"state", "owner", "lease", "attempts", "latch", "secrets"} |-> c(f)]
  BY <1>1 DEF Saved
<1>3. /\ c("state") \in {"absent", "queued"} \cup Active \cup Terminal
      /\ c("owner") \in Agent \cup {Nobody} /\ c("lease") \in {"none", "live", "over"}
      /\ c("attempts") \in Nat /\ c("latch") \in BOOLEAN /\ c("secrets") \in BOOLEAN
  BY DEF WideRow
<1> HIDE DEF c
<1>4. Saved(now, read, new) \in WideRow
  BY <1>2, <1>3 DEF WideRow
<1> QED BY <1>2, <1>4 DEF c

(* A decision: the job ends without credentials, or goes on as something   *)
(* that has not ended, or nothing is decided.                              *)
LEMMA DecidedSealed ==
  ASSUME NEW row \in WideRow, NEW kind \in Kind \ Conditional
  PROVE  /\ Decide(kind, row) \in WideRow
         /\ \/ Decide(kind, row) = row
            \/ ~ Decide(kind, row).secrets /\ Decide(kind, row).state \in Terminal
            \/ /\ Decide(kind, row).secrets = row.secrets
               /\ Decide(kind, row).state \in {"queued", "running", "awaiting"}
<1>1. CASE kind = "raise"
  BY <1>1 DEF Decide, WideRow, Active
<1>2. CASE kind = "answer"
  BY <1>2 DEF Decide, Answered, WideRow, Active
<1>3. CASE kind \in {"succeed", "final"}
  BY <1>3 DEF Decide, Ended, WideRow, Terminal
<1>4. CASE kind = "retriable"
  BY <1>4 DEF Decide, Ended, Requeued, WideRow, Active, Terminal
<1> QED BY <1>1, <1>2, <1>3, <1>4 DEF Kind, Conditional

LEMMA SealsSave ==
  ASSUME NEW now, Sealed(now), now.state # "absent", NEW read \in WideRow,
         ~ read.secrets => ~ now.secrets, NEW kind \in Kind \ Conditional
  PROVE  Seals(now, Saved(now, read, Decide(kind, read)))
<1> DEFINE new == Decide(kind, read)
           row == Saved(now, read, new)
<1>1. now \in WideRow /\ new \in WideRow
  BY DecidedSealed DEF Sealed
<1>2. /\ row \in WideRow
      /\ row.state = IF new.state # read.state THEN new.state ELSE now.state
      /\ row.secrets = IF new.secrets # read.secrets THEN new.secrets ELSE now.secrets
  BY <1>1, SavedColumns
<1>3. \/ new = read
      \/ ~ new.secrets /\ new.state \in Terminal
      \/ new.secrets = read.secrets /\ new.state \in {"queued", "running", "awaiting"}
  BY DecidedSealed
<1>4. {now.secrets, read.secrets, new.secrets} \subseteq BOOLEAN
  BY <1>1 DEF WideRow
<1> HIDE DEF new, row
<1>5. Seals(now, row)
  <2>1. CASE new = read
    BY <1>2, <2>1 DEF Seals, Sealed
  <2>2. CASE ~ new.secrets /\ new.state \in Terminal
    BY <1>2, <1>4, <2>2 DEF Seals, Sealed, Terminal
  <2>3. CASE new.secrets = read.secrets /\ new.state \in {"queued", "running", "awaiting"}
    BY <1>2, <2>3 DEF Seals, Sealed, Terminal
  <2> QED BY <1>3, <2>1, <2>2, <2>3
<1> QED BY <1>5 DEF row, new

LEMMA SealsWritten ==
  ASSUME SealInv, NEW l \in Lane, NEW h, ReadSealed(l, h, job)
  PROVE  Seals(job[h.job], Written(l, h))
<1>1. Sealed(job[h.job]) /\ job[h.job].state # "absent"
  BY DEF SealInv, ReadSealed
<1>2. CASE h.kind = "claim"
  <2>1. l \in Run
    BY <1>2 DEF ReadSealed, Conditional
  <2> QED BY <1>1, <1>2, <2>1, SealsClaim DEF Written
<1>3. CASE h.kind \in {"progress", "note"}
  BY <1>1, <1>3, SealsProgress DEF Written
<1>4. CASE h.kind \in Kind \ Conditional
  <2>1. Written(l, h) = Saved(job[h.job], h.row, Decide(h.kind, h.row))
    BY <1>4 DEF Written, Conditional
  <2> QED BY <1>1, <1>4, <2>1, SealsSave DEF ReadSealed
<1> QED BY <1>2, <1>3, <1>4 DEF ReadSealed, Conditional

(* Whatever a step does to the rows, handlers in flight can live with it.  *)
LEMMA SealedStep ==
  ASSUME SealInv, SealStep, job' = [j \in Job |-> job'[j]],
         open' = [j \in Job |-> open'[j]],
         \A j \in Job : open'[j] # {} => job'[j].state # "absent",
         works' \in [Run -> Job \cup {NoJob}],
         held' = [l \in Lane |-> held'[l]],
         \A l \in Lane : held'[l] \in {Idle, held[l]} \/ ReadSealed(l, held'[l], job)
  PROVE  SealInv'
<1>1. ASSUME NEW l \in Lane, held'[l] # Idle PROVE ReadSealed(l, held'[l], job')
  <2>1. ReadSealed(l, held'[l], job)
    BY <1>1 DEF SealInv
  <2> QED BY <2>1 DEF ReadSealed, SealStep, Seals
<1> QED BY <1>1 DEF SealInv, SealStep, Seals

(* The end of a handler.                                                   *)
LEMMA SealsFinish ==
  ASSUME SealInv, NEW l \in Lane, NEW h, ReadSealed(l, h, job), Finish(l, h)
  PROVE  /\ SealStep /\ job' = [j \in Job |-> job'[j]]
         /\ open' = [j \in Job |-> open'[j]]
         /\ \A j \in Job : open'[j] # {} => job'[j].state # "absent"
         /\ works' \in [Run -> Job \cup {NoJob}]
<1>1. h.job \in Job /\ job[h.job].state # "absent"
  BY DEF ReadSealed
<1>2. job' = [job EXCEPT ![h.job] = Written(l, h)]
  BY DEF Finish
<1>3. SealStep /\ job' = [j \in Job |-> job'[j]]
  BY <1>1, <1>2, SealsWritten, SealsSame DEF SealInv, SealStep
<1>4. open' = [j \in Job |-> open'[j]] /\ \A j \in Job \ {h.job} : open'[j] = open[j]
  BY DEF Finish, SealInv
<1>5. \A j \in Job : open'[j] # {} => job'[j].state # "absent"
  BY <1>1, <1>3, <1>4 DEF SealInv, SealStep, Seals
<1>6. works' \in [Run -> Job \cup {NoJob}]
  BY <1>1 DEF Finish, SealInv
<1> QED BY <1>3, <1>4, <1>5, <1>6

(* A handler in flight carries the secrets' fate of the row it read.       *)
LEMMA CarriedSealed ==
  ASSUME NEW row \in WideRow, NEW kind
  PROVE  Carried(kind, row) \in WideRow /\ Carried(kind, row).secrets = row.secrets
<1>1. CASE kind \in Conditional
  <2> DEFINE new == [row EXCEPT !.owner = Nobody, !.lease = "none", !.attempts = 0, !.latch = FALSE]
  <2>1. Carried(kind, row) = new
    BY <1>1 DEF Carried
  <2>2. new \in WideRow /\ new.secrets = row.secrets
    BY DEF WideRow
  <2> QED BY <2>1, <2>2
<1>2. CASE kind \notin Conditional
  BY <1>2 DEF Carried
<1> QED BY <1>1, <1>2

LEMMA SealsHandle ==
  ASSUME SealInv, NEW l \in Lane, NEW kind \in Kind, NEW j \in Job, NEW q,
         kind \in Conditional => l \in Run, job[j].state # "absent",
         Handle(l, Handler(kind, j, q))
  PROVE  SealInv'
<1> DEFINE h == Handler(kind, j, q)
<1>1. h.kind = kind /\ h.job = j /\ h.row = Carried(kind, job[j])
  BY DEF Handler
<1>6. h.row \in WideRow /\ h.row.secrets = job[j].secrets
  <2> HIDE DEF h
  <2>1. job[j] \in WideRow
    BY DEF SealInv, Sealed
  <2> QED BY <1>1, <2>1, CarriedSealed
<1>2. Handle(l, h)
  OBVIOUS
<1> HIDE DEF h
<1>3. ReadSealed(l, h, job)
  BY <1>1, <1>6 DEF ReadSealed
<1>4. CASE kind \in Overlap
  <2>1. held' = [held EXCEPT ![l] = h] /\ UNCHANGED <<job, open, works>>
    BY <1>1, <1>2, <1>4 DEF Handle, questions, agents
  <2>2. SealStep
    BY <2>1, SealsSame DEF SealInv, SealStep
  <2> QED BY <1>3, <2>1, <2>2, SealedStep DEF SealInv
<1>5. CASE kind \notin Overlap
  <2>1. Finish(l, h) /\ UNCHANGED held
    BY <1>1, <1>2, <1>5 DEF Handle
  <2> QED BY <1>3, <2>1, SealsFinish, SealedStep DEF SealInv
<1> QED BY <1>4, <1>5

LEMMA SealsSaved ==
  ASSUME SealInv, NEW l \in Lane, Save(l)
  PROVE  SealInv'
<1>1. ReadSealed(l, held[l], job) /\ Finish(l, held[l])
  BY DEF Save, SealInv
<1>2. held' = [held EXCEPT ![l] = Idle]
  BY DEF Save
<1> QED BY <1>1, <1>2, SealsFinish, SealedStep DEF SealInv

(* A step that touches nothing but rows and slots.                         *)
LEMMA SealsTable ==
  ASSUME SealInv, SealStep, job' = [j \in Job |-> job'[j]],
         works' \in [Run -> Job \cup {NoJob}], UNCHANGED <<open, held>>
  PROVE  SealInv'
<1>1. \A j \in Job : open'[j] # {} => job'[j].state # "absent"
  BY DEF SealInv, SealStep, Seals
<1> QED BY <1>1, SealedStep DEF SealInv

LEMMA SealsSlots ==
  ASSUME SealInv, NEW r \in Run, RunStep(r)
  PROVE  SealInv'
<1>0. r \in Lane
  BY DEF Lane
<1>1. CASE TryLease(r)
  BY <1>0, <1>1, SealsHandle DEF TryLease, Eligible, Kind
<1>2. Owns(r) => works[r] \in Job /\ job[works[r]].state # "absent"
  <2>1. AgentOf[r] # Nobody
    BY JobQueueAssumption
  <2> QED BY <2>1 DEF Owns, SealInv, Sealed
<1>3. CASE Progress(r) \/ Raise(r) \/ Report(r)
  <2>1. PICK kind \in Kind : Handle(r, Handler(kind, works[r], 0))
    BY <1>3 DEF Progress, Raise, Report, Kind
  <2> QED BY <1>0, <1>2, <1>3, <2>1, SealsHandle DEF Progress, Raise, Report
<1>4. CASE RenewLease(r)
  <2> DEFINE j == works[r]
             new == [job[j] EXCEPT !.lease = "live"]
  <2>1. j \in Job /\ Sealed(job[j])
    BY <1>2, <1>4 DEF RenewLease, SealInv
  <2>2. Seals(job[j], new)
    BY <2>1 DEF Seals, Sealed, WideRow
  <2>3. job' = [job EXCEPT ![j] = new] /\ UNCHANGED <<open, held, works>>
    BY <1>4 DEF RenewLease, questions, agents
  <2> HIDE DEF j, new
  <2>4. SealStep
    BY <2>1, <2>2, <2>3, SealsSame DEF SealInv, SealStep
  <2> QED BY <2>3, <2>4, SealsTable DEF SealInv
<1>5. CASE Submit(r) \/ LeaseLost(r) \/ DropProgress(r) \/ Crash(r)
  <2>1. UNCHANGED <<job, open, held>> /\ works' \in [Run -> Job \cup {NoJob}]
    BY <1>5 DEF Submit, LeaseLost, DropProgress, Crash, questions, SealInv
  <2>2. SealStep
    BY <2>1, SealsSame DEF SealInv, SealStep
  <2> QED BY <2>1, <2>2, SealsTable DEF SealInv
<1> QED BY <1>1, <1>3, <1>4, <1>5 DEF RunStep

LEMMA SealsUsers ==
  ASSUME SealInv, NEW j \in Job, Answer(j) \/ Cancel(j) \/ FailUnanswered(j)
  PROVE  SealInv'
<1>1. {"user", "sweeper"} \subseteq Lane
  BY DEF Lane
<1>2. job[j].state # "absent"
  BY DEF Answer, Cancel, FailUnanswered, SealInv
<1>3. CASE Answer(j)
  BY <1>1, <1>2, <1>3, SealsHandle DEF Answer, Kind, Conditional
<1>4. CASE Cancel(j)
  BY <1>1, <1>2, <1>4, SealsHandle DEF Cancel, Kind, Conditional
<1>5. CASE FailUnanswered(j)
  BY <1>1, <1>2, <1>5, SealsHandle DEF FailUnanswered, Kind, Conditional
<1> QED BY <1>3, <1>4, <1>5

LEMMA SealsTime ==
  ASSUME SealInv, NEW j \in Job, Enqueue(j) \/ LeaseRunsOut(j) \/ ExpireAbandoned(j)
  PROVE  SealInv'
<1>0. Sealed(job[j])
  BY DEF SealInv
<1>1. PICK new : job' = [job EXCEPT ![j] = new] /\ Seals(job[j], new)
  <2>1. CASE Enqueue(j)
    <3> DEFINE row == [job[j] EXCEPT !.state = "queued", !.secrets = TRUE]
    <3>1. job' = [job EXCEPT ![j] = row] /\ job[j].state = "absent"
      BY <2>1 DEF Enqueue
    <3>2. Seals(job[j], row)
      BY <1>0, <3>1 DEF Seals, Sealed, WideRow, Active, Terminal
    <3> QED BY <3>1, <3>2
  <2>2. CASE LeaseRunsOut(j)
    <3> DEFINE row == [job[j] EXCEPT !.lease = "over"]
    <3>1. job' = [job EXCEPT ![j] = row]
      BY <2>2 DEF LeaseRunsOut
    <3>2. Seals(job[j], row)
      BY <1>0 DEF Seals, Sealed, WideRow
    <3> QED BY <3>1, <3>2
  <2>3. CASE ExpireAbandoned(j)
    <3> DEFINE row == [job[j] EXCEPT !.state = "failed", !.secrets = FALSE]
    <3>1. job' = [job EXCEPT ![j] = row]
      BY <2>3 DEF ExpireAbandoned
    <3>2. Seals(job[j], row)
      BY <1>0 DEF Seals, Sealed, WideRow, Terminal
    <3> QED BY <3>1, <3>2
  <2> QED BY <2>1, <2>2, <2>3
<1>2. SealStep /\ job' = [k \in Job |-> job'[k]]
  BY <1>1, SealsSame DEF SealInv, SealStep
<1>3. UNCHANGED <<open, held, works>>
  BY DEF Enqueue, LeaseRunsOut, ExpireAbandoned, questions, agents
<1> QED BY <1>2, <1>3, SealsTable DEF SealInv

LEMMA SealsSweep ==
  ASSUME SealInv, RequeueExpired
  PROVE  SealInv'
<1>1. ASSUME NEW j \in Job PROVE Seals(job[j], job'[j])
  <2>1. Sealed(job[j])
    BY DEF SealInv
  <2>2. job'[j] \in {job[j], Requeued(job[j]), Ended(job[j], "failed")}
    BY DEF RequeueExpired
  <2>3. Seals(job[j], Requeued(job[j])) /\ Seals(job[j], Ended(job[j], "failed"))
    BY <2>1 DEF Seals, Sealed, WideRow, Requeued, Ended, Terminal
  <2> QED BY <2>1, <2>2, <2>3, SealsSame
<1>2. job' = [j \in Job |-> job'[j]] /\ UNCHANGED <<open, held, works>>
  BY DEF RequeueExpired, questions, agents
<1> QED BY <1>1, <1>2, SealsTable DEF SealStep, SealInv

LEMMA SealAlways == Spec => []SealInv
<1>1. Init => SealInv
  <2> SUFFICES ASSUME Init PROVE SealInv
    OBVIOUS
  <2>1. \A j \in Job : Sealed(job[j])
    BY DEF Init, Sealed, WideRow, Terminal
  <2> QED BY <2>1 DEF Init, SealInv
<1>2. SealInv /\ [Next]_vars => SealInv'
  <2> SUFFICES ASSUME SealInv, [Next]_vars PROVE SealInv'
    OBVIOUS
  <2>1. ASSUME NEW j \in Job, QuestionExpires(j) PROVE SealInv'
    <3>1. \A k \in Job : open'[k] \subseteq open[k]
      BY <2>1 DEF QuestionExpires, SealInv
    <3>2. open' = [k \in Job |-> open'[k]] /\ UNCHANGED <<job, held, works>>
      BY <2>1 DEF QuestionExpires, SealInv, agents
    <3> QED BY <3>1, <3>2 DEF SealInv
  <2>2. CASE UNCHANGED vars
    BY <2>2 DEF vars, questions, agents, SealInv
  <2> QED BY <2>1, <2>2, SealsSlots, SealsUsers, SealsTime, SealsSweep, SealsSaved DEF Next
<1> QED BY <1>1, <1>2, PTL DEF Spec

(* No path to an end leaves the user's credentials behind, whichever       *)
(* handlers interleave: not even a save over a row that another handler    *)
(* had requeued, ended or leased again in between.                         *)
THEOREM SecretsForgotten == Spec => []NoSecretsAtRest
<1>1. SealInv => NoSecretsAtRest
  BY DEF SealInv, Sealed, NoSecretsAtRest
<1> QED BY <1>1, SealAlways, PTL
=============================================================================
