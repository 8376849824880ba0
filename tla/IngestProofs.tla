---------------------------- MODULE IngestProofs ----------------------------
(***************************************************************************)
(* Safety of the ingest, for any references, jobs, callers and contents.   *)
(***************************************************************************)
EXTENDS Ingest, TLAPS

Row == [ref : Ref, val : 1 .. MaxContent, job : Job]

(* A request that is not idle.                                             *)
Begun == [at : {"waiting", "read", "filed", "predicted", "acked", "settled"},
          how : {"sync", "collect"}, job : Job, page : SUBSET Row,
          whole : BOOLEAN, crossed : BOOLEAN, was : SUBSET Held]

Shapes ==
  /\ party \in [Ref -> 0 .. Gone]
  /\ jobs \in [Job -> {"none", "running", "whole", "partial"}]
  /\ staged \in SUBSET Row
  /\ calls \in [Call -> {Idle, Asking} \cup Begun]
  /\ filed \in SUBSET (Ref \X (1 .. MaxContent))
  /\ feed \in [Ref -> [val : 0 .. MaxContent, dead : BOOLEAN]]
  /\ tracked \in SUBSET Held
  /\ opinion \in [Booked -> {"nobody", "predictor", "person"}]
  /\ faults \in 0 .. MaxFaults

(* One staged row per reference, and the feed shows what was filed.        *)
Rows ==
  /\ \A s, t \in staged : s.ref = t.ref => s = t
  /\ \A r \in Ref : feed[r].val # 0 <=> \E v \in 1 .. MaxContent : <<r, v>> \in filed

(* Contents age on their way: the feed's is no newer than the staged one,  *)
(* a page's neither, and nothing is newer than the party's.                *)
Ages ==
  /\ \A p \in Held : party[p] \in {0, 1, Gone}
  /\ \A r \in Ref : feed[r].val <= party[r]
  /\ \A s \in staged : s.val <= party[s.ref] /\ feed[s.ref].val <= s.val
  /\ \A c \in Call : Busy(c) => \A s \in calls[c].page :
       /\ s.val <= party[s.ref]
       /\ \A t \in staged : t.ref = s.ref => s.val <= t.val

(* A request that holds a page holds all that is left of its job's rows.   *)
Pages ==
  \A c \in Call : Busy(c) =>
    /\ jobs[calls[c].job] # "none"
    /\ calls[c].at # "waiting" => Finished(calls[c].job) /\ PageOf(calls[c].job) \subseteq calls[c].page
    /\ calls[c].at \in {"filed", "predicted", "acked", "settled"} =>
         \A s \in calls[c].page : <<s.ref, s.val>> \in filed
    /\ calls[c].at = "read" /\ ~ calls[c].crossed =>
         \A s \in calls[c].page : feed[s.ref].val <= s.val

(* The rows a sync will find, or has found, are the pending rows that are  *)
(* mirrored and still reported, unless another request crossed it.         *)
Mirrored(p) == party[p] = 1 /\ feed[p].val # 0

Uncrossed(c) == Busy(c) /\ calls[c].how = "sync" /\ ~ calls[c].crossed

(* No other request for the same job has filed a page yet ...              *)
Alone(c) ==
  \A d \in Call \ {c} :
    Busy(d) /\ calls[d].job = calls[c].job => calls[d].at \in {"waiting", "read"}

(* ... and so every such row is staged for it, then on its page.           *)
Found(c) ==
  \A p \in Held : Mirrored(p) =>
    /\ calls[c].at = "waiting" /\ jobs[calls[c].job] = "whole" =>
         \E s \in staged : s.ref = p /\ s.job = calls[c].job
    /\ calls[c].at # "waiting" /\ calls[c].whole => \E s \in calls[c].page : s.ref = p

Wholes == \A c \in Call : Uncrossed(c) => Alone(c) /\ Found(c)

IngestInv == Shapes /\ Rows /\ Ages /\ Pages /\ Wholes

----------------------------------------------------------------------------
LEMMA IngestInit == Init => IngestInv
BY IngestAssumption DEF Init, IngestInv, Shapes, Rows, Ages, Pages, Wholes, Alone, Found, Uncrossed, Busy,
   Idle, Asking, Gone, Ref

LEMMA AppearsOK == ASSUME IngestInv, NEW r \in Ref, Appears(r) PROVE IngestInv'
<1> USE IngestAssumption DEF IngestInv, Appears
<1>1. Shapes'
  BY DEF Shapes, Gone
<1>2. Rows'
  BY DEF Rows
<1>3. Ages'
  BY DEF Shapes, Ages, Busy, Gone, Ref, Row, Begun, Idle, Asking
<1>4. Pages'
  BY DEF Pages, Busy, Finished, PageOf
<1>5. Wholes'
  BY DEF Shapes, Wholes, Alone, Found, Ages, Uncrossed, Mirrored, Busy, PageOf, Ref
<1> QED BY <1>1, <1>2, <1>3, <1>4, <1>5

LEMMA RewordedOK == ASSUME IngestInv, NEW b \in Booked, Reworded(b) PROVE IngestInv'
<1> USE IngestAssumption DEF IngestInv, Reworded
<1>1. Shapes'
  BY DEF Shapes, Gone, Ref
<1>2. Rows'
  BY DEF Rows
<1>3. Ages'
  BY DEF Shapes, Ages, Busy, Gone, Ref, Row, Begun, Idle, Asking
<1>4. Pages'
  BY DEF Pages, Busy, Finished, PageOf
<1>5. Wholes'
  BY DEF Shapes, Wholes, Alone, Found, Ages, Uncrossed, Mirrored, Busy, PageOf, Ref
<1> QED BY <1>1, <1>2, <1>3, <1>4, <1>5

LEMMA DisappearsOK == ASSUME IngestInv, NEW p \in Held, Disappears(p) PROVE IngestInv'
<1> USE IngestAssumption DEF IngestInv, Disappears
<1>1. Shapes'
  BY DEF Shapes, Gone, Ref
<1>2. Rows'
  BY DEF Rows
<1>3. Ages'
  BY DEF Shapes, Ages, Busy, Gone, Ref, Row, Begun, Idle, Asking
<1>4. Pages'
  BY DEF Pages, Busy, Finished, PageOf
<1>5. Wholes'
  BY DEF Shapes, Wholes, Alone, Found, Ages, Uncrossed, Mirrored, Busy, PageOf, Ref, Gone
<1> QED BY <1>1, <1>2, <1>3, <1>4, <1>5

LEMMA DecidesOK == ASSUME IngestInv, NEW b \in Booked, Decides(b) PROVE IngestInv'
<1> USE DEF IngestInv, Decides
<1>1. Shapes'
  BY DEF Shapes
<1>2. Rows' /\ Ages' /\ Pages' /\ Wholes'
  BY DEF Rows, Ages, Pages, Wholes, Busy, Finished, PageOf, Alone, Found, Uncrossed, Mirrored
<1> QED BY <1>1, <1>2

LEMMA DeletesOK == ASSUME IngestInv, NEW b \in Booked, Deletes(b) PROVE IngestInv'
<1> USE DEF IngestInv, Deletes
<1>1. Shapes'
  BY DEF Shapes, Ref
<1>2. \A r \in Ref : feed'[r].val = feed[r].val
  BY DEF Shapes, Ref
<1>3. Rows'
  BY <1>2 DEF Rows
<1>4. Ages'
  BY <1>2 DEF Shapes, Ages, Busy, Row, Begun, Idle, Asking
<1>5. Pages'
  BY <1>2 DEF Shapes, Pages, Busy, Finished, PageOf, Row, Begun, Idle, Asking
<1>6. Wholes'
  BY <1>2 DEF Wholes, Alone, Found, Uncrossed, Mirrored, Busy, PageOf, Ref
<1> QED BY <1>1, <1>3, <1>4, <1>5, <1>6

----------------------------------------------------------------------------
(* The control plane.                                                      *)

LEMMA FailsOK == ASSUME IngestInv, NEW j \in Job, Fails(j) PROVE IngestInv'
<1> USE DEF IngestInv, Fails, Wrong
<1>1. Shapes'
  BY IngestAssumption DEF Shapes
<1>2. \A c \in Call : Busy(c)' => Busy(c) /\ calls'[c] = calls[c] /\ calls[c].job # j
  BY DEF Shapes, Busy, Idle, Asking, Begun
<1>3. Rows' /\ Ages'
  BY <1>2 DEF Rows, Ages, Busy
<1>4. Pages'
  BY <1>2 DEF Shapes, Pages, Busy, Finished, PageOf, Begun, Idle, Asking
<1>5. Wholes'
  BY <1>2 DEF Shapes, Wholes, Alone, Found, Uncrossed, Mirrored, Busy, PageOf, Begun, Idle, Asking
<1> QED BY <1>1, <1>3, <1>4, <1>5

LEMMA SweepsOK == ASSUME IngestInv, NEW j \in Job, Sweeps(j) PROVE IngestInv'
<1> USE DEF IngestInv, Sweeps, Wrong
<1>1. Shapes'
  BY IngestAssumption DEF Shapes
<1>2. staged' \subseteq staged /\ \A s \in staged \ staged' : s.job = j
  BY DEF PageOf
<1>3. Rows'
  BY <1>2 DEF Rows
<1>4. Ages'
  BY <1>2 DEF Shapes, Ages, Busy
<1>5. Pages'
  BY <1>2 DEF Shapes, Pages, Busy, Finished, PageOf
<1>6. Wholes'
  BY <1>2 DEF Shapes, Wholes, Alone, Found, Uncrossed, Mirrored, Busy, PageOf
<1> QED BY <1>1, <1>3, <1>4, <1>5, <1>6

LEMMA EnqueuesOK == ASSUME IngestInv, NEW c \in Call, Enqueues(c) PROVE IngestInv'
<1> USE DEF IngestInv
<1>0. PICK j \in Job : /\ Spent(j) /\ jobs' = [jobs EXCEPT ![j] = "running"]
                       /\ calls' = [calls EXCEPT ![c] = Began(j, "sync")]
  BY DEF Enqueues
<1>1. UNCHANGED <<party, staged, filed, feed, tracked, opinion, faults>>
  BY DEF Enqueues
<1>2. Began(j, "sync") \in Begun
  BY DEF Began, Begun
<1>3. Shapes'
  BY <1>0, <1>1, <1>2 DEF Shapes
<1>4. \A d \in Call : Busy(d) => calls[d].job # j
  BY <1>0 DEF Spent, Pages
<1>5. \A d \in Call \ {c} : calls'[d] = calls[d]
  BY <1>0 DEF Shapes
<1>6. calls'[c] = Began(j, "sync") /\ jobs'[j] = "running" /\ \A k \in Job \ {j} : jobs'[k] = jobs[k]
  BY <1>0 DEF Shapes
<1>7. Rows' /\ Ages'
  BY <1>1, <1>5, <1>6 DEF Rows, Ages, Busy, Began
<1>8. Pages'
  BY <1>1, <1>4, <1>5, <1>6 DEF Shapes, Pages, Busy, Finished, PageOf, Began, Begun, Idle, Asking
<1>9. Wholes'
  <2> SUFFICES ASSUME NEW d \in Call, Uncrossed(d)' PROVE Alone(d)' /\ Found(d)'
    BY DEF Wholes
  <2>1. CASE d = c
    BY <2>1, <1>4, <1>5, <1>6 DEF Busy, Began, Alone, Found
  <2>2. CASE d # c
    <3>1. Uncrossed(d) /\ calls'[d] = calls[d] /\ calls[d].job \in Job /\ calls[d].job # j
      BY <2>2, <1>4, <1>5 DEF Shapes, Uncrossed, Busy, Begun, Idle, Asking
    <3>2. Alone(d)'
      BY <3>1, <1>5, <1>6 DEF Wholes, Alone, Busy, Began
    <3>3. Found(d)'
      BY <3>1, <1>1, <1>6 DEF Wholes, Found, Mirrored
    <3> QED BY <3>2, <3>3
  <2> QED BY <2>1, <2>2
<1> QED BY <1>3, <1>7, <1>8, <1>9

LEMMA CeasesOK ==
  ASSUME IngestInv, NEW c \in Call, NEW still \in {Idle, Asking},
         calls' = [calls EXCEPT ![c] = still], faults' \in 0 .. MaxFaults, tracked' \in SUBSET Held,
         UNCHANGED <<party, jobs, staged, filed, feed, opinion>>
  PROVE  IngestInv'
<1> USE DEF IngestInv
<1>1. Shapes'
  BY DEF Shapes
<1>2. \A d \in Call : Busy(d)' => Busy(d) /\ calls'[d] = calls[d]
  BY DEF Shapes, Busy, Idle, Asking
<1>3. Rows' /\ Ages'
  BY <1>2 DEF Rows, Ages, Busy
<1>4. Pages'
  BY <1>2 DEF Pages, Busy, Finished, PageOf
<1>5. Wholes'
  BY <1>2 DEF Wholes, Alone, Found, Uncrossed, Mirrored, Busy, PageOf
<1> QED BY <1>1, <1>3, <1>4, <1>5

LEMMA AsksOK ==
  ASSUME IngestInv, NEW c \in Call, Asks(c) \/ Outruns(c) \/ Crashes(c) PROVE IngestInv'
<1>1. faults' \in 0 .. MaxFaults /\ tracked' \in SUBSET Held
  BY IngestAssumption DEF IngestInv, Shapes, Asks, Outruns, Crashes, Wrong
<1> QED BY <1>1, CeasesOK DEF Asks, Outruns, Crashes

LEMMA RemembersOK == ASSUME IngestInv, NEW c \in Call, Remembers(c) PROVE IngestInv'
<1>1. calls[c] \in Begun /\ tracked \in SUBSET Held /\ faults \in 0 .. MaxFaults
  BY DEF IngestInv, Shapes, Remembers, Busy, Idle, Asking
<1>2. tracked' \in SUBSET Held
  BY <1>1 DEF Remembers, Pending
<1> QED BY <1>1, <1>2, CeasesOK DEF Remembers

(* Only the job's own rows take the words of this moment, and a sync that  *)
(* waits for another job has crossed it.                                   *)
LEMMA RunsOK == ASSUME IngestInv, NEW j \in Job, Runs(j) PROVE IngestInv'
<1> USE DEF IngestInv
<1>1. PICK R \in SUBSET Reported :
        /\ staged' = Restaged(j, R)
        /\ \/ jobs' = [jobs EXCEPT ![j] = "whole"] /\ R = Reported
           \/ jobs' = [jobs EXCEPT ![j] = "partial"]
  BY DEF Runs
<1>2. /\ UNCHANGED <<party, filed, feed, tracked, opinion>> /\ faults' \in 0 .. MaxFaults
      /\ calls' = Crossing({c \in Call : calls[c].at = "waiting" /\ calls[c].job # j})
  BY IngestAssumption DEF Runs, Wrong, Shapes
<1>3. \A c \in Call :
        \/ calls'[c] = calls[c]
        \/ /\ calls[c].at = "waiting" /\ calls[c].job # j
           /\ calls'[c] = [calls[c] EXCEPT !.crossed = TRUE]
  BY <1>2 DEF Crossing
<1>4. \A c \in Call : calls[c].at = "waiting" => calls[c] \in Begun
  BY DEF Shapes, Idle, Asking
<1>5. \A c \in Call : /\ Busy(c)' <=> Busy(c)
                      /\ Busy(c) => /\ calls'[c].job = calls[c].job /\ calls'[c].at = calls[c].at
                                    /\ calls'[c].page = calls[c].page /\ calls'[c].how = calls[c].how
                                    /\ calls'[c].whole = calls[c].whole
                                    /\ ~ calls'[c].crossed => ~ calls[c].crossed
  BY <1>3, <1>4 DEF Busy, Begun
<1>6. \A c \in Call : Busy(c) /\ ~ calls'[c].crossed /\ calls[c].at = "waiting" => calls[c].job = j
  BY <1>2, <1>4 DEF Busy, Begun, Crossing
<1>7. R \subseteq Ref /\ \A r \in R : party[r] \in 1 .. MaxContent
  BY DEF Reported
<1>8. \A s \in staged' :
        \/ s \in staged /\ s.ref \notin R
        \/ s.ref \in R /\ s.val = party[s.ref] /\ s.job = j
  BY <1>1 DEF Restaged
<1>9. Shapes'
  <2>1. staged' \in SUBSET Row
    BY <1>1, <1>7 DEF Restaged, Shapes, Row
  <2>2. jobs' \in [Job -> {"none", "running", "whole", "partial"}]
    BY <1>1 DEF Shapes
  <2>3. calls' \in [Call -> {Idle, Asking} \cup Begun]
    <3>1. ASSUME NEW c \in Call PROVE calls'[c] \in {Idle, Asking} \cup Begun
      <4>1. CASE calls'[c] = calls[c]
        BY <4>1 DEF Shapes
      <4>2. CASE calls[c].at = "waiting" /\ calls'[c] = [calls[c] EXCEPT !.crossed = TRUE]
        <5>1. calls[c] \in Begun
          BY <1>4, <4>2
        <5> QED BY <4>2, <5>1 DEF Begun
      <4> QED BY <1>3, <4>1, <4>2
    <3> QED BY <3>1, <1>2 DEF Crossing
  <2> QED BY <1>2, <2>1, <2>2, <2>3 DEF Shapes
<1>10. Rows'
  <2>1. \A s, t \in staged' : s.ref = t.ref => s = t
    BY <1>1 DEF Restaged, Rows
  <2> QED BY <1>2, <2>1 DEF Rows
<1>11. Ages'
  <2>1. \A s \in staged' : s.val <= party[s.ref] /\ feed[s.ref].val <= s.val
    BY <1>7, <1>8 DEF Ages, Shapes
  <2>2. \A c \in Call : Busy(c) => \A s \in calls[c].page :
          s.val <= party[s.ref] /\ \A t \in staged' : t.ref = s.ref => s.val <= t.val
    BY <1>8 DEF Ages
  <2> QED BY <1>2, <1>5, <2>1, <2>2 DEF Ages
<1>12. \A k \in Job \ {j} : jobs'[k] = jobs[k] /\ PageOf(k)' \subseteq PageOf(k)
  BY <1>1, <1>8 DEF Shapes, PageOf
<1>13. jobs[j] = "running" /\ jobs'[j] \in {"whole", "partial"}
  BY <1>1 DEF Runs, Shapes
<1>14. Pages'
  <2> SUFFICES ASSUME NEW c \in Call, Busy(c)
      PROVE /\ jobs'[calls[c].job] # "none"
            /\ calls[c].at # "waiting" => Finished(calls[c].job)' /\ PageOf(calls[c].job)' \subseteq calls[c].page
            /\ calls[c].at \in {"filed", "predicted", "acked", "settled"} =>
                 \A s \in calls[c].page : <<s.ref, s.val>> \in filed
            /\ calls[c].at = "read" /\ ~ calls'[c].crossed =>
                 \A s \in calls[c].page : feed[s.ref].val <= s.val
    BY <1>2, <1>5 DEF Pages
  <2>1. calls[c].job \in Job
    BY DEF Shapes, Busy, Begun, Idle, Asking
  <2>2. calls[c].at # "waiting" => calls[c].job # j
    BY <1>13 DEF Pages, Finished
  <2> QED BY <1>5, <1>12, <1>13, <2>1, <2>2 DEF Pages, Finished
<1>15. Wholes'
  <2> SUFFICES ASSUME NEW c \in Call, Uncrossed(c)' PROVE Alone(c)' /\ Found(c)'
    BY DEF Wholes
  <2>1. Uncrossed(c) /\ Busy(c)
    BY <1>5 DEF Uncrossed
  <2>2. Alone(c)'
    BY <1>5, <2>1 DEF Wholes, Alone
  <2>3. ASSUME NEW p \in Held, Mirrored(p), calls[c].at = "waiting", jobs'[calls[c].job] = "whole"
        PROVE  \E s \in staged' : s.ref = p /\ s.job = calls[c].job
    <3>1. calls[c].job = j /\ R = Reported
      BY <1>1, <1>6, <2>1, <2>3, <1>13 DEF Uncrossed, Shapes
    <3>2. p \in Reported
      BY <2>3, IngestAssumption DEF Mirrored, Reported, Ref
    <3> DEFINE s == [ref |-> p, val |-> party[p], job |-> j]
    <3>3. s \in staged'
      BY <1>1, <3>1, <3>2 DEF Restaged
    <3> QED BY <3>1, <3>3
  <2>4. Found(c)'
    BY <1>2, <1>5, <2>1, <2>3 DEF Wholes, Found, Mirrored
  <2> QED BY <2>2, <2>4
<1> QED BY <1>9, <1>10, <1>11, <1>14, <1>15

----------------------------------------------------------------------------
(* The relay.                                                              *)

(* A request that takes the page of its job finds it no older than the     *)
(* feed, and if it waited undisturbed, with every mirrored row on it.      *)
LEMMA TakesPageOK ==
  ASSUME IngestInv, NEW c \in Call, NEW call \in Begun, Finished(call.job),
         call.at = "waiting", call.how = "sync" => Busy(c) /\ calls[c] = call,
         calls' = [calls EXCEPT ![c] = Holding(call)],
         ~ Busy(c) \/ calls[c] = call,
         UNCHANGED <<party, jobs, staged, filed, feed, tracked, opinion, faults>>
  PROVE  IngestInv'
<1> USE DEF IngestInv
<1> DEFINE new == Holding(call)
<1>1. /\ new.at = "read" /\ new.how = call.how /\ new.job = call.job /\ new.crossed = call.crossed
      /\ new.page = PageOf(call.job) /\ new.whole = (jobs[call.job] = "whole")
  BY DEF Holding, Begun
<1>2. new \in Begun
  BY DEF Shapes, PageOf, Holding, Begun
<1>3. calls'[c] = new /\ \A d \in Call \ {c} : calls'[d] = calls[d]
  BY DEF Shapes
<1> HIDE DEF new
<1>4. Shapes'
  BY <1>2, <1>3 DEF Shapes
<1>5. Busy(c)' /\ \A d \in Call \ {c} : Busy(d)' <=> Busy(d)
  BY <1>1, <1>3 DEF Busy
<1>6. Rows' /\ Ages'
  <2>1. \A s \in new.page : s \in staged
    BY <1>1 DEF PageOf
  <2>2. \A s \in new.page :
          s.val <= party[s.ref] /\ \A t \in staged : t.ref = s.ref => s.val <= t.val
    BY <2>1 DEF Rows, Ages, Shapes, Row
  <2> QED BY <1>3, <1>5, <2>2 DEF Rows, Ages
<1>7. Pages'
  <2>1. ASSUME NEW d \in Call \ {c}, Busy(d)
        PROVE  /\ jobs[calls[d].job] # "none"
               /\ calls[d].at # "waiting" => Finished(calls[d].job) /\ PageOf(calls[d].job) \subseteq calls[d].page
               /\ calls[d].at \in {"filed", "predicted", "acked", "settled"} =>
                    \A s \in calls[d].page : <<s.ref, s.val>> \in filed
               /\ calls[d].at = "read" /\ ~ calls[d].crossed =>
                    \A s \in calls[d].page : feed[s.ref].val <= s.val
    BY <2>1 DEF Pages
  <2>2. \A s \in new.page : s \in staged /\ feed[s.ref].val <= s.val
    BY <1>1 DEF PageOf, Ages
  <2>3. jobs[new.job] # "none" /\ Finished(new.job) /\ PageOf(new.job) \subseteq new.page
    BY <1>1 DEF Finished
  <2> QED BY <1>1, <1>3, <1>5, <2>1, <2>2, <2>3 DEF Pages, Finished, PageOf
<1>8. Wholes'
  <2> SUFFICES ASSUME NEW d \in Call, Uncrossed(d)' PROVE Alone(d)' /\ Found(d)'
    BY DEF Wholes
  <2>1. Uncrossed(d)
    BY <1>1, <1>3, <1>5 DEF Uncrossed
  <2>2. Alone(d) /\ Found(d) /\ calls'[d].job = calls[d].job
    BY <1>1, <1>3, <2>1 DEF Wholes, Uncrossed
  <2>3. Alone(d)'
    BY <1>1, <1>3, <1>5, <2>2 DEF Alone
  <2>4. CASE d = c
    <3>1. calls[c] = call
      BY <1>1, <1>3, <2>4 DEF Uncrossed
    <3>2. \A s \in staged : s.job = call.job => s \in new.page
      BY <1>1 DEF PageOf
    <3> QED BY <1>1, <1>3, <2>2, <2>3, <2>4, <3>1, <3>2 DEF Found, Mirrored
  <2>5. CASE d # c
    BY <1>3, <2>2, <2>3, <2>5 DEF Found, Mirrored
  <2> QED BY <2>4, <2>5
<1> QED BY <1>4, <1>6, <1>7, <1>8

LEMMA ReadsOK == ASSUME IngestInv, NEW c \in Call, Reads(c) PROVE IngestInv'
<1>1. calls[c] \in Begun
  BY DEF IngestInv, Shapes, Reads, Busy, Idle, Asking
<1> QED BY <1>1, TakesPageOK DEF Reads

LEMMA CollectsOK ==
  ASSUME IngestInv, NEW c \in Call, NEW j \in Job, Collects(c, j) PROVE IngestInv'
<1> DEFINE call == Began(j, "collect")
<1>1. call \in Begun /\ call.job = j /\ call.at = "waiting" /\ call.how = "collect"
  BY DEF Began, Begun
<1>2. calls' = [calls EXCEPT ![c] = Holding(call)]
  BY DEF Collects
<1>3. ~ Busy(c)
  BY DEF Collects, Busy, Idle
<1> HIDE DEF call
<1> QED BY <1>1, <1>2, <1>3, TakesPageOK DEF Collects

(* A request that goes on with the page it holds.                          *)
LEMMA StepsOK ==
  ASSUME IngestInv, NEW c \in Call, Busy(c), NEW at \in {"predicted", "acked"},
         calls[c].at \in {"filed", "predicted"},
         calls' = Put(c, at), staged' \in {staged, Acked(calls[c].job)},
         opinion' \in [Booked -> {"nobody", "predictor", "person"}], faults' \in 0 .. MaxFaults,
         UNCHANGED <<party, jobs, filed, feed, tracked>>
  PROVE  IngestInv'
<1> USE DEF IngestInv
<1>1. calls[c] \in Begun
  BY DEF Shapes, Busy, Idle, Asking
<1> DEFINE new == [calls[c] EXCEPT !.at = at]
<1>2. /\ new \in Begun /\ new.at = at /\ new.how = calls[c].how /\ new.job = calls[c].job
      /\ new.page = calls[c].page /\ new.whole = calls[c].whole /\ new.crossed = calls[c].crossed
  BY <1>1 DEF Begun
<1>3. calls'[c] = new /\ \A d \in Call \ {c} : calls'[d] = calls[d]
  BY DEF Shapes, Put
<1>4. calls' \in [Call -> {Idle, Asking} \cup Begun]
  BY <1>2 DEF Shapes, Put
<1> HIDE DEF new
<1>5. \A d \in Call :
        /\ Busy(d)' <=> Busy(d)
        /\ calls'[d].how = calls[d].how /\ calls'[d].job = calls[d].job
        /\ calls'[d].page = calls[d].page /\ calls'[d].whole = calls[d].whole
        /\ calls'[d].crossed = calls[d].crossed
        /\ calls'[d].at \in {"waiting", "read"} <=> calls[d].at \in {"waiting", "read"}
        /\ calls'[d].at = "waiting" <=> calls[d].at = "waiting"
        /\ calls'[d].at = "read" <=> calls[d].at = "read"
        /\ calls'[d].at \in {"filed", "predicted", "acked", "settled"} <=> calls[d].at \in {"filed", "predicted", "acked", "settled"}
  BY <1>2, <1>3 DEF Busy
<1>6. staged' \subseteq staged /\ \A s \in staged \ staged' : s.job = calls[c].job
  BY DEF Acked, PageOf
<1>7. Shapes'
  BY <1>4, <1>6 DEF Shapes
<1>8. Rows'
  BY <1>6 DEF Rows
<1>9. Ages'
  BY <1>5, <1>6 DEF Ages
<1>10. Pages'
  BY <1>5, <1>6 DEF Pages, Finished, PageOf
<1>11. Wholes'
  <2> SUFFICES ASSUME NEW d \in Call, Uncrossed(d)' PROVE Alone(d)' /\ Found(d)'
    BY DEF Wholes
  <2>1. Uncrossed(d)
    BY <1>5 DEF Uncrossed
  <2>2. Alone(d) /\ Found(d)
    BY <2>1 DEF Wholes
  <2>3. Alone(d)'
    BY <1>5, <2>2 DEF Alone
  <2>4. calls[d].at = "waiting" => calls[d].job # calls[c].job
    BY <2>2 DEF Alone
  <2>5. Found(d)'
    BY <1>5, <1>6, <2>2, <2>4 DEF Found, Mirrored
  <2> QED BY <2>3, <2>5
<1> QED BY <1>7, <1>8, <1>9, <1>10, <1>11

LEMMA PredictsOK == ASSUME IngestInv, NEW c \in Call, Predicts(c) PROVE IngestInv'
<1>1. opinion' \in [Booked -> {"nobody", "predictor", "person"}]
  BY DEF IngestInv, Shapes, Predicts, Overlaid
<1> QED BY <1>1, StepsOK DEF Predicts, IngestInv, Shapes

LEMMA AcknowledgesOK == ASSUME IngestInv, NEW c \in Call, Acknowledges(c) PROVE IngestInv'
<1>1. faults' \in 0 .. MaxFaults
  BY IngestAssumption DEF IngestInv, Shapes, Acknowledges, Wrong
<1> QED BY <1>1, StepsOK DEF Acknowledges, IngestInv, Shapes

(* What filing makes of a row: nothing, or what some op of the page says.  *)
LEMMA FeedAfterOK ==
  ASSUME Shapes, NEW S \in SUBSET Row
  PROVE  /\ FeedAfter(S) \in [Ref -> [val : 0 .. MaxContent, dead : BOOLEAN]]
         /\ \A r \in Ref : \/ FeedAfter(S)[r] = feed[r] /\ \A s \in S : s.ref # r
                          \/ \E s \in S : s.ref = r /\ FeedAfter(S)[r] = [val |-> s.val, dead |-> FALSE]
<1>1. ASSUME NEW r \in Ref
      PROVE  /\ FeedAfter(S)[r] \in [val : 0 .. MaxContent, dead : BOOLEAN]
             /\ \/ FeedAfter(S)[r] = feed[r] /\ \A s \in S : s.ref # r
                \/ \E s \in S : s.ref = r /\ FeedAfter(S)[r] = [val |-> s.val, dead |-> FALSE]
  <2>1. CASE \E s \in S : s.ref = r
    <3> DEFINE s == CHOOSE s \in S : s.ref = r
    <3>1. s \in S /\ s.ref = r
      BY <2>1
    <3>2. FeedAfter(S)[r] = [val |-> s.val, dead |-> FALSE]
      BY <2>1 DEF FeedAfter
    <3> HIDE DEF s
    <3>3. s.val \in 0 .. MaxContent
      BY <3>1 DEF Row
    <3>4. FeedAfter(S)[r] \in [val : 0 .. MaxContent, dead : BOOLEAN]
      BY <3>2, <3>3
    <3> QED BY <3>1, <3>2, <3>4
  <2>2. CASE \A s \in S : s.ref # r
    BY <2>2 DEF FeedAfter, Shapes
  <2> QED BY <2>1, <2>2
<1>2. FeedAfter(S) = [r \in Ref |-> FeedAfter(S)[r]]
  BY DEF FeedAfter
<1> QED BY <1>1, <1>2

LEMMA FilesOK == ASSUME IngestInv, NEW c \in Call, Files(c) PROVE IngestInv'
<1> USE DEF IngestInv
<1> DEFINE S == FreshOps(calls[c].page)
<1>1. calls[c] \in Begun /\ calls[c].at = "read" /\ Busy(c)
  BY DEF Shapes, Files, Busy, Idle, Asking
<1>2. S \in SUBSET Row /\ S \subseteq calls[c].page
  BY <1>1 DEF FreshOps, Begun
<1>3. /\ feed' = FeedAfter(S) /\ filed' = filed \cup {<<s.ref, s.val>> : s \in S}
      /\ UNCHANGED <<party, jobs, staged, tracked, opinion, faults>>
  BY DEF Files
<1>4. \A s \in calls[c].page : <<s.ref, s.val>> \in filed'
  BY <1>3 DEF FreshOps
<1> HIDE DEF S
<1>5. \A r \in Ref : \/ feed'[r] = feed[r] /\ \A s \in S : s.ref # r
                     \/ \E s \in S : s.ref = r /\ feed'[r] = [val |-> s.val, dead |-> FALSE]
  BY <1>2, <1>3, FeedAfterOK
<1> DEFINE new == [calls[c] EXCEPT !.at = "filed"]
<1>6. /\ new \in Begun /\ new.at = "filed" /\ new.how = calls[c].how /\ new.job = calls[c].job
      /\ new.page = calls[c].page /\ new.whole = calls[c].whole /\ new.crossed = calls[c].crossed
  BY <1>1 DEF Begun
<1>7. calls'[c] = new
  BY DEF Files, Crossing
<1>8. ASSUME NEW d \in Call \ {c}
      PROVE  \/ ~ Busy(d) /\ calls'[d] = calls[d]
             \/ Busy(d) /\ calls'[d] = [calls[d] EXCEPT !.crossed = TRUE]
  BY DEF Files, Crossing
<1>9. ASSUME NEW d \in Call \ {c}, Busy(d)
      PROVE  /\ calls'[d] \in Begun /\ calls'[d].crossed /\ calls'[d].job = calls[d].job
             /\ calls'[d].page = calls[d].page /\ calls'[d].at = calls[d].at
  <2>1. calls[d] \in Begun
    BY <1>9 DEF Shapes, Busy, Idle, Asking
  <2>2. calls'[d] = [calls[d] EXCEPT !.crossed = TRUE]
    BY <1>8, <1>9
  <2> QED BY <2>1, <2>2 DEF Begun
<1>10. Busy(c)' /\ \A d \in Call \ {c} : Busy(d)' <=> Busy(d)
  BY <1>6, <1>7, <1>8, <1>9 DEF Busy
<1> HIDE DEF new
<1>11. Shapes'
  <2>1. \A d \in Call : calls'[d] \in {Idle, Asking} \cup Begun
    BY <1>6, <1>7, <1>8, <1>9 DEF Shapes
  <2>2. calls' = [d \in Call |-> calls'[d]]
    BY DEF Files, Crossing
  <2>3. calls' \in [Call -> {Idle, Asking} \cup Begun]
    BY <2>1, <2>2
  <2>4. filed' \in SUBSET (Ref \X (1 .. MaxContent))
    BY <1>2, <1>3 DEF Shapes, Row
  <2>5. feed' \in [Ref -> [val : 0 .. MaxContent, dead : BOOLEAN]]
    BY <1>2, <1>3, FeedAfterOK
  <2> QED BY <1>3, <2>3, <2>4, <2>5 DEF Shapes
<1>12. Rows'
  <2>1. ASSUME NEW r \in Ref
        PROVE  feed'[r].val # 0 <=> \E v \in 1 .. MaxContent : <<r, v>> \in filed'
    <3>1. CASE feed'[r] = feed[r] /\ \A s \in S : s.ref # r
      <4>1. \A v \in 1 .. MaxContent : <<r, v>> \in filed' <=> <<r, v>> \in filed
        BY <1>3, <3>1
      <4> QED BY <3>1, <4>1 DEF Rows
    <3>2. ASSUME NEW s \in S, s.ref = r, feed'[r] = [val |-> s.val, dead |-> FALSE]
          PROVE  feed'[r].val # 0 /\ \E v \in 1 .. MaxContent : <<r, v>> \in filed'
      <4>1. s.val \in 1 .. MaxContent /\ <<r, s.val>> \in filed'
        BY <1>2, <1>3, <3>2 DEF Row
      <4> QED BY <3>2, <4>1, IngestAssumption
    <3> QED BY <1>5, <3>1, <3>2
  <2> QED BY <1>3, <2>1 DEF Rows
<1>13. Ages'
  <2>1. \A s \in S : /\ s.val \in 1 .. MaxContent /\ s.val <= party[s.ref]
                    /\ \A t \in staged : t.ref = s.ref => s.val <= t.val
    BY <1>1, <1>2 DEF Ages, Row
  <2>2. ASSUME NEW r \in Ref
        PROVE  feed'[r].val <= party[r] /\ \A t \in staged : t.ref = r => feed'[r].val <= t.val
    <3>1. CASE feed'[r] = feed[r]
      BY <3>1 DEF Ages
    <3>2. ASSUME NEW s \in S, s.ref = r, feed'[r] = [val |-> s.val, dead |-> FALSE]
          PROVE  feed'[r].val <= party[r] /\ \A t \in staged : t.ref = r => feed'[r].val <= t.val
      <4>1. feed'[r].val = s.val
        BY <3>2
      <4> QED BY <2>1, <3>2, <4>1
    <3> QED BY <1>5, <3>1, <3>2
  <2>3. \A t \in staged : t.ref \in Ref
    BY DEF Shapes, Row
  <2>4. \A d \in Call : Busy(d)' => Busy(d) /\ calls'[d].page = calls[d].page
    BY <1>1, <1>6, <1>7, <1>9, <1>10
  <2>5. \A t \in staged : t.val <= party[t.ref] /\ feed'[t.ref].val <= t.val
    BY <2>2, <2>3 DEF Ages
  <2>6. ASSUME NEW d \in Call, Busy(d)'
        PROVE  \A s \in calls'[d].page : /\ s.val <= party[s.ref]
                                          /\ \A t \in staged : t.ref = s.ref => s.val <= t.val
    BY <2>4, <2>6 DEF Ages
  <2> QED BY <1>3, <2>2, <2>5, <2>6 DEF Ages
<1>14. Pages'
  <2> SUFFICES ASSUME NEW d \in Call, Busy(d)'
      PROVE /\ jobs[calls'[d].job] # "none"
            /\ calls'[d].at # "waiting" => Finished(calls'[d].job) /\ PageOf(calls'[d].job) \subseteq calls'[d].page
            /\ calls'[d].at \in {"filed", "predicted", "acked", "settled"} =>
                 \A s \in calls'[d].page : <<s.ref, s.val>> \in filed'
            /\ calls'[d].at = "read" => calls'[d].crossed
    BY <1>3 DEF Pages, Finished, PageOf
  <2>1. CASE d = c
    BY <2>1, <1>1, <1>4, <1>6, <1>7 DEF Pages
  <2>2. CASE d # c
    BY <2>2, <1>3, <1>9, <1>10 DEF Pages
  <2> QED BY <2>1, <2>2
<1>15. Wholes'
  <2> SUFFICES ASSUME NEW d \in Call, Uncrossed(d)' PROVE Alone(d)' /\ Found(d)'
    BY DEF Wholes
  <2>1. d = c /\ Uncrossed(c)
    BY <1>1, <1>6, <1>7, <1>9, <1>10 DEF Uncrossed
  <2>2. Alone(c) /\ Found(c)
    BY <2>1 DEF Wholes
  <2>3. Alone(c)'
    BY <1>6, <1>7, <1>9, <1>10, <2>2 DEF Alone
  <2>4. ASSUME NEW p \in Held, Mirrored(p)', calls[c].whole
        PROVE  \E s \in calls[c].page : s.ref = p
    <3>1. p \in Ref
      BY DEF Ref
    <3>2. CASE Mirrored(p)
      BY <1>1, <2>2, <2>4, <3>2 DEF Found
    <3>3. CASE ~ Mirrored(p)
      BY <1>2, <1>3, <1>5, <2>4, <3>1, <3>3 DEF Mirrored
    <3> QED BY <3>2, <3>3
  <2>5. Found(c)'
    BY <1>1, <1>6, <1>7, <2>4 DEF Found
  <2> QED BY <2>1, <2>3, <2>5
<1> QED BY <1>11, <1>12, <1>13, <1>14, <1>15

(* Settling tombstones rows and changes no words.                          *)
LEMMA SettledOK ==
  ASSUME Shapes, NEW seen
  PROVE  /\ Settled(seen) \in [Ref -> [val : 0 .. MaxContent, dead : BOOLEAN]]
         /\ \A r \in Ref : Settled(seen)[r].val = feed[r].val
<1>1. ASSUME NEW r \in Ref
      PROVE  /\ Settled(seen)[r] \in [val : 0 .. MaxContent, dead : BOOLEAN]
             /\ Settled(seen)[r].val = feed[r].val
  BY DEF Settled, Shapes
<1>2. Settled(seen) = [r \in Ref |-> Settled(seen)[r]]
  BY DEF Settled
<1> QED BY <1>1, <1>2

LEMMA FinishesOK == ASSUME IngestInv, NEW c \in Call, Finishes(c) PROVE IngestInv'
<1> USE DEF IngestInv
<1>1. CASE ~ Settles(calls[c])
  <2>1. tracked' \in SUBSET Held /\ faults' \in 0 .. MaxFaults
    BY DEF Finishes, Shapes
  <2> QED BY <1>1, <2>1, CeasesOK DEF Finishes
<1>2. CASE Settles(calls[c])
  <2>1. /\ feed' \in [Ref -> [val : 0 .. MaxContent, dead : BOOLEAN]]
        /\ \A r \in Ref : feed'[r].val = feed[r].val
    BY <1>2, SettledOK DEF Finishes
  <2> DEFINE new == [calls[c] EXCEPT !.at = "settled", !.was = tracked]
  <2>2. calls' = [calls EXCEPT ![c] = new] /\ UNCHANGED <<party, jobs, staged, filed, tracked, opinion, faults>>
    BY <1>2 DEF Finishes, Shapes
  <2>3. calls[c] \in Begun /\ Busy(c) /\ calls[c].at = "acked"
    BY DEF Finishes, Shapes, Busy, Idle, Asking
  <2>4. /\ new \in Begun /\ new.at = "settled" /\ new.how = calls[c].how /\ new.job = calls[c].job
        /\ new.page = calls[c].page /\ new.whole = calls[c].whole /\ new.crossed = calls[c].crossed
    BY <2>3 DEF Begun, Shapes
  <2>5. calls'[c] = new /\ \A d \in Call \ {c} : calls'[d] = calls[d]
    BY <2>2 DEF Shapes
  <2> HIDE DEF new
  <2>6. Shapes'
    BY <2>1, <2>2, <2>4 DEF Shapes
  <2>7. ASSUME NEW d \in Call
        PROVE
          /\ Busy(d)' <=> Busy(d)
          /\ calls'[d].how = calls[d].how /\ calls'[d].job = calls[d].job
          /\ calls'[d].page = calls[d].page /\ calls'[d].whole = calls[d].whole
          /\ calls'[d].crossed = calls[d].crossed
          /\ \/ calls'[d].at = calls[d].at
             \/ calls[d].at = "acked" /\ calls'[d].at = "settled"
    <3>1. CASE d # c
      <4>1. calls'[d] = calls[d]
        BY <2>5, <3>1
      <4> QED BY <4>1 DEF Busy
    <3>2. CASE d = c
      <4>1. Busy(c)' /\ calls'[c] = new
        BY <2>4, <2>5 DEF Busy
      <4> QED BY <2>3, <2>4, <3>2, <4>1
    <3> QED BY <3>1, <3>2
  <2>8. \A d \in Call : Busy(d) => calls[d].page \subseteq Row
    BY DEF Shapes, Busy, Begun, Idle, Asking
  <2>9. Rows' /\ Ages'
    BY <2>1, <2>2, <2>7, <2>8 DEF Rows, Ages, Shapes, Row
  <2>10. Pages'
    BY <2>1, <2>2, <2>7, <2>8 DEF Pages, Finished, PageOf, Row
  <2>11. Wholes'
    BY <2>1, <2>2, <2>7 DEF Wholes, Alone, Found, Uncrossed, Mirrored, Ref
  <2> QED BY <2>6, <2>9, <2>10, <2>11
<1> QED BY <1>1, <1>2

LEMMA StutterOK == ASSUME IngestInv, UNCHANGED vars PROVE IngestInv'
BY DEF vars, IngestInv, Shapes, Rows, Ages, Pages, Wholes, Busy, Finished, PageOf, Alone, Found,
   Uncrossed, Mirrored

LEMMA NextOK == IngestInv /\ [Next]_vars => IngestInv'
<1> SUFFICES ASSUME IngestInv, [Next]_vars PROVE IngestInv'
  OBVIOUS
<1>1. ASSUME NEW r \in Ref, Appears(r) PROVE IngestInv'
  BY <1>1, AppearsOK
<1>2. ASSUME NEW b \in Booked, Reworded(b) \/ Decides(b) \/ Deletes(b) PROVE IngestInv'
  BY <1>2, RewordedOK, DecidesOK, DeletesOK
<1>3. ASSUME NEW p \in Held, Disappears(p) PROVE IngestInv'
  BY <1>3, DisappearsOK
<1>4. ASSUME NEW j \in Job, Runs(j) \/ Fails(j) \/ Sweeps(j) PROVE IngestInv'
  BY <1>4, RunsOK, FailsOK, SweepsOK
<1>5. ASSUME NEW c \in Call, Asks(c) \/ Enqueues(c) \/ Outruns(c) \/ Crashes(c) PROVE IngestInv'
  BY <1>5, AsksOK, EnqueuesOK
<1>6. ASSUME NEW c \in Call, \/ Reads(c) \/ Files(c) \/ Predicts(c) \/ Acknowledges(c)
                            \/ Finishes(c) \/ Remembers(c)
      PROVE  IngestInv'
  BY <1>6, ReadsOK, FilesOK, PredictsOK, AcknowledgesOK, FinishesOK, RemembersOK
<1>7. ASSUME NEW c \in Call, NEW j \in Job, Collects(c, j) PROVE IngestInv'
  BY <1>7, CollectsOK
<1>8. CASE UNCHANGED vars
  BY <1>8, StutterOK
<1> QED BY <1>1, <1>2, <1>3, <1>4, <1>5, <1>6, <1>7, <1>8 DEF Next

(* The inductive invariant holds throughout.                               *)
LEMMA IngestAlways == Spec => []IngestInv
<1>1. Init => IngestInv
  BY IngestInit
<1>2. IngestInv /\ [Next]_vars => IngestInv'
  BY NextOK
<1> QED BY <1>1, <1>2, PTL DEF Spec

----------------------------------------------------------------------------
(* What a step may do to the requests and to the feed.                     *)

LEMMA StepsAre ==
  ASSUME Shapes, [Next]_vars, NEW c \in Call
  PROVE  /\ Steps(c, "predicted", "acked") => Acknowledges(c)
         /\ Steps(c, "read", "filed") => Files(c)
         /\ Steps(c, "acked", "settled") => Finishes(c)
<1> USE DEF Shapes, Steps, Busy, Idle, Asking
<1>1. ASSUME UNCHANGED calls
      PROVE  ~ Steps(c, "predicted", "acked") /\ ~ Steps(c, "read", "filed") /\ ~ Steps(c, "acked", "settled")
  BY <1>1
<1>2. ASSUME \/ UNCHANGED vars
             \/ \E r \in Ref : Appears(r)
             \/ \E b \in Booked : Reworded(b) \/ Decides(b) \/ Deletes(b)
             \/ \E p \in Held : Disappears(p)
             \/ \E j \in Job : Sweeps(j)
      PROVE  ~ Steps(c, "predicted", "acked") /\ ~ Steps(c, "read", "filed") /\ ~ Steps(c, "acked", "settled")
  BY <1>1, <1>2 DEF vars, Appears, Reworded, Decides, Deletes, Disappears, Sweeps
<1>3. ASSUME NEW j \in Job, Runs(j)
      PROVE  ~ Steps(c, "predicted", "acked") /\ ~ Steps(c, "read", "filed") /\ ~ Steps(c, "acked", "settled")
  BY <1>3 DEF Runs, Crossing, Begun
<1>4. ASSUME NEW j \in Job, Fails(j)
      PROVE  ~ Steps(c, "predicted", "acked") /\ ~ Steps(c, "read", "filed") /\ ~ Steps(c, "acked", "settled")
  BY <1>4 DEF Fails
<1>5. ASSUME NEW d \in Call, Asks(d) \/ Enqueues(d) \/ Outruns(d) \/ Remembers(d) \/ Crashes(d)
      PROVE  ~ Steps(c, "predicted", "acked") /\ ~ Steps(c, "read", "filed") /\ ~ Steps(c, "acked", "settled")
  BY <1>5 DEF Asks, Enqueues, Outruns, Remembers, Crashes, Began
<1>6. ASSUME NEW d \in Call, Reads(d) \/ \E j \in Job : Collects(d, j)
      PROVE  ~ Steps(c, "predicted", "acked") /\ ~ Steps(c, "read", "filed") /\ ~ Steps(c, "acked", "settled")
  <2>1. CASE Reads(d)
    BY <2>1 DEF Reads, Holding, Begun
  <2>2. ASSUME NEW j \in Job, Collects(d, j)
        PROVE  ~ Steps(c, "predicted", "acked") /\ ~ Steps(c, "read", "filed") /\ ~ Steps(c, "acked", "settled")
    <3>1. calls[d] = Idle /\ \A e \in Call \ {d} : calls'[e] = calls[e]
      BY <2>2 DEF Collects
    <3> QED BY <3>1
  <2> QED BY <1>6, <2>1, <2>2
<1>7. ASSUME NEW d \in Call, Files(d)
      PROVE  /\ ~ Steps(c, "predicted", "acked") /\ ~ Steps(c, "acked", "settled")
             /\ Steps(c, "read", "filed") => d = c
  BY <1>7 DEF Files, Crossing, Begun
<1>8. ASSUME NEW d \in Call, Predicts(d)
      PROVE  ~ Steps(c, "predicted", "acked") /\ ~ Steps(c, "read", "filed") /\ ~ Steps(c, "acked", "settled")
  BY <1>8 DEF Predicts, Put, Begun
<1>9. ASSUME NEW d \in Call, Acknowledges(d)
      PROVE  /\ ~ Steps(c, "read", "filed") /\ ~ Steps(c, "acked", "settled")
             /\ Steps(c, "predicted", "acked") => d = c
  BY <1>9 DEF Acknowledges, Put, Begun
<1>10. ASSUME NEW d \in Call, Finishes(d)
       PROVE  /\ ~ Steps(c, "read", "filed") /\ ~ Steps(c, "predicted", "acked")
              /\ Steps(c, "acked", "settled") => d = c
  BY <1>10 DEF Finishes
<1> HIDE DEF Shapes, Steps, Busy, Idle, Asking
<1> DEFINE Allowed == /\ Steps(c, "predicted", "acked") => Acknowledges(c)
                      /\ Steps(c, "read", "filed") => Files(c)
                      /\ Steps(c, "acked", "settled") => Finishes(c)
<1>11. ASSUME NEW j \in Job, Runs(j) \/ Fails(j) \/ Sweeps(j) PROVE Allowed
  BY <1>2, <1>3, <1>4, <1>11
<1>12. ASSUME NEW d \in Call, Asks(d) \/ Enqueues(d) \/ Outruns(d) \/ Remembers(d) \/ Crashes(d) PROVE Allowed
  BY <1>5, <1>12
<1>13. ASSUME NEW d \in Call, Reads(d) PROVE Allowed
  BY <1>6, <1>13
<1>14. ASSUME NEW d \in Call, NEW j \in Job, Collects(d, j) PROVE Allowed
  BY <1>6, <1>14
<1>15. ASSUME NEW d \in Call, Files(d) \/ Predicts(d) PROVE Allowed
  BY <1>7, <1>8, <1>15
<1>16. ASSUME NEW d \in Call, Acknowledges(d) \/ Finishes(d) PROVE Allowed
  BY <1>9, <1>10, <1>16
<1>17. ASSUME \/ UNCHANGED vars
              \/ \E r \in Ref : Appears(r)
              \/ \E b \in Booked : Reworded(b) \/ Decides(b) \/ Deletes(b)
              \/ \E p \in Held : Disappears(p)
       PROVE  Allowed
  BY <1>2, <1>17
<1> HIDE DEF Allowed
<1>18. Allowed
  BY <1>17, <1>11, <1>12, <1>13, <1>14, <1>15, <1>16 DEF Next
<1> QED BY <1>18 DEF Allowed

LEMMA FeedSteps ==
  ASSUME Shapes, [Next]_vars
  PROVE  \/ UNCHANGED feed
         \/ \E c \in Call : Files(c) \/ Finishes(c)
         \/ \E b \in Booked : Deletes(b)
BY DEF Next, vars, Appears, Reworded, Decides, Disappears, Runs, Fails, Sweeps, Asks, Enqueues, Outruns,
   Reads, Predicts, Acknowledges, Remembers, Crashes, Collects

----------------------------------------------------------------------------
(* The tables hold what their columns allow, one staged row per reference. *)
THEOREM IngestTypes == Spec => []TypeOK
<1>1. IngestInv => TypeOK
  <2> SUFFICES ASSUME IngestInv PROVE TypeOK
    OBVIOUS
  <2>1. \A s \in staged : s.ref \in Ref /\ s.val \in 1 .. MaxContent /\ s.job \in Job
    BY DEF IngestInv, Shapes, Row
  <2>2. ASSUME NEW c \in Call, Busy(c)
        PROVE  /\ calls[c].at \in {"waiting", "read", "filed", "predicted", "acked", "settled"}
               /\ calls[c].how \in {"sync", "collect"} /\ calls[c].job \in Job
    BY <2>2 DEF IngestInv, Shapes, Busy, Idle, Asking, Begun
  <2>3. \A r \in Ref : feed[r].val \in 0 .. MaxContent /\ feed[r].dead \in BOOLEAN
    BY DEF IngestInv, Shapes
  <2> QED BY <2>1, <2>2, <2>3 DEF IngestInv, Shapes, Rows, TypeOK
<1> QED BY <1>1, IngestAlways, PTL

(* An acknowledgement lets the control plane forget only rows whose very   *)
(* content is in the feed's log.                                           *)
THEOREM AckedOnlyIfFiled == Spec => AckedIsFiled
<1>1. IngestInv /\ [Next]_vars =>
        [\A c \in Call : Steps(c, "predicted", "acked") =>
           \A s \in staged \ staged' : <<s.ref, s.val>> \in filed]_vars
  <2> SUFFICES ASSUME IngestInv, [Next]_vars, NEW c \in Call, Steps(c, "predicted", "acked"),
                      NEW s \in staged \ staged'
               PROVE  <<s.ref, s.val>> \in filed
    OBVIOUS
  <2>1. Acknowledges(c)
    BY StepsAre DEF IngestInv
  <2>2. s \in PageOf(calls[c].job)
    BY <2>1 DEF Acknowledges, Acked
  <2>3. Busy(c) /\ calls[c].at = "predicted"
    BY <2>1 DEF Acknowledges
  <2> QED BY <2>2, <2>3 DEF IngestInv, Pages
<1> QED BY <1>1, IngestAlways, PTL DEF Spec, AckedIsFiled

(* However late a page is collected, its rows do not go back to older      *)
(* words, if no other request filed a page in between.                     *)
THEOREM NoneGoBackwards == Spec => NeverBackwards
<1>1. IngestInv /\ [Next]_vars =>
        [\A c \in Call : Steps(c, "read", "filed") /\ ~ calls[c].crossed =>
           \A b \in Booked : feed'[b].val >= feed[b].val]_vars
  <2> SUFFICES ASSUME IngestInv, [Next]_vars, NEW c \in Call, Steps(c, "read", "filed"),
                      ~ calls[c].crossed, NEW b \in Booked
               PROVE  feed'[b].val >= feed[b].val
    OBVIOUS
  <2> DEFINE S == FreshOps(calls[c].page)
  <2>1. Files(c) /\ Shapes
    BY StepsAre DEF IngestInv
  <2>2. b \in Ref /\ feed[b].val \in Int
    BY <2>1 DEF Ref, Shapes
  <2>3. calls[c] \in Begun /\ Busy(c) /\ calls[c].at = "read"
    BY <2>1 DEF Shapes, Files, Busy, Idle, Asking
  <2>4. S \in SUBSET Row /\ S \subseteq calls[c].page
    BY <2>3 DEF FreshOps, Begun
  <2>5. feed' = FeedAfter(S)
    BY <2>1 DEF Files
  <2>6. \A s \in S : feed[s.ref].val <= s.val
    BY <2>3, <2>4 DEF IngestInv, Pages
  <2> HIDE DEF S
  <2>7. \/ feed'[b] = feed[b]
        \/ \E s \in S : s.ref = b /\ feed'[b] = [val |-> s.val, dead |-> FALSE]
    BY <2>1, <2>2, <2>4, <2>5, FeedAfterOK
  <2>8. ASSUME NEW s \in S, s.ref = b, feed'[b] = [val |-> s.val, dead |-> FALSE]
        PROVE  feed'[b].val >= feed[b].val
    <3>1. feed'[b].val = s.val /\ s.val \in Int
      BY <2>4, <2>8 DEF Row
    <3> QED BY <2>2, <2>6, <2>8, <3>1
  <2>9. CASE feed'[b] = feed[b]
    <3>1. feed'[b].val = feed[b].val
      BY <2>9
    <3> QED BY <2>2, <3>1
  <2> QED BY <2>7, <2>8, <2>9
<1> QED BY <1>1, IngestAlways, PTL DEF Spec, NeverBackwards

(* The settlement of an uncrossed request only tombstones what the party   *)
(* no longer reports.                                                      *)
THEOREM OnlyGone == Spec => OnlyGoneDies
<1>1. IngestInv /\ [Next]_vars =>
        [\A p \in Held, c \in Call :
           Steps(c, "acked", "settled") /\ ~ calls[c].crossed /\ Alive(p) /\ feed'[p].dead
             => party[p] = Gone]_vars
  <2> SUFFICES ASSUME IngestInv, [Next]_vars, NEW p \in Held, NEW c \in Call,
                      Steps(c, "acked", "settled"), ~ calls[c].crossed, Alive(p), feed'[p].dead
               PROVE  party[p] = Gone
    OBVIOUS
  <2> DEFINE seen == Pending(calls[c])
  <2>1. Finishes(c) /\ p \in Ref
    BY StepsAre DEF IngestInv, Alive, Ref
  <2>2. Busy(c) /\ calls[c].at = "acked"
    BY <2>1 DEF Finishes
  <2>3. Settles(calls[c]) /\ feed' = Settled(seen)
    BY <2>1 DEF Finishes, Alive
  <2>4. p \notin seen
    BY <2>1, <2>3 DEF Settled, Alive
  <2>5. calls[c].how = "sync" /\ calls[c].whole
    BY <2>3 DEF Settles, HasCursor
  <2>6. Found(c)
    BY <2>2, <2>5 DEF IngestInv, Wholes, Uncrossed
  <2>7. ~ Mirrored(p)
    BY <2>2, <2>4, <2>5, <2>6 DEF Found, Pending
  <2>8. party[p] # 1 /\ party[p] # 0
    BY <2>1, <2>7, IngestAssumption DEF Mirrored, Alive, IngestInv, Ages, Shapes
  <2> QED BY <2>8 DEF IngestInv, Ages
<1> QED BY <1>1, IngestAlways, PTL DEF Spec, OnlyGoneDies

(* No sync overrules a person's choice, and a deleted row comes back only  *)
(* with words the feed's log does not hold.                                *)
THEOREM PersonPrevails == Spec => PersonStands
<1>1. ASSUME IngestInv, [Next]_vars, NEW b \in Booked, opinion[b] = "person"
      PROVE  opinion'[b] = "person"
  BY <1>1 DEF Next, vars, Appears, Reworded, Decides, Deletes, Disappears, Runs, Fails, Sweeps, Asks,
     Enqueues, Outruns, Reads, Files, Predicts, Overlaid, Acknowledges, Finishes, Remembers, Crashes, Collects, IngestInv, Shapes
<1>2. ASSUME IngestInv, [Next]_vars, NEW b \in Booked, feed[b].dead, ~ feed'[b].dead
      PROVE  <<b, feed'[b].val>> \notin filed
  <2>1. Shapes /\ b \in Ref /\ feed[b] \in [val : 0 .. MaxContent, dead : BOOLEAN]
    BY <1>2 DEF IngestInv, Shapes, Ref
  <2>2. ASSUME NEW x \in Booked, Deletes(x)
        PROVE  FALSE
    BY <1>2, <2>1, <2>2 DEF Deletes, Shapes
  <2>3. ASSUME NEW c \in Call, Finishes(c)
        PROVE  FALSE
    <3>1. feed' = feed \/ \E seen \in SUBSET Held : feed' = Settled(seen)
      BY <2>3 DEF Finishes, Pending
    <3> QED BY <1>2, <2>1, <3>1 DEF Settled
  <2>4. ASSUME NEW c \in Call, Files(c)
        PROVE  <<b, feed'[b].val>> \notin filed
    <3> DEFINE S == FreshOps(calls[c].page)
    <3>1. calls[c] \in Begun
      BY <2>1, <2>4 DEF Shapes, Files, Busy, Idle, Asking
    <3>2. S \in SUBSET Row /\ \A s \in S : <<s.ref, s.val>> \notin filed
      BY <3>1 DEF FreshOps, Begun
    <3>3. feed' = FeedAfter(S)
      BY <2>4 DEF Files
    <3> HIDE DEF S
    <3>4. \/ feed'[b] = feed[b]
          \/ \E s \in S : s.ref = b /\ feed'[b] = [val |-> s.val, dead |-> FALSE]
      BY <2>1, <3>2, <3>3, FeedAfterOK
    <3>5. ASSUME NEW s \in S, s.ref = b, feed'[b] = [val |-> s.val, dead |-> FALSE]
          PROVE  <<b, feed'[b].val>> \notin filed
      <4>1. feed'[b].val = s.val
        BY <3>5
      <4> QED BY <3>2, <3>5, <4>1
    <3> QED BY <1>2, <3>4, <3>5
  <2> QED BY <1>2, <2>1, <2>2, <2>3, <2>4, FeedSteps
<1>3. IngestInv /\ [Next]_vars =>
        [/\ \A b \in Booked : opinion[b] = "person" => opinion'[b] = "person"
         /\ \A b \in Booked : feed[b].dead /\ ~ feed'[b].dead
              => <<b, feed'[b].val>> \notin filed]_vars
  BY <1>1, <1>2
<1> QED BY <1>3, IngestAlways, PTL DEF Spec, PersonStands
=============================================================================
