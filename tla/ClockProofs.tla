----------------------------- MODULE ClockProofs -----------------------------
(***************************************************************************)
(* The stamps of the hybrid logical clock, for any devices, wall clocks    *)
(* and counter width, where a device runs the app in one tab.              *)
(***************************************************************************)
EXTENDS Clock, FiniteSetTheorems, TLAPS

(* One running copy of the app per device.                                 *)
OneTab == \A t, u \in Tab : DeviceOf[t] = DeviceOf[u] => t = u

(* A stamp that the clock has passed, or has just issued.                  *)
Passed(r, s) == r[1] < s.last \/ (r[1] = s.last /\ r[2] <= s.counter)

(* A running tab works on the state that is saved, and the saved state is  *)
(* past every stamp of the device and every one that was ahead of it.      *)
Resumes == \A t \in open : state[t] = saved[DeviceOf[t]]
AllPassed ==
  \A d \in Device :
    /\ \A r \in issued : r[3] = d => Passed(r, saved[d])
    /\ \A r \in ahead[d] : Passed(r, saved[d])
Counted == IsFiniteSet(issued) /\ Cardinality(issued) = count

ClockInv == TypeOK /\ Resumes /\ AllPassed

----------------------------------------------------------------------------
(* now() and observe() on the state of one clock.                          *)

LEMMA TickOK ==
  ASSUME NEW s \in ClockState, NEW wall \in Wall
  PROVE  /\ Tick(s, wall) \in ClockState /\ Tick(s, wall).counter <= MaxCounter
         /\ \/ Tick(s, wall).last > s.last
            \/ Tick(s, wall).last = s.last /\ Tick(s, wall).counter > s.counter
BY ClockAssumption DEF Tick, ClockState, Wall

LEMMA FoldOK ==
  ASSUME NEW s \in ClockState, NEW r \in Stamp, NEW wall \in Wall
  PROVE  /\ Fold(s, r, wall) \in ClockState
         /\ \/ Fold(s, r, wall).last > s.last
            \/ Fold(s, r, wall).last = s.last /\ Fold(s, r, wall).counter >= s.counter
         /\ r[1] > wall => Passed(r, Fold(s, r, wall))
BY ClockAssumption DEF Fold, ClockState, Wall, Stamp, Passed

(* What was passed stays passed, and a new stamp is past it.               *)
LEMMA PassedOn ==
  ASSUME NEW s \in ClockState, NEW s2 \in ClockState, NEW r \in Stamp, Passed(r, s),
         \/ s2.last > s.last
         \/ s2.last = s.last /\ s2.counter >= s.counter
  PROVE  Passed(r, s2)
BY ClockAssumption DEF Passed, ClockState, Stamp

LEMMA NotLessThanItself ==
  ASSUME NEW r \in Stamp
  PROVE  ~ Less(r, r)
<1>1. r[1] \in Nat /\ r[2] \in Int
  BY ClockAssumption DEF Stamp
<1>2. r[3] \in Device
  BY DEF Stamp
<1>3. Device \subseteq Nat
  BY ClockAssumption
<1>4. r[3] \in Nat
  BY <1>2, <1>3, Zenon
<1> QED BY <1>1, <1>4 DEF Less

LEMMA PassedIsLess ==
  ASSUME NEW s \in ClockState, NEW s2 \in ClockState, NEW r \in Stamp, Passed(r, s), NEW d,
         \/ s2.last > s.last
         \/ s2.last = s.last /\ s2.counter > s.counter
  PROVE  Less(r, <<s2.last, s2.counter, d>>)
BY ClockAssumption DEF Passed, Less, ClockState, Stamp

----------------------------------------------------------------------------
LEMMA ClockInit == Init => TypeOK /\ ClockInv /\ Counted
<1> SUFFICES ASSUME Init PROVE TypeOK /\ ClockInv /\ Counted
  OBVIOUS
<1>1. TypeOK
  BY ClockAssumption DEF Init, TypeOK, ClockState, Start
<1>2. Resumes /\ AllPassed
  BY DEF Init, Resumes, AllPassed
<1>3. Counted
  BY FS_EmptySet DEF Init, Counted
<1> QED BY <1>1, <1>2, <1>3 DEF ClockInv

(* A stamp of now().                                                       *)
Issues(t, wall) == <<Tick(state[t], wall).last, Tick(state[t], wall).counter, DeviceOf[t]>>

LEMMA NowTypes ==
  ASSUME TypeOK, NEW t \in Tab, NEW wall \in Wall, Now(t, wall)
  PROVE  /\ TypeOK' /\ Issues(t, wall) \in Stamp /\ DeviceOf[t] \in Device
         /\ state' = [state EXCEPT ![t] = Tick(state[t], wall)]
         /\ saved' = [saved EXCEPT ![DeviceOf[t]] = Tick(state[t], wall)]
         /\ issued' = issued \cup {Issues(t, wall)} /\ count' = count + 1
         /\ UNCHANGED <<open, ahead>> /\ t \in open
<1> DEFINE s == Tick(state[t], wall)
<1>1. state[t] \in ClockState /\ DeviceOf[t] \in Device
  BY ClockAssumption DEF TypeOK
<1>2. s \in ClockState /\ s.counter <= MaxCounter
  BY <1>1, TickOK
<1>3. /\ state' = [state EXCEPT ![t] = s] /\ saved' = [saved EXCEPT ![DeviceOf[t]] = s]
      /\ issued' = issued \cup {Issues(t, wall)} /\ count' = count + 1 /\ count < MaxStamps
      /\ UNCHANGED <<open, ahead>> /\ t \in open
  BY DEF Now, Move, Issues
<1> HIDE DEF s
<1>4. Issues(t, wall) \in Stamp
  BY <1>1, <1>2, ClockAssumption DEF Issues, Stamp, ClockState, s
<1>5. TypeOK'
  BY <1>1, <1>2, <1>3, <1>4, ClockAssumption DEF TypeOK
<1> QED BY <1>1, <1>3, <1>4, <1>5 DEF s

LEMMA ObserveTypes ==
  ASSUME TypeOK, NEW t \in Tab, NEW r \in issued, NEW wall \in Wall, Observe(t, r, wall)
  PROVE  /\ TypeOK' /\ r \in Stamp /\ DeviceOf[t] \in Device
         /\ state' = [state EXCEPT ![t] = Fold(state[t], r, wall)]
         /\ saved' = [saved EXCEPT ![DeviceOf[t]] = Fold(state[t], r, wall)]
         /\ ahead' = [ahead EXCEPT ![DeviceOf[t]] = IF r[1] > wall THEN @ \cup {r} ELSE @]
         /\ UNCHANGED <<open, issued, count>> /\ t \in open
<1> DEFINE s == Fold(state[t], r, wall)
<1>1. state[t] \in ClockState /\ DeviceOf[t] \in Device /\ r \in Stamp
  BY ClockAssumption DEF TypeOK
<1>2. s \in ClockState
  BY <1>1, FoldOK
<1>3. /\ state' = [state EXCEPT ![t] = s] /\ saved' = [saved EXCEPT ![DeviceOf[t]] = s]
      /\ ahead' = [ahead EXCEPT ![DeviceOf[t]] = IF r[1] > wall THEN @ \cup {r} ELSE @]
      /\ UNCHANGED <<open, issued, count>> /\ t \in open
  BY DEF Observe, Move
<1> HIDE DEF s
<1>4. TypeOK'
  BY <1>1, <1>2, <1>3 DEF TypeOK
<1> QED BY <1>1, <1>3, <1>4 DEF s

LEMMA ClockTypeStep == TypeOK /\ [Next]_vars => TypeOK'
<1> SUFFICES ASSUME TypeOK, [Next]_vars PROVE TypeOK'
  OBVIOUS
<1>1. ASSUME NEW t \in Tab, Open(t) PROVE TypeOK'
  BY <1>1, ClockAssumption DEF Open, Resumed, TypeOK
<1>2. ASSUME NEW t \in Tab, Close(t) PROVE TypeOK'
  BY <1>2 DEF Close, Start, ClockState, TypeOK
<1>3. ASSUME NEW t \in Tab, NEW wall \in Wall, Now(t, wall) PROVE TypeOK'
  BY <1>3, NowTypes
<1>4. ASSUME NEW t \in Tab, NEW wall \in Wall, NEW r \in issued, Observe(t, r, wall) PROVE TypeOK'
  BY <1>4, ObserveTypes
<1>5. CASE UNCHANGED vars
  BY <1>5 DEF vars, TypeOK
<1> QED BY <1>1, <1>2, <1>3, <1>4, <1>5 DEF Next

(* The stamp now() issues is past all of its device's, and of those that   *)
(* were ahead of it.                                                       *)
LEMMA IssuesBeyond ==
  ASSUME ClockInv, NEW t \in Tab, NEW wall \in Wall, Now(t, wall)
  PROVE  /\ \A r \in issued : r[3] = DeviceOf[t] => Less(r, Issues(t, wall))
         /\ \A r \in ahead[DeviceOf[t]] : Less(r, Issues(t, wall))
<1> DEFINE s == state[t]  s2 == Tick(s, wall)
<1>1. s \in ClockState /\ DeviceOf[t] \in Device /\ s = saved[DeviceOf[t]]
  BY ClockAssumption, NowTypes DEF ClockInv, TypeOK, Resumes
<1>2. s2 \in ClockState /\ (s2.last > s.last \/ (s2.last = s.last /\ s2.counter > s.counter))
  BY <1>1, TickOK
<1>3. ASSUME NEW r \in issued, Passed(r, s) PROVE Less(r, Issues(t, wall))
  <2>1. r \in Stamp
    BY DEF ClockInv, TypeOK
  <2> HIDE DEF s, s2
  <2>2. Less(r, <<s2.last, s2.counter, DeviceOf[t]>>)
    BY <1>1, <1>2, <1>3, <2>1, PassedIsLess
  <2> QED BY <2>2 DEF Issues, s, s2
<1>4. ahead[DeviceOf[t]] \subseteq issued
  BY <1>1 DEF ClockInv, TypeOK
<1> QED BY <1>1, <1>3, <1>4 DEF ClockInv, AllPassed

(* A move to a state no older than the saved one keeps the invariant.      *)
LEMMA MoveOK ==
  ASSUME OneTab, ClockInv, TypeOK', NEW t \in open, NEW s \in ClockState, Move(t, s),
         UNCHANGED open,
         \/ s.last > state[t].last
         \/ s.last = state[t].last /\ s.counter >= state[t].counter,
         \A r \in issued' \ issued : r[3] = DeviceOf[t] /\ Passed(r, s),
         \A d \in Device : \A r \in ahead'[d] \ ahead[d] : d = DeviceOf[t] /\ Passed(r, s)
  PROVE  ClockInv'
<1> DEFINE d == DeviceOf[t]
<1>1. t \in Tab /\ d \in Device /\ state[t] \in ClockState /\ state[t] = saved[d]
  BY ClockAssumption DEF ClockInv, TypeOK, Resumes
<1>2. /\ state'[t] = s /\ \A u \in Tab \ {t} : state'[u] = state[u]
      /\ saved'[d] = s /\ \A e \in Device \ {d} : saved'[e] = saved[e]
  BY <1>1 DEF Move, ClockInv, TypeOK
<1>3. Resumes'
  BY <1>1, <1>2, ClockAssumption DEF Resumes, OneTab, ClockInv, TypeOK
<1>4. \A r \in issued \cup issued' : r \in Stamp
  BY DEF ClockInv, TypeOK
<1>5. \A r \in issued : Passed(r, saved[d]) => Passed(r, s)
  BY <1>1, <1>4, PassedOn
<1>6. \A e \in Device : ahead[e] \subseteq issued
  BY DEF ClockInv, TypeOK
<1>7. ASSUME NEW e \in Device
      PROVE  /\ \A r \in issued' : r[3] = e => Passed(r, saved'[e])
             /\ \A r \in ahead'[e] : Passed(r, saved'[e])
  <2>1. CASE e = d
    BY <1>2, <1>5, <1>6, <2>1 DEF ClockInv, AllPassed
  <2>2. CASE e # d
    BY <1>2, <2>2 DEF ClockInv, AllPassed
  <2> QED BY <2>1, <2>2
<1> QED BY <1>3, <1>7 DEF ClockInv, AllPassed

LEMMA ClockStep == OneTab /\ ClockInv /\ [Next]_vars => ClockInv'
<1> SUFFICES ASSUME OneTab, ClockInv, [Next]_vars PROVE ClockInv'
  OBVIOUS
<1>1. TypeOK /\ TypeOK'
  BY ClockTypeStep DEF ClockInv
<1>2. ASSUME NEW t \in Tab, Open(t) PROVE ClockInv'
  BY <1>1, <1>2 DEF ClockInv, Open, Resumed, Resumes, AllPassed, TypeOK
<1>3. ASSUME NEW t \in Tab, Close(t) PROVE ClockInv'
  BY <1>1, <1>3 DEF ClockInv, Close, Resumes, AllPassed, TypeOK
<1>4. ASSUME NEW t \in Tab, NEW wall \in Wall, Now(t, wall) PROVE ClockInv'
  <2> DEFINE s == Tick(state[t], wall)
  <2>1. state[t] \in ClockState
    BY <1>1 DEF TypeOK
  <2>2. /\ s \in ClockState
        /\ s.last > state[t].last \/ (s.last = state[t].last /\ s.counter >= state[t].counter)
    BY <2>1, TickOK DEF ClockState
  <2>3. Move(t, s) /\ t \in open /\ UNCHANGED <<open, ahead>> /\ issued' = issued \cup {Issues(t, wall)}
    BY <1>4 DEF Now, Issues
  <2>4. Issues(t, wall)[3] = DeviceOf[t] /\ Passed(Issues(t, wall), s)
    BY <2>2 DEF Issues, Passed, ClockState
  <2> HIDE DEF s
  <2> QED BY <1>1, <2>2, <2>3, <2>4, MoveOK
<1>5. ASSUME NEW t \in Tab, NEW wall \in Wall, NEW r \in issued, Observe(t, r, wall) PROVE ClockInv'
  <2> DEFINE s == Fold(state[t], r, wall)
  <2>1. state[t] \in ClockState /\ r \in Stamp
    BY <1>1 DEF TypeOK
  <2>2. /\ s \in ClockState
        /\ s.last > state[t].last \/ (s.last = state[t].last /\ s.counter >= state[t].counter)
        /\ r[1] > wall => Passed(r, s)
    BY <2>1, FoldOK
  <2>3. Move(t, s) /\ t \in open /\ UNCHANGED <<open, issued>>
    BY <1>5 DEF Observe
  <2>4. \A d \in Device : \A q \in ahead'[d] \ ahead[d] : d = DeviceOf[t] /\ q = r /\ r[1] > wall
    BY <1>1, <1>5 DEF Observe, TypeOK
  <2> HIDE DEF s
  <2> QED BY <1>1, <2>2, <2>3, <2>4, MoveOK
<1>6. CASE UNCHANGED vars
  BY <1>6 DEF vars, ClockInv, TypeOK, Resumes, AllPassed
<1> QED BY <1>2, <1>3, <1>4, <1>5, <1>6 DEF Next

LEMMA ClockAlways ==
  ASSUME OneTab
  PROVE  Spec => []ClockInv
<1>1. Init => ClockInv
  BY ClockInit
<1>2. ClockInv /\ [Next]_vars => ClockInv'
  BY ClockStep
<1> QED BY <1>1, <1>2, PTL DEF Spec

(* Only now() issues.                                                      *)
LEMMA IssuedStep ==
  ASSUME [Next]_vars
  PROVE  \/ UNCHANGED <<issued, count>>
         \/ \E t \in Tab, wall \in Wall : Now(t, wall)
BY DEF Next, vars, Open, Close, Observe

----------------------------------------------------------------------------
(* A stamp fits its encoding, in any number of tabs.                       *)
THEOREM ClockTypes == Spec => []TypeOK
<1>1. Init => TypeOK
  BY ClockInit
<1>2. TypeOK /\ [Next]_vars => TypeOK'
  BY ClockTypeStep
<1> QED BY <1>1, <1>2, PTL DEF Spec

(* No two ops share a stamp.                                               *)
THEOREM StampsNeverRepeat ==
  ASSUME OneTab
  PROVE  Spec => []StampsUnique
<1>1. Init => Counted
  BY ClockInit
<1>2. ClockInv /\ Counted /\ [Next]_vars => Counted'
  <2> SUFFICES ASSUME ClockInv, Counted, [Next]_vars PROVE Counted'
    OBVIOUS
  <2>1. CASE UNCHANGED <<issued, count>>
    BY <2>1 DEF Counted
  <2>2. ASSUME NEW t \in Tab, NEW wall \in Wall, Now(t, wall) PROVE Counted'
    <3>1. Issues(t, wall) \notin issued
      <4> SUFFICES ASSUME Issues(t, wall) \in issued PROVE FALSE
        OBVIOUS
      <4>1. Issues(t, wall) \in Stamp
        BY <2>2, NowTypes DEF ClockInv
      <4>2. Less(Issues(t, wall), Issues(t, wall))
        BY <2>2, IssuesBeyond DEF Issues
      <4> QED BY <4>1, <4>2, NotLessThanItself
    <3>2. issued' = issued \cup {Issues(t, wall)} /\ count' = count + 1
      BY <2>2, NowTypes DEF ClockInv
    <3> QED BY <3>1, <3>2, FS_AddElement DEF Counted
  <2> QED BY <2>1, <2>2, IssuedStep
<1>3. Counted => StampsUnique
  BY DEF Counted, StampsUnique
<1>4. Spec => []ClockInv
  BY ClockAlways
<1> QED BY <1>1, <1>2, <1>3, <1>4, PTL DEF Spec

(* A device's stamps increase, over restarts and clocks set back.          *)
THEOREM StampsIncrease ==
  ASSUME OneTab
  PROVE  Spec => DeviceStampsIncrease
<1>1. ClockInv /\ [Next]_vars =>
        [\A s \in issued' \ issued, r \in issued : r[3] = s[3] => Less(r, s)]_vars
  <2> SUFFICES ASSUME ClockInv, [Next]_vars, NEW s \in issued' \ issued, NEW r \in issued, r[3] = s[3]
               PROVE  Less(r, s)
    OBVIOUS
  <2>1. PICK t \in Tab, wall \in Wall : Now(t, wall)
    BY IssuedStep
  <2>2. s = Issues(t, wall)
    BY <2>1, NowTypes DEF ClockInv
  <2> QED BY <2>1, <2>2, IssuesBeyond DEF Issues
<1> QED BY <1>1, ClockAlways, PTL DEF Spec, DeviceStampsIncrease

(* A stamp that was ahead of the device's wall clock is passed.            *)
THEOREM AheadIsPassed ==
  ASSUME OneTab
  PROVE  Spec => FuturePassed
<1>1. ClockInv /\ [Next]_vars =>
        [\A s \in issued' \ issued : \A r \in ahead[s[3]] : Less(r, s)]_vars
  <2> SUFFICES ASSUME ClockInv, [Next]_vars, NEW s \in issued' \ issued, NEW r \in ahead[s[3]]
               PROVE  Less(r, s)
    OBVIOUS
  <2>1. PICK t \in Tab, wall \in Wall : Now(t, wall)
    BY IssuedStep
  <2>2. s = Issues(t, wall)
    BY <2>1, NowTypes DEF ClockInv
  <2> QED BY <2>1, <2>2, IssuesBeyond DEF Issues
<1> QED BY <1>1, ClockAlways, PTL DEF Spec, FuturePassed
=============================================================================
