------------------------------- MODULE Clock -------------------------------
(***************************************************************************)
(* The hybrid logical clock that stamps every op: apps/web/src/sync/hlc.ts *)
(* and its single persisted instance per device, db/device.ts.             *)
(*                                                                         *)
(* A stamp is <<wall, counter, device>>.  Its encoding is fixed-width, so  *)
(* string order is the order of the triples as long as the counter fits    *)
(* its four digits (TypeOK).  A tab is one running copy of the app: it  *)
(* keeps the clock in memory and writes its state to the localStorage that *)
(* all tabs of the device share.                                           *)
(***************************************************************************)
EXTENDS Integers, FiniteSets

CONSTANTS
  Device,       \* device ids, as numbers: the tie-breaker of equal stamps
  Tab,
  DeviceOf,     \* the browser profile a tab runs in
  MaxCounter,   \* 36^4 - 1
  MaxWall,      \* bound: wall clock readings
  MaxStamps     \* bound: stamps issued in all

ASSUME ClockAssumption ==
  /\ Device \subseteq Nat
  /\ DeviceOf \in [Tab -> Device]
  /\ {MaxCounter, MaxWall, MaxStamps} \subseteq Nat

VARIABLES
  open,     \* the tabs that run
  state,    \* HlcClock.state of each tab: last wall and counter
  saved,    \* munni_hlc_state in the device's localStorage
  issued,   \* stamps issued so far (with their op, so a set per device)
  count,    \* how many were issued: reuse makes it exceed the set
  ahead     \* those that were ahead of its wall clock when it did

vars == <<open, state, saved, issued, count, ahead>>

Wall == 0 .. MaxWall
Start == [last |-> 0, counter |-> 0]

(* compareHlc.                                                             *)
Less(a, b) ==
  \/ a[1] < b[1]
  \/ a[1] = b[1] /\ a[2] < b[2]
  \/ a[1] = b[1] /\ a[2] = b[2] /\ a[3] < b[3]

Init ==
  /\ open = {}
  /\ state = [t \in Tab |-> Start]
  /\ saved = [d \in Device |-> Start]
  /\ issued = {} /\ count = 0
  /\ ahead = [d \in Device |-> {}]

(* Mutant: the saved state is not read back.                               *)
Afresh(t) == Start

Resumed(t) == saved[DeviceOf[t]]

(* getClock, when the app starts: the clock resumes from the saved state.  *)
Open(t) ==
  /\ t \notin open
  /\ open' = open \cup {t}
  /\ state' = [state EXCEPT ![t] = Resumed(t)]
  /\ UNCHANGED <<saved, issued, count, ahead>>

Close(t) ==
  /\ t \in open
  /\ open' = open \ {t}
  /\ state' = [state EXCEPT ![t] = Start]
  /\ UNCHANGED <<saved, issued, count, ahead>>

Move(t, s) ==
  /\ state' = [state EXCEPT ![t] = s]
  /\ saved' = [saved EXCEPT ![DeviceOf[t]] = s]

(* Mutant: a used-up counter is left to grow.                              *)
TickUnbounded(s, wall) ==
  IF wall > s.last THEN [last |-> wall, counter |-> 0]
  ELSE [s EXCEPT !.counter = @ + 1]

(* Mutant: the stamp follows the wall clock back.                          *)
TickWithWall(s, wall) ==
  IF wall # s.last THEN [last |-> wall, counter |-> 0]
  ELSE IF s.counter >= MaxCounter THEN [last |-> s.last + 1, counter |-> 0]
  ELSE [s EXCEPT !.counter = @ + 1]

(* now(): a wall clock that moved on resets the counter, one that stands   *)
(* still or went back counts on, a used-up counter borrows a millisecond.  *)
Tick(s, wall) ==
  IF wall > s.last THEN [last |-> wall, counter |-> 0]
  ELSE IF s.counter >= MaxCounter THEN [last |-> s.last + 1, counter |-> 0]
  ELSE [s EXCEPT !.counter = @ + 1]

Now(t, wall) ==
  LET s == Tick(state[t], wall)
  IN /\ t \in open /\ count < MaxStamps
     /\ Move(t, s)
     /\ issued' = issued \cup {<<s.last, s.counter, DeviceOf[t]>>}
     /\ count' = count + 1
     /\ UNCHANGED <<open, ahead>>

(* Mutant: the counter of a stamp ahead of us is not taken over.           *)
FoldWallOnly(s, r, wall) ==
  IF r[1] > s.last /\ r[1] > wall THEN [last |-> r[1], counter |-> 0]
  ELSE s

(* observe().                                                              *)
Fold(s, r, wall) ==
  IF r[1] > s.last /\ r[1] > wall THEN [last |-> r[1], counter |-> r[2] + 1]
  ELSE IF r[1] = s.last /\ r[2] >= s.counter THEN [s EXCEPT !.counter = r[2] + 1]
  ELSE s

Observe(t, r, wall) ==
  /\ t \in open /\ r \in issued
  /\ Move(t, Fold(state[t], r, wall))
  /\ ahead' = [ahead EXCEPT ![DeviceOf[t]] = IF r[1] > wall THEN @ \cup {r} ELSE @]
  /\ UNCHANGED <<open, issued, count>>

Next ==
  \E t \in Tab :
    \/ Open(t) \/ Close(t)
    \/ \E wall \in Wall : Now(t, wall) \/ \E r \in issued : Observe(t, r, wall)

Spec == Init /\ [][Next]_vars

----------------------------------------------------------------------------
(* Properties.                                                             *)

ClockState == [last : Nat, counter : Nat]
Stamp == Nat \X (0 .. MaxCounter) \X Device

(* Every variable has its type; a stamp fits its fixed-width encoding, so  *)
(* the counter never needs a fifth digit, though observe() may leave one   *)
(* beyond it in the state.                                                 *)
TypeOK ==
  /\ open \in SUBSET Tab
  /\ state \in [Tab -> ClockState] /\ saved \in [Device -> ClockState]
  /\ issued \in SUBSET Stamp /\ count \in 0 .. MaxStamps
  /\ ahead \in [Device -> SUBSET issued]

(* No two ops share a stamp: the merge keeps whichever of two equal stamps *)
(* came first, so equal stamps make replicas differ.                       *)
StampsUnique == Cardinality(issued) = count

(* A device's stamps increase, over restarts and clocks set back: its own  *)
(* later edit always beats its earlier one.                                *)
DeviceStampsIncrease ==
  [][\A s \in issued' \ issued, r \in issued : r[3] = s[3] => Less(r, s)]_vars

(* A stamp from a clock ahead of this device's is passed by all the stamps *)
(* issued after it was observed, here and after a restart.  (A stamp that  *)
(* is above the local state but not above the wall clock is not folded in, *)
(* and is passed only as long as the wall clock is not set back.)          *)
FuturePassed ==
  [][\A s \in issued' \ issued : \A r \in ahead[s[3]] : Less(r, s)]_vars
=============================================================================
