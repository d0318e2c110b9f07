-------------------------- MODULE CameraViewProofs ---------------------------
(***************************************************************************)
(* Proof of OnePoller for every instance of CameraView.                    *)
(***************************************************************************)
EXTENDS CameraView, TLAPS

(* OnePoller counts the intervals; what keeps the count right is that the  *)
(* ref holds an interval exactly while there is one to be cleared.         *)
TimerInv ==
  /\ mounted \in BOOLEAN /\ auto \in BOOLEAN /\ timer \in BOOLEAN
  /\ timer <=> mounted /\ mode = "snapshot" /\ auto
  /\ intervals = IF timer THEN 1 ELSE 0

\* The cleanup leaves no interval behind.
LEMMA ClearsAll ==
  ASSUME TimerInv
  PROVE  Cleared = 0
BY DEF TimerInv, Cleared

LEMMA StepKeepsTimer ==
  ASSUME TimerInv, [PageNext]_vars
  PROVE  TimerInv'
<1> USE DEF TimerInv
<1>1. Cleared = 0
  BY ClearsAll
<1>2. CASE UNCHANGED view
  BY <1>2 DEF view
<1>3. CASE OpenTab
  BY <1>1, <1>3 DEF OpenTab, Effect
<1>4. CASE LeaveTab
  BY <1>1, <1>4 DEF LeaveTab
<1>5. ASSUME NEW m \in {"stream", "snapshot"}, NEW a \in BOOLEAN, Configure(m, a)
      PROVE  TimerInv'
  <2>1. /\ mounted /\ mode' = m /\ auto' = a /\ UNCHANGED mounted
        /\ timer' = (m = "snapshot" /\ a)
        /\ intervals' = IF m = "snapshot" /\ a THEN Cleared + 1 ELSE Cleared
    BY <1>5 DEF Configure, Effect
  <2>2. CASE m = "snapshot" /\ a
    <3>1. timer' = TRUE /\ auto' = TRUE /\ mounted' = TRUE /\ mode' = "snapshot"
      BY <2>1, <2>2
    <3>2. intervals' = 1
      BY <1>1, <2>1, <2>2
    <3> QED
      BY <3>1, <3>2
  <2>3. CASE ~(m = "snapshot" /\ a)
    BY <1>1, <2>1, <2>3
  <2> QED
    BY <2>2, <2>3
<1>6. CASE Poll \/ Refresh \/ Reconnect
  BY <1>6 DEF Poll, Refresh, Reconnect, Reload
<1>7. CASE Loads \/ LoadFails \/ StreamEnds
  <2>1. UNCHANGED <<mounted, mode, auto, intervals, timer>>
    BY <1>7 DEF Loads, LoadFails, StreamEnds
  <2> QED
    BY <2>1
<1> QED
  BY <1>2, <1>3, <1>4, <1>5, <1>6, <1>7 DEF PageNext, ViewNext, vars

(* Whatever the operator does on the camera tab and whatever becomes of    *)
(* the service, the page runs one interval while snapshots are refreshed   *)
(* and none otherwise.                                                     *)
THEOREM OnePollerAlways == PageSpec => []OnePoller
<1>1. PageInit => TimerInv
  BY DEF PageInit, ViewInit, TimerInv
<1>2. TimerInv /\ [PageNext]_vars => TimerInv'
  BY StepKeepsTimer
<1>3. TimerInv => OnePoller
  BY DEF TimerInv, OnePoller
<1> QED
  BY <1>1, <1>2, <1>3, PTL DEF PageSpec
=============================================================================
