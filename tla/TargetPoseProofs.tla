--------------------------- MODULE TargetPoseProofs --------------------------
(***************************************************************************)
(* Proofs about TargetPose, for any number of handlers, axes and requests. *)
(***************************************************************************)
EXTENDS TargetPose, TLAPS

(* Each step of a handler keeps the types, and a handler inside a          *)
(* statement has an axis left.                                             *)
THEOREM TypeCorrect == Spec => []TypeOK
<1> USE TargetPoseAssumption DEF bounds
<1>1. ASSUME Init PROVE TypeOK
  <2>1. alone \in [Handlers -> BOOLEAN] /\ synced \in BOOLEAN
    BY <1>1, Zenon DEF Init
  <2>2. requests = 0 /\ restarts = 0 /\ 0 \in 0 .. MaxRequests /\ 0 \in 0 .. MaxRestarts
    BY <1>1 DEF Init
  <2> QED
    BY <1>1, <2>1, <2>2 DEF Init, TypeOK, Zero
<1>2. TypeOK /\ [Next]_vars => TypeOK'
  <2> SUFFICES ASSUME TypeOK, [Next]_vars PROVE TypeOK'
    OBVIOUS
  <2>1. ASSUME NEW h \in Handlers, RejectBody(h) PROVE TypeOK'
    BY <2>1 DEF TypeOK, RejectBody, controller, locals
  <2>2. ASSUME NEW h \in Handlers, SendPosition(h) PROVE TypeOK'
    BY <2>2 DEF TypeOK, SendPosition, Accept, controller
  <2>3. ASSUME NEW h \in Handlers, SendDisplacement(h) PROVE TypeOK'
    BY <2>3 DEF TypeOK, SendDisplacement, Accept, controller
  <2>4. ASSUME NEW h \in Handlers, NEW a \in Axes, AssignAxis(h, a) PROVE TypeOK'
    <3>1. CASE todo[h] = {a}
      <4>1. arg[h] \in [Axes -> Int] /\ arg[h][a] \in Int /\ todo[h] \ {a} \in SUBSET Axes
        BY DEF TypeOK
      <4>2. /\ todo' \in [Handlers -> SUBSET Axes] /\ current' \in [Axes -> Int]
            /\ \A g \in Handlers \ {h} : todo'[g] = todo[g]
        BY <2>4, <4>1 DEF TypeOK, AssignAxis, AssignValue
      <4>3. msg' \in [Handlers -> [Axes -> Int]]
        BY <2>4, <3>1, <4>1 DEF TypeOK, AssignAxis, AssignValue
      <4>4. pc' = [pc EXCEPT ![h] = "publish"]
        BY <2>4, <3>1 DEF AssignAxis, AssignValue
      <4> QED
        BY <2>4, <4>2, <4>3, <4>4 DEF TypeOK, AssignAxis, AssignValue
    <3>2. CASE todo[h] # {a}
      <4>1. todo[h] \ {a} # {}
        BY <2>4, <3>2 DEF AssignAxis, AssignValue
      <4> QED
        BY <2>4, <3>2, <4>1 DEF TypeOK, AssignAxis, AssignValue
    <3> QED
      BY <3>1, <3>2
  <2>5. ASSUME NEW h \in Handlers, NEW a \in Axes, LoadAxis(h, a) PROVE TypeOK'
    BY <2>5 DEF TypeOK, LoadAxis, controller
  <2>6. ASSUME NEW h \in Handlers, StoreAxis(h) PROVE TypeOK'
    BY <2>6 DEF TypeOK, StoreAxis, StoreValue
  <2>7. ASSUME NEW h \in Handlers, NEW a \in Axes, ComposeAxis(h, a) PROVE TypeOK'
    BY <2>7 DEF TypeOK, ComposeAxis, controller
  <2>8. ASSUME NEW h \in Handlers, Publish(h) PROVE TypeOK'
    <3>1. synced' \in BOOLEAN
      BY <2>8 DEF TypeOK, Publish
    <3>2. goal' \in [Axes -> Int]
      BY <2>8 DEF TypeOK, Publish
    <3>3. reply' \in [Handlers -> {"none", "200", "400", "500"}]
      BY <2>8 DEF TypeOK, Publish
    <3> QED
      BY <2>8, <3>1, <3>2, <3>3 DEF TypeOK, Publish, locals
  <2>9. CASE Restart
    <3>1. synced' \in BOOLEAN
      BY <2>9, Zenon DEF Restart
    <3>2. restarts \in 0 .. MaxRestarts /\ restarts' = restarts + 1 /\ restarts < MaxRestarts
      BY <2>9 DEF TypeOK, Restart
    <3>3. restarts' \in 0 .. MaxRestarts
      BY <3>2
    <3> QED
      BY <2>9, <3>1, <3>3 DEF TypeOK, Restart, Zero, locals
  <2>10. CASE UNCHANGED vars
    BY <2>10 DEF TypeOK, vars, controller, locals
  <2> QED
    BY <2>1, <2>2, <2>3, <2>4, <2>5, <2>6, <2>7, <2>8, <2>9, <2>10
       DEF Next, Handler, PublishPosition, PublishDisplacement
<1> QED
  BY <1>1, <1>2, PTL DEF Spec

-----------------------------------------------------------------------------
(* The bound of an axis is an integer no smaller than MaxPos, and grows by *)
(* MaxStep with each move stored on it.                                    *)
LEMMA ReachBounds ==
  ASSUME TypeOK, NEW a \in Axes
  PROVE  Reach(a) \in Int /\ MaxPos <= Reach(a)
<1>1. applied[a] \in Nat /\ MaxStep \in Nat /\ MaxPos \in Nat
  BY TargetPoseAssumption DEF TypeOK
<1>2. \A m, n \in Nat : m * n \in Nat
  OBVIOUS
<1> QED
  BY <1>1, <1>2 DEF Reach

(* A store moves the bound of its own axis by MaxStep, no other.           *)
LEMMA ReachGrows ==
  ASSUME TypeOK, NEW b \in Axes, applied' = [applied EXCEPT ![b] = @ + 1]
  PROVE  /\ Reach(b)' = Reach(b) + MaxStep
         /\ \A a \in Axes : Reach(a)' \in Int /\ Reach(a) <= Reach(a)'
<1>1. MaxStep \in Nat /\ MaxPos \in Nat /\ \A a \in Axes : applied[a] \in Nat
  BY TargetPoseAssumption DEF TypeOK
<1>2. \A m, n \in Nat : m * n \in Nat /\ m * (n + 1) = m * n + m
  OBVIOUS
<1>3. applied'[b] = applied[b] + 1 /\ \A a \in Axes \ {b} : applied'[a] = applied[a]
  BY DEF TypeOK
<1>4. Reach(b)' = Reach(b) + MaxStep
  BY <1>1, <1>2, <1>3 DEF Reach
<1>5. ASSUME NEW a \in Axes PROVE Reach(a)' \in Int /\ Reach(a) <= Reach(a)'
  <2>1. CASE a = b
    BY <1>1, <1>4, <2>1, ReachBounds
  <2>2. CASE a # b
    BY <1>3, <2>2, ReachBounds DEF Reach
  <2> QED
    BY <2>1, <2>2
<1> QED
  BY <1>4, <1>5

(* Steps that store no move leave the bounds alone.                        *)
LEMMA ReachStays ==
  ASSUME applied' = applied, NEW a \in Axes
  PROVE  Reach(a)' = Reach(a)
  BY DEF Reach

(* Whatever handlers overlap, no coordinate leaves Reach: a handler adds   *)
(* its move to a value within reach of the moves stored before, and that   *)
(* is still so, with one more move stored, when it stores the sum.         *)
THEOREM ReachCorrect == Spec => []ReachInv
<1> USE TargetPoseAssumption DEF Within
<1>1. Init => ReachInv
  <2> SUFFICES ASSUME Init PROVE ReachInv
    OBVIOUS
  <2>1. ASSUME NEW a \in Axes PROVE Reach(a) \in Nat
    <3>1. MaxStep * 0 = 0
      OBVIOUS
    <3> QED
      BY <3>1 DEF Init, Reach
  <2> QED
    BY <2>1 DEF Init, ReachInv, NoRunaway, Zero
<1>2. TypeOK /\ ReachInv /\ [Next]_vars => ReachInv'
  <2> SUFFICES ASSUME TypeOK, ReachInv, [Next]_vars PROVE ReachInv'
    OBVIOUS
  <2> USE ReachBounds
  <2>1. ASSUME NEW h \in Handlers, RejectBody(h) PROVE ReachInv'
    BY <2>1, ReachStays DEF TypeOK, ReachInv, NoRunaway, RejectBody, controller, locals
  <2>2. ASSUME NEW h \in Handlers, SendPosition(h) PROVE ReachInv'
    BY <2>2, ReachStays DEF TypeOK, ReachInv, NoRunaway, SendPosition, Accept, controller
  <2>3. ASSUME NEW h \in Handlers, SendDisplacement(h) PROVE ReachInv'
    BY <2>3, ReachStays DEF TypeOK, ReachInv, NoRunaway, SendDisplacement, Accept, controller
  <2>4. ASSUME NEW h \in Handlers, NEW a \in Axes, AssignAxis(h, a) PROVE ReachInv'
    <3>1. Within(arg[h][a], MaxPos) /\ arg[h][a] \in Int
      BY <2>4 DEF TypeOK, ReachInv, AssignAxis, AssignValue
    <3>2. NoRunaway'
      <4>1. \A c \in Axes : Within(current'[c], Reach(c)') /\ Within(goal'[c], Reach(c)')
        BY <2>4, <3>1, ReachStays
           DEF TypeOK, ReachInv, NoRunaway, AssignAxis, AssignValue
      <4>2. ASSUME NEW c \in Axes, NEW g \in Handlers, pc'[g] = "publish"
            PROVE  Within(msg'[g][c], Reach(c)')
        <5>1. CASE g = h
          <6>1. todo[h] = {a} /\ msg'[h] = arg[h] /\ Within(arg[h][c], MaxPos)
            BY <2>4, <4>2, <5>1 DEF TypeOK, ReachInv, AssignAxis, AssignValue
          <6>2. arg[h][c] \in Int /\ Reach(c)' = Reach(c)
            BY <2>4, ReachStays DEF TypeOK, AssignAxis, AssignValue
          <6> QED
            BY <5>1, <6>1, <6>2
        <5>2. CASE g # h
          BY <2>4, <4>2, <5>2, ReachStays
             DEF TypeOK, ReachInv, NoRunaway, AssignAxis, AssignValue
        <5> QED
          BY <5>1, <5>2
      <4> QED
        BY <4>1, <4>2 DEF NoRunaway
    <3> QED
      BY <2>4, <3>2, ReachStays DEF TypeOK, ReachInv, AssignAxis, AssignValue
  <2>5. ASSUME NEW h \in Handlers, NEW a \in Axes, LoadAxis(h, a) PROVE ReachInv'
    BY <2>5, ReachStays DEF TypeOK, ReachInv, NoRunaway, LoadAxis, controller
  <2>6. ASSUME NEW h \in Handlers, StoreAxis(h) PROVE ReachInv'
    <3>1. PICK b \in Axes :
          /\ axis[h] = b /\ Within(reg[h], Reach(b) + MaxStep) /\ reg[h] \in Int
          /\ applied' = [applied EXCEPT ![b] = @ + 1]
          /\ current' = [current EXCEPT ![b] = reg[h]]
      BY <2>6 DEF TypeOK, ReachInv, StoreAxis, StoreValue
    <3>2. /\ Reach(b)' = Reach(b) + MaxStep
          /\ \A a \in Axes : Reach(a)' \in Int /\ Reach(a) <= Reach(a)'
      BY <3>1, ReachGrows
    <3>3. NoRunaway'
      <4>1. \A a \in Axes : Within(current'[a], Reach(a)')
        BY <3>1, <3>2 DEF TypeOK, ReachInv, NoRunaway
      <4> QED
        BY <2>6, <3>2, <4>1 DEF TypeOK, ReachInv, NoRunaway, StoreAxis, StoreValue
    <3> QED
      BY <2>6, <3>2, <3>3 DEF TypeOK, ReachInv, StoreAxis, StoreValue
  <2>7. ASSUME NEW h \in Handlers, NEW a \in Axes, ComposeAxis(h, a) PROVE ReachInv'
    BY <2>7, ReachStays DEF TypeOK, ReachInv, NoRunaway, ComposeAxis, controller
  <2>8. ASSUME NEW h \in Handlers, Publish(h) PROVE ReachInv'
    BY <2>8, ReachStays DEF TypeOK, ReachInv, NoRunaway, Publish, locals
  <2>9. CASE Restart
    <3>1. \A a \in Axes : Within(0, Reach(a))
      BY ReachBounds
    <3> QED
      BY <2>9, <3>1, ReachStays DEF TypeOK, ReachInv, NoRunaway, Restart, Zero, locals
  <2>10. CASE UNCHANGED vars
    BY <2>10, ReachStays DEF TypeOK, ReachInv, NoRunaway, vars, controller, locals
  <2> QED
    BY <2>1, <2>2, <2>3, <2>4, <2>5, <2>6, <2>7, <2>8, <2>9, <2>10
       DEF Next, Handler, PublishPosition, PublishDisplacement
<1> QED
  BY <1>1, <1>2, TypeCorrect, PTL DEF Spec

(* The arm is never sent further than the requests received account for.   *)
THEOREM NoRunawayAlways == Spec => []NoRunaway
<1>1. ReachInv => NoRunaway
  BY DEF ReachInv
<1> QED
  BY <1>1, ReachCorrect, PTL

-----------------------------------------------------------------------------
(* A request that ran alone leaves the controller and the message equal.   *)
(* A second request makes every handler lose its "alone", so only steps of *)
(* the one handler matter.                                                 *)
THEOREM AloneCorrect == Spec => []AloneInv
<1>1. Init => AloneInv
  BY DEF Init, AloneInv
<1>2. TypeOK /\ ReachInv /\ AloneInv /\ [Next]_vars => AloneInv'
  <2> SUFFICES ASSUME TypeOK, ReachInv, AloneInv, [Next]_vars PROVE AloneInv'
    OBVIOUS
  <2> SUFFICES ASSUME NEW g \in Handlers, alone'[g], pc'[g] # "idle"
               PROVE  AloneAt(g)'
    BY DEF AloneInv
  <2>1. ASSUME NEW h \in Handlers, RejectBody(h) PROVE AloneAt(g)'
    BY <2>1 DEF AloneInv, AloneAt, RejectBody, controller, locals
  <2>2. ASSUME NEW h \in Handlers, SendPosition(h) \/ SendDisplacement(h)
        PROVE  AloneAt(g)'
    <3>1. g = h /\ \A k \in Handlers \ {h} : pc'[k] = "idle"
      <4>1. /\ alone' = [f \in Handlers |-> f = h /\ \A k \in Handlers \ {h} : pc[k] = "idle"]
            /\ \A k \in Handlers \ {h} : pc'[k] = pc[k]
        BY <2>2 DEF TypeOK, SendPosition, SendDisplacement, Accept
      <4>2. alone'[g] = (g = h /\ \A k \in Handlers \ {h} : pc[k] = "idle")
        BY <4>1
      <4> QED
        BY <4>1, <4>2
    <3>2. pc'[h] \in {"assign", "load"} /\ todo'[h] = Axes
      BY <2>2 DEF TypeOK, SendPosition, SendDisplacement, Accept
    <3> QED
      BY <3>1, <3>2 DEF AloneAt
  <2>3. ASSUME NEW h \in Handlers, NEW a \in Axes, AssignAxis(h, a) PROVE AloneAt(g)'
    <3>1. g = h /\ alone[h] /\ pc[h] = "assign" /\ kind[h] = "position" /\ AloneAt(h)
      BY <2>3 DEF TypeOK, ReachInv, AloneInv, AloneAt, AssignAxis, AssignValue
    <3>2. \A k \in Handlers \ {h} : pc'[k] = "idle"
      BY <2>3, <3>1 DEF TypeOK, AloneAt, AssignAxis, AssignValue
    <3>3. /\ arg' = arg /\ todo'[h] = todo[h] \ {a} /\ current' \in [Axes -> Int]
          /\ \A c \in Axes \ todo'[h] : current'[c] = arg[h][c]
      BY <2>3, <3>1 DEF TypeOK, AloneAt, AssignAxis, AssignValue
    <3>4. CASE todo[h] = {a}
      <4>1. pc'[h] = "publish" /\ msg'[h] = arg[h] /\ arg[h] \in [Axes -> Int]
        BY <2>3, <3>4 DEF TypeOK, AssignAxis, AssignValue
      <4>2. current' = arg[h]
        BY <3>3, <3>4, <4>1
      <4> QED
        BY <3>1, <3>2, <3>3, <4>1, <4>2 DEF AloneAt
    <3>5. CASE todo[h] # {a}
      <4>1. pc'[h] = "assign"
        BY <2>3, <3>1, <3>5 DEF AssignAxis, AssignValue
      <4> QED
        BY <3>1, <3>2, <3>3, <4>1 DEF AloneAt
    <3> QED
      BY <3>4, <3>5
  <2>4. ASSUME NEW h \in Handlers, NEW a \in Axes, LoadAxis(h, a) PROVE AloneAt(g)'
    BY <2>4 DEF TypeOK, AloneInv, AloneAt, LoadAxis, controller
  <2>5. ASSUME NEW h \in Handlers, StoreAxis(h) PROVE AloneAt(g)'
    BY <2>5 DEF TypeOK, AloneInv, AloneAt, StoreAxis, StoreValue
  <2>6. ASSUME NEW h \in Handlers, NEW a \in Axes, ComposeAxis(h, a) PROVE AloneAt(g)'
    <3>1. g = h /\ alone[h] /\ pc[h] = "compose" /\ kind[h] = "move" /\ AloneAt(h)
      BY <2>6 DEF TypeOK, ReachInv, AloneInv, AloneAt, ComposeAxis
    <3>2. /\ kind' = kind /\ current' = current /\ todo'[h] = todo[h] \ {a}
          /\ msg'[h] \in [Axes -> Int]
          /\ \A c \in Axes \ todo'[h] : msg'[h][c] = current[c]
          /\ pc'[h] = IF todo[h] = {a} THEN "publish" ELSE "compose"
      BY <2>6, <3>1 DEF TypeOK, AloneAt, ComposeAxis, controller
    <3>3. todo[h] = {a} => msg'[h] = current
      BY <3>2 DEF TypeOK
    <3>4. \A k \in Handlers \ {h} : pc'[k] = "idle"
      BY <2>6, <3>1 DEF TypeOK, AloneAt, ComposeAxis
    <3> QED
      BY <3>1, <3>2, <3>3, <3>4 DEF AloneAt
  <2>7. ASSUME NEW h \in Handlers, Publish(h) PROVE AloneAt(g)'
    BY <2>7 DEF TypeOK, AloneInv, AloneAt, Publish, locals
  <2>8. CASE Restart
    BY <2>8 DEF Restart
  <2>9. CASE UNCHANGED vars
    BY <2>9 DEF AloneInv, AloneAt, vars, controller, locals
  <2> QED
    BY <2>1, <2>2, <2>3, <2>4, <2>5, <2>6, <2>7, <2>8, <2>9
       DEF Next, Handler, PublishPosition, PublishDisplacement
<1> QED
  BY <1>1, <1>2, TypeCorrect, ReachCorrect, PTL DEF Spec

(* An operator who sends one position, alone, has the arm and the          *)
(* controller agree again, whatever overlapping moves did before.          *)
THEOREM ResyncAlways == Spec => []Resync
<1>1. AloneInv => Resync
  BY DEF AloneInv, AloneAt, Resync
<1> QED
  BY <1>1, AloneCorrect, PTL

-----------------------------------------------------------------------------
(* While nothing has parted target and goal, they differ by what the one   *)
(* request that runs has stored.                                           *)
LEMMA StepKeepsSynced ==
  ASSUME TypeOK, ReachInv, AloneInv, SyncedInv, [Next]_vars
  PROVE  SyncedInv'
<1> SUFFICES ASSUME synced' PROVE (Idle => goal = current)' /\
                    \A g \in Handlers : pc'[g] # "idle" => SyncedAt(g)'
  BY DEF SyncedInv
<1>1. ASSUME NEW h \in Handlers, RejectBody(h) PROVE SyncedInv'
  BY <1>1 DEF SyncedInv, SyncedAt, Idle, RejectBody, controller, locals
<1>2. ASSUME NEW h \in Handlers, SendPosition(h) \/ SendDisplacement(h)
      PROVE  SyncedInv'
  <2>1. synced /\ Idle /\ goal = current
    BY <1>2 DEF SendPosition, SendDisplacement, Accept, SyncedInv
  <2>2. alone' = [f \in Handlers |-> f = h /\ \A k \in Handlers \ {h} : pc[k] = "idle"]
    BY <1>2 DEF SendPosition, SendDisplacement, Accept
  <2>3. alone'[h] /\ \A k \in Handlers \ {h} : pc'[k] = "idle"
    <3>1. \A k \in Handlers \ {h} : pc'[k] = pc[k]
      BY <1>2 DEF TypeOK, SendPosition, SendDisplacement, Accept
    <3> QED
      BY <2>1, <2>2, <3>1 DEF Idle
  <2>4. /\ todo'[h] = Axes /\ UNCHANGED <<current, goal>>
        /\ \/ kind'[h] = "position" /\ pc'[h] = "assign"
           \/ kind'[h] = "move" /\ pc'[h] = "load"
    BY <1>2 DEF TypeOK, SendPosition, SendDisplacement, Accept, controller
  <2>5. SyncedAt(h)'
    BY <2>1, <2>3, <2>4 DEF SyncedAt
  <2> QED
    BY <2>3, <2>4, <2>5 DEF SyncedInv, Idle
<1>3. ASSUME NEW h \in Handlers, NEW a \in Axes, AssignAxis(h, a) PROVE SyncedInv'
  <2>1. /\ synced /\ alone[h] /\ pc[h] = "assign" /\ kind[h] = "position"
        /\ \A k \in Handlers \ {h} : pc[k] = "idle"
    BY <1>3 DEF ReachInv, AloneInv, AloneAt, SyncedInv, SyncedAt, AssignAxis, AssignValue
  <2>2. /\ pc'[h] \in {"assign", "publish"}
        /\ \A k \in Handlers \ {h} : pc'[k] = "idle"
    BY <1>3, <2>1 DEF TypeOK, AssignAxis, AssignValue
  <2>3. kind'[h] = "position" /\ alone'[h]
    BY <1>3, <2>1 DEF AssignAxis, AssignValue
  <2> QED
    BY <2>2, <2>3 DEF SyncedInv, SyncedAt, Idle
<1>4. ASSUME NEW h \in Handlers, NEW a \in Axes, LoadAxis(h, a) PROVE SyncedInv'
  <2>1. /\ synced /\ SyncedAt(h) /\ kind[h] = "move" /\ pc[h] = "load"
        /\ \A k \in Handlers \ {h} : pc[k] = "idle"
    BY <1>4 DEF ReachInv, AloneInv, AloneAt, SyncedInv, SyncedAt, LoadAxis
  <2>2. /\ pc'[h] = "store" /\ \A k \in Handlers \ {h} : pc'[k] = "idle"
        /\ axis'[h] = a /\ reg'[h] = current[a] + arg[h][a]
        /\ UNCHANGED <<current, goal, kind, arg, todo, alone>>
    BY <1>4, <2>1 DEF TypeOK, LoadAxis, controller
  <2> QED
    BY <2>1, <2>2 DEF SyncedInv, SyncedAt, Idle
<1>5. ASSUME NEW h \in Handlers, StoreAxis(h) PROVE SyncedInv'
  <2>1. /\ synced /\ SyncedAt(h) /\ kind[h] = "move" /\ pc[h] = "store"
        /\ \A k \in Handlers \ {h} : pc[k] = "idle"
    BY <1>5 DEF ReachInv, AloneInv, AloneAt, SyncedInv, SyncedAt, StoreAxis, StoreValue
  <2>2. PICK b \in Axes : axis[h] = b /\ b \in todo[h]
    BY <2>1 DEF TypeOK, ReachInv
  <2>3. reg[h] = goal[b] + arg[h][b]
    BY <2>1, <2>2 DEF SyncedAt
  <2>4. /\ UNCHANGED <<goal, kind, arg, alone>>
        /\ current'[b] = reg[h] /\ \A a \in Axes \ {b} : current'[a] = current[a]
        /\ \A k \in Handlers \ {h} : pc'[k] = "idle"
    BY <1>5, <2>1, <2>2 DEF TypeOK, StoreAxis, StoreValue
  <2>5. \/ todo[h] = {b} /\ pc'[h] = "compose"
        \/ pc'[h] = "load" /\ todo'[h] = todo[h] \ {b}
    BY <1>5, <2>2 DEF TypeOK, StoreAxis, StoreValue
  <2>6. SyncedAt(h)'
    BY <2>1, <2>2, <2>3, <2>4, <2>5 DEF SyncedAt
  <2>7. pc'[h] # "idle"
    BY <2>5
  <2> QED
    BY <2>4, <2>6, <2>7 DEF SyncedInv, Idle
<1>6. ASSUME NEW h \in Handlers, NEW a \in Axes, ComposeAxis(h, a) PROVE SyncedInv'
  <2>1. /\ synced /\ SyncedAt(h) /\ pc[h] = "compose"
        /\ \A k \in Handlers \ {h} : pc[k] = "idle"
    BY <1>6 DEF AloneInv, AloneAt, SyncedInv, SyncedAt, ComposeAxis
  <2>2. /\ pc'[h] \in {"compose", "publish"} /\ \A k \in Handlers \ {h} : pc'[k] = "idle"
        /\ UNCHANGED <<current, goal, kind, arg, alone>>
    BY <1>6, <2>1 DEF TypeOK, ComposeAxis, controller
  <2> QED
    BY <2>1, <2>2 DEF SyncedInv, SyncedAt, Idle
<1>7. ASSUME NEW h \in Handlers, Publish(h) PROVE SyncedInv'
  <2>1. goal' = msg[h] /\ alone[h] /\ current' = current /\ pc' = [pc EXCEPT ![h] = "idle"]
    BY <1>7 DEF Publish
  <2>2. msg[h] = current /\ \A k \in Handlers \ {h} : pc[k] = "idle"
    BY <1>7, <2>1 DEF AloneInv, AloneAt, Publish
  <2> QED
    BY <2>1, <2>2 DEF TypeOK, SyncedInv, Idle
<1>8. CASE Restart
  BY <1>8 DEF Restart
<1>9. CASE UNCHANGED vars
  BY <1>9 DEF SyncedInv, SyncedAt, Idle, vars, controller, locals
<1> QED
  BY <1>1, <1>2, <1>3, <1>4, <1>5, <1>6, <1>7, <1>8, <1>9
     DEF Next, Handler, PublishPosition, PublishDisplacement, SyncedInv

(* Target and goal agree, but for what one request has stored, until a     *)
(* restart, a failure or an overlap parts them.                            *)
THEOREM SyncedCorrect == Spec => []SyncedInv
<1>1. Init => SyncedInv
  BY DEF Init, SyncedInv
<1>2. TypeOK /\ ReachInv /\ AloneInv /\ SyncedInv /\ [Next]_vars => SyncedInv'
  BY StepKeepsSynced
<1> QED
  BY <1>1, <1>2, TypeCorrect, ReachCorrect, AloneCorrect, PTL DEF Spec

(* Until something parts target and goal, a displacement moves the goal by *)
(* exactly itself, whatever came before.                                   *)
THEOREM JumpsOnlyUnsyncedAlways == Spec => JumpsOnlyUnsynced
<1> DEFINE Published(h) == /\ synced /\ kind[h] = "move"
                           /\ pc[h] = "publish" /\ pc'[h] = "idle" /\ reply'[h] = "200"
           Exact(h) == goal' = [a \in Axes |-> goal[a] + arg[h][a]]
<1>1. ASSUME TypeOK, AloneInv, SyncedInv, [Next]_vars, NEW h \in Handlers, Published(h)
      PROVE  Exact(h)
  <2>1. Publish(h)
    <3>1. ASSUME NEW g \in Handlers, Handler(g), g # h PROVE pc'[h] = pc[h]
      <4>1. CASE RejectBody(g) \/ SendPosition(g) \/ SendDisplacement(g) \/ Publish(g)
        BY <1>1, <3>1, <4>1
           DEF TypeOK, RejectBody, SendPosition, SendDisplacement, Accept, Publish
      <4>2. CASE PublishPosition(g)
        BY <1>1, <3>1, <4>2 DEF TypeOK, PublishPosition, AssignAxis, AssignValue
      <4>3. CASE PublishDisplacement(g)
        BY <1>1, <3>1, <4>3
           DEF TypeOK, PublishDisplacement, StoreAxis, StoreValue, LoadAxis, ComposeAxis
      <4> QED
        BY <3>1, <4>1, <4>2, <4>3 DEF Handler
    <3>2. ~Restart /\ vars' # vars
      BY <1>1 DEF Restart, vars
    <3>3. Handler(h)
      BY <1>1, <3>1, <3>2 DEF Next
    <3> QED
      BY <1>1, <3>3
         DEF Handler, RejectBody, SendPosition, SendDisplacement, Accept,
             PublishPosition, AssignAxis, AssignValue, PublishDisplacement,
             StoreAxis, StoreValue, LoadAxis, ComposeAxis
  <2>2. goal' = msg[h]
    BY <1>1, <2>1 DEF TypeOK, Publish
  <2>3. alone[h] /\ msg[h] = current
    BY <1>1 DEF AloneInv, AloneAt, SyncedInv, SyncedAt
  <2>4. \A a \in Axes : current[a] = goal[a] + arg[h][a]
    BY <1>1 DEF SyncedInv, SyncedAt
  <2>5. current = [a \in Axes |-> current[a]]
    BY <1>1 DEF TypeOK
  <2> QED
    BY <2>2, <2>3, <2>4, <2>5
<1>2. TypeOK /\ AloneInv /\ SyncedInv /\ [Next]_vars
        => [\A h \in Handlers : Published(h) => Exact(h)]_vars
  BY <1>1
<1> QED
  BY <1>2, TypeCorrect, AloneCorrect, SyncedCorrect, PTL DEF Spec, JumpsOnlyUnsynced

-----------------------------------------------------------------------------
(* One handler: every request is alone, and nobody changes a coordinate    *)
(* between its load and its store.                                         *)
SerialInv ==
  \A h \in Handlers :
    /\ pc[h] # "idle" => alone[h]
    /\ pc[h] = "store" => reg[h] = current[axis[h]] + arg[h][axis[h]]

(* SerialInv holds when one handler serves all requests.                   *)
LEMMA SerialCorrect ==
  ASSUME NEW one, Handlers = {one}
  PROVE  Spec => []SerialInv
<1>1. Init => SerialInv
  BY DEF Init, SerialInv
<1>2. TypeOK /\ SerialInv /\ [Next]_vars => SerialInv'
  <2> SUFFICES ASSUME TypeOK, SerialInv, [Next]_vars PROVE SerialInv'
    OBVIOUS
  <2>1. CASE RejectBody(one)
    BY <2>1 DEF SerialInv, RejectBody, controller, locals
  <2>2. CASE SendPosition(one) \/ SendDisplacement(one)
    <3>1. alone' = [g \in Handlers |-> g = one /\ \A k \in Handlers \ {one} : pc[k] = "idle"]
      BY <2>2 DEF SendPosition, SendDisplacement, Accept
    <3>2. alone'[one]
      BY <3>1
    <3>3. pc'[one] \in {"assign", "load"}
      BY <2>2 DEF TypeOK, SendPosition, SendDisplacement, Accept
    <3> QED
      BY <3>2, <3>3 DEF SerialInv
  <2>3. ASSUME NEW a \in Axes, AssignAxis(one, a) PROVE SerialInv'
    BY <2>3 DEF TypeOK, SerialInv, AssignAxis, AssignValue
  <2>4. ASSUME NEW a \in Axes, LoadAxis(one, a) PROVE SerialInv'
    BY <2>4 DEF TypeOK, SerialInv, LoadAxis, controller
  <2>5. CASE StoreAxis(one)
    BY <2>5 DEF TypeOK, SerialInv, StoreAxis, StoreValue
  <2>6. ASSUME NEW a \in Axes, ComposeAxis(one, a) PROVE SerialInv'
    BY <2>6 DEF TypeOK, SerialInv, ComposeAxis, controller
  <2>7. CASE Publish(one)
    BY <2>7 DEF TypeOK, SerialInv, Publish, locals
  <2>8. CASE Restart
    BY <2>8 DEF SerialInv, Restart
  <2>9. CASE UNCHANGED vars
    BY <2>9 DEF SerialInv, vars, controller, locals
  <2> QED
    BY <2>1, <2>2, <2>3, <2>4, <2>5, <2>6, <2>7, <2>8, <2>9
       DEF Next, Handler, PublishPosition, PublishDisplacement
<1> QED
  BY <1>1, <1>2, TypeCorrect, PTL DEF Spec

(* What AtomicTarget sees of the coordinates, with one handler. *)
LEMMA AheadOfOne ==
  ASSUME NEW one, Handlers = {one}, NEW a \in Axes
  PROVE  Ahead(a) =
           IF a \in todo[one] /\ pc[one] \in {"assign", "load", "store"}
             THEN IF kind[one] = "position" THEN arg[one][a]
                  ELSE current[a] + arg[one][a]
             ELSE current[a]
<1> DEFINE busy == {h \in Handlers : a \in todo[h] /\ pc[h] \in {"assign", "load", "store"}}
<1>1. CASE a \in todo[one] /\ pc[one] \in {"assign", "load", "store"}
  <2>1. busy = {one}
    BY <1>1
  <2>2. (CHOOSE h \in busy : TRUE) = one
    BY <2>1
  <2> QED
    BY <1>1, <2>1, <2>2 DEF Ahead
<1>2. CASE ~(a \in todo[one] /\ pc[one] \in {"assign", "load", "store"})
  <2>1. busy = {}
    BY <1>2
  <2> QED
    BY <1>2, <2>1 DEF Ahead
<1> QED
  BY <1>1, <1>2

(* As long as requests do not overlap, the two goal endpoints implement    *)
(* AtomicTarget: each changes the target as a whole and publishes it.      *)
THEOREM SerialImplements ==
  ASSUME NEW one, Handlers = {one}
  PROVE  Spec => ImplementsAtomicTarget
<1> DEFINE Pending(a) == a \in todo[one] /\ pc[one] \in {"assign", "load", "store"}
           Seen(a) == IF Pending(a)
                        THEN IF kind[one] = "position" THEN arg[one][a]
                             ELSE current[a] + arg[one][a]
                        ELSE current[a]
           target == [a \in Axes |-> Ahead(a)]
           due == ~Idle
<1>0. target = [a \in Axes |-> Seen(a)] /\ due = (pc[one] # "idle")
  BY AheadOfOne DEF Idle
<1>1. Init => Serial!Init
  <2> SUFFICES ASSUME Init PROVE Serial!Init
    OBVIOUS
  <2>1. \A a \in Axes : Ahead(a) = 0
    BY AheadOfOne DEF Init, Zero
  <2> QED
    BY <2>1 DEF Init, Zero, Idle, Serial!Init
<1>2. TypeOK /\ ReachInv /\ AloneInv /\ SerialInv /\ [Next]_vars
        => [Serial!Next]_(Serial!vars)
  <2>0. target' = [a \in Axes |-> Seen(a)'] /\ due' = (pc'[one] # "idle")
    <3>1. (target = [a \in Axes |-> Seen(a)] /\ due = (pc[one] # "idle"))'
      BY <1>0, PTL
    <3> QED
      BY <3>1
  <2> SUFFICES ASSUME TypeOK, ReachInv, AloneInv, SerialInv, [Next]_vars
               PROVE  [Serial!Next]_(Serial!vars)
    OBVIOUS
  <2>1. ASSUME target' = target, due' = due, goal' = goal
        PROVE  UNCHANGED Serial!vars
    BY <2>1 DEF Serial!vars
  <2>2. CASE RejectBody(one) \/ UNCHANGED vars
    <3>1. \A a \in Axes : Seen(a)' = Seen(a)
      BY <2>2 DEF RejectBody, vars, controller, locals
    <3> QED
      BY <1>0, <2>0, <2>1, <2>2, <3>1 DEF RejectBody, vars, controller
  <2>3. ASSUME NEW p \in Positions, Accept(one, "position", p, "assign")
        PROVE  Serial!Accept
    <3>1. /\ pc[one] = "idle" /\ pc'[one] = "assign" /\ kind'[one] = "position"
          /\ arg'[one] = p /\ todo'[one] = Axes /\ goal' = goal
      BY <2>3 DEF TypeOK, Accept, controller
    <3>2. target' = p
      <4>1. \A a \in Axes : Seen(a)' = p[a]
        BY <3>1
      <4>2. p = [a \in Axes |-> p[a]]
        BY TargetPoseAssumption
      <4> QED
        BY <2>0, <4>1, <4>2
    <3> QED
      BY <1>0, <2>0, <3>1, <3>2 DEF Serial!Accept
  <2>4. ASSUME NEW d \in Moves, Accept(one, "move", d, "load")
        PROVE  Serial!Accept
    <3>1. /\ pc[one] = "idle" /\ pc'[one] = "load" /\ kind'[one] = "move"
          /\ arg'[one] = d /\ todo'[one] = Axes /\ goal' = goal /\ current' = current
      BY <2>4 DEF TypeOK, Accept, controller
    <3>2. target' = Serial!Plus(target, d)
      <4>1. \A a \in Axes : Seen(a)' = current[a] + d[a] /\ Seen(a) = current[a]
        BY <3>1
      <4>2. \A a \in Axes : target[a] = current[a]
        BY <1>0, <4>1
      <4> QED
        BY <2>0, <4>1, <4>2 DEF Serial!Plus
    <3> QED
      BY <1>0, <2>0, <3>1, <3>2 DEF Serial!Accept
  <2>5. ASSUME NEW b \in Axes, AssignAxis(one, b) PROVE UNCHANGED Serial!vars
    <3>1. /\ pc[one] = "assign" /\ kind[one] = "position" /\ pc'[one] \in {"assign", "publish"}
          /\ pc'[one] = "publish" => todo'[one] = {}
          /\ todo'[one] = todo[one] \ {b} /\ current'[b] = arg[one][b]
          /\ \A a \in Axes \ {b} : current'[a] = current[a]
          /\ UNCHANGED <<goal, kind, arg>>
      BY <2>5 DEF TypeOK, ReachInv, AssignAxis, AssignValue
    <3>2. b \in todo[one]
      BY <2>5 DEF AssignAxis, AssignValue
    <3>3. \A a \in Axes : Seen(a)' = Seen(a)
      BY <3>1, <3>2
    <3> QED
      BY <1>0, <2>0, <2>1, <3>1, <3>3
  <2>6. ASSUME NEW b \in Axes, LoadAxis(one, b) PROVE UNCHANGED Serial!vars
    <3>1. /\ pc[one] = "load" /\ pc'[one] = "store"
          /\ UNCHANGED <<current, goal, kind, arg, todo>>
      BY <2>6 DEF TypeOK, LoadAxis, controller
    <3>2. \A a \in Axes : Seen(a)' = Seen(a)
      BY <3>1
    <3> QED
      BY <1>0, <2>0, <2>1, <3>1, <3>2
  <2>7. ASSUME StoreAxis(one) PROVE UNCHANGED Serial!vars
    <3>1. PICK b \in Axes :
            /\ axis[one] = b /\ b \in todo[one] /\ pc[one] = "store" /\ kind[one] = "move"
            /\ reg[one] = current[b] + arg[one][b]
      BY <2>7 DEF TypeOK, ReachInv, SerialInv, StoreAxis, StoreValue
    <3>2. /\ current'[b] = reg[one] /\ \A a \in Axes \ {b} : current'[a] = current[a]
          /\ UNCHANGED <<goal, kind, arg>>
          /\ \/ todo[one] = {b} /\ pc'[one] = "compose"
             \/ pc'[one] = "load" /\ todo'[one] = todo[one] \ {b}
      BY <2>7, <3>1 DEF TypeOK, StoreAxis, StoreValue
    <3>3. \A a \in Axes : Seen(a)' = Seen(a)
      BY <3>1, <3>2
    <3> QED
      BY <1>0, <2>0, <2>1, <3>1, <3>2, <3>3
  <2>8. ASSUME NEW b \in Axes, ComposeAxis(one, b) PROVE UNCHANGED Serial!vars
    <3>1. /\ pc[one] = "compose" /\ pc'[one] \in {"compose", "publish"}
          /\ UNCHANGED <<current, goal>>
      BY <2>8 DEF TypeOK, ComposeAxis, controller
    <3>2. \A a \in Axes : Seen(a)' = Seen(a)
      BY <3>1
    <3> QED
      BY <1>0, <2>0, <2>1, <3>1, <3>2
  <2>9. ASSUME Publish(one) PROVE Serial!Publish \/ Serial!PublishFails
    <3>1. /\ pc[one] = "publish" /\ pc'[one] = "idle" /\ current' = current
          /\ msg[one] = current /\ goal' \in {msg[one], goal}
      BY <2>9 DEF TypeOK, AloneInv, AloneAt, SerialInv, Publish
    <3>2. target = current /\ target' = current
      <4>1. \A a \in Axes : Seen(a) = current[a] /\ Seen(a)' = current[a]
        BY <3>1
      <4>2. current = [a \in Axes |-> current[a]]
        BY DEF TypeOK
      <4> QED
        BY <1>0, <2>0, <4>1, <4>2
    <3> QED
      BY <1>0, <2>0, <3>1, <3>2 DEF Serial!Publish, Serial!PublishFails
  <2>10. CASE Restart
    <3>1. pc'[one] = "idle" /\ current' = Zero /\ goal' = goal
      BY <2>10 DEF Restart
    <3>2. target' = [a \in Axes |-> 0]
      <4>1. \A a \in Axes : Seen(a)' = 0
        BY <3>1 DEF Zero
      <4> QED
        BY <2>0, <4>1
    <3>3. Serial!Restart
      BY <1>0, <2>0, <3>1, <3>2 DEF Serial!Restart
    <3> QED
      BY <3>3 DEF Serial!Next
  <2> QED
    BY <2>2, <2>3, <2>4, <2>5, <2>6, <2>7, <2>8, <2>9, <2>10
       DEF Next, Handler, SendPosition, SendDisplacement, PublishPosition,
           PublishDisplacement, Serial!Next
<1> QED
  BY <1>1, <1>2, TypeCorrect, ReachCorrect, AloneCorrect, SerialCorrect, PTL
     DEF Spec, ImplementsAtomicTarget, Serial!Spec
=============================================================================
