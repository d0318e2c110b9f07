----------------------------- MODULE TargetPose ------------------------------
(***************************************************************************)
(* The goal pose of the arm: currentX, currentY, currentZ of               *)
(* RobotController (internal/robot/controller.go) and the two endpoints    *)
(* that change it, /api/position and /api/move                             *)
(* (internal/api/robot_handler.go), one goroutine per request.             *)
(*                                                                         *)
(* Nothing protects the three fields.  A handler works on one axis at a    *)
(* time, in any order, and each load and each store of a field is a step   *)
(* of its own: that is what a racing float64 access is in the 64-bit build *)
(* of the program.  Coordinates are integers; JSON numbers are finite, and *)
(* the properties do not depend on rounding.                               *)
(*                                                                         *)
(* The process may end at any moment and be started again: the target is   *)
(* lost, the arm keeps its goal.  When and why it ends is Service's        *)
(* subject.  applied, alone and synced are history; requests and restarts  *)
(* bound the model.                                                        *)
(***************************************************************************)
EXTENDS Integers

CONSTANTS Handlers,      \* goroutines serving requests
          Axes,          \* the axes of a pose: x, y and z in the program
          Positions,     \* bodies of /api/position
          Moves,         \* bodies of /api/move
          MaxPos,        \* the furthest coordinate of a position
          MaxStep,       \* the largest component of a move
          MaxRequests,   \* bound: requests with a valid body in a behaviour
          MaxRestarts    \* bound: restarts of the process in a behaviour

Within(n, bound) == -bound <= n /\ n <= bound

ASSUME TargetPoseAssumption ==
  /\ MaxPos \in Nat /\ MaxStep \in Nat /\ MaxRequests \in Nat /\ MaxRestarts \in Nat
  /\ Axes # {}
  /\ Positions \subseteq [Axes -> Int]
  /\ Moves \subseteq [Axes -> Int]
  /\ \A p \in Positions, a \in Axes : Within(p[a], MaxPos)
  /\ \A d \in Moves, a \in Axes : Within(d[a], MaxStep)

VARIABLES
  current,     \* currentX, currentY, currentZ
  goal,        \* the pose last published on /arm_move/goal_pose
  pc,          \* where each handler is, "idle" between two requests
  kind,        \* the endpoint it serves
  arg,         \* the body of the request
  todo,        \* axes left in the statement being executed
  axis, reg,   \* the axis being accumulated and the register with its sum
  msg,         \* the pose in the message it composes
  reply,       \* the status of its last response
  requests, restarts,   \* requests accepted, restarts so far (bounds)
  applied,     \* history: moves stored on each axis
  alone,       \* history: no request overlapped this one
  synced       \* history: nothing has parted target and goal since a request
               \* that was alone published; requests have not overlapped since

controller == <<current, goal>>
locals     == <<kind, arg, todo, axis, reg, msg>>
bounds     == <<requests, restarts>>
vars == <<controller, pc, locals, reply, bounds, applied, alone, synced>>

Zero == [a \in Axes |-> 0]

Idle == \A h \in Handlers : pc[h] = "idle"

(* A handler inside a statement has an axis left to work on. *)
TypeOK ==
  /\ current \in [Axes -> Int] /\ goal \in [Axes -> Int]
  /\ pc \in [Handlers -> {"idle", "assign", "load", "store", "compose", "publish"}]
  /\ kind \in [Handlers -> {"position", "move"}]
  /\ arg \in [Handlers -> [Axes -> Int]]
  /\ todo \in [Handlers -> SUBSET Axes]
  /\ axis \in [Handlers -> Axes] /\ reg \in [Handlers -> Int]
  /\ msg \in [Handlers -> [Axes -> Int]]
  /\ reply \in [Handlers -> {"none", "200", "400", "500"}]
  /\ requests \in 0..MaxRequests /\ restarts \in 0..MaxRestarts
  /\ applied \in [Axes -> Nat]
  /\ alone \in [Handlers -> BOOLEAN] /\ synced \in BOOLEAN
  /\ \A h \in Handlers : pc[h] \in {"assign", "load", "store", "compose"} => todo[h] # {}

Init ==
  /\ current = Zero /\ goal = Zero
  /\ pc = [h \in Handlers |-> "idle"]
  /\ kind = [h \in Handlers |-> "position"]
  /\ arg = [h \in Handlers |-> Zero]
  /\ todo = [h \in Handlers |-> {}]
  /\ axis = [h \in Handlers |-> CHOOSE a \in Axes : TRUE]
  /\ reg = [h \in Handlers |-> 0]
  /\ msg = [h \in Handlers |-> Zero]
  /\ reply = [h \in Handlers |-> "none"]
  /\ requests = 0 /\ restarts = 0
  /\ applied = [a \in Axes |-> 0]
  /\ alone = [h \in Handlers |-> FALSE] /\ synced = FALSE

-----------------------------------------------------------------------------
\* ShouldBindJSON fails: nothing but the response happens.
RejectBody(h) ==
  /\ pc[h] = "idle"
  /\ reply' = [reply EXCEPT ![h] = "400"]
  /\ UNCHANGED <<controller, pc, locals, bounds, applied, alone, synced>>

\* A request with body b reaches handler h.
Accept(h, k, b, first) ==
  /\ pc[h] = "idle"
  /\ requests < MaxRequests
  /\ requests' = requests + 1
  /\ pc' = [pc EXCEPT ![h] = first]
  /\ kind' = [kind EXCEPT ![h] = k]
  /\ arg' = [arg EXCEPT ![h] = b]
  /\ todo' = [todo EXCEPT ![h] = Axes]
  /\ reply' = [reply EXCEPT ![h] = "none"]
  /\ alone' = [g \in Handlers |-> g = h /\ \A k2 \in Handlers \ {h} : pc[k2] = "idle"]
  /\ synced' = (synced /\ Idle)
  /\ UNCHANGED <<controller, axis, reg, msg, restarts, applied>>

SendPosition(h) == \E p \in Positions : Accept(h, "position", p, "assign")

SendDisplacement(h) == \E d \in Moves : Accept(h, "move", d, "load")

AssignValue(h, a, value) ==
  /\ pc[h] = "assign"
  /\ a \in todo[h]
  /\ current' = [current EXCEPT ![a] = value]
  /\ todo' = [todo EXCEPT ![h] = @ \ {a}]
  /\ IF todo[h] = {a}
       THEN /\ msg' = [msg EXCEPT ![h] = arg[h]]
            /\ pc' = [pc EXCEPT ![h] = "publish"]
       ELSE UNCHANGED <<msg, pc>>
  /\ UNCHANGED <<goal, kind, arg, axis, reg, reply, bounds, applied, alone, synced>>

\* Fault: the last axis is not assigned.
AssignAxisPartly(h, a) ==
  AssignValue(h, a, IF todo[h] = {a} THEN current[a] ELSE arg[h][a])

(* PublishPosition stores the three coordinates and composes the message   *)
(* from its arguments, not from the fields.                                *)
AssignAxis(h, a) == AssignValue(h, a, arg[h][a])

(* PublishDisplacement: each += is a load and a store; then the message is *)
(* composed from the fields, read again axis by axis.                      *)
LoadAxis(h, a) ==
  /\ pc[h] = "load"
  /\ a \in todo[h]
  /\ axis' = [axis EXCEPT ![h] = a]
  /\ reg' = [reg EXCEPT ![h] = current[a] + arg[h][a]]
  /\ pc' = [pc EXCEPT ![h] = "store"]
  /\ UNCHANGED <<controller, kind, arg, todo, msg, reply, bounds, applied, alone, synced>>

StoreValue(h, value, next) ==
  /\ pc[h] = "store"
  /\ current' = [current EXCEPT ![axis[h]] = value]
  /\ applied' = [applied EXCEPT ![axis[h]] = @ + 1]
  /\ LET last == todo[h] = {axis[h]} IN
       /\ pc' = [pc EXCEPT ![h] = IF last THEN "compose" ELSE "load"]
       /\ todo' = [todo EXCEPT ![h] = IF last THEN next ELSE @ \ {axis[h]}]
  /\ UNCHANGED <<goal, kind, arg, axis, reg, msg, reply, bounds, alone, synced>>

\* Faults: the move is added twice; it replaces the coordinate; the message
\* is composed from the axes left, which are none.
StoreAxisTwice(h)   == StoreValue(h, reg[h] + arg[h][axis[h]], Axes)
StoreAxisInstead(h) == StoreValue(h, arg[h][axis[h]], Axes)
StoreAxisNoRenew(h) == StoreValue(h, reg[h], {})

StoreAxis(h) == StoreValue(h, reg[h], Axes)

ComposeAxis(h, a) ==
  /\ pc[h] = "compose"
  /\ a \in todo[h]
  /\ msg' = [msg EXCEPT ![h][a] = current[a]]
  /\ todo' = [todo EXCEPT ![h] = @ \ {a}]
  /\ pc' = [pc EXCEPT ![h] = IF todo[h] = {a} THEN "publish" ELSE "compose"]
  /\ UNCHANGED <<controller, kind, arg, axis, reg, reply, bounds, applied, alone, synced>>

\* The publisher takes the message, or returns an error and the target stays.
Publish(h) ==
  /\ pc[h] = "publish"
  /\ pc' = [pc EXCEPT ![h] = "idle"]
  /\ \/ /\ goal' = msg[h]
        /\ reply' = [reply EXCEPT ![h] = "200"]
        /\ synced' = alone[h]
     \/ /\ reply' = [reply EXCEPT ![h] = "500"]
        /\ synced' = FALSE
        /\ UNCHANGED goal
  /\ UNCHANGED <<current, locals, bounds, applied, alone>>

\* The process ends, with its goroutines, and NewController starts from zero.
Restart ==
  /\ restarts < MaxRestarts
  /\ restarts' = restarts + 1
  /\ current' = Zero
  /\ pc' = [h \in Handlers |-> "idle"]
  /\ reply' = [h \in Handlers |-> "none"]
  /\ synced' = FALSE
  /\ UNCHANGED <<goal, locals, requests, applied, alone>>

-----------------------------------------------------------------------------
PublishPosition(h)     == \E a \in Axes : AssignAxis(h, a)
PublishDisplacement(h) == StoreAxis(h) \/ \E a \in Axes : LoadAxis(h, a) \/ ComposeAxis(h, a)

Handler(h) == \/ RejectBody(h) \/ SendPosition(h) \/ SendDisplacement(h)
              \/ PublishPosition(h) \/ PublishDisplacement(h) \/ Publish(h)

Next == Restart \/ \E h \in Handlers : Handler(h)

Spec == Init /\ [][Next]_vars

-----------------------------------------------------------------------------
(* Races may lose a move, but they never apply one twice, nor a mixture of *)
(* stale values that grows: on every axis the target, the goal and each    *)
(* message stay within the furthest position asked for plus one step for   *)
(* every move stored.                                                      *)
Reach(a) == MaxPos + MaxStep * applied[a]

NoRunaway ==
  \A a \in Axes :
    /\ Within(current[a], Reach(a))
    /\ Within(goal[a], Reach(a))
    /\ \A h \in Handlers : pc[h] = "publish" => Within(msg[h][a], Reach(a))

(* NoRunaway with what a handler holds between two statements. *)
ReachInv ==
  /\ NoRunaway
  /\ \A h \in Handlers :
       /\ \A a \in Axes : Within(arg[h][a], IF kind[h] = "position" THEN MaxPos ELSE MaxStep)
       /\ pc[h] = "assign" => kind[h] = "position"
       /\ pc[h] \in {"load", "store", "compose"} => kind[h] = "move"
       /\ pc[h] = "store" =>
            /\ axis[h] \in todo[h]
            /\ \A a \in {axis[h]} : Within(reg[h], Reach(a) + MaxStep)
       /\ pc[h] = "compose" =>
            \A a \in Axes \ todo[h] : Within(msg[h][a], Reach(a))

(* A request no other one overlapped publishes exactly the target it       *)
(* leaves in the controller, and a position leaves itself there: this is   *)
(* how an operator gets rid of the drift that overlapping moves leave.     *)
Resync ==
  \A h \in Handlers :
    pc[h] = "publish" /\ alone[h] =>
      /\ msg[h] = current
      /\ kind[h] = "position" => current = arg[h]

(* Resync with the axes done so far: while a request is alone, no other    *)
(* handler is running.                                                     *)
AloneAt(h) ==
  /\ \A g \in Handlers \ {h} : pc[g] = "idle"
  /\ pc[h] = "assign" => \A a \in Axes \ todo[h] : current[a] = arg[h][a]
  /\ pc[h] = "compose" => \A a \in Axes \ todo[h] : msg[h][a] = current[a]
  /\ pc[h] = "publish" => msg[h] = current /\ (kind[h] = "position" => current = arg[h])

AloneInv == \A h \in Handlers : alone[h] /\ pc[h] # "idle" => AloneAt(h)

(* The arm jumps only when it has been parted from the target: by a        *)
(* restart, a publication that failed or requests that overlapped.  Else a *)
(* displacement that is answered with success moves the goal by exactly    *)
(* itself, so that jogging is as fine as its steps.                        *)
JumpsOnlyUnsynced ==
  [][\A h \in Handlers :
       /\ synced /\ kind[h] = "move"
       /\ pc[h] = "publish" /\ pc'[h] = "idle" /\ reply'[h] = "200"
       => goal' = [a \in Axes |-> goal[a] + arg[h][a]]]_vars

(* While synced, target and goal agree but for what the one request        *)
(* running has stored.                                                     *)
SyncedAt(h) ==
  /\ alone[h]
  /\ kind[h] = "move" =>
       \A a \in Axes :
         LET stored == ~(pc[h] \in {"load", "store"} /\ a \in todo[h]) IN
         current[a] = IF stored THEN goal[a] + arg[h][a] ELSE goal[a]
  /\ pc[h] = "store" => reg[h] = current[axis[h]] + arg[h][axis[h]]

SyncedInv ==
  synced =>
    /\ Idle => goal = current
    /\ \A h \in Handlers : pc[h] # "idle" => SyncedAt(h)

(* With one handler, hence no overlap, every endpoint changes the target   *)
(* as a whole: an axis the handler has not come to yet counts as done.     *)
Ahead(a) ==
  LET busy == {h \in Handlers : a \in todo[h] /\ pc[h] \in {"assign", "load", "store"}} IN
  IF busy = {} THEN current[a]
  ELSE LET h == CHOOSE h \in busy : TRUE IN
       IF kind[h] = "position" THEN arg[h][a] ELSE current[a] + arg[h][a]

Serial == INSTANCE AtomicTarget WITH target <- [a \in Axes |-> Ahead(a)], due <- ~Idle
ImplementsAtomicTarget == Serial!Spec

-----------------------------------------------------------------------------
(* controller.go:416: a displacement is accumulated on the internal        *)
(* target, so after k moves by the same d, and no position nor restart,    *)
(* every axis is at k times d.  The code does not keep this (see the       *)
(* findings in README.md).                                                 *)
NoLostMove ==
  \A d \in Moves : Positions = {} /\ Moves = {d} /\ restarts = 0 =>
    \A a \in Axes : current[a] = applied[a] * d[a]
=============================================================================
