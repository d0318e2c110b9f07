---------------------------- MODULE AtomicTarget -----------------------------
(***************************************************************************)
(* What the goal endpoints promise: one target pose; a request replaces it *)
(* or moves it as a whole, then the target is published as the arm's goal, *)
(* or the publication fails and the target keeps its new value.  A restart *)
(* forgets the target and the request, not the goal.                       *)
(* TargetPose implements this as long as requests do not overlap.          *)
(***************************************************************************)
EXTENDS Integers

CONSTANTS Axes,        \* the axes of a pose
          Positions,   \* poses a client may ask for
          Moves        \* displacements a client may ask for

VARIABLES target,      \* the pose accumulated so far
          goal,        \* the pose last published to the arm
          due          \* a request has changed the target and is not answered

vars == <<target, goal, due>>

Plus(p, d) == [a \in Axes |-> p[a] + d[a]]

Init ==
  /\ target = [a \in Axes |-> 0]
  /\ goal = [a \in Axes |-> 0]
  /\ due = FALSE

Accept ==
  /\ ~due
  /\ target' \in Positions \cup {Plus(target, d) : d \in Moves}
  /\ due' = TRUE
  /\ UNCHANGED goal

Publish ==
  /\ due
  /\ goal' = target
  /\ due' = FALSE
  /\ UNCHANGED target

PublishFails ==
  /\ due
  /\ due' = FALSE
  /\ UNCHANGED <<target, goal>>

Restart ==
  /\ target' = [a \in Axes |-> 0]
  /\ due' = FALSE
  /\ UNCHANGED goal

Next == Accept \/ Publish \/ PublishFails \/ Restart

Spec == Init /\ [][Next]_vars
=============================================================================
