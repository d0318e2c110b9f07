------------------------- MODULE OperatorPanelProofs -------------------------
(***************************************************************************)
(* Proofs about OperatorPanel, for any buttons, blocks, motions and number *)
(* of calls.                                                               *)
(***************************************************************************)
EXTENDS OperatorPanel, TLAPS

Phases == {"sent", "ok", "failed"}

(* One call in flight, as TypeOK has it, when n calls have been made.      *)
CallOK(c, n) ==
  /\ DOMAIN c = {"id", "kind", "body", "phase"}
  /\ c.id \in 1 .. n
  /\ c.kind \in Kinds
  /\ c.kind = "goal" => c.body \in GoalBody
  /\ c.phase \in Phases

(* A new call is well formed and leaves the older ones so.                 *)
LEMMA CallKeepsType ==
  ASSUME TypeOK, NEW kind \in Kinds, NEW body, Call(kind, body),
         kind = "goal" => body \in GoalBody
  PROVE  /\ made' \in 0 .. MaxCalls /\ made' = made + 1
         /\ \A c \in calls' : CallOK(c, made')
<1> USE OperatorPanelAssumption
<1>1. made \in 0 .. MaxCalls /\ made < MaxCalls /\ made' = made + 1
  BY DEF Call, TypeOK
<1>2. \A c \in calls : CallOK(c, made')
  BY <1>1 DEF TypeOK, CallOK, Phases
<1>3. CallOK([id |-> made + 1, kind |-> kind, body |-> body, phase |-> "sent"], made')
  BY <1>1 DEF CallOK, Phases
<1> QED
  BY <1>1, <1>2, <1>3 DEF Call

(* A call that changes its phase keeps its form.                           *)
LEMMA BecomesKeepsType ==
  ASSUME TypeOK, NEW c \in calls, NEW phase \in Phases, Becomes(c, phase), made' = made
  PROVE  \A d \in calls' : CallOK(d, made')
<1>1. \A d \in calls : CallOK(d, made')
  BY DEF TypeOK, CallOK, Phases
<1>2. CallOK([c EXCEPT !.phase = phase], made')
  BY <1>1 DEF CallOK, Phases
<1> QED
  BY <1>1, <1>2 DEF Becomes

(* So does a call whose field is unmounted.                                *)
LEMMA UnmountKeepsType ==
  ASSUME NEW n, NEW c, CallOK(c, n), c.kind = "goal"
  PROVE  CallOK([c EXCEPT !.body.mounted = FALSE], n)
<1>1. c.body \in GoalBody
  BY DEF CallOK
<1>2. [c.body EXCEPT !.mounted = FALSE] \in GoalBody
  BY <1>1 DEF GoalBody
<1> QED
  BY <1>2 DEF CallOK

(* A block lies in one of the rows and columns of the field, and is        *)
(* numbered from them.                                                     *)
LEMMA RowsAndColumns ==
  ASSUME NEW i \in 1 .. 40
  PROVE  /\ Row(i) \in 0 .. 9 /\ Column(i) \in 0 .. 3
         /\ RowX[Row(i) + 1] \in Int
<1>1. Row(i) \in 0 .. 9 /\ Column(i) \in 0 .. 3
  BY DEF Row, Column, COLS
<1>2. \A r \in 0 .. 9 : RowX[r + 1] \in Int
  BY DEF RowX
<1> QED
  BY <1>1, <1>2

(* Every index has a goal on either side.                                  *)
LEMMA GoalPoint ==
  ASSUME NEW here \in Sides, NEW i \in Indices
  PROVE  Goal(here, i) \in Points
<1>1. CASE i = 0
  BY <1>1 DEF Goal, RELEASE_POSITION, Point, Points, OFFSET_POSITION
<1>2. CASE i # 0
  <2>1. i \in 1 .. 40
    BY <1>2 DEF Indices, ROWS, COLS
  <2>2. RED_COORDS(i) \in Points /\ BLUE_COORDS(i) \in Points
    BY <2>1, RowsAndColumns DEF RED_COORDS, BLUE_COORDS, Point, Points
  <2>3. \A p \in Points : [p EXCEPT !.y = @ - OFFSET_POSITION] \in Points
    BY DEF Points, OFFSET_POSITION
  <2> QED
    BY <1>2, <2>2, <2>3 DEF Goal
<1> QED
  BY <1>1, <1>2

-----------------------------------------------------------------------------
(* Every step of the operator, the timer, the network, the backend and the *)
(* page keeps the types.                                                   *)
THEOREM TypeCorrect == Spec => []TypeOK
<1> USE OperatorPanelAssumption DEF pad, field, client
<1>1. ASSUME Init PROVE TypeOK
  <2>1. lost \in BOOLEAN
    BY <1>1, Zenon DEF Init
  <2>2. message \in [status : {"blank", "running", "ok", "failed"}, id : 0 .. made]
    BY <1>1 DEF Init
  <2> QED
    BY <1>1, <2>1, <2>2 DEF Init, TypeOK, Sides
<1>2. TypeOK /\ [Next]_vars => TypeOK'
  <2> SUFFICES ASSUME TypeOK, [Next]_vars PROVE TypeOK'
    OBVIOUS
  <2>0. \A n \in Nat : 1 .. n \subseteq 1 .. n + 1 /\ 0 .. n \subseteq 0 .. n + 1
    OBVIOUS
  <2>1. ASSUME NEW b \in Buttons, Press(b) PROVE TypeOK'
    <3>1. CASE interval = "none"
      <4>1. interval' = b /\ Call("move", b)
        BY <2>1, <3>1 DEF Press
      <4>2. lost' \in BOOLEAN
        BY <2>1, <3>1, Zenon DEF Press
      <4>3. made' = made + 1 /\ made' \in 0 .. MaxCalls
        BY <4>1, CallKeepsType DEF Kinds
      <4>4. \A c \in calls' : CallOK(c, made')
        BY <4>1, CallKeepsType DEF Kinds
      <4> QED
        BY <2>1, <4>1, <4>2, <4>3, <4>4 DEF Press, TypeOK, CallOK, Phases
    <3>2. CASE interval # "none"
      BY <2>1, <3>2 DEF Press, TypeOK
    <3> QED
      BY <3>1, <3>2
  <2>2. ASSUME NEW b \in Buttons, Release(b) \/ ReleaseLost(b) PROVE TypeOK'
    BY <2>2 DEF Release, ReleaseLost, TypeOK
  <2>3. CASE PressZ
    BY <2>3, CallKeepsType DEF PressZ, TypeOK, CallOK, Phases, Kinds
  <2>4. CASE Tick
    BY <2>4, CallKeepsType DEF Tick, TypeOK, CallOK, Phases, Kinds
  <2>5. ASSUME NEW k \in Blocks, PressBlock(k) PROVE TypeOK'
    <3>1. [side |-> side, index |-> k, pos |-> Goal(side, k), mounted |-> TRUE] \in GoalBody
      BY GoalPoint DEF TypeOK, GoalBody
    <3> QED
      BY <2>5, <3>1, CallKeepsType DEF PressBlock, TypeOK, CallOK, Phases, Kinds
  <2>6. ASSUME NEW s \in Sides, SetSide(s) PROVE TypeOK'
    BY <2>6 DEF SetSide, TypeOK
  <2>7. ASSUME NEW m \in Motions, PressMotion(m) PROVE TypeOK'
    BY <2>7, CallKeepsType DEF PressMotion, TypeOK, CallOK, Phases, Kinds
  <2>8. ASSUME NEW input \in {"blank", "typed"}, SubmitGoal(input) PROVE TypeOK'
    BY <2>8, CallKeepsType DEF SubmitGoal, TypeOK, CallOK, Phases, Kinds
  <2>9. CASE SubmitJoints
    BY <2>9, CallKeepsType DEF SubmitJoints, TypeOK, CallOK, Phases, Kinds
  <2>10. ASSUME NEW t \in {"competition", "debug", "field", "camera"}, SwitchTab(t)
         PROVE TypeOK'
    <3>1. held' \subseteq Buttons /\ (interval' = "none" \/ interval' \in Buttons)
      BY <2>10 DEF SwitchTab, TypeOK
    <3>2. lost' = lost
      BY <2>10 DEF SwitchTab
    <3>3. /\ side' \in Sides /\ lastSent' \in 0 .. made
          /\ \/ lastGoal' = Nothing
             \/ lastGoal' \in [id : 1 .. made, side : Sides, index : Blocks, pos : Points]
      BY <2>10 DEF SwitchTab, TypeOK, Sides
    <3>4. \A c \in calls' : CallOK(c, made)
      BY <2>10, UnmountKeepsType DEF SwitchTab, TypeOK, CallOK, Phases
    <3> QED
      BY <2>10, <3>1, <3>2, <3>3, <3>4 DEF SwitchTab, TypeOK, CallOK, Phases
  <2>11. ASSUME NEW c \in calls, Execute(c) \/ Fail(c) PROVE TypeOK'
    BY <2>11, BecomesKeepsType DEF Execute, Fail, TypeOK, CallOK, Phases
  <2>12. ASSUME NEW c \in calls, Settle(c) PROVE TypeOK'
    BY <2>12 DEF Settle, TypeOK, GoalShown, Status, Outcome, GoalBody
  <2>13. CASE UNCHANGED vars
    BY <2>13 DEF vars, TypeOK
  <2> QED
    BY <2>1, <2>2, <2>3, <2>4, <2>5, <2>6, <2>7, <2>8, <2>9, <2>10, <2>11, <2>12, <2>13
       DEF Next, Operator
<1> QED
  BY <1>1, <1>2, PTL DEF Spec

-----------------------------------------------------------------------------
(* The pad's interval runs only while its arrow is held, or a release has  *)
(* been lost.                                                              *)
THEOREM JogOnlyWhileHeldAlways == Spec => []JogOnlyWhileHeld
<1> USE DEF JogOnlyWhileHeld, pad, field, client
<1>1. Init => JogOnlyWhileHeld
  BY DEF Init
<1>2. JogOnlyWhileHeld /\ [Next]_vars => JogOnlyWhileHeld'
  <2> SUFFICES ASSUME JogOnlyWhileHeld, [Next]_vars PROVE JogOnlyWhileHeld'
    OBVIOUS
  <2>1. ASSUME NEW b \in Buttons, Press(b) PROVE JogOnlyWhileHeld'
    <3>1. CASE interval = "none"
      BY <2>1, <3>1 DEF Press
    <3>2. CASE interval # "none"
      BY <2>1, <3>2 DEF Press
    <3> QED
      BY <3>1, <3>2
  <2>2. ASSUME NEW b \in Buttons, Release(b) PROVE JogOnlyWhileHeld'
    BY <2>2 DEF Release
  <2>3. ASSUME NEW b \in Buttons, ReleaseLost(b) PROVE JogOnlyWhileHeld'
    BY <2>3 DEF ReleaseLost
  <2>4. ASSUME NEW t \in {"competition", "debug", "field", "camera"}, SwitchTab(t)
        PROVE JogOnlyWhileHeld'
    BY <2>4 DEF SwitchTab
  <2>5. CASE UNCHANGED pad
    BY <2>5
  <2> QED
    BY <2>1, <2>2, <2>3, <2>4, <2>5
       DEF Next, Operator, PressZ, Tick, PressBlock, SetSide, PressMotion, SubmitGoal,
           SubmitJoints, Execute, Fail, Settle, vars
<1> QED
  BY <1>1, <1>2, PTL DEF Spec

-----------------------------------------------------------------------------
(* What the page may take from a call: an answer that is a success comes   *)
(* from an execution, and a goal's coordinate is that of its side and      *)
(* index.                                                                  *)
CallTrue(c, done) ==
  /\ c.phase = "ok" => c.id \in done
  /\ c.kind = "goal" => c.body.pos = Goal(c.body.side, c.body.index)

CallsTrue == \A c \in calls : CallTrue(c, executed)

PageTrue == CallsTrue /\ GoalDisplayed /\ SuccessMeansExecuted

(* Making a call, and announcing it, keeps the page true.                  *)
LEMMA CallKeepsTruth ==
  ASSUME PageTrue, NEW kind, NEW body, Call(kind, body), executed' = executed,
         kind = "goal" => body.pos = Goal(body.side, body.index),
         lastGoal' = lastGoal,
         message' = message \/ message'.status = "running"
  PROVE  PageTrue'
<1>1. CallTrue([id |-> made + 1, kind |-> kind, body |-> body, phase |-> "sent"], executed)
  BY DEF CallTrue
<1>2. CallsTrue'
  BY <1>1 DEF Call, PageTrue, CallsTrue
<1>3. GoalDisplayed' /\ SuccessMeansExecuted'
  BY DEF PageTrue, GoalDisplayed, SuccessMeansExecuted
<1> QED
  BY <1>2, <1>3 DEF PageTrue

(* Every step keeps the page true: nothing is displayed that was not       *)
(* executed.                                                               *)
LEMMA StepKeepsTruth ==
  ASSUME TypeOK, PageTrue, [Next]_vars
  PROVE  PageTrue'
<1> USE DEF pad, field, client
<1>1. ASSUME NEW b \in Buttons, Press(b) PROVE PageTrue'
  <2>1. CASE interval = "none"
    BY <1>1, <2>1, CallKeepsTruth DEF Press
  <2>2. CASE interval # "none"
    BY <1>1, <2>2 DEF Press, PageTrue, CallsTrue, GoalDisplayed, SuccessMeansExecuted
  <2> QED
    BY <2>1, <2>2
<1>2. CASE PressZ \/ Tick \/ SubmitJoints
  BY <1>2, CallKeepsTruth DEF PressZ, Tick, SubmitJoints
<1>3. ASSUME NEW k \in Blocks, PressBlock(k) PROVE PageTrue'
  BY <1>3, CallKeepsTruth DEF PressBlock
<1>4. ASSUME NEW m \in Motions, PressMotion(m) PROVE PageTrue'
  BY <1>4, CallKeepsTruth DEF PressMotion
<1>5. ASSUME NEW input \in {"blank", "typed"}, SubmitGoal(input) PROVE PageTrue'
  BY <1>5, CallKeepsTruth DEF SubmitGoal
<1>6. ASSUME NEW b \in Buttons, Release(b) \/ ReleaseLost(b) PROVE PageTrue'
  BY <1>6 DEF Release, ReleaseLost, PageTrue, CallsTrue, GoalDisplayed, SuccessMeansExecuted
<1>7. ASSUME NEW s \in Sides, SetSide(s) PROVE PageTrue'
  BY <1>7 DEF SetSide, PageTrue, CallsTrue, GoalDisplayed, SuccessMeansExecuted
<1>8. ASSUME NEW t \in {"competition", "debug", "field", "camera"}, SwitchTab(t)
      PROVE PageTrue'
  <2>1. \A c \in calls : c.kind = "goal" =>
          CallTrue([c EXCEPT !.body.mounted = FALSE], executed)
    <3> SUFFICES ASSUME NEW c \in calls, c.kind = "goal"
                 PROVE  CallTrue([c EXCEPT !.body.mounted = FALSE], executed)
      OBVIOUS
    <3>1. c.body \in GoalBody /\ CallTrue(c, executed) /\ CallOK(c, made)
      BY DEF TypeOK, PageTrue, CallsTrue, CallOK, Phases
    <3> DEFINE body == [c.body EXCEPT !.mounted = FALSE]
    <3>2. body.pos = c.body.pos /\ body.side = c.body.side /\ body.index = c.body.index
      BY <3>1 DEF GoalBody
    <3>3. /\ [c EXCEPT !.body.mounted = FALSE].body = body
          /\ [c EXCEPT !.body.mounted = FALSE].kind = c.kind
          /\ [c EXCEPT !.body.mounted = FALSE].id = c.id
          /\ [c EXCEPT !.body.mounted = FALSE].phase = c.phase
      BY <3>1 DEF CallOK
    <3> HIDE DEF body
    <3> QED
      BY <3>1, <3>2, <3>3 DEF CallTrue
  <2>2. CallsTrue'
    BY <1>8, <2>1 DEF SwitchTab, PageTrue, CallsTrue
  <2>3. GoalDisplayed'
    BY <1>8 DEF SwitchTab, PageTrue, GoalDisplayed
  <2> QED
    BY <1>8, <2>2, <2>3 DEF SwitchTab, PageTrue, SuccessMeansExecuted
<1>9. ASSUME NEW c \in calls, Execute(c) \/ Fail(c) PROVE PageTrue'
  <2>1. executed \subseteq executed'
    BY <1>9 DEF Execute, Fail
  <2>2. CallOK(c, made) /\ CallTrue(c, executed)
    BY DEF TypeOK, PageTrue, CallsTrue, CallOK, Phases
  <2>3. PICK phase \in Phases : /\ calls' = (calls \ {c}) \cup {[c EXCEPT !.phase = phase]}
                                /\ phase = "ok" => c.id \in executed'
    BY <1>9 DEF Execute, Fail, Becomes, Phases
  <2>4. CallTrue([c EXCEPT !.phase = phase], executed')
    <3>1. [c EXCEPT !.phase = phase] = [x \in DOMAIN c |-> IF x = "phase" THEN phase ELSE c[x]]
      BY <2>2 DEF CallOK
    <3> QED
      BY <2>2, <2>3, <3>1 DEF CallTrue, CallOK
  <2>5. CallsTrue'
    BY <2>1, <2>3, <2>4 DEF PageTrue, CallsTrue, CallTrue
  <2> QED
    BY <1>9, <2>1, <2>5 DEF Execute, Fail, PageTrue, GoalDisplayed, SuccessMeansExecuted
<1>10. ASSUME NEW c \in calls, Settle(c) PROVE PageTrue'
  BY <1>10 DEF Settle, GoalShown, Status, Outcome, PageTrue, CallsTrue, CallTrue,
               GoalDisplayed, SuccessMeansExecuted
<1>11. CASE UNCHANGED vars
  BY <1>11 DEF vars, PageTrue, CallsTrue, GoalDisplayed, SuccessMeansExecuted
<1> QED
  BY <1>1, <1>2, <1>3, <1>4, <1>5, <1>6, <1>7, <1>8, <1>9, <1>10, <1>11 DEF Next, Operator

(* The field never displays a goal that was not executed, nor under a side *)
(* or index that is not its own.                                           *)
THEOREM GoalDisplayedAlways == Spec => []GoalDisplayed
<1>1. Init => PageTrue
  BY DEF Init, PageTrue, CallsTrue, GoalDisplayed, SuccessMeansExecuted
<1>2. TypeOK /\ PageTrue /\ [Next]_vars => PageTrue'
  BY StepKeepsTruth
<1>3. PageTrue => GoalDisplayed
  BY DEF PageTrue
<1> QED
  BY <1>1, <1>2, <1>3, TypeCorrect, PTL DEF Spec

(* The status line never reports a success of what was not executed.       *)
THEOREM SuccessMeansExecutedAlways == Spec => []SuccessMeansExecuted
<1>1. Init => PageTrue
  BY DEF Init, PageTrue, CallsTrue, GoalDisplayed, SuccessMeansExecuted
<1>2. TypeOK /\ PageTrue /\ [Next]_vars => PageTrue'
  BY StepKeepsTruth
<1>3. PageTrue => SuccessMeansExecuted
  BY DEF PageTrue
<1> QED
  BY <1>1, <1>2, <1>3, TypeCorrect, PTL DEF Spec

-----------------------------------------------------------------------------
(* An announcement on the status line has a call that is still to settle.  *)
THEOREM NeverStuckRunningAlways == Spec => []NeverStuckRunning
<1> USE DEF pad, field, client
<1>1. Init => NeverStuckRunning
  BY DEF Init, NeverStuckRunning
<1>2. TypeOK /\ NeverStuckRunning /\ [Next]_vars => NeverStuckRunning'
  <2> SUFFICES ASSUME TypeOK, NeverStuckRunning, [Next]_vars, message'.status = "running"
               PROVE  \E c \in calls' : c.kind \in {"motion", "form"}
    BY DEF NeverStuckRunning
  <2>1. ASSUME calls \subseteq calls', message' = message
        PROVE  \E c \in calls' : c.kind \in {"motion", "form"}
    BY <2>1 DEF NeverStuckRunning
  <2>2. ASSUME NEW kind, NEW body, Call(kind, body), kind \in {"motion", "form"}
        PROVE  \E c \in calls' : c.kind \in {"motion", "form"}
    <3> DEFINE new == [id |-> made + 1, kind |-> kind, body |-> body, phase |-> "sent"]
    <3>1. new \in calls'
      BY <2>2 DEF Call
    <3>2. new.kind = kind
      OBVIOUS
    <3> QED
      BY <2>2, <3>1, <3>2
  <2>3. \A kind, body : Call(kind, body) => calls \subseteq calls'
    BY DEF Call
  <2>4. ASSUME NEW m \in Motions, PressMotion(m)
        PROVE  \E c \in calls' : c.kind \in {"motion", "form"}
    BY <2>2, <2>4 DEF PressMotion
  <2>5. ASSUME NEW input \in {"blank", "typed"}, SubmitGoal(input)
        PROVE  \E c \in calls' : c.kind \in {"motion", "form"}
    BY <2>2, <2>5 DEF SubmitGoal
  <2>6. ASSUME NEW t \in {"competition", "debug", "field", "camera"}, SwitchTab(t)
        PROVE  \E c \in calls' : c.kind \in {"motion", "form"}
    <3>1. PICK c \in calls : c.kind \in {"motion", "form"}
      BY <2>6 DEF SwitchTab, NeverStuckRunning
    <3>2. c \in calls'
      BY <2>6, <3>1 DEF SwitchTab
    <3> QED
      BY <3>1, <3>2
  <2>7. ASSUME NEW c \in calls, Execute(c) \/ Fail(c)
        PROVE  \E d \in calls' : d.kind \in {"motion", "form"}
    <3>1. PICK d \in calls : d.kind \in {"motion", "form"}
      BY <2>7 DEF Execute, Fail, NeverStuckRunning
    <3>2. PICK phase : calls' = (calls \ {c}) \cup {[c EXCEPT !.phase = phase]}
      BY <2>7 DEF Execute, Fail, Becomes
    <3>3. [c EXCEPT !.phase = phase].kind = c.kind
      <4>1. CallOK(c, made)
        BY DEF TypeOK, CallOK, Phases
      <4> QED
        BY <4>1 DEF CallOK
    <3> QED
      BY <3>1, <3>2, <3>3
  <2>8. ASSUME NEW c \in calls, Settle(c)
        PROVE  \E d \in calls' : d.kind \in {"motion", "form"}
    <3>1. c.phase \in {"ok", "failed"}
      BY <2>8 DEF Settle, TypeOK
    <3>2. c.kind \notin Reporting /\ message' = message
      BY <2>8, <3>1 DEF Settle, Status, Outcome
    <3>3. PICK d \in calls : d.kind \in {"motion", "form"}
      BY <3>2 DEF NeverStuckRunning
    <3>4. d # c
      BY <3>2, <3>3 DEF Reporting
    <3> QED
      BY <2>8, <3>3, <3>4 DEF Settle
  <2>9. CASE message' = message /\ \/ UNCHANGED calls
                                   \/ \E kind, body : Call(kind, body)
    BY <2>1, <2>3, <2>9
  <2>10. ASSUME NEW b \in Buttons, Press(b) \/ Release(b) \/ ReleaseLost(b)
         PROVE  \E c \in calls' : c.kind \in {"motion", "form"}
    BY <2>9, <2>10 DEF Press, Release, ReleaseLost
  <2>11. ASSUME NEW k \in Blocks, PressBlock(k)
         PROVE  \E c \in calls' : c.kind \in {"motion", "form"}
    BY <2>9, <2>11 DEF PressBlock
  <2>12. CASE PressZ \/ Tick \/ SubmitJoints \/ UNCHANGED vars
    BY <2>9, <2>12 DEF PressZ, Tick, SubmitJoints, vars
  <2>13. ASSUME NEW s \in Sides, SetSide(s)
         PROVE  \E c \in calls' : c.kind \in {"motion", "form"}
    BY <2>9, <2>13 DEF SetSide
  <2> QED
    BY <2>4, <2>5, <2>6, <2>7, <2>8, <2>10, <2>11, <2>12, <2>13 DEF Next, Operator
<1> QED
  BY <1>1, <1>2, TypeCorrect, PTL DEF Spec

-----------------------------------------------------------------------------
(* The mirror image of a goal is a goal of the other side: the release     *)
(* position's is its own, a block's is that of the same row and the        *)
(* opposite column.                                                        *)
LEMMA MirrorImage ==
  ASSUME NEW here \in Sides, NEW i \in Indices
  PROVE  \E j \in Indices, other \in Sides \ {here} :
           /\ (j = 0) <=> (i = 0)
           /\ Goal(other, j) = [x |-> -Goal(here, i).x, y |-> Goal(here, i).y]
<1>1. PICK other \in Sides \ {here} : {here, other} = Sides
  BY DEF Sides
<1>2. CASE i = 0
  BY <1>1, <1>2 DEF Goal, RELEASE_POSITION, Point, OFFSET_POSITION, Sides
<1>3. CASE i # 0
  <2>1. i \in 1 .. 40
    BY <1>3 DEF Indices, ROWS, COLS
  <2> DEFINE j == 4 * Row(i) + (3 - Column(i)) + 1
  <2>2. j \in 1 .. 40 /\ j \in Indices /\ j # 0
    BY <2>1, RowsAndColumns DEF Indices, ROWS, COLS
  <2>3. Row(j) = Row(i) /\ Column(j) = 3 - Column(i)
    <3>1. \A r \in 0 .. 9, c \in 0 .. 3 : (4 * r + c) \div 4 = r /\ (4 * r + c) % 4 = c
      OBVIOUS
    <3>2. Row(i) \in 0 .. 9 /\ 3 - Column(i) \in 0 .. 3 /\ j - 1 = 4 * Row(i) + (3 - Column(i))
      BY <2>1, RowsAndColumns
    <3> QED
      BY <3>1, <3>2 DEF Row, Column, COLS
  <2>4. RowX[Row(i) + 1] \in Int /\ Column(i) \in 0 .. 3
    BY <2>1, RowsAndColumns
  <2> HIDE DEF j
  <2>5. RED_COORDS(j) = [x |-> -BLUE_COORDS(i).x, y |-> BLUE_COORDS(i).y]
    BY <2>3, <2>4 DEF RED_COORDS, BLUE_COORDS, Point
  <2>6. BLUE_COORDS(j) = [x |-> -RED_COORDS(i).x, y |-> RED_COORDS(i).y]
    BY <2>3, <2>4 DEF RED_COORDS, BLUE_COORDS, Point
  <2>7. Goal(other, j) = [x |-> -Goal(here, i).x, y |-> Goal(here, i).y]
    <3>1. CASE here = "red" /\ other = "blue"
      BY <1>3, <2>2, <2>6, <3>1 DEF Goal, RED_COORDS, BLUE_COORDS, Point
    <3>2. CASE here = "blue" /\ other = "red"
      BY <1>3, <2>2, <2>5, <3>2 DEF Goal, RED_COORDS, BLUE_COORDS, Point
    <3> QED
      BY <1>1, <3>1, <3>2 DEF Sides
  <2> QED
    BY <1>1, <1>3, <2>2, <2>7
<1> QED
  BY <1>2, <1>3

(* Whatever a side can be sent to, the other side can be sent to the       *)
(* mirror image of.                                                        *)
THEOREM GoalsMirroredAlways == Spec => []GoalsMirrored
<1>1. Init => PageTrue
  BY DEF Init, PageTrue, CallsTrue, GoalDisplayed, SuccessMeansExecuted
<1>2. TypeOK /\ PageTrue /\ [Next]_vars => PageTrue'
  BY StepKeepsTruth
<1>3. TypeOK /\ PageTrue => GoalsMirrored
  <2> SUFFICES ASSUME TypeOK, PageTrue, NEW c \in calls, c.kind = "goal"
               PROVE  \E j \in Indices, other \in Sides \ {c.body.side} :
                        /\ (j = 0) <=> (c.body.index = 0)
                        /\ Goal(other, j) = [x |-> -c.body.pos.x, y |-> c.body.pos.y]
    BY DEF GoalsMirrored
  <2>1. c.body.side \in Sides /\ c.body.index \in Indices
    BY OperatorPanelAssumption DEF TypeOK, GoalBody
  <2>2. c.body.pos = Goal(c.body.side, c.body.index)
    BY DEF PageTrue, CallsTrue, CallTrue
  <2>3. \A here \in Sides, i \in Indices :
          \E j \in Indices, other \in Sides \ {here} :
            /\ (j = 0) <=> (i = 0)
            /\ Goal(other, j) = [x |-> -Goal(here, i).x, y |-> Goal(here, i).y]
    BY MirrorImage
  <2>4. PICK j \in Indices, other \in Sides \ {c.body.side} :
          /\ (j = 0) <=> (c.body.index = 0)
          /\ Goal(other, j) = [x |-> -Goal(c.body.side, c.body.index).x,
                               y |-> Goal(c.body.side, c.body.index).y]
    BY <2>1, <2>3, Zenon
  <2> QED
    BY <2>2, <2>4, Zenon
<1> QED
  BY <1>1, <1>2, <1>3, TypeCorrect, PTL DEF Spec
=============================================================================
