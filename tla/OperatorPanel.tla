---------------------------- MODULE OperatorPanel ----------------------------
(***************************************************************************)
(* The operator's page: the control pad (components/ControlPad.tsx), the   *)
(* field (components/RobotField.tsx) and the motion buttons and forms with *)
(* their status line (App.tsx), over the HTTP client (api/robotAPI.ts).    *)
(* Every call is one fetch without retry or timeout; calls overlap, are    *)
(* executed and answered in any order, and fail before or after the        *)
(* backend has executed them.  What the backend does in executing one is   *)
(* TargetPose's subject.                                                   *)
(*                                                                         *)
(* A number typed into a form is "typed"; "half" is 0.5.                   *)
(* executed, lost and lastSent are history; MaxCalls bounds the model.     *)
(***************************************************************************)
EXTENDS FieldTables

CONSTANTS Buttons,    \* the four arrows of the control pad
          Blocks,     \* indices pressed on the field, 0 is the release button
          Motions,    \* motion buttons
          MaxCalls    \* bound: calls made during a behaviour

ASSUME OperatorPanelAssumption == MaxCalls \in Nat /\ Blocks \subseteq Indices

VARIABLES
  tab,        \* activeTab
  held,       \* arrows the operator holds down
  interval,   \* the arrow whose interval is running, or "none"
  side,       \* side of the field that is mounted
  lastGoal,   \* the goal RobotField shows as the last one sent
  message,    \* the status line
  made,       \* calls made so far; they are numbered (bound)
  calls,      \* calls not settled yet
  executed,   \* history: calls the backend has executed
  lost,       \* history: the end of a press was not delivered since the start
  lastSent    \* history: the last goal sent by the field that is mounted

pad    == <<held, interval, lost>>
field  == <<side, lastGoal, lastSent>>
client == <<made, calls>>
vars == <<tab, pad, field, message, client, executed>>

Nothing == [id |-> 0]
Kinds == {"move", "lift", "goal", "motion", "form", "joints"}

\* Calls whose settling writes the status line.
Reporting == {"motion", "form", "joints"}

Init ==
  /\ tab = "competition"
  /\ held = {} /\ interval = "none" /\ lost = FALSE
  /\ side = "blue" /\ lastGoal = Nothing /\ lastSent = 0
  /\ message = [status |-> "blank", id |-> 0]
  /\ made = 0 /\ calls = {}
  /\ executed = {}

-----------------------------------------------------------------------------
(* fetch: the call is on its way.  A call of the field carries the side    *)
(* and the coordinate its closure has captured.                            *)
Call(kind, body) ==
  /\ made < MaxCalls
  /\ made' = made + 1
  /\ calls' = calls \cup
       {[id |-> made + 1, kind |-> kind, body |-> body, phase |-> "sent"]}

(* The control pad.  start ignores a press while an interval is running,   *)
(* and otherwise ticks at once; every tick sends a move and waits for      *)
(* nothing.                                                                *)
Press(b) ==
  /\ tab = "competition"
  /\ b \notin held
  /\ held' = held \cup {b}
  /\ IF interval = "none"
       THEN interval' = b /\ lost' = FALSE /\ Call("move", b)
       ELSE UNCHANGED <<interval, lost, client>>
  /\ UNCHANGED <<tab, field, message, executed>>

Tick ==
  /\ interval # "none"
  /\ Call("move", interval)
  /\ UNCHANGED <<tab, pad, field, message, executed>>

\* Fault: the release stops the interval only when no button is left.
ReleaseOfLast(b) ==
  /\ b \in held
  /\ held' = held \ {b}
  /\ interval' = IF held = {b} THEN "none" ELSE interval
  /\ UNCHANGED <<tab, lost, field, message, client, executed>>

\* Mouse up, touch end or mouse leave (pressed or not), of whichever arrow: stop.
Release(b) ==
  /\ b \in held \/ interval # "none"
  /\ held' = held \ {b}
  /\ interval' = "none"
  /\ UNCHANGED <<tab, lost, field, message, client, executed>>

\* The press ends without any of those events: a cancelled touch has no handler.
ReleaseLost(b) ==
  /\ b \in held
  /\ held' = held \ {b}
  /\ lost' = TRUE
  /\ UNCHANGED <<tab, interval, field, message, client, executed>>

\* Fault: Z jogs like an arrow, without the events that would end it.
PressZAsArrow ==
  /\ tab = "competition"
  /\ interval' = "z"
  /\ Call("lift", "z")
  /\ UNCHANGED <<tab, held, lost, field, message, executed>>

\* Z+ and Z-: one motion each, the outcome is not looked at.
PressZ ==
  /\ tab = "competition"
  /\ Call("lift", "z")
  /\ UNCHANGED <<tab, pad, field, message, executed>>

-----------------------------------------------------------------------------
(* The field: a block or the release button sends its coordinate from the  *)
(* table of the side that is on.                                           *)
HasField == tab \in {"competition", "field"}

PressBlock(k) ==
  /\ HasField
  /\ Call("goal", [side |-> side, index |-> k, pos |-> Goal(side, k), mounted |-> TRUE])
  /\ lastSent' = made + 1
  /\ UNCHANGED <<tab, pad, side, lastGoal, message, executed>>

SetSide(s) ==
  /\ HasField
  /\ side # s
  /\ side' = s
  /\ UNCHANGED <<tab, pad, lastGoal, lastSent, message, client, executed>>

(* App: motion buttons and the goal form announce themselves on the status *)
(* line, the joint form does not.                                          *)
PressMotion(m) ==
  /\ tab = "competition"
  /\ Call("motion", m)
  /\ message' = [status |-> "running", id |-> made + 1]
  /\ UNCHANGED <<tab, pad, field, executed>>

(* The z of the form: parseFloat makes NaN of a blank input, ?? fills in   *)
(* for undefined alone, JSON writes NaN as null, and Go leaves the field   *)
(* at 0 for null.                                                          *)
ParseFloat(input) == IF input = "blank" THEN "NaN" ELSE input
HalfIfUndefined(z) == IF z = "undefined" THEN "half" ELSE z
Stringify(z) == IF z = "NaN" THEN "null" ELSE z
BoundAsFloat(z) == IF z = "null" THEN "zero" ELSE z

SubmitGoal(input) ==
  /\ tab \in {"competition", "debug"}
  /\ Call("form", [input |-> input,
                   z |-> BoundAsFloat(Stringify(HalfIfUndefined(ParseFloat(input))))])
  /\ message' = [status |-> "running", id |-> made + 1]
  /\ UNCHANGED <<tab, pad, field, executed>>

SubmitJoints ==
  /\ tab = "debug"
  /\ Call("joints", "angles")
  /\ UNCHANGED <<tab, pad, field, message, executed>>

\* The pad and the field of the old tab are unmounted: the pad stops, and the
\* field's state, with what its pending answers would write, is dropped.
SwitchTab(t) ==
  /\ t # tab
  /\ tab' = t
  /\ IF tab = "competition"
       THEN held' = {} /\ interval' = "none" /\ UNCHANGED lost
       ELSE UNCHANGED pad
  /\ IF HasField
       THEN /\ side' = "blue" /\ lastGoal' = Nothing /\ lastSent' = 0
            /\ calls' = {IF c.kind = "goal" THEN [c EXCEPT !.body.mounted = FALSE] ELSE c
                           : c \in calls}
       ELSE UNCHANGED <<field, calls>>
  /\ UNCHANGED <<message, made, executed>>

-----------------------------------------------------------------------------
(* The network and the backend. *)
Becomes(c, phase) == calls' = (calls \ {c}) \cup {[c EXCEPT !.phase = phase]}

\* The backend does what the call asks for and answers 200.
Execute(c) ==
  /\ c.phase = "sent"
  /\ executed' = executed \cup {c.id}
  /\ Becomes(c, "ok")
  /\ UNCHANGED <<tab, pad, field, message, made>>

\* The call does not arrive or is answered 400 or 500, or the answer is lost.
Fail(c) ==
  /\ c.phase \in {"sent", "ok"}
  /\ Becomes(c, "failed")
  /\ UNCHANGED <<tab, pad, field, message, made, executed>>

-----------------------------------------------------------------------------
\* Fault: any answer counts as success.
OutcomeUnchecked(c) == "ok"

Outcome(c) == c.phase

\* Fault: the answer is shown under the side that is on by then.
GoalShownUnderNewSide(c) ==
  IF c.kind = "goal" /\ c.body.mounted /\ Outcome(c) = "ok"
    THEN [id |-> c.id, side |-> side, index |-> c.body.index, pos |-> c.body.pos]
    ELSE lastGoal

GoalShown(c) ==
  IF c.kind = "goal" /\ c.body.mounted /\ Outcome(c) = "ok"
    THEN [id |-> c.id, side |-> c.body.side, index |-> c.body.index, pos |-> c.body.pos]
    ELSE lastGoal

\* Fault: a failed call leaves the status line alone.
StatusOnlyOnSuccess(c) ==
  IF c.kind \in Reporting /\ Outcome(c) = "ok"
    THEN [status |-> "ok", id |-> c.id] ELSE message

Status(c) ==
  IF c.kind \in Reporting THEN [status |-> Outcome(c), id |-> c.id] ELSE message

\* The promise settles and its continuation runs.
Settle(c) ==
  /\ c.phase # "sent"
  /\ calls' = calls \ {c}
  /\ lastGoal' = GoalShown(c)
  /\ message' = Status(c)
  /\ UNCHANGED <<tab, pad, side, lastSent, made, executed>>

Operator ==
  \/ \E b \in Buttons : Press(b) \/ Release(b) \/ ReleaseLost(b)
  \/ PressZ
  \/ \E k \in Blocks : PressBlock(k)
  \/ \E s \in Sides : SetSide(s)
  \/ \E m \in Motions : PressMotion(m)
  \/ \E input \in {"blank", "typed"} : SubmitGoal(input)
  \/ SubmitJoints
  \/ \E t \in {"competition", "debug", "field", "camera"} : SwitchTab(t)

Next ==
  \/ Operator
  \/ Tick
  \/ \E c \in calls : Execute(c) \/ Fail(c) \/ Settle(c)

Spec == Init /\ [][Next]_vars

-----------------------------------------------------------------------------
Points   == [x : Int, y : Int]
GoalBody == [side : Sides, index : Blocks, pos : Points, mounted : BOOLEAN]

(* Every variable keeps its type; a call in flight is numbered among those *)
(* made, and only an arrow of the pad has an interval.                     *)
TypeOK ==
  /\ tab \in {"competition", "debug", "field", "camera"}
  /\ held \subseteq Buttons
  /\ interval = "none" \/ interval \in Buttons
  /\ lost \in BOOLEAN
  /\ side \in Sides
  /\ \/ lastGoal = Nothing
     \/ lastGoal \in [id : 1 .. made, side : Sides, index : Blocks, pos : Points]
  /\ lastSent \in 0 .. made
  /\ message \in [status : {"blank", "running", "ok", "failed"}, id : 0 .. made]
  /\ made \in 0 .. MaxCalls
  /\ executed \subseteq 1 .. made
  /\ \A c \in calls :
       /\ DOMAIN c = {"id", "kind", "body", "phase"}
       /\ c.id \in 1 .. made
       /\ c.kind \in Kinds
       /\ c.kind = "goal" => c.body \in GoalBody
       /\ c.phase \in {"sent", "ok", "failed"}

(* The page moves the arm only while the operator holds the arrow that     *)
(* started the motion, whatever other arrows are pressed and released      *)
(* meanwhile and whatever tabs are switched; a release the page never      *)
(* hears of is the one exception.                                          *)
JogOnlyWhileHeld == interval # "none" => interval \in held \/ lost

(* The goal on display is one the backend has accepted, with the side and  *)
(* index it was taken from, although answers come in any order and after   *)
(* the side has been changed.                                              *)
GoalDisplayed ==
  lastGoal # Nothing =>
    lastGoal.id \in executed /\ lastGoal.pos = Goal(lastGoal.side, lastGoal.index)

(* The field is symmetric: what one side can be sent to, the other side    *)
(* reaches with its own indices at the mirror image, the release position  *)
(* with the release button.                                                *)
GoalsMirrored ==
  \A c \in calls : c.kind = "goal" =>
    \E j \in Indices, other \in Sides \ {c.body.side} :
      /\ (j = 0) <=> (c.body.index = 0)
      /\ Goal(other, j) = [x |-> -c.body.pos.x, y |-> c.body.pos.y]

(* The status line reports a success only of a call that was executed.     *)
SuccessMeansExecuted == message.status = "ok" => message.id \in executed

(* Once every reporting call has settled, the status line is not left      *)
(* announcing one of them, whatever the order of the answers.              *)
NeverStuckRunning ==
  message.status = "running" => \E c \in calls : c.kind \in {"motion", "form"}

-----------------------------------------------------------------------------
(* RobotField.tsx:235: the field displays the last goal sent; so it does,  *)
(* one expects, once all its calls have settled, unless the last failed.   *)
(* The code does not keep this (see the findings in README.md).            *)
LastSentShown ==
  (\A c \in calls : c.kind # "goal") /\ lastGoal # Nothing /\ lastSent \in executed
    => lastGoal.id = lastSent

(* robotAPI.ts:13: where z is not specified, 0.5 is filled in; so it is,   *)
(* one expects, for the form whose z was left blank.  The code does not    *)
(* keep this (see the findings in README.md).                              *)
BlankZIsHalf ==
  \A c \in calls : c.kind = "form" /\ c.body.input = "blank" /\ c.phase = "ok" =>
    c.body.z = "half"
=============================================================================
