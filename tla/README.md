# Verification of catchrobo_app

catchrobo_app drives a contest robot from a browser. A Go service
(`src/backend`) publishes goals and motion commands on ROS 2 topics and relays
the robot's camera as JPEG over HTTP; a React page (`src/frontend`) is the
operator's panel. This directory holds TLA+ models of the parts of it that are
hard to test, TLC configurations that check them on small instances, and proofs
for every instance.

Run everything from this directory: `tlc -config panel.cfg MCOperatorPanel`
model-checks, `tlapm CameraFeedProofs.tla` proves. `PROJECT.json` lists the
runs, the theorems, the source lines behind every definition, the hazards found
in the code and the properties that watch them, and for every property a fault
that it detects (the operators commented `Fault:` in the modules).

## 1. The system

```
 browser (React)                          backend (Go)                      ROS 2
 ControlPad  --\   POST /api/move   -->  SendDisplacementCommand --\
 RobotField  ---+  POST /api/position->  SendPositionCommand -------+--> /arm_move/goal_pose
 App forms   --/   POST /api/*_motion->  StartMotion ... ------------> /arm_move/*_motion
                                             |  RobotController
 CameraView <---   GET /api/camera/*  <--  CameraMJPEG, CameraSnapshot
                                             |  latestJPEG, frameSeq
                                          spin goroutine <------------- two image topics
```

| component | state | operations | interacts through |
|---|---|---|---|
| camera subscriptions and frame buffer (`controller.go` 139-226) | `latestJPEG`, `latestJPEGMu`, `frameSeq`, two queues of depth 1 | raw and compressed image callbacks, `setLatestJPEG`, `GetLatestJPEG` | ROS topics in, shared buffer to the endpoints |
| camera endpoints (`robot_handler.go` 163-212) | per connection: `lastSeq`, the copy in hand | `CameraMJPEG`, `CameraSnapshot` | frame buffer, HTTP connection |
| image conversion (`controller.go` 228-285) | none | `encodeSensorImageToJPEG` | called by the raw callback |
| target pose and goal endpoints (`controller.go` 287-306, 416-437; `robot_handler.go` 39-50, 137-148) | `currentX/Y/Z` | `PublishPosition`, `PublishDisplacement` | shared fields, `/arm_move/goal_pose` |
| motion commands, joint angles, topic list | none | one `Publish*` and one handler each | ROS topics |
| service lifecycle (`main.go`, `router.go`, `NewController`, `Close`) | the node, 11 publishers, 2 subscriptions, `spinCancel`, the spin goroutine | start-up, signals, exits, routing | everything in the process |
| control pad (`ControlPad.tsx`) | `intervalRef`, `directionRef` | `start`, `tick`, `stop`, Z buttons | HTTP client |
| field view (`RobotField.tsx`) | `side`, `lastGoal`, coordinate tables | block press, release goal, side toggle | HTTP client |
| competition panel (`App.tsx`) | tab, goal and joint inputs, `message`, timer | motion buttons, `submitGoal`, `submitJointAngles`, timer | HTTP client, mounts the others |
| camera view (`CameraView.tsx`) | `cameraMode`, `autoRefresh`, `refreshTimer`, the `<img>`, `message` | stream or poll, manual refresh, reconnect | camera endpoints |
| HTTP client (`robotAPI.ts`) | none | one `fetch` per call | backend |
| generated messages (`src/backend/msgs`, 682 files) | a message in Go, its copy in C | `New`, `Clone`, publish, take, conversions | rclgo, the ROS C libraries |
| `example.go`, containers | none | dead code; deployment | - |

### What is hard about it, and what makes it correct

*Camera.* One goroutine stores frames while every viewer's goroutine reads
them. The bytes are guarded by a lock, the counter next to them is atomic, but
the two are written at two moments and read at two moments, in the same order.
Correct means: a viewer gets stored frames in order, not the same one for ever
and not a picture older than one it has seen; a viewer that does not read harms
nobody else; its goroutine ends with its connection; a viewer that reads catches up.

*Target pose.* `/api/move` adds to three plain fields from whichever goroutine
serves the request, and the control pad sends a move every 100 ms without
waiting for the answer to the last. Moves can be lost. Correct means: whatever
the races, the target never runs away from what was asked for, and an operator
can always get target and arm together again; without overlap nothing is lost. A
restart begins at 0 wherever the arm is, a publication that fails leaves the arm
behind: but for these two and overlapping requests the arm never jumps.

*Image conversion.* It trusts the sender's width, height, row length and byte
count, allocates the picture before it compares any of them, and runs where a
panic ends the service. Correct means: the picture is the one the message
describes, and a complete message never ends the process as long as there is room
for its picture.

*Operator's page.* Calls overlap, are answered in any order, and fail before or
after the backend has executed them, while the operator presses arrows, changes
the side of the field and switches tabs. Correct means: the arm jogs only while
an arrow is held, and the page never displays what has not happened.

*Lifecycle.* Start-up creates fourteen ROS entities one after the other and gives
up at the first that fails, except for the two subscriptions. SIGINT and SIGTERM
stop the spin goroutine and nothing else, and every exit skips the deferred
`Close`. Correct means: a request is served only by a complete controller and
answered whatever the signals, and every button reaches its own topic.

*Camera view.* One effect owns an interval through changes of mode, check box,
period and tab, before a backend that comes and goes. Correct means: exactly one
interval while snapshots are refreshed, and a picture that comes back.

*Generated messages.* A Go message is copied into C memory and back, field by
field, down through slices of messages. Empty sequences are not converted, and
elements are written into memory nobody cleared. Correct means: a callback gets
what was sent and nothing older, and a clone shares nothing with its original.

The hazards, line by line, are in `PROJECT.json`.

## 2. The modules

| module | what it is |
|---|---|
| `CameraFeed` | subscriptions, spin goroutine, frame buffer, stream and snapshot handlers, viewers |
| `LossyFeed` | the abstract promise to a stream viewer: stored frames in order, some lost, each at most `MaxCopies` times. `CameraFeed` implements it with 3 |
| `TargetPose` | the two goal endpoints, one load or store at a time, and restarts of the process |
| `AtomicTarget` | the abstract promise: a request changes the target as a whole, then publishes it or fails; a restart forgets it. `TargetPose` with one handler implements it |
| `ImageEncode` | one call of the conversion on any message; bytes are named by their index |
| `OperatorPanel` | pad, field, motion buttons, forms, status line and tabs over a client whose calls overlap |
| `FieldTables` | the field's coordinate tables, offset and release position |
| `Service` | the backend process from `main` to its end and its restart, and the tables that lead from a button to a topic |
| `CameraView` | the camera tab in front of `Service` |
| `RosMessage` | the life of one ROS message of any layout: composed, converted, sent, taken, cloned, reused |
| `WholeMessage` | the abstract promise to a program: messages are values, and publishing, taking and cloning happen at once. `RosMessage` implements it |
| `MessageTypes` | what the field of a message file is made of |
| `CoreMessages`, `ControlMessages`, `NavigationMessages`, `ToolMessages`, `TestMessages` | the layouts of the messages of the 37 packages, one definition per generated file |
| `MC...` | the instances TLC checks |
| `...Proofs` | the theorems and their proofs |

The modules meet at four places. `CameraFeed` models two outcomes of the
conversion that `ImageEncode` details, a JPEG or an error (`"jpeg"`, `"bad"`); the
third, the end of the process, is one of `Service`'s `Killed`, and `ImageEncode` says
which images it takes. `OperatorPanel`
makes the calls whose execution `TargetPose` details: there a call of the pad or
of the field is executed in one step, because the page sees nothing of it but the
answer. `TargetPose` accepts any interleaving of requests, which is what
`OperatorPanel`'s overlapping calls produce. `CameraView` extends `Service`, so
that the page is checked against every way the process can start, end and come
back; an image stored is one step of `Service`, which `CameraFeed` splits. `Service`
says when and why a process ends and takes from a command only its way to a topic;
`TargetPose` has what a goal command does to the target on that way, each access a
step, and one `Restart` that may come at any moment.

### CameraFeed

State: `inbox` is the two depth-1 queues, `cb` and `payload` the spin goroutine
inside a callback, `latestJPEG` and `frameSeq` the fields of that name; `pc`,
`jpg` and `lastSeq` the program counter and locals of each HTTP handler, `conn`
the viewer's end of its connection. A frame is named by the number of the
`setLatestJPEG` call that stored it, so frames can be compared by age; 0 is an
empty buffer. `stored`, `newest`, `shown`, `copies` and `since` are history.

| code | actions |
|---|---|
| callbacks, controller.go:156-187 | `Callback`, `TakeFails` |
| `setLatestJPEG`, 208-214 | `StoreFrame` (lock to unlock), `BumpSeq` (the atomic increment) |
| `GetLatestJPEG`, 216-226 | `RLock`, `CopyFrame`; the load of `frameSeq` is the first thing `LoadSeq` and `AnswerSnapshot` do |
| `CameraMJPEG`, robot_handler.go:177-212 | `Connect`, `Tick`, `LoadSeq`, `WritePart`, `Done` |
| `CameraSnapshot`, 165-175 | `RequestSnapshot`, `AnswerSnapshot` |
| signal handling, 196-203 | `SpinStops` |
| outside the program | `CameraPublish`, `Stall`, `Resume`, `Disconnect` |

`RLock` waits while the callback waits for the lock: a Go `sync.RWMutex` keeps
new readers out once a writer is waiting. A handler's local copy is forgotten
where the code's variable goes out of scope.

### TargetPose

State: `current` the three fields, `goal` the pose last published, and per
handler the request, the axes its current statement has still to do (`todo`),
the register of a running `+=` (`axis`, `reg`) and the message it composes
(`msg`). `applied`, `alone` and `synced` are history: `synced` is set by the
successful publication of a request that nobody overlapped, and cleared by a
restart, by a publication that fails and by a request accepted while another is
under way.

| code | actions |
|---|---|
| body that does not parse, robot_handler.go:40-44 | `RejectBody` |
| `SendPositionCommand`, `SendDisplacementCommand` | `SendPosition`, `SendDisplacement` |
| `PublishPosition`, controller.go:287-306 | `AssignAxis` for each axis, then `Publish` |
| `PublishDisplacement`, 416-437 | `LoadAxis` and `StoreAxis` for each axis, `ComposeAxis` for each axis, then `Publish` |
| the process ends, `NewController` starts anew, 121-137 | `Restart` |

The fields are raced on, which Go leaves undefined for anything larger than a
word; on the 64-bit targets of the build (the arm64 and amd64 images of ROS) a
`float64` is loaded and stored whole, and within one statement the compiler may
order the axes as it likes, so the model takes each load and store as a step and
any order of axes. Coordinates are integers: no property depends on rounding.
The publisher may return an error (`Publish`'s second alternative); the target
has moved then and stays moved, as in the code. At a restart the fields are 0 again
and the requests under way are gone, wherever they were; the arm keeps its goal.

### ImageEncode

A message says its encoding, width, height and row length and carries some
number of bytes. `Refuse` and `Convert` are the paths through the function;
`picture` maps a pixel to the index of the byte shown in each channel. The
outcomes are a JPEG, an error, and the end of the process, since nothing recovers in
that goroutine: by a panic of the slice at controller.go:260, or at 244 and 253,
where the picture is allocated in the size the header says, one byte a pixel or
four, which panics for impossible sizes and is fatal for want of memory. `memory`,
any of `Memories`, is the largest picture there is room for; what the encoder and
the message take beside it counts as taken already. The
product `y*step` may leave 64 bits only for rows the loop never comes to. The JPEG
encoder's limit on sides (65536) is the constant `SideLimit`; compression is
left out.

### OperatorPanel

State: `interval` is `intervalRef` with the arrow in `directionRef`; `side`,
`lastGoal` and `message` the React states; `calls` the fetches under way, each
`"sent"`, `"ok"` or `"failed"`. `held` is what the operator's fingers do,
`executed`, `lost` and `lastSent` are history.

| code | actions |
|---|---|
| `start` and `tick`, ControlPad.tsx:18-19 | `Press` (ignored while an interval runs, else the first tick), `Tick` |
| `stop`, 17, and its events, 27-30 | `Release`; `ReleaseLost` is a press whose end has no handler, a cancelled touch |
| Z buttons, 33-34 | `PressZ` |
| unmounting, 20, and tabs, App.tsx:137-213 | `SwitchTab` |
| blocks and release goal, RobotField.tsx:145-173 | `PressBlock`, and `GoalShown` when it settles |
| side toggle, 249-262 | `SetSide` |
| `pressMotion`, `submitGoal`, `submitJointAngles`, App.tsx:70-103 | `PressMotion`, `SubmitGoal`, `SubmitJoints`, and `Status` when they settle |
| backend and network | `Execute`, `Fail` |

A call may fail after it has been executed (the answer is lost). A goal's
continuation writes the side and coordinate its closure captured, and nothing if
its field has been unmounted meanwhile. A tick needs no particular time: any
number of ticks may fall between two other steps, up to `MaxCalls`.

The z of the goal form goes through `parseFloat`, `??`, JSON and Go's decoder,
four operators, since a blank input changes at three of them. `FieldTables` gives
the tables by row and column: the code writes eighty literals, the module the rule
they follow, in tenths of a millimetre.

### Service

State: `proc` is where `main` is; `made`, `open`, `tried`, `subs` the entities
`NewController` has created so far; `spin` and `frame` the spin goroutine and
whether the buffer holds a picture (an empty compressed image takes it away
again); `req` the request of each handler, without what its body says.

| code | actions |
|---|---|
| `main`, main.go:14-39 | `Launch`, `Listen`, `RunFails` |
| `NewController`, controller.go:67-206 | `CreatePublisher`, `CreateFails`, `Subscribe` (which may only warn), `StartSpin` |
| `signal.NotifyContext`, 197 | `SignalEarly` before it ends the process, `SignalStopsSpin` after it stops the spin |
| image callbacks, 156-187 | `Frame` |
| handlers and their methods | `Accept`, `Publish`, `PublishFails`, `Answer` |
| outside the program | `Killed`: SIGKILL, a panic, the machine |

The path of a command is a composition of tables, each translated from one file:
`CallOf` (the page), `RouteOf` (the client), `Router`, `MethodOf` (the
handlers), `Publishes` (the methods) and `PublisherOn` (the creation).

### CameraView

State: `mode`, `auto`, `timer` (`refreshTimer` holds an interval), `intervals`
(how many the browser runs), `img` and `message`. Every change of the `<img>`'s
src is a load: `Reload` by the interval, the button or reconnecting, `Configure`
by the mode, `OpenTab`. A load ends in `Loads` (the process serves and has a
frame) or `LoadFails`; a stream ends with its process (`StreamEnds`), and then
the page does nothing by itself.

### RosMessage and the layouts

rclgo-gen writes the same functions into each of the message files; they differ
in the fields they go over. A layout is that difference, and each action of
`RosMessage` is one of the functions, for any layout. `CoreMessages` and the others
write the fields of each file down as a tree; `MCRosMessage` turns a tree into a
layout, a table from the slots of the message to their kind, the slices around them
and the slots directly inside them. A message is then a function from places, a
slot and an index for every slice around it, so that a slice in a slice is an
entry like any other and nothing recurses.

| code (DiagnosticStatus.gen.go shows all of it) | actions |
|---|---|
| `NewT`, `SetDefaults`, or a program setting every field | `Compose` |
| `Publish`: `PrepareMemory`, `AsCStruct`, hand over, `ReleaseMemory` | `Publish`, `SequenceToC` for each depth of slices, `Send` |
| the callback of `NewTSubscription` | `TakeInCallback`, `CallbackTakeFails` |
| `TakeMessage`, `AsGoStruct` | `TakeMessage`, `SequenceToGo` for each depth, `TakeReturns` |
| `Clone` | `Keep`, `CloneSlice` for each depth, `CloneReturns` |
| the program | `Edit` |

A leaf is the name of its content, a slice remembers the allocation its elements
are in, so that sharing is visible, and memory from malloc is `"garbage"` until it
is written. `todo` holds the slices whose calls come next; the calls for one depth
write to different places, so they are one step. Numbers of every width are one
kind of leaf: their conversions are casts between equal widths.

## 3. The runs

| run | instance | question | result |
|---|---|---|---|
| `camera` | 1 stream, 1 snapshot client, 3 images, fairness | can interleaving break order, repeat a frame without end, split counter and buffer; do stalled and closed viewers harm anybody; do readers catch up? | no harm: `TypeOK`, `AtMostThrice`, `DeliveryInv`, `SnapshotFresh`, `ImplementsLossyFeed`, `CallbackNeverBlocked`, `HandlerEnds`, `CatchesUp` |
| `camera_duplicates` | 1 stream, 2 images | does the counter avoid duplicates, as its comment says? | no (finding 1) |
| `target_race` | 2 handlers, 2 axes, 3 requests, 1 restart | how bad can races get, and when does the arm jump? | bounded and repairable: `TypeOK`, `ReachInv`, `NoRunaway`, `AloneInv`, `Resync`, `JumpsOnlyUnsynced` |
| `target_serial` | 1 handler, 2 axes, 4 requests, 1 restart | are the endpoints atomic without overlap? | yes: `ImplementsAtomicTarget` |
| `target_lost_move` | 2 handlers, 2 overlapping moves | are moves accumulated? | no (finding 2) |
| `image_encode` | sides 0-4, row length 0-11, 0-33 bytes, every encoding, room for 12 or 64 bytes | is the picture right, can a complete image kill the service? | `Faithful`, `CompleteNeverCrashes` hold |
| `image_grey_rows` | the same | is the row length honoured for mono8? | no (finding 3) |
| `panel` | 2 arrows, 1 block, 1 motion, 3 calls, all tabs | does the arm jog only under a held arrow, are goals right on both sides, is the display true? | `TypeOK`, `JogOnlyWhileHeld`, `GoalDisplayed`, `GoalsMirrored`, `SuccessMeansExecuted`, `NeverStuckRunning` hold |
| `panel_last_goal` | a block and the release button, 2 calls | does the field display the last goal sent? | no (finding 4) |
| `panel_blank_z` | the goal form | does a blank z become 0.5? | no (finding 5) |
| `service` | 1 handler, 2 processes, 2 requests, the camera tab, fairness | what survives failures, signals and restarts, and does the picture come back? | `TypeOK`, `PublishersLive`, `StartUpInv`, `Wired`, `Answered`, `OnePoller`, `PollRecovers`, `ReconnectRecovers` hold |
| `messages` | every layout up to names and repetition, 3 shapes of slices, 2 messages | are messages delivered whole, new and unshared? | `TypeOK`, `WrittenBeforeSent`, `CallbackExact`, `ReuseKeepsOnlyEmpty`, `SlicesOfOneMessage`, `CloneExact`, `CloneIndependent`, `ImplementsWholeMessage` hold |

### What the camera properties mean

`AtMostThrice` is exact: three is reached, in this order. A store happens with
the counter still at its old value n; a stream copies the frame, loads n and
sends it. It copies it again, and by its load the counter has been incremented:
n+1, sent again. It sends a third time when the next store and its increment fall
between its copy and its load: the copy is the old frame and the number already n+2. The last case has a second side: the frame stored as n+2 is then
taken as sent already, so when it is the camera's last frame the viewer never
gets it. `CatchesUp` therefore speaks of the sequence number, which is
what the code compares, and excepts an empty buffer, since an empty compressed
image advances the counter without giving anything to send.

`DeliveryInv` states what each handler knows at each line; `SnapshotFresh` says
that a snapshot is never older than the buffer was when it was asked for.

### What the target properties mean

`NoRunaway` bounds target, goal and messages on every axis by the furthest
position asked for plus one step for every move stored, a bound that stale
registers and mixed messages must not break. `Resync` is what an operator
relies on: a request that no other overlaps publishes exactly the target that
the controller holds afterwards, and a position leaves exactly itself. After
overlapping requests goal and target may differ until then.

`JumpsOnlyUnsynced` says when the arm jumps: while `synced`, a displacement that is
answered with success moves the goal by exactly itself. All three exceptions are
real. After a restart the target is 0 and the arm is not; after a failed
publication the target is ahead; and overlapping requests lose moves or publish
each other's (finding 2). To break it takes two requests at least, one that leaves
target and goal apart unnoticed and one that shows it.

### What the image properties mean

`Faithful` compares every pixel with what sensor_msgs/Image says of the message.
`CompleteNeverCrashes` is about messages that are as long as their header says: the
process ends only if there is no room for the picture. That is a promise about the
data received when the rows are whole, since the picture then takes at most four
thirds of it. It is none when the row length is less than a row of pixels takes:
such a message is complete with few bytes and may ask for a picture of any size.

### What the panel properties mean

`JogOnlyWhileHeld` quantifies over two arrows that share one interval, over
ticks and over tab switches in mid-press. Its one exception is a release that
no handler hears of (`lost`), which the code does not cover: a cancelled touch
keeps the arm moving until another arrow is released, the mouse leaves one, or
the tab is switched. `GoalDisplayed` allows the answer to come after the side was
changed or another goal was answered. `NeverStuckRunning` is about several calls
writing one line: an announcement that is displayed belongs to a time at which
some reporting call is still to settle. `GoalsMirrored` compares the two tables and
the code that mirrors the release position: red numbers its rows and columns the
other way, so the mirror image of a goal is at another index.

### What the service and camera view properties mean

`PublishersLive` and `StartUpInv` say that no
failure in the middle of start-up, and no signal, leaves a server with a missing
publisher. `Wired` follows thirteen controls through six tables to the topic and
message type they are labelled with. `Answered` holds for a process whose spin
goroutine a signal has stopped. `OnePoller` counts the browser's intervals over
every sequence of modes, check boxes, periods and tabs; `PollRecovers` brings the
picture back after a restart without help; the stream needs the reconnect button
(`ReconnectRecovers`).

### What the message properties mean

`CallbackExact` and `ReuseKeepsOnlyEmpty` are two sides of one line: an empty
sequence is not converted, so a message taken into twice keeps the old slice, and
only the fresh variable of the generated callback protects a subscriber. The
backend's own subscriptions declare theirs inside the callback, too.
`WrittenBeforeSent` covers nested sequences in malloc'd elements;
`SlicesOfOneMessage` a slice that is reused in part, `CloneIndependent` memory
shared between messages, `CloneExact` slices in slices that a copy may lose.
`TypeOK` is more than types here: a message that a program sees has exactly the
elements its slices announce.

`ImplementsWholeMessage` sums them up. In `WholeMessage` a message is a function
from its fields to values; a take gives a new message what was sent, and a message
taken into again keeps of its old value the fields that were sent empty
(`Merged`). The mapping reads a Go message field by field, all that is in a slice
at any depth being the field's value; a take under way shows what the message was
before it, a clone under way does not show.

### Bounds

Every bound is a constant guarding one action: `MaxFrames` (`CameraPublish`),
`MaxRequests` (`Accept`), `MaxRestarts` (`Restart`), `MaxCalls` (`Call`), `MaxBoots` (`Launch`),
`MaxMessages` (`Compose`); `MaxArray` cuts fixed arrays of layouts.

- *Camera.* The window between buffer and counter involves two consecutive
  stores; three images let it open, close and open again, and let the third copy
  of a frame happen. Viewers interfere only through the lock, which the stream and
  the snapshot client share. The safety properties are proved for any number of
  streams, clients and images.
- *Target.* A race needs two handlers; the third request lets one finish,
  and a request alone follow. Two axes distinguish "this axis" from "the other",
  which is all the code does with three. Positions and moves have both signs. One
  restart may fall into a request, between two or before the first; the third
  request is then a displacement after one that brought target and goal together.
- *Images.* Three rows and columns, row lengths from 0 over unpadded (up to 9)
  to padded by two, and every length up to 33 bytes place every cut. A side of 4
  reaches `SideLimit`. Room for 64 bytes holds every picture, room for 12 three
  pixels of colour, the most that nine bytes of data can be.
- *Panel.* Three calls let one be overtaken by two, a press follow a press. Two
  arrows are what sharing one interval needs; they are symmetric. A block and the
  proof cover the tables.
- *Service.* Two processes make one restart; two requests make one after the
  other, and with one handler each is served by either process. What more handlers
  have in common is the target, which this module leaves to `TargetPose`; the
  safety properties are proved for any number.
- *Messages.* The second message is what reuse needs. Slices are empty, hold
  empty slices, or hold one or two elements; arrays have at most two. The functions
  treat slots that are of one kind, lie in the same slice and hold the same alike
  and independently of each other, and no property relates more than two leaves, so
  two such slots stand for any number, and layouts that differ in names and
  repetitions only are checked once. The proofs need none of this: they hold for
  any layout and any number of messages.

`image_encode`, `image_grey_rows` and `messages` do not check for deadlock: a
behaviour is one call of a function, or the messages of one program, and stops.
All other runs do; the panel may always switch tabs, handlers may always be idle
and serve a bad request, the camera tab may always be opened or left.

### Fairness

`camera` and `service` assume it. In `camera`, `FairSpec` gives weak fairness to every
step of a running goroutine: Go schedules runnable goroutines, the 33 ms ticker
keeps firing, `RLock` is granted once the writer is gone. `WritePart` is disabled
while the viewer does not read, so fairness does not force a blocked write. `Done` has strong
fairness: in `select` both the ticker and the context may be ready, and
Go picks a ready case at random, so a case that is ready again and again is
picked. Cameras, viewers, signals and failures of `TakeMessage` owe nothing: a
viewer may stall for ever, the camera may die, the spin goroutine may be stopped.

In `service`, `HandlerFairness` lets a handler that has begun go on. `ViewFairness`
has two parts: the browser's interval goes on ticking (weak fairness of `Poll`),
and a load that is begun again and again completes once (strong fairness of
`Loads`). The second is an assumption about the network, not about the code: every
tick aborts the load before it, so with snapshots slower than the period no picture
is ever shown. `ReconnectRecovers` assumes, in its own statement, an operator who
keeps pressing the button. Processes, signals and failures owe nothing; the
recovery properties speak of a process that serves and has a frame from some time on.

## 4. Findings

1. `controller.go:213`: the counter that is to prevent duplicate frames
   (comment at line 47) is incremented after the lock is released; a frame is
   sent up to three times (`camera_duplicates`).
2. `controller.go:425`: overlapping displacements are lost, although both are
   answered 200 and line 416 says they are accumulated (`target_lost_move`).
3. `controller.go:245`: padded mono8 rows come out sheared; the colour
   branch honours the row length (`image_grey_rows`).
4. `RobotField.tsx:170`: when two answers overtake each other the field keeps
   displaying the first goal as the one sent last (`panel_last_goal`).
5. `robotAPI.ts:14`: a z left blank in the goal form is NaN, which the default for
   an unspecified z (comment at line 13) does not replace; the arm is sent to
   z = 0 instead of 0.5 (`panel_blank_z`).

Seen while modelling, outside what the runs state: `README.md` of the repository
names an endpoint `/api/command` that does not exist; a touch and a mouse click
on the vertical arrows move in opposite directions; re-entering a tab resets
the field to the blue side; an empty compressed image wipes the buffer, so that
the next snapshot is refused; SIGINT leaves the service running with a frozen
picture; the camera view's error message is never cleared; the generated action
wrappers (`secs := stamp.Truncate(time.Second)`, for example
turtlesim/action/RotateAbsolute.gen.go:42) write nanoseconds into a stamp's
seconds, which no part of the service uses.

## 5. What is proved

For every value of the constants that satisfies the modules' assumptions:

| theorem | says | argument |
|---|---|---|
| `CameraFeedProofs!TypeCorrect` | `Spec => []TypeOK` | inductive as it stands |
| `DeliveryCorrect` | `[]DeliveryInv` | see below |
| `AtMostThriceAlways`, `SnapshotFreshAlways` | the two safety properties | conjuncts of `DeliveryInv` |
| `ImplementsFeed` | `Spec => ImplementsLossyFeed` | under `DeliveryInv` a step of the program is a `NewFrame`, a `Show`, a `Reopen` or a stutter |
| `TargetPoseProofs!TypeCorrect` | `[]TypeOK` | inductive as it stands |
| `ReachCorrect`, `NoRunawayAlways` | `[]ReachInv`, `[]NoRunaway` | see below |
| `AloneCorrect`, `ResyncAlways` | `[]AloneInv`, `[]Resync` | see below |
| `SyncedCorrect`, `JumpsOnlyUnsyncedAlways` | `[]SyncedInv`, `JumpsOnlyUnsynced` | see below |
| `SerialImplements` | one handler: `Spec => ImplementsAtomicTarget` | under `SerialInv` the first step of a request is `Accept`, the last `Publish` or `PublishFails`, `Restart` is `Restart`, all others stutter |
| `ImageEncodeProofs!FaithfulAlways` | `[]Faithful` | both layouts compute the same index for every pixel |
| `CompleteNeverCrashesAlways` | `[]CompleteNeverCrashes` | the last row's offset is at most the length announced; the picture of whole rows is at most four thirds of it (`PictureFits`) |
| `ServiceProofs!TypeCorrect`, `StartUpCorrect` | `[]TypeOK`, `[]StartUpInv` | inductive, the second beside the first |
| `PublishersLiveAlways` | `[]PublishersLive` | by `StartUpInv` a request in flight means that all of `Creation` is open |
| `WiredAlways` | `[]Wired` | thirteen cases through the tables |
| `CameraViewProofs!OnePollerAlways` | `PageSpec => []OnePoller` | from `TimerInv`: the ref holds an interval exactly while one runs, so every cleanup leaves none |
| `OperatorPanelProofs!TypeCorrect` | `[]TypeOK` | inductive as it stands |
| `JogOnlyWhileHeldAlways`, `NeverStuckRunningAlways` | the two properties | inductive beside `TypeOK` |
| `GoalDisplayedAlways`, `SuccessMeansExecutedAlways` | the two properties | a call that is `"ok"` has been executed, and a goal in flight carries the coordinate of its side and index |
| `GoalsMirroredAlways` | `[]GoalsMirrored` | row and column of the mirrored index, by arithmetic on the tables |
| `RosMessageProofs!CompleteMessages` | `[]TypeOK` | with all that follow from `IInv`, see below |
| `AllWritten` | `[]WrittenBeforeSent` | a finished copy in C has an entry for every place of the message, and every slice in it has been visited |
| `CallbackGetsTheMessage`, `OnlyEmptySlicesKept` | `[]CallbackExact`, `[]ReuseKeepsOnlyEmpty` | a finished take is the message sent, but for what is in slices sent empty; a zero value has nothing there |
| `OneMessagePerSlice` | `[]SlicesOfOneMessage` | a slice that was sent lost all it had before (`TakeIsSound`) |
| `CloneSaysTheSame`, `CloneStays` | `[]CloneExact`, `CloneIndependent` | every element of a clone is in memory of its own (`Detached`), which no message taken or composed owns |
| `ImplementsWhole` | `Spec => ImplementsWholeMessage` | `Send`, `TakeReturns`, `CloneReturns`, ... are the steps of `WholeMessage`; a call for a depth of slices stutters |

*Why the invariants are needed.* `AtMostThrice` alone is not inductive: nothing
in it says how often the frame in a handler's hand may have been sent already.
`StreamInv` adds it: the shown frame's number plus its copies is at most
`lastSeq + 2`, and every pass of the `WorthSending` test moves `lastSeq` up, so a
frame has two numbers it can be sent under beyond its first; that works because
`SeqInv` ties counter and buffer to within one store. `NoRunaway` alone is not
inductive because a handler may hold a stale sum between its load and its store:
`ReachInv` bounds that sum by the reach of the axis plus one step, and the store
itself pays for the step by raising `applied`, while other handlers can only
extend the reach. `Resync` says nothing of a request half done: `AloneInv`
adds the axes already assigned or read. `SyncedInv` is what `JumpsOnlyUnsynced` says
between publications: while `synced`, at most one request is under way, and on every
axis the target is the goal, plus the displacement where it has been stored; a sum
about to be stored is fresh. With `AloneInv` the message is then the goal plus the
whole displacement. `SerialInv` (in the proof module) says
that with one handler every request is alone and every sum about to be stored is
fresh; the refinement mapping counts an axis the handler has not come to as done
(`Ahead`).

The properties of messages speak of conversions that are finished. `IInv` (in
`RosMessageProofs`) says what one under way has done: a conversion, take or clone
whose next calls are for the slices `S` has reached exactly the places that are
in no slice of `S` (`Reached`), has made them what they are to be (`CopyInC`,
`TakeOf`, `CloneOf`), and left a slice of `S` as the call needs to find it. That
the calls for one depth lead to the next, and miss no place, is a fact about places
alone (`ReachedFirst`, `ReachedNext`), for which an induction over layouts is
not needed: the slices around a slice around a place are around that place
(`EnclosingTwice`), so the places first reached by the calls for `S` are those
directly in a slice of `S`, and the next calls are for the slices among them.
`composed # 0` while a message is under way makes the owner of what a take
allocates differ from that of a clone; `Sound` says that no message a program may
edit reaches a clone's memory.

*Assumptions.* `CameraFeedAssumption`: stream and snapshot handlers are
different goroutines. `TargetPoseAssumption`: positions and moves are bounded by
`MaxPos` and `MaxStep`, there is at least one axis. `ImageEncodeAssumption`:
sizes, lengths and amounts of memory are natural numbers. `OperatorPanelAssumption`: `MaxCalls` is
a natural number and the blocks pressed are indices of the field.
`ServiceAssumption`: the bounds are natural numbers. `CatalogueAssumption`: the slices around a slot are slices, the outermost first,
and `inside` is the converse of `around`. `CompositionsAssumption`: what a program
fills in has the elements its slices announce, and one content to a slice, since the
name of a content stands for the message it came from. `MaxMessagesAssumption` and
`MaxArrayAssumption` bound what the message instance looks at; they are natural
numbers. TLC evaluates the assumptions on every run.

*Only model-checked.* The six liveness properties (`CallbackNeverBlocked`,
`HandlerEnds`, `CatchesUp`, `Answered`, `PollRecovers`, `ReconnectRecovers`):
fairness and ENABLED are beyond the prover. Every invariant, action property and
refinement that a passing run checks is also a theorem. What `MCRosMessage` makes of
the message files, with recursive operators, is evaluated by TLC only, and with it
that each layout satisfies `CatalogueAssumption`. The violated properties are
refuted by a counterexample each.

## 6. What is not modelled

- The match timer of the page (App.tsx:19-63), which starts, stops and displays
  a time and touches nothing else.
- `GetTopics` and `Hello`, which only read; the values in a joint angle message.
- The length and direction of a move of the pad.
- Service and action wrappers, constants and type supports of the generated code,
  and the primitives of rclgo: no component uses the wrappers, and the
  primitives are not in the repository.
- Floating point: infinities and NaN in the accumulated target.
- JPEG compression, the ROS middleware, gin and React beyond what is said above.
- `example.go`, styles, container and build files.

## 7. Plan

Done first, as the most important: the camera path, the target pose, the
conversion that can end the process, the page that causes the overlap. Done next:
the life of the service and the wiring of its commands, the camera tab in front of
it, the field's tables, the messages, and the proofs of service, camera tab, panel
and messages, with the refinement of `WholeMessage`.

1. A composition of the pad with `TargetPose`: how far the target can be from
   the sum of the ticks the operator held an arrow for.
2. The timer: start, stop and reset against a pending animation frame.
3. The service and action wrappers, should the service come to use them.
