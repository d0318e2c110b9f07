----------------------------- MODULE CameraFeed ------------------------------
(***************************************************************************)
(* The camera path of the backend: the two image subscriptions served by   *)
(* the spin goroutine (internal/robot/controller.go), the frame buffer     *)
(* latestJPEG / frameSeq they fill, and the HTTP handlers that read it,    *)
(* one goroutine per request (internal/api/robot_handler.go).              *)
(*                                                                         *)
(* A stored payload is named by the number of the setLatestJPEG call that  *)
(* stored it; 0 stands for a nil or empty latestJPEG, which the code       *)
(* treats alike.  Images are taken to carry all the bytes their header     *)
(* announces; ImageEncode says what becomes of the others.                 *)
(* stored, newest, shown, copies and since are history: no action of the   *)
(* program reads them.  published bounds the model.                        *)
(***************************************************************************)
EXTENDS Naturals

CONSTANTS Streams,     \* viewers of /api/camera/mjpeg
          Snappers,    \* clients of /api/camera/snapshot
          MaxFrames    \* bound: image messages published during a behaviour

ASSUME CameraFeedAssumption ==
  /\ MaxFrames \in Nat
  /\ Streams \cap Snappers = {}

VARIABLES
  published,   \* image messages published so far (bound)
  inbox,       \* the message waiting in each subscription, or "none"
  cb,          \* where the spin goroutine is
  payload,     \* what the running callback is about to store
  latestJPEG,  \* the frame in the buffer, 0 when it is empty
  frameSeq,    \* the atomic counter next to it
  stored,      \* history: completed stores
  newest,      \* history: the last frame stored that was not empty
  pc,          \* where each HTTP handler is, "off" when it is not running
  jpg,         \* the copy GetLatestJPEG made for it; a stream's is local to
               \* one round of its loop
  lastSeq,     \* CameraMJPEG's local lastSeq
  conn,        \* the viewer's end of the connection
  shown,       \* history: the frame last written to the connection
  copies,      \* history: how many times in a row it was written
  reply,       \* the status of the last snapshot response
  since        \* history: newest when the snapshot was requested

cameraVars == <<published, inbox>>
spinVars   == <<cb, payload, latestJPEG, frameSeq, stored, newest>>
streamVars == <<lastSeq, conn, shown, copies>>
snapVars   == <<reply, since>>
vars == <<cameraVars, spinVars, pc, jpg, streamVars, snapVars>>

Viewers == Streams \cup Snappers

(* "bad" is an image the conversion to JPEG refuses, "empty" a compressed  *)
(* image whose data field is empty.                                        *)
Payloads == [raw |-> {"jpeg", "bad"}, compressed |-> {"jpeg", "empty"}]
Topics   == DOMAIN Payloads

TypeOK ==
  /\ published \in 0..MaxFrames
  /\ inbox \in [Topics -> {"none", "jpeg", "bad", "empty"}]
  /\ cb \in {"idle", "lock", "bump", "stopped"}
  /\ payload \in {"jpeg", "empty"}
  /\ latestJPEG \in Nat /\ frameSeq \in Nat /\ stored \in Nat /\ newest \in Nat
  /\ pc \in [Viewers -> {"off", "select", "get", "copy", "load", "write"}]
  /\ jpg \in [Viewers -> Nat]
  /\ lastSeq \in [Streams -> Nat]
  /\ conn \in [Streams -> {"none", "open", "stalled", "gone"}]
  /\ shown \in [Streams -> Nat] /\ copies \in [Streams -> Nat]
  /\ reply \in [Snappers -> {"none", "200", "503"}]
  /\ since \in [Snappers -> Nat]

Init ==
  /\ published = 0
  /\ inbox = [t \in Topics |-> "none"]
  /\ cb = "idle" /\ payload = "jpeg"
  /\ latestJPEG = 0 /\ frameSeq = 0
  /\ stored = 0 /\ newest = 0
  /\ pc = [v \in Viewers |-> "off"]
  /\ jpg = [v \in Viewers |-> 0]
  /\ lastSeq = [s \in Streams |-> 0]
  /\ conn = [s \in Streams |-> "none"]
  /\ shown = [s \in Streams |-> 0] /\ copies = [s \in Streams |-> 0]
  /\ reply = [p \in Snappers |-> "none"]
  /\ since = [p \in Snappers |-> 0]

-----------------------------------------------------------------------------
(* The cameras.  The subscriptions keep the last message only (KeepLast,   *)
(* Depth 1), so an unread message is overwritten.                          *)
CameraPublish(t) ==
  /\ published < MaxFrames
  /\ published' = published + 1
  /\ \E m \in Payloads[t] : inbox' = [inbox EXCEPT ![t] = m]
  /\ UNCHANGED <<spinVars, pc, jpg, streamVars, snapVars>>

\* Fault: the conversion error is not looked at.
CallbackKeepingBad(t) ==
  /\ cb = "idle"
  /\ inbox[t] # "none"
  /\ inbox' = [inbox EXCEPT ![t] = "none"]
  /\ cb' = "lock" /\ payload' = inbox[t]
  /\ UNCHANGED <<published, latestJPEG, frameSeq, stored, newest, pc, jpg,
                 streamVars, snapVars>>

(* The spin goroutine runs one callback at a time.  A callback takes the   *)
(* message; an image that cannot be converted is dropped, otherwise        *)
(* setLatestJPEG asks for the write lock.                                  *)
Callback(t) ==
  /\ cb = "idle"
  /\ inbox[t] # "none"
  /\ inbox' = [inbox EXCEPT ![t] = "none"]
  /\ IF inbox[t] = "bad"
       THEN UNCHANGED <<cb, payload>>
       ELSE cb' = "lock" /\ payload' = inbox[t]
  /\ UNCHANGED <<published, latestJPEG, frameSeq, stored, newest, pc, jpg,
                 streamVars, snapVars>>

\* TakeMessage failed: the callback logs a warning and stores nothing.
TakeFails(t) ==
  /\ cb = "idle"
  /\ inbox[t] # "none"
  /\ inbox' = [inbox EXCEPT ![t] = "none"]
  /\ UNCHANGED <<published, spinVars, pc, jpg, streamVars, snapVars>>

\* Fault: the read lock is kept until the part has been written.
ReadLockedWhileWriting == {v \in Viewers : pc[v] \in {"copy", "load", "write"}}

\* The handlers that hold the read lock of latestJPEGMu.
ReadLocked == {v \in Viewers : pc[v] = "copy"}

\* Lock, assign, Unlock: one step, since nobody else runs inside the lock.
StoreFrame ==
  /\ cb = "lock"
  /\ ReadLocked = {}
  /\ latestJPEG' = IF payload = "jpeg" THEN stored + 1 ELSE 0
  /\ newest' = IF payload = "jpeg" THEN stored + 1 ELSE newest
  /\ stored' = stored + 1
  /\ cb' = "bump"
  /\ UNCHANGED <<cameraVars, payload, frameSeq, pc, jpg, streamVars, snapVars>>

\* Fault: an empty image does not count.
BumpSeqForImages ==
  /\ cb = "bump"
  /\ frameSeq' = IF payload = "jpeg" THEN frameSeq + 1 ELSE frameSeq
  /\ cb' = "idle"
  /\ UNCHANGED <<cameraVars, payload, latestJPEG, stored, newest, pc, jpg,
                 streamVars, snapVars>>

\* The counter is incremented after the lock has been released.
BumpSeq ==
  /\ cb = "bump"
  /\ frameSeq' = frameSeq + 1
  /\ cb' = "idle"
  /\ UNCHANGED <<cameraVars, payload, latestJPEG, stored, newest, pc, jpg,
                 streamVars, snapVars>>

\* SIGINT or SIGTERM cancels spinCtx: no callback runs any more, while the
\* HTTP server goes on.
SpinStops ==
  /\ cb = "idle"
  /\ cb' = "stopped"
  /\ UNCHANGED <<cameraVars, payload, latestJPEG, frameSeq, stored, newest,
                 pc, jpg, streamVars, snapVars>>

-----------------------------------------------------------------------------
(* GetLatestJPEG, called by both kinds of handlers: RLock, copy, RUnlock,  *)
(* and only then the load of frameSeq.  A waiting writer keeps new readers *)
(* out of a sync.RWMutex.                                                  *)
RLock(v) ==
  /\ pc[v] = "get"
  /\ cb # "lock"
  /\ pc' = [pc EXCEPT ![v] = "copy"]
  /\ UNCHANGED <<cameraVars, spinVars, jpg, streamVars, snapVars>>

\* Fault: the previous copy is reused instead of being made anew.
CopyFrameCached(v) ==
  /\ pc[v] = "copy"
  /\ jpg' = [jpg EXCEPT ![v] = IF jpg[v] # 0 THEN jpg[v] ELSE latestJPEG]
  /\ pc' = [pc EXCEPT ![v] = "load"]
  /\ UNCHANGED <<cameraVars, spinVars, streamVars, snapVars>>

CopyFrame(v) ==
  /\ pc[v] = "copy"
  /\ jpg' = [jpg EXCEPT ![v] = latestJPEG]
  /\ pc' = [pc EXCEPT ![v] = "load"]
  /\ UNCHANGED <<cameraVars, spinVars, streamVars, snapVars>>

-----------------------------------------------------------------------------
(* CameraMJPEG. *)
Connect(s) ==
  /\ pc[s] = "off"
  /\ conn' = [conn EXCEPT ![s] = "open"]
  /\ pc' = [pc EXCEPT ![s] = "select"]
  /\ lastSeq' = [lastSeq EXCEPT ![s] = 0]
  /\ shown' = [shown EXCEPT ![s] = 0]
  /\ copies' = [copies EXCEPT ![s] = 0]
  /\ UNCHANGED <<cameraVars, spinVars, jpg, snapVars>>

Tick(s) ==
  /\ pc[s] = "select"
  /\ pc' = [pc EXCEPT ![s] = "get"]
  /\ UNCHANGED <<cameraVars, spinVars, jpg, streamVars, snapVars>>

\* Faults: the sequence number is not compared; it is compared one off.
WorthSendingAlways(frame, seq, last) == frame # 0
WorthSendingLate(frame, seq, last) == frame # 0 /\ seq > last + 1

\* The negation of the handler's "continue" condition.
WorthSending(frame, seq, last) == frame # 0 /\ seq # last

\* Fault: lastSeq is not updated before the part is written.
LoadSeqForgetting(s) ==
  /\ pc[s] = "load"
  /\ pc' = [pc EXCEPT ![s] =
              IF WorthSending(jpg[s], frameSeq, lastSeq[s]) THEN "write" ELSE "select"]
  /\ UNCHANGED <<cameraVars, spinVars, jpg, streamVars, snapVars>>

LoadSeq(s) ==
  /\ pc[s] = "load"
  /\ IF WorthSending(jpg[s], frameSeq, lastSeq[s])
       THEN /\ lastSeq' = [lastSeq EXCEPT ![s] = frameSeq]
            /\ pc' = [pc EXCEPT ![s] = "write"]
            /\ UNCHANGED jpg
       ELSE /\ pc' = [pc EXCEPT ![s] = "select"]
            /\ jpg' = [jpg EXCEPT ![s] = 0]
            /\ UNCHANGED lastSeq
  /\ UNCHANGED <<cameraVars, spinVars, conn, shown, copies, snapVars>>

\* Writing the part blocks while the viewer does not read; errors are ignored.
WritePart(s) ==
  /\ pc[s] = "write"
  /\ conn[s] # "stalled"
  /\ pc' = [pc EXCEPT ![s] = "select"]
  /\ jpg' = [jpg EXCEPT ![s] = 0]
  /\ IF conn[s] = "open"
       THEN /\ shown' = [shown EXCEPT ![s] = jpg[s]]
            /\ copies' = [copies EXCEPT ![s] =
                            IF jpg[s] = shown[s] THEN copies[s] + 1 ELSE 1]
       ELSE UNCHANGED <<shown, copies>>
  /\ UNCHANGED <<cameraVars, spinVars, lastSeq, conn, snapVars>>

\* Fault: the context is looked at only after a new frame.
DoneAfterFrame(s) ==
  /\ pc[s] = "select"
  /\ conn[s] = "gone"
  /\ frameSeq # lastSeq[s]
  /\ pc' = [pc EXCEPT ![s] = "off"]
  /\ conn' = [conn EXCEPT ![s] = "none"]
  /\ UNCHANGED <<cameraVars, spinVars, jpg, lastSeq, shown, copies, snapVars>>

\* The request context is done once the viewer has closed the connection.
Done(s) ==
  /\ pc[s] = "select"
  /\ conn[s] = "gone"
  /\ pc' = [pc EXCEPT ![s] = "off"]
  /\ conn' = [conn EXCEPT ![s] = "none"]
  /\ UNCHANGED <<cameraVars, spinVars, jpg, lastSeq, shown, copies, snapVars>>

(* The viewer's end: it may stop reading, go on, or close.  Nothing in the *)
(* server sets a write timeout.                                            *)
ViewerTurns(s, from, to) ==
  /\ conn[s] \in from
  /\ conn' = [conn EXCEPT ![s] = to]
  /\ UNCHANGED <<cameraVars, spinVars, pc, jpg, lastSeq, shown, copies, snapVars>>

Stall(s)      == ViewerTurns(s, {"open"}, "stalled")
Resume(s)     == ViewerTurns(s, {"stalled"}, "open")
Disconnect(s) == ViewerTurns(s, {"open", "stalled"}, "gone")

-----------------------------------------------------------------------------
(* CameraSnapshot: the same read, without the sequence number. *)
RequestSnapshot(p) ==
  /\ pc[p] = "off"
  /\ pc' = [pc EXCEPT ![p] = "get"]
  /\ reply' = [reply EXCEPT ![p] = "none"]
  /\ since' = [since EXCEPT ![p] = newest]
  /\ UNCHANGED <<cameraVars, spinVars, jpg, streamVars>>

AnswerSnapshot(p) ==
  /\ pc[p] = "load"
  /\ reply' = [reply EXCEPT ![p] = IF jpg[p] = 0 THEN "503" ELSE "200"]
  /\ pc' = [pc EXCEPT ![p] = "off"]
  /\ UNCHANGED <<cameraVars, spinVars, jpg, streamVars, since>>

-----------------------------------------------------------------------------
Spin == \/ \E t \in Topics : Callback(t) \/ TakeFails(t)
        \/ StoreFrame
        \/ BumpSeq
        \/ SpinStops

GetLatestJPEG(v) == RLock(v) \/ CopyFrame(v)

Stream(s) == \/ Connect(s) \/ Tick(s) \/ LoadSeq(s) \/ WritePart(s) \/ Done(s)
             \/ Stall(s) \/ Resume(s) \/ Disconnect(s)

Snapshot(p) == RequestSnapshot(p) \/ AnswerSnapshot(p)

Next == \/ \E t \in Topics : CameraPublish(t)
        \/ Spin
        \/ \E v \in Viewers : GetLatestJPEG(v)
        \/ \E s \in Streams : Stream(s)
        \/ \E p \in Snappers : Snapshot(p)

Spec == Init /\ [][Next]_vars

(* Running goroutines are scheduled, the ticker keeps firing, and a select *)
(* with both cases ready picks one at random, so Done is not passed over   *)
(* forever.  Cameras, viewers and signals owe nothing.                     *)
Fairness ==
  /\ \A t \in Topics : WF_vars(Callback(t))
  /\ WF_vars(StoreFrame) /\ WF_vars(BumpSeq)
  /\ \A v \in Viewers : WF_vars(RLock(v)) /\ WF_vars(CopyFrame(v))
  /\ \A s \in Streams : /\ WF_vars(Tick(s)) /\ WF_vars(LoadSeq(s))
                        /\ WF_vars(WritePart(s)) /\ SF_vars(Done(s))
  /\ \A p \in Snappers : WF_vars(AnswerSnapshot(p))

FairSpec == Spec /\ Fairness

-----------------------------------------------------------------------------
(* Safety. *)

(* On one connection no frame is sent more than three times, although      *)
(* GetLatestJPEG reads the bytes and the sequence number at two different  *)
(* moments and setLatestJPEG writes them at two different moments.         *)
AtMostThrice == \A s \in Streams : copies[s] <= 3

(* A snapshot answered with 200 is at least as new as the newest image     *)
(* that was in the buffer when the request arrived.                        *)
SnapshotFresh ==
  \A p \in Snappers : reply[p] = "200" => jpg[p] >= since[p]

(* The counter trails the buffer by the one store whose increment is still *)
(* to come, in the window between Unlock and atomic.AddUint64.             *)
SeqInv ==
  /\ frameSeq = IF cb = "bump" THEN stored - 1 ELSE stored
  /\ latestJPEG \in {0, stored}
  /\ newest <= stored
  /\ latestJPEG # 0 => newest = latestJPEG

(* What a stream handler knows at each line: the last sequence number sent *)
(* bounds the age of the copy in hand and of the frame the viewer shows.   *)
StreamInv(s) ==
  /\ lastSeq[s] <= frameSeq
  /\ shown[s] <= stored
  /\ copies[s] <= 3
  /\ shown[s] # 0 => shown[s] + copies[s] <= lastSeq[s] + 2
  /\ pc[s] = "load" /\ jpg[s] # 0 =>
       /\ shown[s] <= jpg[s] /\ jpg[s] <= stored
       /\ lastSeq[s] <= jpg[s] /\ jpg[s] <= frameSeq + 1
  /\ pc[s] = "write" =>
       /\ jpg[s] # 0 /\ shown[s] <= jpg[s] /\ jpg[s] <= stored
       /\ jpg[s] <= lastSeq[s] + 1
       /\ jpg[s] = shown[s] => copies[s] <= 2 /\ jpg[s] + copies[s] <= lastSeq[s] + 1

SnapInv(p) ==
  /\ pc[p] \in {"get", "copy"} => since[p] <= newest /\ reply[p] = "none"
  /\ pc[p] = "load" => reply[p] = "none" /\ (jpg[p] # 0 => jpg[p] >= since[p])
  /\ reply[p] = "200" => jpg[p] >= since[p]

(* The inductive invariant behind AtMostThrice, SnapshotFresh and the      *)
(* refinement: camera callback, stream handlers and snapshot handlers keep *)
(* the counter, the buffer and every handler's local copy in these bounds. *)
DeliveryInv ==
  /\ SeqInv
  /\ \A s \in Streams : StreamInv(s)
  /\ \A p \in Snappers : SnapInv(p)

(* Every connection delivers what LossyFeed promises: stored frames in     *)
(* order, some lost, none more than three times.                           *)
Feed == INSTANCE LossyFeed WITH MaxCopies <- 3
ImplementsLossyFeed == Feed!Spec

-----------------------------------------------------------------------------
(* Liveness, under FairSpec. *)

(* A viewer that stops reading never keeps the camera callback, and with   *)
(* it the other viewers, waiting: no handler writes to its connection      *)
(* while it holds latestJPEGMu.                                            *)
CallbackNeverBlocked == cb = "lock" ~> cb = "bump"

(* The handler of a closed connection ends, camera or no camera.           *)
HandlerEnds == \A s \in Streams : conn[s] = "gone" ~> pc[s] = "off"

(* A viewer that keeps reading is brought to the current sequence number,  *)
(* whatever the other clients do, as long as the buffer holds an image.    *)
CatchesUp ==
  \A s \in Streams :
    conn[s] = "open" /\ lastSeq[s] # frameSeq
      ~> \/ lastSeq[s] = frameSeq
         \/ conn[s] # "open"
         \/ latestJPEG = 0

-----------------------------------------------------------------------------
(* What a comment of the repository says, which the code does not keep     *)
(* (see the findings in README.md).                                        *)

(* controller.go:47: frameSeq is there so that MJPEG does not send a frame *)
(* twice.                                                                  *)
NoDuplicateFrames == \A s \in Streams : copies[s] <= 1
=============================================================================
