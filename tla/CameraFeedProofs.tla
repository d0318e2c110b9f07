--------------------------- MODULE CameraFeedProofs --------------------------
(***************************************************************************)
(* Proofs about CameraFeed, for any viewers and any number of frames.      *)
(* DeliveryInv is inductive relative to TypeOK; everything else follows.   *)
(***************************************************************************)
EXTENDS CameraFeed, TLAPS

(* What a camera can publish is one of the three kinds of payload. *)
LEMMA PayloadKinds ==
  ASSUME NEW t \in Topics
  PROVE  Payloads[t] \subseteq {"jpeg", "bad", "empty"}
  BY DEF Topics, Payloads

(* Each step of the camera, the spin goroutine and the handlers keeps the  *)
(* types of the variables.                                                 *)
THEOREM TypeCorrect == Spec => []TypeOK
<1>1. Init => TypeOK
  BY CameraFeedAssumption DEF Init, TypeOK
<1>2. TypeOK /\ [Next]_vars => TypeOK'
  <2> SUFFICES ASSUME TypeOK, [Next]_vars PROVE TypeOK'
    OBVIOUS
  <2> USE CameraFeedAssumption
  <2>1. ASSUME NEW t \in Topics, CameraPublish(t) PROVE TypeOK'
    BY <2>1, PayloadKinds DEF TypeOK, CameraPublish, spinVars, streamVars, snapVars
  <2>2. ASSUME NEW t \in Topics, Callback(t) PROVE TypeOK'
    BY <2>2 DEF TypeOK, Callback, streamVars, snapVars
  <2>3. ASSUME NEW t \in Topics, TakeFails(t) PROVE TypeOK'
    BY <2>3 DEF TypeOK, TakeFails, spinVars, streamVars, snapVars
  <2>4. CASE StoreFrame
    BY <2>4 DEF TypeOK, StoreFrame, cameraVars, streamVars, snapVars
  <2>5. CASE BumpSeq
    BY <2>5 DEF TypeOK, BumpSeq, cameraVars, streamVars, snapVars
  <2>6. CASE SpinStops
    BY <2>6 DEF TypeOK, SpinStops, cameraVars, streamVars, snapVars
  <2>7. ASSUME NEW v \in Viewers, GetLatestJPEG(v) PROVE TypeOK'
    BY <2>7 DEF TypeOK, GetLatestJPEG, RLock, CopyFrame,
                cameraVars, spinVars, streamVars, snapVars
  <2>8. ASSUME NEW s \in Streams, Stream(s) PROVE TypeOK'
    <3> s \in Viewers
      BY DEF Viewers
    <3>1. CASE Connect(s) \/ Tick(s) \/ Done(s)
      BY <3>1 DEF TypeOK, Connect, Tick, Done, cameraVars, spinVars, streamVars, snapVars
    <3>2. CASE LoadSeq(s)
      BY <3>2 DEF TypeOK, LoadSeq, cameraVars, spinVars, snapVars
    <3>3. CASE WritePart(s)
      BY <3>3 DEF TypeOK, WritePart, cameraVars, spinVars, snapVars
    <3>4. CASE Stall(s) \/ Resume(s) \/ Disconnect(s)
      BY <3>4 DEF TypeOK, Stall, Resume, Disconnect, ViewerTurns,
                  cameraVars, spinVars, snapVars
    <3> QED
      BY <2>8, <3>1, <3>2, <3>3, <3>4 DEF Stream
  <2>9. ASSUME NEW p \in Snappers, Snapshot(p) PROVE TypeOK'
    <3> p \in Viewers
      BY DEF Viewers
    <3> QED
      BY <2>9 DEF TypeOK, Snapshot, RequestSnapshot, AnswerSnapshot,
                  cameraVars, spinVars, streamVars
  <2>10. CASE UNCHANGED vars
    BY <2>10 DEF TypeOK, vars, cameraVars, spinVars, streamVars, snapVars
  <2> QED
    BY <2>1, <2>2, <2>3, <2>4, <2>5, <2>6, <2>7, <2>8, <2>9, <2>10 DEF Next, Spin
<1> QED
  BY <1>1, <1>2, PTL DEF Spec

-----------------------------------------------------------------------------
(* DeliveryInv.  The spin goroutine first: it changes the buffer and the   *)
(* counter under the handlers' feet, never their local state.              *)
LEMMA SpinKeepsDelivery ==
  ASSUME TypeOK, DeliveryInv, Spin
  PROVE  DeliveryInv'
<1>1. CASE \E t \in Topics : Callback(t) \/ TakeFails(t)
  BY <1>1 DEF TypeOK, DeliveryInv, SeqInv, StreamInv, SnapInv, Callback, TakeFails,
              spinVars, streamVars, snapVars
<1>2. CASE StoreFrame
  <2>1. SeqInv'
    BY <1>2 DEF TypeOK, DeliveryInv, SeqInv, StoreFrame
  <2>2. stored' = stored + 1 /\ frameSeq' = frameSeq /\ newest' >= newest
    BY <1>2 DEF TypeOK, DeliveryInv, SeqInv, StoreFrame, cameraVars
  <2>3. ASSUME NEW s \in Streams PROVE StreamInv(s)'
    BY <1>2, <2>2 DEF TypeOK, Viewers, DeliveryInv, StreamInv, StoreFrame, streamVars
  <2>4. ASSUME NEW p \in Snappers PROVE SnapInv(p)'
    BY <1>2, <2>2 DEF TypeOK, Viewers, DeliveryInv, SnapInv, StoreFrame, snapVars
  <2> QED
    BY <2>1, <2>3, <2>4 DEF DeliveryInv
<1>3. CASE BumpSeq
  <2>1. SeqInv'
    BY <1>3 DEF TypeOK, DeliveryInv, SeqInv, BumpSeq
  <2>2. ASSUME NEW s \in Streams PROVE StreamInv(s)'
    BY <1>3 DEF TypeOK, Viewers, DeliveryInv, StreamInv, BumpSeq, streamVars
  <2>3. ASSUME NEW p \in Snappers PROVE SnapInv(p)'
    BY <1>3 DEF DeliveryInv, SnapInv, BumpSeq, snapVars
  <2> QED
    BY <2>1, <2>2, <2>3 DEF DeliveryInv
<1>4. CASE SpinStops
  BY <1>4 DEF DeliveryInv, SeqInv, StreamInv, SnapInv, SpinStops,
              streamVars, snapVars
<1> QED
  BY <1>1, <1>2, <1>3, <1>4 DEF Spin

(* GetLatestJPEG: the copy taken under the read lock is the last store or  *)
(* nothing, hence at least as new as all its caller has sent or was        *)
(* promised.                                                               *)
LEMMA GetKeepsDelivery ==
  ASSUME TypeOK, DeliveryInv, NEW v \in Viewers, GetLatestJPEG(v)
  PROVE  DeliveryInv'
<1>1. CASE RLock(v)
  <2>1. SeqInv'
    BY <1>1 DEF DeliveryInv, SeqInv, RLock, spinVars
  <2>2. ASSUME NEW s \in Streams PROVE StreamInv(s)'
    BY <1>1 DEF TypeOK, Viewers, DeliveryInv, StreamInv, RLock, spinVars, streamVars
  <2>3. ASSUME NEW p \in Snappers PROVE SnapInv(p)'
    BY <1>1 DEF TypeOK, Viewers, DeliveryInv, SnapInv, RLock, spinVars, snapVars
  <2> QED
    BY <2>1, <2>2, <2>3 DEF DeliveryInv
<1>2. CASE CopyFrame(v)
  <2>1. SeqInv'
    BY <1>2 DEF DeliveryInv, SeqInv, CopyFrame, spinVars
  <2>2. latestJPEG # 0 => /\ latestJPEG = stored /\ latestJPEG = newest
                          /\ frameSeq <= stored /\ stored <= frameSeq + 1
    BY DEF TypeOK, DeliveryInv, SeqInv
  <2>3. ASSUME NEW s \in Streams PROVE StreamInv(s)'
    BY <1>2, <2>2 DEF TypeOK, Viewers, DeliveryInv, StreamInv, CopyFrame,
                      spinVars, streamVars
  <2>4. ASSUME NEW p \in Snappers PROVE SnapInv(p)'
    BY <1>2, <2>2 DEF TypeOK, Viewers, DeliveryInv, SnapInv, CopyFrame,
                      spinVars, snapVars
  <2> QED
    BY <2>1, <2>3, <2>4 DEF DeliveryInv
<1> QED
  BY <1>1, <1>2 DEF GetLatestJPEG

(* A step of one connection says nothing about the others; its own         *)
(* sequence number must have grown for it to send again.                   *)
LEMMA StreamKeepsDelivery ==
  ASSUME TypeOK, DeliveryInv, NEW c \in Streams, Stream(c)
  PROVE  DeliveryInv'
<1> c \in Viewers /\ c \notin Snappers
  BY CameraFeedAssumption DEF Viewers
<1> Streams \subseteq Viewers /\ Snappers \subseteq Viewers
  BY DEF Viewers
<1>1. SeqInv' /\ stored' = stored /\ frameSeq' = frameSeq /\ newest' = newest
  BY DEF DeliveryInv, SeqInv, Stream, Connect, Tick, LoadSeq, WritePart, Done, Stall,
         Resume, Disconnect, ViewerTurns, spinVars
<1>2. ASSUME NEW p \in Snappers PROVE SnapInv(p)'
  <2>1. pc'[p] = pc[p] /\ jpg'[p] = jpg[p] /\ UNCHANGED snapVars
    BY DEF TypeOK, Stream, Connect, Tick, LoadSeq, WritePart, Done, Stall,
           Resume, Disconnect, ViewerTurns
  <2> QED
    BY <1>1, <2>1 DEF DeliveryInv, SnapInv, snapVars
<1>3. ASSUME NEW s \in Streams, s # c PROVE StreamInv(s)'
  <2>1. /\ pc'[s] = pc[s] /\ jpg'[s] = jpg[s] /\ lastSeq'[s] = lastSeq[s]
        /\ shown'[s] = shown[s] /\ copies'[s] = copies[s]
    BY <1>3 DEF TypeOK, Stream, Connect, Tick, LoadSeq, WritePart, Done, Stall,
                Resume, Disconnect, ViewerTurns, streamVars
  <2> QED
    BY <1>1, <2>1 DEF DeliveryInv, StreamInv
<1>4. StreamInv(c)'
  <2> StreamInv(c)
    BY DEF DeliveryInv
  <2>1. CASE Connect(c)
    BY <1>1, <2>1 DEF TypeOK, StreamInv, Connect
  <2>2. CASE Tick(c) \/ Done(c)
    BY <1>1, <2>2 DEF TypeOK, StreamInv, Tick, Done, streamVars
  <2>3. CASE LoadSeq(c)
    <3>1. CASE WorthSending(jpg[c], frameSeq, lastSeq[c])
      BY <1>1, <2>3, <3>1 DEF TypeOK, StreamInv, LoadSeq, WorthSending
    <3>2. CASE ~WorthSending(jpg[c], frameSeq, lastSeq[c])
      BY <1>1, <2>3, <3>2 DEF TypeOK, StreamInv, LoadSeq
    <3> QED
      BY <3>1, <3>2
  <2>4. CASE WritePart(c)
    <3>1. CASE conn[c] = "open" /\ jpg[c] = shown[c]
      BY <1>1, <2>4, <3>1 DEF TypeOK, StreamInv, WritePart
    <3>2. CASE conn[c] = "open" /\ jpg[c] # shown[c]
      BY <1>1, <2>4, <3>2 DEF TypeOK, StreamInv, WritePart
    <3>3. CASE conn[c] # "open"
      BY <1>1, <2>4, <3>3 DEF TypeOK, StreamInv, WritePart
    <3> QED
      BY <3>1, <3>2, <3>3
  <2>5. CASE Stall(c) \/ Resume(c) \/ Disconnect(c)
    BY <1>1, <2>5 DEF StreamInv, Stall, Resume, Disconnect, ViewerTurns
  <2> QED
    BY <2>1, <2>2, <2>3, <2>4, <2>5 DEF Stream
<1> QED
  BY <1>1, <1>2, <1>3, <1>4 DEF DeliveryInv

(* A snapshot handler touches only its own copy, and reads it as a whole.  *)
LEMMA SnapshotKeepsDelivery ==
  ASSUME TypeOK, DeliveryInv, NEW q \in Snappers, Snapshot(q)
  PROVE  DeliveryInv'
<1> q \in Viewers /\ q \notin Streams
  BY CameraFeedAssumption DEF Viewers
<1> Streams \subseteq Viewers /\ Snappers \subseteq Viewers
  BY DEF Viewers
<1>1. SeqInv'
  BY DEF DeliveryInv, SeqInv, Snapshot, RequestSnapshot, AnswerSnapshot, spinVars
<1>2. ASSUME NEW s \in Streams PROVE StreamInv(s)'
  <2>1. pc'[s] = pc[s] /\ UNCHANGED <<jpg, spinVars, streamVars>>
    BY DEF TypeOK, Snapshot, RequestSnapshot, AnswerSnapshot
  <2> QED
    BY <2>1 DEF DeliveryInv, StreamInv, spinVars, streamVars
<1>3. ASSUME NEW p \in Snappers PROVE SnapInv(p)'
  BY DEF TypeOK, DeliveryInv, SnapInv, Snapshot, RequestSnapshot, AnswerSnapshot,
         spinVars
<1> QED
  BY <1>1, <1>2, <1>3 DEF DeliveryInv

(* Whatever the interleaving of camera callbacks, stream handlers and      *)
(* snapshot handlers, the counter trails the buffer by at most one and     *)
(* every handler's copy stays within DeliveryInv's bounds.                 *)
THEOREM DeliveryCorrect == Spec => []DeliveryInv
<1>1. Init => DeliveryInv
  BY DEF Init, DeliveryInv, SeqInv, StreamInv, SnapInv, Viewers
<1>2. TypeOK /\ DeliveryInv /\ [Next]_vars => DeliveryInv'
  <2> SUFFICES ASSUME TypeOK, DeliveryInv, [Next]_vars PROVE DeliveryInv'
    OBVIOUS
  <2>1. ASSUME NEW t \in Topics, CameraPublish(t) PROVE DeliveryInv'
    BY <2>1 DEF DeliveryInv, SeqInv, StreamInv, SnapInv, CameraPublish,
                spinVars, streamVars, snapVars
  <2>2. CASE UNCHANGED vars
    BY <2>2 DEF DeliveryInv, SeqInv, StreamInv, SnapInv, vars,
                spinVars, streamVars, snapVars
  <2> QED
    BY <2>1, <2>2, SpinKeepsDelivery, GetKeepsDelivery, StreamKeepsDelivery,
       SnapshotKeepsDelivery DEF Next
<1> QED
  BY <1>1, <1>2, TypeCorrect, PTL DEF Spec

(* No connection receives a frame more than three times in a row. *)
THEOREM AtMostThriceAlways == Spec => []AtMostThrice
<1>1. DeliveryInv => AtMostThrice
  BY DEF DeliveryInv, StreamInv, AtMostThrice
<1> QED
  BY <1>1, DeliveryCorrect, PTL

(* A snapshot is never older than the newest image present when it was     *)
(* requested.                                                              *)
THEOREM SnapshotFreshAlways == Spec => []SnapshotFresh
<1>1. DeliveryInv => SnapshotFresh
  BY DEF DeliveryInv, SnapInv, SnapshotFresh
<1> QED
  BY <1>1, DeliveryCorrect, PTL

-----------------------------------------------------------------------------
(* Every step of the camera path is a step of LossyFeed or leaves what it  *)
(* sees alone.                                                             *)
LEMMA StepsOfFeed ==
  ASSUME TypeOK, DeliveryInv, [Next]_vars
  PROVE  [Feed!Next]_(Feed!vars)
<1>1. CASE StoreFrame
  BY <1>1 DEF StoreFrame, streamVars, Feed!Next, Feed!NewFrame
<1>2. ASSUME NEW s \in Streams, Connect(s) PROVE Feed!Reopen(s)
  BY <1>2 DEF Connect, spinVars, Feed!Reopen
<1>3. ASSUME NEW s \in Streams, WritePart(s), conn[s] = "open" PROVE Feed!Show(s)
  <2>1. /\ jpg[s] \in 1..stored /\ jpg[s] >= shown[s]
        /\ jpg[s] = shown[s] => copies[s] < 3
    BY <1>3 DEF TypeOK, DeliveryInv, StreamInv, WritePart, Viewers
  <2> QED
    BY <1>3, <2>1 DEF WritePart, spinVars, Feed!Show
<1>4. ASSUME \/ \E t \in Topics : CameraPublish(t) \/ Callback(t) \/ TakeFails(t)
             \/ BumpSeq \/ SpinStops
             \/ \E v \in Viewers : GetLatestJPEG(v)
             \/ \E s \in Streams : \/ Tick(s) \/ LoadSeq(s) \/ Done(s)
                                   \/ WritePart(s) /\ conn[s] # "open"
                                   \/ Stall(s) \/ Resume(s) \/ Disconnect(s)
             \/ \E p \in Snappers : Snapshot(p)
             \/ UNCHANGED vars
      PROVE  UNCHANGED Feed!vars
  BY <1>4 DEF CameraPublish, Callback, TakeFails, BumpSeq, SpinStops, GetLatestJPEG,
              RLock, CopyFrame, Tick, LoadSeq, Done, WritePart, Stall, Resume,
              Disconnect, ViewerTurns, Snapshot, RequestSnapshot, AnswerSnapshot,
              vars, spinVars, streamVars, Feed!vars
<1> QED
  BY <1>1, <1>2, <1>3, <1>4 DEF Next, Spin, Stream, Feed!Next

(* The camera path implements LossyFeed with MaxCopies = 3. *)
THEOREM ImplementsFeed == Spec => ImplementsLossyFeed
<1>1. Init => Feed!Init
  BY DEF Init, Feed!Init
<1> QED
  BY <1>1, StepsOfFeed, TypeCorrect, DeliveryCorrect, PTL
     DEF Spec, ImplementsLossyFeed, Feed!Spec
=============================================================================
