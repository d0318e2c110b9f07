------------------------------- MODULE Service -------------------------------
(***************************************************************************)
(* The life of the backend process: cmd/service/main.go, the router        *)
(* (internal/api/router.go), NewController and the commands that the       *)
(* handlers publish (internal/robot/controller.go), from the operator's    *)
(* button to the ROS topic.  The process ends at log.Fatalf, at a signal   *)
(* before NotifyContext, and at any moment from outside (SIGKILL, a panic  *)
(* in the spin goroutine); somebody starts it again.                       *)
(*                                                                         *)
(* A handler is two steps, the publication and the response.  What the     *)
(* commands carry is left out: the target pose, with the accesses of the   *)
(* goal handlers and what a restart or a failed publication does to it, is *)
(* TargetPose's subject, the buffer and the camera's handlers CameraFeed's.*)
(* boots and requests bound the model.                                     *)
(***************************************************************************)
EXTENDS Naturals, Sequences

CONSTANTS Handlers,      \* goroutines serving requests
          MaxBoots,      \* bound: processes started in a behaviour
          MaxRequests    \* bound: requests accepted in a behaviour

ASSUME ServiceAssumption == MaxBoots \in Nat /\ MaxRequests \in Nat

-----------------------------------------------------------------------------
(* The wiring, table by table: what the page calls for each of its         *)
(* controls, the route of each call, its handler, the method that the      *)
(* handler calls, the publisher and the message of that method, and the    *)
(* topic and the type that the publisher was created with.                 *)
CallOf == [StartMotion |-> "startMotion", ResetMotion |-> "resetMotion",
           Catch |-> "catchMotion", Release |-> "releaseMotion",
           Down |-> "downMotion", Middle |-> "middleMotion", Up |-> "upMotion",
           ZPlus |-> "addUpMotion", ZMinus |-> "addDownMotion",
           Arrow |-> "sendDisplacement", Block |-> "sendPosition",
           GoalForm |-> "sendPosition", SendJoints |-> "sendJointAngles"]

RouteOf ==
  [sendPosition |-> "position", sendDisplacement |-> "move",
   startMotion |-> "start_motion", downMotion |-> "down_motion",
   upMotion |-> "up_motion", catchMotion |-> "catch_motion",
   releaseMotion |-> "release_motion", addDownMotion |-> "add_down_motion",
   addUpMotion |-> "add_up_motion", middleMotion |-> "middle_motion",
   resetMotion |-> "reset_motion", sendJointAngles |-> "joint_angles"]

Router ==
  [position |-> "SendPositionCommand", move |-> "SendDisplacementCommand",
   joint_angles |-> "SendJointAngles",
   start_motion |-> "StartMotion", down_motion |-> "DownMotion",
   up_motion |-> "UpMotion", catch_motion |-> "CatchMotion",
   release_motion |-> "ReleaseMotion", reset_motion |-> "ResetMotion",
   add_down_motion |-> "AddDownMotion", add_up_motion |-> "AddUpMotion",
   middle_motion |-> "MiddleMotion"]

MethodOf ==
  [SendPositionCommand |-> "PublishPosition", StartMotion |-> "PublishStartMotion",
   DownMotion |-> "PublishDownMotion", UpMotion |-> "PublishUpMotion",
   CatchMotion |-> "PublishCatchMotion", ReleaseMotion |-> "PublishReleaseMotion",
   ResetMotion |-> "PublishResetMotion", AddDownMotion |-> "PublishAddDownMotion",
   AddUpMotion |-> "PublishAddUpMotion", MiddleMotion |-> "PublishMiddleMotion",
   SendDisplacementCommand |-> "PublishDisplacement",
   SendJointAngles |-> "PublishJointAngles"]

Via(field, type) == [field |-> field, type |-> type]

Publishes ==
  [PublishPosition |-> Via("positionPub", "PoseStamped"),
   PublishStartMotion |-> Via("startPub", "Empty"),
   PublishUpMotion |-> Via("upMotionPub", "Empty"),
   PublishDownMotion |-> Via("downMotionPub", "Empty"),
   PublishAddDownMotion |-> Via("addDownMotionPub", "Empty"),
   PublishAddUpMotion |-> Via("addUpMotionPub", "Empty"),
   PublishMiddleMotion |-> Via("middleMotionPub", "Empty"),
   PublishCatchMotion |-> Via("catchMotionPub", "Empty"),
   PublishReleaseMotion |-> Via("releaseMotionPub", "Empty"),
   PublishResetMotion |-> Via("resetPub", "Empty"),
   PublishDisplacement |-> Via("positionPub", "PoseStamped"),
   PublishJointAngles |-> Via("jointAnglesPub", "Float32MultiArray")]

On(topic, type) == [topic |-> topic, type |-> type]

PublisherOn ==
  [positionPub |-> On("goal_pose", "PoseStamped"),
   startPub |-> On("start_motion", "Empty"),
   catchMotionPub |-> On("catch_motion", "Empty"),
   releaseMotionPub |-> On("release_motion", "Empty"),
   resetPub |-> On("reset_motion", "Empty"),
   upMotionPub |-> On("up_motion", "Empty"),
   downMotionPub |-> On("down_motion", "Empty"),
   addDownMotionPub |-> On("add_down_motion", "Empty"),
   addUpMotionPub |-> On("add_up_motion", "Empty"),
   middleMotionPub |-> On("middle_motion", "Empty"),
   jointAnglesPub |-> On("joint_angles", "Float32MultiArray")]

\* NewController creates the publishers in this order.
Creation ==
  <<"positionPub", "startPub", "catchMotionPub", "releaseMotionPub", "resetPub",
    "upMotionPub", "downMotionPub", "addDownMotionPub", "addUpMotionPub",
    "middleMotionPub", "jointAnglesPub">>

ImageTopics == {"raw", "compressed"}

Controls == DOMAIN CallOf

\* Fault: the page's Middle button calls what its error message names.
HandlerOfMiddleDown(control) ==
  Router[IF control = "Middle" THEN "down_motion" ELSE RouteOf[CallOf[control]]]

HandlerOf(control) == Router[RouteOf[CallOf[control]]]

Command(control) == Publishes[MethodOf[HandlerOf(control)]]

-----------------------------------------------------------------------------
VARIABLES
  proc,       \* where main is: "off", "creating", "starting" or "serving"
  made,       \* publishers created by this process
  open,       \* those that are open
  tried,      \* image subscriptions tried
  subs,       \* and those that exist
  spin,       \* the spin goroutine: "none", "running" or "stopped"
  frame,      \* latestJPEG is not empty
  req,        \* the request of each handler
  boots, requests   \* processes started, requests accepted (bounds)

entities == <<made, open, tried, subs>>
service  == <<proc, entities, spin, frame, req, boots, requests>>

Free == [stage |-> "free"]
NoRequest == [h \in Handlers |-> Free]

InFlight(h) == req[h] # Free

Init ==
  /\ proc = "off" /\ made = 0 /\ open = {} /\ tried = {} /\ subs = {}
  /\ spin = "none" /\ frame = FALSE
  /\ req = NoRequest
  /\ boots = 0 /\ requests = 0

-----------------------------------------------------------------------------
(* Everything the process holds is gone with it.                           *)
Ends ==
  /\ proc' = "off" /\ made' = 0 /\ open' = {} /\ tried' = {} /\ subs' = {}
  /\ spin' = "none" /\ frame' = FALSE
  /\ req' = NoRequest
  /\ UNCHANGED <<boots, requests>>

Launch ==
  /\ proc = "off"
  /\ boots < MaxBoots
  /\ boots' = boots + 1
  /\ proc' = "creating"
  /\ UNCHANGED <<entities, spin, frame, req, requests>>

\* rclgo.Init, the node, then one publisher after the other.
CreatePublisher ==
  /\ proc = "creating"
  /\ made < Len(Creation)
  /\ made' = made + 1
  /\ open' = open \cup {Creation[made + 1]}
  /\ UNCHANGED <<proc, tried, subs, spin, frame, req, boots, requests>>

\* Fault: a publisher that cannot be created is only warned about.
CreateWarns ==
  /\ proc = "creating"
  /\ made < Len(Creation)
  /\ made' = made + 1
  /\ UNCHANGED <<proc, open, tried, subs, spin, frame, req, boots, requests>>

\* NewController returns the error; log.Fatalf runs no deferred Close.
CreateFails ==
  /\ proc = "creating"
  /\ made < Len(Creation)
  /\ Ends

\* An image subscription that fails is only warned about.
Subscribe(t) ==
  /\ proc = "creating"
  /\ made = Len(Creation)
  /\ t \notin tried
  /\ t = "compressed" => "raw" \in tried
  /\ tried' = tried \cup {t}
  /\ subs' \in {subs, subs \cup {t}}
  /\ UNCHANGED <<proc, made, open, spin, frame, req, boots, requests>>

\* Fault: the node is spun before it has all it is to have.
StartSpinEarly ==
  /\ proc = "creating"
  /\ proc' = IF tried = ImageTopics THEN "starting" ELSE proc
  /\ spin' = "running"
  /\ UNCHANGED <<entities, frame, req, boots, requests>>

\* signal.NotifyContext and the spin goroutine; NewController is done.
StartSpin ==
  /\ proc = "creating"
  /\ tried = ImageTopics
  /\ proc' = "starting"
  /\ spin' = "running"
  /\ UNCHANGED <<entities, frame, req, boots, requests>>

Listen ==
  /\ proc = "starting"
  /\ proc' = "serving"
  /\ UNCHANGED <<entities, spin, frame, req, boots, requests>>

\* router.Run returns only with an error: the port is taken, or accept fails.
RunFails == proc \in {"starting", "serving"} /\ Ends

\* An image is stored (CameraFeed); only a compressed one may be empty.
Frame ==
  /\ spin = "running"
  /\ subs # {}
  /\ frame' \in IF "compressed" \in subs THEN BOOLEAN ELSE {TRUE}
  /\ UNCHANGED <<proc, entities, spin, req, boots, requests>>

\* SIGINT or SIGTERM: from NotifyContext on it stops the spin and no more.
SignalEarly == proc = "creating" /\ Ends

SignalStopsSpin ==
  /\ spin = "running"
  /\ spin' = "stopped"
  /\ UNCHANGED <<proc, entities, frame, req, boots, requests>>

\* SIGKILL, a crash of the machine, a panic in the spin goroutine.
Killed == proc # "off" /\ Ends

-----------------------------------------------------------------------------
(* A control of the page is used and its request reaches a handler.        *)
Accept(h, control) ==
  /\ proc = "serving"
  /\ ~InFlight(h)
  /\ requests < MaxRequests
  /\ requests' = requests + 1
  /\ req' = [req EXCEPT ![h] = [stage |-> "called", control |-> control]]
  /\ UNCHANGED <<proc, entities, spin, frame, boots>>

\* Fault: commands wait for the spin goroutine.
CalledWhileSpinning(h) == InFlight(h) /\ req[h].stage = "called" /\ spin = "running"

Called(h) == InFlight(h) /\ req[h].stage = "called"

\* The handler's last call; a goal handler has set its target by then.
Publish(h) ==
  /\ Called(h)
  /\ Command(req[h].control).field \in open
  /\ req' = [req EXCEPT ![h].stage = "published"]
  /\ UNCHANGED <<proc, entities, spin, frame, boots, requests>>

\* There is no publisher, or it returns an error.
PublishFails(h) ==
  /\ Called(h)
  /\ req' = [req EXCEPT ![h].stage = "failed"]
  /\ UNCHANGED <<proc, entities, spin, frame, boots, requests>>

\* The response, 200 or 500; a request the process does not outlive has none.
Answer(h) ==
  /\ InFlight(h)
  /\ req[h].stage # "called"
  /\ req' = [req EXCEPT ![h] = Free]
  /\ UNCHANGED <<proc, entities, spin, frame, boots, requests>>

StartUp == CreatePublisher \/ (\E t \in ImageTopics : Subscribe(t)) \/ StartSpin \/ Listen

ServiceNext ==
  \/ Launch \/ StartUp \/ Frame
  \/ CreateFails \/ RunFails \/ SignalEarly \/ SignalStopsSpin \/ Killed
  \/ \E h \in Handlers :
       \/ \E control \in Controls : Accept(h, control)
       \/ Publish(h) \/ PublishFails(h) \/ Answer(h)

Spec == Init /\ [][ServiceNext]_service

-----------------------------------------------------------------------------
Request == [stage : {"called", "published", "failed"}, control : Controls]

(* Every variable keeps its type; what a process does not have yet, or no  *)
(* longer, follows from where main is.                                     *)
TypeOK ==
  /\ proc \in {"off", "creating", "starting", "serving"}
  /\ made \in 0 .. Len(Creation)
  /\ open \subseteq DOMAIN PublisherOn
  /\ tried \subseteq ImageTopics /\ subs \subseteq tried
  /\ spin \in {"none", "running", "stopped"}
  /\ frame \in BOOLEAN
  /\ req \in [Handlers -> Request \cup {Free}]
  /\ boots \in 0 .. MaxBoots /\ requests \in 0 .. MaxRequests
  /\ proc \in {"off", "creating"} => spin = "none" /\ ~frame

(* A request is never served by a controller without the publisher that it *)
(* needs: start-up gives up at the first one it cannot create, and nothing *)
(* closes one while handlers run, a signal included.                       *)
PublishersLive ==
  \A h \in Handlers : InFlight(h) => Command(req[h].control).field \in open

(* PublishersLive with the start-up that leads to it.                      *)
StartUpInv ==
  /\ open = {Creation[i] : i \in 1 .. made}
  /\ tried # {} => made = Len(Creation)
  /\ proc \in {"starting", "serving"} => made = Len(Creation) /\ spin # "none"
  /\ (\E h \in Handlers : InFlight(h)) => proc = "serving"

\* What a control of the page stands for, by the names of the robot's topics.
Meant ==
  [StartMotion |-> "start_motion", ResetMotion |-> "reset_motion",
   Catch |-> "catch_motion", Release |-> "release_motion", Down |-> "down_motion",
   Middle |-> "middle_motion", Up |-> "up_motion", ZPlus |-> "add_up_motion",
   ZMinus |-> "add_down_motion", Arrow |-> "goal_pose", Block |-> "goal_pose",
   GoalForm |-> "goal_pose", SendJoints |-> "joint_angles"]

(* Through page, client, router, handler, method and publisher, a command  *)
(* comes out on the topic its control is labelled with, as a message of    *)
(* the type that topic was created with.                                   *)
Wired ==
  \A h \in Handlers : InFlight(h) /\ req[h].stage = "published" =>
    LET c == Command(req[h].control) IN
    PublisherOn[c.field] = On(Meant[req[h].control], c.type)

(* Every request that a handler has begun is answered, or ended with the   *)
(* process, also when a signal has stopped the spin goroutine.             *)
Answered == \A h \in Handlers : InFlight(h) ~> ~InFlight(h)

\* Go runs every goroutine that can run.
HandlerFairness ==
  \A h \in Handlers : WF_service(Publish(h) \/ PublishFails(h)) /\ WF_service(Answer(h))
=============================================================================
