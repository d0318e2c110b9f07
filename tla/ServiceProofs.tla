---------------------------- MODULE ServiceProofs ----------------------------
(***************************************************************************)
(* Proofs about Service, for any number of handlers, boots and requests.   *)
(***************************************************************************)
EXTENDS Service, TLAPS

(* There are eleven publishers, and each name occurs in the creation.      *)
LEMMA CreationNames ==
  /\ Len(Creation) = 11
  /\ \A i \in 1 .. 11 : Creation[i] \in DOMAIN PublisherOn
  /\ DOMAIN PublisherOn \subseteq {Creation[i] : i \in 1 .. 11}
BY DEF Creation, PublisherOn

(* Read through all the tables, a control has a publisher, on the topic    *)
(* the control is labelled with and of the type of its message.            *)
LEMMA Wiring ==
  ASSUME NEW control \in Controls
  PROVE  /\ Command(control).field \in DOMAIN PublisherOn
         /\ PublisherOn[Command(control).field]
              = On(Meant[control], Command(control).type)
<1> USE DEF CallOf, Command, HandlerOf, RouteOf, Router, MethodOf, Publishes,
            Via, On, PublisherOn, Meant
<1>1. CASE control = "StartMotion"
  BY <1>1
<1>2. CASE control = "ResetMotion"
  BY <1>2
<1>3. CASE control = "Catch"
  BY <1>3
<1>4. CASE control = "Release"
  BY <1>4
<1>5. CASE control = "Down"
  BY <1>5
<1>6. CASE control = "Middle"
  BY <1>6
<1>7. CASE control = "Up"
  BY <1>7
<1>8. CASE control = "ZPlus"
  BY <1>8
<1>9. CASE control = "ZMinus"
  BY <1>9
<1>10. CASE control = "Arrow"
  BY <1>10
<1>11. CASE control = "Block"
  BY <1>11
<1>12. CASE control = "GoalForm"
  BY <1>12
<1>13. CASE control = "SendJoints"
  BY <1>13
<1> QED
  BY <1>1, <1>2, <1>3, <1>4, <1>5, <1>6, <1>7, <1>8, <1>9, <1>10, <1>11, <1>12, <1>13 DEF Controls

-----------------------------------------------------------------------------
(* Every step keeps the types, and nothing spins before main has come to   *)
(* the server.                                                             *)
THEOREM TypeCorrect == Spec => []TypeOK
<1> USE ServiceAssumption
<1>1. ASSUME Init PROVE TypeOK
  <2>1. req \in [Handlers -> Request \cup {Free}]
    BY <1>1 DEF Init, NoRequest
  <2>2. 0 \in 0 .. Len(Creation) /\ 0 \in 0 .. MaxBoots /\ 0 \in 0 .. MaxRequests
    BY CreationNames
  <2>3. frame \in BOOLEAN /\ ~frame
    BY <1>1, Zenon DEF Init
  <2>4. /\ proc = "off" /\ made = 0 /\ open = {} /\ tried = {} /\ subs = {}
        /\ spin = "none" /\ boots = 0 /\ requests = 0
    BY <1>1 DEF Init
  <2> QED
    BY <2>1, <2>2, <2>3, <2>4 DEF TypeOK
<1>2. TypeOK /\ [ServiceNext]_service => TypeOK'
  <2> SUFFICES ASSUME TypeOK, [ServiceNext]_service PROVE TypeOK'
    OBVIOUS
  <2> USE DEF entities
  <2>1. ASSUME Ends PROVE TypeOK'
    <3>1. req' \in [Handlers -> Request \cup {Free}]
      BY <2>1 DEF Ends, NoRequest
    <3>2. 0 \in 0 .. Len(Creation)
      BY CreationNames
    <3>3. frame' \in BOOLEAN /\ ~frame'
      BY <2>1, Zenon DEF Ends
    <3>4. /\ proc' = "off" /\ made' = 0 /\ open' = {} /\ tried' = {} /\ subs' = {}
          /\ spin' = "none" /\ UNCHANGED <<boots, requests>>
      BY <2>1 DEF Ends
    <3> QED
      BY <3>1, <3>2, <3>3, <3>4 DEF TypeOK
  <2>2. CASE Launch
    BY <2>2 DEF Launch, TypeOK
  <2>3. CASE CreatePublisher
    BY <2>3, CreationNames DEF CreatePublisher, TypeOK
  <2>4. ASSUME NEW t \in ImageTopics, Subscribe(t) PROVE TypeOK'
    BY <2>4 DEF Subscribe, TypeOK
  <2>5. CASE StartSpin
    BY <2>5 DEF StartSpin, TypeOK
  <2>6. CASE Listen
    BY <2>6 DEF Listen, TypeOK
  <2>7. CASE Frame
    <3>1. frame' \in BOOLEAN
      BY <2>7 DEF Frame
    <3> QED
      BY <2>7, <3>1 DEF Frame, TypeOK
  <2>8. CASE SignalStopsSpin
    BY <2>8 DEF SignalStopsSpin, TypeOK
  <2>9. CASE CreateFails \/ RunFails \/ SignalEarly \/ Killed
    BY <2>1, <2>9 DEF CreateFails, RunFails, SignalEarly, Killed
  <2>10. ASSUME NEW h \in Handlers, NEW control \in Controls, Accept(h, control)
         PROVE TypeOK'
    <3>1. req' \in [Handlers -> Request \cup {Free}]
      BY <2>10 DEF Accept, TypeOK, Request
    <3> QED
      BY <2>10, <3>1 DEF Accept, TypeOK
  <2>11. ASSUME NEW h \in Handlers, Publish(h) \/ PublishFails(h) PROVE TypeOK'
    <3>1. req[h] \in Request
      BY <2>11 DEF Publish, PublishFails, Called, InFlight, TypeOK
    <3>2. req' \in [Handlers -> Request \cup {Free}]
      BY <2>11, <3>1 DEF Publish, PublishFails, TypeOK, Request
    <3> QED
      BY <2>11, <3>2 DEF Publish, PublishFails, TypeOK
  <2>12. ASSUME NEW h \in Handlers, Answer(h) PROVE TypeOK'
    BY <2>12 DEF Answer, TypeOK
  <2>13. CASE UNCHANGED service
    BY <2>13 DEF service, TypeOK
  <2> QED
    BY <2>2, <2>3, <2>4, <2>5, <2>6, <2>7, <2>8, <2>9, <2>10, <2>11, <2>12, <2>13
       DEF ServiceNext, StartUp
<1> QED
  BY <1>1, <1>2, PTL DEF Spec

-----------------------------------------------------------------------------
(* The publishers are open that start-up has created so far; a server has  *)
(* them all, and only a server has requests.                               *)
LEMMA StepKeepsStartUp ==
  ASSUME TypeOK, StartUpInv, [ServiceNext]_service
  PROVE  StartUpInv'
<1> USE DEF entities
<1>1. ASSUME Ends PROVE StartUpInv'
  <2>1. {Creation[i] : i \in 1 .. 0} = {}
    OBVIOUS
  <2>2. \A h \in Handlers : ~InFlight(h)'
    BY <1>1 DEF Ends, NoRequest, InFlight
  <2> QED
    BY <1>1, <2>1, <2>2 DEF Ends, StartUpInv
<1>2. CASE Launch
  BY <1>2 DEF Launch, StartUpInv, InFlight
<1>3. CASE CreatePublisher
  <2>1. made \in 0 .. 11 /\ made' = made + 1 /\ tried = {}
    BY <1>3, CreationNames DEF CreatePublisher, TypeOK, StartUpInv
  <2>2. 1 .. made' = (1 .. made) \cup {made + 1}
    BY <2>1
  <2>3. open' = {Creation[i] : i \in 1 .. made'}
    BY <1>3, <2>2 DEF CreatePublisher, StartUpInv
  <2> QED
    BY <1>3, <2>1, <2>3 DEF CreatePublisher, StartUpInv, InFlight
<1>4. ASSUME NEW t \in ImageTopics, Subscribe(t) PROVE StartUpInv'
  BY <1>4 DEF Subscribe, StartUpInv, InFlight
<1>5. CASE StartSpin
  BY <1>5 DEF StartSpin, StartUpInv, InFlight, ImageTopics
<1>6. CASE Listen
  BY <1>6 DEF Listen, StartUpInv, InFlight
<1>7. CASE Frame
  BY <1>7 DEF Frame, StartUpInv, InFlight
<1>8. CASE SignalStopsSpin
  BY <1>8 DEF SignalStopsSpin, StartUpInv, InFlight
<1>9. CASE CreateFails \/ RunFails \/ SignalEarly \/ Killed
  BY <1>1, <1>9 DEF CreateFails, RunFails, SignalEarly, Killed
<1>10. ASSUME NEW h \in Handlers, NEW control \in Controls, Accept(h, control)
       PROVE StartUpInv'
  BY <1>10 DEF Accept, StartUpInv, InFlight
<1>11. ASSUME NEW h \in Handlers, Publish(h) \/ PublishFails(h) PROVE StartUpInv'
  <2>1. proc = "serving"
    BY <1>11 DEF Publish, PublishFails, Called, StartUpInv
  <2> QED
    BY <1>11, <2>1 DEF Publish, PublishFails, StartUpInv
<1>12. ASSUME NEW h \in Handlers, Answer(h) PROVE StartUpInv'
  <2>1. proc = "serving"
    BY <1>12 DEF Answer, StartUpInv
  <2> QED
    BY <1>12, <2>1 DEF Answer, StartUpInv
<1>13. CASE UNCHANGED service
  BY <1>13 DEF service, StartUpInv, InFlight
<1> QED
  BY <1>2, <1>3, <1>4, <1>5, <1>6, <1>7, <1>8, <1>9, <1>10, <1>11, <1>12, <1>13
     DEF ServiceNext, StartUp

THEOREM StartUpCorrect == Spec => []StartUpInv
<1>1. Init => StartUpInv
  <2>1. {Creation[i] : i \in 1 .. 0} = {}
    OBVIOUS
  <2> QED
    BY <2>1 DEF Init, StartUpInv, NoRequest, InFlight
<1>2. TypeOK /\ StartUpInv /\ [ServiceNext]_service => StartUpInv'
  BY StepKeepsStartUp
<1> QED
  BY <1>1, <1>2, TypeCorrect, PTL DEF Spec

(* A request in flight has its publisher, and that publisher is open.      *)
THEOREM PublishersLiveAlways == Spec => []PublishersLive
<1>1. TypeOK /\ StartUpInv => PublishersLive
  <2> SUFFICES ASSUME TypeOK, StartUpInv, NEW h \in Handlers, InFlight(h)
               PROVE  Command(req[h].control).field \in open
    BY DEF PublishersLive
  <2>1. req[h].control \in Controls
    BY DEF TypeOK, Request, InFlight
  <2>2. open = {Creation[i] : i \in 1 .. 11}
    BY CreationNames DEF StartUpInv
  <2> QED
    BY <2>1, <2>2, Wiring, CreationNames
<1> QED
  BY <1>1, TypeCorrect, StartUpCorrect, PTL

(* A command that has been published is on the topic its control is        *)
(* labelled with, and of that topic's type.                                *)
THEOREM WiredAlways == Spec => []Wired
<1>1. TypeOK => Wired
  <2> SUFFICES ASSUME TypeOK, NEW h \in Handlers, InFlight(h) PROVE req[h].control \in Controls
    BY Wiring DEF Wired
  <2> QED
    BY DEF TypeOK, Request, InFlight
<1> QED
  BY <1>1, TypeCorrect, PTL
=============================================================================
