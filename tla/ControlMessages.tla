-------------------------- MODULE ControlMessages ---------------------------
(***************************************************************************)
(* Layouts of generated messages: control of robots and their hardware. A  *)
(* definition stands for its .gen.go file from the struct to AsGoStruct:   *)
(* the struct, New, Clone, SetDefaults, the typed publisher and            *)
(* subscription, and the two conversions, which all go over these fields   *)
(* with the operators of RosMessage.                                       *)
(***************************************************************************)
EXTENDS CoreMessages

\* ackermann_msgs

ackermann_msgs_msg_AckermannDrive ==
    Message([SteeringAngle |-> Plain, SteeringAngleVelocity |-> Plain,
             Speed |-> Plain, Acceleration |-> Plain, Jerk |-> Plain])

ackermann_msgs_msg_AckermannDriveStamped ==
    Message([Header |-> std_msgs_msg_Header,
             Drive |-> ackermann_msgs_msg_AckermannDrive])

\* action_msgs

action_msgs_msg_GoalInfo ==
    Message([GoalId |-> unique_identifier_msgs_msg_UUID,
             Stamp |-> builtin_interfaces_msg_Time])

action_msgs_msg_GoalStatus ==
    Message([GoalInfo |-> action_msgs_msg_GoalInfo, Status |-> Plain])

action_msgs_msg_GoalStatusArray ==
    Message([StatusList |-> Slice(action_msgs_msg_GoalStatus)])

action_msgs_srv_CancelGoal_Request ==
    Message([GoalInfo |-> action_msgs_msg_GoalInfo])

action_msgs_srv_CancelGoal_Response ==
    Message([ReturnCode |-> Plain,
             GoalsCanceling |-> Slice(action_msgs_msg_GoalInfo)])

\* actionlib_msgs

actionlib_msgs_msg_GoalID ==
    Message([Stamp |-> builtin_interfaces_msg_Time, Id |-> Str])

actionlib_msgs_msg_GoalStatus ==
    Message([GoalId |-> actionlib_msgs_msg_GoalID, Status |-> Plain,
             Text |-> Str])

actionlib_msgs_msg_GoalStatusArray ==
    Message([Header |-> std_msgs_msg_Header,
             StatusList |-> Slice(actionlib_msgs_msg_GoalStatus)])

\* actuator_msgs

actuator_msgs_msg_Actuators ==
    Message([Header |-> std_msgs_msg_Header, Position |-> Slice(Plain),
             Velocity |-> Slice(Plain), Normalized |-> Slice(Plain)])

actuator_msgs_msg_ActuatorsAngularPosition ==
    Message([Position |-> Slice(Plain)])

actuator_msgs_msg_ActuatorsAngularVelocity ==
    Message([Velocity |-> Slice(Plain)])

actuator_msgs_msg_ActuatorsLinearPosition ==
    Message([Position |-> Slice(Plain)])

actuator_msgs_msg_ActuatorsLinearVelocity ==
    Message([Velocity |-> Slice(Plain)])

actuator_msgs_msg_ActuatorsNormalized ==
    Message([Header |-> std_msgs_msg_Header, Normalized |-> Slice(Plain)])

actuator_msgs_msg_ActuatorsPosition ==
    Message([Header |-> std_msgs_msg_Header,
             Angular |-> actuator_msgs_msg_ActuatorsAngularPosition,
             Linear |-> actuator_msgs_msg_ActuatorsLinearPosition])

actuator_msgs_msg_ActuatorsVelocity ==
    Message([Header |-> std_msgs_msg_Header,
             Angular |-> actuator_msgs_msg_ActuatorsAngularVelocity,
             Linear |-> actuator_msgs_msg_ActuatorsLinearVelocity])

\* control_msgs

control_msgs_action_FollowJointTrajectory_Feedback ==
    Message([Header |-> std_msgs_msg_Header, JointNames |-> Slice(Str),
             Desired |-> trajectory_msgs_msg_JointTrajectoryPoint,
             Actual |-> trajectory_msgs_msg_JointTrajectoryPoint,
             Error |-> trajectory_msgs_msg_JointTrajectoryPoint,
             MultiDofJointNames |-> Slice(Str),
             MultiDofDesired |-> trajectory_msgs_msg_MultiDOFJointTrajectoryPoint,
             MultiDofActual |-> trajectory_msgs_msg_MultiDOFJointTrajectoryPoint,
             MultiDofError |-> trajectory_msgs_msg_MultiDOFJointTrajectoryPoint])

control_msgs_action_FollowJointTrajectory_FeedbackMessage ==
    Message([GoalID |-> unique_identifier_msgs_msg_UUID,
             Feedback |-> control_msgs_action_FollowJointTrajectory_Feedback])

control_msgs_action_FollowJointTrajectory_GetResult_Request ==
    Message([GoalID |-> unique_identifier_msgs_msg_UUID])

control_msgs_action_FollowJointTrajectory_Result ==
    Message([ErrorCode |-> Plain, ErrorString |-> Str])

control_msgs_action_FollowJointTrajectory_GetResult_Response ==
    Message([Status |-> Plain,
             Result |-> control_msgs_action_FollowJointTrajectory_Result])

control_msgs_msg_JointTolerance ==
    Message([Name |-> Str, Position |-> Plain, Velocity |-> Plain,
             Acceleration |-> Plain])

control_msgs_msg_JointComponentTolerance ==
    Message([JointName |-> Str, Component |-> Plain, Position |-> Plain,
             Velocity |-> Plain, Acceleration |-> Plain])

control_msgs_action_FollowJointTrajectory_Goal ==
    Message([Trajectory |-> trajectory_msgs_msg_JointTrajectory,
             MultiDofTrajectory |-> trajectory_msgs_msg_MultiDOFJointTrajectory,
             PathTolerance |-> Slice(control_msgs_msg_JointTolerance),
             ComponentPathTolerance |-> Slice(control_msgs_msg_JointComponentTolerance),
             GoalTolerance |-> Slice(control_msgs_msg_JointTolerance),
             ComponentGoalTolerance |-> Slice(control_msgs_msg_JointComponentTolerance),
             GoalTimeTolerance |-> builtin_interfaces_msg_Duration])

control_msgs_action_FollowJointTrajectory_SendGoal_Request ==
    Message([GoalID |-> unique_identifier_msgs_msg_UUID,
             Goal |-> control_msgs_action_FollowJointTrajectory_Goal])

control_msgs_action_FollowJointTrajectory_SendGoal_Response ==
    Message([Accepted |-> Plain, Stamp |-> builtin_interfaces_msg_Time])

control_msgs_action_GripperCommand_Feedback ==
    Message([Position |-> Plain, Effort |-> Plain, Stalled |-> Plain,
             ReachedGoal |-> Plain])

control_msgs_action_GripperCommand_FeedbackMessage ==
    Message([GoalID |-> unique_identifier_msgs_msg_UUID,
             Feedback |-> control_msgs_action_GripperCommand_Feedback])

control_msgs_action_GripperCommand_GetResult_Request ==
    Message([GoalID |-> unique_identifier_msgs_msg_UUID])

control_msgs_action_GripperCommand_Result ==
    Message([Position |-> Plain, Effort |-> Plain, Stalled |-> Plain,
             ReachedGoal |-> Plain])

control_msgs_action_GripperCommand_GetResult_Response ==
    Message([Status |-> Plain,
             Result |-> control_msgs_action_GripperCommand_Result])

control_msgs_msg_GripperCommand ==
    Message([Position |-> Plain, MaxEffort |-> Plain])

control_msgs_action_GripperCommand_Goal ==
    Message([Command |-> control_msgs_msg_GripperCommand])

control_msgs_action_GripperCommand_SendGoal_Request ==
    Message([GoalID |-> unique_identifier_msgs_msg_UUID,
             Goal |-> control_msgs_action_GripperCommand_Goal])

control_msgs_action_GripperCommand_SendGoal_Response ==
    Message([Accepted |-> Plain, Stamp |-> builtin_interfaces_msg_Time])

control_msgs_action_JointTrajectory_Feedback == Empty

control_msgs_action_JointTrajectory_FeedbackMessage ==
    Message([GoalID |-> unique_identifier_msgs_msg_UUID,
             Feedback |-> control_msgs_action_JointTrajectory_Feedback])

control_msgs_action_JointTrajectory_GetResult_Request ==
    Message([GoalID |-> unique_identifier_msgs_msg_UUID])

control_msgs_action_JointTrajectory_Result == Empty

control_msgs_action_JointTrajectory_GetResult_Response ==
    Message([Status |-> Plain,
             Result |-> control_msgs_action_JointTrajectory_Result])

control_msgs_action_JointTrajectory_Goal ==
    Message([Trajectory |-> trajectory_msgs_msg_JointTrajectory])

control_msgs_action_JointTrajectory_SendGoal_Request ==
    Message([GoalID |-> unique_identifier_msgs_msg_UUID,
             Goal |-> control_msgs_action_JointTrajectory_Goal])

control_msgs_action_JointTrajectory_SendGoal_Response ==
    Message([Accepted |-> Plain, Stamp |-> builtin_interfaces_msg_Time])

control_msgs_action_ParallelGripperCommand_Feedback ==
    Message([State |-> sensor_msgs_msg_JointState])

control_msgs_action_ParallelGripperCommand_FeedbackMessage ==
    Message([GoalID |-> unique_identifier_msgs_msg_UUID,
             Feedback |-> control_msgs_action_ParallelGripperCommand_Feedback])

control_msgs_action_ParallelGripperCommand_GetResult_Request ==
    Message([GoalID |-> unique_identifier_msgs_msg_UUID])

control_msgs_action_ParallelGripperCommand_Result ==
    Message([State |-> sensor_msgs_msg_JointState, Stalled |-> Plain,
             ReachedGoal |-> Plain])

control_msgs_action_ParallelGripperCommand_GetResult_Response ==
    Message([Status |-> Plain,
             Result |-> control_msgs_action_ParallelGripperCommand_Result])

control_msgs_action_ParallelGripperCommand_Goal ==
    Message([Command |-> sensor_msgs_msg_JointState])

control_msgs_action_ParallelGripperCommand_SendGoal_Request ==
    Message([GoalID |-> unique_identifier_msgs_msg_UUID,
             Goal |-> control_msgs_action_ParallelGripperCommand_Goal])

control_msgs_action_ParallelGripperCommand_SendGoal_Response ==
    Message([Accepted |-> Plain, Stamp |-> builtin_interfaces_msg_Time])

control_msgs_action_PointHead_Feedback ==
    Message([PointingAngleError |-> Plain])

control_msgs_action_PointHead_FeedbackMessage ==
    Message([GoalID |-> unique_identifier_msgs_msg_UUID,
             Feedback |-> control_msgs_action_PointHead_Feedback])

control_msgs_action_PointHead_GetResult_Request ==
    Message([GoalID |-> unique_identifier_msgs_msg_UUID])

control_msgs_action_PointHead_Result == Empty

control_msgs_action_PointHead_GetResult_Response ==
    Message([Status |-> Plain,
             Result |-> control_msgs_action_PointHead_Result])

control_msgs_action_PointHead_Goal ==
    Message([Target |-> geometry_msgs_msg_PointStamped,
             PointingAxis |-> geometry_msgs_msg_Vector3,
             PointingFrame |-> Str,
             MinDuration |-> builtin_interfaces_msg_Duration,
             MaxVelocity |-> Plain])

control_msgs_action_PointHead_SendGoal_Request ==
    Message([GoalID |-> unique_identifier_msgs_msg_UUID,
             Goal |-> control_msgs_action_PointHead_Goal])

control_msgs_action_PointHead_SendGoal_Response ==
    Message([Accepted |-> Plain, Stamp |-> builtin_interfaces_msg_Time])

control_msgs_action_SingleJointPosition_Feedback ==
    Message([Header |-> std_msgs_msg_Header, Position |-> Plain,
             Velocity |-> Plain, Error |-> Plain])

control_msgs_action_SingleJointPosition_FeedbackMessage ==
    Message([GoalID |-> unique_identifier_msgs_msg_UUID,
             Feedback |-> control_msgs_action_SingleJointPosition_Feedback])

control_msgs_action_SingleJointPosition_GetResult_Request ==
    Message([GoalID |-> unique_identifier_msgs_msg_UUID])

control_msgs_action_SingleJointPosition_Result == Empty

control_msgs_action_SingleJointPosition_GetResult_Response ==
    Message([Status |-> Plain,
             Result |-> control_msgs_action_SingleJointPosition_Result])

control_msgs_action_SingleJointPosition_Goal ==
    Message([Position |-> Plain,
             MinDuration |-> builtin_interfaces_msg_Duration,
             MaxVelocity |-> Plain])

control_msgs_action_SingleJointPosition_SendGoal_Request ==
    Message([GoalID |-> unique_identifier_msgs_msg_UUID,
             Goal |-> control_msgs_action_SingleJointPosition_Goal])

control_msgs_action_SingleJointPosition_SendGoal_Response ==
    Message([Accepted |-> Plain, Stamp |-> builtin_interfaces_msg_Time])

control_msgs_msg_AdmittanceControllerState ==
    Message([Mass |-> std_msgs_msg_Float64MultiArray,
             Damping |-> std_msgs_msg_Float64MultiArray,
             Stiffness |-> std_msgs_msg_Float64MultiArray,
             RotBaseControl |-> geometry_msgs_msg_Quaternion,
             RefTransBaseFt |-> geometry_msgs_msg_TransformStamped,
             SelectedAxes |-> std_msgs_msg_Int8MultiArray,
             FtSensorFrame |-> std_msgs_msg_String,
             AdmittancePosition |-> geometry_msgs_msg_TransformStamped,
             AdmittanceAcceleration |-> geometry_msgs_msg_TwistStamped,
             AdmittanceVelocity |-> geometry_msgs_msg_TwistStamped,
             WrenchBase |-> geometry_msgs_msg_WrenchStamped,
             JointState |-> sensor_msgs_msg_JointState])

control_msgs_msg_InterfaceValue ==
    Message([InterfaceNames |-> Slice(Str), Values |-> Slice(Plain)])

control_msgs_msg_DynamicInterfaceGroupValues ==
    Message([Header |-> std_msgs_msg_Header, InterfaceGroups |-> Slice(Str),
             InterfaceValues |-> Slice(control_msgs_msg_InterfaceValue)])

control_msgs_msg_DynamicJointState ==
    Message([Header |-> std_msgs_msg_Header, JointNames |-> Slice(Str),
             InterfaceValues |-> Slice(control_msgs_msg_InterfaceValue)])

control_msgs_msg_JointControllerState ==
    Message([Header |-> std_msgs_msg_Header, SetPoint |-> Plain,
             ProcessValue |-> Plain, ProcessValueDot |-> Plain,
             Error |-> Plain, TimeStep |-> Plain, Command |-> Plain,
             P |-> Plain, I |-> Plain, D |-> Plain, IClamp |-> Plain,
             Antiwindup |-> Plain])

control_msgs_msg_JointJog ==
    Message([Header |-> std_msgs_msg_Header, JointNames |-> Slice(Str),
             Displacements |-> Slice(Plain), Velocities |-> Slice(Plain),
             Duration |-> Plain])

control_msgs_msg_JointTrajectoryControllerState ==
    Message([Header |-> std_msgs_msg_Header, JointNames |-> Slice(Str),
             Reference |-> trajectory_msgs_msg_JointTrajectoryPoint,
             Feedback |-> trajectory_msgs_msg_JointTrajectoryPoint,
             Error |-> trajectory_msgs_msg_JointTrajectoryPoint,
             Output |-> trajectory_msgs_msg_JointTrajectoryPoint,
             Desired |-> trajectory_msgs_msg_JointTrajectoryPoint,
             Actual |-> trajectory_msgs_msg_JointTrajectoryPoint,
             MultiDofJointNames |-> Slice(Str),
             MultiDofReference |-> trajectory_msgs_msg_MultiDOFJointTrajectoryPoint,
             MultiDofFeedback |-> trajectory_msgs_msg_MultiDOFJointTrajectoryPoint,
             MultiDofError |-> trajectory_msgs_msg_MultiDOFJointTrajectoryPoint,
             MultiDofOutput |-> trajectory_msgs_msg_MultiDOFJointTrajectoryPoint,
             MultiDofDesired |-> trajectory_msgs_msg_MultiDOFJointTrajectoryPoint,
             MultiDofActual |-> trajectory_msgs_msg_MultiDOFJointTrajectoryPoint])

control_msgs_msg_MecanumDriveControllerState ==
    Message([Header |-> std_msgs_msg_Header, FrontLeftWheelVelocity |-> Plain,
             BackLeftWheelVelocity |-> Plain,
             BackRightWheelVelocity |-> Plain,
             FrontRightWheelVelocity |-> Plain,
             ReferenceVelocity |-> geometry_msgs_msg_Twist])

control_msgs_msg_MultiDOFCommand ==
    Message([DofNames |-> Slice(Str), Values |-> Slice(Plain),
             ValuesDot |-> Slice(Plain)])

control_msgs_msg_SingleDOFState ==
    Message([Name |-> Str, Reference |-> Plain, Feedback |-> Plain,
             FeedbackDot |-> Plain, Error |-> Plain, ErrorDot |-> Plain,
             TimeStep |-> Plain, Output |-> Plain])

control_msgs_msg_MultiDOFStateStamped ==
    Message([Header |-> std_msgs_msg_Header,
             DofStates |-> Slice(control_msgs_msg_SingleDOFState)])

control_msgs_msg_PidState ==
    Message([Header |-> std_msgs_msg_Header,
             Timestep |-> builtin_interfaces_msg_Duration, Error |-> Plain,
             ErrorDot |-> Plain, PError |-> Plain, IError |-> Plain,
             DError |-> Plain, PTerm |-> Plain, ITerm |-> Plain,
             DTerm |-> Plain, IMax |-> Plain, IMin |-> Plain,
             Output |-> Plain])

control_msgs_msg_SingleDOFStateStamped ==
    Message([Header |-> std_msgs_msg_Header,
             DofState |-> control_msgs_msg_SingleDOFState])

control_msgs_msg_SteeringControllerStatus ==
    Message([Header |-> std_msgs_msg_Header,
             TractionWheelsPosition |-> Slice(Plain),
             TractionWheelsVelocity |-> Slice(Plain),
             SteerPositions |-> Slice(Plain),
             LinearVelocityCommand |-> Slice(Plain),
             SteeringAngleCommand |-> Slice(Plain)])

control_msgs_srv_QueryCalibrationState_Request == Empty

control_msgs_srv_QueryCalibrationState_Response ==
    Message([IsCalibrated |-> Plain])

control_msgs_srv_QueryTrajectoryState_Request ==
    Message([Time |-> builtin_interfaces_msg_Time])

control_msgs_srv_QueryTrajectoryState_Response ==
    Message([Success |-> Plain, Message |-> Str, Name |-> Slice(Str),
             Position |-> Slice(Plain), Velocity |-> Slice(Plain),
             Acceleration |-> Slice(Plain)])

\* controller_manager_msgs

controller_manager_msgs_msg_ChainConnection ==
    Message([Name |-> Str, ReferenceInterfaces |-> Slice(Str)])

controller_manager_msgs_msg_ControllerState ==
    Message([Name |-> Str, State |-> Str, Type |-> Str,
             ClaimedInterfaces |-> Slice(Str),
             RequiredCommandInterfaces |-> Slice(Str),
             RequiredStateInterfaces |-> Slice(Str), IsChainable |-> Plain,
             IsChained |-> Plain, ReferenceInterfaces |-> Slice(Str),
             ChainConnections |-> Slice(controller_manager_msgs_msg_ChainConnection)])

controller_manager_msgs_msg_HardwareInterface ==
    Message([Name |-> Str, IsAvailable |-> Plain, IsClaimed |-> Plain])

controller_manager_msgs_msg_HardwareComponentState ==
    Message([Name |-> Str, Type |-> Str, ClassType |-> Str,
             State |-> lifecycle_msgs_msg_State,
             CommandInterfaces |-> Slice(controller_manager_msgs_msg_HardwareInterface),
             StateInterfaces |-> Slice(controller_manager_msgs_msg_HardwareInterface)])

controller_manager_msgs_srv_ConfigureController_Request ==
    Message([Name |-> Str])

controller_manager_msgs_srv_ConfigureController_Response ==
    Message([Ok |-> Plain])

controller_manager_msgs_srv_ListControllerTypes_Request == Empty

controller_manager_msgs_srv_ListControllerTypes_Response ==
    Message([Types |-> Slice(Str), BaseClasses |-> Slice(Str)])

controller_manager_msgs_srv_ListControllers_Request == Empty

controller_manager_msgs_srv_ListControllers_Response ==
    Message([
             Controller |-> Slice(controller_manager_msgs_msg_ControllerState)])

controller_manager_msgs_srv_ListHardwareComponents_Request == Empty

controller_manager_msgs_srv_ListHardwareComponents_Response ==
    Message([
             Component |-> Slice(controller_manager_msgs_msg_HardwareComponentState)])

controller_manager_msgs_srv_ListHardwareInterfaces_Request == Empty

controller_manager_msgs_srv_ListHardwareInterfaces_Response ==
    Message([
             CommandInterfaces |-> Slice(controller_manager_msgs_msg_HardwareInterface),
             StateInterfaces |-> Slice(controller_manager_msgs_msg_HardwareInterface)])

controller_manager_msgs_srv_LoadController_Request == Message([Name |-> Str])

controller_manager_msgs_srv_LoadController_Response == Message([Ok |-> Plain])

controller_manager_msgs_srv_ReloadControllerLibraries_Request ==
    Message([ForceKill |-> Plain])

controller_manager_msgs_srv_ReloadControllerLibraries_Response ==
    Message([Ok |-> Plain])

controller_manager_msgs_srv_SetHardwareComponentState_Request ==
    Message([Name |-> Str, TargetState |-> lifecycle_msgs_msg_State])

controller_manager_msgs_srv_SetHardwareComponentState_Response ==
    Message([Ok |-> Plain, State |-> lifecycle_msgs_msg_State])

controller_manager_msgs_srv_SwitchController_Request ==
    Message([ActivateControllers |-> Slice(Str),
             DeactivateControllers |-> Slice(Str),
             StartControllers |-> Slice(Str), StopControllers |-> Slice(Str),
             Strictness |-> Plain, StartAsap |-> Plain,
             ActivateAsap |-> Plain,
             Timeout |-> builtin_interfaces_msg_Duration])

controller_manager_msgs_srv_SwitchController_Response ==
    Message([Ok |-> Plain])

controller_manager_msgs_srv_UnloadController_Request ==
    Message([Name |-> Str])

controller_manager_msgs_srv_UnloadController_Response ==
    Message([Ok |-> Plain])

\* diagnostic_msgs

diagnostic_msgs_msg_KeyValue == Message([Key |-> Str, Value |-> Str])

diagnostic_msgs_msg_DiagnosticStatus ==
    Message([Level |-> Plain, Name |-> Str, Message |-> Str,
             HardwareId |-> Str,
             Values |-> Slice(diagnostic_msgs_msg_KeyValue)])

diagnostic_msgs_msg_DiagnosticArray ==
    Message([Header |-> std_msgs_msg_Header,
             Status |-> Slice(diagnostic_msgs_msg_DiagnosticStatus)])

diagnostic_msgs_srv_AddDiagnostics_Request == Message([LoadNamespace |-> Str])

diagnostic_msgs_srv_AddDiagnostics_Response ==
    Message([Success |-> Plain, Message |-> Str])

diagnostic_msgs_srv_SelfTest_Request == Empty

diagnostic_msgs_srv_SelfTest_Response ==
    Message([Id |-> Str, Passed |-> Plain,
             Status |-> Slice(diagnostic_msgs_msg_DiagnosticStatus)])

\* gps_msgs

gps_msgs_msg_GPSStatus ==
    Message([Header |-> std_msgs_msg_Header, SatellitesUsed |-> Plain,
             SatelliteUsedPrn |-> Slice(Plain), SatellitesVisible |-> Plain,
             SatelliteVisiblePrn |-> Slice(Plain),
             SatelliteVisibleZ |-> Slice(Plain),
             SatelliteVisibleAzimuth |-> Slice(Plain),
             SatelliteVisibleSnr |-> Slice(Plain), Status |-> Plain,
             MotionSource |-> Plain, OrientationSource |-> Plain,
             PositionSource |-> Plain])

gps_msgs_msg_GPSFix ==
    Message([Header |-> std_msgs_msg_Header,
             Status |-> gps_msgs_msg_GPSStatus, Latitude |-> Plain,
             Longitude |-> Plain, Altitude |-> Plain, Track |-> Plain,
             Speed |-> Plain, Climb |-> Plain, Pitch |-> Plain,
             Roll |-> Plain, Dip |-> Plain, Time |-> Plain, Gdop |-> Plain,
             Pdop |-> Plain, Hdop |-> Plain, Vdop |-> Plain, Tdop |-> Plain,
             Err |-> Plain, ErrHorz |-> Plain, ErrVert |-> Plain,
             ErrTrack |-> Plain, ErrSpeed |-> Plain, ErrClimb |-> Plain,
             ErrTime |-> Plain, ErrPitch |-> Plain, ErrRoll |-> Plain,
             ErrDip |-> Plain, PositionCovariance |-> Array(Plain, 9),
             PositionCovarianceType |-> Plain])

\* Every layout of this module; types of one layout are one element.
ControlLayouts ==
    {ackermann_msgs_msg_AckermannDrive,
     ackermann_msgs_msg_AckermannDriveStamped, action_msgs_msg_GoalInfo,
     action_msgs_msg_GoalStatus, action_msgs_msg_GoalStatusArray,
     action_msgs_srv_CancelGoal_Request, action_msgs_srv_CancelGoal_Response,
     actionlib_msgs_msg_GoalID, actionlib_msgs_msg_GoalStatus,
     actionlib_msgs_msg_GoalStatusArray, actuator_msgs_msg_Actuators,
     actuator_msgs_msg_ActuatorsAngularPosition,
     actuator_msgs_msg_ActuatorsAngularVelocity,
     actuator_msgs_msg_ActuatorsLinearPosition,
     actuator_msgs_msg_ActuatorsLinearVelocity,
     actuator_msgs_msg_ActuatorsNormalized,
     actuator_msgs_msg_ActuatorsPosition, actuator_msgs_msg_ActuatorsVelocity,
     control_msgs_action_FollowJointTrajectory_Feedback,
     control_msgs_action_FollowJointTrajectory_FeedbackMessage,
     control_msgs_action_FollowJointTrajectory_GetResult_Request,
     control_msgs_action_FollowJointTrajectory_GetResult_Response,
     control_msgs_action_FollowJointTrajectory_Goal,
     control_msgs_action_FollowJointTrajectory_Result,
     control_msgs_action_FollowJointTrajectory_SendGoal_Request,
     control_msgs_action_FollowJointTrajectory_SendGoal_Response,
     control_msgs_action_GripperCommand_Feedback,
     control_msgs_action_GripperCommand_FeedbackMessage,
     control_msgs_action_GripperCommand_GetResult_Request,
     control_msgs_action_GripperCommand_GetResult_Response,
     control_msgs_action_GripperCommand_Goal,
     control_msgs_action_GripperCommand_Result,
     control_msgs_action_GripperCommand_SendGoal_Request,
     control_msgs_action_GripperCommand_SendGoal_Response,
     control_msgs_action_JointTrajectory_Feedback,
     control_msgs_action_JointTrajectory_FeedbackMessage,
     control_msgs_action_JointTrajectory_GetResult_Request,
     control_msgs_action_JointTrajectory_GetResult_Response,
     control_msgs_action_JointTrajectory_Goal,
     control_msgs_action_JointTrajectory_Result,
     control_msgs_action_JointTrajectory_SendGoal_Request,
     control_msgs_action_JointTrajectory_SendGoal_Response,
     control_msgs_action_ParallelGripperCommand_Feedback,
     control_msgs_action_ParallelGripperCommand_FeedbackMessage,
     control_msgs_action_ParallelGripperCommand_GetResult_Request,
     control_msgs_action_ParallelGripperCommand_GetResult_Response,
     control_msgs_action_ParallelGripperCommand_Goal,
     control_msgs_action_ParallelGripperCommand_Result,
     control_msgs_action_ParallelGripperCommand_SendGoal_Request,
     control_msgs_action_ParallelGripperCommand_SendGoal_Response,
     control_msgs_action_PointHead_Feedback,
     control_msgs_action_PointHead_FeedbackMessage,
     control_msgs_action_PointHead_GetResult_Request,
     control_msgs_action_PointHead_GetResult_Response,
     control_msgs_action_PointHead_Goal, control_msgs_action_PointHead_Result,
     control_msgs_action_PointHead_SendGoal_Request,
     control_msgs_action_PointHead_SendGoal_Response,
     control_msgs_action_SingleJointPosition_Feedback,
     control_msgs_action_SingleJointPosition_FeedbackMessage,
     control_msgs_action_SingleJointPosition_GetResult_Request,
     control_msgs_action_SingleJointPosition_GetResult_Response,
     control_msgs_action_SingleJointPosition_Goal,
     control_msgs_action_SingleJointPosition_Result,
     control_msgs_action_SingleJointPosition_SendGoal_Request,
     control_msgs_action_SingleJointPosition_SendGoal_Response,
     control_msgs_msg_AdmittanceControllerState,
     control_msgs_msg_DynamicInterfaceGroupValues,
     control_msgs_msg_DynamicJointState, control_msgs_msg_GripperCommand,
     control_msgs_msg_InterfaceValue,
     control_msgs_msg_JointComponentTolerance,
     control_msgs_msg_JointControllerState, control_msgs_msg_JointJog,
     control_msgs_msg_JointTolerance,
     control_msgs_msg_JointTrajectoryControllerState,
     control_msgs_msg_MecanumDriveControllerState,
     control_msgs_msg_MultiDOFCommand, control_msgs_msg_MultiDOFStateStamped,
     control_msgs_msg_PidState, control_msgs_msg_SingleDOFState,
     control_msgs_msg_SingleDOFStateStamped,
     control_msgs_msg_SteeringControllerStatus,
     control_msgs_srv_QueryCalibrationState_Request,
     control_msgs_srv_QueryCalibrationState_Response,
     control_msgs_srv_QueryTrajectoryState_Request,
     control_msgs_srv_QueryTrajectoryState_Response,
     controller_manager_msgs_msg_ChainConnection,
     controller_manager_msgs_msg_ControllerState,
     controller_manager_msgs_msg_HardwareComponentState,
     controller_manager_msgs_msg_HardwareInterface,
     controller_manager_msgs_srv_ConfigureController_Request,
     controller_manager_msgs_srv_ConfigureController_Response,
     controller_manager_msgs_srv_ListControllerTypes_Request,
     controller_manager_msgs_srv_ListControllerTypes_Response,
     controller_manager_msgs_srv_ListControllers_Request,
     controller_manager_msgs_srv_ListControllers_Response,
     controller_manager_msgs_srv_ListHardwareComponents_Request,
     controller_manager_msgs_srv_ListHardwareComponents_Response,
     controller_manager_msgs_srv_ListHardwareInterfaces_Request,
     controller_manager_msgs_srv_ListHardwareInterfaces_Response,
     controller_manager_msgs_srv_LoadController_Request,
     controller_manager_msgs_srv_LoadController_Response,
     controller_manager_msgs_srv_ReloadControllerLibraries_Request,
     controller_manager_msgs_srv_ReloadControllerLibraries_Response,
     controller_manager_msgs_srv_SetHardwareComponentState_Request,
     controller_manager_msgs_srv_SetHardwareComponentState_Response,
     controller_manager_msgs_srv_SwitchController_Request,
     controller_manager_msgs_srv_SwitchController_Response,
     controller_manager_msgs_srv_UnloadController_Request,
     controller_manager_msgs_srv_UnloadController_Response,
     diagnostic_msgs_msg_DiagnosticArray,
     diagnostic_msgs_msg_DiagnosticStatus, diagnostic_msgs_msg_KeyValue,
     diagnostic_msgs_srv_AddDiagnostics_Request,
     diagnostic_msgs_srv_AddDiagnostics_Response,
     diagnostic_msgs_srv_SelfTest_Request,
     diagnostic_msgs_srv_SelfTest_Response, gps_msgs_msg_GPSFix,
     gps_msgs_msg_GPSStatus}
=============================================================================
