---------------------------- MODULE ToolMessages ----------------------------
(***************************************************************************)
(* Layouts of generated messages: tools, simulators and demonstrations. A  *)
(* definition stands for its .gen.go file from the struct to AsGoStruct:   *)
(* the struct, New, Clone, SetDefaults, the typed publisher and            *)
(* subscription, and the two conversions, which all go over these fields   *)
(* with the operators of RosMessage.                                       *)
(***************************************************************************)
EXTENDS CoreMessages

\* action_tutorials_interfaces

action_tutorials_interfaces_action_Fibonacci_Feedback ==
    Message([PartialSequence |-> Slice(Plain)])

action_tutorials_interfaces_action_Fibonacci_FeedbackMessage ==
    Message([GoalID |-> unique_identifier_msgs_msg_UUID,
             Feedback |-> action_tutorials_interfaces_action_Fibonacci_Feedback])

action_tutorials_interfaces_action_Fibonacci_GetResult_Request ==
    Message([GoalID |-> unique_identifier_msgs_msg_UUID])

action_tutorials_interfaces_action_Fibonacci_Result ==
    Message([Sequence |-> Slice(Plain)])

action_tutorials_interfaces_action_Fibonacci_GetResult_Response ==
    Message([Status |-> Plain,
             Result |-> action_tutorials_interfaces_action_Fibonacci_Result])

action_tutorials_interfaces_action_Fibonacci_Goal ==
    Message([Order |-> Plain])

action_tutorials_interfaces_action_Fibonacci_SendGoal_Request ==
    Message([GoalID |-> unique_identifier_msgs_msg_UUID,
             Goal |-> action_tutorials_interfaces_action_Fibonacci_Goal])

action_tutorials_interfaces_action_Fibonacci_SendGoal_Response ==
    Message([Accepted |-> Plain, Stamp |-> builtin_interfaces_msg_Time])

\* composition_interfaces

composition_interfaces_srv_ListNodes_Request == Empty

composition_interfaces_srv_ListNodes_Response ==
    Message([FullNodeNames |-> Slice(Str), UniqueIds |-> Slice(Plain)])

composition_interfaces_srv_LoadNode_Request ==
    Message([PackageName |-> Str, PluginName |-> Str, NodeName |-> Str,
             NodeNamespace |-> Str, LogLevel |-> Plain,
             RemapRules |-> Slice(Str),
             Parameters |-> Slice(rcl_interfaces_msg_Parameter),
             ExtraArguments |-> Slice(rcl_interfaces_msg_Parameter)])

composition_interfaces_srv_LoadNode_Response ==
    Message([Success |-> Plain, ErrorMessage |-> Str, FullNodeName |-> Str,
             UniqueId |-> Plain])

composition_interfaces_srv_UnloadNode_Request == Message([UniqueId |-> Plain])

composition_interfaces_srv_UnloadNode_Response ==
    Message([Success |-> Plain, ErrorMessage |-> Str])

\* example_interfaces

example_interfaces_action_Fibonacci_Feedback ==
    Message([Sequence |-> Slice(Plain)])

example_interfaces_action_Fibonacci_FeedbackMessage ==
    Message([GoalID |-> unique_identifier_msgs_msg_UUID,
             Feedback |-> example_interfaces_action_Fibonacci_Feedback])

example_interfaces_action_Fibonacci_GetResult_Request ==
    Message([GoalID |-> unique_identifier_msgs_msg_UUID])

example_interfaces_action_Fibonacci_Result ==
    Message([Sequence |-> Slice(Plain)])

example_interfaces_action_Fibonacci_GetResult_Response ==
    Message([Status |-> Plain,
             Result |-> example_interfaces_action_Fibonacci_Result])

example_interfaces_action_Fibonacci_Goal == Message([Order |-> Plain])

example_interfaces_action_Fibonacci_SendGoal_Request ==
    Message([GoalID |-> unique_identifier_msgs_msg_UUID,
             Goal |-> example_interfaces_action_Fibonacci_Goal])

example_interfaces_action_Fibonacci_SendGoal_Response ==
    Message([Accepted |-> Plain, Stamp |-> builtin_interfaces_msg_Time])

example_interfaces_msg_Bool == Message([Data |-> Plain])

example_interfaces_msg_Byte == Message([Data |-> Plain])

example_interfaces_msg_MultiArrayLayout ==
    Message([Dim |-> Slice(std_msgs_msg_MultiArrayDimension),
             DataOffset |-> Plain])

example_interfaces_msg_ByteMultiArray ==
    Message([Layout |-> example_interfaces_msg_MultiArrayLayout,
             Data |-> Slice(Plain)])

example_interfaces_msg_Char == Message([Data |-> Plain])

example_interfaces_msg_Empty == Empty

example_interfaces_msg_Float32 == Message([Data |-> Plain])

example_interfaces_msg_Float32MultiArray ==
    Message([Layout |-> example_interfaces_msg_MultiArrayLayout,
             Data |-> Slice(Plain)])

example_interfaces_msg_Float64 == Message([Data |-> Plain])

example_interfaces_msg_Float64MultiArray ==
    Message([Layout |-> example_interfaces_msg_MultiArrayLayout,
             Data |-> Slice(Plain)])

example_interfaces_msg_Int16 == Message([Data |-> Plain])

example_interfaces_msg_Int16MultiArray ==
    Message([Layout |-> example_interfaces_msg_MultiArrayLayout,
             Data |-> Slice(Plain)])

example_interfaces_msg_Int32 == Message([Data |-> Plain])

example_interfaces_msg_Int32MultiArray ==
    Message([Layout |-> example_interfaces_msg_MultiArrayLayout,
             Data |-> Slice(Plain)])

example_interfaces_msg_Int64 == Message([Data |-> Plain])

example_interfaces_msg_Int64MultiArray ==
    Message([Layout |-> example_interfaces_msg_MultiArrayLayout,
             Data |-> Slice(Plain)])

example_interfaces_msg_Int8 == Message([Data |-> Plain])

example_interfaces_msg_Int8MultiArray ==
    Message([Layout |-> example_interfaces_msg_MultiArrayLayout,
             Data |-> Slice(Plain)])

example_interfaces_msg_MultiArrayDimension ==
    Message([Label |-> Str, Size |-> Plain, Stride |-> Plain])

example_interfaces_msg_String == Message([Data |-> Str])

example_interfaces_msg_UInt16 == Message([Data |-> Plain])

example_interfaces_msg_UInt16MultiArray ==
    Message([Layout |-> example_interfaces_msg_MultiArrayLayout,
             Data |-> Slice(Plain)])

example_interfaces_msg_UInt32 == Message([Data |-> Plain])

example_interfaces_msg_UInt32MultiArray ==
    Message([Layout |-> example_interfaces_msg_MultiArrayLayout,
             Data |-> Slice(Plain)])

example_interfaces_msg_UInt64 == Message([Data |-> Plain])

example_interfaces_msg_UInt64MultiArray ==
    Message([Layout |-> example_interfaces_msg_MultiArrayLayout,
             Data |-> Slice(Plain)])

example_interfaces_msg_UInt8 == Message([Data |-> Plain])

example_interfaces_msg_UInt8MultiArray ==
    Message([Layout |-> example_interfaces_msg_MultiArrayLayout,
             Data |-> Slice(Plain)])

example_interfaces_msg_WString == Message([Data |-> Str])

example_interfaces_srv_AddTwoInts_Request ==
    Message([A |-> Plain, B |-> Plain])

example_interfaces_srv_AddTwoInts_Response == Message([Sum |-> Plain])

example_interfaces_srv_SetBool_Request == Message([Data |-> Plain])

example_interfaces_srv_SetBool_Response ==
    Message([Success |-> Plain, Message |-> Str])

example_interfaces_srv_Trigger_Request == Empty

example_interfaces_srv_Trigger_Response ==
    Message([Success |-> Plain, Message |-> Str])

\* logging_demo

logging_demo_srv_ConfigLogger_Request ==
    Message([LoggerName |-> Str, Level |-> Str])

logging_demo_srv_ConfigLogger_Response == Message([Success |-> Plain])

\* pendulum_msgs

pendulum_msgs_msg_JointCommand == Message([Position |-> Plain])

pendulum_msgs_msg_JointState ==
    Message([Position |-> Plain, Velocity |-> Plain, Effort |-> Plain])

pendulum_msgs_msg_RttestResults ==
    Message([Stamp |-> builtin_interfaces_msg_Time,
             Command |-> pendulum_msgs_msg_JointCommand,
             State |-> pendulum_msgs_msg_JointState, CurLatency |-> Plain,
             MeanLatency |-> Plain, MinLatency |-> Plain,
             MaxLatency |-> Plain, MinorPagefaults |-> Plain,
             MajorPagefaults |-> Plain])

\* rmw_dds_common

rmw_dds_common_msg_Gid == Message([Data |-> Array(Plain, 24)])

rmw_dds_common_msg_NodeEntitiesInfo ==
    Message([NodeNamespace |-> Str, NodeName |-> Str,
             ReaderGidSeq |-> Slice(rmw_dds_common_msg_Gid),
             WriterGidSeq |-> Slice(rmw_dds_common_msg_Gid)])

rmw_dds_common_msg_ParticipantEntitiesInfo ==
    Message([Gid |-> rmw_dds_common_msg_Gid,
             NodeEntitiesInfoSeq |-> Slice(rmw_dds_common_msg_NodeEntitiesInfo)])

\* ros_gz_interfaces

ros_gz_interfaces_msg_Altimeter ==
    Message([Header |-> std_msgs_msg_Header, VerticalPosition |-> Plain,
             VerticalVelocity |-> Plain, VerticalReference |-> Plain])

ros_gz_interfaces_msg_Entity ==
    Message([Id |-> Plain, Name |-> Str, Type |-> Plain])

ros_gz_interfaces_msg_JointWrench ==
    Message([Header |-> std_msgs_msg_Header,
             Body1Name |-> std_msgs_msg_String,
             Body1Id |-> std_msgs_msg_UInt32,
             Body2Name |-> std_msgs_msg_String,
             Body2Id |-> std_msgs_msg_UInt32,
             Body1Wrench |-> geometry_msgs_msg_Wrench,
             Body2Wrench |-> geometry_msgs_msg_Wrench])

ros_gz_interfaces_msg_Contact ==
    Message([Collision1 |-> ros_gz_interfaces_msg_Entity,
             Collision2 |-> ros_gz_interfaces_msg_Entity,
             Positions |-> Slice(geometry_msgs_msg_Vector3),
             Normals |-> Slice(geometry_msgs_msg_Vector3),
             Depths |-> Slice(Plain),
             Wrenches |-> Slice(ros_gz_interfaces_msg_JointWrench)])

ros_gz_interfaces_msg_Contacts ==
    Message([Header |-> std_msgs_msg_Header,
             Contacts |-> Slice(ros_gz_interfaces_msg_Contact)])

ros_gz_interfaces_msg_Dataframe ==
    Message([Header |-> std_msgs_msg_Header, SrcAddress |-> Str,
             DstAddress |-> Str, Data |-> Slice(Plain), Rssi |-> Plain])

ros_gz_interfaces_msg_EntityFactory ==
    Message([Name |-> Str, AllowRenaming |-> Plain, Sdf |-> Str,
             SdfFilename |-> Str, CloneName |-> Str,
             Pose |-> geometry_msgs_msg_Pose, RelativeTo |-> Default(Str)])

ros_gz_interfaces_msg_EntityWrench ==
    Message([Header |-> std_msgs_msg_Header,
             Entity |-> ros_gz_interfaces_msg_Entity,
             Wrench |-> geometry_msgs_msg_Wrench])

ros_gz_interfaces_msg_Float32Array == Message([Data |-> Slice(Plain)])

ros_gz_interfaces_msg_TrackVisual ==
    Message([Header |-> std_msgs_msg_Header, Name |-> Str, Id |-> Plain,
             InheritOrientation |-> Plain, MinDist |-> Plain,
             MaxDist |-> Plain, IsStatic |-> Plain, UseModelFrame |-> Plain,
             Xyz |-> geometry_msgs_msg_Vector3, InheritYaw |-> Plain])

ros_gz_interfaces_msg_GuiCamera ==
    Message([Header |-> std_msgs_msg_Header, Name |-> Str,
             ViewController |-> Str, Pose |-> geometry_msgs_msg_Pose,
             Track |-> ros_gz_interfaces_msg_TrackVisual,
             ProjectionType |-> Str])

ros_gz_interfaces_msg_Light ==
    Message([Header |-> std_msgs_msg_Header, Name |-> Str, Type |-> Plain,
             Pose |-> geometry_msgs_msg_Pose,
             Diffuse |-> std_msgs_msg_ColorRGBA,
             Specular |-> std_msgs_msg_ColorRGBA,
             AttenuationConstant |-> Plain, AttenuationLinear |-> Plain,
             AttenuationQuadratic |-> Plain,
             Direction |-> geometry_msgs_msg_Vector3, Range |-> Plain,
             CastShadows |-> Plain, SpotInnerAngle |-> Plain,
             SpotOuterAngle |-> Plain, SpotFalloff |-> Plain, Id |-> Plain,
             ParentId |-> Plain, Intensity |-> Plain])

ros_gz_interfaces_msg_MaterialColor ==
    Message([Header |-> std_msgs_msg_Header,
             Entity |-> ros_gz_interfaces_msg_Entity,
             Ambient |-> std_msgs_msg_ColorRGBA,
             Diffuse |-> std_msgs_msg_ColorRGBA,
             Specular |-> std_msgs_msg_ColorRGBA,
             Emissive |-> std_msgs_msg_ColorRGBA, Shininess |-> Plain,
             EntityMatch |-> Plain])

ros_gz_interfaces_msg_ParamVec ==
    Message([Header |-> std_msgs_msg_Header,
             Params |-> Slice(rcl_interfaces_msg_Parameter)])

ros_gz_interfaces_msg_SensorNoise ==
    Message([Header |-> std_msgs_msg_Header, Type |-> Plain, Mean |-> Plain,
             Stddev |-> Plain, BiasMean |-> Plain, BiasStddev |-> Plain,
             Precision |-> Plain, DynamicBiasStddev |-> Plain,
             DynamicBiasCorrelationTime |-> Plain])

ros_gz_interfaces_msg_StringVec ==
    Message([Header |-> std_msgs_msg_Header, Data |-> Slice(Str)])

ros_gz_interfaces_msg_VideoRecord ==
    Message([Header |-> std_msgs_msg_Header, Start |-> Plain, Stop |-> Plain,
             Format |-> Str, SaveFilename |-> Str])

ros_gz_interfaces_msg_WorldReset ==
    Message([All |-> Plain, TimeOnly |-> Plain, ModelOnly |-> Plain])

ros_gz_interfaces_msg_WorldControl ==
    Message([Pause |-> Plain, Step |-> Plain, MultiStep |-> Plain,
             Reset |-> ros_gz_interfaces_msg_WorldReset, Seed |-> Plain,
             RunToSimTime |-> builtin_interfaces_msg_Time])

ros_gz_interfaces_srv_ControlWorld_Request ==
    Message([WorldControl |-> ros_gz_interfaces_msg_WorldControl])

ros_gz_interfaces_srv_ControlWorld_Response == Message([Success |-> Plain])

ros_gz_interfaces_srv_DeleteEntity_Request ==
    Message([Entity |-> ros_gz_interfaces_msg_Entity])

ros_gz_interfaces_srv_DeleteEntity_Response == Message([Success |-> Plain])

ros_gz_interfaces_srv_SetEntityPose_Request ==
    Message([Entity |-> ros_gz_interfaces_msg_Entity,
             Pose |-> geometry_msgs_msg_Pose])

ros_gz_interfaces_srv_SetEntityPose_Response == Message([Success |-> Plain])

ros_gz_interfaces_srv_SpawnEntity_Request ==
    Message([EntityFactory |-> ros_gz_interfaces_msg_EntityFactory])

ros_gz_interfaces_srv_SpawnEntity_Response == Message([Success |-> Plain])

\* rosbag2_interfaces

rosbag2_interfaces_msg_ReadSplitEvent ==
    Message([ClosedFile |-> Str, OpenedFile |-> Str])

rosbag2_interfaces_msg_WriteSplitEvent ==
    Message([ClosedFile |-> Str, OpenedFile |-> Str])

rosbag2_interfaces_srv_Burst_Request == Message([NumMessages |-> Plain])

rosbag2_interfaces_srv_Burst_Response == Message([ActuallyBurst |-> Plain])

rosbag2_interfaces_srv_GetRate_Request == Empty

rosbag2_interfaces_srv_GetRate_Response == Message([Rate |-> Plain])

rosbag2_interfaces_srv_IsPaused_Request == Empty

rosbag2_interfaces_srv_IsPaused_Response == Message([Paused |-> Plain])

rosbag2_interfaces_srv_Pause_Request == Empty

rosbag2_interfaces_srv_Pause_Response == Empty

rosbag2_interfaces_srv_PlayNext_Request == Empty

rosbag2_interfaces_srv_PlayNext_Response == Message([Success |-> Plain])

rosbag2_interfaces_srv_Resume_Request == Empty

rosbag2_interfaces_srv_Resume_Response == Empty

rosbag2_interfaces_srv_Seek_Request ==
    Message([Time |-> builtin_interfaces_msg_Time])

rosbag2_interfaces_srv_Seek_Response == Message([Success |-> Plain])

rosbag2_interfaces_srv_SetRate_Request == Message([Rate |-> Plain])

rosbag2_interfaces_srv_SetRate_Response == Message([Success |-> Plain])

rosbag2_interfaces_srv_Snapshot_Request == Empty

rosbag2_interfaces_srv_Snapshot_Response == Message([Success |-> Plain])

rosbag2_interfaces_srv_TogglePaused_Request == Empty

rosbag2_interfaces_srv_TogglePaused_Response == Empty

\* rosgraph_msgs

rosgraph_msgs_msg_Clock == Message([Clock |-> builtin_interfaces_msg_Time])

\* statistics_msgs

statistics_msgs_msg_StatisticDataPoint ==
    Message([DataType |-> Plain, Data |-> Plain])

statistics_msgs_msg_MetricsMessage ==
    Message([MeasurementSourceName |-> Str, MetricsSource |-> Str,
             Unit |-> Str, WindowStart |-> builtin_interfaces_msg_Time,
             WindowStop |-> builtin_interfaces_msg_Time,
             Statistics |-> Slice(statistics_msgs_msg_StatisticDataPoint)])

statistics_msgs_msg_StatisticDataType == Empty

\* std_srvs

std_srvs_srv_Empty_Request == Empty

std_srvs_srv_Empty_Response == Empty

std_srvs_srv_SetBool_Request == Message([Data |-> Plain])

std_srvs_srv_SetBool_Response == Message([Success |-> Plain, Message |-> Str])

std_srvs_srv_Trigger_Request == Empty

std_srvs_srv_Trigger_Response == Message([Success |-> Plain, Message |-> Str])

\* turtlesim

turtlesim_action_RotateAbsolute_Feedback == Message([Remaining |-> Plain])

turtlesim_action_RotateAbsolute_FeedbackMessage ==
    Message([GoalID |-> unique_identifier_msgs_msg_UUID,
             Feedback |-> turtlesim_action_RotateAbsolute_Feedback])

turtlesim_action_RotateAbsolute_GetResult_Request ==
    Message([GoalID |-> unique_identifier_msgs_msg_UUID])

turtlesim_action_RotateAbsolute_Result == Message([Delta |-> Plain])

turtlesim_action_RotateAbsolute_GetResult_Response ==
    Message([Status |-> Plain,
             Result |-> turtlesim_action_RotateAbsolute_Result])

turtlesim_action_RotateAbsolute_Goal == Message([Theta |-> Plain])

turtlesim_action_RotateAbsolute_SendGoal_Request ==
    Message([GoalID |-> unique_identifier_msgs_msg_UUID,
             Goal |-> turtlesim_action_RotateAbsolute_Goal])

turtlesim_action_RotateAbsolute_SendGoal_Response ==
    Message([Accepted |-> Plain, Stamp |-> builtin_interfaces_msg_Time])

turtlesim_msg_Color == Message([R |-> Plain, G |-> Plain, B |-> Plain])

turtlesim_msg_Pose ==
    Message([X |-> Plain, Y |-> Plain, Theta |-> Plain,
             LinearVelocity |-> Plain, AngularVelocity |-> Plain])

turtlesim_srv_Kill_Request == Message([Name |-> Str])

turtlesim_srv_Kill_Response == Empty

turtlesim_srv_SetPen_Request ==
    Message([R |-> Plain, G |-> Plain, B |-> Plain, Width |-> Plain,
             Off |-> Plain])

turtlesim_srv_SetPen_Response == Empty

turtlesim_srv_Spawn_Request ==
    Message([X |-> Plain, Y |-> Plain, Theta |-> Plain, Name |-> Str])

turtlesim_srv_Spawn_Response == Message([Name |-> Str])

turtlesim_srv_TeleportAbsolute_Request ==
    Message([X |-> Plain, Y |-> Plain, Theta |-> Plain])

turtlesim_srv_TeleportAbsolute_Response == Empty

turtlesim_srv_TeleportRelative_Request ==
    Message([Linear |-> Plain, Angular |-> Plain])

turtlesim_srv_TeleportRelative_Response == Empty

\* Every layout of this module; types of one layout are one element.
ToolLayouts ==
    {action_tutorials_interfaces_action_Fibonacci_Feedback,
     action_tutorials_interfaces_action_Fibonacci_FeedbackMessage,
     action_tutorials_interfaces_action_Fibonacci_GetResult_Request,
     action_tutorials_interfaces_action_Fibonacci_GetResult_Response,
     action_tutorials_interfaces_action_Fibonacci_Goal,
     action_tutorials_interfaces_action_Fibonacci_Result,
     action_tutorials_interfaces_action_Fibonacci_SendGoal_Request,
     action_tutorials_interfaces_action_Fibonacci_SendGoal_Response,
     composition_interfaces_srv_ListNodes_Request,
     composition_interfaces_srv_ListNodes_Response,
     composition_interfaces_srv_LoadNode_Request,
     composition_interfaces_srv_LoadNode_Response,
     composition_interfaces_srv_UnloadNode_Request,
     composition_interfaces_srv_UnloadNode_Response,
     example_interfaces_action_Fibonacci_Feedback,
     example_interfaces_action_Fibonacci_FeedbackMessage,
     example_interfaces_action_Fibonacci_GetResult_Request,
     example_interfaces_action_Fibonacci_GetResult_Response,
     example_interfaces_action_Fibonacci_Goal,
     example_interfaces_action_Fibonacci_Result,
     example_interfaces_action_Fibonacci_SendGoal_Request,
     example_interfaces_action_Fibonacci_SendGoal_Response,
     example_interfaces_msg_Bool, example_interfaces_msg_Byte,
     example_interfaces_msg_ByteMultiArray, example_interfaces_msg_Char,
     example_interfaces_msg_Empty, example_interfaces_msg_Float32,
     example_interfaces_msg_Float32MultiArray, example_interfaces_msg_Float64,
     example_interfaces_msg_Float64MultiArray, example_interfaces_msg_Int16,
     example_interfaces_msg_Int16MultiArray, example_interfaces_msg_Int32,
     example_interfaces_msg_Int32MultiArray, example_interfaces_msg_Int64,
     example_interfaces_msg_Int64MultiArray, example_interfaces_msg_Int8,
     example_interfaces_msg_Int8MultiArray,
     example_interfaces_msg_MultiArrayDimension,
     example_interfaces_msg_MultiArrayLayout, example_interfaces_msg_String,
     example_interfaces_msg_UInt16, example_interfaces_msg_UInt16MultiArray,
     example_interfaces_msg_UInt32, example_interfaces_msg_UInt32MultiArray,
     example_interfaces_msg_UInt64, example_interfaces_msg_UInt64MultiArray,
     example_interfaces_msg_UInt8, example_interfaces_msg_UInt8MultiArray,
     example_interfaces_msg_WString,
     example_interfaces_srv_AddTwoInts_Request,
     example_interfaces_srv_AddTwoInts_Response,
     example_interfaces_srv_SetBool_Request,
     example_interfaces_srv_SetBool_Response,
     example_interfaces_srv_Trigger_Request,
     example_interfaces_srv_Trigger_Response,
     logging_demo_srv_ConfigLogger_Request,
     logging_demo_srv_ConfigLogger_Response, pendulum_msgs_msg_JointCommand,
     pendulum_msgs_msg_JointState, pendulum_msgs_msg_RttestResults,
     rmw_dds_common_msg_Gid, rmw_dds_common_msg_NodeEntitiesInfo,
     rmw_dds_common_msg_ParticipantEntitiesInfo,
     ros_gz_interfaces_msg_Altimeter, ros_gz_interfaces_msg_Contact,
     ros_gz_interfaces_msg_Contacts, ros_gz_interfaces_msg_Dataframe,
     ros_gz_interfaces_msg_Entity, ros_gz_interfaces_msg_EntityFactory,
     ros_gz_interfaces_msg_EntityWrench, ros_gz_interfaces_msg_Float32Array,
     ros_gz_interfaces_msg_GuiCamera, ros_gz_interfaces_msg_JointWrench,
     ros_gz_interfaces_msg_Light, ros_gz_interfaces_msg_MaterialColor,
     ros_gz_interfaces_msg_ParamVec, ros_gz_interfaces_msg_SensorNoise,
     ros_gz_interfaces_msg_StringVec, ros_gz_interfaces_msg_TrackVisual,
     ros_gz_interfaces_msg_VideoRecord, ros_gz_interfaces_msg_WorldControl,
     ros_gz_interfaces_msg_WorldReset,
     ros_gz_interfaces_srv_ControlWorld_Request,
     ros_gz_interfaces_srv_ControlWorld_Response,
     ros_gz_interfaces_srv_DeleteEntity_Request,
     ros_gz_interfaces_srv_DeleteEntity_Response,
     ros_gz_interfaces_srv_SetEntityPose_Request,
     ros_gz_interfaces_srv_SetEntityPose_Response,
     ros_gz_interfaces_srv_SpawnEntity_Request,
     ros_gz_interfaces_srv_SpawnEntity_Response,
     rosbag2_interfaces_msg_ReadSplitEvent,
     rosbag2_interfaces_msg_WriteSplitEvent,
     rosbag2_interfaces_srv_Burst_Request,
     rosbag2_interfaces_srv_Burst_Response,
     rosbag2_interfaces_srv_GetRate_Request,
     rosbag2_interfaces_srv_GetRate_Response,
     rosbag2_interfaces_srv_IsPaused_Request,
     rosbag2_interfaces_srv_IsPaused_Response,
     rosbag2_interfaces_srv_Pause_Request,
     rosbag2_interfaces_srv_Pause_Response,
     rosbag2_interfaces_srv_PlayNext_Request,
     rosbag2_interfaces_srv_PlayNext_Response,
     rosbag2_interfaces_srv_Resume_Request,
     rosbag2_interfaces_srv_Resume_Response,
     rosbag2_interfaces_srv_Seek_Request,
     rosbag2_interfaces_srv_Seek_Response,
     rosbag2_interfaces_srv_SetRate_Request,
     rosbag2_interfaces_srv_SetRate_Response,
     rosbag2_interfaces_srv_Snapshot_Request,
     rosbag2_interfaces_srv_Snapshot_Response,
     rosbag2_interfaces_srv_TogglePaused_Request,
     rosbag2_interfaces_srv_TogglePaused_Response, rosgraph_msgs_msg_Clock,
     statistics_msgs_msg_MetricsMessage,
     statistics_msgs_msg_StatisticDataPoint,
     statistics_msgs_msg_StatisticDataType, std_srvs_srv_Empty_Request,
     std_srvs_srv_Empty_Response, std_srvs_srv_SetBool_Request,
     std_srvs_srv_SetBool_Response, std_srvs_srv_Trigger_Request,
     std_srvs_srv_Trigger_Response, turtlesim_action_RotateAbsolute_Feedback,
     turtlesim_action_RotateAbsolute_FeedbackMessage,
     turtlesim_action_RotateAbsolute_GetResult_Request,
     turtlesim_action_RotateAbsolute_GetResult_Response,
     turtlesim_action_RotateAbsolute_Goal,
     turtlesim_action_RotateAbsolute_Result,
     turtlesim_action_RotateAbsolute_SendGoal_Request,
     turtlesim_action_RotateAbsolute_SendGoal_Response, turtlesim_msg_Color,
     turtlesim_msg_Pose, turtlesim_srv_Kill_Request,
     turtlesim_srv_Kill_Response, turtlesim_srv_SetPen_Request,
     turtlesim_srv_SetPen_Response, turtlesim_srv_Spawn_Request,
     turtlesim_srv_Spawn_Response, turtlesim_srv_TeleportAbsolute_Request,
     turtlesim_srv_TeleportAbsolute_Response,
     turtlesim_srv_TeleportRelative_Request,
     turtlesim_srv_TeleportRelative_Response}
=============================================================================
