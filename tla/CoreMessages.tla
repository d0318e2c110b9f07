---------------------------- MODULE CoreMessages ----------------------------
(***************************************************************************)
(* Layouts of generated messages: the packages other packages build on,    *)
(* the camera's and the commands' among them. A definition stands for its  *)
(* .gen.go file from the struct to AsGoStruct: the struct, New, Clone,     *)
(* SetDefaults, the typed publisher and subscription, and the two          *)
(* conversions, which all go over these fields with the operators of       *)
(* RosMessage.                                                             *)
(***************************************************************************)
EXTENDS MessageTypes

\* builtin_interfaces

builtin_interfaces_msg_Duration == Message([Sec |-> Plain, Nanosec |-> Plain])

builtin_interfaces_msg_Time == Message([Sec |-> Plain, Nanosec |-> Plain])

\* unique_identifier_msgs

unique_identifier_msgs_msg_UUID == Message([Uuid |-> Array(Plain, 16)])

\* std_msgs

std_msgs_msg_Bool == Message([Data |-> Plain])

std_msgs_msg_Byte == Message([Data |-> Plain])

std_msgs_msg_MultiArrayDimension ==
    Message([Label |-> Str, Size |-> Plain, Stride |-> Plain])

std_msgs_msg_MultiArrayLayout ==
    Message([Dim |-> Slice(std_msgs_msg_MultiArrayDimension),
             DataOffset |-> Plain])

std_msgs_msg_ByteMultiArray ==
    Message([Layout |-> std_msgs_msg_MultiArrayLayout, Data |-> Slice(Plain)])

std_msgs_msg_Char == Message([Data |-> Plain])

std_msgs_msg_ColorRGBA ==
    Message([R |-> Plain, G |-> Plain, B |-> Plain, A |-> Plain])

std_msgs_msg_Empty == Empty

std_msgs_msg_Float32 == Message([Data |-> Plain])

std_msgs_msg_Float32MultiArray ==
    Message([Layout |-> std_msgs_msg_MultiArrayLayout, Data |-> Slice(Plain)])

std_msgs_msg_Float64 == Message([Data |-> Plain])

std_msgs_msg_Float64MultiArray ==
    Message([Layout |-> std_msgs_msg_MultiArrayLayout, Data |-> Slice(Plain)])

std_msgs_msg_Header ==
    Message([Stamp |-> builtin_interfaces_msg_Time, FrameId |-> Str])

std_msgs_msg_Int16 == Message([Data |-> Plain])

std_msgs_msg_Int16MultiArray ==
    Message([Layout |-> std_msgs_msg_MultiArrayLayout, Data |-> Slice(Plain)])

std_msgs_msg_Int32 == Message([Data |-> Plain])

std_msgs_msg_Int32MultiArray ==
    Message([Layout |-> std_msgs_msg_MultiArrayLayout, Data |-> Slice(Plain)])

std_msgs_msg_Int64 == Message([Data |-> Plain])

std_msgs_msg_Int64MultiArray ==
    Message([Layout |-> std_msgs_msg_MultiArrayLayout, Data |-> Slice(Plain)])

std_msgs_msg_Int8 == Message([Data |-> Plain])

std_msgs_msg_Int8MultiArray ==
    Message([Layout |-> std_msgs_msg_MultiArrayLayout, Data |-> Slice(Plain)])

std_msgs_msg_String == Message([Data |-> Str])

std_msgs_msg_UInt16 == Message([Data |-> Plain])

std_msgs_msg_UInt16MultiArray ==
    Message([Layout |-> std_msgs_msg_MultiArrayLayout, Data |-> Slice(Plain)])

std_msgs_msg_UInt32 == Message([Data |-> Plain])

std_msgs_msg_UInt32MultiArray ==
    Message([Layout |-> std_msgs_msg_MultiArrayLayout, Data |-> Slice(Plain)])

std_msgs_msg_UInt64 == Message([Data |-> Plain])

std_msgs_msg_UInt64MultiArray ==
    Message([Layout |-> std_msgs_msg_MultiArrayLayout, Data |-> Slice(Plain)])

std_msgs_msg_UInt8 == Message([Data |-> Plain])

std_msgs_msg_UInt8MultiArray ==
    Message([Layout |-> std_msgs_msg_MultiArrayLayout, Data |-> Slice(Plain)])

\* geometry_msgs

geometry_msgs_msg_Vector3 == Message([X |-> Plain, Y |-> Plain, Z |-> Plain])

geometry_msgs_msg_Accel ==
    Message([Linear |-> geometry_msgs_msg_Vector3,
             Angular |-> geometry_msgs_msg_Vector3])

geometry_msgs_msg_AccelStamped ==
    Message([Header |-> std_msgs_msg_Header,
             Accel |-> geometry_msgs_msg_Accel])

geometry_msgs_msg_AccelWithCovariance ==
    Message([Accel |-> geometry_msgs_msg_Accel,
             Covariance |-> Array(Plain, 36)])

geometry_msgs_msg_AccelWithCovarianceStamped ==
    Message([Header |-> std_msgs_msg_Header,
             Accel |-> geometry_msgs_msg_AccelWithCovariance])

geometry_msgs_msg_Inertia ==
    Message([M |-> Plain, Com |-> geometry_msgs_msg_Vector3, Ixx |-> Plain,
             Ixy |-> Plain, Ixz |-> Plain, Iyy |-> Plain, Iyz |-> Plain,
             Izz |-> Plain])

geometry_msgs_msg_InertiaStamped ==
    Message([Header |-> std_msgs_msg_Header,
             Inertia |-> geometry_msgs_msg_Inertia])

geometry_msgs_msg_Point == Message([X |-> Plain, Y |-> Plain, Z |-> Plain])

geometry_msgs_msg_Point32 == Message([X |-> Plain, Y |-> Plain, Z |-> Plain])

geometry_msgs_msg_PointStamped ==
    Message([Header |-> std_msgs_msg_Header,
             Point |-> geometry_msgs_msg_Point])

geometry_msgs_msg_Polygon ==
    Message([Points |-> Slice(geometry_msgs_msg_Point32)])

geometry_msgs_msg_PolygonInstance ==
    Message([Polygon |-> geometry_msgs_msg_Polygon, Id |-> Plain])

geometry_msgs_msg_PolygonInstanceStamped ==
    Message([Header |-> std_msgs_msg_Header,
             Polygon |-> geometry_msgs_msg_PolygonInstance])

geometry_msgs_msg_PolygonStamped ==
    Message([Header |-> std_msgs_msg_Header,
             Polygon |-> geometry_msgs_msg_Polygon])

geometry_msgs_msg_Quaternion ==
    Message([X |-> Plain, Y |-> Plain, Z |-> Plain, W |-> Default(Plain)])

geometry_msgs_msg_Pose ==
    Message([Position |-> geometry_msgs_msg_Point,
             Orientation |-> geometry_msgs_msg_Quaternion])

geometry_msgs_msg_Pose2D ==
    Message([X |-> Plain, Y |-> Plain, Theta |-> Plain])

geometry_msgs_msg_PoseArray ==
    Message([Header |-> std_msgs_msg_Header,
             Poses |-> Slice(geometry_msgs_msg_Pose)])

geometry_msgs_msg_PoseStamped ==
    Message([Header |-> std_msgs_msg_Header, Pose |-> geometry_msgs_msg_Pose])

geometry_msgs_msg_PoseWithCovariance ==
    Message([Pose |-> geometry_msgs_msg_Pose,
             Covariance |-> Array(Plain, 36)])

geometry_msgs_msg_PoseWithCovarianceStamped ==
    Message([Header |-> std_msgs_msg_Header,
             Pose |-> geometry_msgs_msg_PoseWithCovariance])

geometry_msgs_msg_QuaternionStamped ==
    Message([Header |-> std_msgs_msg_Header,
             Quaternion |-> geometry_msgs_msg_Quaternion])

geometry_msgs_msg_Transform ==
    Message([Translation |-> geometry_msgs_msg_Vector3,
             Rotation |-> geometry_msgs_msg_Quaternion])

geometry_msgs_msg_TransformStamped ==
    Message([Header |-> std_msgs_msg_Header, ChildFrameId |-> Str,
             Transform |-> geometry_msgs_msg_Transform])

geometry_msgs_msg_Twist ==
    Message([Linear |-> geometry_msgs_msg_Vector3,
             Angular |-> geometry_msgs_msg_Vector3])

geometry_msgs_msg_TwistStamped ==
    Message([Header |-> std_msgs_msg_Header,
             Twist |-> geometry_msgs_msg_Twist])

geometry_msgs_msg_TwistWithCovariance ==
    Message([Twist |-> geometry_msgs_msg_Twist,
             Covariance |-> Array(Plain, 36)])

geometry_msgs_msg_TwistWithCovarianceStamped ==
    Message([Header |-> std_msgs_msg_Header,
             Twist |-> geometry_msgs_msg_TwistWithCovariance])

geometry_msgs_msg_Vector3Stamped ==
    Message([Header |-> std_msgs_msg_Header,
             Vector |-> geometry_msgs_msg_Vector3])

geometry_msgs_msg_VelocityStamped ==
    Message([Header |-> std_msgs_msg_Header, BodyFrameId |-> Str,
             ReferenceFrameId |-> Str, Velocity |-> geometry_msgs_msg_Twist])

geometry_msgs_msg_Wrench ==
    Message([Force |-> geometry_msgs_msg_Vector3,
             Torque |-> geometry_msgs_msg_Vector3])

geometry_msgs_msg_WrenchStamped ==
    Message([Header |-> std_msgs_msg_Header,
             Wrench |-> geometry_msgs_msg_Wrench])

\* sensor_msgs

sensor_msgs_msg_BatteryState ==
    Message([Header |-> std_msgs_msg_Header, Voltage |-> Plain,
             Temperature |-> Plain, Current |-> Plain, Charge |-> Plain,
             Capacity |-> Plain, DesignCapacity |-> Plain,
             Percentage |-> Plain, PowerSupplyStatus |-> Plain,
             PowerSupplyHealth |-> Plain, PowerSupplyTechnology |-> Plain,
             Present |-> Plain, CellVoltage |-> Slice(Plain),
             CellTemperature |-> Slice(Plain), Location |-> Str,
             SerialNumber |-> Str])

sensor_msgs_msg_RegionOfInterest ==
    Message([XOffset |-> Plain, YOffset |-> Plain, Height |-> Plain,
             Width |-> Plain, DoRectify |-> Plain])

sensor_msgs_msg_CameraInfo ==
    Message([Header |-> std_msgs_msg_Header, Height |-> Plain,
             Width |-> Plain, DistortionModel |-> Str, D |-> Slice(Plain),
             K |-> Array(Plain, 9), R |-> Array(Plain, 9),
             P |-> Array(Plain, 12), BinningX |-> Plain, BinningY |-> Plain,
             Roi |-> sensor_msgs_msg_RegionOfInterest])

sensor_msgs_msg_ChannelFloat32 ==
    Message([Name |-> Str, Values |-> Slice(Plain)])

sensor_msgs_msg_CompressedImage ==
    Message([Header |-> std_msgs_msg_Header, Format |-> Str,
             Data |-> Slice(Plain)])

sensor_msgs_msg_FluidPressure ==
    Message([Header |-> std_msgs_msg_Header, FluidPressure |-> Plain,
             Variance |-> Plain])

sensor_msgs_msg_Illuminance ==
    Message([Header |-> std_msgs_msg_Header, Illuminance |-> Plain,
             Variance |-> Plain])

sensor_msgs_msg_Image ==
    Message([Header |-> std_msgs_msg_Header, Height |-> Plain,
             Width |-> Plain, Encoding |-> Str, IsBigendian |-> Plain,
             Step |-> Plain, Data |-> Slice(Plain)])

sensor_msgs_msg_Imu ==
    Message([Header |-> std_msgs_msg_Header,
             Orientation |-> geometry_msgs_msg_Quaternion,
             OrientationCovariance |-> Array(Plain, 9),
             AngularVelocity |-> geometry_msgs_msg_Vector3,
             AngularVelocityCovariance |-> Array(Plain, 9),
             LinearAcceleration |-> geometry_msgs_msg_Vector3,
             LinearAccelerationCovariance |-> Array(Plain, 9)])

sensor_msgs_msg_JointState ==
    Message([Header |-> std_msgs_msg_Header, Name |-> Slice(Str),
             Position |-> Slice(Plain), Velocity |-> Slice(Plain),
             Effort |-> Slice(Plain)])

sensor_msgs_msg_Joy ==
    Message([Header |-> std_msgs_msg_Header, Axes |-> Slice(Plain),
             Buttons |-> Slice(Plain)])

sensor_msgs_msg_JoyFeedback ==
    Message([Type |-> Plain, Id |-> Plain, Intensity |-> Plain])

sensor_msgs_msg_JoyFeedbackArray ==
    Message([Array |-> Slice(sensor_msgs_msg_JoyFeedback)])

sensor_msgs_msg_LaserEcho == Message([Echoes |-> Slice(Plain)])

sensor_msgs_msg_LaserScan ==
    Message([Header |-> std_msgs_msg_Header, AngleMin |-> Plain,
             AngleMax |-> Plain, AngleIncrement |-> Plain,
             TimeIncrement |-> Plain, ScanTime |-> Plain, RangeMin |-> Plain,
             RangeMax |-> Plain, Ranges |-> Slice(Plain),
             Intensities |-> Slice(Plain)])

sensor_msgs_msg_MagneticField ==
    Message([Header |-> std_msgs_msg_Header,
             MagneticField |-> geometry_msgs_msg_Vector3,
             MagneticFieldCovariance |-> Array(Plain, 9)])

sensor_msgs_msg_MultiDOFJointState ==
    Message([Header |-> std_msgs_msg_Header, JointNames |-> Slice(Str),
             Transforms |-> Slice(geometry_msgs_msg_Transform),
             Twist |-> Slice(geometry_msgs_msg_Twist),
             Wrench |-> Slice(geometry_msgs_msg_Wrench)])

sensor_msgs_msg_MultiEchoLaserScan ==
    Message([Header |-> std_msgs_msg_Header, AngleMin |-> Plain,
             AngleMax |-> Plain, AngleIncrement |-> Plain,
             TimeIncrement |-> Plain, ScanTime |-> Plain, RangeMin |-> Plain,
             RangeMax |-> Plain, Ranges |-> Slice(sensor_msgs_msg_LaserEcho),
             Intensities |-> Slice(sensor_msgs_msg_LaserEcho)])

sensor_msgs_msg_NavSatStatus == Message([Status |-> Plain, Service |-> Plain])

sensor_msgs_msg_NavSatFix ==
    Message([Header |-> std_msgs_msg_Header,
             Status |-> sensor_msgs_msg_NavSatStatus, Latitude |-> Plain,
             Longitude |-> Plain, Altitude |-> Plain,
             PositionCovariance |-> Array(Plain, 9),
             PositionCovarianceType |-> Plain])

sensor_msgs_msg_PointCloud ==
    Message([Header |-> std_msgs_msg_Header,
             Points |-> Slice(geometry_msgs_msg_Point32),
             Channels |-> Slice(sensor_msgs_msg_ChannelFloat32)])

sensor_msgs_msg_PointField ==
    Message([Name |-> Str, Offset |-> Plain, Datatype |-> Plain,
             Count |-> Plain])

sensor_msgs_msg_PointCloud2 ==
    Message([Header |-> std_msgs_msg_Header, Height |-> Plain,
             Width |-> Plain, Fields |-> Slice(sensor_msgs_msg_PointField),
             IsBigendian |-> Plain, PointStep |-> Plain, RowStep |-> Plain,
             Data |-> Slice(Plain), IsDense |-> Plain])

sensor_msgs_msg_Range ==
    Message([Header |-> std_msgs_msg_Header, RadiationType |-> Plain,
             FieldOfView |-> Plain, MinRange |-> Plain, MaxRange |-> Plain,
             Range |-> Plain])

sensor_msgs_msg_RelativeHumidity ==
    Message([Header |-> std_msgs_msg_Header, RelativeHumidity |-> Plain,
             Variance |-> Plain])

sensor_msgs_msg_Temperature ==
    Message([Header |-> std_msgs_msg_Header, Temperature |-> Plain,
             Variance |-> Plain])

sensor_msgs_msg_TimeReference ==
    Message([Header |-> std_msgs_msg_Header,
             TimeRef |-> builtin_interfaces_msg_Time, Source |-> Str])

sensor_msgs_srv_SetCameraInfo_Request ==
    Message([CameraInfo |-> sensor_msgs_msg_CameraInfo])

sensor_msgs_srv_SetCameraInfo_Response ==
    Message([Success |-> Plain, StatusMessage |-> Str])

\* trajectory_msgs

trajectory_msgs_msg_JointTrajectoryPoint ==
    Message([Positions |-> Slice(Plain), Velocities |-> Slice(Plain),
             Accelerations |-> Slice(Plain), Effort |-> Slice(Plain),
             TimeFromStart |-> builtin_interfaces_msg_Duration])

trajectory_msgs_msg_JointTrajectory ==
    Message([Header |-> std_msgs_msg_Header, JointNames |-> Slice(Str),
             Points |-> Slice(trajectory_msgs_msg_JointTrajectoryPoint)])

trajectory_msgs_msg_MultiDOFJointTrajectoryPoint ==
    Message([Transforms |-> Slice(geometry_msgs_msg_Transform),
             Velocities |-> Slice(geometry_msgs_msg_Twist),
             Accelerations |-> Slice(geometry_msgs_msg_Twist),
             TimeFromStart |-> builtin_interfaces_msg_Duration])

trajectory_msgs_msg_MultiDOFJointTrajectory ==
    Message([Header |-> std_msgs_msg_Header, JointNames |-> Slice(Str),
             Points |-> Slice(trajectory_msgs_msg_MultiDOFJointTrajectoryPoint)])

\* lifecycle_msgs

lifecycle_msgs_msg_State == Message([Id |-> Plain, Label |-> Str])

lifecycle_msgs_msg_Transition == Message([Id |-> Plain, Label |-> Str])

lifecycle_msgs_msg_TransitionDescription ==
    Message([Transition |-> lifecycle_msgs_msg_Transition,
             StartState |-> lifecycle_msgs_msg_State,
             GoalState |-> lifecycle_msgs_msg_State])

lifecycle_msgs_msg_TransitionEvent ==
    Message([Timestamp |-> Plain,
             Transition |-> lifecycle_msgs_msg_Transition,
             StartState |-> lifecycle_msgs_msg_State,
             GoalState |-> lifecycle_msgs_msg_State])

lifecycle_msgs_srv_ChangeState_Request ==
    Message([Transition |-> lifecycle_msgs_msg_Transition])

lifecycle_msgs_srv_ChangeState_Response == Message([Success |-> Plain])

lifecycle_msgs_srv_GetAvailableStates_Request == Empty

lifecycle_msgs_srv_GetAvailableStates_Response ==
    Message([AvailableStates |-> Slice(lifecycle_msgs_msg_State)])

lifecycle_msgs_srv_GetAvailableTransitions_Request == Empty

lifecycle_msgs_srv_GetAvailableTransitions_Response ==
    Message([
             AvailableTransitions |-> Slice(lifecycle_msgs_msg_TransitionDescription)])

lifecycle_msgs_srv_GetState_Request == Empty

lifecycle_msgs_srv_GetState_Response ==
    Message([CurrentState |-> lifecycle_msgs_msg_State])

\* rcl_interfaces

rcl_interfaces_msg_FloatingPointRange ==
    Message([FromValue |-> Plain, ToValue |-> Plain, Step |-> Plain])

rcl_interfaces_msg_IntegerRange ==
    Message([FromValue |-> Plain, ToValue |-> Plain, Step |-> Plain])

rcl_interfaces_msg_ListParametersResult ==
    Message([Names |-> Slice(Str), Prefixes |-> Slice(Str)])

rcl_interfaces_msg_Log ==
    Message([Stamp |-> builtin_interfaces_msg_Time, Level |-> Plain,
             Name |-> Str, Msg |-> Str, File |-> Str, Function |-> Str,
             Line |-> Plain])

rcl_interfaces_msg_ParameterValue ==
    Message([Type |-> Plain, BoolValue |-> Plain, IntegerValue |-> Plain,
             DoubleValue |-> Plain, StringValue |-> Str,
             ByteArrayValue |-> Slice(Plain), BoolArrayValue |-> Slice(Plain),
             IntegerArrayValue |-> Slice(Plain),
             DoubleArrayValue |-> Slice(Plain),
             StringArrayValue |-> Slice(Str)])

rcl_interfaces_msg_Parameter ==
    Message([Name |-> Str, Value |-> rcl_interfaces_msg_ParameterValue])

rcl_interfaces_msg_ParameterDescriptor ==
    Message([Name |-> Str, Type |-> Plain, Description |-> Str,
             AdditionalConstraints |-> Str, ReadOnly |-> Plain,
             DynamicTyping |-> Plain,
             FloatingPointRange |-> Slice(rcl_interfaces_msg_FloatingPointRange),
             IntegerRange |-> Slice(rcl_interfaces_msg_IntegerRange)])

rcl_interfaces_msg_ParameterEvent ==
    Message([Stamp |-> builtin_interfaces_msg_Time, Node |-> Str,
             NewParameters |-> Slice(rcl_interfaces_msg_Parameter),
             ChangedParameters |-> Slice(rcl_interfaces_msg_Parameter),
             DeletedParameters |-> Slice(rcl_interfaces_msg_Parameter)])

rcl_interfaces_msg_ParameterEventDescriptors ==
    Message([NewParameters |-> Slice(rcl_interfaces_msg_ParameterDescriptor),
             ChangedParameters |-> Slice(rcl_interfaces_msg_ParameterDescriptor),
             DeletedParameters |-> Slice(rcl_interfaces_msg_ParameterDescriptor)])

rcl_interfaces_msg_ParameterType == Empty

rcl_interfaces_msg_SetParametersResult ==
    Message([Successful |-> Plain, Reason |-> Str])

rcl_interfaces_srv_DescribeParameters_Request ==
    Message([Names |-> Slice(Str)])

rcl_interfaces_srv_DescribeParameters_Response ==
    Message([Descriptors |-> Slice(rcl_interfaces_msg_ParameterDescriptor)])

rcl_interfaces_srv_GetParameterTypes_Request ==
    Message([Names |-> Slice(Str)])

rcl_interfaces_srv_GetParameterTypes_Response ==
    Message([Types |-> Slice(Plain)])

rcl_interfaces_srv_GetParameters_Request == Message([Names |-> Slice(Str)])

rcl_interfaces_srv_GetParameters_Response ==
    Message([Values |-> Slice(rcl_interfaces_msg_ParameterValue)])

rcl_interfaces_srv_ListParameters_Request ==
    Message([Prefixes |-> Slice(Str), Depth |-> Plain])

rcl_interfaces_srv_ListParameters_Response ==
    Message([Result |-> rcl_interfaces_msg_ListParametersResult])

rcl_interfaces_srv_SetParametersAtomically_Request ==
    Message([Parameters |-> Slice(rcl_interfaces_msg_Parameter)])

rcl_interfaces_srv_SetParametersAtomically_Response ==
    Message([Result |-> rcl_interfaces_msg_SetParametersResult])

rcl_interfaces_srv_SetParameters_Request ==
    Message([Parameters |-> Slice(rcl_interfaces_msg_Parameter)])

rcl_interfaces_srv_SetParameters_Response ==
    Message([Results |-> Slice(rcl_interfaces_msg_SetParametersResult)])

\* Every layout of this module; types of one layout are one element.
CoreLayouts ==
    {builtin_interfaces_msg_Duration,
     builtin_interfaces_msg_Time, geometry_msgs_msg_Accel,
     geometry_msgs_msg_AccelStamped, geometry_msgs_msg_AccelWithCovariance,
     geometry_msgs_msg_AccelWithCovarianceStamped, geometry_msgs_msg_Inertia,
     geometry_msgs_msg_InertiaStamped, geometry_msgs_msg_Point,
     geometry_msgs_msg_Point32, geometry_msgs_msg_PointStamped,
     geometry_msgs_msg_Polygon, geometry_msgs_msg_PolygonInstance,
     geometry_msgs_msg_PolygonInstanceStamped,
     geometry_msgs_msg_PolygonStamped, geometry_msgs_msg_Pose,
     geometry_msgs_msg_Pose2D, geometry_msgs_msg_PoseArray,
     geometry_msgs_msg_PoseStamped, geometry_msgs_msg_PoseWithCovariance,
     geometry_msgs_msg_PoseWithCovarianceStamped,
     geometry_msgs_msg_Quaternion, geometry_msgs_msg_QuaternionStamped,
     geometry_msgs_msg_Transform, geometry_msgs_msg_TransformStamped,
     geometry_msgs_msg_Twist, geometry_msgs_msg_TwistStamped,
     geometry_msgs_msg_TwistWithCovariance,
     geometry_msgs_msg_TwistWithCovarianceStamped, geometry_msgs_msg_Vector3,
     geometry_msgs_msg_Vector3Stamped, geometry_msgs_msg_VelocityStamped,
     geometry_msgs_msg_Wrench, geometry_msgs_msg_WrenchStamped,
     lifecycle_msgs_msg_State, lifecycle_msgs_msg_Transition,
     lifecycle_msgs_msg_TransitionDescription,
     lifecycle_msgs_msg_TransitionEvent,
     lifecycle_msgs_srv_ChangeState_Request,
     lifecycle_msgs_srv_ChangeState_Response,
     lifecycle_msgs_srv_GetAvailableStates_Request,
     lifecycle_msgs_srv_GetAvailableStates_Response,
     lifecycle_msgs_srv_GetAvailableTransitions_Request,
     lifecycle_msgs_srv_GetAvailableTransitions_Response,
     lifecycle_msgs_srv_GetState_Request,
     lifecycle_msgs_srv_GetState_Response,
     rcl_interfaces_msg_FloatingPointRange, rcl_interfaces_msg_IntegerRange,
     rcl_interfaces_msg_ListParametersResult, rcl_interfaces_msg_Log,
     rcl_interfaces_msg_Parameter, rcl_interfaces_msg_ParameterDescriptor,
     rcl_interfaces_msg_ParameterEvent,
     rcl_interfaces_msg_ParameterEventDescriptors,
     rcl_interfaces_msg_ParameterType, rcl_interfaces_msg_ParameterValue,
     rcl_interfaces_msg_SetParametersResult,
     rcl_interfaces_srv_DescribeParameters_Request,
     rcl_interfaces_srv_DescribeParameters_Response,
     rcl_interfaces_srv_GetParameterTypes_Request,
     rcl_interfaces_srv_GetParameterTypes_Response,
     rcl_interfaces_srv_GetParameters_Request,
     rcl_interfaces_srv_GetParameters_Response,
     rcl_interfaces_srv_ListParameters_Request,
     rcl_interfaces_srv_ListParameters_Response,
     rcl_interfaces_srv_SetParametersAtomically_Request,
     rcl_interfaces_srv_SetParametersAtomically_Response,
     rcl_interfaces_srv_SetParameters_Request,
     rcl_interfaces_srv_SetParameters_Response, sensor_msgs_msg_BatteryState,
     sensor_msgs_msg_CameraInfo, sensor_msgs_msg_ChannelFloat32,
     sensor_msgs_msg_CompressedImage, sensor_msgs_msg_FluidPressure,
     sensor_msgs_msg_Illuminance, sensor_msgs_msg_Image, sensor_msgs_msg_Imu,
     sensor_msgs_msg_JointState, sensor_msgs_msg_Joy,
     sensor_msgs_msg_JoyFeedback, sensor_msgs_msg_JoyFeedbackArray,
     sensor_msgs_msg_LaserEcho, sensor_msgs_msg_LaserScan,
     sensor_msgs_msg_MagneticField, sensor_msgs_msg_MultiDOFJointState,
     sensor_msgs_msg_MultiEchoLaserScan, sensor_msgs_msg_NavSatFix,
     sensor_msgs_msg_NavSatStatus, sensor_msgs_msg_PointCloud,
     sensor_msgs_msg_PointCloud2, sensor_msgs_msg_PointField,
     sensor_msgs_msg_Range, sensor_msgs_msg_RegionOfInterest,
     sensor_msgs_msg_RelativeHumidity, sensor_msgs_msg_Temperature,
     sensor_msgs_msg_TimeReference, sensor_msgs_srv_SetCameraInfo_Request,
     sensor_msgs_srv_SetCameraInfo_Response, std_msgs_msg_Bool,
     std_msgs_msg_Byte, std_msgs_msg_ByteMultiArray, std_msgs_msg_Char,
     std_msgs_msg_ColorRGBA, std_msgs_msg_Empty, std_msgs_msg_Float32,
     std_msgs_msg_Float32MultiArray, std_msgs_msg_Float64,
     std_msgs_msg_Float64MultiArray, std_msgs_msg_Header, std_msgs_msg_Int16,
     std_msgs_msg_Int16MultiArray, std_msgs_msg_Int32,
     std_msgs_msg_Int32MultiArray, std_msgs_msg_Int64,
     std_msgs_msg_Int64MultiArray, std_msgs_msg_Int8,
     std_msgs_msg_Int8MultiArray, std_msgs_msg_MultiArrayDimension,
     std_msgs_msg_MultiArrayLayout, std_msgs_msg_String, std_msgs_msg_UInt16,
     std_msgs_msg_UInt16MultiArray, std_msgs_msg_UInt32,
     std_msgs_msg_UInt32MultiArray, std_msgs_msg_UInt64,
     std_msgs_msg_UInt64MultiArray, std_msgs_msg_UInt8,
     std_msgs_msg_UInt8MultiArray, trajectory_msgs_msg_JointTrajectory,
     trajectory_msgs_msg_JointTrajectoryPoint,
     trajectory_msgs_msg_MultiDOFJointTrajectory,
     trajectory_msgs_msg_MultiDOFJointTrajectoryPoint,
     unique_identifier_msgs_msg_UUID}
=============================================================================
