------------------------- MODULE NavigationMessages -------------------------
(***************************************************************************)
(* Layouts of generated messages: maps, perception and display. A          *)
(* definition stands for its .gen.go file from the struct to AsGoStruct:   *)
(* the struct, New, Clone, SetDefaults, the typed publisher and            *)
(* subscription, and the two conversions, which all go over these fields   *)
(* with the operators of RosMessage.                                       *)
(***************************************************************************)
EXTENDS CoreMessages

\* nav_msgs

nav_msgs_msg_Goals ==
    Message([Header |-> std_msgs_msg_Header,
             Goals |-> Slice(geometry_msgs_msg_PoseStamped)])

nav_msgs_msg_GridCells ==
    Message([Header |-> std_msgs_msg_Header, CellWidth |-> Plain,
             CellHeight |-> Plain, Cells |-> Slice(geometry_msgs_msg_Point)])

nav_msgs_msg_MapMetaData ==
    Message([MapLoadTime |-> builtin_interfaces_msg_Time,
             Resolution |-> Plain, Width |-> Plain, Height |-> Plain,
             Origin |-> geometry_msgs_msg_Pose])

nav_msgs_msg_OccupancyGrid ==
    Message([Header |-> std_msgs_msg_Header,
             Info |-> nav_msgs_msg_MapMetaData, Data |-> Slice(Plain)])

nav_msgs_msg_Odometry ==
    Message([Header |-> std_msgs_msg_Header, ChildFrameId |-> Str,
             Pose |-> geometry_msgs_msg_PoseWithCovariance,
             Twist |-> geometry_msgs_msg_TwistWithCovariance])

nav_msgs_msg_Path ==
    Message([Header |-> std_msgs_msg_Header,
             Poses |-> Slice(geometry_msgs_msg_PoseStamped)])

nav_msgs_srv_GetMap_Request == Empty

nav_msgs_srv_GetMap_Response == Message([Map |-> nav_msgs_msg_OccupancyGrid])

nav_msgs_srv_GetPlan_Request ==
    Message([Start |-> geometry_msgs_msg_PoseStamped,
             Goal |-> geometry_msgs_msg_PoseStamped, Tolerance |-> Plain])

nav_msgs_srv_GetPlan_Response == Message([Plan |-> nav_msgs_msg_Path])

nav_msgs_srv_LoadMap_Request == Message([MapUrl |-> Str])

nav_msgs_srv_LoadMap_Response ==
    Message([Map |-> nav_msgs_msg_OccupancyGrid, Result |-> Plain])

nav_msgs_srv_SetMap_Request ==
    Message([Map |-> nav_msgs_msg_OccupancyGrid,
             InitialPose |-> geometry_msgs_msg_PoseWithCovarianceStamped])

nav_msgs_srv_SetMap_Response == Message([Success |-> Plain])

\* map_msgs

map_msgs_msg_OccupancyGridUpdate ==
    Message([Header |-> std_msgs_msg_Header, X |-> Plain, Y |-> Plain,
             Width |-> Plain, Height |-> Plain, Data |-> Slice(Plain)])

map_msgs_msg_PointCloud2Update ==
    Message([Header |-> std_msgs_msg_Header, Type |-> Plain,
             Points |-> sensor_msgs_msg_PointCloud2])

map_msgs_msg_ProjectedMap ==
    Message([Map |-> nav_msgs_msg_OccupancyGrid, MinZ |-> Plain,
             MaxZ |-> Plain])

map_msgs_msg_ProjectedMapInfo ==
    Message([FrameId |-> Str, X |-> Plain, Y |-> Plain, Width |-> Plain,
             Height |-> Plain, MinZ |-> Plain, MaxZ |-> Plain])

map_msgs_srv_GetMapROI_Request ==
    Message([X |-> Plain, Y |-> Plain, LX |-> Plain, LY |-> Plain])

map_msgs_srv_GetMapROI_Response ==
    Message([SubMap |-> nav_msgs_msg_OccupancyGrid])

map_msgs_srv_GetPointMapROI_Request ==
    Message([X |-> Plain, Y |-> Plain, Z |-> Plain, R |-> Plain, LX |-> Plain,
             LY |-> Plain, LZ |-> Plain])

map_msgs_srv_GetPointMapROI_Response ==
    Message([SubMap |-> sensor_msgs_msg_PointCloud2])

map_msgs_srv_GetPointMap_Request == Empty

map_msgs_srv_GetPointMap_Response ==
    Message([Map |-> sensor_msgs_msg_PointCloud2])

map_msgs_srv_ProjectedMapsInfo_Request ==
    Message([ProjectedMapsInfo |-> Slice(map_msgs_msg_ProjectedMapInfo)])

map_msgs_srv_ProjectedMapsInfo_Response == Empty

map_msgs_srv_SaveMap_Request == Message([Filename |-> std_msgs_msg_String])

map_msgs_srv_SaveMap_Response == Empty

map_msgs_srv_SetMapProjections_Request == Empty

map_msgs_srv_SetMapProjections_Response ==
    Message([ProjectedMapsInfo |-> Slice(map_msgs_msg_ProjectedMapInfo)])

\* pcl_msgs

pcl_msgs_msg_ModelCoefficients ==
    Message([Header |-> std_msgs_msg_Header, Values |-> Slice(Plain)])

pcl_msgs_msg_PointIndices ==
    Message([Header |-> std_msgs_msg_Header, Indices |-> Slice(Plain)])

pcl_msgs_msg_Vertices == Message([Vertices |-> Slice(Plain)])

pcl_msgs_msg_PolygonMesh ==
    Message([Header |-> std_msgs_msg_Header,
             Cloud |-> sensor_msgs_msg_PointCloud2,
             Polygons |-> Slice(pcl_msgs_msg_Vertices)])

pcl_msgs_srv_UpdateFilename_Request == Message([Filename |-> Str])

pcl_msgs_srv_UpdateFilename_Response == Message([Success |-> Plain])

\* shape_msgs

shape_msgs_msg_MeshTriangle == Message([VertexIndices |-> Array(Plain, 3)])

shape_msgs_msg_Mesh ==
    Message([Triangles |-> Slice(shape_msgs_msg_MeshTriangle),
             Vertices |-> Slice(geometry_msgs_msg_Point)])

shape_msgs_msg_Plane == Message([Coef |-> Array(Plain, 4)])

shape_msgs_msg_SolidPrimitive ==
    Message([Type |-> Plain, Dimensions |-> Slice(Plain),
             Polygon |-> geometry_msgs_msg_Polygon])

\* stereo_msgs

stereo_msgs_msg_DisparityImage ==
    Message([Header |-> std_msgs_msg_Header, Image |-> sensor_msgs_msg_Image,
             F |-> Plain, T |-> Plain,
             ValidWindow |-> sensor_msgs_msg_RegionOfInterest,
             MinDisparity |-> Plain, MaxDisparity |-> Plain,
             DeltaD |-> Plain])

\* tf2_msgs

tf2_msgs_action_LookupTransform_Feedback == Empty

tf2_msgs_action_LookupTransform_FeedbackMessage ==
    Message([GoalID |-> unique_identifier_msgs_msg_UUID,
             Feedback |-> tf2_msgs_action_LookupTransform_Feedback])

tf2_msgs_action_LookupTransform_GetResult_Request ==
    Message([GoalID |-> unique_identifier_msgs_msg_UUID])

tf2_msgs_msg_TF2Error == Message([Error |-> Plain, ErrorString |-> Str])

tf2_msgs_action_LookupTransform_Result ==
    Message([Transform |-> geometry_msgs_msg_TransformStamped,
             Error |-> tf2_msgs_msg_TF2Error])

tf2_msgs_action_LookupTransform_GetResult_Response ==
    Message([Status |-> Plain,
             Result |-> tf2_msgs_action_LookupTransform_Result])

tf2_msgs_action_LookupTransform_Goal ==
    Message([TargetFrame |-> Str, SourceFrame |-> Str,
             SourceTime |-> builtin_interfaces_msg_Time,
             Timeout |-> builtin_interfaces_msg_Duration,
             TargetTime |-> builtin_interfaces_msg_Time, FixedFrame |-> Str,
             Advanced |-> Plain])

tf2_msgs_action_LookupTransform_SendGoal_Request ==
    Message([GoalID |-> unique_identifier_msgs_msg_UUID,
             Goal |-> tf2_msgs_action_LookupTransform_Goal])

tf2_msgs_action_LookupTransform_SendGoal_Response ==
    Message([Accepted |-> Plain, Stamp |-> builtin_interfaces_msg_Time])

tf2_msgs_msg_TFMessage ==
    Message([Transforms |-> Slice(geometry_msgs_msg_TransformStamped)])

tf2_msgs_srv_FrameGraph_Request == Empty

tf2_msgs_srv_FrameGraph_Response == Message([FrameYaml |-> Str])

\* vision_msgs

vision_msgs_msg_Point2D == Message([X |-> Plain, Y |-> Plain])

vision_msgs_msg_Pose2D ==
    Message([Position |-> vision_msgs_msg_Point2D, Theta |-> Plain])

vision_msgs_msg_BoundingBox2D ==
    Message([Center |-> vision_msgs_msg_Pose2D, SizeX |-> Plain,
             SizeY |-> Plain])

vision_msgs_msg_BoundingBox2DArray ==
    Message([Header |-> std_msgs_msg_Header,
             Boxes |-> Slice(vision_msgs_msg_BoundingBox2D)])

vision_msgs_msg_BoundingBox3D ==
    Message([Center |-> geometry_msgs_msg_Pose,
             Size |-> geometry_msgs_msg_Vector3])

vision_msgs_msg_BoundingBox3DArray ==
    Message([Header |-> std_msgs_msg_Header,
             Boxes |-> Slice(vision_msgs_msg_BoundingBox3D)])

vision_msgs_msg_ObjectHypothesis ==
    Message([ClassId |-> Str, Score |-> Plain])

vision_msgs_msg_Classification ==
    Message([Header |-> std_msgs_msg_Header,
             Results |-> Slice(vision_msgs_msg_ObjectHypothesis)])

vision_msgs_msg_ObjectHypothesisWithPose ==
    Message([Hypothesis |-> vision_msgs_msg_ObjectHypothesis,
             Pose |-> geometry_msgs_msg_PoseWithCovariance])

vision_msgs_msg_Detection2D ==
    Message([Header |-> std_msgs_msg_Header,
             Results |-> Slice(vision_msgs_msg_ObjectHypothesisWithPose),
             Bbox |-> vision_msgs_msg_BoundingBox2D, Id |-> Str])

vision_msgs_msg_Detection2DArray ==
    Message([Header |-> std_msgs_msg_Header,
             Detections |-> Slice(vision_msgs_msg_Detection2D)])

vision_msgs_msg_Detection3D ==
    Message([Header |-> std_msgs_msg_Header,
             Results |-> Slice(vision_msgs_msg_ObjectHypothesisWithPose),
             Bbox |-> vision_msgs_msg_BoundingBox3D, Id |-> Str])

vision_msgs_msg_Detection3DArray ==
    Message([Header |-> std_msgs_msg_Header,
             Detections |-> Slice(vision_msgs_msg_Detection3D)])

vision_msgs_msg_VisionClass == Message([ClassId |-> Plain, ClassName |-> Str])

vision_msgs_msg_LabelInfo ==
    Message([Header |-> std_msgs_msg_Header,
             ClassMap |-> Slice(vision_msgs_msg_VisionClass),
             Threshold |-> Plain])

vision_msgs_msg_VisionInfo ==
    Message([Header |-> std_msgs_msg_Header, Method |-> Str,
             DatabaseLocation |-> Str, DatabaseVersion |-> Plain])

\* visualization_msgs

visualization_msgs_msg_ImageMarker ==
    Message([Header |-> std_msgs_msg_Header, Ns |-> Str, Id |-> Plain,
             Type |-> Plain, Action |-> Plain,
             Position |-> geometry_msgs_msg_Point, Scale |-> Plain,
             OutlineColor |-> std_msgs_msg_ColorRGBA, Filled |-> Plain,
             FillColor |-> std_msgs_msg_ColorRGBA,
             Lifetime |-> builtin_interfaces_msg_Duration,
             Points |-> Slice(geometry_msgs_msg_Point),
             OutlineColors |-> Slice(std_msgs_msg_ColorRGBA)])

visualization_msgs_msg_MenuEntry ==
    Message([Id |-> Plain, ParentId |-> Plain, Title |-> Str, Command |-> Str,
             CommandType |-> Plain])

visualization_msgs_msg_UVCoordinate == Message([U |-> Plain, V |-> Plain])

visualization_msgs_msg_MeshFile ==
    Message([Filename |-> Str, Data |-> Slice(Plain)])

visualization_msgs_msg_Marker ==
    Message([Header |-> std_msgs_msg_Header, Ns |-> Str, Id |-> Plain,
             Type |-> Plain, Action |-> Plain,
             Pose |-> geometry_msgs_msg_Pose,
             Scale |-> geometry_msgs_msg_Vector3,
             Color |-> std_msgs_msg_ColorRGBA,
             Lifetime |-> builtin_interfaces_msg_Duration,
             FrameLocked |-> Plain, Points |-> Slice(geometry_msgs_msg_Point),
             Colors |-> Slice(std_msgs_msg_ColorRGBA),
             TextureResource |-> Str,
             Texture |-> sensor_msgs_msg_CompressedImage,
             UvCoordinates |-> Slice(visualization_msgs_msg_UVCoordinate),
             Text |-> Str, MeshResource |-> Str,
             MeshFile |-> visualization_msgs_msg_MeshFile,
             MeshUseEmbeddedMaterials |-> Plain])

visualization_msgs_msg_InteractiveMarkerControl ==
    Message([Name |-> Str, Orientation |-> geometry_msgs_msg_Quaternion,
             OrientationMode |-> Plain, InteractionMode |-> Plain,
             AlwaysVisible |-> Plain,
             Markers |-> Slice(visualization_msgs_msg_Marker),
             IndependentMarkerOrientation |-> Plain, Description |-> Str])

visualization_msgs_msg_InteractiveMarker ==
    Message([Header |-> std_msgs_msg_Header, Pose |-> geometry_msgs_msg_Pose,
             Name |-> Str, Description |-> Str, Scale |-> Plain,
             MenuEntries |-> Slice(visualization_msgs_msg_MenuEntry),
             Controls |-> Slice(visualization_msgs_msg_InteractiveMarkerControl)])

visualization_msgs_msg_InteractiveMarkerFeedback ==
    Message([Header |-> std_msgs_msg_Header, ClientId |-> Str,
             MarkerName |-> Str, ControlName |-> Str, EventType |-> Plain,
             Pose |-> geometry_msgs_msg_Pose, MenuEntryId |-> Plain,
             MousePoint |-> geometry_msgs_msg_Point,
             MousePointValid |-> Plain])

visualization_msgs_msg_InteractiveMarkerInit ==
    Message([ServerId |-> Str, SeqNum |-> Plain,
             Markers |-> Slice(visualization_msgs_msg_InteractiveMarker)])

visualization_msgs_msg_InteractiveMarkerPose ==
    Message([Header |-> std_msgs_msg_Header, Pose |-> geometry_msgs_msg_Pose,
             Name |-> Str])

visualization_msgs_msg_InteractiveMarkerUpdate ==
    Message([ServerId |-> Str, SeqNum |-> Plain, Type |-> Plain,
             Markers |-> Slice(visualization_msgs_msg_InteractiveMarker),
             Poses |-> Slice(visualization_msgs_msg_InteractiveMarkerPose),
             Erases |-> Slice(Str)])

visualization_msgs_msg_MarkerArray ==
    Message([Markers |-> Slice(visualization_msgs_msg_Marker)])

visualization_msgs_srv_GetInteractiveMarkers_Request == Empty

visualization_msgs_srv_GetInteractiveMarkers_Response ==
    Message([SequenceNumber |-> Plain,
             Markers |-> Slice(visualization_msgs_msg_InteractiveMarker)])

\* Every layout of this module; types of one layout are one element.
NavigationLayouts ==
    {map_msgs_msg_OccupancyGridUpdate,
     map_msgs_msg_PointCloud2Update, map_msgs_msg_ProjectedMap,
     map_msgs_msg_ProjectedMapInfo, map_msgs_srv_GetMapROI_Request,
     map_msgs_srv_GetMapROI_Response, map_msgs_srv_GetPointMapROI_Request,
     map_msgs_srv_GetPointMapROI_Response, map_msgs_srv_GetPointMap_Request,
     map_msgs_srv_GetPointMap_Response,
     map_msgs_srv_ProjectedMapsInfo_Request,
     map_msgs_srv_ProjectedMapsInfo_Response, map_msgs_srv_SaveMap_Request,
     map_msgs_srv_SaveMap_Response, map_msgs_srv_SetMapProjections_Request,
     map_msgs_srv_SetMapProjections_Response, nav_msgs_msg_Goals,
     nav_msgs_msg_GridCells, nav_msgs_msg_MapMetaData,
     nav_msgs_msg_OccupancyGrid, nav_msgs_msg_Odometry, nav_msgs_msg_Path,
     nav_msgs_srv_GetMap_Request, nav_msgs_srv_GetMap_Response,
     nav_msgs_srv_GetPlan_Request, nav_msgs_srv_GetPlan_Response,
     nav_msgs_srv_LoadMap_Request, nav_msgs_srv_LoadMap_Response,
     nav_msgs_srv_SetMap_Request, nav_msgs_srv_SetMap_Response,
     pcl_msgs_msg_ModelCoefficients, pcl_msgs_msg_PointIndices,
     pcl_msgs_msg_PolygonMesh, pcl_msgs_msg_Vertices,
     pcl_msgs_srv_UpdateFilename_Request,
     pcl_msgs_srv_UpdateFilename_Response, shape_msgs_msg_Mesh,
     shape_msgs_msg_MeshTriangle, shape_msgs_msg_Plane,
     shape_msgs_msg_SolidPrimitive, stereo_msgs_msg_DisparityImage,
     tf2_msgs_action_LookupTransform_Feedback,
     tf2_msgs_action_LookupTransform_FeedbackMessage,
     tf2_msgs_action_LookupTransform_GetResult_Request,
     tf2_msgs_action_LookupTransform_GetResult_Response,
     tf2_msgs_action_LookupTransform_Goal,
     tf2_msgs_action_LookupTransform_Result,
     tf2_msgs_action_LookupTransform_SendGoal_Request,
     tf2_msgs_action_LookupTransform_SendGoal_Response, tf2_msgs_msg_TF2Error,
     tf2_msgs_msg_TFMessage, tf2_msgs_srv_FrameGraph_Request,
     tf2_msgs_srv_FrameGraph_Response, vision_msgs_msg_BoundingBox2D,
     vision_msgs_msg_BoundingBox2DArray, vision_msgs_msg_BoundingBox3D,
     vision_msgs_msg_BoundingBox3DArray, vision_msgs_msg_Classification,
     vision_msgs_msg_Detection2D, vision_msgs_msg_Detection2DArray,
     vision_msgs_msg_Detection3D, vision_msgs_msg_Detection3DArray,
     vision_msgs_msg_LabelInfo, vision_msgs_msg_ObjectHypothesis,
     vision_msgs_msg_ObjectHypothesisWithPose, vision_msgs_msg_Point2D,
     vision_msgs_msg_Pose2D, vision_msgs_msg_VisionClass,
     vision_msgs_msg_VisionInfo, visualization_msgs_msg_ImageMarker,
     visualization_msgs_msg_InteractiveMarker,
     visualization_msgs_msg_InteractiveMarkerControl,
     visualization_msgs_msg_InteractiveMarkerFeedback,
     visualization_msgs_msg_InteractiveMarkerInit,
     visualization_msgs_msg_InteractiveMarkerPose,
     visualization_msgs_msg_InteractiveMarkerUpdate,
     visualization_msgs_msg_Marker, visualization_msgs_msg_MarkerArray,
     visualization_msgs_msg_MenuEntry, visualization_msgs_msg_MeshFile,
     visualization_msgs_msg_UVCoordinate,
     visualization_msgs_srv_GetInteractiveMarkers_Request,
     visualization_msgs_srv_GetInteractiveMarkers_Response}
=============================================================================
