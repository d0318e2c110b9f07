---------------------------- MODULE TestMessages ----------------------------
(***************************************************************************)
(* Layouts of generated messages: the generator's own test messages: every *)
(* kind of field. A definition stands for its .gen.go file from the struct *)
(* to AsGoStruct: the struct, New, Clone, SetDefaults, the typed publisher *)
(* and subscription, and the two conversions, which all go over these      *)
(* fields with the operators of RosMessage.                                *)
(***************************************************************************)
EXTENDS CoreMessages

\* test_msgs

test_msgs_action_Fibonacci_Feedback == Message([Sequence |-> Slice(Plain)])

test_msgs_action_Fibonacci_FeedbackMessage ==
    Message([GoalID |-> unique_identifier_msgs_msg_UUID,
             Feedback |-> test_msgs_action_Fibonacci_Feedback])

test_msgs_action_Fibonacci_GetResult_Request ==
    Message([GoalID |-> unique_identifier_msgs_msg_UUID])

test_msgs_action_Fibonacci_Result == Message([Sequence |-> Slice(Plain)])

test_msgs_action_Fibonacci_GetResult_Response ==
    Message([Status |-> Plain, Result |-> test_msgs_action_Fibonacci_Result])

test_msgs_action_Fibonacci_Goal == Message([Order |-> Plain])

test_msgs_action_Fibonacci_SendGoal_Request ==
    Message([GoalID |-> unique_identifier_msgs_msg_UUID,
             Goal |-> test_msgs_action_Fibonacci_Goal])

test_msgs_action_Fibonacci_SendGoal_Response ==
    Message([Accepted |-> Plain, Stamp |-> builtin_interfaces_msg_Time])

test_msgs_msg_Builtins ==
    Message([DurationValue |-> builtin_interfaces_msg_Duration,
             TimeValue |-> builtin_interfaces_msg_Time])

test_msgs_msg_BasicTypes ==
    Message([BoolValue |-> Plain, ByteValue |-> Plain, CharValue |-> Plain,
             Float32Value |-> Plain, Float64Value |-> Plain,
             Int8Value |-> Plain, Uint8Value |-> Plain, Int16Value |-> Plain,
             Uint16Value |-> Plain, Int32Value |-> Plain,
             Uint32Value |-> Plain, Int64Value |-> Plain,
             Uint64Value |-> Plain])

test_msgs_action_NestedMessage_Feedback ==
    Message([NestedFieldNoPkg |-> test_msgs_msg_Builtins,
             NestedField |-> test_msgs_msg_BasicTypes,
             NestedDifferentPkg |-> builtin_interfaces_msg_Time])

test_msgs_action_NestedMessage_FeedbackMessage ==
    Message([GoalID |-> unique_identifier_msgs_msg_UUID,
             Feedback |-> test_msgs_action_NestedMessage_Feedback])

test_msgs_action_NestedMessage_GetResult_Request ==
    Message([GoalID |-> unique_identifier_msgs_msg_UUID])

test_msgs_action_NestedMessage_Result ==
    Message([NestedFieldNoPkg |-> test_msgs_msg_Builtins,
             NestedField |-> test_msgs_msg_BasicTypes,
             NestedDifferentPkg |-> builtin_interfaces_msg_Time])

test_msgs_action_NestedMessage_GetResult_Response ==
    Message([Status |-> Plain,
             Result |-> test_msgs_action_NestedMessage_Result])

test_msgs_action_NestedMessage_Goal ==
    Message([NestedFieldNoPkg |-> test_msgs_msg_Builtins,
             NestedField |-> test_msgs_msg_BasicTypes,
             NestedDifferentPkg |-> builtin_interfaces_msg_Time])

test_msgs_action_NestedMessage_SendGoal_Request ==
    Message([GoalID |-> unique_identifier_msgs_msg_UUID,
             Goal |-> test_msgs_action_NestedMessage_Goal])

test_msgs_action_NestedMessage_SendGoal_Response ==
    Message([Accepted |-> Plain, Stamp |-> builtin_interfaces_msg_Time])

test_msgs_msg_Constants == Empty

test_msgs_msg_Defaults ==
    Message([BoolValue |-> Default(Plain), ByteValue |-> Default(Plain),
             CharValue |-> Default(Plain), Float32Value |-> Default(Plain),
             Float64Value |-> Default(Plain), Int8Value |-> Default(Plain),
             Uint8Value |-> Default(Plain), Int16Value |-> Default(Plain),
             Uint16Value |-> Default(Plain), Int32Value |-> Default(Plain),
             Uint32Value |-> Default(Plain), Int64Value |-> Default(Plain),
             Uint64Value |-> Default(Plain)])

test_msgs_msg_Arrays ==
    Message([BoolValues |-> Array(Plain, 3), ByteValues |-> Array(Plain, 3),
             CharValues |-> Array(Plain, 3),
             Float32Values |-> Array(Plain, 3),
             Float64Values |-> Array(Plain, 3),
             Int8Values |-> Array(Plain, 3), Uint8Values |-> Array(Plain, 3),
             Int16Values |-> Array(Plain, 3),
             Uint16Values |-> Array(Plain, 3),
             Int32Values |-> Array(Plain, 3),
             Uint32Values |-> Array(Plain, 3),
             Int64Values |-> Array(Plain, 3),
             Uint64Values |-> Array(Plain, 3), StringValues |-> Array(Str, 3),
             BasicTypesValues |-> Array(test_msgs_msg_BasicTypes, 3),
             ConstantsValues |-> Array(test_msgs_msg_Constants, 3),
             DefaultsValues |-> Array(test_msgs_msg_Defaults, 3),
             BoolValuesDefault |-> Default(Array(Plain, 3)),
             ByteValuesDefault |-> Default(Array(Plain, 3)),
             CharValuesDefault |-> Default(Array(Plain, 3)),
             Float32ValuesDefault |-> Default(Array(Plain, 3)),
             Float64ValuesDefault |-> Default(Array(Plain, 3)),
             Int8ValuesDefault |-> Default(Array(Plain, 3)),
             Uint8ValuesDefault |-> Default(Array(Plain, 3)),
             Int16ValuesDefault |-> Default(Array(Plain, 3)),
             Uint16ValuesDefault |-> Default(Array(Plain, 3)),
             Int32ValuesDefault |-> Default(Array(Plain, 3)),
             Uint32ValuesDefault |-> Default(Array(Plain, 3)),
             Int64ValuesDefault |-> Default(Array(Plain, 3)),
             Uint64ValuesDefault |-> Default(Array(Plain, 3)),
             StringValuesDefault |-> Default(Array(Str, 3)),
             AlignmentCheck |-> Plain])

test_msgs_msg_BoundedPlainSequences ==
    Message([BoolValues |-> Slice(Plain), ByteValues |-> Slice(Plain),
             CharValues |-> Slice(Plain), Float32Values |-> Slice(Plain),
             Float64Values |-> Slice(Plain), Int8Values |-> Slice(Plain),
             Uint8Values |-> Slice(Plain), Int16Values |-> Slice(Plain),
             Uint16Values |-> Slice(Plain), Int32Values |-> Slice(Plain),
             Uint32Values |-> Slice(Plain), Int64Values |-> Slice(Plain),
             Uint64Values |-> Slice(Plain),
             BasicTypesValues |-> Slice(test_msgs_msg_BasicTypes),
             ConstantsValues |-> Slice(test_msgs_msg_Constants),
             DefaultsValues |-> Slice(test_msgs_msg_Defaults),
             BoolValuesDefault |-> Default(Slice(Plain)),
             ByteValuesDefault |-> Default(Slice(Plain)),
             CharValuesDefault |-> Default(Slice(Plain)),
             Float32ValuesDefault |-> Default(Slice(Plain)),
             Float64ValuesDefault |-> Default(Slice(Plain)),
             Int8ValuesDefault |-> Default(Slice(Plain)),
             Uint8ValuesDefault |-> Default(Slice(Plain)),
             Int16ValuesDefault |-> Default(Slice(Plain)),
             Uint16ValuesDefault |-> Default(Slice(Plain)),
             Int32ValuesDefault |-> Default(Slice(Plain)),
             Uint32ValuesDefault |-> Default(Slice(Plain)),
             Int64ValuesDefault |-> Default(Slice(Plain)),
             Uint64ValuesDefault |-> Default(Slice(Plain)),
             AlignmentCheck |-> Plain])

test_msgs_msg_BoundedSequences ==
    Message([BoolValues |-> Slice(Plain), ByteValues |-> Slice(Plain),
             CharValues |-> Slice(Plain), Float32Values |-> Slice(Plain),
             Float64Values |-> Slice(Plain), Int8Values |-> Slice(Plain),
             Uint8Values |-> Slice(Plain), Int16Values |-> Slice(Plain),
             Uint16Values |-> Slice(Plain), Int32Values |-> Slice(Plain),
             Uint32Values |-> Slice(Plain), Int64Values |-> Slice(Plain),
             Uint64Values |-> Slice(Plain), StringValues |-> Slice(Str),
             BasicTypesValues |-> Slice(test_msgs_msg_BasicTypes),
             ConstantsValues |-> Slice(test_msgs_msg_Constants),
             DefaultsValues |-> Slice(test_msgs_msg_Defaults),
             BoolValuesDefault |-> Default(Slice(Plain)),
             ByteValuesDefault |-> Default(Slice(Plain)),
             CharValuesDefault |-> Default(Slice(Plain)),
             Float32ValuesDefault |-> Default(Slice(Plain)),
             Float64ValuesDefault |-> Default(Slice(Plain)),
             Int8ValuesDefault |-> Default(Slice(Plain)),
             Uint8ValuesDefault |-> Default(Slice(Plain)),
             Int16ValuesDefault |-> Default(Slice(Plain)),
             Uint16ValuesDefault |-> Default(Slice(Plain)),
             Int32ValuesDefault |-> Default(Slice(Plain)),
             Uint32ValuesDefault |-> Default(Slice(Plain)),
             Int64ValuesDefault |-> Default(Slice(Plain)),
             Uint64ValuesDefault |-> Default(Slice(Plain)),
             StringValuesDefault |-> Default(Slice(Str)),
             AlignmentCheck |-> Plain])

test_msgs_msg_Empty == Empty

test_msgs_msg_UnboundedSequences ==
    Message([BoolValues |-> Slice(Plain), ByteValues |-> Slice(Plain),
             CharValues |-> Slice(Plain), Float32Values |-> Slice(Plain),
             Float64Values |-> Slice(Plain), Int8Values |-> Slice(Plain),
             Uint8Values |-> Slice(Plain), Int16Values |-> Slice(Plain),
             Uint16Values |-> Slice(Plain), Int32Values |-> Slice(Plain),
             Uint32Values |-> Slice(Plain), Int64Values |-> Slice(Plain),
             Uint64Values |-> Slice(Plain), StringValues |-> Slice(Str),
             BasicTypesValues |-> Slice(test_msgs_msg_BasicTypes),
             ConstantsValues |-> Slice(test_msgs_msg_Constants),
             DefaultsValues |-> Slice(test_msgs_msg_Defaults),
             BoolValuesDefault |-> Default(Slice(Plain)),
             ByteValuesDefault |-> Default(Slice(Plain)),
             CharValuesDefault |-> Default(Slice(Plain)),
             Float32ValuesDefault |-> Default(Slice(Plain)),
             Float64ValuesDefault |-> Default(Slice(Plain)),
             Int8ValuesDefault |-> Default(Slice(Plain)),
             Uint8ValuesDefault |-> Default(Slice(Plain)),
             Int16ValuesDefault |-> Default(Slice(Plain)),
             Uint16ValuesDefault |-> Default(Slice(Plain)),
             Int32ValuesDefault |-> Default(Slice(Plain)),
             Uint32ValuesDefault |-> Default(Slice(Plain)),
             Int64ValuesDefault |-> Default(Slice(Plain)),
             Uint64ValuesDefault |-> Default(Slice(Plain)),
             StringValuesDefault |-> Default(Slice(Str)),
             AlignmentCheck |-> Plain])

test_msgs_msg_MultiNested ==
    Message([ArrayOfArrays |-> Array(test_msgs_msg_Arrays, 3),
             ArrayOfBoundedSequences |-> Array(test_msgs_msg_BoundedSequences, 3),
             ArrayOfUnboundedSequences |-> Array(test_msgs_msg_UnboundedSequences, 3),
             BoundedSequenceOfArrays |-> Slice(test_msgs_msg_Arrays),
             BoundedSequenceOfBoundedSequences |-> Slice(test_msgs_msg_BoundedSequences),
             BoundedSequenceOfUnboundedSequences |-> Slice(test_msgs_msg_UnboundedSequences),
             UnboundedSequenceOfArrays |-> Slice(test_msgs_msg_Arrays),
             UnboundedSequenceOfBoundedSequences |-> Slice(test_msgs_msg_BoundedSequences),
             UnboundedSequenceOfUnboundedSequences |-> Slice(test_msgs_msg_UnboundedSequences)])

test_msgs_msg_Nested ==
    Message([BasicTypesValue |-> test_msgs_msg_BasicTypes])

test_msgs_msg_Strings ==
    Message([StringValue |-> Str, StringValueDefault1 |-> Default(Str),
             StringValueDefault2 |-> Default(Str),
             StringValueDefault3 |-> Default(Str),
             StringValueDefault4 |-> Default(Str),
             StringValueDefault5 |-> Default(Str), BoundedStringValue |-> Str,
             BoundedStringValueDefault1 |-> Default(Str),
             BoundedStringValueDefault2 |-> Default(Str),
             BoundedStringValueDefault3 |-> Default(Str),
             BoundedStringValueDefault4 |-> Default(Str),
             BoundedStringValueDefault5 |-> Default(Str)])

test_msgs_msg_WStrings ==
    Message([WstringValue |-> Str, WstringValueDefault1 |-> Default(Str),
             WstringValueDefault2 |-> Default(Str),
             WstringValueDefault3 |-> Default(Str),
             ArrayOfWstrings |-> Array(Str, 3),
             BoundedSequenceOfWstrings |-> Slice(Str),
             UnboundedSequenceOfWstrings |-> Slice(Str)])

test_msgs_srv_Arrays_Request ==
    Message([BoolValues |-> Array(Plain, 3), ByteValues |-> Array(Plain, 3),
             CharValues |-> Array(Plain, 3),
             Float32Values |-> Array(Plain, 3),
             Float64Values |-> Array(Plain, 3),
             Int8Values |-> Array(Plain, 3), Uint8Values |-> Array(Plain, 3),
             Int16Values |-> Array(Plain, 3),
             Uint16Values |-> Array(Plain, 3),
             Int32Values |-> Array(Plain, 3),
             Uint32Values |-> Array(Plain, 3),
             Int64Values |-> Array(Plain, 3),
             Uint64Values |-> Array(Plain, 3), StringValues |-> Array(Str, 3),
             BasicTypesValues |-> Array(test_msgs_msg_BasicTypes, 3),
             ConstantsValues |-> Array(test_msgs_msg_Constants, 3),
             DefaultsValues |-> Array(test_msgs_msg_Defaults, 3),
             BoolValuesDefault |-> Default(Array(Plain, 3)),
             ByteValuesDefault |-> Default(Array(Plain, 3)),
             CharValuesDefault |-> Default(Array(Plain, 3)),
             Float32ValuesDefault |-> Default(Array(Plain, 3)),
             Float64ValuesDefault |-> Default(Array(Plain, 3)),
             Int8ValuesDefault |-> Default(Array(Plain, 3)),
             Uint8ValuesDefault |-> Default(Array(Plain, 3)),
             Int16ValuesDefault |-> Default(Array(Plain, 3)),
             Uint16ValuesDefault |-> Default(Array(Plain, 3)),
             Int32ValuesDefault |-> Default(Array(Plain, 3)),
             Uint32ValuesDefault |-> Default(Array(Plain, 3)),
             Int64ValuesDefault |-> Default(Array(Plain, 3)),
             Uint64ValuesDefault |-> Default(Array(Plain, 3)),
             StringValuesDefault |-> Default(Array(Str, 3))])

test_msgs_srv_Arrays_Response ==
    Message([BoolValues |-> Array(Plain, 3), ByteValues |-> Array(Plain, 3),
             CharValues |-> Array(Plain, 3),
             Float32Values |-> Array(Plain, 3),
             Float64Values |-> Array(Plain, 3),
             Int8Values |-> Array(Plain, 3), Uint8Values |-> Array(Plain, 3),
             Int16Values |-> Array(Plain, 3),
             Uint16Values |-> Array(Plain, 3),
             Int32Values |-> Array(Plain, 3),
             Uint32Values |-> Array(Plain, 3),
             Int64Values |-> Array(Plain, 3),
             Uint64Values |-> Array(Plain, 3), StringValues |-> Array(Str, 3),
             BasicTypesValues |-> Array(test_msgs_msg_BasicTypes, 3),
             ConstantsValues |-> Array(test_msgs_msg_Constants, 3),
             DefaultsValues |-> Array(test_msgs_msg_Defaults, 3),
             BoolValuesDefault |-> Default(Array(Plain, 3)),
             ByteValuesDefault |-> Default(Array(Plain, 3)),
             CharValuesDefault |-> Default(Array(Plain, 3)),
             Float32ValuesDefault |-> Default(Array(Plain, 3)),
             Float64ValuesDefault |-> Default(Array(Plain, 3)),
             Int8ValuesDefault |-> Default(Array(Plain, 3)),
             Uint8ValuesDefault |-> Default(Array(Plain, 3)),
             Int16ValuesDefault |-> Default(Array(Plain, 3)),
             Uint16ValuesDefault |-> Default(Array(Plain, 3)),
             Int32ValuesDefault |-> Default(Array(Plain, 3)),
             Uint32ValuesDefault |-> Default(Array(Plain, 3)),
             Int64ValuesDefault |-> Default(Array(Plain, 3)),
             Uint64ValuesDefault |-> Default(Array(Plain, 3)),
             StringValuesDefault |-> Default(Array(Str, 3))])

test_msgs_srv_BasicTypes_Request ==
    Message([BoolValue |-> Plain, ByteValue |-> Plain, CharValue |-> Plain,
             Float32Value |-> Plain, Float64Value |-> Plain,
             Int8Value |-> Plain, Uint8Value |-> Plain, Int16Value |-> Plain,
             Uint16Value |-> Plain, Int32Value |-> Plain,
             Uint32Value |-> Plain, Int64Value |-> Plain,
             Uint64Value |-> Plain, StringValue |-> Str])

test_msgs_srv_BasicTypes_Response ==
    Message([BoolValue |-> Plain, ByteValue |-> Plain, CharValue |-> Plain,
             Float32Value |-> Plain, Float64Value |-> Plain,
             Int8Value |-> Plain, Uint8Value |-> Plain, Int16Value |-> Plain,
             Uint16Value |-> Plain, Int32Value |-> Plain,
             Uint32Value |-> Plain, Int64Value |-> Plain,
             Uint64Value |-> Plain, StringValue |-> Str])

test_msgs_srv_Empty_Request == Empty

test_msgs_srv_Empty_Response == Empty

\* Every layout of this module; types of one layout are one element.
TestLayouts ==
    {test_msgs_action_Fibonacci_Feedback,
     test_msgs_action_Fibonacci_FeedbackMessage,
     test_msgs_action_Fibonacci_GetResult_Request,
     test_msgs_action_Fibonacci_GetResult_Response,
     test_msgs_action_Fibonacci_Goal, test_msgs_action_Fibonacci_Result,
     test_msgs_action_Fibonacci_SendGoal_Request,
     test_msgs_action_Fibonacci_SendGoal_Response,
     test_msgs_action_NestedMessage_Feedback,
     test_msgs_action_NestedMessage_FeedbackMessage,
     test_msgs_action_NestedMessage_GetResult_Request,
     test_msgs_action_NestedMessage_GetResult_Response,
     test_msgs_action_NestedMessage_Goal,
     test_msgs_action_NestedMessage_Result,
     test_msgs_action_NestedMessage_SendGoal_Request,
     test_msgs_action_NestedMessage_SendGoal_Response, test_msgs_msg_Arrays,
     test_msgs_msg_BasicTypes, test_msgs_msg_BoundedPlainSequences,
     test_msgs_msg_BoundedSequences, test_msgs_msg_Builtins,
     test_msgs_msg_Constants, test_msgs_msg_Defaults, test_msgs_msg_Empty,
     test_msgs_msg_MultiNested, test_msgs_msg_Nested, test_msgs_msg_Strings,
     test_msgs_msg_UnboundedSequences, test_msgs_msg_WStrings,
     test_msgs_srv_Arrays_Request, test_msgs_srv_Arrays_Response,
     test_msgs_srv_BasicTypes_Request, test_msgs_srv_BasicTypes_Response,
     test_msgs_srv_Empty_Request, test_msgs_srv_Empty_Response}
=============================================================================
