---------------------------- MODULE MessageTypes ----------------------------
(***************************************************************************)
(* The layouts of ROS messages, as the generated Go code knows them. A     *)
(* layout is a tree: a message is a record of fields, a field is a leaf, a *)
(* nested message, a fixed array or a sequence. A number, a Boolean and a  *)
(* byte are all Plain: their conversions keep the width. MaxArray bounds   *)
(* the elements of an array that are looked at.                            *)
(***************************************************************************)
EXTENDS Naturals

CONSTANT MaxArray

ASSUME MaxArrayAssumption == MaxArray \in Nat \ {0}

Plain == [kind |-> "plain", default |-> FALSE]

\* A Go string: an immutable value, copied in and out of a buffer of C.
Str == [kind |-> "string", default |-> FALSE]

\* A struct without members in Go, with one unnamed byte in C.
Empty == [kind |-> "empty", default |-> FALSE]

Message(fields) == [kind |-> "message", default |-> FALSE, fields |-> fields]

\* A Go array, stored in the struct itself.
Array(of, n) ==
    [kind |-> "array", default |-> FALSE, of |-> of,
     n |-> IF n < MaxArray THEN n ELSE MaxArray]

\* A Go slice; in C a buffer, its size and its capacity.
Slice(of) == [kind |-> "slice", default |-> FALSE, of |-> of]

\* A field whose default is not Go's zero value.
Default(layout) == [layout EXCEPT !.default = TRUE]
=============================================================================
