------------------------------ MODULE LossyFeed ------------------------------
(***************************************************************************)
(* What an MJPEG viewer may rely on, whatever the interleaving of camera   *)
(* callbacks and HTTP handlers: frames arrive in the order in which they   *)
(* were stored, some are skipped, and none is shown more than MaxCopies    *)
(* times within one connection.  CameraFeed implements this specification. *)
(***************************************************************************)
EXTENDS Naturals

CONSTANTS Streams,     \* the MJPEG connections
          MaxCopies    \* how often one frame may be shown on one connection

VARIABLES stored,      \* frames are numbered 1..stored in storing order
          shown,       \* the frame a connection shows, 0 before the first
          copies       \* how many times in a row it has been sent

vars == <<stored, shown, copies>>

Init ==
  /\ stored = 0
  /\ shown  = [c \in Streams |-> 0]
  /\ copies = [c \in Streams |-> 0]

NewFrame ==
  /\ stored' = stored + 1
  /\ UNCHANGED <<shown, copies>>

\* The frame may be any stored one that is not older than the frame shown.
Show(c) ==
  \E f \in 1..stored :
    /\ f >= shown[c]
    /\ f = shown[c] => copies[c] < MaxCopies
    /\ shown'  = [shown EXCEPT ![c] = f]
    /\ copies' = [copies EXCEPT ![c] = IF f = shown[c] THEN copies[c] + 1 ELSE 1]
    /\ UNCHANGED stored

\* A new connection starts with an empty picture.
Reopen(c) ==
  /\ shown'  = [shown EXCEPT ![c] = 0]
  /\ copies' = [copies EXCEPT ![c] = 0]
  /\ UNCHANGED stored

Next == NewFrame \/ \E c \in Streams : Show(c) \/ Reopen(c)

Spec == Init /\ [][Next]_vars
=============================================================================
