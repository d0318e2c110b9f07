---------------------------- MODULE WholeMessage ----------------------------
(***************************************************************************)
(* What the message functions promise a program: messages are values.      *)
(* Publishing, taking and cloning happen at once, nothing a program does   *)
(* to one message shows in another, and the only trace a message leaves in *)
(* one taken over it is in the fields that were sent empty.                *)
(*                                                                         *)
(* A message is a function from its fields; Empty is the value of a slice  *)
(* that has no elements. RosMessage implements this specification.         *)
(***************************************************************************)
VARIABLES said,     \* the sender's message
          wire,       \* the set of messages under way, at most one
          got,        \* the subscriber's message
          new,        \* got is declared, nothing taken into it yet
          held        \* the set of clones the subscriber holds, at most one

vars == <<said, wire, got, new, held>>

Empty == <<>>

Init ==
    /\ wire = {}
    /\ held = {}
    /\ new = FALSE
    /\ DOMAIN got = DOMAIN said

\* Any message of the same type.
Other(m, m1) == DOMAIN m1 = DOMAIN m

Compose ==
    /\ wire = {}
    /\ Other(said, said')
    /\ UNCHANGED <<wire, got, new, held>>

Send ==
    /\ wire = {}
    /\ wire' = {said}
    /\ UNCHANGED <<said, got, new, held>>

Declare ==
    /\ wire # {}
    /\ ~new
    /\ new' = TRUE
    /\ Other(got, got')
    /\ UNCHANGED <<said, wire, held>>

\* Message m taken into message old.
Merged(old, m) == [f \in DOMAIN m |-> IF m[f] = Empty THEN old[f] ELSE m[f]]

Take ==
    /\ wire' = {}
    /\ new' = FALSE
    /\ \E m \in wire : got' = IF new THEN m ELSE Merged(got, m)
    /\ UNCHANGED <<said, held>>

TakeFails ==
    /\ wire # {}
    /\ ~new
    /\ wire' = {}
    /\ Other(got, got')
    /\ UNCHANGED <<said, new, held>>

Clone ==
    /\ wire = {}
    /\ held = {}
    /\ held' = {got}
    /\ UNCHANGED <<said, wire, got, new>>

\* The program writes to the elements its message has; the clone stays.
Edit ==
    /\ wire = {}
    /\ Other(got, got')
    /\ \A f \in DOMAIN got : got'[f] = Empty <=> got[f] = Empty
    /\ UNCHANGED <<said, wire, new, held>>

Next == Compose \/ Send \/ Declare \/ Take \/ TakeFails \/ Clone \/ Edit

Spec == Init /\ [][Next]_vars
=============================================================================
