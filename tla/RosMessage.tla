----------------------------- MODULE RosMessage -----------------------------
(***************************************************************************)
(* The life of a ROS message of any layout of the catalogue: composed in   *)
(* Go, converted into the memory of C, sent, taken by a subscriber,        *)
(* converted back, kept and overwritten. The generated code repeats the    *)
(* same functions for every message; an operator here is one of them.      *)
(*                                                                         *)
(* A layout gives each slot its kind ("leaf", "empty", "slice"), whether   *)
(* it has a default, the slots of the slices around it, the outermost      *)
(* first, and the slots directly inside it, if it is a slice. A place is a *)
(* slot and the indices that lead to it through the slices around it. A    *)
(* message is a function from its places: a leaf holds the name of its     *)
(* content, a slice its length n and own, the allocation its elements are  *)
(* in. In C a slice has data, where its buffer is, instead of own, and     *)
(* what was never written is "garbage".                                    *)
(*                                                                         *)
(* The calls for the slices of one depth are a step: they write to         *)
(* different places, so their order does not matter. todo holds the slices *)
(* whose calls come next.                                                  *)
(***************************************************************************)
EXTENDS Naturals, Sequences

CONSTANTS
    Catalogue,      \* the layouts
    Compositions,   \* what a program fills in: by layout and message number
    MaxMessages     \* messages composed in a behaviour

Leaf(t, q) == t[q.slot].kind = "leaf"
Sliced(t, q) == t[q.slot].kind = "slice"

Slices(t, S) == {q \in S : Sliced(t, q)}

\* The slice around place q that its k-th index counts in.
Enclosing(t, q, k) ==
    [slot |-> t[q.slot].around[k], at |-> SubSeq(q.at, 1, k - 1)]

\* The places outside every slice, and the one of them that q is or is in.
Tops(t) ==
    {[slot |-> s, at |-> <<>>] : s \in {r \in DOMAIN t : t[r].around = <<>>}}

Root(t, q) == IF q.at = <<>> THEN q ELSE Enclosing(t, q, 1)

\* The places of the first n elements of slice p, without what is inside
\* slices of these.
Elements(t, p, n) ==
    [slot : t[p.slot].inside, at : {Append(p.at, i) : i \in 1..n}]

\* Those of all the slices of a set whose lengths are in m.
AllElements(t, S, m) == UNION {Elements(t, p, m[p].n) : p \in S}

NilSlice == [own |-> 0, n |-> 0]
Sender == 1     \* owner of the slices a composer or NewT allocates
Clone == 2      \* owner of the slices of a clone
Taker(i) == 2 + i

(***************************************************************************)
(* A message of Go that is complete: what is outside slices is there, a    *)
(* slice has exactly its elements, and a nil slice has none.               *)
(***************************************************************************)
Complete(t, m) ==
    /\ Tops(t) \subseteq DOMAIN m
    /\ \A q \in DOMAIN m :
         /\ q \in [slot : DOMAIN t, at : Seq(Nat)]
         /\ Len(q.at) = Len(t[q.slot].around)
         /\ \A k \in DOMAIN q.at : LET p == Enclosing(t, q, k)
                                   IN  p \in DOMAIN m /\ q.at[k] \in 1..m[p].n
         /\ Sliced(t, q) => /\ m[q].n \in Nat
                            /\ m[q].own = 0 => m[q].n = 0
                            /\ Elements(t, q, m[q].n) \subseteq DOMAIN m
         /\ Leaf(t, q) => m[q] # "garbage"

\* All the leaves in a slice, at any depth, have one content.
Contents(t, m) ==
    {[in |-> Root(t, q), content |-> m[q]] :
        q \in {r \in DOMAIN m : Leaf(t, r) /\ r.at # <<>>}}

Unmixed(t, m) ==
    \A a, b \in Contents(t, m) : a.in = b.in => a.content = b.content

(***************************************************************************)
(* The slices around a slot are slices, those around a slice are first     *)
(* among those around what is in it, and what is directly inside a slot    *)
(* has this slot around it last.                                           *)
(***************************************************************************)
ASSUME CatalogueAssumption ==
    \A t \in Catalogue : \A s \in DOMAIN t :
        /\ t[s].around \in Seq(DOMAIN t)
        /\ \A k \in DOMAIN t[s].around :
             LET r == t[s].around[k]
             IN  /\ t[r].kind = "slice"
                 /\ t[r].around = SubSeq(t[s].around, 1, k - 1)
        /\ t[s].inside = {r \in DOMAIN t : /\ t[r].around # <<>>
                                           /\ t[r].around[Len(t[r].around)] = s}

ASSUME CompositionsAssumption ==
    \A t \in Catalogue, i \in 1..MaxMessages : \A m \in Compositions[t][i] :
        Complete(t, m) /\ Unmixed(t, m)

ASSUME MaxMessagesAssumption == MaxMessages \in Nat

(***************************************************************************)
(* Values.                                                                 *)
(***************************************************************************)
\* var msg T, and the elements of make([]T, n)
ZeroValue(t, S) == [q \in S |-> IF Sliced(t, q) THEN NilSlice ELSE "zero"]

\* NewT(), SetDefaults(): a slice with a default has two elements, or counts
\* as having two.
SetDefaults(t) ==
    LET full == {p \in Slices(t, Tops(t)) : t[p.slot].default}
    IN  [q \in Tops(t) \cup UNION {Elements(t, p, 2) : p \in full} |->
            IF Sliced(t, q)
            THEN IF q \in full THEN [own |-> Sender, n |-> 2] ELSE NilSlice
            ELSE IF q.at # <<>> \/ t[q.slot].default THEN "default"
            ELSE "zero"]

\* PrepareMemory: T__create initialises every field. (That the defaults of C
\* are those of Go is of no account: the conversion writes every field.)
PrepareMemory(t) ==
    [q \in Tops(t) |->
        IF Sliced(t, q) THEN [data |-> "null", n |-> 0] ELSE "zero"]

\* What malloc returns for elements at S: nothing in it has been written.
Malloced(t, S) ==
    [q \in S |->
        IF Sliced(t, q) THEN [data |-> "garbage", n |-> 0] ELSE "garbage"]

\* What T.AsCStruct, T.AsGoStruct and T.Clone assign in the structs at S; a
\* slice there has a call of its own. An empty message has a byte in C that
\* nobody writes.
Assigned(t, S, dst, src) ==
    [q \in DOMAIN dst |-> IF q \in S /\ Leaf(t, q) THEN src[q] ELSE dst[q]]

\* Message m with these slice headers and these new elements.
Grown(m, headers, elements) ==
    [q \in DOMAIN elements \cup DOMAIN headers \cup DOMAIN m |->
        IF q \in DOMAIN elements THEN elements[q]
        ELSE IF q \in DOMAIN headers THEN headers[q] ELSE m[q]]

\* Message m without the elements of the slices of a set.
Without(t, m, S) ==
    [q \in {r \in DOMAIN m : \A k \in DOMAIN r.at : Enclosing(t, r, k) \notin S}
        |-> m[q]]

(***************************************************************************)
(* The behaviour.                                                          *)
(***************************************************************************)
VARIABLES
    layout,     \* the type of the messages
    pc,         \* what is under way
    todo,       \* the slices still to be converted or cloned
    composed,   \* number of messages composed
    msg,        \* the sender's message
    cmem,       \* the memory of C, then what is on the wire; <<>> for none
    out,        \* the subscriber's message
    before,     \* out at the start of the take under way, otherwise <<>>
    taken,      \* how out was last written
    kept        \* the clone the subscriber holds, <<>> when it holds none

vars == <<layout, pc, todo, composed, msg, cmem, out, before, taken, kept>>

Init ==
    /\ layout \in Catalogue
    /\ pc = "idle"
    /\ todo = {}
    /\ composed = 0
    /\ msg = ZeroValue(layout, Tops(layout))
    /\ cmem = <<>>
    /\ out \in {ZeroValue(layout, Tops(layout)), SetDefaults(layout)}
    /\ before = <<>>
    /\ taken = "never"
    /\ kept = <<>>

\* A program makes its next message: NewT(), or every field set.
Compose ==
    /\ pc = "idle"
    /\ composed < MaxMessages
    /\ composed' = composed + 1
    /\ msg' \in {SetDefaults(layout)} \cup Compositions[layout][composed + 1]
    /\ pc' = "composed"
    /\ UNCHANGED <<layout, todo, cmem, out, before, taken, kept>>

\* Publish prepares memory and converts the message into it.
Publish ==
    /\ pc = "composed"
    /\ cmem' = Assigned(layout, Tops(layout), PrepareMemory(layout), msg)
    /\ todo' = Slices(layout, Tops(layout))
    /\ pc' = "converting"
    /\ UNCHANGED <<layout, composed, msg, out, before, taken, kept>>

\* Fault: an empty slice leaves the destination as it is.
EmptyNotWritten ==
    /\ pc = "converting" /\ todo # {}
    /\ LET new == AllElements(layout, todo, msg)
           headers == [p \in {q \in todo : msg[q].n # 0} |->
                         [data |-> "malloc", n |-> msg[p].n]]
       IN  /\ cmem' = Assigned(layout, new,
                               Grown(cmem, headers, Malloced(layout, new)), msg)
           /\ todo' = Slices(layout, new)
    /\ UNCHANGED <<layout, pc, composed, msg, out, before, taken, kept>>

\* T__Sequence_to_C
SequenceToC ==
    /\ pc = "converting" /\ todo # {}
    /\ LET new == AllElements(layout, todo, msg)
           headers == [p \in todo |->
                         [data |-> IF msg[p].n = 0 THEN "null" ELSE "malloc",
                          n |-> msg[p].n]]
       IN  /\ cmem' = Assigned(layout, new,
                               Grown(cmem, headers, Malloced(layout, new)), msg)
           /\ todo' = Slices(layout, new)
    /\ UNCHANGED <<layout, pc, composed, msg, out, before, taken, kept>>

Converted == pc = "converting" /\ todo = {}

\* The middleware accepts the memory's content or returns an error; either way
\* ReleaseMemory frees it. The content travels on when it was accepted.
Send ==
    /\ Converted
    /\ \/ pc' = "sent" /\ UNCHANGED cmem
       \/ pc' = "idle" /\ cmem' = <<>>
    /\ UNCHANGED <<layout, todo, composed, msg, out, before, taken, kept>>

\* s.TakeMessage(m), called with message m; T.AsGoStruct up to the slices.
TakeInto(m) ==
    /\ pc = "sent"
    /\ before' = m
    /\ out' = Assigned(layout, Tops(layout), m, cmem)
    /\ todo' = Slices(layout, Tops(layout))
    /\ pc' = "taking"
    /\ UNCHANGED <<layout, composed, msg, cmem, kept>>

\* Fault: the callback's message is declared once, outside the callback.
CallbackMessageShared == TakeInto(out) /\ taken' = "callback"

\* NewTSubscription: each call of the callback takes into a message of its own.
TakeInCallback ==
    TakeInto(ZeroValue(layout, Tops(layout))) /\ taken' = "callback"

\* The take fails: the callback is called all the same, with the zero value.
CallbackTakeFails ==
    /\ pc = "sent"
    /\ out' = ZeroValue(layout, Tops(layout))
    /\ taken' = "failed"
    /\ cmem' = <<>>
    /\ pc' = "idle"
    /\ UNCHANGED <<layout, todo, composed, msg, before, kept>>

\* TakeMessage(out): into a message the program used before, or got from NewT.
TakeMessage == TakeInto(out) /\ taken' = "reused"

\* Fault: the elements go over the first of those the slice has.
LongerSliceStays ==
    /\ pc = "taking" /\ todo # {}
    /\ LET sent == {p \in todo : cmem[p].n # 0}
           longer == {p \in sent : out[p].n > cmem[p].n}
           new == AllElements(layout, sent, cmem)
           headers == [p \in sent |->
                         [own |-> Taker(composed),
                          n |-> IF p \in longer THEN out[p].n ELSE cmem[p].n]]
       IN  /\ out' = Assigned(layout, new,
                              Grown(Without(layout, out, sent \ longer), headers,
                                    ZeroValue(layout, new)),
                              cmem)
           /\ todo' = Slices(layout, new)
    /\ UNCHANGED <<layout, pc, composed, msg, cmem, before, taken, kept>>

\* Fault: the slice is cut to its new length, its old elements left over.
ElementsLeftOver ==
    /\ pc = "taking" /\ todo # {}
    /\ LET sent == {p \in todo : cmem[p].n # 0}
           new == AllElements(layout, sent, cmem)
           headers == [p \in sent |-> [own |-> Taker(composed), n |-> cmem[p].n]]
       IN  /\ out' = Assigned(layout, new,
                              Grown(out, headers, ZeroValue(layout, new)), cmem)
           /\ todo' = Slices(layout, new)
    /\ UNCHANGED <<layout, pc, composed, msg, cmem, before, taken, kept>>

\* T__Sequence_to_Go: nothing is done for an empty sequence.
SequenceToGo ==
    /\ pc = "taking" /\ todo # {}
    /\ LET sent == {p \in todo : cmem[p].n # 0}
           new == AllElements(layout, sent, cmem)
           headers == [p \in sent |-> [own |-> Taker(composed), n |-> cmem[p].n]]
       IN  /\ out' = Assigned(layout, new,
                              Grown(Without(layout, out, sent), headers,
                                    ZeroValue(layout, new)),
                              cmem)
           /\ todo' = Slices(layout, new)
    /\ UNCHANGED <<layout, pc, composed, msg, cmem, before, taken, kept>>

Taken == pc = "taking" /\ todo = {}

TakeReturns ==
    /\ Taken
    /\ cmem' = <<>>
    /\ before' = <<>>
    /\ pc' = "idle"
    /\ UNCHANGED <<layout, todo, composed, msg, out, taken, kept>>

\* The subscriber holds a clone of what it took: T.Clone up to the slices.
Keep ==
    /\ pc = "idle"
    /\ taken \in {"callback", "reused"}
    /\ kept = <<>>
    /\ kept' = Assigned(layout, Tops(layout),
                        ZeroValue(layout, Tops(layout)), out)
    /\ todo' = Slices(layout, Tops(layout))
    /\ pc' = "cloning"
    /\ UNCHANGED <<layout, composed, msg, cmem, out, before, taken>>

\* Fault: the elements are copied, and with them the slices inside them.
ShallowSlice ==
    /\ pc = "cloning" /\ todo # {}
    /\ LET headers == [p \in todo |-> [own |-> Clone, n |-> out[p].n]]
       IN  kept' = Grown(out, kept, headers)
    /\ todo' = {}
    /\ UNCHANGED <<layout, pc, composed, msg, cmem, out, before, taken>>

\* Fault: the slices of the elements are not cloned.
InnerSlicesLost ==
    /\ pc = "cloning" /\ todo # {}
    /\ LET full == {p \in todo : out[p].own # 0}
           new == AllElements(layout, full, out)
           headers == [p \in full |-> [own |-> Clone, n |-> out[p].n]]
       IN  /\ kept' = Assigned(layout, new,
                               Grown(kept, headers, ZeroValue(layout, new)), out)
           /\ todo' = {}
    /\ UNCHANGED <<layout, pc, composed, msg, cmem, out, before, taken>>

\* make and CloneTSlice, unless the slice is nil
CloneSlice ==
    /\ pc = "cloning" /\ todo # {}
    /\ LET full == {p \in todo : out[p].own # 0}
           new == AllElements(layout, full, out)
           headers == [p \in full |-> [own |-> Clone, n |-> out[p].n]]
       IN  /\ kept' = Assigned(layout, new,
                               Grown(kept, headers, ZeroValue(layout, new)), out)
           /\ todo' = Slices(layout, new)
    /\ UNCHANGED <<layout, pc, composed, msg, cmem, out, before, taken>>

Cloned == pc = "cloning" /\ todo = {}

CloneReturns ==
    /\ Cloned
    /\ pc' = "idle"
    /\ UNCHANGED <<layout, todo, composed, msg, cmem, out, before, taken, kept>>

\* The allocations a message reaches.
Owners(t, m) == {m[q].own : q \in Slices(t, DOMAIN m)} \ {0}

\* What message m reads after a program has written to every leaf in the
\* slices of the given owners.
Edited(t, m, owners) ==
    [q \in DOMAIN m |->
        IF /\ Leaf(t, q)
           /\ q.at # <<>>
           /\ m[Enclosing(t, q, Len(q.at))].own \in owners
        THEN "edited" ELSE m[q]]

\* The program writes to its message, and so to whatever shares its slices.
Edit ==
    /\ pc = "idle"
    /\ kept # <<>>
    /\ taken # "edited"
    /\ out' = [q \in DOMAIN out |-> IF Leaf(layout, q) THEN "edited" ELSE out[q]]
    /\ kept' = Edited(layout, kept, Owners(layout, out))
    /\ taken' = "edited"
    /\ UNCHANGED <<layout, pc, todo, composed, msg, cmem, before>>

Next ==
    \/ Compose \/ Publish \/ SequenceToC \/ Send
    \/ TakeInCallback \/ CallbackTakeFails \/ TakeMessage
    \/ SequenceToGo \/ TakeReturns
    \/ Keep \/ CloneSlice \/ CloneReturns
    \/ Edit

Spec == Init /\ [][Next]_vars

(***************************************************************************)
(* Properties.                                                             *)
(***************************************************************************)
\* Message a says at place q what b says; Go's nil slice and empty slice count
\* as one.
SameAt(t, a, b, q) ==
    /\ Leaf(t, q) => a[q] = b[q]
    /\ Sliced(t, q) => a[q].n = b[q].n

SameContent(t, a, b) ==
    DOMAIN a = DOMAIN b /\ \A q \in DOMAIN b : SameAt(t, a, b, q)

\* Place q is, or is in, a slice outside others that is empty in message b.
InEmpty(t, b, q) == Sliced(t, Root(t, q)) /\ b[Root(t, q)].n = 0

\* Message a says what b says, except in slices that are empty in b, where it
\* says what it said before.
TakenOver(t, a, b, old) ==
    /\ {q \in DOMAIN a : InEmpty(t, b, q)} = {q \in DOMAIN old : InEmpty(t, b, q)}
    /\ {q \in DOMAIN a : ~InEmpty(t, b, q)} = {q \in DOMAIN b : ~InEmpty(t, b, q)}
    /\ \A q \in DOMAIN a : IF InEmpty(t, b, q) THEN a[q] = old[q]
                           ELSE SameAt(t, a, b, q)

\* Nothing in a converted memory is as malloc left it, except empty messages.
Written(t, mem) ==
    \A q \in DOMAIN mem :
        /\ Leaf(t, q) => mem[q] # "garbage"
        /\ Sliced(t, q) => /\ mem[q].data = IF mem[q].n = 0 THEN "null"
                                            ELSE "malloc"
                           /\ Elements(t, q, mem[q].n) \subseteq DOMAIN mem

(***************************************************************************)
(* Types: the messages of Go are complete whenever a program sees them, as *)
(* is what is being sent. No slice has lost an element or still reaches    *)
(* those it had.                                                           *)
(***************************************************************************)
TypeOK ==
    /\ pc \in {"idle", "composed", "converting", "sent", "taking", "cloning"}
    /\ taken \in {"never", "callback", "failed", "reused", "edited"}
    /\ composed \in 0..MaxMessages
    /\ pc \notin {"converting", "taking", "cloning"} => todo = {}
    /\ pc = "composed" => Complete(layout, msg)
    /\ pc = "idle" => Complete(layout, out)

(***************************************************************************)
(* What is sent and then freed has been written throughout: the elements   *)
(* of a slice go to memory that malloc has not cleared, where a slice      *)
(* inside an element must be written even when it is empty, or             *)
(* ReleaseMemory frees a stray pointer. (The one byte of an empty message  *)
(* is sent unwritten.)                                                     *)
(***************************************************************************)
WrittenBeforeSent == Converted \/ pc = "sent" => Written(layout, cmem)

(***************************************************************************)
(* What a subscription's callback gets is what was sent, nothing of an     *)
(* earlier message: empty sequences are not converted, so this is owed to  *)
(* the message being a new one each time.                                  *)
(***************************************************************************)
CallbackExact == Taken /\ taken = "callback" => SameContent(layout, out, msg)

(***************************************************************************)
(* A message taken into again is what was sent but for the slices that     *)
(* were sent empty, which hold exactly what they held.                     *)
(***************************************************************************)
ReuseKeepsOnlyEmpty ==
    Taken /\ taken = "reused" => TakenOver(layout, out, msg, before)

(***************************************************************************)
(* However a message is reused, no slice holds parts of two messages.      *)
(***************************************************************************)
SlicesOfOneMessage == pc = "idle" => Unmixed(layout, out)

(***************************************************************************)
(* A clone says what the original says, down through slices in slices; a   *)
(* nil slice is cloned as nil, an empty one as empty.                      *)
(***************************************************************************)
CloneExact ==
    Cloned => /\ SameContent(layout, kept, out)
              /\ \A q \in Slices(layout, DOMAIN out) :
                   kept[q].own = 0 <=> out[q].own = 0

(***************************************************************************)
(* A clone stays what it was whatever becomes of the original, at any      *)
(* depth of slices in slices.                                              *)
(***************************************************************************)
CloneIndependent == [][kept # <<>> /\ pc # "cloning" => kept' = kept]_vars

(***************************************************************************)
(* What a message says, by its fields outside slices: what is in the field *)
(* at every depth, and nothing if it is an empty slice.                    *)
(***************************************************************************)
Says(t, m, q) == CASE Leaf(t, q) -> m[q] [] Sliced(t, q) -> m[q].n [] OTHER -> 0

Content(t, m) ==
    LET in(f) == IF ~Sliced(t, f) THEN {f}
                 ELSE IF m[f].n = 0 THEN {}
                 ELSE {q \in DOMAIN m : Root(t, q) = f}
    IN  [f \in Tops(t) |-> [q \in in(f) |-> Says(t, m, q)]]

Whole == INSTANCE WholeMessage WITH
    said <- Content(layout, msg),
    wire <- IF pc \in {"sent", "taking"} THEN {Content(layout, cmem)} ELSE {},
    got  <- Content(layout, IF pc = "taking" THEN before ELSE out),
    new  <- pc = "taking" /\ taken = "callback",
    held <- IF pc = "cloning" \/ kept = <<>> THEN {} ELSE {Content(layout, kept)}

(***************************************************************************)
(* Field by field and slice by slice as the conversions and clones go,     *)
(* with memory they share and elements they reuse, to a program they are   *)
(* single steps on values.                                                 *)
(***************************************************************************)
ImplementsWholeMessage == Whole!Spec
=============================================================================
