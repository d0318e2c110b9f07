---------------------------- MODULE MCRosMessage ----------------------------
(***************************************************************************)
(* TLC instance of RosMessage: every layout of the 37 packages. They are   *)
(* written as trees. Slots side by side that are of one kind and hold the  *)
(* same are treated alike, so two of them stand for all; layouts that      *)
(* differ in nothing but names and such repetitions are one.               *)
(***************************************************************************)
EXTENDS RosMessage, CoreMessages, ControlMessages, NavigationMessages,
        ToolMessages, TestMessages, SequencesExt

\* What is directly in a tree, by path. An array has its elements in the
\* struct, as a nested message its fields: each has a path of its own.
RECURSIVE Parts(_, _), Form(_)
Parts(path, tree) ==
    LET part(kind, default, of) ==
            {[path |-> path,
              part |-> [kind |-> kind, default |-> default, of |-> of]]}
    IN  CASE tree.kind = "message" ->
               UNION {Parts(path \o "." \o f, tree.fields[f]) :
                        f \in DOMAIN tree.fields}
          [] tree.kind = "array" ->
               UNION {Parts(path \o "." \o ToString(i),
                            [tree.of EXCEPT !.default = @ \/ tree.default]) :
                        i \in 1..tree.n}
          [] tree.kind = "slice" -> part("slice", tree.default, Form(tree.of))
          [] tree.kind = "empty" -> part("empty", FALSE, {})
          [] OTHER -> part("leaf", tree.default, {})

\* The parts of a tree, two of those that are alike.
Form(tree) ==
    LET parts == Parts("", tree)
        alike(x) == {y \in parts : y.part = x.part}
        several == {x.part : x \in {y \in parts : Cardinality(alike(y)) > 1}}
    IN  {<<x.part, 1>> : x \in parts} \cup {<<p, 2>> : p \in several}

\* The slots of a form, each named by a path of numbers.
RECURSIVE Slots(_, _, _)
Slots(path, form, around) ==
    LET order == FoldSet(LAMBDA x, seq : Append(seq, x), <<>>, form)
        name(i) == path \o "." \o ToString(i)
        slots(i) ==
            LET part == order[i][1]
            IN  {[path |-> name(i), kind |-> part.kind,
                  default |-> part.default, around |-> around]}
                \cup Slots(name(i), part.of, Append(around, name(i)))
    IN  UNION {slots(i) : i \in DOMAIN order}

Layout(form) ==
    LET slots == Slots("", form, <<>>)
        inside(p) == {s.path : s \in {r \in slots : /\ r.around # <<>>
                                                    /\ r.around[Len(r.around)] = p}}
        slot(s) == [kind |-> s.kind, default |-> s.default, around |-> s.around,
                    inside |-> inside(s.path)]
    IN  [p \in {s.path : s \in slots} |-> slot(CHOOSE s \in slots : s.path = p)]

MCCatalogue ==
    LET trees == CoreLayouts \cup ControlLayouts \cup NavigationLayouts
                     \cup ToolLayouts \cup TestLayouts
    IN  {Layout(form) : form \in {Form(tree) : tree \in trees}}

\* Every slice empty; those inside others empty; those inside a second element
\* empty and those inside a first not.
Length(shape, q) ==
    CASE shape = "empty" -> 0
      [] shape = "hollow" -> IF q.at = <<>> THEN 1 ELSE 0
      [] shape = "ragged" -> IF q.at = <<>> THEN 2 ELSE 2 - q.at[Len(q.at)]

\* The message of layout t of that shape whose leaves all say `tag`.
Filled(t, tag, shape) ==
    LET at(s) == [1..Len(t[s].around) -> 1..2]
        places == UNION {{[slot |-> s, at |-> a] : a \in at(s)} : s \in DOMAIN t}
        present(q) == \A k \in DOMAIN q.at :
                         q.at[k] <= Length(shape, Enclosing(t, q, k))
    IN  [q \in {r \in places : present(r)} |->
            IF Sliced(t, q) THEN [own |-> Sender, n |-> Length(shape, q)] ELSE tag]

MCCompositions ==
    [t \in MCCatalogue |->
        [i \in 1..MaxMessages |->
            {Filled(t, <<"m1", "m2", "m3">>[i], shape) :
                shape \in {"empty", "hollow", "ragged"}}]]
=============================================================================
