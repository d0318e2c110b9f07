--------------------------- MODULE MCOperatorPanel ---------------------------
(* TLC instance of OperatorPanel. *)
EXTENDS OperatorPanel, TLC

ButtonSymmetry == Permutations(Buttons)
=============================================================================
