---------------------------- MODULE MCTargetPose -----------------------------
(* TLC instances of TargetPose: two axes stand for the program's three.    *)
EXTENDS TargetPose, TLC

HandlerSymmetry == Permutations(Handlers)

Pose(x, z) == [a \in Axes |-> IF a = "x" THEN x ELSE z]

TwoAxes      == {"x", "z"}
TwoPositions == {Pose(2, -1), Pose(-1, 2)}
TwoMoves     == {Pose(1, -1), Pose(0, 1)}
OneMove      == {Pose(1, -1)}
NoPosition   == {}
=============================================================================
