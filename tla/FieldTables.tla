----------------------------- MODULE FieldTables -----------------------------
(***************************************************************************)
(* The coordinates of the field (components/RobotField.tsx), in tenths of  *)
(* a millimetre.  Index 0 is the release position, 1 to 40 are the blocks, *)
(* row by row, as the page numbers them.                                   *)
(***************************************************************************)
EXTENDS Integers

ROWS == 10
COLS == 4
Indices == 0 .. ROWS * COLS
Sides   == {"red", "blue"}

OFFSET_POSITION == 500

Row(i)    == (i - 1) \div COLS
Column(i) == (i - 1) % COLS

RowX == <<5500, 4500, 3000, 2000, 500, -500, -2000, -3000, -4500, -5500>>

Point(x, y) == [x |-> x, y |-> y]

\* The arrays are written out in the code; blue counts y down, red up.
BLUE_COORDS(i) == Point(RowX[Row(i) + 1], 5470 - 1000 * Column(i))
RED_COORDS(i)  == Point(-RowX[Row(i) + 1], 2470 + 1000 * Column(i))

RELEASE_POSITION(side) == Point(IF side = "red" THEN -4825 ELSE 4825, -1030)

\* Fault: the offset is taken from the blue table only.
GoalOffsetBlueOnly(side, i) ==
  LET p == IF i = 0 THEN RELEASE_POSITION(side)
           ELSE IF side = "red" THEN RED_COORDS(i) ELSE BLUE_COORDS(i)
  IN  IF side = "red" THEN p ELSE [p EXCEPT !.y = @ - OFFSET_POSITION]

\* What is sent for an index, apart from z: both tables less the offset.
Goal(side, i) ==
  LET p == IF i = 0 THEN RELEASE_POSITION(side)
           ELSE IF side = "red" THEN RED_COORDS(i) ELSE BLUE_COORDS(i)
  IN  [p EXCEPT !.y = @ - OFFSET_POSITION]
=============================================================================
