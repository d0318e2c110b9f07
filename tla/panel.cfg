CONSTANTS
  Buttons = {up, left}
  Blocks = {2}
  Motions = {catch}
  MaxCalls = 3
SPECIFICATION Spec
SYMMETRY ButtonSymmetry
INVARIANTS
  TypeOK
  JogOnlyWhileHeld
  GoalDisplayed
  GoalsMirrored
  SuccessMeansExecuted
  NeverStuckRunning
