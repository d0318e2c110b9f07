CONSTANTS
  Handlers = {h1, h2}
  Axes <- TwoAxes
  Positions <- TwoPositions
  Moves <- TwoMoves
  MaxPos = 2
  MaxStep = 1
  MaxRequests = 3
  MaxRestarts = 1
SPECIFICATION Spec
SYMMETRY HandlerSymmetry
INVARIANTS
  TypeOK
  ReachInv
  AloneInv
  NoRunaway
  Resync
PROPERTY JumpsOnlyUnsynced
