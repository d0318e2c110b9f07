CONSTANTS
  Handlers = {h1}
  Axes <- TwoAxes
  Positions <- TwoPositions
  Moves <- TwoMoves
  MaxPos = 2
  MaxStep = 1
  MaxRequests = 4
  MaxRestarts = 1
SPECIFICATION Spec
PROPERTY ImplementsAtomicTarget
