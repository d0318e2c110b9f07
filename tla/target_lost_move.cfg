CONSTANTS
  Handlers = {h1, h2}
  Axes <- TwoAxes
  Positions <- NoPosition
  Moves <- OneMove
  MaxPos = 0
  MaxStep = 1
  MaxRequests = 2
  MaxRestarts = 0
SPECIFICATION Spec
INVARIANT NoLostMove
