CONSTANTS
  Buttons = {}
  Blocks = {0, 7}
  Motions = {}
  MaxCalls = 2
SPECIFICATION Spec
INVARIANT LastSentShown
