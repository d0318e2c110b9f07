CONSTANTS
  Buttons = {}
  Blocks = {}
  Motions = {}
  MaxCalls = 1
SPECIFICATION Spec
INVARIANT BlankZIsHalf
