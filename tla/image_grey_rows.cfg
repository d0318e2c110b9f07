CONSTANTS
  Widths <- Sides
  Heights <- Sides
  Steps <- RowSteps
  Lengths <- Bytes
  Memories <- Room
  SideLimit = 4
SPECIFICATION Spec
INVARIANTS
  GreyRowsFaithful
CHECK_DEADLOCK FALSE
