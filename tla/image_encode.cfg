CONSTANTS
  Widths <- Sides
  Heights <- Sides
  Steps <- RowSteps
  Lengths <- Bytes
  Memories <- Room
  SideLimit = 4
SPECIFICATION Spec
INVARIANTS
  Faithful
  CompleteNeverCrashes
CHECK_DEADLOCK FALSE
