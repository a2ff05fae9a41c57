CONSTANTS
  Checkouts = {"main"}
  Inputs = {"whole"}
  Instructed = TRUE
  Within = {}
  MaxTotal = 3
  MaxCalls = 1
  MaxEdits = 0
SPECIFICATION Spec
INVARIANTS ReviewIsEnough
CHECK_DEADLOCK FALSE
