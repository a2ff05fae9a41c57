CONSTANTS
  Processes = {"p1", "p2"}
  Slots = {1, 2}
  MaxClaims = 4
  MaxCalls = 2
  MaxCrashes = 1
  MaxStalls = 2
SPECIFICATION Spec
CHECK_DEADLOCK FALSE
INVARIANTS SessionStaysResumable OneWriter TimelyHoldsLease
