SPECIFICATION FairSpec
CONSTANTS
  NewFiles = FALSE
  MaxFaults = 1
  MaxTampers = 0
PROPERTY CommitIsRecovered
CHECK_DEADLOCK FALSE
