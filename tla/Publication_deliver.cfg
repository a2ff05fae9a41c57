SPECIFICATION FairSpec
CONSTANTS
  NewFiles = FALSE
  MaxFaults = 2
  MaxTampers = 3
INVARIANTS
  TypeOK
  CancelledIsUnpublished
  CompletedHasPull
  
PROPERTY EventIsSettled
CHECK_DEADLOCK FALSE
