SPECIFICATION Spec
CONSTANTS
  Slots = {p1, p2, i1, i2}
  p1 = p1
  p2 = p2
  i1 = i1
  i2 = i2
  PhaseOf <- Phases
  WorkerOf <- TwoWorkers
  Desk = "desk"
  Dispatcher = "dispatcher"
  NumJobs = 1
  RepoOf <- OneRepository
  IssueOf <- OwnIssue
  MaxPlans = 2
  MaxFaults = 1
  MayStall = TRUE
INVARIANTS
  TypeOK
  CheckedIsCurrent
  ApprovedPlanOnly
  RetryKeepsApproval
  LeasedIffRunning
  LeaseIdentifiesWorker
  DraftBeforeDelivery
  WorkIsScheduled
  KeysUnused
SYMMETRY AlikeWorkers
CHECK_DEADLOCK FALSE
