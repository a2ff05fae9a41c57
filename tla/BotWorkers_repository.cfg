SPECIFICATION ApprovedSpec
CONSTANTS
  Slots = {i1, i2}
  p1 = p1
  p2 = p2
  i1 = i1
  i2 = i2
  PhaseOf <- Phases
  WorkerOf <- OwnWorkerId
  Desk = "desk"
  Dispatcher = "dispatcher"
  NumJobs = 2
  RepoOf <- OneRepository
  IssueOf <- OwnIssue
  MaxPlans = 1
  MaxFaults = 1
  MayStall = TRUE
CONSTRAINT BothImplementing
INVARIANT OneImplementationPerRepo
SYMMETRY Alike
CHECK_DEADLOCK FALSE
