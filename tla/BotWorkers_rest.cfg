SPECIFICATION FairSpec
CONSTANTS
  Slots = {p1, i1}
  p1 = p1
  p2 = p2
  i1 = i1
  i2 = i2
  PhaseOf <- Phases
  WorkerOf <- OneWorkerId
  Desk = "desk"
  Dispatcher = "dispatcher"
  NumJobs = 1
  RepoOf <- OneRepository
  IssueOf <- OwnIssue
  MaxPlans = 2
  MaxFaults = 1
  MayStall = FALSE
PROPERTIES ComesToRest KeepsPromise
CHECK_DEADLOCK FALSE
