CONSTANTS
  Deliveries = {"d1", "d2"}
  Commands = {"plan", "reply"}
  PageSize = 4
  MaxAttempts = 2
  MaxJobs = 1
  MaxArrivals = 2
  MaxErrors = 2
  MaxDeaths = 1
  MaxOthers = 0
  MaxAges = 0
  Runtimes = {"r1", "r2"}
  Listers = {"l1"}
  MaxRecords = 4
  MaxLoads = 3
  MaxCrashes = 2
SPECIFICATION RecoverySpec
CHECK_DEADLOCK FALSE
INVARIANTS AppliedOnce CommentedOnce CompletedIsThere AttemptsAreBounded CleanupStopsAtReplies
INVARIANT RecordsSurvive
PROPERTY CommentsSettle
