CONSTANTS
  MaxRuns = 2
  MaxFaults = 1
  MaxCalls = 1
  Kinds = {"write"}
  Reasons = {"r1", "r2"}
  MaxRounds = 3
  MaxAttempts = 2
  MaxCompactions = 1
  MaxNoProgress = 1
  Escalation = TRUE
  RecoveryLimit = 1
  StopLimit = 2
SPECIFICATION LoopSpec
INVARIANTS ResultsFollowCalls EffectsFollowCalls LimitsHold
PROPERTY RunEnds
CHECK_DEADLOCK FALSE
