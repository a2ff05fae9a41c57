CONSTANTS
  Policies = {"user", "bot_plan", "bot_implement"}
  PlanFirst = {"bot_plan"}
  SkillTools = {"read_file", "write_file", "skill", "agent", "exit_worktree"}
  Inputs = {"i1", "i2"}
  MaxCalls = 5
  OrderResults = 5
  WritesResults = 4
  Contents = {0, 1}
  Children = {1, 2}
  Validations = {"lint"}
  Sizes = {1, 120}
  TextSizes = {1, 80}
  PageLimit = 40
  MaxChars = 100
  KeepRecent = 1
  AutoCompact = 150
  ContextCalls = 3
  MaxTexts = 2
  MaxDeaths = 1
  PagesCheckouts = {"main"}
  WholesCheckouts = {"main", "worktree"}
  PagesTotal = 4
  PagesCalls = 2
  WholesTotal = 4
  FileEdits = 1
  TreeSessions = {"s1", "s2"}
  TreeNames = {"n1", "n2"}
  KeptEnters = 3
  CalmEnters = 4
  MaxWork = 2
  MaxStops = 1
SPECIFICATION AgentSpec
INVARIANTS AgentTypeOK EvidenceInOrder
INVARIANTS ViewIsSound ReplacedWasKnown ReadsSuffice ChangesWereAllowed
INVARIANTS PlanJobChangesNothing WorkIsKept
PROPERTIES ReadableStays
CHECK_DEADLOCK FALSE
