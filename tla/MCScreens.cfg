SPECIFICATION Spec
CONSTANTS
  Null = Null
  CapUnit = 1
  NoOne = NoOne
  FallbackPeriod = 2
  TrialLength = 1
  Day = 2
  STALL_THRESHOLD = 1
  COVERAGE_DAYS = 2
  FAILED_JOBS_THRESHOLD = 2
  ACK_TTL = 2
  Samples <- MCSamples
  Home = "p"
  Stores = {1, 2}
  EventIds = {1}
  OrderIds = {1}
  OrderKinds <- MCOrderKinds
  PlanChanges <- MCPlanChanges
  Period = 2
  USAGE_TTL = 3
  MaxNow = 2
  MaxSteps = 3
INVARIANTS ScreensAgree SidesAgree UsageOfThisPeriod TroubleIsShown PagesCoverList
CHECK_DEADLOCK FALSE
