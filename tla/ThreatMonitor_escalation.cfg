SPECIFICATION Spec
CONSTANTS
  s1 = s1
  s2 = s2
  range = range
  e1 = e1
  e2 = e2
  e3 = e3
  e4 = e4
  soft = soft
  none = none
  admin = admin
  Source <- OneSource
  Target <- OneTarget
  Covers <- OneCovers
  Private = {}
  Event <- Softs
  SourceOf <- SoftSource
  RiskOf <- SoftRisk
  StrongOf <- NoStrong
  ClassOf <- SoftClass
  Guarded <- Softs
  Proxied <- Pair
  Soft = soft
  None = none
  Admin = admin
  Policies <- OnlyEnforce
  ManualBlocks = {}
  ManualLimits = {}
  SoftThreshold = 50
  Hits = 2
  Window = 2
  Cooldown = 1
  Grace = 1
  TimeBound = 3
  RunBound = 1
  Failures = FALSE
  Crashes = FALSE
INVARIANT EscalationEarned
CHECK_DEADLOCK FALSE
