SPECIFICATION Spec
CONSTANTS
  s1 = s1
  s2 = s2
  range = range
  e1 = e1
  e2 = e2
  e3 = e3
  e4 = e4
  soft = soft
  none = none
  admin = admin
  Source <- MCSource
  Target <- MCTarget
  Covers <- MCCovers
  Private = {}
  Event <- Attacks
  SourceOf <- AttackSource
  RiskOf <- AttackRisk
  StrongOf <- NoStrong
  ClassOf <- AttackClass
  Guarded <- Attacks
  Proxied <- Attacks
  Soft = soft
  None = none
  Admin = admin
  Policies <- AutoOrConfigured
  ManualBlocks <- JustRange
  ManualLimits <- JustRange
  SoftThreshold = 50
  Hits = 2
  Window = 2
  Cooldown = 1
  Grace = 1
  TimeBound = 1
  RunBound = 1
  Failures = FALSE
  Crashes = FALSE
PROPERTY BlockSupersedes
CHECK_DEADLOCK FALSE
