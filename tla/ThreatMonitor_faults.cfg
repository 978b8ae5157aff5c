SPECIFICATION LiveSpec
CONSTANTS
  s1 = s1
  s2 = s2
  range = range
  e1 = e1
  e2 = e2
  e3 = e3
  e4 = e4
  soft = soft
  none = none
  admin = admin
  Source <- MCSource
  Target <- MCTarget
  Covers <- MCCovers
  Private <- JustS2
  Event <- Attacks
  SourceOf <- NoiseSource
  RiskOf <- NoiseRisk
  StrongOf <- NoStrong
  ClassOf <- NoiseClass
  Guarded <- Attacks
  Proxied <- Attacks
  Soft = soft
  None = none
  Admin = admin
  Policies <- EnforceOrObserve
  ManualBlocks = {}
  ManualLimits = {}
  SoftThreshold = 50
  Hits = 2
  Window = 2
  Cooldown = 1
  Grace = 1
  TimeBound = 2
  RunBound = 2
  Failures = TRUE
  Crashes = TRUE
INVARIANT AnsweredOnce
PROPERTY ChallengeHasGrace
PROPERTY EventsGetTheirTurn
CHECK_DEADLOCK FALSE
