SPECIFICATION LiveSpec
CONSTANTS
  backend = backend
  r1 = r1
  r2 = r2
  t1 = t1
  t2 = t2
  notice = notice
  Process <- MCBackendOnly
  Backend = backend
  Response <- MCResponse
  Target <- MCTarget
  TargetOf <- MCOwnTarget
  BypassNotice = notice
  BypassModes = {FALSE}
  QueueBound = 2
  FaultBound = 2
  Crashes = TRUE
  Restarts = TRUE
INVARIANTS AcknowledgedIsDurable EnforcedUntilLifted
PROPERTIES EnforcedBeforeDurable ImplementsList ChainServes ExpiryIsEnforced
