SPECIFICATION MCSpec
CONSTANTS
  backend = backend
  r1 = r1
  r2 = r2
  t1 = t1
  t2 = t2
  notice = notice
  Process <- MCBackendOnly
  Backend = backend
  Response <- MCResponse
  Target <- MCTarget
  TargetOf <- MCSameTarget
  BypassNotice = notice
  BypassModes = {TRUE, FALSE}
  QueueBound = 2
  FaultBound = 1
  Crashes = FALSE
  Restarts = TRUE
  left = left
  right = right
  Cert = {1, 2}
  Existing = {1, 2}
  Used = {1, 2}
  Dns = {2}
  Broken = {1}
  Slot <- MCSlot
  CertRequests = 2
  CertFaults = 1
INVARIANTS RollbackIsTransactional OneRecordPerTarget BypassSuspends RowNotAheadOfFile
PROPERTIES RenewedInTheEnd CredentialsGoInTheEnd
