SPECIFICATION MCSpec
CONSTANTS
  Minor = {2}
  ScanLines = 2
  EventWindow = 2
  SeenLimit = 5
  ArchivedLimit = 4
  FileLimit = 2
  Retention = 1
  EventDay <- MCEventDay
  ReadBurst = 1
  TurnBound = 1
  FaultBound = 1
  p1 = p1
  p2 = p2
  Path <- MCPath
  RequestKinds <- MCKinds
  Lists <- MCLists
  ContextWindow = 1
  Risks <- MCRisks
  StrongCounts <- MCStrongCounts
INVARIANT ArchivedOnce
INVARIANT HandedOnce
PROPERTY ReachesArchive
INVARIANT ContextIsExact
PROPERTY NeverSteppedDown
PROPERTY GraceHonoured
PROPERTY AttackIsStopped
CHECK_DEADLOCK FALSE
