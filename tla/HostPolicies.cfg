SPECIFICATION LiveSpec
CONSTANTS
  web = web
  g1 = g1
  g2 = g2
  a1 = a1
  a2 = a2
  timer = timer
  none = none
  Host <- MCHost
  Group <- MCGroup
  Bodies <- MCBodies
  Admin <- MCAdmin
  Timer = timer
  None = none
  ChangeBound = 2
  FaultBound = 2
INVARIANT OneGroupPerHost
INVARIANT AclFollowsState
PROPERTY EnforcedInTheEnd
