SPECIFICATION LiveSpec
CONSTANTS
  pi = pi
  edge = edge
  d = d
  a1 = a1
  a2 = a2
  nothing = nothing
  Node <- MCNode
  Local = pi
  Domain <- MCDomain
  Admin <- MCAdmin
  None = nothing
  JobBound = 2
  FaultBound = 1
INVARIANT CompletedIsProvisioned
INVARIANT OneActiveJobPerDomain
PROPERTY ResultsAreFinal
PROPERTY JobsEnd
