SPECIFICATION Spec
CONSTANTS
  k1 = k1
  k2 = k2
  none = none
  Key <- MCKey
  None = none
  Skews = {0, 1}
  Window = 1
  SendBound = 2
  TimeBound = 3
  TroubleBound = 1
  Long = {4}
  Bad = {1}
  Tail = 2
  Batch = 2
  Rounds = 2
  LineBound = 4
  RotationBound = 1
  RegistryBound = 2
  DoubtBound = 2
INVARIANT AcceptedOnce
INVARIANT DeliveredOrInDoubt
PROPERTY LinesArrive
CHECK_DEADLOCK FALSE
