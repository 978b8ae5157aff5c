SPECIFICATION Spec
CONSTANTS
  web = web
  old = old
  left = left
  right = right
  none = none
  Host <- MCHost
  TypeOf <- MCTypes
  Listed <- JustWeb
  Slot <- One
  None = none
  RequestBound = 3
  FaultBound = 0
INVARIANT NothingBrokenStays
CHECK_DEADLOCK FALSE
