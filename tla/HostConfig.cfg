SPECIFICATION Spec
CONSTANTS
  web = web
  old = old
  left = left
  right = right
  none = none
  Host <- MCHost
  TypeOf <- MCTypes
  Listed <- JustWeb
  Slot <- Two
  None = none
  RequestBound = 2
  FaultBound = 2
INVARIANT TypeOK
INVARIANT SettledIsHonest
PROPERTY GivesBack
SYMMETRY SlotSymmetry
CHECK_DEADLOCK FALSE
