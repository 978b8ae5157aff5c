SPECIFICATION LiveSpec
CONSTANTS
  i1 = i1
  i2 = i2
  a = a
  b = b
  c = c
  nobody = nobody
  Id <- MCId
  Ip <- MCIp
  Client <- MCClient
  AddressOf <- MCAddressOf
  None = nobody
  MaxAttempts = 1
  MaxChallenges = 2
  BypassModes <- OffAndOn
  QueueBound = 1
  FaultBound = 2
INVARIANT SolvedIsLetThrough
PROPERTY ImplementsPromise
PROPERTY EventuallyReleased
