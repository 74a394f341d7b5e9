SPECIFICATION MCLiveSpec
CONSTANTS
  c1 = c1
  c2 = c2
  K1 = K1
  K2 = K2
  Clients = {c1, c2}
  Keys = {K1, K2}
  Slots = 2
  NoClient = NoClient
  NoKey = NoKey
INVARIANTS
  PoolInv
  NoSharedPipe
PROPERTIES
  StampedLockIsFreed
  ReleaseReturns
  ImplementsPipeSet
CHECK_DEADLOCK FALSE
