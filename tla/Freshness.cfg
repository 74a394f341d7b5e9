SPECIFICATION Spec
CONSTANTS
  Clients = {c1, c2}
  Second = 2
  TTL = 1
  MaxWait = 1
  MaxNow = 8
INVARIANTS
  
  StalenessIsBounded
  
  VerdictHolds
CHECK_DEADLOCK FALSE
SYMMETRY ClientSymmetry
