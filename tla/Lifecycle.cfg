SPECIFICATION FairSpec
CONSTANTS
  d1 = d1
  d2 = d2
  Daemons = {d1, d2}
  Agents = {a1}
  MaxStarts = 2
  MaxEdits = 2
  MaxGen = 2
  Nil = Nil
CONSTRAINTS Apart D2IsSecond
INVARIANTS
  Ownership
  
  
  DetachStrandsNobody

  
CHECK_DEADLOCK FALSE
