SPECIFICATION Spec
CONSTANTS
  c1 = c1
  c2 = c2
  k1 = k1
  s1 = s1
  r1 = r1
  b1 = b1
  b2 = b2
  Clients = {c1, c2}
  Pipes = {k1}
  Stmts = {s1}
  Recs = {r1}
  Bufs = {b1, b2}
  Grace = 2
  MaxInbox = 2
  Nil = Nil
SYMMETRY Symmetry
INVARIANTS
  NoWildAccess
  HolderKeepsRecord
  
  
CHECK_DEADLOCK FALSE
