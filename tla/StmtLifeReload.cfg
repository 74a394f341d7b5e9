SPECIFICATION LiveSpec
CONSTANTS
  c1 = c1
  k1 = k1
  s1 = s1
  r1 = r1
  r2 = r2
  b1 = b1
  Clients = {c1}
  Pipes = {k1}
  Stmts = {s1}
  Recs = {r1, r2}
  Bufs = {b1}
  Grace = 1
  MaxInbox = 1
  Nil = Nil
PROPERTIES
  KnownKeepsRecord
  
CHECK_DEADLOCK FALSE
