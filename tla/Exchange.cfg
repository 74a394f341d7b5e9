SPECIFICATION Spec
CONSTANTS
  c1 = c1
  c2 = c2
  k1 = k1
  s1 = s1
  s2 = s2
  Conns = {c1, c2}
  Pollers = {}
  Pipes = {k1}
  Stmts = {s1, s2}
  MaxInbox = 1
  MaxWrites = 3
  Nil = Nil
SYMMETRY Symmetry
INVARIANTS
  SocketsAreRouted
  QueryIsSentOnce
  PrivateRowsStayPrivate
  RowsAreOwn
VIEW LiveState
CHECK_DEADLOCK FALSE
