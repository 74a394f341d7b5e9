SPECIFICATION Spec
CONSTANTS
  Stmts <- MCStmts
  LeadsOf <- MCLeadsOf
  MaxCmds = 3
  MaxConns = 2
  Nil = Nil
INVARIANTS
  StreamsAreWhole
  FramingIsRight
  StoredRowsAreOwn
  AnswerIsWhole
  TransactionIsTracked
  CodecRoundTrips
CHECK_DEADLOCK FALSE
