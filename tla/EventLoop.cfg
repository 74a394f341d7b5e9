SPECIFICATION FairSpec
CONSTANTS
  Clients = {c1, c2}
  Pipes = {k1, k2}
  MaxPosts = 2
  MaxCalls = 1
  MaxBreaks = 1
  Nil = Nil
INVARIANTS
  InboxIsFramed
  RepliesAreOwn
PROPERTIES
  RequestIsRead
CHECK_DEADLOCK FALSE
