SPECIFICATION FairSpec
CONSTANTS
  p1 = p1
  b1 = b1
  t1 = t1
  Peers = {p1, b1}
  Businesses = {b1}
  Members = {p1}
  Threads = {t1}
  NoThread = NoThread
  NoTurn = NoTurn
  NoCall = NoCall
  MaxMessages = 2
  MaxCalls = 1
INVARIANTS
  WindowOnlyAfterContact
  ThreadsStayWithPeer
PROPERTIES
  SkipFollowsSends
  EveryMessageServed
CHECK_DEADLOCK FALSE
