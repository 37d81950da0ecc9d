CONSTANTS
  w1 = w1
  w2 = w2
  s1 = s1
  h1 = h1
  None = None
  Conns = {w1, w2}
  Sessions = {s1}
  SessionOf <- MCSessionOf
  Shards = {h1}
  ShardOf <- MCSameShard
  ChanCap = 1
  MaxMsgs = 1
  MaxFrames = 1
SPECIFICATION FairSpec
INVARIANTS
  TypeOK
  ReaderNeverSendsOnClosed
  NoPanicWhileServing
  NoOrphanSession
  NoStaleRoute
  RecoveredFromEndingPredecessor
PROPERTIES
  ImplementsMailboxes
  
  EndedSessionIsRemoved
CHECK_DEADLOCK FALSE
