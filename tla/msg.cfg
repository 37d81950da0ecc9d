CONSTANTS
  a = a
  b = b
  c = c
  d = d
  Payloads = {a, c, d}
  Ts <- MCTs
  Atomic <- MCAtomic
  None = None
  ChanCap = 2
  MaxFrames = 2
  MaxConns = 3
SPECIFICATION FairSpec
INVARIANTS
  TypeOK
  NothingForgotten
  ClientOrder
  OneWriter
  NothingLostOrRepeated

  
  
CHECK_DEADLOCK FALSE
