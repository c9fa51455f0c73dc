SPECIFICATION FairSpec
CHECK_DEADLOCK FALSE
CONSTANTS
  Wp = wp Ep = ep
  Senders = {s1}
  Closers = {c1}
  MaxFifo = 1
  PktLen = 2
  SndBuf = 1
  MaxPkts = 2
INVARIANTS
  NoUseAfterFree
  OutputOrder
PROPERTIES
  ObjectSpec
  CloseCompletes
