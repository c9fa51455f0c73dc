SPECIFICATION FairSpec
CHECK_DEADLOCK FALSE
CONSTANTS
  Wp = wp Ep = ep Closers = {c1}
  Senders = {s1}
  MaxFifo = 2
  PktLen = 1
  SndBuf = 1
  MaxPkts = 3
PROPERTY
  QueuedIsSent
