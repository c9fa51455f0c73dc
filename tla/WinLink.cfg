SPECIFICATION Spec
CONSTANTS
  NLinks = 2
  NPackets = 2
  Users = {2}
  Ports = {0, 1}
  MaxPending = 1
  Backlog = 0
  MaxCalls = 5
  MaxCreate = 1
INVARIANTS
  FreedByPhase
  NoneLost
  HeldIsAlive
CHECK_DEADLOCK FALSE
