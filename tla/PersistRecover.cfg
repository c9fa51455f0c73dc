SPECIFICATION FairSpec
CONSTANTS
  f1 = f1 v1 = v1 v2 = v2 c1 = c1
  Absent = Absent NoFile = NoFile Torn = Torn Nil = Nil
  Files = {f1}
  Vals = {v1, v2}
  Checkpoints = {c1}
  Requests <- RecoverRequests
  Budget <- RecoverBudget
  Faults = {}
  MaxPending = 7
  TickShort = 1
  TickMid = 1
  TickLong = 1
  SomeWrites = 1
  ManyWrites = 1
PROPERTIES
  RecoverDelivers
  PermitRestored
