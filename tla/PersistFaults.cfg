SPECIFICATION Spec
CONSTANTS
  f1 = f1 v1 = v1 v2 = v2 c1 = c1
  Absent = Absent NoFile = NoFile Torn = Torn Nil = Nil
  Files = {f1}
  Vals = {v1}
  Checkpoints = {c1}
  Requests <- AllRequests
  Budget <- AllBudget
  Faults = {"alloc", "write", "rename", "load", "short", "kill"}
  MaxPending = 2
  TickShort = 1
  TickMid = 1
  TickLong = 1
  SomeWrites = 1
  ManyWrites = 1
INVARIANTS
  AtMostOneFsync
PROPERTIES
  DatabaseKept
