CONSTANTS
  Links = {1, 2}
  Established = {1}
  Keys <- MCKeys
  Subs <- MCSubs
  MaxWindow = 1
  MaxTasks = 1
  MaxEvents = 2
SPECIFICATION Spec
INVARIANTS WindowExact ListedAlive PublishExact
CHECK_DEADLOCK FALSE
PROPERTY SilentDropped
