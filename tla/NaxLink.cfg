CONSTANTS
  Openers = {u1}
  Closers = {u2}
  Eps = {0, 1}
  Wp = wp
  Families = {"inet", "unix", "udp"}
  Calls = {"listen", "connect", "connect2", "destroy", "awaken"}
  MaxLinks = 2
  MaxOwn = 1
  MaxCalls = 2
  MaxNet = 1
  MaxFaults = 2
SPECIFICATION FairSpec
INVARIANTS CallbackOrder HeldIsCounted
CHECK_DEADLOCK FALSE
PROPERTIES HangupsClose ObjectsKept
