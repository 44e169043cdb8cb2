\* A wake in one replica, while a scale-down decided by another is in flight.
CONSTANTS
  Gateways = {g1, g2}
  Conns = {c1, c2}
  MaxTimers = 1
  Served = TRUE
  SlowCalls = FALSE
  Failing = {}
  MaxFaults = 0
SPECIFICATION Spec
INVARIANT WokenStayAwaited
