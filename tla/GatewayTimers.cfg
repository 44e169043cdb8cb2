\* One replica, calls that may outlast an idle window, and two timers pending.
CONSTANTS
  Gateways = {g1}
  Conns = {c1, c2}
  MaxTimers = 2
  Served = TRUE
  SlowCalls = TRUE
  Failing = {"write", "pod", "term", "crash"}
  MaxFaults = 1
SYMMETRY Interchangeable
SPECIFICATION Spec
INVARIANT WokenStayAwaited
