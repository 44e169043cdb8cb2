\* The shipped fleet: two replicas, two connections, every failure.
CONSTANTS
  Gateways = {g1, g2}
  Conns = {c1, c2}
  MaxTimers = 1
  Served = TRUE
  SlowCalls = TRUE
  Failing = {"wake", "write", "sleep", "peers", "pod", "term", "crash"}
  MaxFaults = 1
SYMMETRY Interchangeable
SPECIFICATION Spec
INVARIANT TypeOK
INVARIANT CountsSlots
INVARIANT SparesOlderSessions
