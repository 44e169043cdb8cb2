\* The read-only lane, whose registry no peer can scrape.
CONSTANTS
  Gateways = {g1, g2}
  Conns = {c1, c2}
  MaxTimers = 1
  Served = FALSE
  SlowCalls = FALSE
  Failing = {}
  MaxFaults = 0
SPECIFICATION Spec
INVARIANT SparesOlderSessions
