\* One replica: its compute may crash, and it may be drained.
CONSTANTS
  Gateways = {g1}
  Conns = {c1, c2}
  MaxTimers = 1
  Served = TRUE
  SlowCalls = FALSE
  Failing = {"pod", "term"}
  MaxFaults = 1
SPECIFICATION FairSpec
PROPERTY ClientsServed
PROPERTY DrainEnds
