\* Two replicas whose scrapes of each other may fail; no scale-down fails.
CONSTANTS
  Gateways = {g1, g2}
  Conns = {c1, c2}
  MaxTimers = 1
  Served = TRUE
  SlowCalls = FALSE
  Failing = {"peers"}
  MaxFaults = 1
SPECIFICATION FairSpec
PROPERTY SleepsWhenIdle
