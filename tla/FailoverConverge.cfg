\* Convergence after a second, partial failover: three faults, the base tenant.
CONSTANTS
  Watchers = {w1}
  Tenants = {base}
  Base = base
  Primary = primaryNode
  Standby = standbyNode
  FailThreshold = 1
  BaseGeneration = 1
  StartGens = {1}
  StandbyLosesVolume = FALSE
  DeadAnswers = TRUE
  MaxFaults = 3
SPECIFICATION FairSpec
PROPERTY FlipConverges
