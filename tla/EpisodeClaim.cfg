\* A failover retried after a lost reply or a crash reserves again.
CONSTANTS
  Watchers = {w1}
  Tenants = {base, apps}
  Base = base
  Primary = primaryNode
  Standby = standbyNode
  FailThreshold = 2
  BaseGeneration = 1
  StartGens = {1}
  StandbyLosesVolume = FALSE
  DeadAnswers = TRUE
  MaxFaults = 2
SPECIFICATION Spec
INVARIANT OneAdvancePerEpisode
