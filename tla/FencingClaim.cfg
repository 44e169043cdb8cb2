\* A reader re-attaches the old primary at the reserved generation.
CONSTANTS
  Watchers = {w1}
  Tenants = {base, apps}
  Base = base
  Primary = primaryNode
  Standby = standbyNode
  FailThreshold = 2
  BaseGeneration = 1
  StartGens = {1}
  StandbyLosesVolume = FALSE
  DeadAnswers = FALSE
  MaxFaults = 2
SPECIFICATION Spec
INVARIANT HigherGenerationFences
