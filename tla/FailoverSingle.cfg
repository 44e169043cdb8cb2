\* The deployment: one watcher, the base and the apps tenant, any two faults.
CONSTANTS
  Watchers = {w1}
  Tenants = {base, apps}
  Base = base
  Primary = primaryNode
  Standby = standbyNode
  FailThreshold = 2
  BaseGeneration = 1
  StartGens = {2}
  StandbyLosesVolume = FALSE
  DeadAnswers = TRUE
  MaxFaults = 2
SPECIFICATION FairSpec
INVARIANT TypeOK
INVARIANT AttachedWithinLedger
INVARIANT CutoverInvariant
PROPERTY NoPhantomAttach
PROPERTY NeverDemotes
PROPERTY PromotedBeforeFlip
PROPERTY DeathFailsOver
PROPERTY FlipBounces
