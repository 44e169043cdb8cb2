\* The partition of ADR-0010 D4: two watchers, the base tenant.
CONSTANTS
  Watchers = {w1, w2}
  Tenants = {base}
  Base = base
  Primary = primaryNode
  Standby = standbyNode
  FailThreshold = 1
  BaseGeneration = 1
  StartGens = {1}
  StandbyLosesVolume = TRUE
  DeadAnswers = TRUE
  MaxFaults = 1
SYMMETRY Instances
SPECIFICATION Spec
INVARIANT LedgerInvariant
INVARIANT ReservationsDistinct
PROPERTY LedgerNeverLowers
PROPERTY ImplementsLedger
