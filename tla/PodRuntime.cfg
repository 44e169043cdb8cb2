CONSTANTS
  a1 = a1
  a2 = a2
  b1 = b1
  Files = {a1, a2}
  Variant <- ByName
  Stored = {a1}
  Drains = {d1, d2}
  MaxSignals = 2
SPECIFICATION FairSpec
INVARIANT TypeOK
INVARIANT CleanExit
INVARIANT TermOnce
INVARIANT NoneOverlooked
PROPERTY Exits
PROPERTY FilesStored
PROPERTY NoPushAfterStop
CHECK_DEADLOCK FALSE
