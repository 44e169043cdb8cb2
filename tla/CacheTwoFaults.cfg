\* The safety of CacheIsr under two faults.
CONSTANTS
  Pods = {n1, b1}
  Native = {b1}
  Keys = {k1, k2}
  Tags = {t1}
  Absent = Absent
  Calls = {c1, c2}
  MaxCalls = 3
  MaxClients = 2
  MaxFaults = 2
SYMMETRY CallSymmetry
SPECIFICATION Spec
INVARIANT TypeOK
INVARIANT Reachable
INVARIANT TransactionsAlone
INVARIANT QueueMoves
PROPERTY ImplementsTagStore
PROPERTY HealthyClientKept
CHECK_DEADLOCK FALSE
