\* A Node pod and a Bun pod on one Redis, two entries, one tag, every fault.
CONSTANTS
  Pods = {n1, b1}
  Native = {b1}
  Keys = {k1, k2}
  Tags = {t1}
  Absent = Absent
  Calls = {c1, c2}
  MaxCalls = 3
  MaxClients = 2
  MaxFaults = 1
SPECIFICATION FairSpec
INVARIANT TypeOK
INVARIANT Reachable
INVARIANT TransactionsAlone
INVARIANT QueueMoves
PROPERTY ImplementsTagStore
PROPERTY HealthyClientKept
PROPERTY Settles
CHECK_DEADLOCK FALSE
