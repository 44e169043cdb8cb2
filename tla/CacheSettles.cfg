\* The liveness of CacheIsr under two faults, with one entry.
CONSTANTS
  Pods = {n1, b1}
  Native = {b1}
  Keys = {k1}
  Tags = {t1}
  Absent = Absent
  Calls = {c1, c2}
  MaxCalls = 3
  MaxClients = 2
  MaxFaults = 2
SPECIFICATION FairSpec
PROPERTY Settles
CHECK_DEADLOCK FALSE
