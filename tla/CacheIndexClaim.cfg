\* Can an entry be stored that no revalidateTag finds?
CONSTANTS
  Pods = {n1, n2}
  Native = {}
  Keys = {k1, k2}
  Tags = {t1}
  Absent = Absent
  Calls = {c1, c2}
  MaxCalls = 3
  MaxClients = 1
  MaxFaults = 0
SPECIFICATION Spec
INVARIANT EveryEntryReachable
CHECK_DEADLOCK FALSE
