\* Does a call on a native client end when its connection dies silently?
CONSTANTS
  Pods = {b1}
  Native = {b1}
  Keys = {k1}
  Tags = {t1}
  Absent = Absent
  Calls = {c1, c2}
  MaxCalls = 2
  MaxClients = 1
  MaxFaults = 1
SPECIFICATION FairSpec
PROPERTY EveryCallSettles
CHECK_DEADLOCK FALSE
