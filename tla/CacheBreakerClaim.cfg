\* Is a healthy client of a Bun pod dropped only for a fault of its own?
CONSTANTS
  Pods = {b1}
  Native = {b1}
  Keys = {k1}
  Tags = {t1}
  Absent = Absent
  Calls = {c1, c2}
  MaxCalls = 4
  MaxClients = 2
  MaxFaults = 2
SPECIFICATION Spec
PROPERTY EveryHealthyClientKept
CHECK_DEADLOCK FALSE
