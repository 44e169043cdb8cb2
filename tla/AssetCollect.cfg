\* A deploy and a collection alone, of two builds served before.
CONSTANTS
  Deploys = {3}
  Collectors = {c}
  FromImage = {}
  Builds = {1, 2, 3}
  NoBuild = none
  Tag <- OwnTag
  Listed <- ByTime
  Past <- ServedTwo
  Retain = 1
  MaxShifts = 2
  MaxFaults = 2
SPECIFICATION Spec
INVARIANT WindowKept
PROPERTY NeverReapsProtected
CHECK_DEADLOCK FALSE
