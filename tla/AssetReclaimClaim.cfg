\* A job of one commit runs again, and its push fails.
CONSTANTS
  Deploys = {2, 3}
  Collectors = {}
  FromImage = {}
  Builds = {1, 2, 3}
  NoBuild = none
  Tag <- SameTag
  Listed <- ByTime
  Past <- Unserved
  Retain = 1
  MaxShifts = 0
  MaxFaults = 1
SPECIFICATION Spec
PROPERTY ReclaimSparesLive
CHECK_DEADLOCK FALSE
