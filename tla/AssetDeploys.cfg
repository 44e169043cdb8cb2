\* Two deploys, one from its image, beside the build served before.
CONSTANTS
  Deploys = {2, 3}
  Collectors = {}
  FromImage = {3}
  Builds = {1, 2, 3}
  NoBuild = none
  Tag <- OwnTag
  Listed <- ByTime
  Past <- Served
  Retain = 2
  MaxShifts = 1
  MaxFaults = 2
SPECIFICATION Spec
INVARIANT TypeOK
INVARIANT WindowKept
INVARIANT ReapOutranked
PROPERTY ReclaimSparesLive
CHECK_DEADLOCK FALSE
