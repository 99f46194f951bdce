CONSTANTS
  p0 = p0
  p1 = p1
  p2 = p2
  Sources <- TwoSources
  Root = p0
  Explored = {"single"}
  MaxPolls = 1
  LastWait = FALSE
  Leftovers = {}
  Spurious = {}
  MaxRedist = 0
SPECIFICATION FairSpec
CHECK_DEADLOCK FALSE
PROPERTIES SpawnEventuallyFinishes
