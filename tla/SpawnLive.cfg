CONSTANTS
  p0 = p0
  p1 = p1
  p2 = p2
  Sources <- TwoSources
  Root = p0
  Explored = {"generic", "single", "shrink"}
  MaxPolls = 2
  LastWait = TRUE
  Leftovers <- OneLeft
  Spurious = {}
  MaxRedist = 2
SPECIFICATION FairSpec
CHECK_DEADLOCK FALSE
INVARIANTS SplitAfterRedistribution
PROPERTIES GenericFinishes EventuallyConnected
