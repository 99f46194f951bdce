CONSTANTS
  s0 = s0
  s1 = s1
  c0 = c0
  c1 = c1
  Sources = {s0, s1}
  Children = {c0, c1}
  MaxPolls = 2
SPECIFICATION FairSpec
CHECK_DEADLOCK FALSE
INVARIANTS WaitTargets OwnRequestsComplete LeaveTogether
PROPERTIES EventuallyUser
