SPECIFICATION Spec
CONSTANTS
  MaxGroups = 5
  MaxSize = 2
  MaxInit = 2
  MaxSources = 2
  AnyShape = FALSE
INVARIANT EachGroupOnce
INVARIANT AllExistFirst
INVARIANT OrderedChildren
PROPERTY Connected
