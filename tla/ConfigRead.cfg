SPECIFICATION Spec
CONSTANTS
  MaxGroups = 2
  MaxPhases = 2
  MaxStages = 2
INVARIANTS Faithful NothingLost
