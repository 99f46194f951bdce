CONSTANTS
  Sizes = {1, 2, 3}
  Quantities = {2, 5}
  Entries = 2
  MaxProcs = 4
  DataSize = 2
SPECIFICATION Spec
CHECK_DEADLOCK FALSE
INVARIANTS BlockReceived InBounds WindowHeld NoCircle
