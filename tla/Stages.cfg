SPECIFICATION Spec
CONSTANTS
  Procs = {1, 2}
  Calibration = 2
  StageTime = 2
  Costs = {1, 2}
  Factors = {1}
  Granularity = 5
  Bytes = 3
  Iters = 2
  Opens = {TRUE}
  Garbage = {FALSE}
  CappedWaits = {FALSE}
INVARIANTS InStep SameWork RequestsSafe
