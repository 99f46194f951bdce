SPECIFICATION Spec
CONSTANTS
  Groups = 3
  Procs = {2, 3}
  Phases = 2
  PhaseIters = {2}
  GroupIters = {1}
  Data = {{"s"}, {"s", "a"}}
  Qty = 4
  SpawnMethods = {"baseline", "merge"}
  RedMethods = {"alltoall", "point", "rma"}
INVARIANTS
  SameProgress
  ReportedOnce
  BuffersOwned
  RequestsFit
  Measured
PROPERTIES
  Malleability
