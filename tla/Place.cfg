SPECIFICATION Spec
CONSTANTS
  Nodes = 3
  MaxCores = 2
  MaxReconfs = 2
INVARIANT NodeBounds
INVARIANT Distributed
INVARIANT HostsComplete
PROPERTY CommitTracks
PROPERTY Ends
