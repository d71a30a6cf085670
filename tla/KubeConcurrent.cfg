\* kube daemons: connects, listings and disconnects overlap freely.
SPECIFICATION FairSpec
CONSTANTS
  c0 = c0
  c1 = c1
  c2 = c2
  Conn = {c1, c2}
  Cmd = {k1}
  Legacy = {}
  PortOf <- OwnPorts
  TargetOf <- SameTarget
  RecordFirst = TRUE
  Concurrent = TRUE
INVARIANTS
  PurgedDaemonsAreStopped
PROPERTIES
  
  CommandTerminates
CHECK_DEADLOCK FALSE
