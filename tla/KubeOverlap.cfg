\* kube connects that overlap.
SPECIFICATION Spec
CONSTANTS
  c0 = c0
  c1 = c1
  c2 = c2
  Conn = {c1, c2}
  Cmd = {k1}
  Legacy = {}
  PortOf <- OwnPorts
  TargetOf <- SameTarget
  RecordFirst = TRUE
  Concurrent = TRUE
INVARIANTS
  OneDaemonPerTarget
CHECK_DEADLOCK FALSE
