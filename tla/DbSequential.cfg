\* db, rdp and sqlserver daemons, one zli command at a time.
SPECIFICATION Spec
CONSTANTS
  c0 = c0
  c1 = c1
  c2 = c2
  Conn = {c0, c1, c2}
  Cmd = {k1}
  Legacy = {c0}
  PortOf <- SharedPort
  TargetOf <- SameTarget
  RecordFirst = FALSE
  Concurrent = FALSE
INVARIANTS
  FailedConnectsLeaveNoDaemon
  LiveDaemonsAreRecorded
PROPERTIES
  ImplementsRegistry
CHECK_DEADLOCK FALSE
