\* One zli command at a time.
SPECIFICATION FairSpec
CONSTANTS
  w1 = w1
  w2 = w2
  Conn = {w1, w2}
  Cmd = {k1}
  PortOf <- OwnPorts
  Concurrent = FALSE
  None = None
INVARIANTS
  WebDaemonRecorded
  OneWebDaemon
PROPERTIES
  WebCommandTerminates
CHECK_DEADLOCK FALSE
