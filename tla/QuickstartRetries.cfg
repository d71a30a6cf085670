\* Quickstart is run again and again, with one user name or two.
SPECIFICATION FairSpec
CONSTANTS
  Host = {h1, h2}
  Encrypted = {h1}
  SshUser = {u1, u2}
  MaxReg = 1
INVARIANTS
  ConnectionsClosed
  NothingDropped
PROPERTIES
  QuickstartEnds
CHECK_DEADLOCK FALSE
