\* Two clients of any kind, and two runs of `zli close --all' one after the other.
SPECIFICATION FairSpec
CONSTANTS
  Client = {c1, c2}
  Closer = {k1}
  Beside = {"linux", "background", "attach"}
  MaxSpace = 2
  MaxInbox = 2
  None = None
INVARIANTS
  OnlyAttachedTypes
  FreshKey
  ClosesAll
PROPERTIES
  LogoutReachesSessions
CHECK_DEADLOCK FALSE
