\* Connects to a target, beside other commands and the user's edits.
SPECIFICATION Spec
CONSTANTS
  Conn = {c1, c2}
  Cmd = {k1, k2}
  Name = {prod, mine, bzero}
  Port = {p1, p2, q}
  c1 = c1
  c2 = c2
  k2 = k2
  prod = prod
  mine = mine
  bzero = bzero
  p1 = p1
  p2 = p2
  q = q
  Managed = bzero
  Legacy = {mine}
  None = None
  NameOf <- MCNameOf
  PortOf <- MCPortOf
  MaxToken = 2
  MaxRuns = 2
  Edits <- MCEdits
  Files <- MCFiles
VIEW Current
CONSTRAINT Explored
INVARIANTS
  LiveDaemonsReachable
  KubeTokenAccepted
  OthersKept
CHECK_DEADLOCK FALSE
