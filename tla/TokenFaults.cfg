\* Overlapping refreshes; requests, processes and locks fail; the user logs in
\* and out.
SPECIFICATION FairSpec
CONSTANTS
  Cmd = {p1, p2}
  MaxEpoch = 1
  MaxGen = 2
  None = None
INVARIANTS
  OneRefresher
  AsksOnlyForExpired
PROPERTIES
  TokensNeverGoBack
  StaysLoggedIn
  CommandTerminates
CHECK_DEADLOCK FALSE
