\* Copies fail, commands are killed or give up waiting.
SPECIFICATION FairInstallSpec
CONSTANTS
  p1 = p1
  p2 = p2
  p3 = p3
  Process = {p1, p2, p3}
  Version = {"old", "new"}
  VersionOf <- Upgrade
  LockMayFail = TRUE
  Healthy = FALSE
INVARIANTS
  OneInstaller
  HalfInstalledHasCause
PROPERTIES
  UsableStaysUsable
  InstallTerminates
CHECK_DEADLOCK FALSE
