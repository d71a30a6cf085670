\* Two logins, one after the other or at once, and two tabs of the browser.
SPECIFICATION Spec
CONSTANTS
  Login = {l1, l2}
  Tab = {t1, t2}
  Provider = {google, okta}
  NeedsEmail = {okta}
  Account = account
  Before = before
  None = None
SYMMETRY Alike
INVARIANTS
  OneIdentity
  SettingsOfTokens
  SuccessIsComplete
CHECK_DEADLOCK FALSE
