\* The documentation's back-off claim against a refresh whose save fails.
SPECIFICATION Spec
CONSTANTS
  p1 = p1
  p2 = p2
  r1 = r1
  r2 = r2
  Proc = {p1}
  Req = {r1, r2}
  Home <- OneProcess
  MaxGrant = 2
  Aging = {}
  Crashing = {}
  Expiring = {1}
  LoginLocksFirst = TRUE
  LoginImports = FALSE
  Login = Login
  NoOne = NoOne
PROPERTIES
  FailedRefreshBacksOff
