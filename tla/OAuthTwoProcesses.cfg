\* Two processes and the login command around one file: what the lock promises.
SPECIFICATION Spec
CONSTANTS
  p1 = p1
  p2 = p2
  r1 = r1
  r2 = r2
  Proc = {p1, p2}
  Req = {r1, r2}
  Home <- TwoProcesses
  MaxGrant = 3
  Aging = {}
  Crashing = {p2}
  Expiring = {1}
  LoginLocksFirst = TRUE
  LoginImports = FALSE
  Login = Login
  NoOne = NoOne
INVARIANTS
  OneRefreshAtATime
  NoRefreshTokenReplayed
PROPERTIES
  FileNeverRollsBack
