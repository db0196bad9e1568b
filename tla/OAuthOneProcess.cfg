\* One process, two callers, the login command and a crash: what the cache and
\* the gate promise the callers, and that every call ends.
SPECIFICATION FairSpec
CONSTANTS
  p1 = p1
  p2 = p2
  r1 = r1
  r2 = r2
  Proc = {p1}
  Req = {r1, r2}
  Home <- OneProcess
  MaxGrant = 2
  Aging = {p1}
  Crashing = {p1}
  Expiring = {1}
  LoginLocksFirst = TRUE
  LoginImports = FALSE
  Login = Login
  NoOne = NoOne
INVARIANTS
  RejectedNeverReturned
  PublishedNeverRolledBack
PROPERTIES
  EveryCallEnds
