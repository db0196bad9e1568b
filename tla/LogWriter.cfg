\* Two sessions around one database; the first may crash and its commits may fail.
SPECIFICATION Spec
CONSTANTS
  s1 = s1
  s2 = s2
  Session = {s1, s2}
  Request = {r1}
  Capacity = 2
  BatchSize = 2
  MaxEvents <- MostlyTheFirst
  Flushing = {s1}
  Asking = {s1}
  Crashing = {s1}
  Failing = {s1}
  Free = Free
CONSTRAINT AskedAlone
INVARIANTS
  FlushIsDurable
  HealthyMeansComplete
  DurableHistory
  RecoveryIsExact
\* Every session may end.
CHECK_DEADLOCK FALSE
