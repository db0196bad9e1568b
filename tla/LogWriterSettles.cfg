\* One session whose commits may fail, from its opening to the end of its writer.
SPECIFICATION FairSpec
CONSTANTS
  s1 = s1
  s2 = s2
  Session = {s1}
  Request = {r1}
  Capacity = 2
  BatchSize = 2
  MaxEvents <- MostlyTheFirst
  Flushing = {s1}
  Asking = {}
  Crashing = {s1}
  Failing = {s1}
  Free = Free
PROPERTIES
  EventsSettle
  DropsReachTheDatabase
\* Every session may end.
CHECK_DEADLOCK FALSE
