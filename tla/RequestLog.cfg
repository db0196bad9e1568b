\* Two requests let in and one refused, in any order, around a cache of two.
SPECIFICATION Spec
CONSTANTS
  MaxRequests = 3
  MaxServed = 2
  RecentLimit = 2
INVARIANTS
  CacheExact
  OutcomeHonest
PROPERTIES
  FinalSticks
\* The requests end.
CHECK_DEADLOCK FALSE
