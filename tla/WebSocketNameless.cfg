\* Two messages in flight, the first of which fails without a name.
SPECIFICATION Spec
CONSTANTS
  MaxMessages = 2
  QueueMessages = 2
  PreludeMessages = 2
  MaxAttempts = 1
  MaxReconnects = 0
  NamelessErrors = TRUE
INVARIANT OutcomesRight
\* The connection ends.
CHECK_DEADLOCK FALSE
