\* Three messages, one of which may be sent twice, and one reconnection.
SPECIFICATION Spec
CONSTANTS
  MaxMessages = 3
  QueueMessages = 2
  PreludeMessages = 3
  MaxAttempts = 2
  MaxReconnects = 1
  NamelessErrors = FALSE
INVARIANTS
  NeverWorkedTwice
  OneAttempt
  OutcomesRight
PROPERTIES
  SentInOrder
\* The connection ends.
CHECK_DEADLOCK FALSE
