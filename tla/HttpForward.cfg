\* Chains of up to three candidates, and up to three attempts at one.
SPECIFICATION FairSpec
CONSTANTS
  MaxPlan = 3
  MaxRetries = 2
  MaxTries = 3
  MaxEvents = 3
INVARIANTS
  OneAnswer
  NeverGeneratedTwice
  OutputCommits
PROPERTIES
  KeepsPromise
  BudgetEndsRecovery
\* The request ends.
CHECK_DEADLOCK FALSE
