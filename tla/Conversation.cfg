CONSTANTS
  Aliases <- MCAliases
  Profiles <- MCProfiles
  Frames <- MCFrames
  Manners <- MCManners
  Home <- MCHome
  MaxItems = 6
  MaxFrames = 3
  MaxTurns = 2
  Rounds = 2
SPECIFICATION Spec
INVARIANTS
  StreamWellFormed
  ReplyIsWhole
  FailureCommitsNothing
  TurnsRestored
  HistoryPaired
  NeverRefused
\* A refused request, a reply that never comes and the bounds stop a conversation.
CHECK_DEADLOCK FALSE
