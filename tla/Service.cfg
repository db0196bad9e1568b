\* A watcher, an encrypter and up to three requests; chains of up to three candidates.
SPECIFICATION FairSpec
CONSTANTS
  mA = mA
  mB = mB
  mC = mC
  mD = mD
  prefixedB = prefixedB
  pX = pX
  pY = pY
  pZ = pZ
  lit = lit
  cmd1 = cmd1
  cmd2 = cmd2
  key1 = key1
  key2 = key2
  low = low
  None = None
  Name = {mA, mB, mC, mD, prefixedB}
  Plain <- PlainNames
  Gemini = {mD}
  Project = {pX, pY, pZ}
  DefaultProject = pX
  Source = {lit, cmd1, cmd2}
  Command = {cmd1, cmd2}
  Shape = {"responses", "chat"}
  Effort = {low}
  MaxAttempts = 3
  Caller = {1, 2, 3}
  Capacity = 1
  Cfg <- MCCfg
  Garbled = {6}
  Key = {key1, key2}
  HostKey = lit
  Queries <- MCQueries
  Starts <- MCStarts
INVARIANTS
  ValidRulesEnd
  PlanIsPreorder
  RoutesHaveKeys
  OneCommandPerSource
  FailuresAreShared
PROPERTIES
  RevokedIsRefused
  EditsSurvive
  SettlesOnFile
