\* Two importers beside the tracker of the proxy.
SPECIFICATION Spec
CONSTANTS
  r1 = r1
  p1 = p1
  p2 = p2
  Importer = {p1, p2}
  Request = {r1}
  UsageOf <- Usage
  CodexLines <- Session
  ClaudeLines <- Stream
  Begins <- Started
  Commands <- Readings
  Rates <- Prices3
  ProviderOf <- Providers
  QueueSize = 2
  BatchSize = 2
INVARIANTS
  CursorsAreHonest
  SettledReportIsRight
CONSTRAINT OverlapWhenQuiet
SYMMETRY Twins
CHECK_DEADLOCK FALSE
