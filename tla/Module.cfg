SPECIFICATION FairModuleSpec
CONSTANTS
  Second = 2
  ErrorGap = 1
  MaxFailures = 2
  Endpoints = {"valid"}
  MonitorEnabled = TRUE
  ReadBlocks = 2
  WriteBlocks = 2
  Oversized = {}
  ReadbackInterval = 2
INVARIANTS
  TransactionsSerialized
  StaleTellsTheCycle
PROPERTIES
  TurnsEnd
  FreshAgain
  SilenceTurnsStale
