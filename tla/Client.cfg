SPECIFICATION MonitoredSpec
CONSTANTS
  Second = 4
  ErrorGap = 3
  MaxFailures = 30
  Endpoints = {"valid", "invalid", "overlong"}
INVARIANTS
  ChannelShowsConnection
  AlarmOnlyDuringOutage
  StreamUnambiguous
  ContextAndBackoffConsistent
PROPERTIES
  AttemptsSpaced
  Reconnects
  ImplementsHealth
