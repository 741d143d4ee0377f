SPECIFICATION Spec
CONSTANTS
  Width = 5
  DefaultPrefix = 3
  NoPrefix = NoPrefix
  MinimumPrefix = 2
  MaxHosts = 3
  Ports <- SomePorts
  Reserved = {29}
  Cidrs <- SomeCidrs
  MaxCidrs = 2
  LocalSubnets <- SomeLocalSubnets
  KnownEndpoints <- SomeTargets
  StartAddress = 0
  EndAddress = 2
  MaxChannels = 3
  AutoMap = TRUE
INVARIANTS
  EndpointsQueuedOnce
  OnlyHostsAskedFor
  SubnetsAreCovered
  ScanTellsWhatAnswered
  RangesAreExact
  SuggestionsAreSound
CHECK_DEADLOCK FALSE
