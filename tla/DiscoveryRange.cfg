SPECIFICATION Spec
CONSTANTS
  e1 = e1
  e2 = e2
  e3 = e3
  Endpoints = {e1, e2, e3}
  UnitIds = {1, 255}
  Devices = {e2}
  AnyUnit = AnyUnit
  DefaultRange = "default"
  Ranges = {"narrow"}
  NoRange = "unset"
  ConfiguredTargets <- NoTarget
  InitialScan <- PairScan
  NetworkScans <- SomeScans
  HostsPerTick = 1
  Modules <- SomeModules
INVARIANTS
  RangeInForce
