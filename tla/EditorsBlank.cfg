SPECIFICATION Spec
CONSTANTS
  Instances = {"plc"}
  Channels = {"c"}
  Readbacks = {"readback"}
  Addresses = {0, 1}
  Intervals = {0, 1}
  Blank = Blank
  Fraction = Fraction
  Negative = Negative
  NoInstance = NoInstance
  NoChannel = NoChannel
  NoType = NoType
  NoInterval = NoInterval
  InitialTasks <- SomeTasks
  MaxRows = 2
  Names = {"plc", "pump"}
  Parameters = {p, q}
  NoRequest = NoRequest
  Pages = {a, b}
  Hosts = {"local", "plc"}
  NoObject = NoObject
  LocalHost = "local"
  Ranges = {"default", "narrow"}
  DefaultRange = "default"
  InitialManifests <- SomeManifests
  Edits <- SomeEdits
  NoManifest = NoManifest
  MaxLate = 1
PROPERTIES
  BlankRowsAreLeftOut
