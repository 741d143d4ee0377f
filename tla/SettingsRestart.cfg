SPECIFICATION SettingsSpec
CONSTANTS
  Pages = {a, b}
  Hosts = {"local", "plc"}
  NoObject = NoObject
  LocalHost = "local"
  Ranges = {"default", "narrow"}
  DefaultRange = "default"
  InitialManifests <- SomeManifests
  Edits <- SomeEdits
  NoManifest = NoManifest
  MaxLate = 1
INVARIANTS
  RestartKeepsSettings
