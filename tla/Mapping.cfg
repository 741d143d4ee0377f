SPECIFICATION Spec
CONSTANTS
  Items <- SomeItems
  MaxItems = 3
  MaxAddress = 1
  ReadLimit <- SomeReadLimit
  WriteLimit <- SomeWriteLimit
  WithReadback = {1}
  Commands <- SomeCommands
  MaxLate = 1
INVARIANTS
  OffsetsAreAddresses
  BlocksPartitionMappings
  OneRequestPerRun
  ChannelsShowTheirRegisters
  ReadbackShowsRegisters
  OnlyMappedRegistersWritten
  RegistersHoldTheirCommands
CHECK_DEADLOCK FALSE
