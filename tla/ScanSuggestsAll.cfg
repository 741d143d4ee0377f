SPECIFICATION ScanSpec
CONSTANTS
  StartAddress = 0
  EndAddress = 1
  MaxChannels = 2
  AutoMap = TRUE
INVARIANTS
  EveryAnswerSuggested
CHECK_DEADLOCK FALSE
