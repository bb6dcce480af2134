SPECIFICATION Spec
CONSTANTS
  PageSize = 1
  Uids = {1, 2, 3}
  Prompt <- ImagePrompts
  MaxTokens <- ImageTokens
  Multimodal = {2}
  Vocab = {1, 2}
  Eos = 2
  NumPages = 7
  RebuildSizes = {4}
  RebuildLimit = 1
  ConfigMaxSeqLen = 4
  MaxRunningReqs = 2
  PrefillBudget = 3
  Overlap = TRUE
INVARIANTS
  ControlInv
  RowsHoldOwnKV
  HostFollowsDevice
  TablesOwnedOnce
  InFlightHolds
  AckedIsGone
  StopsExactly
PROPERTIES
  EngineSpec
  RebuildOnlyIdle
