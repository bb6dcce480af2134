SPECIFICATION FairSpec
CONSTANTS
  PageSize = 2
  Uids = {1, 2}
  Prompt <- PairPrompts
  MaxTokens <- PairTokens
  Multimodal = {}
  Vocab = {1, 2}
  Eos = 2
  NumPages = 4
  RebuildSizes = {1}
  RebuildLimit = 1
  ConfigMaxSeqLen = 6
  MaxRunningReqs = 2
  PrefillBudget = 2
  Overlap = TRUE
PROPERTIES
  RequestsEnd
  RebuildsAnswered
INVARIANTS
  IdleIntegrity
