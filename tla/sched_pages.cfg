SPECIFICATION Spec
CONSTANTS
  PageSize = 2
  Uids = {1, 2, 3}
  Prompt <- ForkedPrompts
  MaxTokens <- ForkedTokens
  Multimodal = {}
  Vocab = {1, 2}
  Eos = 2
  NumPages = 5
  RebuildSizes = {4}
  RebuildLimit = 0
  ConfigMaxSeqLen = 6
  MaxRunningReqs = 2
  PrefillBudget = 3
  Overlap = TRUE
INVARIANTS
  TypeOK
  PagesConserved
  RowsHoldOwnKV
  TreeHoldsPrefixKV
  AllocationSucceeds
  RefCountsExact
