SPECIFICATION Spec
CONSTANTS
    Uids = {0, 1, 2, 3}
    Prompt <- Prompts
    OutputLen <- Outputs
    Vocab = {7, 9}
    Eos = 9
    Anchor = 7
    CHUNK_SIZE = 2
    PageSize = 2
    NumPages = 8
    NumSlots = 8
    MaxRunningReqs = 2
    PrefillBudget = 7
    Abortable = {1}
INVARIANTS
  PoolsConserved
  StatesMatchPrefixes
  LeavesResume
  SlotsSuffice
