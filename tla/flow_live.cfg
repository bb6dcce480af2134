SPECIFICATION FairSpec
CONSTANTS
  Uids = {0, 1}
  MaxTokens = 1
  BadPrompts = {}
  Tokenizers = {"shared"}
  Detokenizer = "shared"
  LocalBs = 2
  GateLimit = 1
  MaxRebuilds = 0
  StopRounds = 1
  SendFails = FALSE
  MaxDeaths = 0
  ListenerStarted = FALSE
INVARIANTS
  GateBoundsBackend
PROPERTIES
  ClientsAnswered
  StopSeals
CHECK_DEADLOCK FALSE
