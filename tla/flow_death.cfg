SPECIFICATION FairSpec
CONSTANTS
  Uids = {0}
  MaxTokens = 1
  BadPrompts = {}
  Tokenizers = {"shared"}
  Detokenizer = "shared"
  LocalBs = 2
  GateLimit = 1
  MaxRebuilds = 1
  StopRounds = 1
  SendFails = FALSE
  MaxDeaths = 1
  ListenerStarted = TRUE
PROPERTIES
  ClientsAnswered
  RebuildsEnd
  AdmissionStaysClosed
CHECK_DEADLOCK FALSE
