SPECIFICATION Spec
CONSTANTS
  Uids = {0, 1}
  MaxTokens = 2
  BadPrompts = {1}
  Tokenizers = {"t0", "t1"}
  Detokenizer = "detok"
  LocalBs = 2
  GateLimit = 1
  MaxRebuilds = 1
  StopRounds = 1
  SendFails = TRUE
  MaxDeaths = 0
  ListenerStarted = FALSE
INVARIANTS
  TypeOK
  InFlightUntilLastToken
  SealedTotalsFinal
  RebuildOwnsGate
  NoDecodeLeak
