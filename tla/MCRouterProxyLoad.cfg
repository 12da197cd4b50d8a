SPECIFICATION Spec
CONSTANTS
  whale = whale
  short1 = short1
  short2 = short2
  rep1 = rep1
  rep2 = rep2
  Requests = {whale, short1}
  Replicas = {rep1}
  NoReplica = NoReplica
  GateEnabled = FALSE
  NvmlMayFail = TRUE
  PeakCap = 5
  Window = 2
  PollInterval = 1
  RecheckInterval = 2
  HoldTime = 2
  JPrefill = 1
  JDecode = 1
  BytesPerToken = 1
  WhaleThreshold = 2
  Prompt <- MCPrompt
  MaxTokens <- MCMaxTokens
  PowerLevels = {2, 6}
  ResponseSizes = {0, 4}
  MaxLate = 1
INVARIANT NoRequestNoLoad
CHECK_DEADLOCK FALSE
