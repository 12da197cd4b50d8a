SPECIFICATION Spec
CONSTANTS
  whale = whale
  short = short
  Requests = {whale, short}
  Instances <- MCInstances
  Capped = {"prefill", "decode"}
  Cap <- MCCap
  Window = 1
  PollInterval = 1
  RecheckInterval = 2
  HoldTime = 2
  JPrefill = 1
  JDecode = 1
  BytesPerToken = 1
  Prompt <- MCPrompt
  MaxTokens <- MCMaxTokens
  Readings <- MCReadings
  ResponseSizes = {4}
INVARIANTS
  TypeOK
  LedgersExact
  ReservedInAll
  WindowsInStep
  PoolsBalanced
PROPERTIES
  PrefillKeepsPromise
  DecodeKeepsPromise
CHECK_DEADLOCK FALSE
