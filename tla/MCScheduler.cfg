\* Every admissible pair of controllers over three requests.
SPECIFICATION FairSpec
CONSTANTS
  Requests = {"whale", "chat", "late"}
  PromptOf <- Prompts
  OutputOf <- Outputs
  Blockable = {"late"}
  MaxScheduled = 3
  MaxRunning = 3
  Controllers <- AllControllers
  MaxStack = 2
  Gate = 2
  ExitGate = 0
  Protect = 1
  CongestShare = 50
  Lo = 3
  Hi = 2
  HiThreshold = 1
  WhaleTok = 2
  BacklogThresh = 2
  Quantum = 1
  MaxBank = 3
INVARIANTS
  TypeOK
  NewestRunsLast
  DecodeFirst
  EarnedOnly
  WhalesSliced
  ScheduledWithinMax
PROPERTY
  EveryRequestServed
CHECK_DEADLOCK FALSE
