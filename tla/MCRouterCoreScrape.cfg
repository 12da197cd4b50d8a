SPECIFICATION Spec
CONSTANTS
  One = 4
  EpsilonInv = 100
  SmallInv = 1000
  N = 2
  whale = whale
  short = short
  Prompts = {whale, short}
  BlockSize = 2
  Blocks <- MCBlocks
  Rest <- MCRest
  WhaleThreshold = 3
  TokenBudget <- MCBudget
  MaxNumSeqs <- MCSeqs
  RampCeiling <- MCRampCeiling
  LevelCeiling <- MCLevelCeiling
  Floor = 1
  WindowSize = 3
  Percentile = 99
  SmoothNum = 1
  SmoothDen = 2
  LagDepth = 1
  Setups <- MCScrapedOnly
  PowerLevels = {0, 2}
  Gaps = {0, 1}
  QueueLengths = {1}
  MaxDecisions <- MCDecisions
  MaxPolls <- MCPolls
PROPERTIES
  BusyReplicaNeverLooksEmpty
CHECK_DEADLOCK FALSE
