\* The chunk-size rules with small numbers.
SPECIFICATION FairSpec
CONSTANTS
  MinTokens = 1
  MaxTokens = 6
  StartTokens = 2
  Target = 2
  Hold = 3
  Slo = 8
  AimdStep = 1
  WindowLength = 4
  WindowMin = 2
  Percentile = 50
  CvarPercentile = 50
  AlphaMinPrefill = 2
  AlphaFloor = 1
  Cutoff = 12
  LongCutoff = 16
  TokenTime = 2
  Modes <- AllModes
  Depths <- DepthsConsidered
  Gaps <- GapsConsidered
  Placed <- PlacedConsidered
INVARIANTS
  TypeOK
  FeedforwardSettles
  PredictedWithinSlo
PROPERTIES
  ChangesAfterHold
  ChangesApart
  TailDecides
  DepthDecidesInTheEnd
