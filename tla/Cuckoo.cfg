CONSTANTS
  Configs <- MCConfigs
  HashValues <- MCHashValues
  Size <- MCSize
  Address <- MCAddress
  Alternative <- MCAlternative
  BucketCounts <- MCBucketCounts
  RegisterBuckets = 2
  MAX_ITERATION = 3
  NSeeds = 2
  Null = Null
CHECK_DEADLOCK FALSE
SPECIFICATION FairSpec
INVARIANTS TypeOK AlternativesLeadBack Conserved LossesReported NoFalseNegatives FailureHasReason
PROPERTY Terminates
