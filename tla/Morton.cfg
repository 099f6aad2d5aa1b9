CONSTANTS
  Configs <- MCConfigs
  HashValues <- MCHashValues
  Size <- MCSize
  Address <- MCAddress
  Alternative <- MCAlternative
  NumberOfBits <- MCNumberOfBits
  block_size = 16
  MAX_ITERATION = 3
  Null = Null
CHECK_DEADLOCK FALSE
SPECIFICATION Spec
INVARIANTS TypeOK CountersFresh VictimFound Conserved NoFalseNegatives
