CONSTANTS
  Workers = {w1, w2}
  Configs <- MCConfigs
  AddressValues <- MCAddressValues
  Size <- MCSize
  Address <- MCAddress
  WordSize = 2
  Null = Null
SYMMETRY WorkerSymmetry
CHECK_DEADLOCK FALSE
SPECIFICATION Spec
INVARIANTS NoFalseNegatives OnlyBitsOfKeys
