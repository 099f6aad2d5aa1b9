CONSTANTS
  Keys = {1, 2, 3, 4}
  FingerprintBits <- MCFingerprintBits
  HashBits <- MCHashBits
  HashChoices <- MCHashChoices
  NSlots = 2
  Address <- MCAddress
  FuseSegments = 2
  Segment <- MCSegment
  Fingerprint <- MCFingerprint
  MaxRetries = 1
  Null = Null
CHECK_DEADLOCK FALSE
SPECIFICATION FairSpec
INVARIANTS TypeOK NoFalseNegatives ArraysSuffice PeelOrder OnlyCoreRejected AssignedStays
PROPERTIES ImplementsBuild Terminates
