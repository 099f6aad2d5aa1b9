CONSTANTS
  NPartitions = 3
  Alignment = 4
  Lanes = 2
  MaxLength = 7
  MaxPerLevel = 5
SPECIFICATION CountSpec
INVARIANTS CountTypeOK NoneTwice NoneMissed CountExact
