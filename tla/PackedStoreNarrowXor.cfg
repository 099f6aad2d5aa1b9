CONSTANTS
  Layouts <- MCNarrowXor
  NPartitions = 2
  MaxWrites = 2
CHECK_DEADLOCK FALSE
SPECIFICATION StoreSpec
INVARIANTS PartitionsKept
