CONSTANTS
  Layouts <- MCSafeLayouts
  NPartitions = 2
  MaxWrites = 3
CHECK_DEADLOCK FALSE
SPECIFICATION StoreSpec
INVARIANTS PartitionsKept
