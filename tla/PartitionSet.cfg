CONSTANTS
  NThreads = 2
  NTasks = 3
  NPartitions = 2
  LineSize = 2
  MaxLength = 7
  Inputs <- MCInputs
  Null = Null
  Garbage = Garbage
SPECIFICATION Spec
INVARIANTS TypeOK Partitioned DisjointWrites NoUseAfterFree NoCarryOver
