CONSTANTS
  NPartitions = 2
  LaneCounts = {1, 2}
  MaxRetries = 3
  MaxInits = 2
SPECIFICATION Spec
INVARIANTS ConstructReportsOutcome RetriesReported
PROPERTIES BuildsEach
