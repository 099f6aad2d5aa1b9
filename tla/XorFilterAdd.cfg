CONSTANTS
  NPartitions = 2
  LaneCounts = {1}
  MaxRetries = 2
  MaxInits = 2
SPECIFICATION Spec
INVARIANTS AddReportsOutcome
