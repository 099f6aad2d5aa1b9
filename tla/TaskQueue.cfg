CONSTANTS
  NThreads = 3
  MaxTasks = 8
SPECIFICATION FairSpec
INVARIANTS PhaseSeparation NoOneLeftBehind IInv
PROPERTIES ImplementsPhased ExecuteReturns
