\* Runs of many small workflows, with users who answer and stop at any time.
CONSTANTS
  Graphs <- AllGraphs
  MaxSlices = 3
SPECIFICATION FairSpec
INVARIANTS
  NothingLost
  NothingLeftBehind
  ValidNeverDeadlocks
PROPERTIES
  KeepsPromise
  RunEnds
