\* Two processes that load, and build one at a time.
CONSTANTS
  p1 = p1
  p2 = p2
  a = a
  b = b
  Procs = {p1, p2}
  Files = {a, b}
  Builders = {p1, p2}
  MaxSegments = 1
  SideBySide = FALSE
  HintsMayRace = FALSE
  DiskMayFail = FALSE
  MaxBuilds = 2
  MaxQueries = 2
  MaxEdits = 1
  MaxTrouble = 1
SYMMETRY ProcsAndFiles
SPECIFICATION Spec
INVARIANTS
  LoadIsASnapshot
  CommittedSegmentsStay
  IndexCoversCards
  BuildEndsWhole
CHECK_DEADLOCK FALSE
