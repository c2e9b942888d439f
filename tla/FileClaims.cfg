\* Two people and one file with three contents, calls that overlap and calls that do not.
CONSTANTS
  a = a
  b = b
  v1 = v1
  v2 = v2
  v3 = v3
  People = {a, b}
  Contents = {v1, v2, v3}
  Starts <- FirstOfA
  Lease = 2
  None = None
SPECIFICATION CollabSpec
PROPERTIES
  CheckinCoversNothing
  AskerGetsFile
CHECK_DEADLOCK FALSE
