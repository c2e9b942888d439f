\* Two devices use one invitation before either has the log of the other.
CONSTANTS
  o = o
  a = a
  b = b
  m0 = m0
  m1 = m1
  m2 = m2
  Devices = {o, a, b}
  Owner = o
  Members = {m0, m1, m2}
  Founder = m0
  Rejoins = FALSE
  OwnCopies = FALSE
  MaxKeys = 3
  MaxRevokes = 1
  MaxCopies = 2
SPECIFICATION Spec
INVARIANT InviteUsedOnce
CHECK_DEADLOCK FALSE
