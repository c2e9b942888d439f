\* A whole turn under five settings of the guards.
CONSTANTS
  Knobs <- AllKnobs
  Top = 1
  MaxCalls = 2
SPECIFICATION FairSpec
INVARIANTS
  StopIsEarned
  CallsAnswered
PROPERTIES
  EndsWithoutProgress
  CancelEnds
