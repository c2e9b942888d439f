\* All versions of short documents and small sheets.
CONSTANTS
  x = x
  y = y
  z = z
  w = w
  plain = plain
  bold = bold
  null = null
  Docs <- SomeDocs
  Sheets <- SomeSheets
SYMMETRY Texts
SPECIFICATION Spec
INVARIANTS
  OneSideStands
  NothingIsDropped
  SidesAreAlike
  WrittenHoldsMerge
CHECK_DEADLOCK FALSE
