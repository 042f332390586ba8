CONSTANTS
  f = f
  g = g
  Newline = "newline"
  Characters <- MCCharacters
  Null = Null
  Refused = Refused
  Width = 4
  Callers = {p1, p2}
  Paths = {f, g}
  Absent = Absent
  Nowhere = Nowhere
  Calls <- MCCalls
  FirstFiles <- MCFirstFiles
  OutsideTexts <- MCOutsideTexts
  MaxCalls = 2
  MaxOutside = 1

SPECIFICATION Spec
SYMMETRY Symmetry
CHECK_DEADLOCK FALSE

INVARIANTS

  LinesAreReplaced
  EditsAreApplied
  ChunksAddUp

PROPERTY CallsKeepTheirWord
