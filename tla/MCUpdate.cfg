CONSTANTS
  Updaters = {p1, p2}
  Versions <- MCVersions
  Unversioned = Unversioned
  Absent = Absent
  Depth = 3
  MaxRuns = 2

SPECIFICATION Spec
SYMMETRY Symmetry
CHECK_DEADLOCK FALSE

INVARIANTS

  CopySurvives
  CopyAtHand
  ReturnedIsTidy

PROPERTY UpgradesOnly
