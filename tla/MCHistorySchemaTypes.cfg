CONSTANTS
  Procs = {p1, p2}
  NoProc = NoProc
  OldSchemas <- Earlier
  SchemaFaults <- AllFaults
  MaxRuns = 3
  MaxFailed = 2

SPECIFICATION SchemaSpec

CHECK_DEADLOCK FALSE

INVARIANT SchemaTypeOK
