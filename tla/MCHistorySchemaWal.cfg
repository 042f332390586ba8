CONSTANTS
  Procs = {p1, p2}
  NoProc = NoProc
  OldSchemas <- Earlier
  SchemaFaults <- NoFaults
  MaxRuns = 2
  MaxFailed = 2

SPECIFICATION SchemaSpec

CHECK_DEADLOCK FALSE

INVARIANT WalForAll
