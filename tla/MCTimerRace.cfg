CONSTANTS
  Users = {u1}
  CallbackStops = TRUE
  MaxStarts = 1

SPECIFICATION TimerSpec

INVARIANT NoJoinableDropped
