CONSTANTS
  Users = {u1, u2}
  CallbackStops = TRUE
  MaxStarts = 2

SPECIFICATION TimerSpec

INVARIANT TimerTypeOK
