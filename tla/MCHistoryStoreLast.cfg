CONSTANTS
  Procs = {p1, p2}
  Ids = {a, b, c}
  NoSession = NoSession
  NoTopic = NoTopic
  NoProc = NoProc
  Faults <- NoFaults
  MaxConversations = 3
  MaxClock = 1

SPECIFICATION Spec

PROPERTY ContinuesLastSaved

\* Without faults nothing takes a process out of the chat that the bound ends.
CHECK_DEADLOCK FALSE
