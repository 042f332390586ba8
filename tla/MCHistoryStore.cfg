CONSTANTS
  Procs = {p1, p2}
  Ids = {a, b}
  NoSession = NoSession
  NoTopic = NoTopic
  NoProc = NoProc
  Faults <- AllFaults
  MaxConversations = 3
  MaxClock = 1

SPECIFICATION Spec

INVARIANTS

  LockDiscipline
  ReturnedMeansOwn

PROPERTIES
  LogSpec
  SaveReturns
