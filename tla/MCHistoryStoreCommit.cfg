CONSTANTS
  Procs = {p1, p2}
  Ids = {a, b}
  NoSession = NoSession
  NoTopic = NoTopic
  NoProc = NoProc
  Faults <- CommitOnly
  MaxConversations = 2
  MaxClock = 1

SPECIFICATION Spec

INVARIANT ReturnedMeansStored

\* Without faults nothing takes a process out of the chat that the bound ends.
CHECK_DEADLOCK FALSE
