CONSTANTS
  Finishes = {"stop", "tool_calls"}
  Null = Null
  MaxChoices = 2
  MaxCalls = 2
  MaxEvents = 4

SPECIFICATION StreamSpec
CHECK_DEADLOCK FALSE

INVARIANTS
  StreamedIsWhole
  ShownIsSaid
