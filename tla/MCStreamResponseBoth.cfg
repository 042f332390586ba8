CONSTANTS
  Finishes = {"stop", "tool_calls"}
  Null = Null
  MaxChoices = 1
  MaxCalls = 2
  MaxEvents = 3

SPECIFICATION StreamSpec
CHECK_DEADLOCK FALSE

INVARIANT SpeechShownOutside
