CONSTANTS
  Prompts <- MCPrompts
  SystemPrompts <- MCSystemPrompts
  DefaultSystem = DefaultSystem
  NoPrompt = NoPrompt
  NotGiven = NotGiven
  InvalidText = InvalidText
  NoCall = NoCall
  NoTopic = NoTopic
  Responses <- MCResponses
  Faults <- AllFaults
  MaxSessions = 2
  MaxRequests = 3

SPECIFICATION Spec

INVARIANTS

  RequestsWellPaired
  SystemFirst
  Lineage
  ToolsRecorded
  PromptSentOnce

PROPERTIES
  LogSpec
  LocalProgress

\* With the last session saved the history is full: no invocation is left.
CHECK_DEADLOCK FALSE
