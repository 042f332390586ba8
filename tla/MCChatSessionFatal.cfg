CONSTANTS
  Prompts <- MCPrompts
  SystemPrompts <- MCSystemPrompts
  DefaultSystem = DefaultSystem
  NoPrompt = NoPrompt
  NotGiven = NotGiven
  InvalidText = InvalidText
  NoCall = NoCall
  NoTopic = NoTopic
  Responses <- ProtocolResponses
  Faults <- HttpOnly
  MaxSessions = 1
  MaxRequests = 2

SPECIFICATION Spec

INVARIANT Persisted

CHECK_DEADLOCK FALSE
