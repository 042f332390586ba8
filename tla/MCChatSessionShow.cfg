CONSTANTS
  Prompts <- MCPrompts
  SystemPrompts <- MCSystemPrompts
  DefaultSystem = DefaultSystem
  NoPrompt = NoPrompt
  NotGiven = NotGiven
  InvalidText = InvalidText
  NoCall = NoCall
  NoTopic = NoTopic
  Responses <- ProtocolResponses
  Faults <- BinaryOnly
  MaxSessions = 2
  MaxRequests = 2

SPECIFICATION Spec

INVARIANT PairedWhateverShown

CHECK_DEADLOCK FALSE
