--------------------------- MODULE MCChatSession ---------------------------
(***************************************************************************)
(* ChatSession on a small instance: the answers the server may give.       *)
(***************************************************************************)
EXTENDS ChatSession, TLC

Stop == [finish |-> "stop", calls |-> 0]
Calls(n) == [finish |-> "tool_calls", calls |-> n]

\* What a server that keeps the protocol answers.
ProtocolResponses ==
  {<<Stop>>, <<Calls(2)>>, <<[finish |-> "length", calls |-> 0]>>}

\* And what others do: no choice, two choices, calls that are not announced,
\* an announcement without calls.
MCResponses ==
  ProtocolResponses \cup
    {<< >>, <<Calls(1), Stop>>, <<[finish |-> "other", calls |-> 1]>>,
     <<Calls(0)>>}

MCPrompts == {"hello"}
MCSystemPrompts == {"terse"}
AllFaults == FaultKinds
HttpOnly == {"http"}
BinaryOnly == {"binary"}
=============================================================================
