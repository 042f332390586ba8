---------------------------- MODULE ChatSession ----------------------------
(***************************************************************************)
(* One `ai chat` invocation after another on one history (chat.cc), each   *)
(* with the OpenAIClient::chat it calls in a loop (openai.cc) and the save *)
(* that its scope_exit runs when the function is left.                     *)
(*                                                                         *)
(* The server, the tools, the database and the user are the environment:   *)
(* the server answers any member of Responses or fails, a tool returns     *)
(* text or bytes that are not UTF-8 and that may be impossible to show, a  *)
(* save may fail and the process may be killed, as far as Faults allows.   *)
(***************************************************************************)
EXTENDS Naturals, FiniteSets, SequencesExt

CONSTANTS
  Prompts,         \* texts of user prompts
  SystemPrompts,   \* texts given with --system
  DefaultSystem,   \* what build_default_system_prompt returns
  NoPrompt,        \* no text: no prompt argument, or image files only
  NotGiven,        \* --system is absent
  InvalidText,     \* an argument that is not UTF-8
  NoCall,          \* the tool_call_id of a message that is no tool's
  NoTopic,         \* the empty topic
  Responses,       \* the lists of choices a response may carry
  Faults,          \* what may go wrong, of FaultKinds
  MaxSessions,     \* BOUND: saved sessions
  MaxRequests      \* BOUND: requests of an invocation; the server answers
                   \*   the last one without asking for tools

FaultKinds == {"network", "http", "chunk", "binary", "db", "topic", "kill"}

NoSession == 0
Text == Prompts \cup SystemPrompts \cup
          {DefaultSystem, NoPrompt, "reply", "text", "binary"}
Finish == {"stop", "tool_calls", "length", "other"}

(***************************************************************************)
(* The server names its calls: by session, request, choice and position.   *)
(***************************************************************************)
CallId == Nat \X Nat \X Nat \X Nat

(***************************************************************************)
(* A choice of a response, as the server sends it: why the model stopped   *)
(* and how many tool calls the message holds.  "length" stands for the     *)
(* three reasons that end the chat with an error, "other" for unknown ones *)
(* and for none.                                                           *)
(***************************************************************************)
Choice == [finish : Finish, calls : Nat]

(***************************************************************************)
(* A message of the conversation: an object of the JSON array.             *)
(***************************************************************************)
Message == [role : {"system", "user", "assistant", "tool"}, text : Text,
            calls : Seq(CallId), id : CallId \cup {NoCall}]

Session == [id : Nat, parent : Nat, messages : Seq(Message),
            topic : Seq(Message) \cup {NoTopic}]

ASSUME TextAssumption ==
  /\ {NoPrompt, InvalidText, "reply", "text", "binary"} \cap Prompts = {}
  /\ {NoPrompt, NotGiven, InvalidText, "binary"} \cap
       (SystemPrompts \cup {DefaultSystem}) = {}
  /\ "binary" # NoPrompt /\ InvalidText # NoPrompt
ASSUME NoneAssumption == NoCall \notin CallId /\ NoTopic \notin Seq(Message)
ASSUME ResponsesAssumption == Responses \subseteq Seq(Choice)
ASSUME FaultsAssumption == Faults \subseteq FaultKinds
ASSUME BoundsAssumption == MaxSessions \in Nat /\ MaxRequests \in Nat

VARIABLES
  phase,          \* where chat() is: see Phases
  given,          \* the prompt on the command line
  user_prompt,    \* the prompt of the next request
  system_prompt,
  chat_history,
  parent,         \* id of the session continued, or NoSession
  response,       \* the choice being worked on: its calls still to run
  requests,       \* requests sent by this invocation
  status,         \* how the invocation ends or has ended
  session_id,     \* what create_session returned
  sessions,       \* the history database
  executed,       \* ghost: the calls this invocation has run
  conforming,     \* ghost: every response so far kept the protocol
  torn            \* ghost: some round so far ended before a tool's result

input  == <<given, system_prompt, parent>>
ghosts == <<executed, conforming, torn>>
vars == <<phase, given, user_prompt, system_prompt, chat_history, parent,
          response, requests, status, session_id, sessions, executed,
          conforming, torn>>

(***************************************************************************)
(* "request" is the head of the loop, "waiting" is curl_easy_perform,      *)
(* "tools" the rest of the loop's body, "exit" and "topic" the two halves  *)
(* of the scope_exit; no process runs in "idle".                           *)
(***************************************************************************)
Phases == {"idle", "request", "waiting", "tools", "exit", "topic"}
Statuses == {"none", "running", "ok", "error", "fatal", "terminated",
             "crashed", "killed"}
Idle == [finish |-> "other", calls |-> << >>]

TypeOK ==
  /\ phase \in Phases
  /\ given \in Prompts \cup {NoPrompt, InvalidText}
  /\ user_prompt \in Prompts \cup {NoPrompt, InvalidText}
  /\ system_prompt \in SystemPrompts \cup {DefaultSystem, NoPrompt}
  /\ phase = "request" => user_prompt # InvalidText
  /\ chat_history \in Seq(Message)
  /\ parent \in Nat
  /\ response \in [finish : Finish, calls : Seq(CallId)]
  /\ requests \in Nat
  /\ status \in Statuses
  /\ session_id \in Nat
  /\ sessions \in Seq(Session)
  /\ executed \in SUBSET CallId
  /\ conforming \in BOOLEAN
  /\ torn \in BOOLEAN

-----------------------------------------------------------------------------
(***************************************************************************)
(* The messages chat() and OpenAIClient::chat make.                        *)
(***************************************************************************)
PlainMessage(role, text) ==
  [role |-> role, text |-> text, calls |-> << >>, id |-> NoCall]

AssistantMessage(calls) ==
  [role |-> "assistant", text |-> "reply", calls |-> calls, id |-> NoCall]

ToolMessage(id, text) ==
  [role |-> "tool", text |-> text, calls |-> << >>, id |-> id]

\* Mutant of DropSystem: the history keeps its own system messages.
KeepSystem(h) == h

(***************************************************************************)
(* The history without its system messages, in order: the loop of          *)
(* openai.cc 183-191 under a system prompt.  It is SelectSeq, written by   *)
(* rank so that facts about it need no induction.                          *)
(***************************************************************************)
Kept(h) == {i \in DOMAIN h : h[i].role # "system"}
RankOf(h, i) == Cardinality({k \in Kept(h) : k <= i})
DropSystem(h) ==
  [j \in 1..Cardinality(Kept(h)) |->
     h[CHOOSE i \in Kept(h) : RankOf(h, i) = j]]

(***************************************************************************)
(* The messages of the next request, which become the chat history before  *)
(* anything is sent (openai.cc 179-208).                                   *)
(***************************************************************************)
WithSystem(h) ==
  IF system_prompt = NoPrompt THEN h
  ELSE <<PlainMessage("system", system_prompt)>> \o DropSystem(h)

RequestMessages ==
  IF user_prompt = NoPrompt THEN WithSystem(chat_history)
  ELSE Append(WithSystem(chat_history), PlainMessage("user", user_prompt))

\* request.dump() throws on a string that is not UTF-8.
HoldsBinary(h) == \E i \in DOMAIN h : h[i].text = "binary"

\* The ids of the tool calls of choice j of the response received now.
CallIds(cs, j) ==
  [k \in 1..cs[j].calls |-> <<Len(sessions) + 1, requests, j, k>>]

\* Mutant of RecordedCalls: the calls are never put on record.
NeverRecorded(c, ids) == << >>

\* openai.cc 364: only this finish_reason puts the calls on record.
RecordedCalls(c, ids) == IF c.finish = "tool_calls" THEN ids ELSE << >>

(***************************************************************************)
(* What the API promises of a response: one choice, and "tool_calls" as    *)
(* its finish_reason exactly when it holds tool calls.                     *)
(***************************************************************************)
Conforms(cs) ==
  Len(cs) = 1 /\ (cs[1].finish = "tool_calls" <=> cs[1].calls > 0)

-----------------------------------------------------------------------------
(***************************************************************************)
(* How an invocation ends.  Return leaves the try block of chat.cc 105, so *)
(* the scope_exit runs next; Die ends the process on the spot: std::exit   *)
(* by LOG(FATAL) (logging.cc 198-200), std::terminate, or a signal.  The   *)
(* process's memory is gone then, only the database is left.               *)
(***************************************************************************)
Return(code) ==
  /\ phase' = "exit"
  /\ status' = code
  /\ UNCHANGED <<input, user_prompt, response, requests, session_id, sessions>>

Die(how) ==
  /\ phase' = "idle"
  /\ status' = how
  /\ given' = NoPrompt
  /\ user_prompt' = NoPrompt
  /\ system_prompt' = NoPrompt
  /\ chat_history' = << >>
  /\ parent' = NoSession
  /\ response' = Idle
  /\ requests' = 0
  /\ session_id' = NoSession

\* Mutant of LoadedFrom: the parent is named but its messages are not read.
LoadedNothing(base) == << >>

(***************************************************************************)
(* chat.cc 30-66: the session the new one continues, and its messages.     *)
(***************************************************************************)
LoadedFrom(base) ==
  IF base = NoSession THEN << >> ELSE sessions[base].messages

\* chat.cc 107-138: every argument has to be UTF-8.
ArgumentsValid(prompt, system) == InvalidText \notin {prompt, system}

(***************************************************************************)
(* chat.cc 30-159, up to the loop: the messages of session base, the check *)
(* that every argument is UTF-8, and the system prompt.                    *)
(***************************************************************************)
Begin(prompt, system, base) ==
  /\ phase = "idle"
  /\ Len(sessions) < MaxSessions
  /\ given' = prompt
  /\ chat_history' = LoadedFrom(base)
  /\ parent' = base
  /\ user_prompt' = prompt
  /\ system_prompt' =
       CASE system \in SystemPrompts -> system
         [] system = NotGiven /\ chat_history' = << >> -> DefaultSystem
         [] OTHER -> NoPrompt
  /\ IF ArgumentsValid(prompt, system)
     THEN phase' = "request" /\ status' = "running"
     ELSE phase' = "exit" /\ status' = "error"
  /\ executed' = {}
  /\ UNCHANGED <<response, requests, session_id, sessions, conforming, torn>>

GivenPrompt == Prompts \cup {NoPrompt, InvalidText}
GivenSystem == SystemPrompts \cup {NotGiven, NoPrompt, InvalidText}

StartFresh ==
  \E prompt \in GivenPrompt, system \in GivenSystem :
    Begin(prompt, system, NoSession)

\* -C: the session with the greatest start time, which is the last one here,
\* where invocations do not overlap; none on an empty history.
ContinueLast ==
  \E prompt \in GivenPrompt, system \in GivenSystem :
    Begin(prompt, system, Len(sessions))

\* --continue-from: an id that is not found starts fresh, as StartFresh does.
ContinueFrom ==
  \E prompt \in GivenPrompt, system \in GivenSystem, id \in DOMAIN sessions :
    Begin(prompt, system, id)

-----------------------------------------------------------------------------
(***************************************************************************)
(* OpenAIClient::chat.  openai.cc 165-177: without a prompt there must be  *)
(* a message of the user's or a tool's that still waits for an answer.     *)
(***************************************************************************)
AwaitsAnswer(h) == h # << >> /\ Last(h).role \in {"user", "tool"}

NothingToSend == user_prompt = NoPrompt /\ ~AwaitsAnswer(chat_history)

GiveUp ==
  /\ phase = "request"
  /\ NothingToSend
  /\ Return("error")
  /\ UNCHANGED <<chat_history, ghosts>>

\* Mutant of Send: what cannot be serialised is tried again.
SendRetries ==
  /\ phase = "request"
  /\ ~NothingToSend
  /\ chat_history' = RequestMessages
  /\ user_prompt' = NoPrompt
  /\ IF HoldsBinary(RequestMessages)
     THEN UNCHANGED <<phase, requests>>
     ELSE phase' = "waiting" /\ requests' = requests + 1
  /\ UNCHANGED <<input, response, status, session_id, sessions, ghosts>>

(***************************************************************************)
(* The history is replaced, then the request is serialised: a tool result  *)
(* that is not UTF-8 makes dump() throw (295), which chat.cc 278 catches.  *)
(***************************************************************************)
Send ==
  /\ phase = "request"
  /\ ~NothingToSend
  /\ chat_history' = RequestMessages
  /\ IF HoldsBinary(RequestMessages)
     THEN Return("error")
     ELSE /\ phase' = "waiting"
          /\ requests' = requests + 1
          /\ UNCHANGED <<input, user_prompt, response, status, session_id,
                         sessions>>
  /\ UNCHANGED ghosts

(***************************************************************************)
(* curl fails (324-332), or the body is not the JSON that is expected      *)
(* (350-352): the exception is caught at chat.cc 278.                      *)
(***************************************************************************)
RequestFails ==
  /\ phase = "waiting"
  /\ "network" \in Faults
  /\ Return("error")
  /\ UNCHANGED <<chat_history, ghosts>>

(***************************************************************************)
(* While streaming, a bad chunk throws out of a callback that libcurl's C  *)
(* code called: unwinding through it is undefined, and a libcurl built     *)
(* without unwind tables ends the program.  One with them: RequestFails.   *)
(***************************************************************************)
BadChunk ==
  /\ phase = "waiting"
  /\ "chunk" \in Faults
  /\ Die("terminated")
  /\ UNCHANGED <<sessions, ghosts>>

\* openai.cc 337-345: LOG(FATAL) ends the process, saving nothing.
HttpError ==
  /\ phase = "waiting"
  /\ "http" \in Faults
  /\ Die("fatal")
  /\ UNCHANGED <<sessions, ghosts>>

(***************************************************************************)
(* The response arrives (openai.cc 354-370, chat.cc 166-211).  The first   *)
(* choice is recorded and the last one acted upon.  BOUND: the server does *)
(* not go on asking for tools after MaxRequests requests.                  *)
(***************************************************************************)
Receive(cs) ==
  LET recorded == RecordedCalls(cs[1], CallIds(cs, 1))
      last == cs[Len(cs)]
  IN
  /\ phase = "waiting"
  /\ cs # << >>
  /\ ~(last.finish = "tool_calls" /\ last.calls = 0)
  /\ requests >= MaxRequests => last.finish # "tool_calls"
  /\ chat_history' = Append(chat_history, AssistantMessage(recorded))
  /\ response' = [finish |-> last.finish, calls |-> CallIds(cs, Len(cs))]
  /\ phase' = "tools"
  /\ conforming' = (conforming /\ Conforms(cs))
  /\ UNCHANGED <<input, user_prompt, requests, status, session_id, sessions,
                 executed, torn>>

\* back() of an empty vector (chat.cc 166-169) reads before its null storage.
ReceiveNoChoice(cs) ==
  /\ phase = "waiting"
  /\ cs = << >>
  /\ conforming' = FALSE
  /\ Die("crashed")
  /\ UNCHANGED <<sessions, executed, torn>>

\* chat.cc 206-209: the calls that "tool_calls" announces are missing.
ReceiveNoCalls(cs) ==
  /\ phase = "waiting"
  /\ cs # << >>
  /\ cs[Len(cs)].finish = "tool_calls"
  /\ cs[Len(cs)].calls = 0
  /\ conforming' = FALSE
  /\ Die("fatal")
  /\ UNCHANGED <<sessions, executed, torn>>

-----------------------------------------------------------------------------
(***************************************************************************)
(* One turn of the loop over the tool calls (chat.cc 212-252).  Whatever   *)
(* the call does, it has a result: invalid arguments, an unknown function  *)
(* and an exception are texts too.                                         *)
(***************************************************************************)
ToolResults == {"text"} \cup (IF "binary" \in Faults THEN {"binary"} ELSE {})

\* Mutant of RunTool: a call that fails leaves no message.
RunToolDropsFailure ==
  /\ phase = "tools"
  /\ response.calls # << >>
  /\ chat_history' \in
       {chat_history,
        Append(chat_history, ToolMessage(Head(response.calls), "text"))}
  /\ executed' = executed \cup {Head(response.calls)}
  /\ response' = [response EXCEPT !.calls = Tail(@)]
  /\ UNCHANGED <<phase, input, user_prompt, requests, status, session_id,
                 sessions, conforming, torn>>

RunTool ==
  /\ phase = "tools"
  /\ response.calls # << >>
  /\ \E text \in ToolResults :
       chat_history' =
         Append(chat_history, ToolMessage(Head(response.calls), text))
  /\ executed' = executed \cup {Head(response.calls)}
  /\ response' = [response EXCEPT !.calls = Tail(@)]
  /\ UNCHANGED <<phase, input, user_prompt, requests, status, session_id,
                 sessions, conforming, torn>>

(***************************************************************************)
(* The tool has run, but its result cannot be shown: utf8_truncate         *)
(* (chat.cc 238) is outside the inner try, and what the library behind it  *)
(* may throw at bytes that are not UTF-8 goes to 278.  The round ends      *)
(* between two tools, with neither this result nor those of the calls      *)
(* behind it on record.                                                    *)
(***************************************************************************)
ShowThrows ==
  /\ phase = "tools"
  /\ response.calls # << >>
  /\ "binary" \in Faults
  /\ executed' = executed \cup {Head(response.calls)}
  /\ torn' = TRUE
  /\ Return("error")
  /\ UNCHANGED <<chat_history, conforming>>

\* Mutant of ClearedPrompt: the prompt is sent again with the results.
SamePrompt == user_prompt

\* chat.cc 276: the prompt was sent, the next request carries tool results.
ClearedPrompt == NoPrompt

\* chat.cc 254-276, once every call has run.
EndRound ==
  /\ phase = "tools"
  /\ response.calls = << >>
  /\ CASE response.finish = "tool_calls" ->
            /\ phase' = "request"
            /\ user_prompt' = ClearedPrompt
            /\ UNCHANGED <<input, response, requests, status, session_id,
                           sessions>>
       [] response.finish = "length" -> Return("error")
       [] OTHER -> Return("ok")
  /\ UNCHANGED <<chat_history, ghosts>>

-----------------------------------------------------------------------------
(***************************************************************************)
(* The scope_exit (chat.cc 74-103).  On a database that is open            *)
(* create_session dumps the messages before it writes (history.cc 203);    *)
(* what that throws leaves a destructor, which ends the program.           *)
(***************************************************************************)
NewSession ==
  [id |-> Len(sessions) + 1, parent |-> parent, messages |-> chat_history,
   topic |-> NoTopic]

Save ==
  /\ phase = "exit"
  /\ ~HoldsBinary(chat_history)
  /\ sessions' = Append(sessions, NewSession)
  /\ session_id' = NewSession.id
  /\ phase' = "topic"
  /\ UNCHANGED <<input, user_prompt, chat_history, response, requests, status,
                 ghosts>>

\* The database did not open (183), whatever the messages, or refuses the row.
SaveFails ==
  /\ phase = "exit"
  /\ "db" \in Faults
  /\ phase' = "topic"
  /\ UNCHANGED <<input, user_prompt, chat_history, response, requests, status,
                 session_id, sessions, ghosts>>

SaveThrows ==
  /\ phase = "exit"
  /\ HoldsBinary(chat_history)
  /\ Die("terminated")
  /\ UNCHANGED <<sessions, ghosts>>

(***************************************************************************)
(* generate_topic asks the server only when there is text to sum up        *)
(* (history.cc 453-489); set_topic writes to the row of session_id, which  *)
(* is none when the save failed.                                           *)
(***************************************************************************)
HasText(h) == \E i \in DOMAIN h : h[i].role \in {"user", "assistant"}

\* Mutant of TopicTarget: the topic goes to the session that was continued.
TopicOfParent == parent

TopicTarget == session_id

SetTopic ==
  /\ phase = "topic"
  /\ HasText(chat_history)
  /\ sessions' = [i \in DOMAIN sessions |->
                    IF i = TopicTarget
                    THEN [sessions[i] EXCEPT !.topic = chat_history]
                    ELSE sessions[i]]
  /\ Die(status)
  /\ UNCHANGED ghosts

\* No text, or an exception caught at history.cc 564, or an empty answer.
NoTopicFound ==
  /\ phase = "topic"
  /\ ~HasText(chat_history) \/ "topic" \in Faults
  /\ Die(status)
  /\ UNCHANGED <<sessions, ghosts>>

\* The topic's own request is answered with an HTTP error: LOG(FATAL) again.
TopicHttpError ==
  /\ phase = "topic"
  /\ HasText(chat_history)
  /\ "http" \in Faults
  /\ Die("fatal")
  /\ UNCHANGED <<sessions, ghosts>>

\* A signal: nothing in the program handles one.
Kill ==
  /\ phase # "idle"
  /\ "kill" \in Faults
  /\ Die("killed")
  /\ UNCHANGED <<sessions, ghosts>>

-----------------------------------------------------------------------------
Init ==
  /\ phase = "idle"
  /\ given = NoPrompt
  /\ user_prompt = NoPrompt
  /\ system_prompt = NoPrompt
  /\ chat_history = << >>
  /\ parent = NoSession
  /\ response = Idle
  /\ requests = 0
  /\ status = "none"
  /\ session_id = NoSession
  /\ sessions = << >>
  /\ executed = {}
  /\ conforming = TRUE
  /\ torn = FALSE

Begins == StartFresh \/ ContinueLast \/ ContinueFrom

Answer ==
  \/ RequestFails \/ BadChunk \/ HttpError
  \/ \E cs \in Responses :
       Receive(cs) \/ ReceiveNoChoice(cs) \/ ReceiveNoCalls(cs)

ClientStep == GiveUp \/ Send \/ RunTool \/ ShowThrows \/ EndRound

ExitStep == Save \/ SaveFails \/ SaveThrows

TopicStep == SetTopic \/ NoTopicFound \/ TopicHttpError

Next == Begins \/ ClientStep \/ Answer \/ ExitStep \/ TopicStep \/ Kill

(***************************************************************************)
(* Only the program's own steps are fair: chat() runs on one thread.  A    *)
(* tool is not, it may wait for the user or for a command, and neither is  *)
(* the server: curl has no timeout here, so an answer may never come.      *)
(***************************************************************************)
Fairness == WF_vars(GiveUp \/ Send \/ EndRound) /\ WF_vars(ExitStep)

Spec == Init /\ [][Next]_vars /\ Fairness

-----------------------------------------------------------------------------
(***************************************************************************)
(* Properties.                                                             *)
(*                                                                         *)
(* The order the API asks for: behind an assistant message with tool calls *)
(* come their results, one per call and in order, and a result is nowhere  *)
(* else.                                                                   *)
(***************************************************************************)
Answers(h, i, j) ==
  /\ h[j].role = "assistant"
  /\ i - j \in DOMAIN h[j].calls
  /\ h[j].calls[i - j] = h[i].id

WellPaired(h) ==
  /\ \A i \in DOMAIN h : h[i].role = "tool" =>
       \E j \in 1..(i - 1) : Answers(h, i, j)
  /\ \A j \in DOMAIN h : \A k \in DOMAIN h[j].calls :
       /\ j + k \in DOMAIN h
       /\ h[j + k].role = "tool"
       /\ h[j + k].id = h[j].calls[k]

(***************************************************************************)
(* Every request keeps that order, across tool rounds, failures, kills and *)
(* continued sessions, as long as the server kept the protocol and every   *)
(* result could be shown: openai.cc records the calls under finish_reason, *)
(* chat.cc runs them without looking at it.                                *)
(***************************************************************************)
RequestsWellPaired ==
  conforming /\ ~torn /\ phase = "waiting" => WellPaired(chat_history)

(***************************************************************************)
(* The same with no eye on what is shown.  It does not hold: a round that  *)
(* ShowThrows ends is saved as it stands, and the session that continues   *)
(* it sends calls without results (chat.cc 236-251, 278).                  *)
(***************************************************************************)
PairedWhateverShown ==
  conforming /\ phase = "waiting" => WellPaired(chat_history)

(***************************************************************************)
(* A conversation never has a second system message, however often it is   *)
(* continued with --system (openai.cc 179-191), neither in a request nor   *)
(* in the database.                                                        *)
(***************************************************************************)
SystemOnlyFirst(h) == \A i \in DOMAIN h : h[i].role = "system" => i = 1

SystemFirst ==
  /\ SystemOnlyFirst(chat_history)
  /\ \A s \in DOMAIN sessions : SystemOnlyFirst(sessions[s].messages)

(***************************************************************************)
(* Continuing rewrites nothing: what the continued session said, system    *)
(* message aside, begins the running conversation and the saved child      *)
(* (chat.cc 33-66, 86-89).                                                 *)
(***************************************************************************)
Extends(h, base) ==
  base # NoSession =>
    IsPrefix(DropSystem(sessions[base].messages), DropSystem(h))

Lineage ==
  /\ Extends(chat_history, parent)
  /\ \A s \in DOMAIN sessions :
       Extends(sessions[s].messages, sessions[s].parent)

(***************************************************************************)
(* What a tool did is on record: a saved session holds the result of every *)
(* call its invocation ran, however that invocation failed afterwards; but *)
(* for the one call whose result could not be shown, and then the          *)
(* invocation ends with an error (chat.cc 236-251, 278).                   *)
(***************************************************************************)
Recorded(h) == {h[i].id : i \in {j \in DOMAIN h : h[j].role = "tool"}}

NotShown == IF response.calls = << >> THEN {} ELSE {Head(response.calls)}

ToolsRecorded ==
  phase = "topic" /\ session_id # NoSession =>
    /\ executed \subseteq Recorded(sessions[session_id].messages) \cup NotShown
    /\ NotShown # {} => status = "error"

(***************************************************************************)
(* The prompt enters the conversation once, in the first request, and no   *)
(* tool round repeats it (chat.cc 276).                                    *)
(***************************************************************************)
UserMessages(h) == Cardinality({i \in DOMAIN h : h[i].role = "user"})

PromptSentOnce ==
  phase \in {"waiting", "tools"} =>
    UserMessages(chat_history) =
      (IF parent = NoSession THEN 0
       ELSE UserMessages(sessions[parent].messages))
        + (IF given = NoPrompt THEN 0 ELSE 1)

(***************************************************************************)
(* README.md 27, "conversation is persisted to disk", read as: what tools  *)
(* did in an invocation that nobody killed is in a saved session.  The     *)
(* LOG(FATAL) of an HTTP error (openai.cc 341-345) breaks it.              *)
(***************************************************************************)
Persisted ==
  phase = "idle" /\ status # "killed" =>
    \A call \in executed :
      \E s \in DOMAIN sessions : call \in Recorded(sessions[s].messages)

(***************************************************************************)
(* The history is the log that SessionLog promises.                        *)
(***************************************************************************)
Log == INSTANCE SessionLog WITH log <- sessions

LogSpec == Log!Spec

(***************************************************************************)
(* An invocation never stalls on its own: at the head of the loop, behind  *)
(* the last tool of a round or on the way out, it gets to a request, to    *)
(* the topic or to its end.                                                *)
(***************************************************************************)
Busy ==
  phase \in {"request", "exit"} \/ (phase = "tools" /\ response.calls = << >>)

LocalProgress == Busy ~> phase \in {"waiting", "topic", "idle"}
=============================================================================
