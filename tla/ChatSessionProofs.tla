------------------------- MODULE ChatSessionProofs --------------------------
(***************************************************************************)
(* Proofs about ChatSession, for any texts, responses, faults and bounds,  *)
(* and about StreamResponse, the decoding of the answers it receives.      *)
(*                                                                         *)
(* ChatSession: every history has at most one system message, at its       *)
(* front: that makes openai.cc's rewriting of the front harmless, and all  *)
(* the rest is built on it.  The facts TLC checks at certain phases are    *)
(* strengthened to hold at all of them: IInv says where tool results and   *)
(* the session being labelled are, Paired what a conversation lacks while  *)
(* tools run.                                                              *)
(*                                                                         *)
(* StreamResponse: every event is one choice that says more (Saying), and  *)
(* adding its delta to what was put together gives the message as it has   *)
(* become (Says, MergedIsParsed).  StreamIInv says so of all choices.      *)
(***************************************************************************)
EXTENDS ChatSession, StreamResponse, DataLemmas, FunctionTheorems

-----------------------------------------------------------------------------
(***************************************************************************)
(* DropSystem.  In every history there is a system message at the front or *)
(* none at all, so what it does is to take the front off.                  *)
(***************************************************************************)
HasSystem(h) == h # << >> /\ h[1].role = "system"

LEMMA DropSystemIsTail ==
  ASSUME NEW h \in Seq(Message), SystemOnlyFirst(h)
  PROVE  DropSystem(h) = IF HasSystem(h) THEN Tail(h) ELSE h
<1>0. Len(h) \in Nat /\ DOMAIN h = 1..Len(h)
  OBVIOUS
<1>1. CASE HasSystem(h)
  <2>1. Len(h) >= 1 /\ h[1].role = "system"
    BY <1>0, <1>1, EmptySeq DEF HasSystem
  <2>2. Kept(h) = 2..Len(h)
    BY <1>0, <2>1 DEF Kept, SystemOnlyFirst
  <2>3. Cardinality(Kept(h)) = Len(h) - 1
    BY <1>0, <2>1, <2>2, FS_Interval
  <2>4. ASSUME NEW i \in 2..Len(h) PROVE RankOf(h, i) = i - 1
    <3>1. {k \in Kept(h) : k <= i} = 2..i
      BY <1>0, <2>2, <2>4
    <3>2. Cardinality(2..i) = i - 1
      BY <1>0, <2>4, FS_Interval
    <3> QED
      BY <3>1, <3>2 DEF RankOf
  <2>5. ASSUME NEW j \in 1..(Len(h) - 1)
        PROVE  (CHOOSE i \in Kept(h) : RankOf(h, i) = j) = j + 1
    <3>1. j + 1 \in Kept(h) /\ RankOf(h, j + 1) = j
      <4>1. j + 1 \in 2..Len(h) /\ (j + 1) - 1 = j
        BY <1>0, <2>5
      <4> QED
        BY <2>2, <2>4, <4>1
    <3>2. \A i \in Kept(h) : RankOf(h, i) = j => i = j + 1
      BY <1>0, <2>2, <2>4, <2>5
    <3> QED
      BY <3>1, <3>2
  <2>6. DropSystem(h) = [j \in 1..(Len(h) - 1) |-> h[j + 1]]
    <3> DEFINE at(j) == CHOOSE i \in Kept(h) : RankOf(h, i) = j
    <3>1. DropSystem(h) = [j \in 1..(Len(h) - 1) |-> h[at(j)]]
      BY <2>3 DEF DropSystem
    <3>2. \A j \in 1..(Len(h) - 1) : at(j) = j + 1
      BY <2>5
    <3> HIDE DEF at
    <3> QED
      BY <3>1, <3>2
  <2>7. /\ Tail(h) \in Seq(Message)
        /\ Len(Tail(h)) = Len(h) - 1
        /\ \A j \in 1..Len(Tail(h)) : Tail(h)[j] = h[j + 1]
    BY <2>1, HeadTailProperties DEF HasSystem
  <2>8. DropSystem(h) = Tail(h)
    <3> DEFINE d == [j \in 1..(Len(h) - 1) |-> h[j + 1]]
    <3>1. d \in Seq(Message) /\ Len(d) = Len(h) - 1
      BY <1>0, <2>1
    <3>2. \A j \in 1..Len(d) : d[j] = Tail(h)[j]
      BY <2>7, <3>1
    <3> HIDE DEF d
    <3>3. d = Tail(h)
      BY <2>7, <3>1, <3>2, SeqEqual
    <3> QED
      BY <2>6, <3>3 DEF d
  <2> QED
    BY <1>1, <2>8
<1>2. CASE ~HasSystem(h)
  <2>1. Kept(h) = 1..Len(h)
    BY <1>0, <1>2 DEF Kept, SystemOnlyFirst, HasSystem
  <2>2. Cardinality(Kept(h)) = Len(h)
    BY <1>0, <2>1, FS_Interval
  <2>3. ASSUME NEW i \in 1..Len(h) PROVE RankOf(h, i) = i
    <3>1. {k \in Kept(h) : k <= i} = 1..i
      BY <1>0, <2>1, <2>3
    <3>2. Cardinality(1..i) = i
      BY <1>0, <2>3, FS_Interval
    <3> QED
      BY <3>1, <3>2 DEF RankOf
  <2>4. ASSUME NEW j \in 1..Len(h)
        PROVE  (CHOOSE i \in Kept(h) : RankOf(h, i) = j) = j
    BY <2>1, <2>3
  <2>5. DropSystem(h) = [j \in 1..Len(h) |-> h[j]]
    <3> DEFINE at(j) == CHOOSE i \in Kept(h) : RankOf(h, i) = j
    <3>1. DropSystem(h) = [j \in 1..Len(h) |-> h[at(j)]]
      BY <2>2 DEF DropSystem
    <3>2. \A j \in 1..Len(h) : at(j) = j
      BY <2>4
    <3> HIDE DEF at
    <3> QED
      BY <3>1, <3>2
  <2> QED
    BY <1>0, <1>2, <2>5
<1> QED
  BY <1>1, <1>2

\* What becomes of the messages: nothing is lost but the system message.
LEMMA DropSystemKeeps ==
  ASSUME NEW h \in Seq(Message), SystemOnlyFirst(h)
  PROVE  /\ DropSystem(h) \in Seq(Message)
         /\ \A i \in DOMAIN DropSystem(h) : DropSystem(h)[i].role # "system"
         /\ \A i \in DOMAIN h : h[i].role # "system" =>
              \E j \in DOMAIN DropSystem(h) : DropSystem(h)[j] = h[i]
<1>1. CASE HasSystem(h)
  <2>1. DropSystem(h) = Tail(h)
    BY <1>1, DropSystemIsTail
  <2>2. Len(h) \in Nat /\ DOMAIN h = 1..Len(h) /\ Len(h) >= 1
    BY <1>1, EmptySeq DEF HasSystem
  <2>3. /\ Tail(h) \in Seq(Message)
        /\ DOMAIN Tail(h) = 1..(Len(h) - 1)
        /\ \A j \in 1..(Len(h) - 1) : Tail(h)[j] = h[j + 1]
    BY <2>2
  <2>4. ASSUME NEW i \in DOMAIN h, h[i].role # "system"
        PROVE  i - 1 \in DOMAIN Tail(h) /\ Tail(h)[i - 1] = h[i]
    BY <1>1, <2>2, <2>3, <2>4 DEF HasSystem
  <2>5. \A i \in DOMAIN Tail(h) : Tail(h)[i].role # "system"
    BY <2>2, <2>3 DEF SystemOnlyFirst
  <2> QED
    BY <2>1, <2>3, <2>4, <2>5
<1>2. CASE ~HasSystem(h)
  <2>1. DropSystem(h) = h
    BY <1>2, DropSystemIsTail
  <2>2. \A i \in DOMAIN h : h[i].role # "system"
    BY <1>2 DEF SystemOnlyFirst, HasSystem
  <2> QED
    BY <2>1, <2>2
<1> QED
  BY <1>1, <1>2

-----------------------------------------------------------------------------
(***************************************************************************)
(* The messages that are made, and what appending one does.                *)
(***************************************************************************)
LEMMA MessageTypes ==
  /\ \A role \in {"system", "user"}, text \in Text :
       PlainMessage(role, text) \in Message
  /\ \A calls \in Seq(CallId) : AssistantMessage(calls) \in Message
  /\ \A id \in CallId, text \in {"text", "binary"} :
       ToolMessage(id, text) \in Message
<1>1. << >> \in Seq(CallId)
  BY EmptySeq
<1>2. {"reply", "text", "binary"} \subseteq Text
  BY DEF Text
<1> HIDE DEF CallId, Text
<1> QED
  BY <1>1, <1>2 DEF Message, PlainMessage, AssistantMessage, ToolMessage

LEMMA AppendMessage ==
  ASSUME NEW h \in Seq(Message), NEW m \in Message,
         SystemOnlyFirst(h), m.role # "system"
  PROVE  /\ Append(h, m) \in Seq(Message)
         /\ SystemOnlyFirst(Append(h, m))
         /\ Recorded(h) \subseteq Recorded(Append(h, m))
         /\ m.role = "tool" => m.id \in Recorded(Append(h, m))
<1>1. /\ Append(h, m) \in Seq(Message)
      /\ Len(h) \in Nat
      /\ DOMAIN h = 1..Len(h)
      /\ DOMAIN Append(h, m) = 1..(Len(h) + 1)
      /\ \A i \in 1..Len(h) : Append(h, m)[i] = h[i]
      /\ Append(h, m)[Len(h) + 1] = m
  OBVIOUS
<1>2. SystemOnlyFirst(Append(h, m))
  BY <1>1 DEF SystemOnlyFirst
<1>3. Recorded(h) \subseteq Recorded(Append(h, m))
  <2> SUFFICES ASSUME NEW i \in DOMAIN h, h[i].role = "tool"
               PROVE  h[i].id \in Recorded(Append(h, m))
    BY DEF Recorded
  <2>1. i \in DOMAIN Append(h, m) /\ Append(h, m)[i] = h[i]
    BY <1>1
  <2> QED
    BY <2>1 DEF Recorded
<1>4. m.role = "tool" => m.id \in Recorded(Append(h, m))
  <2>1. Len(h) + 1 \in DOMAIN Append(h, m)
    BY <1>1
  <2> QED
    BY <1>1, <2>1 DEF Recorded
<1> QED
  BY <1>1, <1>2, <1>3, <1>4

LEMMA WithSystemShape ==
  ASSUME TypeOK, NEW h \in Seq(Message), SystemOnlyFirst(h)
  PROVE  /\ WithSystem(h) \in Seq(Message)
         /\ SystemOnlyFirst(WithSystem(h))
         /\ Recorded(h) \subseteq Recorded(WithSystem(h))
<1>1. CASE system_prompt = NoPrompt
  BY <1>1 DEF WithSystem
<1>2. CASE system_prompt # NoPrompt
  <2> DEFINE s == PlainMessage("system", system_prompt)
             d == DropSystem(h)
  <2>1. s \in Message
    BY MessageTypes DEF TypeOK, Text
  <2>2. d \in Seq(Message) /\ \A i \in DOMAIN d : d[i].role # "system"
    BY DropSystemKeeps
  <2>3. \A i \in DOMAIN h : h[i].role = "tool" =>
          \E j \in DOMAIN d : d[j] = h[i]
    BY DropSystemKeeps
  <2> HIDE DEF s, d
  <2>4. /\ Len(d) \in Nat
        /\ DOMAIN d = 1..Len(d)
        /\ <<s>> \o d \in Seq(Message)
        /\ DOMAIN (<<s>> \o d) = 1..(Len(d) + 1)
        /\ \A j \in 1..Len(d) : (<<s>> \o d)[j + 1] = d[j]
    BY <2>1, <2>2
  <2>5. SystemOnlyFirst(<<s>> \o d)
    <3> SUFFICES ASSUME NEW i \in 2..(Len(d) + 1)
                 PROVE  (<<s>> \o d)[i].role # "system"
      BY <2>4 DEF SystemOnlyFirst
    <3>1. i - 1 \in 1..Len(d) /\ (i - 1) + 1 = i
      BY <2>4
    <3> QED
      BY <2>2, <2>4, <3>1
  <2>6. Recorded(h) \subseteq Recorded(<<s>> \o d)
    <3> SUFFICES ASSUME NEW i \in DOMAIN h, h[i].role = "tool"
                 PROVE  h[i].id \in Recorded(<<s>> \o d)
      BY DEF Recorded
    <3>1. PICK j \in DOMAIN d : d[j] = h[i]
      BY <2>3
    <3>2. j + 1 \in DOMAIN (<<s>> \o d) /\ (<<s>> \o d)[j + 1] = h[i]
      BY <2>4, <3>1
    <3> QED
      BY <3>2 DEF Recorded
  <2> QED
    BY <1>2, <2>4, <2>5, <2>6 DEF WithSystem, s, d
<1> QED
  BY <1>1, <1>2

LEMMA RequestMessagesShape ==
  ASSUME TypeOK, SystemOnlyFirst(chat_history), user_prompt # InvalidText
  PROVE  /\ RequestMessages \in Seq(Message)
         /\ SystemOnlyFirst(RequestMessages)
         /\ Recorded(chat_history) \subseteq Recorded(RequestMessages)
<1> DEFINE w == WithSystem(chat_history)
           u == PlainMessage("user", user_prompt)
<1>1. /\ w \in Seq(Message)
      /\ SystemOnlyFirst(w)
      /\ Recorded(chat_history) \subseteq Recorded(w)
  BY WithSystemShape DEF TypeOK
<1>2. u \in Message /\ u.role # "system"
  <2>1. user_prompt \in Text
    BY DEF TypeOK, Text
  <2> QED
    BY <2>1, MessageTypes DEF PlainMessage
<1> HIDE DEF w, u
<1>3. RequestMessages \in {w, Append(w, u)}
  BY DEF RequestMessages, w, u
<1> QED
  BY <1>1, <1>2, <1>3, AppendMessage
-----------------------------------------------------------------------------
(***************************************************************************)
(* What the two actions that write the history do to it.                   *)
(***************************************************************************)
LEMMA SaveAppends ==
  ASSUME TypeOK, Save
  PROVE  /\ NewSession \in Session
         /\ sessions' \in Seq(Session)
         /\ Len(sessions') = Len(sessions) + 1
         /\ Len(sessions) \in Nat
         /\ DOMAIN sessions = 1..Len(sessions)
         /\ DOMAIN sessions' = 1..(Len(sessions) + 1)
         /\ \A s \in DOMAIN sessions : sessions'[s] = sessions[s]
         /\ sessions'[Len(sessions) + 1] = NewSession
<1>1. NewSession \in Session
  BY DEF NewSession, Session, TypeOK
<1>2. sessions' = Append(sessions, NewSession) /\ sessions \in Seq(Session)
  BY DEF Save, TypeOK
<1> HIDE DEF NewSession, Session
<1> QED
  BY <1>1, <1>2

LEMMA TopicKeepsSessions ==
  ASSUME TypeOK, SetTopic
  PROVE  /\ sessions' \in Seq(Session)
         /\ Len(sessions') = Len(sessions)
         /\ DOMAIN sessions' = DOMAIN sessions
         /\ \A s \in DOMAIN sessions :
              /\ sessions'[s].id = sessions[s].id
              /\ sessions'[s].parent = sessions[s].parent
              /\ sessions'[s].messages = sessions[s].messages
              /\ s # session_id => sessions'[s] = sessions[s]
              /\ s = session_id =>
                   sessions'[s] = [sessions[s] EXCEPT !.topic = chat_history]
<1>1. /\ sessions \in Seq(Session)
      /\ chat_history \in Seq(Message)
      /\ sessions' = [s \in DOMAIN sessions |->
                        IF s = session_id
                        THEN [sessions[s] EXCEPT !.topic = chat_history]
                        ELSE sessions[s]]
  BY DEF SetTopic, TopicTarget, TypeOK
<1>2. /\ DOMAIN sessions' = DOMAIN sessions
      /\ DOMAIN sessions = 1..Len(sessions)
      /\ Len(sessions) \in Nat
      /\ \A s \in DOMAIN sessions : sessions[s] \in Session
  BY <1>1
<1>3. ASSUME NEW s \in DOMAIN sessions
      PROVE  /\ sessions'[s] \in Session
             /\ sessions'[s].id = sessions[s].id
             /\ sessions'[s].parent = sessions[s].parent
             /\ sessions'[s].messages = sessions[s].messages
             /\ s # session_id => sessions'[s] = sessions[s]
             /\ s = session_id =>
                  sessions'[s] = [sessions[s] EXCEPT !.topic = chat_history]
  BY <1>1, <1>2 DEF Session
<1>4. sessions' \in Seq(Session) /\ Len(sessions') = Len(sessions)
  BY <1>1, <1>2, <1>3
<1> QED
  BY <1>2, <1>3, <1>4

LEMMA SameSessions ==
  ASSUME Next, ~Save, ~SetTopic
  PROVE  sessions' = sessions
BY DEF Next, Begins, StartFresh, ContinueLast, ContinueFrom, Begin,
       ClientStep, GiveUp, Send, RunTool, ShowThrows, EndRound, Answer,
       RequestFails, BadChunk, HttpError, Receive, ReceiveNoChoice, ReceiveNoCalls,
       ExitStep, SaveFails, SaveThrows, TopicStep, NoTopicFound,
       TopicHttpError, Kill, Return

(***************************************************************************)
(* What the conversation is after a step.                                  *)
(***************************************************************************)
LEMMA LoadedMessages ==
  ASSUME TypeOK, SystemFirst, NEW base \in 0..Len(sessions)
  PROVE  /\ LoadedFrom(base) \in Seq(Message)
         /\ SystemOnlyFirst(LoadedFrom(base))
<1>1. CASE base = NoSession
  BY <1>1, EmptySeq DEF LoadedFrom, SystemOnlyFirst
<1>2. CASE base # NoSession
  <2>1. base \in DOMAIN sessions /\ sessions[base] \in Session
    <3>1. sessions \in Seq(Session)
      BY DEF TypeOK
    <3> QED
      BY <1>2, <3>1 DEF NoSession
  <2>2. sessions[base].messages \in Seq(Message)
    BY <2>1 DEF Session
  <2> QED
    BY <1>2, <2>1, <2>2 DEF LoadedFrom, SystemFirst
<1> QED
  BY <1>1, <1>2

LEMMA ReceivedCalls ==
  ASSUME TypeOK, NEW cs \in Responses, cs # << >>
  PROVE  /\ CallIds(cs, 1) \in Seq(CallId)
         /\ CallIds(cs, Len(cs)) \in Seq(CallId)
         /\ Len(CallIds(cs, 1)) = cs[1].calls
         /\ cs[1].finish \in Finish /\ cs[1].calls \in Nat
         /\ cs[Len(cs)].finish \in Finish /\ cs[Len(cs)].calls \in Nat
<1>1. cs \in Seq(Choice) /\ Len(cs) \in Nat /\ Len(cs) >= 1
  BY ResponsesAssumption, EmptySeq
<1>2. ASSUME NEW j \in 1..Len(cs)
      PROVE  /\ cs[j].finish \in Finish /\ cs[j].calls \in Nat
             /\ CallIds(cs, j) \in Seq(CallId)
             /\ Len(CallIds(cs, j)) = cs[j].calls
  <2>1. cs[j] \in Choice
    BY <1>1
  <2>2. cs[j].finish \in Finish /\ cs[j].calls \in Nat
    BY <2>1 DEF Choice
  <2>3. Len(sessions) + 1 \in Nat /\ requests \in Nat /\ j \in Nat
    BY <1>1 DEF TypeOK
  <2>4. \A k \in 1..cs[j].calls :
          <<Len(sessions) + 1, requests, j, k>> \in CallId
    BY <2>2, <2>3 DEF CallId
  <2> HIDE DEF CallId
  <2>5. CallIds(cs, j) \in Seq(CallId) /\ Len(CallIds(cs, j)) = cs[j].calls
    BY <2>2, <2>4 DEF CallIds
  <2> QED
    BY <2>2, <2>5
<1> QED
  BY <1>1, <1>2
LEMMA BeginLoads ==
  ASSUME TypeOK, Begins
  PROVE  \E prompt \in GivenPrompt, system \in GivenSystem,
            base \in 0..Len(sessions) : Begin(prompt, system, base)
<1>1. Len(sessions) \in Nat /\ DOMAIN sessions = 1..Len(sessions)
  BY DEF TypeOK
<1>2. CASE StartFresh
  <2>1. NoSession \in 0..Len(sessions)
    BY <1>1 DEF NoSession
  <2> QED
    BY <1>2, <2>1 DEF StartFresh
<1>3. CASE ContinueLast
  <2>1. Len(sessions) \in 0..Len(sessions)
    BY <1>1
  <2> QED
    BY <1>3, <2>1 DEF ContinueLast
<1>4. CASE ContinueFrom
  <2>1. DOMAIN sessions \subseteq 0..Len(sessions)
    BY <1>1
  <2> QED
    BY <1>4, <2>1 DEF ContinueFrom
<1> QED
  BY <1>2, <1>3, <1>4 DEF Begins

LEMMA HistoryStep ==
  ASSUME TypeOK, SystemFirst, [Next]_vars
  PROVE  chat_history' \in Seq(Message) /\ SystemOnlyFirst(chat_history')
<1>1. CASE Begins
  <2>1. PICK prompt \in GivenPrompt, system \in GivenSystem,
             base \in 0..Len(sessions) : Begin(prompt, system, base)
    BY <1>1, BeginLoads
  <2>2. chat_history' = LoadedFrom(base)
    BY <2>1 DEF Begin
  <2> QED
    BY <2>2, LoadedMessages
<1>2. CASE Send
  <2>1. user_prompt # InvalidText /\ chat_history' = RequestMessages
    BY <1>2 DEF Send, TypeOK
  <2> QED
    BY <2>1, RequestMessagesShape DEF SystemFirst
<1>3. CASE RunTool
  <2>1. PICK text \in ToolResults :
          chat_history' =
            Append(chat_history, ToolMessage(Head(response.calls), text))
    BY <1>3 DEF RunTool
  <2>2. Head(response.calls) \in CallId
    <3>1. response.calls \in Seq(CallId) /\ response.calls # << >>
      BY <1>3 DEF RunTool, TypeOK
    <3> QED
      BY <3>1, HeadTailProperties
  <2>3. ToolMessage(Head(response.calls), text) \in Message
    BY <2>2, MessageTypes DEF ToolResults
  <2> QED
    BY <2>1, <2>3, AppendMessage DEF SystemFirst, TypeOK, ToolMessage
<1>4. ASSUME NEW cs \in Responses, Receive(cs)
      PROVE  chat_history' \in Seq(Message) /\ SystemOnlyFirst(chat_history')
  <2> DEFINE recorded == RecordedCalls(cs[1], CallIds(cs, 1))
  <2>1. chat_history' = Append(chat_history, AssistantMessage(recorded))
    BY <1>4 DEF Receive
  <2>2. recorded \in Seq(CallId)
    BY <1>4, ReceivedCalls, EmptySeq DEF Receive, RecordedCalls
  <2>3. AssistantMessage(recorded) \in Message
    BY <2>2, MessageTypes
  <2>4. AssistantMessage(recorded).role = "assistant"
    BY DEF AssistantMessage
  <2> QED
    BY <2>1, <2>3, <2>4, AppendMessage DEF SystemFirst, TypeOK
<1>5. ASSUME NEW how, Die(how)
      PROVE  chat_history' \in Seq(Message) /\ SystemOnlyFirst(chat_history')
  BY <1>5, EmptySeq DEF Die, SystemOnlyFirst
<1>6. CASE UNCHANGED chat_history
  BY <1>6 DEF TypeOK, SystemFirst
<1>7. CASE GiveUp \/ ShowThrows \/ EndRound \/ RequestFails \/ Save \/ SaveFails
  BY <1>6, <1>7 DEF GiveUp, ShowThrows, EndRound, RequestFails, Save, SaveFails
<1>8. ASSUME BadChunk \/ HttpError \/ SaveThrows \/ SetTopic \/ NoTopicFound
              \/ TopicHttpError \/ Kill
      PROVE  chat_history' \in Seq(Message) /\ SystemOnlyFirst(chat_history')
  BY <1>5, <1>8 DEF BadChunk, HttpError, SaveThrows, SetTopic, NoTopicFound,
                    TopicHttpError, Kill
<1>9. ASSUME NEW cs \in Responses, ReceiveNoChoice(cs) \/ ReceiveNoCalls(cs)
      PROVE  chat_history' \in Seq(Message) /\ SystemOnlyFirst(chat_history')
  BY <1>5, <1>9 DEF ReceiveNoChoice, ReceiveNoCalls
<1>10. CASE UNCHANGED vars
  BY <1>6, <1>10 DEF vars
<1> QED
  BY <1>1, <1>2, <1>3, <1>4, <1>7, <1>8, <1>9, <1>10
     DEF Next, ClientStep, Answer, ExitStep, TopicStep

LEMMA SessionsStep ==
  ASSUME TypeOK, SystemFirst, [Next]_vars
  PROVE  /\ sessions' \in Seq(Session)
         /\ \A s \in DOMAIN sessions' : SystemOnlyFirst(sessions'[s].messages)
<1>1. CASE Save
  <2>1. NewSession.messages = chat_history
    BY DEF NewSession
  <2> QED
    BY <1>1, <2>1, SaveAppends DEF SystemFirst
<1>2. CASE SetTopic
  BY <1>2, TopicKeepsSessions DEF SystemFirst
<1>3. CASE sessions' = sessions
  BY <1>3 DEF SystemFirst, TypeOK
<1> QED
  BY <1>1, <1>2, <1>3, SameSessions DEF vars

-----------------------------------------------------------------------------
(***************************************************************************)
(* Types.  The shape of the history and the types of the messages depend   *)
(* on each other, so both are in one invariant.                            *)
(***************************************************************************)
LEMMA InitTyped == Init => TypeOK /\ SystemFirst
<1> SUFFICES ASSUME Init PROVE TypeOK /\ SystemFirst
  OBVIOUS
<1>1. SystemFirst
  BY DEF Init, SystemFirst, SystemOnlyFirst
<1>2. /\ response \in [finish : Finish, calls : Seq(CallId)]
      /\ chat_history \in Seq(Message) /\ sessions \in Seq(Session)
  BY EmptySeq DEF Init, Idle, Finish
<1>3. conforming \in BOOLEAN /\ torn \in BOOLEAN
  BY DEF Init
<1>4. TypeOK
  BY <1>2, <1>3 DEF Init, TypeOK, Phases, Statuses, NoSession
<1> QED
  BY <1>1, <1>4

LEMMA TypeStep ==
  ASSUME TypeOK, SystemFirst, [Next]_vars
  PROVE  TypeOK'
<1> USE TextAssumption DEF TypeOK, Phases, Statuses, NoSession
<1>1. chat_history' \in Seq(Message) /\ sessions' \in Seq(Session)
  BY HistoryStep, SessionsStep
<1>2. CASE Begins
  <2>1. PICK prompt \in GivenPrompt, system \in GivenSystem,
             base \in 0..Len(sessions) : Begin(prompt, system, base)
    BY <1>2, BeginLoads
  <2>2. /\ prompt \in Prompts \cup {NoPrompt, InvalidText}
        /\ base \in Nat
    BY <2>1 DEF GivenPrompt
  <2>3. system_prompt' \in SystemPrompts \cup {DefaultSystem, NoPrompt}
    BY <2>1 DEF Begin
  <2>4. \/ phase' = "request" /\ status' = "running" /\ prompt # InvalidText
        \/ phase' = "exit" /\ status' = "error"
    BY <2>1 DEF Begin, ArgumentsValid
  <2> QED
    BY <1>1, <2>1, <2>2, <2>3, <2>4 DEF Begin
<1>3. ASSUME NEW code \in Statuses, Return(code), executed' \in SUBSET CallId,
             torn' \in BOOLEAN, conforming' = conforming
      PROVE  TypeOK'
  BY <1>1, <1>3 DEF Return, input
<1>4. ASSUME NEW how \in Statuses, Die(how), executed' = executed,
             torn' = torn, conforming' \in BOOLEAN
      PROVE  TypeOK'
  BY <1>1, <1>4, EmptySeq DEF Die, Idle, Finish
<1>5. CASE GiveUp \/ RequestFails
  BY <1>3, <1>5 DEF GiveUp, RequestFails, ghosts
<1>6. CASE Send
  <2>1. CASE HoldsBinary(RequestMessages)
    BY <1>3, <1>6, <2>1 DEF Send, ghosts
  <2>2. CASE ~HoldsBinary(RequestMessages)
    BY <1>1, <1>6, <2>2 DEF Send, input, ghosts
  <2> QED
    BY <2>1, <2>2
<1>7. CASE RunTool
  <2>1. Head(response.calls) \in CallId /\ Tail(response.calls) \in Seq(CallId)
    <3>1. response.calls \in Seq(CallId) /\ response.calls # << >>
      BY <1>7 DEF RunTool
    <3> QED
      BY <3>1, HeadTailProperties
  <2>2. executed' \in SUBSET CallId
    BY <1>7, <2>1 DEF RunTool
  <2>3. response' \in [finish : Finish, calls : Seq(CallId)]
    BY <1>7, <2>1 DEF RunTool
  <2>4. UNCHANGED <<phase, input, user_prompt, requests, status, session_id,
                    conforming, torn>>
    BY <1>7 DEF RunTool
  <2> QED
    BY <1>1, <2>2, <2>3, <2>4 DEF input
<1>15. CASE ShowThrows
  <2>1. Head(response.calls) \in CallId
    <3>1. response.calls \in Seq(CallId) /\ response.calls # << >>
      BY <1>15 DEF ShowThrows
    <3> QED
      BY <3>1, HeadTailProperties
  <2>2. executed' \in SUBSET CallId
    BY <1>15, <2>1 DEF ShowThrows
  <2> QED
    BY <1>3, <1>15, <2>2 DEF ShowThrows
<1>8. CASE EndRound
  <2>1. CASE response.finish = "tool_calls"
    BY <1>1, <1>8, <2>1 DEF EndRound, ClearedPrompt, input, ghosts
  <2>2. CASE response.finish # "tool_calls"
    <3>1. Return("error") \/ Return("ok")
      BY <1>8, <2>2 DEF EndRound
    <3> QED
      BY <1>3, <1>8, <3>1 DEF EndRound, ghosts
  <2> QED
    BY <2>1, <2>2
<1>9. ASSUME NEW cs \in Responses, Receive(cs) PROVE TypeOK'
  <2>1. response' \in [finish : Finish, calls : Seq(CallId)]
    BY <1>9, ReceivedCalls DEF Receive
  <2>2. conforming' \in BOOLEAN
    BY <1>9 DEF Receive, Conforms
  <2>3. /\ phase' = "tools"
        /\ UNCHANGED <<input, user_prompt, requests, status, session_id,
                       executed, torn>>
    BY <1>9 DEF Receive
  <2> QED
    BY <1>1, <2>1, <2>2, <2>3 DEF input
<1>10. ASSUME NEW cs \in Responses, ReceiveNoChoice(cs) \/ ReceiveNoCalls(cs)
       PROVE  TypeOK'
  BY <1>4, <1>10 DEF ReceiveNoChoice, ReceiveNoCalls
<1>11. CASE Save
  <2>1. session_id' \in Nat
    BY <1>11 DEF Save, NewSession
  <2> QED
    BY <1>1, <1>11, <2>1 DEF Save, input, ghosts
<1>12. CASE SaveFails
  BY <1>1, <1>12 DEF SaveFails, input, ghosts
<1>13. CASE BadChunk \/ HttpError \/ SaveThrows \/ SetTopic \/ NoTopicFound
              \/ TopicHttpError \/ Kill
  BY <1>4, <1>13 DEF BadChunk, HttpError, SaveThrows, SetTopic, NoTopicFound,
                     TopicHttpError, Kill, ghosts
<1>14. CASE UNCHANGED vars
  BY <1>14 DEF vars
<1> QED
  BY <1>2, <1>5, <1>6, <1>7, <1>8, <1>9, <1>10, <1>11, <1>12, <1>13, <1>14, <1>15
     DEF Next, ClientStep, Answer, ExitStep, TopicStep
-----------------------------------------------------------------------------
(***************************************************************************)
(* The session being labelled is the one just saved, and tool results are  *)
(* in the conversation from the moment the tool has run.                   *)
(***************************************************************************)
SavedIsMine ==
  /\ phase # "topic" => session_id = NoSession
  /\ phase = "topic" /\ session_id # NoSession =>
       /\ session_id \in DOMAIN sessions
       /\ sessions[session_id].messages = chat_history
       /\ sessions[session_id].topic = NoTopic

\* The call behind the last one recorded is missing once a round was torn.
RunRecorded ==
  /\ phase \in {"request", "waiting", "tools"} => executed \subseteq Recorded(chat_history)
  /\ phase \in {"exit", "topic"} =>
       /\ executed \subseteq Recorded(chat_history) \cup NotShown
       /\ NotShown # {} => status = "error"
  /\ phase \in {"idle", "request", "waiting"} => response.calls = << >>

\* Rows are numbered by position, and parents come before children.
Ordered ==
  /\ \A s \in DOMAIN sessions :
       sessions[s].id = s /\ sessions[s].parent \in 0..Len(sessions)
  /\ parent \in 0..Len(sessions)

IInv == TypeOK /\ SystemFirst /\ SavedIsMine /\ RunRecorded /\ Ordered

LEMMA InitIInv == Init => IInv
<1> SUFFICES ASSUME Init PROVE IInv
  OBVIOUS
<1>1. TypeOK /\ SystemFirst
  BY InitTyped
<1>2. SavedIsMine /\ RunRecorded /\ Ordered
  BY DEF Init, Idle, SavedIsMine, RunRecorded, Ordered, NoSession
<1> QED
  BY <1>1, <1>2 DEF IInv

LEMMA SavedStep ==
  ASSUME TypeOK, SavedIsMine, [Next]_vars
  PROVE  SavedIsMine'
<1> USE DEF SavedIsMine
<1>1. CASE Save
  <2>1. session_id' = Len(sessions) + 1 /\ chat_history' = chat_history
    BY <1>1 DEF Save, NewSession
  <2>2. NewSession.messages = chat_history /\ NewSession.topic = NoTopic
    BY DEF NewSession
  <2>3. phase' = "topic"
    BY <1>1 DEF Save
  <2> QED
    BY <1>1, <2>1, <2>2, <2>3, SaveAppends DEF NoSession
<1>2. CASE SaveFails
  BY <1>2 DEF SaveFails
<1>3. ASSUME phase' # "topic", session_id' = NoSession PROVE SavedIsMine'
  BY <1>3
<1>4. ASSUME NEW how, Die(how) PROVE SavedIsMine'
  BY <1>3, <1>4 DEF Die
<1>5. ASSUME NEW code, Return(code), phase # "topic" PROVE SavedIsMine'
  BY <1>3, <1>5 DEF Return
<1>6. CASE Begins
  <2>1. PICK prompt \in GivenPrompt, system \in GivenSystem,
             base \in 0..Len(sessions) : Begin(prompt, system, base)
    BY <1>6, BeginLoads
  <2> QED
    BY <1>3, <2>1 DEF Begin
<1>7. CASE GiveUp \/ RequestFails \/ ShowThrows
  BY <1>5, <1>7 DEF GiveUp, RequestFails, ShowThrows
<1>8. CASE Send
  <2>1. CASE HoldsBinary(RequestMessages)
    BY <1>5, <1>8, <2>1 DEF Send
  <2>2. CASE ~HoldsBinary(RequestMessages)
    BY <1>3, <1>8, <2>2 DEF Send
  <2> QED
    BY <2>1, <2>2
<1>9. CASE RunTool
  BY <1>3, <1>9 DEF RunTool
<1>10. CASE EndRound
  <2>1. CASE response.finish = "tool_calls"
    BY <1>3, <1>10, <2>1 DEF EndRound
  <2>2. CASE response.finish # "tool_calls"
    <3>1. Return("error") \/ Return("ok")
      BY <1>10, <2>2 DEF EndRound
    <3> QED
      BY <1>5, <1>10, <3>1 DEF EndRound
  <2> QED
    BY <2>1, <2>2
<1>11. ASSUME NEW cs \in Responses, Receive(cs) PROVE SavedIsMine'
  BY <1>3, <1>11 DEF Receive
<1>12. ASSUME NEW cs \in Responses, ReceiveNoChoice(cs) \/ ReceiveNoCalls(cs)
       PROVE  SavedIsMine'
  BY <1>4, <1>12 DEF ReceiveNoChoice, ReceiveNoCalls
<1>13. CASE BadChunk \/ HttpError \/ SaveThrows \/ SetTopic \/ NoTopicFound
              \/ TopicHttpError \/ Kill
  BY <1>4, <1>13 DEF BadChunk, HttpError, SaveThrows, SetTopic, NoTopicFound,
                     TopicHttpError, Kill
<1>14. CASE UNCHANGED vars
  BY <1>14 DEF vars
<1> QED
  BY <1>1, <1>2, <1>6, <1>7, <1>8, <1>9, <1>10, <1>11, <1>12, <1>13, <1>14
     DEF Next, ClientStep, Answer, ExitStep, TopicStep

LEMMA RecordedStep ==
  ASSUME TypeOK, SystemFirst, RunRecorded, [Next]_vars
  PROVE  RunRecorded'
<1> USE DEF RunRecorded
\* A round is over, or none has begun, and every call of it is on record.
<1>1. ASSUME phase \in {"request", "waiting", "tools"}, response'.calls = << >>,
             executed' = executed,
             Recorded(chat_history) \subseteq Recorded(chat_history')
      PROVE  RunRecorded'
  <2>1. NotShown' = {}
    BY <1>1 DEF NotShown
  <2> QED
    BY <1>1, <2>1
<1>2. ASSUME NEW how, Die(how) PROVE RunRecorded'
  BY <1>2 DEF Die, Idle
<1>3. CASE Begins
  <2>1. executed' = {} /\ phase = "idle" /\ response' = response
    BY <1>3 DEF Begins, StartFresh, ContinueLast, ContinueFrom, Begin
  <2>2. NotShown' = {}
    BY <2>1 DEF NotShown
  <2> QED
    BY <2>1, <2>2
<1>4. CASE Send
  <2>1. user_prompt # InvalidText
    BY <1>4 DEF Send, TypeOK
  <2>2. Recorded(chat_history) \subseteq Recorded(RequestMessages)
    BY <2>1, RequestMessagesShape DEF SystemFirst
  <2> QED
    BY <1>1, <1>4, <2>2 DEF Send, Return, ghosts
<1>5. CASE RunTool
  <2>1. PICK text \in ToolResults :
          chat_history' =
            Append(chat_history, ToolMessage(Head(response.calls), text))
    BY <1>5 DEF RunTool
  <2> DEFINE m == ToolMessage(Head(response.calls), text)
  <2>2. Head(response.calls) \in CallId
    <3>1. response.calls \in Seq(CallId) /\ response.calls # << >>
      BY <1>5 DEF RunTool, TypeOK
    <3> QED
      BY <3>1, HeadTailProperties
  <2>3. m \in Message
    BY <2>2, MessageTypes DEF ToolResults
  <2>4. m.role = "tool" /\ m.id = Head(response.calls)
    BY DEF ToolMessage
  <2> HIDE DEF m
  <2>5. /\ Recorded(chat_history) \subseteq Recorded(Append(chat_history, m))
        /\ m.id \in Recorded(Append(chat_history, m))
    BY <2>3, <2>4, AppendMessage DEF SystemFirst, TypeOK
  <2>6. chat_history' = Append(chat_history, m)
    BY <2>1 DEF m
  <2>7. phase = "tools" /\ phase' = "tools" /\ executed' = executed \cup {m.id}
    BY <1>5, <2>4 DEF RunTool
  <2> QED
    BY <2>5, <2>6, <2>7
<1>6. ASSUME NEW cs \in Responses, Receive(cs) PROVE RunRecorded'
  <2> DEFINE m == AssistantMessage(RecordedCalls(cs[1], CallIds(cs, 1)))
  <2>1. chat_history' = Append(chat_history, m)
    BY <1>6 DEF Receive
  <2>2. RecordedCalls(cs[1], CallIds(cs, 1)) \in Seq(CallId)
    BY <1>6, ReceivedCalls, EmptySeq DEF Receive, RecordedCalls
  <2>3. m \in Message /\ m.role = "assistant"
    BY <2>2, MessageTypes DEF AssistantMessage
  <2> HIDE DEF m
  <2>4. Recorded(chat_history) \subseteq Recorded(chat_history')
    BY <2>1, <2>3, AppendMessage DEF SystemFirst, TypeOK
  <2>5. phase = "waiting" /\ phase' = "tools" /\ executed' = executed
    BY <1>6 DEF Receive
  <2> QED
    BY <2>4, <2>5
<1>7. CASE GiveUp \/ EndRound \/ RequestFails
  BY <1>1, <1>7 DEF GiveUp, EndRound, RequestFails, Return, ghosts
<1>11. CASE ShowThrows
  <2>1. /\ phase = "tools" /\ phase' = "exit" /\ status' = "error"
        /\ chat_history' = chat_history /\ response' = response
        /\ executed' = executed \cup {Head(response.calls)}
        /\ response.calls # << >>
    BY <1>11 DEF ShowThrows, Return
  <2>2. NotShown' = {Head(response.calls)}
    BY <2>1 DEF NotShown
  <2> QED
    BY <2>1, <2>2
<1>12. CASE Save \/ SaveFails
  <2>1. /\ phase = "exit" /\ phase' = "topic"
        /\ UNCHANGED <<chat_history, response, status, executed>>
    BY <1>12 DEF Save, SaveFails, ghosts
  <2>2. NotShown' = NotShown
    BY <2>1 DEF NotShown
  <2> QED
    BY <2>1, <2>2
<1>8. CASE BadChunk \/ HttpError \/ SaveThrows \/ SetTopic \/ NoTopicFound
              \/ TopicHttpError \/ Kill
  BY <1>2, <1>8 DEF BadChunk, HttpError, SaveThrows, SetTopic, NoTopicFound,
                    TopicHttpError, Kill
<1>9. ASSUME NEW cs \in Responses, ReceiveNoChoice(cs) \/ ReceiveNoCalls(cs)
      PROVE  RunRecorded'
  BY <1>2, <1>9 DEF ReceiveNoChoice, ReceiveNoCalls
<1>10. CASE UNCHANGED vars
  <2>1. NotShown' = NotShown
    BY <1>10 DEF vars, NotShown
  <2> QED
    BY <1>10, <2>1 DEF vars
<1> QED
  BY <1>3, <1>4, <1>5, <1>6, <1>7, <1>8, <1>9, <1>10, <1>11, <1>12
     DEF Next, ClientStep, Answer, ExitStep, TopicStep

LEMMA OrderedStep ==
  ASSUME TypeOK, Ordered, [Next]_vars
  PROVE  Ordered'
<1> USE DEF Ordered
<1>0. Len(sessions) \in Nat
  BY DEF TypeOK
<1>1. CASE Save
  <2>1. NewSession.id = Len(sessions) + 1 /\ NewSession.parent = parent
    BY DEF NewSession
  <2>2. parent' = parent
    BY <1>1 DEF Save, input
  <2> QED
    BY <1>0, <1>1, <2>1, <2>2, SaveAppends
<1>2. CASE SetTopic
  <2>1. parent' = NoSession
    BY <1>2 DEF SetTopic, Die
  <2> QED
    BY <1>0, <1>2, <2>1, TopicKeepsSessions DEF NoSession
<1>3. CASE sessions' = sessions /\ parent' \in {parent, NoSession}
  BY <1>0, <1>3 DEF NoSession
<1>4. CASE Begins
  <2>1. PICK prompt \in GivenPrompt, system \in GivenSystem,
             base \in 0..Len(sessions) : Begin(prompt, system, base)
    BY <1>4, BeginLoads
  <2>2. sessions' = sessions /\ parent' = base
    BY <2>1 DEF Begin
  <2> QED
    BY <2>2
<1>5. ASSUME Next, ~Save, ~SetTopic, ~Begins
      PROVE  parent' \in {parent, NoSession}
  BY <1>5 DEF Next, ClientStep, GiveUp, Send, RunTool, ShowThrows, EndRound, Answer,
       RequestFails, BadChunk, HttpError, Receive, ReceiveNoChoice,
       ReceiveNoCalls, ExitStep, SaveFails, SaveThrows, TopicStep,
       NoTopicFound, TopicHttpError, Kill, Return, Die, input
<1> QED
  BY <1>1, <1>2, <1>3, <1>4, <1>5, SameSessions DEF vars

LEMMA IInvStep == IInv /\ [Next]_vars => IInv'
<1> SUFFICES ASSUME IInv, [Next]_vars PROVE IInv'
  OBVIOUS
<1>1. TypeOK' /\ SavedIsMine' /\ RunRecorded' /\ Ordered'
  BY TypeStep, SavedStep, RecordedStep, OrderedStep DEF IInv
<1>2. SystemFirst'
  BY HistoryStep, SessionsStep DEF IInv, SystemFirst
<1> QED
  BY <1>1, <1>2 DEF IInv

-----------------------------------------------------------------------------
(***************************************************************************)
(* Calls and their results.  WellPaired looks at the role, the calls and   *)
(* the id of a message only.                                               *)
(***************************************************************************)
SameShape(g, h) ==
  /\ Len(g) = Len(h)
  /\ \A i \in DOMAIN g :
       g[i].role = h[i].role /\ g[i].calls = h[i].calls /\ g[i].id = h[i].id

LEMMA PairedByShape ==
  ASSUME NEW g \in Seq(Message), NEW h \in Seq(Message),
         SameShape(g, h), WellPaired(h)
  PROVE  WellPaired(g)
<1>1. DOMAIN g = 1..Len(h) /\ DOMAIN h = 1..Len(h) /\ Len(h) \in Nat
  BY DEF SameShape
<1>2. ASSUME NEW i \in DOMAIN g, g[i].role = "tool"
      PROVE  \E j \in 1..(i - 1) : Answers(g, i, j)
  <2>1. PICK j \in 1..(i - 1) : Answers(h, i, j)
    BY <1>1, <1>2 DEF SameShape, WellPaired
  <2>2. j \in DOMAIN g
    BY <1>1, <2>1
  <2> QED
    BY <1>2, <2>1, <2>2 DEF SameShape, Answers
<1>3. ASSUME NEW j \in DOMAIN g, NEW k \in DOMAIN g[j].calls
      PROVE  /\ j + k \in DOMAIN g
             /\ g[j + k].role = "tool"
             /\ g[j + k].id = g[j].calls[k]
  <2>1. /\ j + k \in DOMAIN h
        /\ h[j + k].role = "tool"
        /\ h[j + k].id = h[j].calls[k]
    BY <1>1, <1>3 DEF SameShape, WellPaired
  <2> QED
    BY <1>1, <1>3, <2>1 DEF SameShape
<1> QED
  BY <1>2, <1>3 DEF WellPaired

\* A message without calls that is no result may follow.
LEMMA PairedAppend ==
  ASSUME NEW h \in Seq(Message), NEW m \in Message, WellPaired(h),
         m.role # "tool", m.calls = << >>
  PROVE  WellPaired(Append(h, m))
<1>1. /\ Len(h) \in Nat
      /\ DOMAIN h = 1..Len(h)
      /\ DOMAIN Append(h, m) = 1..(Len(h) + 1)
      /\ \A i \in 1..Len(h) : Append(h, m)[i] = h[i]
      /\ Append(h, m)[Len(h) + 1] = m
  OBVIOUS
<1>2. ASSUME NEW i \in DOMAIN Append(h, m), Append(h, m)[i].role = "tool"
      PROVE  \E j \in 1..(i - 1) : Answers(Append(h, m), i, j)
  <2>1. i \in 1..Len(h) /\ h[i].role = "tool"
    BY <1>1, <1>2
  <2>2. PICK j \in 1..(i - 1) : Answers(h, i, j)
    BY <1>1, <2>1 DEF WellPaired
  <2>3. j \in 1..Len(h)
    BY <1>1, <2>1, <2>2
  <2> QED
    BY <1>1, <2>1, <2>2, <2>3 DEF Answers
<1>3. ASSUME NEW j \in DOMAIN Append(h, m),
             NEW k \in DOMAIN Append(h, m)[j].calls
      PROVE  /\ j + k \in DOMAIN Append(h, m)
             /\ Append(h, m)[j + k].role = "tool"
             /\ Append(h, m)[j + k].id = Append(h, m)[j].calls[k]
  <2>1. j \in 1..Len(h)
    BY <1>1, <1>3, EmptySeq
  <2>2. /\ j + k \in DOMAIN h
        /\ h[j + k].role = "tool"
        /\ h[j + k].id = h[j].calls[k]
    BY <1>1, <1>3, <2>1 DEF WellPaired
  <2> QED
    BY <1>1, <2>1, <2>2
<1> QED
  BY <1>2, <1>3 DEF WellPaired

\* So may a system message precede, and one without calls be taken off.
LEMMA PairedBehind ==
  ASSUME NEW h \in Seq(Message), NEW m \in Message, WellPaired(h),
         m.role = "system", m.calls = << >>
  PROVE  WellPaired(<<m>> \o h)
<1> DEFINE g == <<m>> \o h
<1>1. /\ Len(h) \in Nat
      /\ DOMAIN h = 1..Len(h)
      /\ DOMAIN g = 1..(Len(h) + 1)
      /\ \A i \in 2..(Len(h) + 1) : g[i] = h[i - 1]
      /\ g[1] = m
  OBVIOUS
<1> HIDE DEF g
<1>2. ASSUME NEW i \in DOMAIN g, g[i].role = "tool"
      PROVE  \E j \in 1..(i - 1) : Answers(g, i, j)
  <2>1. i \in 2..(Len(h) + 1) /\ h[i - 1].role = "tool"
    BY <1>1, <1>2
  <2>2. PICK j \in 1..(i - 2) : Answers(h, i - 1, j)
    BY <1>1, <2>1 DEF WellPaired
  <2>3. j + 1 \in 1..(i - 1) /\ g[j + 1] = h[j] /\ i - (j + 1) = (i - 1) - j
    BY <1>1, <2>1, <2>2
  <2>4. Answers(g, i, j + 1)
    BY <1>1, <2>1, <2>2, <2>3 DEF Answers
  <2> QED
    BY <2>3, <2>4
<1>3. ASSUME NEW j \in DOMAIN g, NEW k \in DOMAIN g[j].calls
      PROVE  /\ j + k \in DOMAIN g
             /\ g[j + k].role = "tool"
             /\ g[j + k].id = g[j].calls[k]
  <2>1. j \in 2..(Len(h) + 1) /\ g[j] = h[j - 1]
    BY <1>1, <1>3, EmptySeq
  <2>2. h[j - 1].calls \in Seq(CallId)
    <3>1. h[j - 1] \in Message
      BY <1>1, <2>1
    <3> QED
      BY <3>1 DEF Message
  <2>3. k \in Nat
    BY <1>3, <2>1, <2>2
  <2>4. /\ (j - 1) + k \in DOMAIN h
        /\ h[(j - 1) + k].role = "tool"
        /\ h[(j - 1) + k].id = h[j - 1].calls[k]
    BY <1>1, <1>3, <2>1 DEF WellPaired
  <2> QED
    BY <1>1, <2>1, <2>3, <2>4
<1> QED
  BY <1>2, <1>3 DEF WellPaired, g

LEMMA PairedTail ==
  ASSUME NEW h \in Seq(Message), WellPaired(h), HasSystem(h)
  PROVE  WellPaired(Tail(h))
<1> DEFINE g == Tail(h)
<1>1. /\ Len(h) \in Nat /\ Len(h) >= 1
      /\ DOMAIN h = 1..Len(h)
      /\ DOMAIN g = 1..(Len(h) - 1)
      /\ \A i \in 1..(Len(h) - 1) : g[i] = h[i + 1]
      /\ h[1].role = "system"
  <2>1. Len(h) \in Nat /\ Len(h) >= 1 /\ DOMAIN h = 1..Len(h)
    BY EmptySeq DEF HasSystem
  <2> QED
    BY <2>1, HeadTailProperties DEF HasSystem
<1> HIDE DEF g
<1>2. ASSUME NEW i \in DOMAIN g, g[i].role = "tool"
      PROVE  \E j \in 1..(i - 1) : Answers(g, i, j)
  <2>1. i + 1 \in DOMAIN h /\ h[i + 1].role = "tool" /\ i \in Nat
    BY <1>1, <1>2
  <2>2. PICK j \in 1..((i + 1) - 1) : Answers(h, i + 1, j)
    BY <2>1 DEF WellPaired
  <2>3. j # 1
    BY <1>1, <2>2 DEF Answers
  <2>4. /\ j - 1 \in 1..(i - 1) /\ g[j - 1] = h[j]
        /\ i - (j - 1) = (i + 1) - j
    BY <1>1, <1>2, <2>1, <2>2, <2>3
  <2>5. Answers(g, i, j - 1)
    BY <1>1, <1>2, <2>2, <2>4 DEF Answers
  <2> QED
    BY <2>4, <2>5
<1>3. ASSUME NEW j \in DOMAIN g, NEW k \in DOMAIN g[j].calls
      PROVE  /\ j + k \in DOMAIN g
             /\ g[j + k].role = "tool"
             /\ g[j + k].id = g[j].calls[k]
  <2>1. j + 1 \in DOMAIN h /\ g[j] = h[j + 1] /\ j \in Nat /\ j >= 1
    BY <1>1, <1>3
  <2>2. h[j + 1].calls \in Seq(CallId)
    <3>1. h[j + 1] \in Message
      BY <2>1
    <3> QED
      BY <3>1 DEF Message
  <2>3. k \in Nat /\ k >= 1
    BY <1>3, <2>1, <2>2
  <2>4. /\ (j + 1) + k \in DOMAIN h
        /\ h[(j + 1) + k].role = "tool"
        /\ h[(j + 1) + k].id = h[j + 1].calls[k]
    BY <1>3, <2>1 DEF WellPaired
  <2> QED
    BY <1>1, <2>1, <2>3, <2>4
<1> QED
  BY <1>2, <1>3 DEF WellPaired, g
(***************************************************************************)
(* While tools run, the conversation is paired but for the results of the  *)
(* calls still to be run: here they are, if every tool returned "text".    *)
(***************************************************************************)
Results(calls) == [k \in DOMAIN calls |-> ToolMessage(calls[k], "text")]

LEMMA ResultsType ==
  ASSUME NEW calls \in Seq(CallId)
  PROVE  /\ Results(calls) \in Seq(Message)
         /\ Len(Results(calls)) = Len(calls)
         /\ \A k \in 1..Len(calls) :
              Results(calls)[k] = ToolMessage(calls[k], "text")
<1>1. \A k \in 1..Len(calls) : calls[k] \in CallId
  OBVIOUS
<1>2. \A k \in 1..Len(calls) : ToolMessage(calls[k], "text") \in Message
  BY <1>1, MessageTypes
<1>3. Len(calls) \in Nat /\ DOMAIN calls = 1..Len(calls)
  OBVIOUS
<1> HIDE DEF Message, CallId, ToolMessage
<1> QED
  BY <1>2, <1>3 DEF Results

\* The assistant's message with calls, and then one result for each.
LEMMA PairedRound ==
  ASSUME NEW h \in Seq(Message), NEW calls \in Seq(CallId), WellPaired(h)
  PROVE  WellPaired(Append(h, AssistantMessage(calls)) \o Results(calls))
<1> DEFINE m == AssistantMessage(calls)
           g == Append(h, m) \o Results(calls)
           n == Len(h)
<1>1. n \in Nat /\ Len(calls) \in Nat /\ DOMAIN calls = 1..Len(calls)
  OBVIOUS
<1>2. m \in Message /\ m.role = "assistant" /\ m.calls = calls
  BY MessageTypes DEF AssistantMessage
<1> HIDE DEF m
<1>3. /\ DOMAIN g = 1..(n + 1 + Len(calls))
      /\ \A i \in 1..n : g[i] = h[i]
      /\ g[n + 1] = m
      /\ \A k \in 1..Len(calls) : g[n + 1 + k] = Results(calls)[k]
  <2>1. /\ Append(h, m) \in Seq(Message)
        /\ Len(Append(h, m)) = n + 1
        /\ \A i \in 1..n : Append(h, m)[i] = h[i]
        /\ Append(h, m)[n + 1] = m
    BY <1>2
  <2>2. Results(calls) \in Seq(Message) /\ Len(Results(calls)) = Len(calls)
    BY ResultsType
  <2> QED
    BY <1>1, <2>1, <2>2, SMTT(20)
<1>5. DOMAIN h = 1..n
  OBVIOUS
<1> HIDE DEF g, n
<1>4. \A k \in 1..Len(calls) :
        /\ g[n + 1 + k] = ToolMessage(calls[k], "text")
        /\ g[n + 1 + k].role = "tool" /\ g[n + 1 + k].id = calls[k]
  <2>1. \A k \in 1..Len(calls) : g[n + 1 + k] = ToolMessage(calls[k], "text")
    BY <1>3, ResultsType
  <2>2. \A id : /\ ToolMessage(id, "text").role = "tool"
                /\ ToolMessage(id, "text").id = id
    BY DEF ToolMessage
  <2> QED
    BY <2>1, <2>2
<1>6. ASSUME NEW i \in DOMAIN g, g[i].role = "tool"
      PROVE  \E j \in 1..(i - 1) : Answers(g, i, j)
  <2>1. CASE i \in 1..n
    <3>1. PICK j \in 1..(i - 1) : Answers(h, i, j)
      BY <1>3, <1>5, <1>6, <2>1 DEF WellPaired
    <3>2. j \in 1..n
      BY <1>1, <2>1, <3>1
    <3> QED
      BY <1>3, <2>1, <3>1, <3>2 DEF Answers
  <2>2. CASE i \notin 1..n
    <3>1. i # n + 1
      BY <1>2, <1>3, <1>6
    <3>2. i - (n + 1) \in 1..Len(calls) /\ i = n + 1 + (i - (n + 1))
      BY <1>1, <1>3, <1>6, <2>2, <3>1
    <3>3. n + 1 \in 1..(i - 1)
      BY <1>1, <3>2
    <3>4. g[i].id = calls[i - (n + 1)]
      BY <1>4, <3>2
    <3>5. Answers(g, i, n + 1)
      BY <1>1, <1>2, <1>3, <3>2, <3>4 DEF Answers
    <3> QED
      BY <3>3, <3>5
  <2> QED
    BY <2>1, <2>2
<1>7. ASSUME NEW j \in DOMAIN g, NEW k \in DOMAIN g[j].calls
      PROVE  /\ j + k \in DOMAIN g
             /\ g[j + k].role = "tool"
             /\ g[j + k].id = g[j].calls[k]
  <2>1. CASE j \in 1..n
    <3>1. /\ j + k \in DOMAIN h
          /\ h[j + k].role = "tool"
          /\ h[j + k].id = h[j].calls[k]
      BY <1>3, <1>5, <1>7, <2>1 DEF WellPaired
    <3> QED
      BY <1>1, <1>3, <1>5, <2>1, <3>1
  <2>2. CASE j = n + 1
    <3>1. g[j].calls = calls /\ k \in 1..Len(calls)
      BY <1>1, <1>2, <1>3, <1>7, <2>2
    <3>2. j + k = n + 1 + k /\ n + 1 + k \in DOMAIN g
      BY <1>1, <1>3, <2>2, <3>1
    <3> QED
      BY <1>4, <3>1, <3>2
  <2>3. CASE j \notin 1..(n + 1)
    <3>1. j - (n + 1) \in 1..Len(calls) /\ j = n + 1 + (j - (n + 1))
      BY <1>1, <1>3, <1>7, <2>3
    <3>2. g[j] = ToolMessage(calls[j - (n + 1)], "text")
      BY <1>3, <3>1, ResultsType
    <3>3. g[j].calls = << >>
      BY <3>2 DEF ToolMessage
    <3> QED
      BY <1>7, <3>3, EmptySeq
  <2> QED
    BY <1>1, <1>3, <1>7, <2>1, <2>2, <2>3
<1>8. WellPaired(g)
  BY <1>6, <1>7 DEF WellPaired
<1> QED
  BY <1>8 DEF g, m

\* Running the first call turns its result from an expected one into one.
LEMMA PairedRun ==
  ASSUME NEW h \in Seq(Message), NEW calls \in Seq(CallId), calls # << >>,
         NEW text \in {"text", "binary"}, WellPaired(h \o Results(calls))
  PROVE  WellPaired(Append(h, ToolMessage(Head(calls), text))
                      \o Results(Tail(calls)))
<1> DEFINE m == ToolMessage(Head(calls), text)
           g == Append(h, m) \o Results(Tail(calls))
<1>1. /\ Head(calls) \in CallId /\ Tail(calls) \in Seq(CallId)
      /\ Head(calls) = calls[1]
      /\ Len(Tail(calls)) = Len(calls) - 1
      /\ \A k \in 1..Len(Tail(calls)) : Tail(calls)[k] = calls[k + 1]
      /\ Len(calls) \in Nat /\ Len(calls) >= 1 /\ Len(h) \in Nat
  <2>1. Len(calls) \in Nat /\ Len(calls) >= 1 /\ Len(h) \in Nat
    BY EmptySeq
  <2>2. Head(calls) = calls[1]
    BY <2>1
  <2> QED
    BY <2>1, <2>2, HeadTailProperties
<1>2. m \in Message
  BY <1>1, MessageTypes
<1>3. /\ m.role = "tool" /\ m.calls = << >> /\ m.id = calls[1]
  BY <1>1 DEF ToolMessage
<1> HIDE DEF m
<1>4. /\ Append(h, m) \in Seq(Message)
      /\ Len(Append(h, m)) = Len(h) + 1
      /\ \A i \in 1..Len(h) : Append(h, m)[i] = h[i]
      /\ Append(h, m)[Len(h) + 1] = m
  BY <1>2
<1>5. /\ Results(Tail(calls)) \in Seq(Message)
      /\ Len(Results(Tail(calls))) = Len(calls) - 1
      /\ \A k \in 1..(Len(calls) - 1) :
           Results(Tail(calls))[k] = ToolMessage(calls[k + 1], "text")
  <2> DEFINE t == Tail(calls)
  <2>1. /\ t \in Seq(CallId) /\ Len(t) = Len(calls) - 1
        /\ \A k \in 1..(Len(calls) - 1) : t[k] = calls[k + 1]
    BY <1>1
  <2> HIDE DEF t
  <2>2. /\ Results(t) \in Seq(Message)
        /\ Len(Results(t)) = Len(calls) - 1
        /\ \A k \in 1..(Len(calls) - 1) :
             Results(t)[k] = ToolMessage(t[k], "text")
    BY <2>1, ResultsType
  <2>3. \A k \in 1..(Len(calls) - 1) :
          Results(t)[k] = ToolMessage(calls[k + 1], "text")
    BY <2>1, <2>2
  <2> QED
    BY <2>2, <2>3 DEF t
<1>6. /\ Results(calls) \in Seq(Message)
      /\ Len(Results(calls)) = Len(calls)
      /\ \A k \in 1..Len(calls) :
           Results(calls)[k] = ToolMessage(calls[k], "text")
  BY ResultsType
<1>7. /\ g \in Seq(Message)
      /\ Len(g) = Len(h) + Len(calls)
      /\ \A i \in 1..Len(h) : g[i] = h[i]
      /\ g[Len(h) + 1] = m
      /\ \A k \in 1..(Len(calls) - 1) :
           g[Len(h) + 1 + k] = Results(Tail(calls))[k]
  <2> DEFINE a == Append(h, m)
             r == Results(Tail(calls))
  <2>1. /\ a \in Seq(Message) /\ Len(a) = Len(h) + 1
        /\ \A i \in 1..Len(h) : a[i] = h[i]
        /\ a[Len(h) + 1] = m
    BY <1>4
  <2>2. r \in Seq(Message) /\ Len(r) = Len(calls) - 1
    BY <1>5
  <2> HIDE DEF a, r
  <2>3. /\ a \o r \in Seq(Message)
        /\ Len(a \o r) = Len(a) + Len(r)
        /\ \A i \in 1..Len(a) : (a \o r)[i] = a[i]
        /\ \A k \in 1..Len(r) : (a \o r)[Len(a) + k] = r[k]
    BY <2>1, <2>2, SMTT(30)
  <2>4. g = a \o r
    BY DEF a, r
  <2> HIDE DEF g
  <2>5. g \in Seq(Message) /\ Len(g) = Len(h) + Len(calls)
    <3>1. g \in Seq(Message) /\ Len(g) = Len(a) + Len(r)
      BY <2>3, <2>4, Zenon
    <3>2. Len(a) = Len(h) + 1 /\ Len(r) = Len(calls) - 1
      BY <2>1, <2>2
    <3>3. Len(h) \in Nat /\ Len(calls) \in Nat
      BY <1>1
    <3> QED
      BY <3>1, <3>2, <3>3
  <2>6. g[Len(h) + 1] = m /\ \A i \in 1..Len(h) : g[i] = h[i]
    BY <1>1, <2>1, <2>3, <2>4
  <2>7. \A k \in 1..(Len(calls) - 1) : g[Len(h) + 1 + k] = r[k]
    BY <1>1, <2>1, <2>2, <2>3, <2>4
  <2> QED
    BY <2>5, <2>6, <2>7 DEF r
<1>8. /\ h \o Results(calls) \in Seq(Message)
      /\ Len(h \o Results(calls)) = Len(h) + Len(calls)
      /\ \A i \in 1..Len(h) : (h \o Results(calls))[i] = h[i]
      /\ \A k \in 1..Len(calls) :
           (h \o Results(calls))[Len(h) + k] = Results(calls)[k]
  BY <1>1, <1>6
<1> HIDE DEF g
<1>9. SameShape(g, h \o Results(calls))
  <2> DEFINE f == h \o Results(calls)
  <2> HIDE DEF f
  <2>1. ASSUME NEW i \in 1..(Len(h) + Len(calls))
        PROVE  g[i].role = f[i].role /\ g[i].calls = f[i].calls /\ g[i].id = f[i].id
    <3>1. CASE i \in 1..Len(h)
      BY <1>7, <1>8, <3>1 DEF f
    <3>2. CASE i = Len(h) + 1
      <4>1. f[i] = ToolMessage(calls[1], "text")
        BY <1>1, <1>6, <1>8, <3>2 DEF f
      <4> QED
        BY <1>3, <1>7, <3>2, <4>1 DEF ToolMessage
    <3>3. CASE i > Len(h) + 1
      <4> DEFINE k == i - (Len(h) + 1)
      <4>1. /\ k \in 1..(Len(calls) - 1) /\ i = Len(h) + 1 + k
            /\ k + 1 \in 1..Len(calls) /\ i = Len(h) + (k + 1)
        BY <1>1, <3>3
      <4> HIDE DEF k
      <4>2. g[i] = ToolMessage(calls[k + 1], "text")
        BY <1>5, <1>7, <4>1
      <4>3. f[i] = ToolMessage(calls[k + 1], "text")
        BY <1>6, <1>8, <4>1 DEF f
      <4> QED
        BY <4>2, <4>3
    <3> QED
      BY <1>1, <3>1, <3>2, <3>3
  <2>2. DOMAIN g = 1..(Len(h) + Len(calls)) /\ Len(g) = Len(f)
    BY <1>1, <1>7, <1>8 DEF f
  <2> QED
    BY <2>1, <2>2 DEF SameShape, f
<1>10. WellPaired(g)
  BY <1>7, <1>8, <1>9, PairedByShape
<1> QED
  BY <1>10 DEF g, m
LEMMA WithSystemPaired ==
  ASSUME TypeOK, NEW h \in Seq(Message), SystemOnlyFirst(h), WellPaired(h)
  PROVE  WellPaired(WithSystem(h))
<1>1. CASE system_prompt = NoPrompt
  BY <1>1 DEF WithSystem
<1>2. CASE system_prompt # NoPrompt
  <2> DEFINE m == PlainMessage("system", system_prompt)
  <2>1. m \in Message
    BY MessageTypes DEF TypeOK, Text
  <2>2. m.role = "system" /\ m.calls = << >>
    BY DEF PlainMessage
  <2>3. DropSystem(h) \in Seq(Message) /\ WellPaired(DropSystem(h))
    BY DropSystemKeeps, DropSystemIsTail, PairedTail
  <2> HIDE DEF m
  <2>4. WellPaired(<<m>> \o DropSystem(h))
    BY <2>1, <2>2, <2>3, PairedBehind
  <2> QED
    BY <1>2, <2>4 DEF WithSystem, m
<1> QED
  BY <1>1, <1>2

LEMMA RequestMessagesPaired ==
  ASSUME TypeOK, SystemOnlyFirst(chat_history), user_prompt # InvalidText,
         WellPaired(chat_history)
  PROVE  WellPaired(RequestMessages)
<1> DEFINE w == WithSystem(chat_history)
           u == PlainMessage("user", user_prompt)
<1>1. w \in Seq(Message) /\ WellPaired(w)
  BY WithSystemShape, WithSystemPaired DEF TypeOK
<1>2. u \in Message
  <2>1. user_prompt \in Text
    BY DEF TypeOK, Text
  <2> QED
    BY <2>1, MessageTypes
<1>3. u.role = "user" /\ u.calls = << >>
  BY DEF PlainMessage
<1> HIDE DEF w, u
<1>4. RequestMessages \in {w, Append(w, u)}
  BY DEF RequestMessages, w, u
<1> QED
  BY <1>1, <1>2, <1>3, <1>4, PairedAppend

(***************************************************************************)
(* While the server keeps the protocol and every result is shown, what is  *)
(* saved and what is sent is paired, and between them only the results of  *)
(* pending calls are missing.                                              *)
(***************************************************************************)
ChatPaired ==
  /\ phase \in {"request", "waiting", "exit", "topic"} => WellPaired(chat_history)
  /\ phase = "tools" => WellPaired(chat_history \o Results(response.calls))

Paired ==
  conforming /\ ~torn =>
    /\ \A s \in DOMAIN sessions : WellPaired(sessions[s].messages)
    /\ ChatPaired

LEMMA InitPaired == Init => Paired
BY DEF Init, Paired, ChatPaired

LEMMA PairedStep ==
  ASSUME TypeOK, SystemFirst, Paired, [Next]_vars
  PROVE  Paired'
<1> SUFFICES ASSUME conforming', ~torn'
             PROVE  /\ \A s \in DOMAIN sessions' :
                         WellPaired(sessions'[s].messages)
                    /\ ChatPaired'
  BY DEF Paired
<1>1. conforming /\ ~torn /\ ~ShowThrows
  <2>1. ~ShowThrows
    BY DEF ShowThrows
  <2>2. torn' = torn
    BY <2>1
    DEF Next, Begins, StartFresh, ContinueLast, ContinueFrom, Begin,
        ClientStep, GiveUp, Send, RunTool, EndRound, Answer, RequestFails,
        BadChunk, HttpError, Receive, ReceiveNoChoice, ReceiveNoCalls,
        ExitStep, Save, SaveFails, SaveThrows, TopicStep, SetTopic,
        NoTopicFound, TopicHttpError, Kill, ghosts, vars
  <2>3. conforming
    <3>1. ASSUME NEW cs \in Responses, Receive(cs) PROVE conforming
      BY <3>1 DEF Receive
    <3>2. ASSUME ~ \E cs \in Responses : Receive(cs) PROVE conforming
      BY <2>1, <3>2
      DEF Next, Begins, StartFresh, ContinueLast, ContinueFrom, Begin,
          ClientStep, GiveUp, Send, RunTool, EndRound, Answer, RequestFails,
          BadChunk, HttpError, ReceiveNoChoice, ReceiveNoCalls,
          ExitStep, Save, SaveFails, SaveThrows, TopicStep, SetTopic,
          NoTopicFound, TopicHttpError, Kill, ghosts, vars
    <3> QED
      BY <3>1, <3>2
  <2> QED
    BY <2>1, <2>2, <2>3
<1>2. \A s \in DOMAIN sessions' : WellPaired(sessions'[s].messages)
  <2>1. CASE Save
    <3>1. WellPaired(chat_history) /\ NewSession.messages = chat_history
      BY <1>1, <2>1 DEF Save, Paired, ChatPaired, NewSession
    <3> QED
      BY <1>1, <2>1, <3>1, SaveAppends DEF Paired
  <2>2. CASE SetTopic
    BY <1>1, <2>2, TopicKeepsSessions DEF Paired
  <2>3. CASE sessions' = sessions
    BY <1>1, <2>3 DEF Paired
  <2> QED
    BY <2>1, <2>2, <2>3, SameSessions DEF vars
<1> SUFFICES ChatPaired'
  BY <1>2
<1>3. ChatPaired
  BY <1>1 DEF Paired
<1>4. chat_history \in Seq(Message)
  BY DEF TypeOK
<1>5. CASE Begins
  <2>1. PICK prompt \in GivenPrompt, system \in GivenSystem,
             base \in 0..Len(sessions) : Begin(prompt, system, base)
    BY <1>5, BeginLoads
  <2>2. chat_history' = LoadedFrom(base) /\ phase' # "tools"
    BY <2>1 DEF Begin
  <2>3. WellPaired(LoadedFrom(base))
    <3>1. CASE base = NoSession
      BY <3>1 DEF LoadedFrom, WellPaired
    <3>2. CASE base # NoSession
      <4>1. base \in DOMAIN sessions
        BY <3>2 DEF TypeOK, NoSession
      <4> QED
        BY <1>1, <3>2, <4>1 DEF LoadedFrom, Paired
    <3> QED
      BY <3>1, <3>2
  <2> QED
    BY <2>2, <2>3 DEF ChatPaired
<1>6. CASE Send
  <2>1. user_prompt # InvalidText /\ phase = "request" /\ phase' # "tools"
    BY <1>6 DEF Send, Return, TypeOK
  <2>2. WellPaired(RequestMessages)
    BY <1>3, <2>1, RequestMessagesPaired DEF ChatPaired, SystemFirst
  <2> QED
    BY <1>6, <2>1, <2>2 DEF Send, ChatPaired
<1>7. CASE RunTool
  <2>1. PICK text \in ToolResults :
          chat_history' =
            Append(chat_history, ToolMessage(Head(response.calls), text))
    BY <1>7 DEF RunTool
  <2>2. response.calls \in Seq(CallId) /\ response.calls # << >>
    BY <1>7 DEF RunTool, TypeOK
  <2>3. /\ phase = "tools" /\ phase' = "tools"
        /\ response'.calls = Tail(response.calls)
    BY <1>7 DEF RunTool, TypeOK
  <2>4. text \in {"text", "binary"}
    BY DEF ToolResults
  <2>5. WellPaired(Append(chat_history, ToolMessage(Head(response.calls), text))
                     \o Results(Tail(response.calls)))
    BY <1>3, <1>4, <2>2, <2>3, <2>4, PairedRun DEF ChatPaired
  <2> QED
    BY <2>1, <2>3, <2>5 DEF ChatPaired, Results
<1>8. CASE EndRound
  <2>1. chat_history' = chat_history /\ phase' \in {"request", "exit"}
    BY <1>8 DEF EndRound, Return
  <2>2. Results(<< >>) = << >>
    BY DEF Results
  <2>3. WellPaired(chat_history \o << >>)
    BY <1>3, <1>8, <2>2 DEF EndRound, ChatPaired
  <2>4. WellPaired(chat_history)
    BY <1>4, <2>3, ConcatEmptySeq
  <2> QED
    BY <2>1, <2>4 DEF ChatPaired
<1>9. ASSUME NEW cs \in Responses, Receive(cs) PROVE ChatPaired'
  <2> DEFINE ids == CallIds(cs, 1)
             recorded == RecordedCalls(cs[1], ids)
  <2>1. /\ chat_history' = Append(chat_history, AssistantMessage(recorded))
        /\ response'.calls = CallIds(cs, Len(cs))
        /\ phase = "waiting" /\ phase' = "tools"
        /\ cs # << >> /\ Conforms(cs)
    BY <1>9 DEF Receive
  <2>2. /\ ids \in Seq(CallId) /\ Len(ids) = cs[1].calls
        /\ cs[1].calls \in Nat
    BY <2>1, ReceivedCalls
  <2>3. response'.calls = ids
    BY <2>1 DEF Conforms
  <2>4. recorded = ids
    <3>1. CASE cs[1].finish = "tool_calls"
      BY <3>1 DEF RecordedCalls
    <3>2. CASE cs[1].finish # "tool_calls"
      <4>1. cs[1].calls = 0
        BY <2>1, <2>2, <3>2 DEF Conforms
      <4>2. ids = << >>
        <5> HIDE DEF ids
        <5> QED
          BY <2>2, <4>1, EmptySeq
      <4> QED
        BY <3>2, <4>2 DEF RecordedCalls
    <3> QED
      BY <3>1, <3>2
  <2> HIDE DEF ids, recorded
  <2>5. WellPaired(Append(chat_history, AssistantMessage(ids)) \o Results(ids))
    BY <1>3, <1>4, <2>1, <2>2, PairedRound DEF ChatPaired
  <2> QED
    BY <2>1, <2>3, <2>4, <2>5 DEF ChatPaired, Results
<1>10. CASE UNCHANGED chat_history /\ phase' \in {"exit", "topic"}
              /\ phase \in {"request", "waiting", "exit"}
  BY <1>3, <1>10 DEF ChatPaired
<1>11. CASE GiveUp \/ RequestFails \/ Save \/ SaveFails
  BY <1>10, <1>11 DEF GiveUp, RequestFails, Save, SaveFails, Return
<1>12. ASSUME NEW how, Die(how) PROVE ChatPaired'
  BY <1>12 DEF Die, ChatPaired
<1>13. CASE BadChunk \/ HttpError \/ SaveThrows \/ SetTopic \/ NoTopicFound
              \/ TopicHttpError \/ Kill
  BY <1>12, <1>13 DEF BadChunk, HttpError, SaveThrows, SetTopic, NoTopicFound,
                      TopicHttpError, Kill
<1>14. ASSUME NEW cs \in Responses, ReceiveNoChoice(cs) \/ ReceiveNoCalls(cs)
       PROVE  ChatPaired'
  BY <1>12, <1>14 DEF ReceiveNoChoice, ReceiveNoCalls
<1>15. CASE UNCHANGED vars
  BY <1>3, <1>15 DEF vars, ChatPaired, Results
<1> QED
  BY <1>1, <1>5, <1>6, <1>7, <1>8, <1>9, <1>11, <1>13, <1>14, <1>15
     DEF Next, ClientStep, Answer, ExitStep, TopicStep
-----------------------------------------------------------------------------
(***************************************************************************)
(* What a conversation takes over.                                         *)
(***************************************************************************)
LEMMA PrefixByElement ==
  ASSUME NEW s \in Seq(Message), NEW t \in Seq(Message)
  PROVE  IsPrefix(s, t) <=>
           Len(s) <= Len(t) /\ \A i \in 1..Len(s) : s[i] = t[i]
<1>1. /\ Len(s) \in Nat /\ Len(t) \in Nat
      /\ \A i \in 1..Len(s) : s[i] \in Message
      /\ \A i \in 1..Len(t) : t[i] \in Message
  OBVIOUS
<1> HIDE DEF Message
<1>2. SUFFICES ASSUME Len(s) <= Len(t)
               PROVE  SubSeq(s, 1, Len(s)) = SubSeq(t, 1, Len(s)) <=>
                        \A i \in 1..Len(s) : s[i] = t[i]
  BY DEF IsPrefix
<1> DEFINE a == SubSeq(s, 1, Len(s))
           b == SubSeq(t, 1, Len(s))
<1>3. /\ a \in Seq(Message) /\ Len(a) = Len(s)
      /\ \A i \in 1..Len(s) : a[i] = s[i]
  BY <1>1
<1>4. /\ b \in Seq(Message) /\ Len(b) = Len(s)
      /\ \A i \in 1..Len(s) : b[i] = t[i]
  BY <1>1, <1>2
<1> HIDE DEF a, b
<1>5. a = b => \A i \in 1..Len(s) : s[i] = t[i]
  BY <1>3, <1>4
<1>6. ASSUME \A i \in 1..Len(s) : s[i] = t[i] PROVE a = b
  <2>1. \A i \in 1..Len(a) : a[i] = b[i]
    BY <1>3, <1>4, <1>6
  <2> QED
    BY <1>3, <1>4, <2>1, SeqEqual
<1> QED
  BY <1>5, <1>6 DEF a, b

\* What a message appended to the conversation leaves in place.
LEMMA PrefixAppend ==
  ASSUME NEW s \in Seq(Message), NEW t \in Seq(Message), NEW m \in Message,
         IsPrefix(s, t)
  PROVE  IsPrefix(s, Append(t, m))
<1>1. /\ Append(t, m) \in Seq(Message)
      /\ Len(Append(t, m)) = Len(t) + 1
      /\ \A i \in 1..Len(t) : Append(t, m)[i] = t[i]
      /\ Len(s) \in Nat /\ Len(t) \in Nat
  OBVIOUS
<1>2. Len(s) <= Len(t) /\ \A i \in 1..Len(s) : s[i] = t[i]
  BY PrefixByElement
<1>3. Len(s) <= Len(t) + 1 /\ \A i \in 1..Len(s) : s[i] = Append(t, m)[i]
  BY <1>1, <1>2
<1> QED
  BY <1>1, <1>3, PrefixByElement

LEMMA DropSystemAppend ==
  ASSUME NEW h \in Seq(Message), NEW m \in Message,
         SystemOnlyFirst(h), m.role # "system"
  PROVE  DropSystem(Append(h, m)) = Append(DropSystem(h), m)
<1> DEFINE g == Append(h, m)
<1>1. /\ Len(h) \in Nat
      /\ g \in Seq(Message) /\ Len(g) = Len(h) + 1
      /\ \A i \in 1..Len(h) : g[i] = h[i]
      /\ g[Len(h) + 1] = m
      /\ g # << >>
  OBVIOUS
<1>2. SystemOnlyFirst(g)
  BY AppendMessage
<1> HIDE DEF g
<1>3. HasSystem(g) <=> HasSystem(h)
  <2>1. CASE h = << >>
    BY <1>1, <2>1, EmptySeq DEF HasSystem
  <2>2. CASE h # << >>
    <3>1. 1 \in 1..Len(h)
      BY <1>1, <2>2, EmptySeq
    <3> QED
      BY <1>1, <2>2, <3>1 DEF HasSystem
  <2> QED
    BY <2>1, <2>2
<1>4. CASE ~HasSystem(h)
  <2>1. DropSystem(g) = g
    BY <1>1, <1>2, <1>3, <1>4, DropSystemIsTail
  <2>2. DropSystem(h) = h
    BY <1>4, DropSystemIsTail
  <2> QED
    BY <2>1, <2>2 DEF g
<1>5. CASE HasSystem(h)
  <2>1. DropSystem(g) = Tail(g)
    BY <1>1, <1>2, <1>3, <1>5, DropSystemIsTail
  <2>2. DropSystem(h) = Tail(h) /\ h # << >>
    BY <1>5, DropSystemIsTail DEF HasSystem
  <2>3. /\ Tail(g) \in Seq(Message) /\ Len(Tail(g)) = Len(h)
        /\ \A i \in 1..Len(h) : Tail(g)[i] = g[i + 1]
    BY <1>1, HeadTailProperties
  <2>4. /\ Tail(h) \in Seq(Message) /\ Len(Tail(h)) = Len(h) - 1
        /\ \A i \in 1..(Len(h) - 1) : Tail(h)[i] = h[i + 1]
        /\ Len(h) >= 1
    <3>1. Len(h) >= 1
      BY <1>1, <2>2, EmptySeq
    <3> QED
      BY <1>1, <2>2, <3>1, HeadTailProperties
  <2> DEFINE t == Tail(h)
  <2>5. /\ Append(t, m) \in Seq(Message) /\ Len(Append(t, m)) = Len(h)
        /\ \A i \in 1..(Len(h) - 1) : Append(t, m)[i] = t[i]
        /\ Append(t, m)[Len(h)] = m
    <3>1. t \in Seq(Message) /\ Len(t) = Len(h) - 1
      BY <2>4
    <3> HIDE DEF t
    <3> QED
      BY <1>1, <3>1, AppendProperties
  <2>6. ASSUME NEW i \in 1..Len(h) PROVE Tail(g)[i] = Append(t, m)[i]
    <3>1. CASE i = Len(h)
      BY <1>1, <2>3, <2>5, <3>1
    <3>2. CASE i # Len(h)
      <4>1. i \in 1..(Len(h) - 1) /\ i + 1 \in 1..Len(h)
        BY <1>1, <3>2
      <4>2. Tail(g)[i] = h[i + 1]
        BY <1>1, <2>3, <4>1
      <4>3. Append(t, m)[i] = h[i + 1]
        BY <2>4, <2>5, <4>1
      <4> QED
        BY <4>2, <4>3
    <3> QED
      BY <3>1, <3>2
  <2> HIDE DEF t
  <2>7. Tail(g) = Append(t, m)
    BY <2>3, <2>5, <2>6, SeqEqual
  <2> QED
    BY <2>1, <2>2, <2>7 DEF g, t
<1> QED
  BY <1>4, <1>5

LEMMA DropSystemWithSystem ==
  ASSUME TypeOK, NEW h \in Seq(Message), SystemOnlyFirst(h)
  PROVE  DropSystem(WithSystem(h)) = DropSystem(h)
<1>1. CASE system_prompt = NoPrompt
  BY <1>1 DEF WithSystem
<1>2. CASE system_prompt # NoPrompt
  <2> DEFINE m == PlainMessage("system", system_prompt)
             d == DropSystem(h)
             w == <<m>> \o d
  <2>1. WithSystem(h) = w
    BY <1>2 DEF WithSystem
  <2>2. w \in Seq(Message) /\ SystemOnlyFirst(w)
    BY <2>1, WithSystemShape
  <2>3. m.role = "system" /\ m \in Message
    BY MessageTypes DEF PlainMessage, TypeOK, Text
  <2>4. d \in Seq(Message)
    BY DropSystemKeeps
  <2> HIDE DEF m, d
  <2>5. /\ w # << >> /\ w[1] = m
        /\ Len(w) = Len(d) + 1 /\ Len(d) \in Nat
        /\ \A i \in 1..Len(d) : w[i + 1] = d[i]
    BY <2>3, <2>4
  <2> HIDE DEF w
  <2>6. DropSystem(w) = Tail(w)
    BY <2>2, <2>3, <2>5, DropSystemIsTail DEF HasSystem
  <2>7. /\ Tail(w) \in Seq(Message) /\ Len(Tail(w)) = Len(d)
        /\ \A i \in 1..Len(Tail(w)) : Tail(w)[i] = w[i + 1]
    BY <2>2, <2>5, HeadTailProperties
  <2>8. \A i \in 1..Len(Tail(w)) : Tail(w)[i] = d[i]
    BY <2>5, <2>7
  <2>9. Tail(w) = d
    BY <2>4, <2>7, <2>8, SeqEqual
  <2> QED
    BY <2>1, <2>6, <2>9 DEF d
<1> QED
  BY <1>1, <1>2
\* A conversation that grows keeps what it has taken over.
Grows(g, h) ==
  \A s \in Seq(Message) :
    IsPrefix(s, DropSystem(g)) => IsPrefix(s, DropSystem(h))

LEMMA AppendGrows ==
  ASSUME NEW h \in Seq(Message), NEW m \in Message,
         SystemOnlyFirst(h), m.role # "system"
  PROVE  Grows(h, Append(h, m))
BY DropSystemAppend, DropSystemKeeps, PrefixAppend, ZenonT(30) DEF Grows

LEMMA RequestGrows ==
  ASSUME TypeOK, SystemOnlyFirst(chat_history), user_prompt # InvalidText
  PROVE  Grows(chat_history, RequestMessages)
<1> DEFINE w == WithSystem(chat_history)
           u == PlainMessage("user", user_prompt)
<1>1. w \in Seq(Message) /\ SystemOnlyFirst(w)
  BY WithSystemShape DEF TypeOK
<1>2. DropSystem(w) = DropSystem(chat_history)
  BY DropSystemWithSystem DEF TypeOK
<1>3. u \in Message /\ u.role # "system"
  <2>1. user_prompt \in Text
    BY DEF TypeOK, Text
  <2> QED
    BY <2>1, MessageTypes DEF PlainMessage
<1> HIDE DEF w, u
<1>4. RequestMessages \in {w, Append(w, u)}
  BY DEF RequestMessages, w, u
<1> QED
  BY <1>1, <1>2, <1>3, <1>4, AppendGrows DEF Grows

\* A saved session keeps its messages and its parent.
LEMMA SessionsStay ==
  ASSUME TypeOK, [Next]_vars
  PROVE  \A s \in DOMAIN sessions :
           /\ s \in DOMAIN sessions'
           /\ sessions'[s].messages = sessions[s].messages
           /\ sessions'[s].parent = sessions[s].parent
<1>1. CASE Save
  BY <1>1, SaveAppends
<1>2. CASE SetTopic
  BY <1>2, TopicKeepsSessions
<1>3. CASE sessions' = sessions
  BY <1>3
<1> QED
  BY <1>1, <1>2, <1>3, SameSessions DEF vars

LEMMA LineageStep ==
  ASSUME TypeOK, SystemFirst, Ordered, Lineage, [Next]_vars
  PROVE  Lineage'
<1>0. /\ Len(sessions) \in Nat /\ DOMAIN sessions = 1..Len(sessions)
      /\ chat_history \in Seq(Message)
      /\ \A s \in DOMAIN sessions :
           sessions[s].messages \in Seq(Message)
           /\ SystemOnlyFirst(sessions[s].messages)
  <2>1. \A s \in DOMAIN sessions : sessions[s] \in Session
    BY DEF TypeOK
  <2> QED
    BY <2>1 DEF TypeOK, Session, SystemFirst
\* The continued session is where it was.
<1>1. ASSUME NEW h, NEW base \in 0..Len(sessions), Extends(h, base)
      PROVE  base # NoSession =>
               IsPrefix(DropSystem(sessions'[base].messages), DropSystem(h))
  BY <1>0, <1>1, SessionsStay DEF Extends, NoSession
<1>2. ASSUME NEW s \in DOMAIN sessions
      PROVE  Extends(sessions[s].messages, sessions[s].parent)'
  <2>1. /\ sessions'[s].messages = sessions[s].messages
        /\ sessions'[s].parent = sessions[s].parent
        /\ sessions[s].parent \in 0..Len(sessions)
        /\ Extends(sessions[s].messages, sessions[s].parent)
    BY SessionsStay DEF Ordered, Lineage
  <2> QED
    BY <1>1, <2>1 DEF Extends
<1>3. \A s \in DOMAIN sessions' :
        Extends(sessions[s].messages, sessions[s].parent)'
  <2>1. CASE Save
    <3>1. NewSession.messages = chat_history /\ NewSession.parent = parent
      BY DEF NewSession
    <3>2. Extends(chat_history, parent) /\ parent \in 0..Len(sessions)
      BY DEF Lineage, Ordered
    <3>3. ASSUME NEW s, s = Len(sessions) + 1
          PROVE  Extends(sessions[s].messages, sessions[s].parent)'
      <4>1. /\ sessions'[s].messages = chat_history
            /\ sessions'[s].parent = parent
        BY <2>1, <3>1, <3>3, SaveAppends
      <4> QED
        BY <1>1, <3>2, <4>1 DEF Extends
    <3> QED
      BY <1>2, <2>1, <3>3, SaveAppends
  <2>2. CASE ~Save
    <3>1. DOMAIN sessions' = DOMAIN sessions
      BY <2>2, SameSessions, TopicKeepsSessions DEF vars
    <3> QED
      BY <1>2, <3>1
  <2> QED
    BY <2>1, <2>2
<1> SUFFICES Extends(chat_history, parent)'
  BY <1>3 DEF Lineage
<1>4. ASSUME parent' = parent, Grows(chat_history, chat_history')
      PROVE  Extends(chat_history, parent)'
  <2>1. CASE parent = NoSession
    BY <1>4, <2>1 DEF Extends
  <2>2. CASE parent # NoSession
    <3>1. parent \in DOMAIN sessions /\ parent \in 0..Len(sessions)
      BY <1>0, <2>2 DEF Ordered, NoSession
    <3>2. sessions'[parent].messages = sessions[parent].messages
      BY <3>1, SessionsStay
    <3>3. DropSystem(sessions[parent].messages) \in Seq(Message)
      BY <1>0, <3>1, DropSystemKeeps
    <3>4. IsPrefix(DropSystem(sessions[parent].messages),
                   DropSystem(chat_history))
      BY <2>2 DEF Lineage, Extends
    <3>5. IsPrefix(DropSystem(sessions[parent].messages),
                   DropSystem(chat_history'))
      BY <1>4, <3>3, <3>4 DEF Grows
    <3> QED
      BY <1>4, <3>2, <3>5 DEF Extends
  <2> QED
    BY <2>1, <2>2
<1>5. CASE UNCHANGED <<chat_history, parent>>
  BY <1>4, <1>5 DEF Grows
<1>6. ASSUME parent' = NoSession PROVE Extends(chat_history, parent)'
  BY <1>6 DEF Extends
<1>7. CASE Begins
  <2>1. PICK prompt \in GivenPrompt, system \in GivenSystem,
             base \in 0..Len(sessions) : Begin(prompt, system, base)
    BY <1>7, BeginLoads
  <2>2. /\ parent' = base /\ chat_history' = LoadedFrom(base)
        /\ sessions' = sessions
    BY <2>1 DEF Begin
  <2>3. CASE base = NoSession
    BY <1>6, <2>2, <2>3
  <2>4. CASE base # NoSession
    <3>1. base \in DOMAIN sessions
      BY <1>0, <2>4 DEF NoSession
    <3>2. chat_history' = sessions[base].messages
      BY <2>2, <2>4 DEF LoadedFrom
    <3> DEFINE d == DropSystem(sessions[base].messages)
    <3>3. d \in Seq(Message)
      BY <1>0, <3>1, DropSystemKeeps
    <3> HIDE DEF d
    <3>4. IsPrefix(d, d)
      BY <3>3 DEF IsPrefix
    <3> QED
      BY <2>2, <3>2, <3>4 DEF Extends, d
  <2> QED
    BY <2>3, <2>4
<1>8. CASE Send
  <2>1. user_prompt # InvalidText /\ chat_history' = RequestMessages
    BY <1>8 DEF Send, TypeOK
  <2>2. parent' = parent
    BY <1>8 DEF Send, Return, input
  <2> QED
    BY <1>4, <2>1, <2>2, RequestGrows DEF SystemFirst
<1>9. CASE RunTool
  <2>1. PICK text \in ToolResults :
          chat_history' =
            Append(chat_history, ToolMessage(Head(response.calls), text))
    BY <1>9 DEF RunTool
  <2>2. Head(response.calls) \in CallId
    <3>1. response.calls \in Seq(CallId) /\ response.calls # << >>
      BY <1>9 DEF RunTool, TypeOK
    <3> QED
      BY <3>1, HeadTailProperties
  <2> DEFINE m == ToolMessage(Head(response.calls), text)
  <2>3. m \in Message /\ m.role # "system"
    BY <2>2, MessageTypes DEF ToolResults, ToolMessage
  <2> HIDE DEF m
  <2>4. Grows(chat_history, Append(chat_history, m))
    BY <1>0, <2>3, AppendGrows DEF SystemFirst
  <2>5. parent' = parent
    BY <1>9 DEF RunTool, input
  <2> QED
    BY <1>4, <2>1, <2>4, <2>5 DEF m
<1>10. ASSUME NEW cs \in Responses, Receive(cs)
       PROVE  Extends(chat_history, parent)'
  <2> DEFINE m == AssistantMessage(RecordedCalls(cs[1], CallIds(cs, 1)))
  <2>1. chat_history' = Append(chat_history, m) /\ parent' = parent
    BY <1>10 DEF Receive, input
  <2>2. RecordedCalls(cs[1], CallIds(cs, 1)) \in Seq(CallId)
    BY <1>10, ReceivedCalls, EmptySeq DEF Receive, RecordedCalls
  <2>3. m \in Message /\ m.role # "system"
    BY <2>2, MessageTypes DEF AssistantMessage
  <2> HIDE DEF m
  <2>4. Grows(chat_history, chat_history')
    BY <1>0, <2>1, <2>3, AppendGrows DEF SystemFirst
  <2> QED
    BY <1>4, <2>1, <2>4
<1>11. CASE GiveUp \/ ShowThrows \/ EndRound \/ RequestFails \/ Save \/ SaveFails
  BY <1>5, <1>11 DEF GiveUp, ShowThrows, EndRound, RequestFails, Save, SaveFails,
                     Return, input
<1>12. ASSUME NEW how, Die(how) PROVE Extends(chat_history, parent)'
  BY <1>6, <1>12 DEF Die
<1>13. CASE BadChunk \/ HttpError \/ SaveThrows \/ SetTopic \/ NoTopicFound
              \/ TopicHttpError \/ Kill
  BY <1>12, <1>13 DEF BadChunk, HttpError, SaveThrows, SetTopic, NoTopicFound,
                      TopicHttpError, Kill
<1>14. ASSUME NEW cs \in Responses, ReceiveNoChoice(cs) \/ ReceiveNoCalls(cs)
       PROVE  Extends(chat_history, parent)'
  BY <1>12, <1>14 DEF ReceiveNoChoice, ReceiveNoCalls
<1>15. CASE UNCHANGED vars
  BY <1>5, <1>15 DEF vars, input
<1> QED
  BY <1>7, <1>8, <1>9, <1>10, <1>11, <1>13, <1>14, <1>15
     DEF Next, ClientStep, Answer, ExitStep, TopicStep
-----------------------------------------------------------------------------
ChatInv == IInv /\ Paired /\ Lineage

LEMMA Invariance == Spec => []ChatInv
<1>1. Init => ChatInv
  <2> SUFFICES ASSUME Init PROVE Lineage
    BY InitIInv, InitPaired DEF ChatInv
  <2> QED
    BY DEF Init, Lineage, Extends
<1>2. ChatInv /\ [Next]_vars => ChatInv'
  BY IInvStep, PairedStep, LineageStep DEF ChatInv, IInv
<1> QED
  BY <1>1, <1>2, PTL DEF Spec

(***************************************************************************)
(* The state always has its type.  In particular no argument that is not   *)
(* UTF-8 reaches a request.                                                *)
(***************************************************************************)
THEOREM TypeCorrect == Spec => []TypeOK
<1>1. ChatInv => TypeOK
  BY DEF ChatInv, IInv
<1> QED
  BY <1>1, Invariance, PTL

(***************************************************************************)
(* For any number of continued sessions and tool rounds, no conversation   *)
(* has a system message behind its first message (openai.cc 179-191).      *)
(***************************************************************************)
THEOREM SystemAtFront == Spec => []SystemFirst
<1>1. ChatInv => SystemFirst
  BY DEF ChatInv, IInv
<1> QED
  BY <1>1, Invariance, PTL

(***************************************************************************)
(* A session that is saved holds the result of every tool call that its    *)
(* invocation ran (chat.cc 211-253 and 74-96), however the chat ended: all *)
(* but the one that could not be shown (238), and then it is an error.     *)
(***************************************************************************)
THEOREM ToolResultsSaved == Spec => []ToolsRecorded
<1>1. ChatInv => ToolsRecorded
  BY DEF ChatInv, IInv, ToolsRecorded, SavedIsMine, RunRecorded
<1> QED
  BY <1>1, Invariance, PTL

(***************************************************************************)
(* With a server that keeps the protocol, any number of calls per round    *)
(* and any failure but that of showing a result, every request pairs tool  *)
(* calls and results, also when it continues a saved session (openai.cc    *)
(* 354-368, chat.cc 166-276).                                              *)
(***************************************************************************)
THEOREM RequestsArePaired == Spec => []RequestsWellPaired
<1>1. ChatInv => RequestsWellPaired
  BY DEF ChatInv, Paired, ChatPaired, RequestsWellPaired
<1> QED
  BY <1>1, Invariance, PTL

(***************************************************************************)
(* A chain of -C and --continue-from keeps all that was said: each session *)
(* begins with its parent's messages, whatever system prompts were given.  *)
(***************************************************************************)
THEOREM LineageKept == Spec => []Lineage
<1>1. ChatInv => Lineage
  BY DEF ChatInv
<1> QED
  BY <1>1, Invariance, PTL

-----------------------------------------------------------------------------
(***************************************************************************)
(* Counting the user's messages.  Before the request the prompt is still   *)
(* to be counted, if it has not been sent.                                 *)
(***************************************************************************)
Users(h) == {i \in DOMAIN h : h[i].role = "user"}
Added(prompt) == IF prompt = NoPrompt THEN 0 ELSE 1
Loaded == IF parent = NoSession THEN 0 ELSE UserMessages(sessions[parent].messages)

PromptCounted ==
  /\ phase = "request" =>
       UserMessages(chat_history) + Added(user_prompt) = Loaded + Added(given)
  /\ phase \in {"waiting", "tools"} => UserMessages(chat_history) = Loaded + Added(given)

LEMMA UsersFinite ==
  ASSUME NEW h \in Seq(Message)
  PROVE  IsFiniteSet(Users(h)) /\ UserMessages(h) = Cardinality(Users(h))
         /\ UserMessages(h) \in Nat
<1>1. Len(h) \in Nat /\ DOMAIN h = 1..Len(h)
  OBVIOUS
<1>2. IsFiniteSet(1..Len(h))
  BY <1>1, FS_Interval, 1 \in Int, Len(h) \in Int
<1>3. Users(h) \in SUBSET (1..Len(h))
  BY <1>1 DEF Users
<1>4. IsFiniteSet(Users(h))
  BY <1>2, <1>3, FS_Subset
<1>5. UserMessages(h) = Cardinality(Users(h))
  BY Zenon DEF UserMessages, Users
<1> QED
  BY <1>4, <1>5, FS_CardinalityType

LEMMA AppendCounts ==
  ASSUME NEW h \in Seq(Message), NEW m \in Message
  PROVE  UserMessages(Append(h, m)) =
           UserMessages(h) + (IF m.role = "user" THEN 1 ELSE 0)
<1> DEFINE g == Append(h, m)
           l == Len(h) + 1
<1>1. /\ g \in Seq(Message) /\ Len(h) \in Nat
      /\ DOMAIN h = 1..Len(h) /\ DOMAIN g = 1..l
      /\ \A i \in 1..Len(h) : g[i] = h[i]
      /\ g[l] = m
  OBVIOUS
<1> HIDE DEF g
<1>2. Users(g) = IF m.role = "user" THEN Users(h) \cup {l} ELSE Users(h)
  BY <1>1 DEF Users
<1>3. l \notin Users(h)
  BY <1>1 DEF Users
<1>4. Cardinality(Users(h) \cup {l}) = Cardinality(Users(h)) + 1
  BY <1>3, UsersFinite, FS_AddElement
<1>5. /\ UserMessages(g) = Cardinality(Users(g))
      /\ UserMessages(h) = Cardinality(Users(h)) /\ UserMessages(h) \in Nat
  BY <1>1, UsersFinite
<1>6. UserMessages(g) = UserMessages(h) + (IF m.role = "user" THEN 1 ELSE 0)
  <2>1. CASE m.role = "user"
    BY <1>2, <1>4, <1>5, <2>1
  <2>2. CASE m.role # "user"
    BY <1>2, <1>5, <2>2
  <2> QED
    BY <2>1, <2>2
<1> QED
  BY <1>6 DEF g

\* A system message at the front is not the user's.
LEMMA DropSystemCounts ==
  ASSUME NEW h \in Seq(Message), SystemOnlyFirst(h)
  PROVE  UserMessages(DropSystem(h)) = UserMessages(h)
<1>1. CASE ~HasSystem(h)
  BY <1>1, DropSystemIsTail
<1>2. CASE HasSystem(h)
  <2> DEFINE t == Tail(h)
             shift == [i \in Users(t) |-> i + 1]
  <2>1. /\ t \in Seq(Message) /\ Len(t) = Len(h) - 1 /\ Len(h) \in Nat /\ Len(h) >= 1
        /\ \A i \in 1..Len(t) : t[i] = h[i + 1]
    BY <1>2, EmptySeq, HeadTailProperties DEF HasSystem
  <2>2. DropSystem(h) = t
    BY <1>2, DropSystemIsTail
  <2> HIDE DEF t
  <2>3. DOMAIN t = 1..(Len(h) - 1) /\ DOMAIN h = 1..Len(h) /\ Len(t) \in Nat
    BY <2>1
  <2>4. ASSUME NEW i \in Users(t) PROVE i \in Nat /\ i + 1 \in Users(h)
    BY <2>1, <2>3, <2>4 DEF Users
  <2>5. ASSUME NEW j \in Users(h) PROVE \E i \in Users(t) : i + 1 = j
    <3>1. j \in 1..Len(h) /\ h[j].role = "user"
      BY <2>3 DEF Users
    <3>2. j # 1
      BY <1>2, <3>1 DEF HasSystem
    <3>3. j - 1 \in 1..(Len(h) - 1) /\ (j - 1) + 1 = j
      BY <2>1, <3>1, <3>2
    <3>4. j - 1 \in Users(t)
      BY <2>1, <2>3, <3>1, <3>3 DEF Users
    <3> QED
      BY <3>3, <3>4
  <2>6. shift \in [Users(t) -> Users(h)]
    BY <2>4
  <2>7. \A a, b \in Users(t) : shift[a] = shift[b] => a = b
    BY <2>4
  <2>8. \A j \in Users(h) : \E i \in Users(t) : shift[i] = j
    BY <2>5
  <2> HIDE DEF shift
  <2>9. shift \in Bijection(Users(t), Users(h))
    BY <2>6, <2>7, <2>8, Fun_IsBij
  <2>10. ExistsBijection(Users(t), Users(h))
    BY <2>9, Zenon DEF ExistsBijection
  <2>11. Cardinality(Users(h)) = Cardinality(Users(t))
    BY <2>1, <2>10, UsersFinite, FS_Bijection
  <2> QED
    BY <2>1, <2>2, <2>11, UsersFinite
<1> QED
  BY <1>1, <1>2

LEMMA RequestCounts ==
  ASSUME TypeOK, SystemOnlyFirst(chat_history), user_prompt # InvalidText
  PROVE  UserMessages(RequestMessages) = UserMessages(chat_history) + Added(user_prompt)
<1> DEFINE w == WithSystem(chat_history)
           u == PlainMessage("user", user_prompt)
<1>1. chat_history \in Seq(Message)
  BY DEF TypeOK
<1>2. w \in Seq(Message) /\ SystemOnlyFirst(w)
  BY <1>1, WithSystemShape
<1>3. UserMessages(w) = UserMessages(chat_history)
  BY <1>1, <1>2, DropSystemWithSystem, DropSystemCounts
<1>4. u \in Message /\ u.role = "user"
  <2>1. user_prompt \in Text
    BY DEF TypeOK, Text
  <2> QED
    BY <2>1, MessageTypes DEF PlainMessage
<1>5. RequestMessages = IF user_prompt = NoPrompt THEN w ELSE Append(w, u)
  BY DEF RequestMessages
<1> HIDE DEF w, u
<1>6. UserMessages(chat_history) \in Nat
  BY <1>1, UsersFinite
<1>7. CASE user_prompt = NoPrompt
  BY <1>3, <1>5, <1>6, <1>7 DEF Added
<1>8. CASE user_prompt # NoPrompt
  BY <1>2, <1>3, <1>4, <1>5, <1>8, AppendCounts DEF Added
<1> QED
  BY <1>7, <1>8

LEMMA CountedStep ==
  ASSUME TypeOK, SystemFirst, PromptCounted, [Next]_vars
  PROVE  PromptCounted'
<1>0. chat_history \in Seq(Message) /\ UserMessages(chat_history) \in Nat
  BY UsersFinite DEF TypeOK
<1>1. CASE UNCHANGED vars
  <2>1. Loaded' = Loaded /\ UserMessages(chat_history)' = UserMessages(chat_history)
    BY <1>1 DEF vars, Loaded
  <2> QED
    BY <1>1, <2>1 DEF vars, PromptCounted
<1>2. CASE Begins
  <2>1. PICK prompt \in GivenPrompt, system \in GivenSystem,
             base \in 0..Len(sessions) : Begin(prompt, system, base)
    BY <1>2, BeginLoads
  <2>2. /\ phase' \in {"request", "exit"}
        /\ chat_history' = LoadedFrom(base) /\ parent' = base
        /\ user_prompt' = prompt /\ given' = prompt /\ sessions' = sessions
    BY <2>1 DEF Begin
  <2>3. UserMessages(chat_history') = Loaded'
    <3>1. UserMessages(<< >>) = 0
      <4>1. Users(<< >>) = {}
        BY DEF Users
      <4> QED
        BY <4>1, UsersFinite, EmptySeq, FS_EmptySet
    <3> QED
      BY <2>2, <3>1 DEF Loaded, LoadedFrom
  <2> QED
    BY <2>2, <2>3 DEF PromptCounted
<1>3. CASE Send
  <2>1. /\ phase = "request" /\ user_prompt # InvalidText
        /\ chat_history' = RequestMessages
        /\ phase' \in {"waiting", "exit"}
        /\ UNCHANGED <<given, parent, sessions>>
    BY <1>3 DEF Send, Return, input, TypeOK
  <2>2. UserMessages(chat_history') = UserMessages(chat_history) + Added(user_prompt)
    BY <2>1, RequestCounts DEF SystemFirst
  <2>3. Loaded' = Loaded
    BY <2>1 DEF Loaded
  <2> QED
    BY <2>1, <2>2, <2>3 DEF PromptCounted
<1>4. ASSUME phase \in {"waiting", "tools"}, phase' = "tools",
             UNCHANGED <<given, parent, sessions>>,
             NEW m \in Message, m.role # "user", chat_history' = Append(chat_history, m)
      PROVE  PromptCounted'
  <2>1. UserMessages(chat_history') = UserMessages(chat_history)
    BY <1>0, <1>4, AppendCounts
  <2>2. Loaded' = Loaded
    BY <1>4 DEF Loaded
  <2> QED
    BY <1>4, <2>1, <2>2 DEF PromptCounted
<1>5. ASSUME NEW cs \in Responses, Receive(cs) PROVE PromptCounted'
  <2> DEFINE calls == RecordedCalls(cs[1], CallIds(cs, 1))
  <2>1. calls \in Seq(CallId)
    BY <1>5, ReceivedCalls, EmptySeq DEF Receive, RecordedCalls
  <2>2. /\ AssistantMessage(calls) \in Message
        /\ AssistantMessage(calls).role # "user"
    BY <2>1, MessageTypes DEF AssistantMessage
  <2>3. /\ phase = "waiting" /\ phase' = "tools"
        /\ chat_history' = Append(chat_history, AssistantMessage(calls))
        /\ UNCHANGED <<given, parent, sessions>>
    BY <1>5 DEF Receive, input
  <2> QED
    BY <1>4, <2>2, <2>3
<1>6. CASE RunTool
  <2>1. PICK text \in ToolResults :
          chat_history' = Append(chat_history, ToolMessage(Head(response.calls), text))
    BY <1>6 DEF RunTool
  <2>2. /\ phase = "tools" /\ phase' = "tools" /\ response.calls # << >>
        /\ UNCHANGED <<given, parent, sessions>>
    BY <1>6 DEF RunTool, input
  <2>3. Head(response.calls) \in CallId
    BY <2>2, HeadTailProperties DEF TypeOK
  <2>4. /\ ToolMessage(Head(response.calls), text) \in Message
        /\ ToolMessage(Head(response.calls), text).role # "user"
    BY <2>3, MessageTypes DEF ToolMessage, ToolResults
  <2> QED
    BY <1>4, <2>1, <2>2, <2>4
<1>7. CASE EndRound
  <2>1. CASE phase' = "request"
    <3>1. /\ phase = "tools" /\ user_prompt' = NoPrompt
          /\ UNCHANGED <<given, parent, sessions, chat_history>>
      BY <1>7, <2>1 DEF EndRound, Return, ClearedPrompt, input
    <3>2. Loaded' = Loaded
      BY <3>1 DEF Loaded
    <3> QED
      BY <1>0, <2>1, <3>1, <3>2 DEF PromptCounted, Added
  <2>2. CASE phase' = "exit"
    BY <2>2 DEF PromptCounted
  <2> QED
    BY <1>7, <2>1, <2>2 DEF EndRound, Return
<1>8. CASE \/ GiveUp \/ ShowThrows \/ RequestFails \/ BadChunk \/ HttpError \/ ExitStep
           \/ TopicStep \/ Kill
           \/ \E cs \in Responses : ReceiveNoChoice(cs) \/ ReceiveNoCalls(cs)
  <2>1. phase' \in {"exit", "topic", "idle"}
    BY <1>8
    DEF GiveUp, ShowThrows, RequestFails, BadChunk, HttpError, ExitStep, Save, SaveFails,
        SaveThrows, TopicStep, SetTopic, NoTopicFound, TopicHttpError, Kill,
        ReceiveNoChoice, ReceiveNoCalls, Return, Die
  <2> QED
    BY <2>1 DEF PromptCounted
<1> QED
  BY <1>1, <1>2, <1>3, <1>5, <1>6, <1>7, <1>8 DEF Next, ClientStep, Answer

(***************************************************************************)
(* In every request, and while its tools run, the conversation holds the   *)
(* prompt of this invocation once, beside what was loaded, for any number  *)
(* of tool rounds and whatever system messages are replaced (chat.cc 276,  *)
(* openai.cc 179-208).                                                     *)
(***************************************************************************)
THEOREM PromptCountedOnce == Spec => []PromptSentOnce
<1>1. Init => PromptCounted
  BY DEF Init, PromptCounted
<1>2. ChatInv => TypeOK /\ SystemFirst
  BY DEF ChatInv, IInv
<1>3. TypeOK /\ SystemFirst /\ PromptCounted /\ [Next]_vars => PromptCounted'
  BY CountedStep
<1>4. PromptCounted => PromptSentOnce
  BY DEF PromptCounted, PromptSentOnce, Loaded, Added
<1> QED
  BY <1>1, <1>2, <1>3, <1>4, Invariance, PTL DEF Spec

-----------------------------------------------------------------------------
(***************************************************************************)
(* The history is a SessionLog.                                            *)
(***************************************************************************)
LEMMA SaveSaves ==
  ASSUME ChatInv, Save
  PROVE  Log!Save
<1> USE DEF ChatInv, IInv
<1>1. /\ NewSession.id = Len(sessions) + 1
      /\ NewSession.parent = parent
      /\ NewSession.topic = NoTopic
  BY DEF NewSession
<1>2. Len(sessions) \in Nat /\ DOMAIN sessions = 1..Len(sessions)
  BY DEF TypeOK
<1>3. Len(sessions) + 1 \notin Log!Known
  BY <1>2 DEF Log!Known, Ordered
<1>4. parent \in Log!Known \cup {NoSession}
  BY <1>2 DEF Log!Known, Ordered, NoSession
<1> QED
  BY <1>1, <1>2, <1>3, <1>4, SaveAppends DEF Log!Save, NoSession

LEMMA TopicLabels ==
  ASSUME ChatInv, SetTopic
  PROVE  Log!Label \/ sessions' = sessions
<1> USE DEF ChatInv, IInv
<1>1. DOMAIN sessions' = DOMAIN sessions /\ sessions \in Seq(Session)
      /\ sessions' \in Seq(Session) /\ Len(sessions') = Len(sessions)
  BY TopicKeepsSessions DEF TypeOK
<1>2. CASE session_id = NoSession
  <2>1. \A s \in DOMAIN sessions : sessions'[s] = sessions[s]
    BY <1>1, <1>2, TopicKeepsSessions DEF NoSession
  <2> QED
    BY <1>1, <2>1
<1>3. CASE session_id # NoSession
  <2>1. /\ session_id \in DOMAIN sessions
        /\ sessions[session_id].messages = chat_history
        /\ sessions[session_id].topic = NoTopic
    BY <1>3 DEF SavedIsMine, SetTopic
  <2>2. sessions' = [sessions EXCEPT ![session_id].topic =
                       sessions[session_id].messages]
    <3>1. sessions'[session_id] =
            [sessions[session_id] EXCEPT !.topic = sessions[session_id].messages]
      BY <2>1, TopicKeepsSessions
    <3>2. \A s \in DOMAIN sessions : s # session_id => sessions'[s] = sessions[s]
      BY TopicKeepsSessions
    <3> QED
      BY <1>1, <2>1, <3>1, <3>2
  <2> QED
    BY <2>1, <2>2 DEF Log!Label
<1> QED
  BY <1>2, <1>3

(***************************************************************************)
(* ChatSession implements SessionLog: whatever the server, the tools and   *)
(* the faults do, an invocation adds at most one whole session, changes no *)
(* other one, and gives it the topic of its own messages or none.          *)
(***************************************************************************)
THEOREM ImplementsLog == Spec => LogSpec
<1>1. Init => Log!Init
  BY DEF Init, Log!Init
<1>2. ChatInv /\ [Next]_vars => [Log!Next]_sessions
  <2> SUFFICES ASSUME ChatInv, [Next]_vars PROVE [Log!Next]_sessions
    OBVIOUS
  <2>1. CASE Save
    BY <2>1, SaveSaves DEF Log!Next
  <2>2. CASE SetTopic
    BY <2>2, TopicLabels DEF Log!Next
  <2>3. CASE sessions' = sessions
    BY <2>3
  <2> QED
    BY <2>1, <2>2, <2>3, SameSessions DEF vars
<1> QED
  BY <1>1, <1>2, Invariance, PTL DEF Spec, LogSpec, Log!Spec

-----------------------------------------------------------------------------
(***************************************************************************)
(* StreamResponse.                                                         *)
(***************************************************************************)
(* Messages, deltas and chunks.                                             *)

Pieces == Seq(Nat)
Maybe(S) == S \cup {Null}
Ends == Maybe(Finishes)

Calls == [id : Maybe(Nat), name : Pieces, arguments : Pieces]
ChoiceRecords == [role : Maybe({"assistant"}), content : Pieces, reasoning : Maybe(Pieces),
                  calls : Seq(Calls), finish : Ends]
Messages == [index : Nat, role : Maybe({"assistant"}), content : Maybe(Pieces),
             reasoning : Maybe(Pieces), calls : Seq(Calls), finish : Ends]

CallDeltas == [index : Maybe(Nat), id : Maybe(Nat), name : Maybe(Pieces),
               arguments : Maybe(Pieces)]
Deltas == [index : Nat, role : Maybe({"assistant"}), content : Maybe(Pieces),
           reasoning : Maybe(Pieces), calls : Seq(CallDeltas), finish : Ends]

Usages == Maybe({"usage"})
Chunks == [choices : {<<d>> : d \in Deltas}, usage : Usages]

\* g is s, with as many elements more as it takes to have n.
GrownBy(g, s, n, element) ==
  /\ n > Len(s) => Len(g) = n
  /\ ~(n > Len(s)) => g = s
  /\ \A i \in 1..Len(s) : g[i] = s[i]
  /\ \A i \in Len(s) + 1..n : g[i] = element

LEMMA GrownTo ==
  ASSUME NEW T, NEW s \in Seq(T), NEW n \in Nat, NEW element \in T
  PROVE  Grown(s, n, element) \in Seq(T) /\ GrownBy(Grown(s, n, element), s, n, element)
<1> DEFINE l == IF n > Len(s) THEN n ELSE Len(s)
           grown == [i \in 1..l |-> IF i <= Len(s) THEN s[i] ELSE element]
<1>1. l \in Nat /\ l >= Len(s) /\ Len(s) \in Nat
  OBVIOUS
<1>2. Grown(s, n, element) = grown
  BY DEF Grown
<1> HIDE DEF l
<1>3. \A i \in 1..l : (IF i <= Len(s) THEN s[i] ELSE element) \in T
  BY <1>1
<1>4. grown \in [1..l -> T]
  BY <1>3
<1>5. grown \in Seq(T) /\ Len(grown) = l
  BY <1>1, <1>4
<1>6. \A i \in 1..l : grown[i] = IF i <= Len(s) THEN s[i] ELSE element
  OBVIOUS
<1> HIDE DEF grown
<1>7. \A i \in 1..Len(s) : grown[i] = s[i]
  BY <1>1, <1>6
<1>8. \A i \in Len(s) + 1..n : grown[i] = element
  BY <1>1, <1>6 DEF l
<1>9. n > Len(s) => Len(grown) = n
  BY <1>5 DEF l
<1>10. ~(n > Len(s)) => grown = s
  <2>1. SUFFICES ASSUME ~(n > Len(s)) PROVE grown = s
    OBVIOUS
  <2>2. Len(grown) = Len(s)
    BY <1>5, <2>1 DEF l
  <2> QED BY <1>5, <1>7, <2>2, SeqEqual
<1> QED BY <1>2, <1>5, <1>7, <1>8, <1>9, <1>10, Zenon DEF GrownBy

LEMMA Replaced ==
  ASSUME NEW T, NEW s \in Seq(T), NEW k \in 1..Len(s), NEW element \in T
  PROVE  /\ [s EXCEPT ![k] = element] \in Seq(T)
         /\ Len([s EXCEPT ![k] = element]) = Len(s)
         /\ [s EXCEPT ![k] = element][k] = element
         /\ \A i \in 1..Len(s) : i # k => [s EXCEPT ![k] = element][i] = s[i]
OBVIOUS

LEMMA AppendedType ==
  ASSUME NEW text \in Pieces, NEW more \in Maybe(Pieces)
  PROVE  Appended(text, more) \in Pieces
BY DEF Appended, Given, Maybe, Pieces

LEMMA AppendedToType ==
  ASSUME NEW text \in Maybe(Pieces), NEW more \in Maybe(Pieces)
  PROVE  AppendedTo(text, more) \in Maybe(Pieces)
BY DEF AppendedTo, Given, Maybe, Pieces

-----------------------------------------------------------------------------
(* The calls of a delta.                                                    *)

\* What is known after each call of a delta, and the index the last one had.
Known == [calls : Seq(Calls), index : Nat]

LEMMA AddCallType ==
  ASSUME NEW state \in Known, NEW delta \in CallDeltas
  PROVE  AddCall(state, delta) \in Known
<1> DEFINE k == PlaceOf(delta, state.index) + 1
           calls == Grown(state.calls, k, NewCall)
           call == [id |-> Given(delta.id, calls[k].id),
                    name |-> Appended(calls[k].name, delta.name),
                    arguments |-> Appended(calls[k].arguments, delta.arguments)]
<1>1. AddCall(state, delta) = [calls |-> [calls EXCEPT ![k] = call], index |-> k]
  BY Zenon DEF AddCall
<1>2. k \in Nat \ {0}
  BY DEF PlaceOf, Given, CallDeltas, Known, Maybe
<1>3. state.calls \in Seq(Calls)
  BY DEF Known
<1>4. NewCall \in Calls
  BY DEF NewCall, Calls, Maybe, Pieces
<1> HIDE DEF k
<1>5. calls \in Seq(Calls) /\ k \in 1..Len(calls)
  <2>1. /\ calls \in Seq(Calls)
        /\ k > Len(state.calls) => Len(calls) = k
        /\ ~(k > Len(state.calls)) => calls = state.calls
    <3>1. k \in Nat
      BY <1>2
    <3>2. calls \in Seq(Calls) /\ GrownBy(calls, state.calls, k, NewCall)
      BY <1>3, <1>4, <3>1, GrownTo, Zenon
    <3> HIDE DEF calls
    <3> QED BY <3>2, Zenon DEF GrownBy
  <2>2. Len(state.calls) \in Nat
    BY <1>3
  <2> HIDE DEF calls
  <2> QED BY <1>2, <2>1, <2>2
<1> HIDE DEF calls
<1>6. calls[k] \in Calls
  BY <1>5
<1>7. call \in Calls
  <2>1. delta.name \in Maybe(Pieces) /\ delta.arguments \in Maybe(Pieces) /\ delta.id \in Maybe(Nat)
    BY DEF CallDeltas
  <2>2. calls[k].name \in Pieces /\ calls[k].arguments \in Pieces /\ calls[k].id \in Maybe(Nat)
    BY <1>6 DEF Calls
  <2>3. Given(delta.id, calls[k].id) \in Maybe(Nat)
    BY <2>1, <2>2 DEF Given
  <2>4. /\ Appended(calls[k].name, delta.name) \in Pieces
        /\ Appended(calls[k].arguments, delta.arguments) \in Pieces
    BY <2>1, <2>2, AppendedType
  <2> QED BY <2>3, <2>4 DEF Calls
<1> HIDE DEF call
<1>8. [calls EXCEPT ![k] = call] \in Seq(Calls)
  BY <1>5, <1>7, Replaced
<1> QED BY <1>1, <1>2, <1>8 DEF Known

\* What is known after each of the deltas.
Adding(g, calls, deltas) ==
  /\ g[0] = [calls |-> calls, index |-> 0]
  /\ \A k \in 1..Len(deltas) : g[k] = AddCall(g[k - 1], deltas[k])

LEMMA AddCallsFolds ==
  ASSUME NEW calls \in Seq(Calls), NEW deltas \in Seq(CallDeltas)
  PROVE  \E g \in [0..Len(deltas) -> Known] :
            Adding(g, calls, deltas) /\ AddCalls(calls, deltas) = g[Len(deltas)].calls
<1> DEFINE n == Len(deltas)
           V == Known
           b == [calls |-> calls, index |-> 0]
           F == [at \in V \X (1..n) |-> AddCall(at[1], deltas[at[2]])]
           Iter(it) == it = [s \in SUBSET (DOMAIN deltas) |->
                               IF s = {} THEN b
                               ELSE AddCall(it[s \ {Max(s)}], deltas[Max(s)])]
           iter == CHOOSE it : Iter(it)
<1>1. AddCalls(calls, deltas) = iter[DOMAIN deltas].calls
  BY Zenon DEF AddCalls, FoldLeft, MapThenFoldSet
<1>2. n \in Nat /\ DOMAIN deltas = 1..n /\ b \in V /\ \A k \in 1..n : deltas[k] \in CallDeltas
  BY DEF Known
<1>3. \A v \in V, k \in 1..n : AddCall(v, deltas[k]) \in V
  BY <1>2, AddCallType, Zenon
<1>4. F \in [V \X (1..n) -> V] /\ \A v \in V, k \in 1..n : F[<<v, k>>] = AddCall(v, deltas[k])
  <2> HIDE DEF n, V
  <2> QED BY <1>3
<1>5. PICK it \in [SUBSET (1..n) -> V] : Folding(F, b, n, it)
  <2> HIDE DEF n, V, F, b
  <2> QED BY <1>2, <1>4, FoldExists, Zenon
<1> HIDE DEF n, V, F, b
<1>6. \A s \in SUBSET (1..n) : s # {} => Max(s) \in s
  BY <1>2, GreatestIn, Zenon
<1>7. Iter(it)
  <2>1. ASSUME NEW s \in SUBSET (1..n), s # {}
        PROVE  F[<<it[s \ {Max(s)}], Max(s)>>] = AddCall(it[s \ {Max(s)}], deltas[Max(s)])
    BY <1>4, <1>6, <2>1, s \ {Max(s)} \in SUBSET (1..n), Zenon
  <2>2. it = [s \in SUBSET (1..n) |-> it[s]]
    OBVIOUS
  <2>3. \A s \in SUBSET (1..n) :
          it[s] = IF s = {} THEN b ELSE AddCall(it[s \ {Max(s)}], deltas[Max(s)])
    BY <1>5, <2>1, Zenon DEF Folding
  <2> QED BY <1>2, <2>2, <2>3, Zenon
<1>8. Iter(iter)
  BY <1>7, Zenon
<1> HIDE DEF iter
<1> DEFINE next == [s \in SUBSET (1..n) |-> AddCall(iter[s \ {Max(s)}], deltas[Max(s)])]
<1>9. Folded(iter, next, b, n)
  BY <1>2, <1>8, Zenon DEF Folded
<1>10. AsGiven(iter, next, F, V, n)
  BY <1>4, <1>6, Zenon DEF AsGiven
<1> HIDE DEF next
<1>11. PICK g \in [0..n -> V] : Values(g, F, b, n, iter)
  BY <1>2, <1>4, <1>9, <1>10, FoldSteps, Zenon
<1>12. \A k \in 1..n : g[k] = AddCall(g[k - 1], deltas[k])
  <2>1. \A k \in 1..n : k - 1 \in 0..n
    BY <1>2
  <2> QED BY <1>4, <1>11, <2>1 DEF Values
<1> QED BY <1>1, <1>2, <1>11, <1>12, Zenon DEF n, V, b, Values, Adding

LEMMA NoCalls == ASSUME NEW calls \in Seq(Calls) PROVE AddCalls(calls, << >>) = calls
<1>1. << >> \in Seq(CallDeltas) /\ Len(<< >>) = 0
  OBVIOUS
<1>2. PICK g : Adding(g, calls, << >>) /\ AddCalls(calls, << >>) = g[0].calls
  BY <1>1, AddCallsFolds
<1> QED BY <1>2 DEF Adding

LEMMA OneCall ==
  ASSUME NEW calls \in Seq(Calls), NEW delta \in CallDeltas
  PROVE  AddCalls(calls, <<delta>>) = AddCall([calls |-> calls, index |-> 0], delta).calls
<1>1. <<delta>> \in Seq(CallDeltas) /\ Len(<<delta>>) = 1 /\ <<delta>>[1] = delta
  OBVIOUS
<1>2. PICK g : Adding(g, calls, <<delta>>) /\ AddCalls(calls, <<delta>>) = g[1].calls
  BY <1>1, AddCallsFolds
<1>3. g[0] = [calls |-> calls, index |-> 0] /\ g[1] = AddCall(g[0], delta)
  BY <1>1, <1>2, 1 \in 1..1, 1 - 1 = 0 DEF Adding
<1> QED BY <1>2, <1>3, Zenon

\* The call that stands at place k of some calls, or is to stand there.
CallAt(calls, k) == IF k <= Len(calls) THEN calls[k] ELSE NewCall

\* What a delta makes of a call.
Continued(call, delta) ==
  [id |-> Given(delta.id, call.id),
   name |-> Appended(call.name, delta.name),
   arguments |-> Appended(call.arguments, delta.arguments)]

\* w is calls with delta added at place p.
CallAdded(w, calls, index, delta, p) ==
  /\ AddCall([calls |-> calls, index |-> index], delta) = [calls |-> w, index |-> p]
  /\ AddCall([calls |-> calls, index |-> index], delta).calls = w
  /\ Len(w) = IF p > Len(calls) THEN p ELSE Len(calls)
  /\ \A i \in 1..Len(calls) : i # p => w[i] = calls[i]
  /\ w[p] = Continued(CallAt(calls, p), delta)

LEMMA AddCallAt ==
  ASSUME NEW calls \in Seq(Calls), NEW index \in Nat, NEW delta \in CallDeltas,
         NEW p \in 1..Len(calls) + 1, PlaceOf(delta, index) + 1 = p
  PROVE  \E w \in Seq(Calls) : CallAdded(w, calls, index, delta, p)
<1> DEFINE state == [calls |-> calls, index |-> index]
           grown == Grown(calls, p, NewCall)
           w == [grown EXCEPT ![p] = Continued(grown[p], delta)]
<1>1. state \in Known /\ state.calls = calls /\ state.index = index
  BY DEF Known
<1>2. AddCall(state, delta) = [calls |-> w, index |-> p]
  <2> HIDE DEF state
  <2> QED BY <1>1, Zenon DEF AddCall, Continued
<1>3. AddCall(state, delta) \in Known
  BY <1>1, AddCallType, Zenon
<1>4. w \in Seq(Calls)
  <2> HIDE DEF state, w
  <2> QED BY <1>2, <1>3 DEF Known
<1>5. NewCall \in Calls
  BY DEF NewCall, Calls, Maybe, Pieces
<1>6. /\ grown \in Seq(Calls)
      /\ p > Len(calls) => Len(grown) = p
      /\ ~(p > Len(calls)) => grown = calls
      /\ \A i \in 1..Len(calls) : grown[i] = calls[i]
      /\ \A i \in Len(calls) + 1..p : grown[i] = NewCall
  <2>1. p \in Nat
    OBVIOUS
  <2>2. grown \in Seq(Calls) /\ GrownBy(grown, calls, p, NewCall)
    BY <1>5, <2>1, GrownTo, Zenon
  <2> HIDE DEF grown
  <2> QED BY <2>2, Zenon DEF GrownBy
<1>7. Len(calls) \in Nat
  OBVIOUS
<1> HIDE DEF grown
<1>8. p \in 1..Len(grown) /\ \A i \in 1..Len(calls) : i \in 1..Len(grown)
  BY <1>6, <1>7
<1>9. DOMAIN grown = 1..Len(grown)
  BY <1>6
<1>10. w[p] = Continued(grown[p], delta) /\ \A i \in 1..Len(calls) : i # p => w[i] = grown[i]
  BY <1>8, <1>9, Zenon
<1>11. Len(w) = Len(grown)
  <2>1. DOMAIN w = DOMAIN grown
    OBVIOUS
  <2> HIDE DEF w
  <2>2. \A u, v \in Seq(Calls) : DOMAIN u = DOMAIN v => Len(u) = Len(v)
    OBVIOUS
  <2> QED BY <1>4, <1>6, <2>1, <2>2, Zenon
<1> HIDE DEF w, state
<1>12. grown[p] = CallAt(calls, p)
  <2>1. p <= Len(calls) => p \in 1..Len(calls)
    OBVIOUS
  <2>2. ~(p <= Len(calls)) => p \in Len(calls) + 1..p
    OBVIOUS
  <2> QED BY <1>6, <2>1, <2>2, Zenon DEF CallAt
<1>13. Len(w) = IF p > Len(calls) THEN p ELSE Len(calls)
  BY <1>6, <1>11
<1>14. AddCall(state, delta).calls = w
  BY <1>2
<1> QED BY <1>2, <1>4, <1>6, <1>10, <1>12, <1>13, <1>14, Zenon DEF state, CallAdded

LEMMA CallBegins ==
  ASSUME NEW calls \in Seq(Calls), NEW name \in Pieces
  PROVE  LET k == Len(calls)
         IN  AddCalls(calls, <<[index |-> k, id |-> k, name |-> name, arguments |-> << >>]>>)
               = Append(calls, [id |-> k, name |-> name, arguments |-> << >>])
<1> DEFINE k == Len(calls)
           delta == [index |-> k, id |-> k, name |-> name, arguments |-> << >>]
           call == [id |-> k, name |-> name, arguments |-> << >>]
<1>1. k \in Nat /\ << >> \in Pieces
  BY DEF Pieces
<1>2. delta \in CallDeltas /\ call \in Calls
  BY <1>1 DEF CallDeltas, Calls, Maybe
<1>3. PlaceOf(delta, 0) + 1 = k + 1
  BY <1>1, StreamNullAssumption DEF PlaceOf, Given
<1>4. Continued(NewCall, delta) = call
  <2>1. name # Null /\ << >> # Null /\ k # Null
    BY <1>1, StreamNullAssumption DEF Pieces
  <2>2. << >> \o name = name /\ << >> \o << >> = << >>
    BY DEF Pieces
  <2> HIDE DEF k
  <2> QED BY <2>1, <2>2 DEF Continued, NewCall, Given, Appended
<1> HIDE DEF delta, call
<1>5. k + 1 \in 1..Len(calls) + 1 /\ ~(k + 1 <= Len(calls)) /\ k + 1 > Len(calls)
  OBVIOUS
<1>6. PICK w \in Seq(Calls) : CallAdded(w, calls, 0, delta, k + 1)
  <2>1. 0 \in Nat
    OBVIOUS
  <2> HIDE DEF k
  <2> QED BY <1>2, <1>3, <1>5, <2>1, AddCallAt, Zenon
<1> DEFINE more == Append(calls, call)
<1>7. more \in Seq(Calls) /\ Len(more) = k + 1 /\ more[k + 1] = call
      /\ \A i \in 1..k : more[i] = calls[i]
  BY <1>2
<1> HIDE DEF more
<1>8. Len(w) = k + 1 /\ w[k + 1] = call /\ \A i \in 1..k : w[i] = calls[i]
  <2>1. CallAt(calls, k + 1) = NewCall
    BY <1>5, Zenon DEF CallAt
  <2>2. \A i \in 1..k : i # k + 1
    BY <1>1
  <2> QED BY <1>4, <1>5, <1>6, <2>1, <2>2, Zenon DEF CallAdded
<1>9. w = more
  <2> HIDE DEF k
  <2>1. \A i \in 1..k + 1 : i \in 1..k \/ i = k + 1
    BY <1>1
  <2>2. \A i \in 1..Len(w) : w[i] = more[i]
    BY <1>7, <1>8, <2>1, Zenon
  <2> QED BY <1>7, <1>8, <2>2, SeqEqual
<1>10. AddCalls(calls, <<delta>>) = AddCall([calls |-> calls, index |-> 0], delta).calls
  BY <1>2, OneCall
<1> QED BY <1>6, <1>9, <1>10, Zenon DEF CallAdded, more, delta, call

MoreArguments(k, text) == [index |-> k - 1, id |-> Null, name |-> Null, arguments |-> text]

ArguedOn(calls, k, text) == [calls EXCEPT ![k].arguments = @ \o text]

LEMMA CallGoesOn ==
  ASSUME NEW calls \in Seq(Calls), NEW k \in DOMAIN calls, NEW text \in Pieces
  PROVE  AddCalls(calls, <<MoreArguments(k, text)>>) = ArguedOn(calls, k, text)
<1> DEFINE delta == [index |-> k - 1, id |-> Null, name |-> Null, arguments |-> text]
           call == [calls[k] EXCEPT !.arguments = @ \o text]
           more == [calls EXCEPT ![k] = call]
<1>1. k \in 1..Len(calls) /\ k - 1 \in Nat /\ calls[k] \in Calls
  OBVIOUS
<1>2. delta \in CallDeltas /\ call \in Calls
  <2>1. delta \in CallDeltas
    BY <1>1 DEF CallDeltas, Maybe
  <2> DEFINE old == calls[k]
  <2>2. old \in Calls
    BY <1>1
  <2> HIDE DEF old
  <2>3. old.arguments \o text \in Pieces
    BY <2>2 DEF Calls, Pieces
  <2>4. [old EXCEPT !.arguments = old.arguments \o text] \in Calls
    BY <2>2, <2>3 DEF Calls
  <2> QED BY <2>1, <2>4 DEF old
<1>3. PlaceOf(delta, 0) + 1 = k
  BY <1>1, StreamNullAssumption DEF PlaceOf, Given
<1>4. Continued(calls[k], delta) = call
  <2>1. text # Null
    BY <1>1, StreamNullAssumption DEF Pieces
  <2> DEFINE old == calls[k]
  <2>2. old \in Calls
    BY <1>1
  <2> HIDE DEF old
  <2>3. old.name \o << >> = old.name
    BY <2>2 DEF Calls, Pieces
  <2>4. /\ Given(Null, old.id) = old.id /\ Appended(old.name, Null) = old.name
        /\ Appended(old.arguments, text) = old.arguments \o text
    BY <2>1, <2>3 DEF Given, Appended
  <2>5. Continued(old, delta) = [id |-> old.id, name |-> old.name,
                                 arguments |-> old.arguments \o text]
    BY <2>4 DEF Continued
  <2>6. [old EXCEPT !.arguments = @ \o text]
          = [id |-> old.id, name |-> old.name, arguments |-> old.arguments \o text]
    <3> DEFINE new == old.arguments \o text
    <3> HIDE DEF new
    <3>1. [old EXCEPT !.arguments = new] = [id |-> old.id, name |-> old.name, arguments |-> new]
      BY <2>2 DEF Calls
    <3> QED BY <3>1 DEF new
  <2> QED BY <2>5, <2>6 DEF old
<1> HIDE DEF delta, call
<1>5. k \in 1..Len(calls) + 1 /\ k <= Len(calls) /\ ~(k > Len(calls))
  BY <1>1
<1>6. PICK w \in Seq(Calls) : CallAdded(w, calls, 0, delta, k)
  <2>1. 0 \in Nat
    OBVIOUS
  <2> QED BY <1>2, <1>3, <1>5, <2>1, AddCallAt, Zenon
<1>7. /\ more \in Seq(Calls) /\ Len(more) = Len(calls) /\ more[k] = call
      /\ \A i \in 1..Len(calls) : i # k => more[i] = calls[i]
  BY <1>1, <1>2, Replaced
<1> HIDE DEF more
<1>8. CallAt(calls, k) = calls[k]
  BY <1>5, Zenon DEF CallAt
<1>9. w = more
  <2>1. Len(w) = Len(calls)
    BY <1>5, <1>6, Zenon DEF CallAdded
  <2>2. \A i \in 1..Len(w) : w[i] = more[i]
    BY <1>4, <1>6, <1>7, <1>8, <2>1, Zenon DEF CallAdded
  <2> QED BY <1>7, <2>1, <2>2, SeqEqual
<1>10. AddCalls(calls, <<delta>>) = AddCall([calls |-> calls, index |-> 0], delta).calls
  BY <1>2, OneCall
<1>11. AddCalls(calls, <<delta>>) = more
  BY <1>6, <1>9, <1>10, Zenon DEF CallAdded
<1> QED BY <1>11, Zenon DEF more, delta, call, MoreArguments, ArguedOn

\* The calls of one delta, each without an index, follow each other.
LEMMA CallsAtOnce ==
  ASSUME NEW n \in Nat, NEW name \in Pieces, NEW arguments \in Pieces
  PROVE  AddCalls(<< >>, [k \in 1..n |-> [index |-> Null, id |-> k, name |-> name,
                                          arguments |-> arguments]])
           = [k \in 1..n |-> [id |-> k, name |-> name, arguments |-> arguments]]
<1> DEFINE delta(k) == [index |-> Null, id |-> k, name |-> name, arguments |-> arguments]
           call(k) == [id |-> k, name |-> name, arguments |-> arguments]
           deltas == [k \in 1..n |-> delta(k)]
           first(k) == [j \in 1..k |-> call(j)]
<1>1. \A k \in Nat : delta(k) \in CallDeltas /\ call(k) \in Calls
  BY DEF CallDeltas, Calls, Maybe
<1>2. \A k \in Nat : delta(k).index = Null
  OBVIOUS
<1>3. \A k \in Nat : Continued(NewCall, delta(k)) = call(k)
  <2>1. SUFFICES ASSUME NEW k \in Nat PROVE Continued(NewCall, delta(k)) = call(k)
    OBVIOUS
  <2>2. name # Null /\ arguments # Null /\ k # Null
    BY StreamNullAssumption DEF Pieces
  <2>3. << >> \o name = name /\ << >> \o arguments = arguments
    BY DEF Pieces
  <2> QED BY <2>2, <2>3 DEF Continued, NewCall, Given, Appended
<1> HIDE DEF delta, call
<1>4. /\ deltas \in Seq(CallDeltas) /\ Len(deltas) = n
      /\ \A k \in 1..n : deltas[k] = delta(k)
  BY <1>1
<1>5. \A k \in Nat : /\ first(k) \in Seq(Calls) /\ Len(first(k)) = k
                     /\ \A j \in 1..k : first(k)[j] = call(j)
  BY <1>1
<1>6. << >> \in Seq(Calls) /\ first(0) = << >>
  OBVIOUS
<1> HIDE DEF deltas
<1>7. PICK g \in [0..n -> Known] :
        Adding(g, << >>, deltas) /\ AddCalls(<< >>, deltas) = g[n].calls
  BY <1>4, <1>6, AddCallsFolds
<1> HIDE DEF first
<1> DEFINE A == {k \in 0..n : g[k] = [calls |-> first(k), index |-> k]}
<1>8. 0 \in A
  BY <1>6, <1>7 DEF Adding
<1>9. ASSUME NEW k \in 0..n - 1, k \in A PROVE k + 1 \in A
  <2>1. k \in Nat /\ k + 1 \in 1..n /\ k + 1 \in 0..n /\ (k + 1) - 1 = k /\ k + 1 \in Nat
    BY <1>9
  <2>2. g[k + 1] = AddCall(g[k], delta(k + 1)) /\ g[k] = [calls |-> first(k), index |-> k]
    <3>1. g[k + 1] = AddCall(g[(k + 1) - 1], deltas[k + 1])
      BY <1>4, <1>7, <2>1, Zenon DEF Adding
    <3> QED BY <1>4, <1>9, <2>1, <3>1, Zenon
  <2>3. PlaceOf(delta(k + 1), k) + 1 = k + 1
    BY <1>2, <2>1 DEF PlaceOf, Given
  <2>4. k + 1 \in 1..Len(first(k)) + 1 /\ ~(k + 1 <= Len(first(k))) /\ k + 1 > Len(first(k))
        /\ first(k) \in Seq(Calls) /\ Len(first(k)) = k
    BY <1>5, <2>1
  <2>5. PICK w \in Seq(Calls) : CallAdded(w, first(k), k, delta(k + 1), k + 1)
    <3>1. delta(k + 1) \in CallDeltas
      BY <1>1, <2>1, Zenon
    <3> HIDE DEF A
    <3> QED BY <2>1, <2>3, <2>4, <3>1, AddCallAt, Zenon
  <2>6. CallAt(first(k), k + 1) = NewCall
    BY <2>4, Zenon DEF CallAt
  <2>7. \A i \in 1..k : i # k + 1
    BY <2>1
  <2>8. Len(w) = k + 1 /\ w[k + 1] = call(k + 1) /\ \A i \in 1..k : w[i] = call(i)
    BY <1>3, <1>5, <2>1, <2>4, <2>5, <2>6, <2>7, Zenon DEF CallAdded
  <2>9. \A i \in 1..k + 1 : i \in 1..k \/ i = k + 1
    BY <2>1
  <2>10. \A i \in 1..Len(w) : w[i] = first(k + 1)[i]
    BY <1>5, <2>1, <2>8, <2>9, Zenon
  <2>11. w = first(k + 1)
    BY <1>5, <2>1, <2>8, <2>10, SeqEqual
  <2> QED BY <2>1, <2>2, <2>5, <2>11, Zenon DEF CallAdded
<1>10. n \in A
  <2> HIDE DEF A
  <2>1. n \in 0..n
    OBVIOUS
  <2> QED BY <1>8, <1>9, <2>1, UpTo, Zenon
<1>11. g[n].calls = first(n)
  BY <1>10
<1> QED BY <1>7, <1>11, Zenon DEF deltas, delta, first, call

-----------------------------------------------------------------------------
(* A message, and one delta more.                                           *)

LEMMA ParsedMessage ==
  ASSUME NEW m \in Messages
  PROVE  /\ Parsed(m) = [role |-> m.role, content |-> Given(m.content, << >>),
                         reasoning |-> m.reasoning, calls |-> m.calls, finish |-> m.finish]
         /\ Parsed(m) \in ChoiceRecords
<1> DEFINE calls == m.calls
           whole == [k \in 1..Len(calls) |-> WholeCall(calls[k])]
           content == Given(m.content, << >>)
<1>1. /\ m.role \in Maybe({"assistant"}) /\ m.content \in Maybe(Pieces)
      /\ m.reasoning \in Maybe(Pieces) /\ calls \in Seq(Calls) /\ m.finish \in Ends
  BY DEF Messages
<1> HIDE DEF calls
<1>2. ASSUME NEW k \in 1..Len(calls) PROVE WholeCall(calls[k]) = calls[k]
  <2> DEFINE call == calls[k]
  <2>1. call \in Calls
    BY <1>1
  <2> HIDE DEF call
  <2>2. call.name # Null /\ call.arguments # Null
    BY <2>1, StreamNullAssumption DEF Calls, Pieces
  <2>3. WholeCall(call) = call
    BY <2>1, <2>2 DEF WholeCall, Given, Calls
  <2> QED BY <2>3 DEF call
<1>3. whole = calls
  <2>1. whole = [k \in 1..Len(calls) |-> calls[k]]
    BY <1>2
  <2>2. calls = [k \in 1..Len(calls) |-> calls[k]]
    BY <1>1
  <2> QED BY <2>1, <2>2, Zenon
<1>4. Parsed(m) = [role |-> m.role, content |-> content, reasoning |-> m.reasoning,
                   calls |-> whole, finish |-> m.finish]
  BY Zenon DEF Parsed, calls
<1>5. content \in Pieces
  BY <1>1 DEF Given, Maybe, Pieces
<1> HIDE DEF content, whole
<1>6. Parsed(m) \in ChoiceRecords
  BY <1>1, <1>3, <1>4, <1>5 DEF ChoiceRecords
<1> QED BY <1>3, <1>4, <1>6 DEF content, calls

\* The delta d says what message m2 has more than m.
Says(d, m, m2) ==
  /\ d \in Deltas /\ m2 \in Messages
  /\ d.index = m.index /\ m2.index = m.index
  /\ d.role = IF m.role = Null THEN "assistant" ELSE Null
  /\ m2.role = "assistant"
  /\ Given(m2.content, << >>) = Appended(Given(m.content, << >>), d.content)
  /\ m2.reasoning = AppendedTo(m.reasoning, d.reasoning)
  /\ m2.calls = AddCalls(m.calls, d.calls)
  /\ m2.finish = Given(d.finish, m.finish)

LEMMA MergedIsParsed ==
  ASSUME NEW m \in Messages, NEW d, NEW m2, Says(d, m, m2)
  PROVE  Merged(Parsed(m), d) = Parsed(m2)
<1>1. d \in Deltas /\ m2 \in Messages
  BY DEF Says
<1>2. Given(d.role, m.role) = m2.role
  <2>1. m.role \in Maybe({"assistant"})
    BY DEF Messages
  <2>2. "assistant" # Null
    BY StreamNullAssumption
  <2> QED BY <2>1, <2>2 DEF Given, Maybe, Says
<1>3. Parsed(m) = [role |-> m.role, content |-> Given(m.content, << >>),
                   reasoning |-> m.reasoning, calls |-> m.calls, finish |-> m.finish]
  BY ParsedMessage
<1>4. Parsed(m2) = [role |-> m2.role, content |-> Given(m2.content, << >>),
                    reasoning |-> m2.reasoning, calls |-> m2.calls, finish |-> m2.finish]
  BY <1>1, ParsedMessage
<1> DEFINE old == Parsed(m)
<1>5. /\ old.role = m.role /\ old.content = Given(m.content, << >>)
      /\ old.reasoning = m.reasoning /\ old.calls = m.calls /\ old.finish = m.finish
  BY <1>3
<1> HIDE DEF old
<1>6. Merged(old, d) = [role |-> m2.role, content |-> Given(m2.content, << >>),
                        reasoning |-> m2.reasoning, calls |-> m2.calls, finish |-> m2.finish]
  BY <1>2, <1>5, Zenon DEF Merged, Says
<1> QED BY <1>4, <1>6, Zenon DEF old

LEMMA MergedType ==
  ASSUME NEW old \in ChoiceRecords, NEW d \in Deltas
  PROVE  Merged(old, d) \in ChoiceRecords
<1>1. /\ old.role \in Maybe({"assistant"}) /\ old.content \in Pieces
      /\ old.reasoning \in Maybe(Pieces) /\ old.calls \in Seq(Calls) /\ old.finish \in Ends
  BY DEF ChoiceRecords
<1>2. /\ d.role \in Maybe({"assistant"}) /\ d.content \in Maybe(Pieces)
      /\ d.reasoning \in Maybe(Pieces) /\ d.calls \in Seq(CallDeltas) /\ d.finish \in Ends
  BY DEF Deltas
<1>3. Given(d.role, old.role) \in Maybe({"assistant"}) /\ Given(d.finish, old.finish) \in Ends
  BY <1>1, <1>2 DEF Given
<1>4. Appended(old.content, d.content) \in Pieces
  BY <1>1, <1>2, AppendedType
<1>5. AppendedTo(old.reasoning, d.reasoning) \in Maybe(Pieces)
  BY <1>1, <1>2, AppendedToType
<1>6. AddCalls(old.calls, d.calls) \in Seq(Calls)
  <2> DEFINE n == Len(d.calls)
  <2>1. n \in 0..n
    BY <1>2
  <2>2. PICK g \in [0..n -> Known] : AddCalls(old.calls, d.calls) = g[n].calls
    BY <1>1, <1>2, AddCallsFolds
  <2> HIDE DEF n
  <2> QED BY <2>1, <2>2 DEF Known
<1> QED BY <1>3, <1>4, <1>5, <1>6 DEF Merged, ChoiceRecords

LEMMA NewChoiceIsSilence ==
  /\ NewChoice \in ChoiceRecords
  /\ \A c \in Nat : Silence(c) \in Messages /\ Parsed(Silence(c)) = NewChoice
<1>1. NewChoice \in ChoiceRecords
  BY DEF NewChoice, ChoiceRecords, Maybe, Pieces, Ends
<1>2. ASSUME NEW c \in Nat PROVE Silence(c) \in Messages /\ Parsed(Silence(c)) = NewChoice
  <2>1. Silence(c) \in Messages
    BY DEF Silence, Messages, Maybe, Ends
  <2> QED BY <2>1, ParsedMessage DEF NewChoice, Silence, Given
<1> QED BY <1>1, <1>2

-----------------------------------------------------------------------------
(* The chunks of a stream.                                                  *)

Decoded == [choices : Seq(ChoiceRecords), usage : Usages]

\* The choice that stands at place i of some choices, or is to stand there.
ChoiceAt(choices, i) == IF i <= Len(choices) THEN choices[i] ELSE NewChoice

\* s with element at place i, behind as many new ones as it takes.
PutAt(s, i, element) == [Grown(s, i, NewChoice) EXCEPT ![i] = element]

Stands(put, s, i, element) ==
  /\ i > Len(s) => Len(put) = i
  /\ ~(i > Len(s)) => Len(put) = Len(s)
  /\ put[i] = element
  /\ \A j \in 1..Len(put) : j # i => put[j] = ChoiceAt(s, j)

LEMMA PutAtPlace ==
  ASSUME NEW s \in Seq(ChoiceRecords), NEW i \in Nat \ {0}, NEW element \in ChoiceRecords
  PROVE  /\ PutAt(s, i, element) \in Seq(ChoiceRecords)
         /\ Stands(PutAt(s, i, element), s, i, element)
         /\ Grown(s, i, NewChoice)[i] = ChoiceAt(s, i)
<1> DEFINE grown == Grown(s, i, NewChoice)
           put == [grown EXCEPT ![i] = element]
<1>1. i \in Nat /\ Len(s) \in Nat
  OBVIOUS
<1>2. grown \in Seq(ChoiceRecords) /\ GrownBy(grown, s, i, NewChoice)
  BY <1>1, NewChoiceIsSilence, GrownTo, Zenon
<1> HIDE DEF grown
<1>3. /\ i > Len(s) => Len(grown) = i
      /\ ~(i > Len(s)) => grown = s
      /\ \A j \in 1..Len(s) : grown[j] = s[j]
      /\ \A j \in Len(s) + 1..i : grown[j] = NewChoice
  BY <1>2, Zenon DEF GrownBy
<1>4. i \in 1..Len(grown)
  BY <1>1, <1>3
<1>5. /\ put \in Seq(ChoiceRecords) /\ Len(put) = Len(grown) /\ put[i] = element
      /\ \A j \in 1..Len(grown) : j # i => put[j] = grown[j]
  BY <1>2, <1>4, Replaced
<1>6. \A j \in 1..Len(grown) : grown[j] = ChoiceAt(s, j)
  <2>1. SUFFICES ASSUME NEW j \in 1..Len(grown) PROVE grown[j] = ChoiceAt(s, j)
    OBVIOUS
  <2>2. CASE j <= Len(s)
    <3>1. j \in 1..Len(s)
      BY <1>1, <2>2
    <3> QED BY <1>3, <2>2, <3>1, Zenon DEF ChoiceAt
  <2>3. CASE ~(j <= Len(s))
    <3>1. j \in Len(s) + 1..i
      BY <1>1, <1>3, <2>3
    <3> QED BY <1>3, <2>3, <3>1, Zenon DEF ChoiceAt
  <2> QED BY <2>2, <2>3
<1>7. PutAt(s, i, element) = put
  BY DEF PutAt, grown
<1> HIDE DEF put
<1> QED BY <1>3, <1>4, <1>5, <1>6, <1>7, Zenon DEF grown, Stands

LEMMA AddDeltaType ==
  ASSUME NEW choices \in Seq(ChoiceRecords), NEW d \in Deltas
  PROVE  /\ AddDelta(choices, d) \in Seq(ChoiceRecords)
         /\ AddDelta(choices, d) =
              PutAt(choices, d.index + 1, Merged(ChoiceAt(choices, d.index + 1), d))
<1> DEFINE i == d.index + 1
           grown == Grown(choices, i, NewChoice)
<1>1. i \in Nat \ {0} /\ i \in Nat
  BY DEF Deltas
<1>2. AddDelta(choices, d) = [grown EXCEPT ![i] = Merged(grown[i], d)]
  BY Zenon DEF AddDelta
<1> HIDE DEF i
<1>3. grown[i] = ChoiceAt(choices, i)
  <2>1. NewChoice \in ChoiceRecords
    BY NewChoiceIsSilence
  <2> QED BY <1>1, <2>1, PutAtPlace, Zenon
<1>4. ChoiceAt(choices, i) \in ChoiceRecords
  BY <1>1, NewChoiceIsSilence DEF ChoiceAt
<1>5. Merged(ChoiceAt(choices, i), d) \in ChoiceRecords
  BY <1>4, MergedType
<1>6. AddDelta(choices, d) = PutAt(choices, i, Merged(ChoiceAt(choices, i), d))
  BY <1>2, <1>3, Zenon DEF PutAt
<1>7. PutAt(choices, i, Merged(ChoiceAt(choices, i), d)) \in Seq(ChoiceRecords)
  BY <1>1, <1>5, PutAtPlace, Zenon
<1> QED BY <1>6, <1>7, Zenon DEF i

LEMMA DeltasFold ==
  ASSUME NEW choices \in Seq(ChoiceRecords), NEW deltas \in Seq(Deltas)
  PROVE  \E g \in [0..Len(deltas) -> Seq(ChoiceRecords)] :
           /\ g[0] = choices
           /\ \A k \in 1..Len(deltas) : g[k] = AddDelta(g[k - 1], deltas[k])
           /\ FoldLeft(AddDelta, choices, deltas) = g[Len(deltas)]
<1> DEFINE n == Len(deltas)
           V == Seq(ChoiceRecords)
           b == choices
           F == [at \in V \X (1..n) |-> AddDelta(at[1], deltas[at[2]])]
           Iter(it) == it = [s \in SUBSET (DOMAIN deltas) |->
                               IF s = {} THEN b
                               ELSE AddDelta(it[s \ {Max(s)}], deltas[Max(s)])]
           iter == CHOOSE it : Iter(it)
<1>1. FoldLeft(AddDelta, choices, deltas) = iter[DOMAIN deltas]
  BY Zenon DEF FoldLeft, MapThenFoldSet
<1>2. n \in Nat /\ DOMAIN deltas = 1..n /\ b \in V /\ \A k \in 1..n : deltas[k] \in Deltas
  OBVIOUS
<1>3. \A v \in V, k \in 1..n : AddDelta(v, deltas[k]) \in V
  BY <1>2, AddDeltaType, Zenon
<1>4. F \in [V \X (1..n) -> V] /\ \A v \in V, k \in 1..n : F[<<v, k>>] = AddDelta(v, deltas[k])
  <2> HIDE DEF n, V
  <2> QED BY <1>3
<1>5. PICK it \in [SUBSET (1..n) -> V] : Folding(F, b, n, it)
  <2> HIDE DEF n, V, F, b
  <2> QED BY <1>2, <1>4, FoldExists, Zenon
<1> HIDE DEF n, V, F, b
<1>6. \A s \in SUBSET (1..n) : s # {} => Max(s) \in s
  BY <1>2, GreatestIn, Zenon
<1>7. Iter(it)
  <2>1. ASSUME NEW s \in SUBSET (1..n), s # {}
        PROVE  F[<<it[s \ {Max(s)}], Max(s)>>] = AddDelta(it[s \ {Max(s)}], deltas[Max(s)])
    BY <1>4, <1>6, <2>1, s \ {Max(s)} \in SUBSET (1..n), Zenon
  <2>2. it = [s \in SUBSET (1..n) |-> it[s]]
    OBVIOUS
  <2>3. \A s \in SUBSET (1..n) :
          it[s] = IF s = {} THEN b ELSE AddDelta(it[s \ {Max(s)}], deltas[Max(s)])
    BY <1>5, <2>1, Zenon DEF Folding
  <2> QED BY <1>2, <2>2, <2>3, Zenon
<1>8. Iter(iter)
  BY <1>7, Zenon
<1> HIDE DEF iter
<1> DEFINE next == [s \in SUBSET (1..n) |-> AddDelta(iter[s \ {Max(s)}], deltas[Max(s)])]
<1>9. Folded(iter, next, b, n)
  BY <1>2, <1>8, Zenon DEF Folded
<1>10. AsGiven(iter, next, F, V, n)
  BY <1>4, <1>6, Zenon DEF AsGiven
<1> HIDE DEF next
<1>11. PICK g \in [0..n -> V] : Values(g, F, b, n, iter)
  BY <1>2, <1>4, <1>9, <1>10, FoldSteps, Zenon
<1>12. \A k \in 1..n : g[k] = AddDelta(g[k - 1], deltas[k])
  <2>1. \A k \in 1..n : k - 1 \in 0..n
    BY <1>2
  <2> QED BY <1>4, <1>11, <2>1 DEF Values
<1> QED BY <1>1, <1>2, <1>11, <1>12, Zenon DEF n, V, b, Values

LEMMA OneDelta ==
  ASSUME NEW choices \in Seq(ChoiceRecords), NEW d \in Deltas
  PROVE  FoldLeft(AddDelta, choices, <<d>>) = AddDelta(choices, d)
<1> DEFINE deltas == <<d>>
<1>1. deltas \in Seq(Deltas) /\ Len(deltas) = 1 /\ deltas[1] = d
  OBVIOUS
<1> HIDE DEF deltas
<1>2. PICK g \in [0..Len(deltas) -> Seq(ChoiceRecords)] :
        /\ g[0] = choices
        /\ \A k \in 1..Len(deltas) : g[k] = AddDelta(g[k - 1], deltas[k])
        /\ FoldLeft(AddDelta, choices, deltas) = g[Len(deltas)]
  BY <1>1, DeltasFold, Zenon
<1>3. g[1] = AddDelta(g[0], d)
  BY <1>1, <1>2, 1 \in 1..1, 1 - 1 = 0
<1> QED BY <1>1, <1>2, <1>3, Zenon DEF deltas

LEMMA AddChunkType ==
  ASSUME NEW v \in Decoded, NEW chunk \in Chunks
  PROVE  AddChunk(v, chunk) \in Decoded
<1>1. PICK d \in Deltas : chunk.choices = <<d>>
  BY DEF Chunks
<1>2. v.choices \in Seq(ChoiceRecords) /\ v.usage \in Usages /\ chunk.usage \in Usages
  BY DEF Decoded, Chunks
<1>3. FoldLeft(AddDelta, v.choices, chunk.choices) \in Seq(ChoiceRecords)
  BY <1>1, <1>2, OneDelta, AddDeltaType
<1>4. Given(chunk.usage, v.usage) \in Usages
  BY <1>2 DEF Given
<1> QED BY <1>3, <1>4 DEF AddChunk, Decoded

\* What is put together after each chunk.
PutTogether(g, chunks) ==
  /\ g[0] = NewResponse
  /\ \A k \in 1..Len(chunks) : g[k] = AddChunk(g[k - 1], chunks[k])

LEMMA ChunksFold ==
  ASSUME NEW chunks \in Seq(Chunks)
  PROVE  \E g \in [0..Len(chunks) -> Decoded] :
            PutTogether(g, chunks) /\ FromSse(chunks) = g[Len(chunks)]
<1> DEFINE n == Len(chunks)
           V == Decoded
           b == NewResponse
           F == [at \in V \X (1..n) |-> AddChunk(at[1], chunks[at[2]])]
           Iter(it) == it = [s \in SUBSET (DOMAIN chunks) |->
                               IF s = {} THEN b
                               ELSE AddChunk(it[s \ {Max(s)}], chunks[Max(s)])]
           iter == CHOOSE it : Iter(it)
<1>1. FromSse(chunks) = iter[DOMAIN chunks]
  BY Zenon DEF FromSse, FoldLeft, MapThenFoldSet
<1>2. n \in Nat /\ DOMAIN chunks = 1..n /\ b \in V /\ \A k \in 1..n : chunks[k] \in Chunks
  BY DEF NewResponse, Decoded, Usages, Maybe
<1>3. \A v \in V, k \in 1..n : AddChunk(v, chunks[k]) \in V
  BY <1>2, AddChunkType, Zenon
<1>4. F \in [V \X (1..n) -> V] /\ \A v \in V, k \in 1..n : F[<<v, k>>] = AddChunk(v, chunks[k])
  <2> HIDE DEF n, V
  <2> QED BY <1>3
<1>5. PICK it \in [SUBSET (1..n) -> V] : Folding(F, b, n, it)
  <2> HIDE DEF n, V, F, b
  <2> QED BY <1>2, <1>4, FoldExists, Zenon
<1> HIDE DEF n, V, F, b
<1>6. \A s \in SUBSET (1..n) : s # {} => Max(s) \in s
  BY <1>2, GreatestIn, Zenon
<1>7. Iter(it)
  <2>1. ASSUME NEW s \in SUBSET (1..n), s # {}
        PROVE  F[<<it[s \ {Max(s)}], Max(s)>>] = AddChunk(it[s \ {Max(s)}], chunks[Max(s)])
    BY <1>4, <1>6, <2>1, s \ {Max(s)} \in SUBSET (1..n), Zenon
  <2>2. it = [s \in SUBSET (1..n) |-> it[s]]
    OBVIOUS
  <2>3. \A s \in SUBSET (1..n) :
          it[s] = IF s = {} THEN b ELSE AddChunk(it[s \ {Max(s)}], chunks[Max(s)])
    BY <1>5, <2>1, Zenon DEF Folding
  <2> QED BY <1>2, <2>2, <2>3, Zenon
<1>8. Iter(iter)
  BY <1>7, Zenon
<1> HIDE DEF iter
<1> DEFINE next == [s \in SUBSET (1..n) |-> AddChunk(iter[s \ {Max(s)}], chunks[Max(s)])]
<1>9. Folded(iter, next, b, n)
  BY <1>2, <1>8, Zenon DEF Folded
<1>10. AsGiven(iter, next, F, V, n)
  BY <1>4, <1>6, Zenon DEF AsGiven
<1> HIDE DEF next
<1>11. PICK g \in [0..n -> V] : Values(g, F, b, n, iter)
  BY <1>2, <1>4, <1>9, <1>10, FoldSteps, Zenon
<1>12. \A k \in 1..n : g[k] = AddChunk(g[k - 1], chunks[k])
  <2>1. \A k \in 1..n : k - 1 \in 0..n
    BY <1>2
  <2> QED BY <1>4, <1>11, <2>1 DEF Values
<1> QED BY <1>1, <1>2, <1>11, <1>12, Zenon DEF n, V, b, Values, PutTogether

LEMMA SseOfMore ==
  ASSUME NEW t \in Seq(Chunks), NEW c \in Chunks
  PROVE  FromSse(t) \in Decoded /\ FromSse(Append(t, c)) = AddChunk(FromSse(t), c)
<1> DEFINE n == Len(t)
           u == Append(t, c)
<1>1. /\ n \in Nat /\ u \in Seq(Chunks) /\ Len(u) = n + 1 /\ u[n + 1] = c
      /\ \A k \in 1..n : u[k] = t[k]
  OBVIOUS
<1>2. PICK g \in [0..n -> Decoded] : PutTogether(g, t) /\ FromSse(t) = g[n]
  BY ChunksFold, Zenon
<1> HIDE DEF u
<1>3. PICK h \in [0..Len(u) -> Decoded] : PutTogether(h, u) /\ FromSse(u) = h[Len(u)]
  BY <1>1, ChunksFold, Zenon
<1> DEFINE A == {k \in 0..n : g[k] = h[k]}
<1>4. 0 \in A
  BY <1>1, <1>2, <1>3 DEF PutTogether
<1> HIDE DEF n
<1>5. ASSUME NEW k \in 0..n - 1, k \in A PROVE k + 1 \in A
  <2>1. k + 1 \in 1..n /\ k + 1 \in 1..n + 1 /\ (k + 1) - 1 = k /\ k + 1 \in 0..n
    BY <1>1
  <2>2. g[k + 1] = AddChunk(g[k], t[k + 1]) /\ h[k + 1] = AddChunk(h[k], u[k + 1])
    BY <1>1, <1>2, <1>3, <2>1 DEF PutTogether, n
  <2> QED BY <1>1, <1>5, <2>1, <2>2, Zenon
<1>6. n \in A
  <2> HIDE DEF A
  <2>1. n \in 0..n
    BY <1>1
  <2> QED BY <1>1, <1>4, <1>5, <2>1, UpTo, Zenon
<1>7. h[n + 1] = AddChunk(h[n], c) /\ g[n] \in Decoded
  <2>1. n + 1 \in 1..Len(u) /\ (n + 1) - 1 = n /\ n \in 0..n
    BY <1>1
  <2> QED BY <1>1, <1>2, <1>3, <2>1 DEF PutTogether
<1> QED BY <1>1, <1>2, <1>3, <1>6, <1>7, Zenon DEF u, n

-----------------------------------------------------------------------------
(* An answer that comes as a whole.                                         *)

LEMMA WholeChoiceType ==
  ASSUME NEW choices \in Seq(ChoiceRecords), NEW m \in Messages
  PROVE  /\ WholeChoice(choices, m) \in Seq(ChoiceRecords)
         /\ WholeChoice(choices, m) = PutAt(choices, m.index + 1, Parsed(m))
<1>1. m.index + 1 \in Nat \ {0}
  BY DEF Messages
<1>2. Parsed(m) \in ChoiceRecords
  BY ParsedMessage
<1>3. WholeChoice(choices, m) = PutAt(choices, m.index + 1, Parsed(m))
  BY Zenon DEF WholeChoice, PutAt
<1> QED BY <1>1, <1>2, <1>3, PutAtPlace, Zenon

LEMMA ChoicesFold ==
  ASSUME NEW json \in Seq(Messages)
  PROVE  \E g \in [0..Len(json) -> Seq(ChoiceRecords)] :
           /\ g[0] = << >>
           /\ \A k \in 1..Len(json) : g[k] = WholeChoice(g[k - 1], json[k])
           /\ FoldLeft(WholeChoice, << >>, json) = g[Len(json)]
<1> DEFINE n == Len(json)
           V == Seq(ChoiceRecords)
           b == << >>
           F == [at \in V \X (1..n) |-> WholeChoice(at[1], json[at[2]])]
           Iter(it) == it = [s \in SUBSET (DOMAIN json) |->
                               IF s = {} THEN b
                               ELSE WholeChoice(it[s \ {Max(s)}], json[Max(s)])]
           iter == CHOOSE it : Iter(it)
<1>1. FoldLeft(WholeChoice, << >>, json) = iter[DOMAIN json]
  BY Zenon DEF FoldLeft, MapThenFoldSet
<1>2. n \in Nat /\ DOMAIN json = 1..n /\ b \in V /\ \A k \in 1..n : json[k] \in Messages
  OBVIOUS
<1>3. \A v \in V, k \in 1..n : WholeChoice(v, json[k]) \in V
  BY <1>2, WholeChoiceType, Zenon
<1>4. F \in [V \X (1..n) -> V] /\ \A v \in V, k \in 1..n : F[<<v, k>>] = WholeChoice(v, json[k])
  <2> HIDE DEF n, V
  <2> QED BY <1>3
<1>5. PICK it \in [SUBSET (1..n) -> V] : Folding(F, b, n, it)
  <2> HIDE DEF n, V, F, b
  <2> QED BY <1>2, <1>4, FoldExists, Zenon
<1> HIDE DEF n, V, F, b
<1>6. \A s \in SUBSET (1..n) : s # {} => Max(s) \in s
  BY <1>2, GreatestIn, Zenon
<1>7. Iter(it)
  <2>1. ASSUME NEW s \in SUBSET (1..n), s # {}
        PROVE  F[<<it[s \ {Max(s)}], Max(s)>>] = WholeChoice(it[s \ {Max(s)}], json[Max(s)])
    BY <1>4, <1>6, <2>1, s \ {Max(s)} \in SUBSET (1..n), Zenon
  <2>2. it = [s \in SUBSET (1..n) |-> it[s]]
    OBVIOUS
  <2>3. \A s \in SUBSET (1..n) :
          it[s] = IF s = {} THEN b ELSE WholeChoice(it[s \ {Max(s)}], json[Max(s)])
    BY <1>5, <2>1, Zenon DEF Folding
  <2> QED BY <1>2, <2>2, <2>3, Zenon
<1>8. Iter(iter)
  BY <1>7, Zenon
<1> HIDE DEF iter
<1> DEFINE next == [s \in SUBSET (1..n) |-> WholeChoice(iter[s \ {Max(s)}], json[Max(s)])]
<1>9. Folded(iter, next, b, n)
  BY <1>2, <1>8, Zenon DEF Folded
<1>10. AsGiven(iter, next, F, V, n)
  BY <1>4, <1>6, Zenon DEF AsGiven
<1> HIDE DEF next
<1>11. PICK g \in [0..n -> V] : Values(g, F, b, n, iter)
  BY <1>2, <1>4, <1>9, <1>10, FoldSteps, Zenon
<1>12. \A k \in 1..n : g[k] = WholeChoice(g[k - 1], json[k])
  <2>1. \A k \in 1..n : k - 1 \in 0..n
    BY <1>2
  <2> QED BY <1>4, <1>11, <2>1 DEF Values
<1> QED BY <1>1, <1>2, <1>11, <1>12, Zenon DEF n, V, b, Values

-----------------------------------------------------------------------------
(* The screen.                                                              *)

ScreenMarks == {OpenMark, CloseMark}
Items == ScreenMarks \cup {<<"text", n>> : n \in Nat}
Readings == [mark : ScreenMarks, doubled : SUBSET ScreenMarks, thoughts : Pieces, speech : Pieces]

ScreenOf(s) == FoldLeft(ReadOn, Blank, s)

LEMMA MarksAreNoText ==
  /\ OpenMark # CloseMark
  /\ \A n : <<"text", n>> \notin ScreenMarks
<1>1. OpenMark[1] = "open" /\ CloseMark[1] = "close"
  BY DEF OpenMark, CloseMark
<1>2. \A n : <<"text", n>>[1] = "text"
  OBVIOUS
<1> QED BY <1>1, <1>2 DEF ScreenMarks

\* What a mark and a piece of text do to what has been read.
MarkRead(r, t, r2) ==
  /\ r2.mark = t /\ r2.thoughts = r.thoughts /\ r2.speech = r.speech
  /\ r.mark # t => r2.doubled = r.doubled

PieceRead(r, n, r2) ==
  /\ r2.mark = r.mark /\ r2.doubled = r.doubled
  /\ r.mark = OpenMark => r2.thoughts = Append(r.thoughts, n) /\ r2.speech = r.speech
  /\ r.mark # OpenMark => r2.thoughts = r.thoughts /\ r2.speech = Append(r.speech, n)

LEMMA ReadsMark ==
  ASSUME NEW r \in Readings, NEW t \in ScreenMarks
  PROVE  ReadOn(r, t) \in Readings /\ MarkRead(r, t, ReadOn(r, t))
<1> DEFINE doubled == IF r.mark = t THEN r.doubled \cup {t} ELSE r.doubled
<1>1. ReadOn(r, t) = [r EXCEPT !.mark = t, !.doubled = doubled]
  BY Zenon DEF ReadOn, ScreenMarks
<1>2. doubled \in SUBSET ScreenMarks /\ (r.mark # t => doubled = r.doubled)
  BY DEF Readings
<1> HIDE DEF doubled
<1> QED BY <1>1, <1>2 DEF Readings, MarkRead

LEMMA ReadsPiece ==
  ASSUME NEW r \in Readings, NEW n \in Nat
  PROVE  ReadOn(r, <<"text", n>>) \in Readings /\ PieceRead(r, n, ReadOn(r, <<"text", n>>))
<1> DEFINE t == <<"text", n>>
<1>1. t \notin {OpenMark, CloseMark}
  BY MarksAreNoText DEF ScreenMarks
<1>2. t[2] = n
  OBVIOUS
<1> HIDE DEF t
<1>3. r.thoughts \in Pieces /\ r.speech \in Pieces
  BY DEF Readings
<1> DEFINE thoughts == Append(r.thoughts, n)
           speech == Append(r.speech, n)
<1>4. thoughts \in Pieces /\ speech \in Pieces
  BY <1>3 DEF Pieces
<1>5. CASE r.mark = OpenMark
  <2>1. ReadOn(r, t) = [r EXCEPT !.thoughts = thoughts]
    BY <1>1, <1>2, <1>5, Zenon DEF ReadOn
  <2> HIDE DEF thoughts
  <2>2. ReadOn(r, t) \in Readings /\ PieceRead(r, n, [r EXCEPT !.thoughts = thoughts])
    BY <1>4, <1>5, <2>1 DEF Readings, PieceRead, thoughts
  <2> QED BY <2>1, <2>2 DEF t
<1>6. CASE r.mark # OpenMark
  <2>1. ReadOn(r, t) = [r EXCEPT !.speech = speech]
    BY <1>1, <1>2, <1>6, Zenon DEF ReadOn
  <2> HIDE DEF speech
  <2>2. ReadOn(r, t) \in Readings /\ PieceRead(r, n, [r EXCEPT !.speech = speech])
    BY <1>4, <1>6, <2>1 DEF Readings, PieceRead, speech
  <2> QED BY <2>1, <2>2 DEF t
<1> QED BY <1>5, <1>6

LEMMA ReadOnType ==
  ASSUME NEW r \in Readings, NEW t \in Items
  PROVE  ReadOn(r, t) \in Readings
<1>1. CASE t \in ScreenMarks
  BY <1>1, ReadsMark
<1>2. CASE t \notin ScreenMarks
  <2>1. PICK n \in Nat : t = <<"text", n>>
    BY <1>2 DEF Items
  <2> QED BY <2>1, ReadsPiece, Zenon
<1> QED BY <1>1, <1>2

\* What has been read after each item.
ReadSoFar(g, s) ==
  /\ g[0] = Blank
  /\ \A k \in 1..Len(s) : g[k] = ReadOn(g[k - 1], s[k])

LEMMA ScreenFold ==
  ASSUME NEW items \in Seq(Items)
  PROVE  \E g \in [0..Len(items) -> Readings] :
            ReadSoFar(g, items) /\ ScreenOf(items) = g[Len(items)]
<1> DEFINE n == Len(items)
           V == Readings
           b == Blank
           F == [at \in V \X (1..n) |-> ReadOn(at[1], items[at[2]])]
           Iter(it) == it = [s \in SUBSET (DOMAIN items) |->
                               IF s = {} THEN b
                               ELSE ReadOn(it[s \ {Max(s)}], items[Max(s)])]
           iter == CHOOSE it : Iter(it)
<1>1. ScreenOf(items) = iter[DOMAIN items]
  BY Zenon DEF ScreenOf, FoldLeft, MapThenFoldSet
<1>2. n \in Nat /\ DOMAIN items = 1..n /\ b \in V /\ \A k \in 1..n : items[k] \in Items
  BY DEF Blank, Readings, ScreenMarks, Pieces
<1>3. \A v \in V, k \in 1..n : ReadOn(v, items[k]) \in V
  BY <1>2, ReadOnType, Zenon
<1>4. F \in [V \X (1..n) -> V] /\ \A v \in V, k \in 1..n : F[<<v, k>>] = ReadOn(v, items[k])
  <2> HIDE DEF n, V
  <2> QED BY <1>3
<1>5. PICK it \in [SUBSET (1..n) -> V] : Folding(F, b, n, it)
  <2> HIDE DEF n, V, F, b
  <2> QED BY <1>2, <1>4, FoldExists, Zenon
<1> HIDE DEF n, V, F, b
<1>6. \A s \in SUBSET (1..n) : s # {} => Max(s) \in s
  BY <1>2, GreatestIn, Zenon
<1>7. Iter(it)
  <2>1. ASSUME NEW s \in SUBSET (1..n), s # {}
        PROVE  F[<<it[s \ {Max(s)}], Max(s)>>] = ReadOn(it[s \ {Max(s)}], items[Max(s)])
    BY <1>4, <1>6, <2>1, s \ {Max(s)} \in SUBSET (1..n), Zenon
  <2>2. it = [s \in SUBSET (1..n) |-> it[s]]
    OBVIOUS
  <2>3. \A s \in SUBSET (1..n) :
          it[s] = IF s = {} THEN b ELSE ReadOn(it[s \ {Max(s)}], items[Max(s)])
    BY <1>5, <2>1, Zenon DEF Folding
  <2> QED BY <1>2, <2>2, <2>3, Zenon
<1>8. Iter(iter)
  BY <1>7, Zenon
<1> HIDE DEF iter
<1> DEFINE next == [s \in SUBSET (1..n) |-> ReadOn(iter[s \ {Max(s)}], items[Max(s)])]
<1>9. Folded(iter, next, b, n)
  BY <1>2, <1>8, Zenon DEF Folded
<1>10. AsGiven(iter, next, F, V, n)
  BY <1>4, <1>6, Zenon DEF AsGiven
<1> HIDE DEF next
<1>11. PICK g \in [0..n -> V] : Values(g, F, b, n, iter)
  BY <1>2, <1>4, <1>9, <1>10, FoldSteps, Zenon
<1>12. \A k \in 1..n : g[k] = ReadOn(g[k - 1], items[k])
  <2>1. \A k \in 1..n : k - 1 \in 0..n
    BY <1>2
  <2> QED BY <1>4, <1>11, <2>1 DEF Values
<1> QED BY <1>1, <1>2, <1>11, <1>12, Zenon DEF n, V, b, Values, ReadSoFar

LEMMA ScreenOfMore ==
  ASSUME NEW t \in Seq(Items), NEW c \in Items
  PROVE  ScreenOf(t) \in Readings /\ ScreenOf(Append(t, c)) = ReadOn(ScreenOf(t), c)
<1> DEFINE n == Len(t)
           u == Append(t, c)
<1>1. n \in Nat /\ u \in Seq(Items) /\ Len(u) = n + 1 /\ u[n + 1] = c /\ \A k \in 1..n : u[k] = t[k]
  OBVIOUS
<1>2. PICK g \in [0..n -> Readings] : ReadSoFar(g, t) /\ ScreenOf(t) = g[n]
  BY ScreenFold, Zenon
<1> HIDE DEF u
<1>3. PICK h \in [0..Len(u) -> Readings] : ReadSoFar(h, u) /\ ScreenOf(u) = h[Len(u)]
  BY <1>1, ScreenFold, Zenon
<1> DEFINE A == {k \in 0..n : g[k] = h[k]}
<1>4. 0 \in A
  BY <1>1, <1>2, <1>3 DEF ReadSoFar
<1> HIDE DEF n
<1>5. ASSUME NEW k \in 0..n - 1, k \in A PROVE k + 1 \in A
  <2>1. k + 1 \in 1..n /\ k + 1 \in 1..n + 1 /\ (k + 1) - 1 = k /\ k + 1 \in 0..n
    BY <1>1
  <2>2. g[k + 1] = ReadOn(g[k], t[k + 1]) /\ h[k + 1] = ReadOn(h[k], u[k + 1])
    BY <1>1, <1>2, <1>3, <2>1 DEF ReadSoFar, n
  <2> QED BY <1>1, <1>5, <2>1, <2>2, Zenon
<1>6. n \in A
  <2> HIDE DEF A
  <2>1. n \in 0..n
    BY <1>1
  <2> QED BY <1>1, <1>4, <1>5, <2>1, UpTo, Zenon
<1>7. h[n + 1] = ReadOn(h[n], c) /\ g[n] \in Readings
  <2>1. n + 1 \in 1..Len(u) /\ (n + 1) - 1 = n /\ n \in 0..n
    BY <1>1
  <2> QED BY <1>1, <1>2, <1>3, <2>1 DEF ReadSoFar
<1> QED BY <1>1, <1>2, <1>3, <1>6, <1>7, Zenon DEF u, n

\* What a text does.
TextRead(r, text, r2) ==
  /\ r2.mark = r.mark /\ r2.doubled = r.doubled
  /\ r.mark = OpenMark => r2.thoughts = r.thoughts \o text /\ r2.speech = r.speech
  /\ r.mark # OpenMark => r2.thoughts = r.thoughts /\ r2.speech = r.speech \o text

LEMMA ReadsText ==
  ASSUME NEW s \in Seq(Items), NEW text \in Pieces, Len(text) <= 1
  PROVE  /\ s \o Shown(text) \in Seq(Items)
         /\ TextRead(ScreenOf(s), text, ScreenOf(s \o Shown(text)))
<1> DEFINE r == ScreenOf(s)
<1>1. r \in Readings
  <2>1. Blank \in Readings /\ OpenMark \in Items
    BY DEF Blank, Readings, ScreenMarks, Pieces, Items
  <2> QED BY <2>1, ScreenOfMore, Zenon
<1>2. r.thoughts \in Pieces /\ r.speech \in Pieces
  BY <1>1 DEF Readings
<1> HIDE DEF r
<1>3. Len(text) \in Nat
  BY DEF Pieces
<1>4. CASE Len(text) = 0
  <2>1. text = << >> /\ Shown(text) = << >>
    BY <1>4 DEF Shown, Pieces
  <2>2. s \o << >> = s /\ r.thoughts \o << >> = r.thoughts /\ r.speech \o << >> = r.speech
    BY <1>2 DEF Pieces
  <2>3. TextRead(r, << >>, r)
    BY <2>2, Zenon DEF TextRead
  <2> QED BY <2>1, <2>2, <2>3, Zenon DEF r
<1>5. CASE Len(text) = 1
  <2> DEFINE n == text[1]
             t == <<"text", n>>
  <2>1. n \in Nat /\ text = <<n>>
    BY <1>5 DEF Pieces
  <2>2. Shown(text) = <<t>>
    BY <1>5, <2>1 DEF Shown
  <2>3. t \in Items
    BY <2>1 DEF Items
  <2> HIDE DEF n
  <2>4. PieceRead(r, n, ReadOn(r, t))
    BY <1>1, <2>1, ReadsPiece
  <2> HIDE DEF t
  <2>5. s \o <<t>> = Append(s, t) /\ Append(s, t) \in Seq(Items)
    BY <2>3
  <2>6. r.thoughts \o <<n>> = Append(r.thoughts, n) /\ r.speech \o <<n>> = Append(r.speech, n)
    BY <1>2, <2>1 DEF Pieces
  <2>7. TextRead(r, <<n>>, ReadOn(r, t))
    BY <2>4, <2>6, Zenon DEF PieceRead, TextRead
  <2>8. ScreenOf(Append(s, t)) = ReadOn(r, t)
    BY <2>3, ScreenOfMore, Zenon DEF r
  <2> QED BY <2>1, <2>2, <2>5, <2>7, <2>8, Zenon DEF r
<1>6. Len(text) = 0 \/ Len(text) = 1
  <2> DEFINE l == Len(text)
  <2>1. l \in Nat /\ l <= 1
    BY <1>3
  <2> HIDE DEF l
  <2>2. l = 0 \/ l = 1
    BY <2>1
  <2> QED BY <2>2 DEF l
<1> QED BY <1>4, <1>5, <1>6

\* A mark is shown where it is not the last one already.
LEMMA ReadsMarks ==
  ASSUME NEW s \in Seq(Items), NEW t \in ScreenMarks, NEW marks,
         ScreenOf(s).mark = t => marks = << >>, ScreenOf(s).mark # t => marks = <<t>>
  PROVE  /\ s \o marks \in Seq(Items)
         /\ ScreenOf(s \o marks).mark = t
         /\ ScreenOf(s \o marks).doubled = ScreenOf(s).doubled
         /\ ScreenOf(s \o marks).thoughts = ScreenOf(s).thoughts
         /\ ScreenOf(s \o marks).speech = ScreenOf(s).speech
<1> DEFINE r == ScreenOf(s)
<1>1. t \in Items
  BY DEF Items
<1>2. r \in Readings /\ ScreenOf(Append(s, t)) = ReadOn(r, t)
  BY <1>1, ScreenOfMore, Zenon
<1> HIDE DEF r
<1>3. CASE r.mark = t
  <2>1. s \o << >> = s /\ marks = << >>
    BY <1>3 DEF r
  <2> QED BY <1>3, <2>1, Zenon DEF r
<1>4. CASE r.mark # t
  <2>1. s \o <<t>> = Append(s, t) /\ Append(s, t) \in Seq(Items) /\ marks = <<t>>
    BY <1>1, <1>4 DEF r
  <2>2. MarkRead(r, t, ReadOn(r, t))
    BY <1>2, ReadsMark, Zenon
  <2> QED BY <1>2, <1>4, <2>1, <2>2, Zenon DEF r, MarkRead
<1> QED BY <1>3, <1>4

\* A delta thinks and speaks a piece at most, and does not think when it ends.
Brief(d) ==
  /\ Len(Given(d.reasoning, << >>)) <= 1 /\ Len(Given(d.content, << >>)) <= 1
  /\ d.finish # Null => d.reasoning = Null

Displayed(d) ==
  shown \o Marks(d) \o Shown(Given(d.reasoning, << >>)) \o Shown(Given(d.content, << >>))

\* What is on the screen when d has been shown, seen from what was there before.
DeltaRead(d, r, r2) ==
  /\ r2.mark = IF NowThinking(d) THEN OpenMark ELSE CloseMark
  /\ r2.doubled = r.doubled
  /\ Plain(d) => /\ r2.thoughts = r.thoughts \o Given(d.reasoning, << >>)
                 /\ r2.speech = r.speech \o Given(d.content, << >>)

LEMMA ReadsDelta ==
  ASSUME shown \in Seq(Items), Screen.mark = IF thinking THEN OpenMark ELSE CloseMark,
         NEW d \in Deltas, Brief(d)
  PROVE  /\ Displayed(d) \in Seq(Items)
         /\ DeltaRead(d, Screen, ScreenOf(Displayed(d)))
<1> DEFINE thought == Given(d.reasoning, << >>)
           speech == Given(d.content, << >>)
           t == IF NowThinking(d) THEN OpenMark ELSE CloseMark
           marks == Marks(d)
           r == Screen
           s1 == shown \o marks
           s2 == s1 \o Shown(thought)
           s3 == s2 \o Shown(speech)
<1>1. /\ thought \in Pieces /\ Len(thought) <= 1 /\ speech \in Pieces /\ Len(speech) <= 1
      /\ Plain(d) /\ NowThinking(d) => speech = << >>
      /\ ~NowThinking(d) => thought = << >>
  BY DEF Brief, Deltas, Given, Maybe, Pieces, NowThinking, Plain
<1>2. t \in ScreenMarks
  BY DEF ScreenMarks
<1>3. r = ScreenOf(shown)
  BY Zenon DEF Screen, ScreenOf
<1>4. r.mark = t => marks = << >>
  BY MarksAreNoText DEF Marks, NowThinking
<1>5. r.mark # t => marks = <<t>>
  BY MarksAreNoText DEF Marks, NowThinking
<1>6. r \in Readings
  <2>1. OpenMark \in Items
    BY DEF Items, ScreenMarks
  <2> QED BY <1>3, <2>1, ScreenOfMore, Zenon
<1>7. r.thoughts \o << >> = r.thoughts /\ r.speech \o << >> = r.speech
      /\ (r.thoughts \o thought) \o << >> = r.thoughts \o thought
  BY <1>1, <1>6 DEF Readings, Pieces
<1>8. Displayed(d) = s3
  BY Zenon DEF Displayed
<1>9. NowThinking(d) => t = OpenMark
  OBVIOUS
<1>10. ~NowThinking(d) => t # OpenMark
  BY MarksAreNoText
<1> HIDE DEF t, marks, r
<1>11. /\ s1 \in Seq(Items) /\ ScreenOf(s1).mark = t /\ ScreenOf(s1).doubled = r.doubled
       /\ ScreenOf(s1).thoughts = r.thoughts /\ ScreenOf(s1).speech = r.speech
  <2>1. ScreenOf(shown).mark = t => marks = << >>
    BY <1>3, <1>4, Zenon
  <2>2. ScreenOf(shown).mark # t => marks = <<t>>
    BY <1>3, <1>5, Zenon
  <2> QED BY <1>2, <1>3, <2>1, <2>2, ReadsMarks
<1> HIDE DEF s1, thought, speech
<1>12. s2 \in Seq(Items) /\ TextRead(ScreenOf(s1), thought, ScreenOf(s2))
  BY <1>1, <1>11, ReadsText, Zenon
<1> HIDE DEF s2
<1>13. s3 \in Seq(Items) /\ TextRead(ScreenOf(s2), speech, ScreenOf(s3))
  BY <1>1, <1>12, ReadsText, Zenon
<1> HIDE DEF s3
<1>14. ScreenOf(s3).mark = t /\ ScreenOf(s3).doubled = r.doubled
  BY <1>11, <1>12, <1>13, Zenon DEF TextRead
<1>15. ASSUME Plain(d)
       PROVE  /\ ScreenOf(s3).thoughts = r.thoughts \o thought
              /\ ScreenOf(s3).speech = r.speech \o speech
  <2>1. CASE NowThinking(d)
    BY <1>1, <1>7, <1>9, <1>11, <1>12, <1>13, <1>15, <2>1, Zenon DEF TextRead
  <2>2. CASE ~NowThinking(d)
    BY <1>1, <1>7, <1>10, <1>11, <1>12, <1>13, <2>2, Zenon DEF TextRead
  <2> QED BY <2>1, <2>2, Zenon
<1>16. DeltaRead(d, r, ScreenOf(s3))
  BY <1>14, <1>15, Zenon DEF DeltaRead, t, thought, speech
<1> QED BY <1>8, <1>13, <1>16, Zenon DEF r

-----------------------------------------------------------------------------
(* Both of them, as long as the server says what it means.                  *)

\* What the choices up to l have said, put together.
Spoken(l) == [i \in 1..l |-> Parsed(said[i - 1])]

\* The choices up to l, and no others, have said something.
Speakers(l) ==
  /\ l \in 0..answers
  /\ \A c \in DOMAIN said : said[c].role # Null => c < l
  /\ l > 0 => said[l - 1].role # Null

\* A choice that has said nothing is silent in every field.
Conversation ==
  /\ answers \in 1..MaxChoices /\ answers \in Nat
  /\ said \in [0..answers - 1 -> Messages]
  /\ \A c \in DOMAIN said : said[c].index = c /\ (said[c].role = Null => said[c] = Silence(c))
  /\ reported \in Usages

StreamIInv ==
  /\ Conversation
  /\ all \in Seq(Chunks)
  /\ \E l \in 0..answers :
       Speakers(l) /\ FromSse(all) = [choices |-> Spoken(l), usage |-> reported]

SpokenTyped ==
  \A l \in 0..answers : /\ Spoken(l) \in Seq(ChoiceRecords) /\ Len(Spoken(l)) = l
                        /\ \A i \in 1..l : Spoken(l)[i] = Parsed(said[i - 1])

LEMMA SpokenType == Conversation => SpokenTyped
<1> SUFFICES ASSUME Conversation, NEW l \in 0..answers
             PROVE  /\ Spoken(l) \in Seq(ChoiceRecords) /\ Len(Spoken(l)) = l
                    /\ \A i \in 1..l : Spoken(l)[i] = Parsed(said[i - 1])
  BY DEF SpokenTyped
<1>1. \A i \in 1..l : i - 1 \in 0..answers - 1
  BY DEF Conversation
<1>2. \A i \in 1..l : said[i - 1] \in Messages
  BY <1>1 DEF Conversation
<1>3. \A i \in 1..l : Parsed(said[i - 1]) \in ChoiceRecords
  BY <1>2, ParsedMessage
<1>4. l \in Nat
  BY DEF Conversation
<1> DEFINE s == [i \in 1..l |-> Parsed(said[i - 1])]
<1>5. s \in [1..l -> ChoiceRecords] /\ \A i \in 1..l : s[i] = Parsed(said[i - 1])
  BY <1>3
<1>6. Spoken(l) = s
  BY DEF Spoken
<1> HIDE DEF s
<1>7. s \in Seq(ChoiceRecords) /\ Len(s) = l
  BY <1>4, <1>5
<1> QED BY <1>5, <1>6, <1>7, Zenon

\* What stands at the place of a choice is what it has said, also before it has
\* said anything.
LEMMA SpokenAt ==
  ASSUME Conversation, NEW l \in 0..answers, Speakers(l), NEW c \in 0..answers - 1
  PROVE  ChoiceAt(Spoken(l), c + 1) = Parsed(said[c])
<1>1. c + 1 \in Nat /\ (c + 1) - 1 = c /\ c \in Nat /\ c \in DOMAIN said
  BY DEF Conversation
<1>2. CASE c < l
  <2>1. c + 1 \in 1..l /\ c + 1 <= l
    BY <1>1, <1>2 DEF Conversation
  <2> QED BY <1>1, <2>1, SpokenType, Zenon DEF ChoiceAt, SpokenTyped
<1>3. CASE ~(c < l)
  <2>1. ~(c + 1 <= l)
    BY <1>1, <1>3 DEF Conversation
  <2>2. said[c] = Silence(c)
    BY <1>1, <1>3, Zenon DEF Speakers, Conversation
  <2>3. ChoiceAt(Spoken(l), c + 1) = NewChoice
    BY <2>1, SpokenType, Zenon DEF ChoiceAt, SpokenTyped
  <2> QED BY <1>1, <2>2, <2>3, NewChoiceIsSilence
<1> QED BY <1>2, <1>3

\* What an event of the server is: choice c says more, and the chunk that comes
\* in says what.
Showing(d) ==
  /\ Brief(d)
  /\ shown' = Displayed(d)
  /\ thinking' = NowThinking(d)
  /\ Len(all) < MaxEvents

Saying(c) ==
  \E d, m2, usage :
    /\ Says(d, said[c], m2)
    /\ Open(c)
    /\ Showing(d)
    /\ usage \in Usages
    /\ said' = [said EXCEPT ![c] = m2]
    /\ all' = Append(all, [choices |-> <<d>>, usage |-> usage])
    /\ reported' = Given(usage, reported)
    /\ answers' = answers

LEMMA SayingIInv ==
  ASSUME StreamIInv, NEW c \in DOMAIN said, Saying(c)
  PROVE  StreamIInv'
<1>1. PICK d, m2, usage :
        /\ Says(d, said[c], m2)
        /\ usage \in Usages
        /\ said' = [said EXCEPT ![c] = m2]
        /\ all' = Append(all, [choices |-> <<d>>, usage |-> usage])
        /\ reported' = Given(usage, reported)
        /\ answers' = answers
  BY Zenon DEF Saying
<1>2. Conversation
  BY DEF StreamIInv
<1>3. c \in 0..answers - 1 /\ c \in Nat /\ answers \in Nat /\ DOMAIN said = 0..answers - 1
  BY <1>2 DEF Conversation
<1>4. d \in Deltas /\ m2 \in Messages /\ m2.index = c /\ m2.role = "assistant" /\ d.index = c
  BY <1>1, <1>2 DEF Says, Conversation
<1>5. m2.role # Null
  BY <1>4, StreamNullAssumption
<1>6. /\ said' \in [0..answers - 1 -> Messages] /\ said'[c] = m2
      /\ \A e \in 0..answers - 1 : e # c => said'[e] = said[e]
  BY <1>1, <1>2, <1>3, <1>4 DEF Conversation
<1>7. reported' \in Usages
  BY <1>1, <1>2 DEF Given, Conversation
<1>8. Conversation'
  <2>1. (\A e \in DOMAIN said :
            said[e].index = e /\ (said[e].role = Null => said[e] = Silence(e)))'
    BY <1>2, <1>3, <1>4, <1>5, <1>6, Zenon DEF Conversation
  <2>2. answers' \in 1..MaxChoices /\ answers' \in Nat
    BY <1>1, <1>2, Zenon DEF Conversation
  <2>3. said' \in [0..answers' - 1 -> Messages]
    BY <1>1, <1>6, Zenon
  <2> QED BY <1>7, <2>1, <2>2, <2>3 DEF Conversation
<1> DEFINE chunk == [choices |-> <<d>>, usage |-> usage]
<1>9. chunk \in Chunks /\ chunk.choices = <<d>> /\ chunk.usage = usage
  BY <1>1, <1>4 DEF Chunks
<1> HIDE DEF chunk
<1>10. all' = Append(all, chunk) /\ all \in Seq(Chunks) /\ all' \in Seq(Chunks)
  BY <1>1, <1>9 DEF StreamIInv, chunk
<1>11. PICK l \in 0..answers :
         Speakers(l) /\ FromSse(all) = [choices |-> Spoken(l), usage |-> reported]
  BY Zenon DEF StreamIInv
<1>12. FromSse(all') = [choices |-> AddDelta(Spoken(l), d), usage |-> reported']
  <2>1. FromSse(all') = AddChunk(FromSse(all), chunk)
    BY <1>9, <1>10, SseOfMore
  <2>2. Spoken(l) \in Seq(ChoiceRecords)
    BY <1>2, SpokenType DEF SpokenTyped
  <2>3. FoldLeft(AddDelta, Spoken(l), <<d>>) = AddDelta(Spoken(l), d)
    BY <1>4, <2>2, OneDelta
  <2> DEFINE v == [choices |-> Spoken(l), usage |-> reported]
  <2>4. v.choices = Spoken(l) /\ v.usage = reported
    OBVIOUS
  <2> HIDE DEF v
  <2>5. AddChunk(v, chunk) = [choices |-> AddDelta(Spoken(l), d), usage |-> reported']
    BY <1>1, <1>9, <2>3, <2>4, Zenon DEF AddChunk
  <2> QED BY <1>11, <2>1, <2>5 DEF v
<1> DEFINE k == IF c + 1 > l THEN c + 1 ELSE l
<1>13. k \in 0..answers' /\ Speakers(k)'
  <2>1. k \in 0..answers /\ k >= l /\ k > c
    BY <1>3
  <2>2. \A e \in 0..answers - 1 : said'[e].role # Null => e < k
    <3>1. \A e \in 0..answers - 1 : said[e].role # Null => e < l
      BY <1>3, <1>11 DEF Speakers
    <3>2. \A e \in 0..answers - 1 : e < l \/ e = c => e < k
      BY <1>3, <2>1
    <3> HIDE DEF k
    <3> QED BY <1>6, <3>1, <3>2, Zenon
  <2>3. k > 0 => said'[k - 1].role # Null
    <3>1. CASE c + 1 > l
      BY <1>3, <1>5, <1>6, <3>1
    <3>2. CASE ~(c + 1 > l)
      <4>1. k = l /\ l > 0 /\ l - 1 \in 0..answers - 1
        BY <1>3, <3>2
      <4>2. said[l - 1].role # Null
        BY <1>11, <4>1 DEF Speakers
      <4> QED BY <1>5, <1>6, <4>1, <4>2, Zenon
    <3> QED BY <3>1, <3>2
  <2> HIDE DEF k
  <2> QED BY <1>1, <1>6, <2>1, <2>2, <2>3 DEF Speakers
<1>14. AddDelta(Spoken(l), d) = Spoken(k)'
  <2> DEFINE new == Merged(ChoiceAt(Spoken(l), c + 1), d)
             put == PutAt(Spoken(l), c + 1, new)
  <2>1. Spoken(l) \in Seq(ChoiceRecords) /\ Len(Spoken(l)) = l
    BY <1>2, SpokenType DEF SpokenTyped
  <2>2. AddDelta(Spoken(l), d) = put /\ put \in Seq(ChoiceRecords)
    BY <1>4, <2>1, AddDeltaType
  <2>3. new = Parsed(m2)
    <3>1. ChoiceAt(Spoken(l), c + 1) = Parsed(said[c])
      BY <1>2, <1>3, <1>11, SpokenAt
    <3>2. said[c] \in Messages
      BY <1>2, <1>3 DEF Conversation
    <3> QED BY <1>1, <3>1, <3>2, MergedIsParsed
  <2>4. new \in ChoiceRecords
    BY <1>4, <2>3, ParsedMessage
  <2>5. c + 1 \in Nat \ {0}
    BY <1>3
  <2> HIDE DEF new
  <2>6. /\ c + 1 > l => Len(put) = c + 1
        /\ ~(c + 1 > l) => Len(put) = l
        /\ put[c + 1] = new
        /\ \A j \in 1..Len(put) : j # c + 1 => put[j] = ChoiceAt(Spoken(l), j)
    <3>1. Stands(put, Spoken(l), c + 1, new)
      BY <2>1, <2>4, <2>5, PutAtPlace, Zenon
    <3> HIDE DEF put
    <3> QED BY <2>1, <3>1, Zenon DEF Stands
  <2> HIDE DEF put
  <2>7. Len(put) = k
    BY <2>6
  <2> HIDE DEF k
  <2>8. /\ Spoken(k)' \in Seq(ChoiceRecords) /\ Len(Spoken(k)') = k
        /\ \A i \in 1..k : Spoken(k)'[i] = Parsed(said'[i - 1])
    <3>1. k \in 0..answers'
      BY <1>13
    <3>2. SpokenTyped'
      BY <1>8, SpokenType, PTL
    <3> QED BY <3>1, <3>2, Zenon DEF SpokenTyped
  <2>9. ASSUME NEW i \in 1..k PROVE put[i] = Parsed(said'[i - 1])
    <3>1. i - 1 \in 0..answers - 1 /\ (i - 1) + 1 = i
      BY <1>1, <1>3, <1>13
    <3>2. CASE i = c + 1
      <4>1. i - 1 = c
        BY <1>3, <3>2
      <4> QED BY <1>6, <2>3, <2>6, <3>2, <4>1, Zenon
    <3>3. CASE i # c + 1
      <4>1. put[i] = ChoiceAt(Spoken(l), i)
        BY <2>6, <2>7, <3>3
      <4>2. ChoiceAt(Spoken(l), (i - 1) + 1) = Parsed(said[i - 1])
        BY <1>2, <1>11, <3>1, SpokenAt
      <4>3. i - 1 # c
        BY <1>3, <3>3
      <4> QED BY <1>6, <3>1, <4>1, <4>2, <4>3
    <3> QED BY <3>2, <3>3
  <2>10. put = Spoken(k)'
    <3>1. \A i \in 1..Len(put) : put[i] = Spoken(k)'[i]
      BY <2>7, <2>8, <2>9
    <3> QED BY <2>2, <2>7, <2>8, <3>1, SeqEqual
  <2> QED BY <2>2, <2>10
<1> HIDE DEF k
<1> QED BY <1>8, <1>10, <1>12, <1>13, <1>14 DEF StreamIInv

-----------------------------------------------------------------------------
(* What each event says.                                                    *)

LEMMA DeltaSays ==
  ASSUME Conversation, NEW c \in DOMAIN said, NEW delta \in Deltas, NEW message \in Messages,
         NEW usage \in Usages, delta.index = c, message.index = c,
         Given(message.content, << >>)
           = Appended(Given(said[c].content, << >>), delta.content),
         message.reasoning = AppendedTo(said[c].reasoning, delta.reasoning),
         message.calls = AddCalls(said[c].calls, delta.calls),
         message.finish = Given(delta.finish, said[c].finish),
         Delta(c, delta, message, usage), reported' = Given(usage, reported),
         Open(c), Brief(delta)
  PROVE  Saying(c)
<1> DEFINE role == IF said[c].role = Null THEN "assistant" ELSE Null
           d == [delta EXCEPT !.role = role]
           m2 == [message EXCEPT !.role = "assistant"]
           chunk == [choices |-> <<d>>, usage |-> usage]
<1>1. role \in Maybe({"assistant"})
  BY DEF Maybe
<1> HIDE DEF role
<1>2. /\ d \in Deltas /\ d.index = c /\ d.role = role /\ d.content = delta.content
      /\ d.reasoning = delta.reasoning /\ d.calls = delta.calls /\ d.finish = delta.finish
  BY <1>1 DEF Deltas
<1>3. /\ m2 \in Messages /\ m2.index = c /\ m2.role = "assistant" /\ m2.content = message.content
      /\ m2.reasoning = message.reasoning /\ m2.calls = message.calls
      /\ m2.finish = message.finish
  BY DEF Messages, Maybe
<1>4. said' = [said EXCEPT ![c] = m2] /\ answers' = answers
  BY DEF Delta
<1>5. ParseLine(chunk)
  BY Zenon DEF Delta, role
<1>6. all' = Append(all, chunk) /\ shown' = Displayed(d) /\ thinking' = NowThinking(d)
  <2> DEFINE choices == <<d>>
  <2>1. choices # << >> /\ choices[1] = d
    OBVIOUS
  <2> HIDE DEF choices, d
  <2>2. chunk.choices = choices
    BY DEF choices
  <2> HIDE DEF chunk
  <2> QED BY <1>5, <2>1, <2>2, Zenon DEF ParseLine, Displayed
<1>7. said[c].index = c
  BY Zenon DEF Conversation
<1> HIDE DEF d, m2
<1>8. Says(d, said[c], m2)
  BY <1>2, <1>3, <1>7, Zenon DEF Says, role
<1>9. Showing(d)
  <2>1. Brief(d)
    BY <1>2, Zenon DEF Brief
  <2>2. Len(all) < MaxEvents
    BY Zenon DEF Delta
  <2> QED BY <1>6, <2>1, <2>2, Zenon DEF Showing
<1> QED BY <1>4, <1>6, <1>8, <1>9, Zenon DEF Saying

\* What a silent delta says of anything else.
LEMMA SaysNothing ==
  ASSUME NEW m \in Messages
  PROVE  /\ Appended(Given(m.content, << >>), Null) = Given(m.content, << >>)
         /\ AppendedTo(m.reasoning, Null) = m.reasoning
         /\ AddCalls(m.calls, << >>) = m.calls
         /\ Given(Null, m.finish) = m.finish
         /\ Given(Null, reported) = reported
<1>1. m.content \in Maybe(Pieces) /\ m.calls \in Seq(Calls)
  BY DEF Messages
<1>2. Given(m.content, << >>) \in Pieces
  BY <1>1 DEF Given, Maybe, Pieces
<1>3. Appended(Given(m.content, << >>), Null) = Given(m.content, << >>)
  <2> DEFINE text == Given(m.content, << >>)
  <2> HIDE DEF text
  <2>1. text \in Pieces
    BY <1>2 DEF text
  <2>2. text \o << >> = text
    BY <2>1 DEF Pieces
  <2>3. Appended(text, Null) = text
    BY <2>2 DEF Appended, Given
  <2> QED BY <2>3 DEF text
<1>4. AddCalls(m.calls, << >>) = m.calls
  BY <1>1, NoCalls
<1> QED BY <1>3, <1>4 DEF AppendedTo, Given

LEMMA SilenceFields ==
  ASSUME NEW c \in Nat
  PROVE  /\ Silence(c) \in Deltas /\ Silence(c).index = c /\ Silence(c).content = Null
         /\ Silence(c).reasoning = Null /\ Silence(c).calls = << >> /\ Silence(c).finish = Null
BY DEF Silence, Deltas, Maybe, Ends

LEMMA Talking ==
  ASSUME Conversation, NEW c \in DOMAIN said
  PROVE  said[c] \in Messages /\ said[c].index = c /\ c \in Nat
BY DEF Conversation

\* Text of the content, or none, is what the delta adds to it.
LEMMA SpeechAdded ==
  ASSUME NEW m \in Messages, NEW text \in Maybe(Pieces)
  PROVE  /\ AppendedTo(m.content, text) \in Maybe(Pieces)
         /\ Given(AppendedTo(m.content, text), << >>)
              = Appended(Given(m.content, << >>), text)
<1>1. CASE text = Null
  <2>1. AppendedTo(m.content, text) = m.content /\ m.content \in Maybe(Pieces)
    BY <1>1 DEF AppendedTo, Messages
  <2> QED BY <1>1, <2>1, SaysNothing, Zenon
<1>2. CASE text # Null
  <2> DEFINE new == AppendedTo(m.content, text)
  <2>1. m.content \in Maybe(Pieces) /\ text \in Pieces
    BY <1>2 DEF Messages, Maybe
  <2>2. new \in Maybe(Pieces)
    BY <2>1, AppendedToType DEF Maybe
  <2>3. new = Given(m.content, << >>) \o text /\ Appended(Given(m.content, << >>), text) = new
    BY <1>2 DEF AppendedTo, Appended, Given
  <2>4. new # Null
    <3>1. Given(m.content, << >>) \in Pieces
      BY <2>1 DEF Given, Maybe, Pieces
    <3>2. Given(m.content, << >>) \o text \in Pieces
      BY <2>1, <3>1 DEF Pieces
    <3> QED BY <2>3, <3>2, StreamNullAssumption DEF Pieces
  <2> HIDE DEF new
  <2>5. Given(new, << >>) = new
    BY <2>4 DEF Given
  <2> QED BY <2>2, <2>3, <2>5 DEF new
<1> QED BY <1>1, <1>2

LEMMA ThinkSays ==
  ASSUME Conversation, NEW c \in DOMAIN said, NEW thought \in Pieces, Len(thought) <= 1,
         NEW text \in Maybe(Pieces), Len(Given(text, << >>)) <= 1, Think(c, thought, text)
  PROVE  Saying(c)
<1> DEFINE m == said[c]
           delta == [Silence(c) EXCEPT !.reasoning = thought, !.content = text]
           new == AppendedTo(m.reasoning, thought)
           speech == AppendedTo(m.content, text)
           message == [m EXCEPT !.reasoning = new, !.content = speech]
<1>1. m \in Messages /\ m.index = c /\ c \in Nat
  BY Talking
<1>2. Delta(c, delta, message, Null) /\ reported' = reported /\ Open(c)
  BY Zenon DEF Think
<1> HIDE DEF m
<1>3. new \in Maybe(Pieces)
  <2>1. m.reasoning \in Maybe(Pieces) /\ thought \in Maybe(Pieces)
    BY <1>1 DEF Messages, Maybe
  <2> QED BY <2>1, AppendedToType
<1>8. /\ speech \in Maybe(Pieces)
      /\ Given(speech, << >>) = Appended(Given(m.content, << >>), text)
  BY <1>1, SpeechAdded, Zenon
<1> HIDE DEF new, speech
<1>4. /\ delta \in Deltas /\ delta.index = c /\ delta.content = text
      /\ delta.reasoning = thought /\ delta.calls = << >> /\ delta.finish = Null
  <2> DEFINE silence == Silence(c)
  <2>1. /\ silence \in Deltas /\ silence.index = c
        /\ silence.calls = << >> /\ silence.finish = Null
    BY <1>1, SilenceFields
  <2> HIDE DEF silence
  <2> QED BY <2>1 DEF Deltas, Maybe, silence
<1>5. /\ message \in Messages /\ message.index = c /\ message.content = speech
      /\ message.reasoning = new /\ message.calls = m.calls /\ message.finish = m.finish
  BY <1>1, <1>3, <1>8 DEF Messages
<1> HIDE DEF delta, message
<1>6. Null \in Usages
  BY DEF Usages, Maybe
<1>7. Brief(delta)
  <2>1. Given(thought, << >>) = thought
    BY StreamNullAssumption DEF Given, Pieces
  <2> QED BY <1>4, <2>1, Zenon DEF Brief
<1> QED BY <1>1, <1>2, <1>4, <1>5, <1>6, <1>7, <1>8, SaysNothing, DeltaSays, Zenon DEF m, new

LEMMA SpeakSays ==
  ASSUME Conversation, NEW c \in DOMAIN said, NEW text \in Pieces, Len(text) <= 1,
         Speak(c, text)
  PROVE  Saying(c)
<1> DEFINE m == said[c]
           delta == [Silence(c) EXCEPT !.content = text]
           new == AppendedTo(m.content, text)
           message == [m EXCEPT !.content = new]
<1>1. m \in Messages /\ m.index = c /\ c \in Nat
  BY Talking
<1>2. Delta(c, delta, message, Null) /\ reported' = reported /\ Open(c)
  BY Zenon DEF Speak
<1> HIDE DEF m
<1>3. new \in Maybe(Pieces) /\ Given(new, << >>) = Appended(Given(m.content, << >>), text)
  <2>1. text \in Maybe(Pieces)
    BY DEF Maybe
  <2> QED BY <1>1, <2>1, SpeechAdded, Zenon
<1> HIDE DEF new
<1>4. /\ delta \in Deltas /\ delta.index = c /\ delta.content = text /\ delta.reasoning = Null
      /\ delta.calls = << >> /\ delta.finish = Null
  <2> DEFINE silence == Silence(c)
  <2>1. /\ silence \in Deltas /\ silence.index = c /\ silence.reasoning = Null
        /\ silence.calls = << >> /\ silence.finish = Null
    BY <1>1, SilenceFields
  <2> HIDE DEF silence
  <2> QED BY <2>1 DEF Deltas, Maybe, silence
<1>5. /\ message \in Messages /\ message.index = c /\ message.content = new
      /\ message.reasoning = m.reasoning /\ message.calls = m.calls /\ message.finish = m.finish
  BY <1>1, <1>3 DEF Messages
<1> HIDE DEF delta, message
<1>6. Null \in Usages
  BY DEF Usages, Maybe
<1>7. Brief(delta)
  <2>1. Len(<< >>) <= 1
    OBVIOUS
  <2>2. Given(Null, << >>) = << >> /\ Given(text, << >>) = text
    BY StreamNullAssumption DEF Given, Pieces
  <2> QED BY <1>4, <2>1, <2>2, Zenon DEF Brief
<1> QED BY <1>1, <1>2, <1>3, <1>4, <1>5, <1>6, <1>7, SaysNothing, DeltaSays, Zenon DEF m

\* Calls: one that begins, one that goes on, or all at once.
LEMMA CallingSays ==
  ASSUME Conversation, NEW c \in DOMAIN said, NEW deltas \in Seq(CallDeltas),
         NEW calls \in Seq(Calls), calls = AddCalls(said[c].calls, deltas),
         Delta(c, [Silence(c) EXCEPT !.calls = deltas], [said[c] EXCEPT !.calls = calls], Null),
         reported' = reported, Open(c)
  PROVE  Saying(c)
<1> DEFINE m == said[c]
           delta == [Silence(c) EXCEPT !.calls = deltas]
           message == [m EXCEPT !.calls = calls]
<1>1. m \in Messages /\ m.index = c /\ c \in Nat
  BY Talking
<1> HIDE DEF m
<1>2. /\ delta \in Deltas /\ delta.index = c /\ delta.content = Null /\ delta.reasoning = Null
      /\ delta.calls = deltas /\ delta.finish = Null
  <2> DEFINE silence == Silence(c)
  <2>1. /\ silence \in Deltas /\ silence.index = c /\ silence.reasoning = Null
        /\ silence.content = Null /\ silence.finish = Null
    BY <1>1, SilenceFields
  <2> HIDE DEF silence
  <2> QED BY <2>1 DEF Deltas, silence
<1>3. /\ message \in Messages /\ message.index = c /\ message.content = m.content
      /\ message.reasoning = m.reasoning /\ message.calls = calls /\ message.finish = m.finish
  BY <1>1 DEF Messages
<1>4. Delta(c, delta, message, Null)
  BY Zenon DEF m
<1> HIDE DEF delta, message
<1>5. Null \in Usages
  BY DEF Usages, Maybe
<1>6. Brief(delta)
  <2>1. Len(<< >>) <= 1
    OBVIOUS
  <2>2. Given(Null, << >>) = << >>
    BY DEF Given
  <2> QED BY <1>2, <2>1, <2>2, Zenon DEF Brief
<1> QED BY <1>1, <1>2, <1>3, <1>4, <1>5, <1>6, SaysNothing, DeltaSays, Zenon DEF m

LEMMA CallSays ==
  ASSUME Conversation, NEW c \in DOMAIN said, NEW name \in Pieces, Call(c, name)
  PROVE  Saying(c)
<1> DEFINE k == Len(said[c].calls)
           delta == [index |-> k, id |-> k, name |-> name, arguments |-> << >>]
           call == [id |-> k, name |-> name, arguments |-> << >>]
           calls == Append(said[c].calls, call)
<1>1. said[c].calls \in Seq(Calls)
  BY Talking DEF Messages
<1>2. k \in Nat /\ << >> \in Pieces
  BY <1>1 DEF Pieces
<1>3. calls = AddCalls(said[c].calls, <<delta>>)
  BY <1>1, CallBegins
<1>4. Delta(c, [Silence(c) EXCEPT !.calls = <<delta>>], [said[c] EXCEPT !.calls = calls], Null)
      /\ reported' = reported /\ Open(c)
  BY Zenon DEF Call
<1>5. delta \in CallDeltas /\ call \in Calls
  BY <1>2 DEF CallDeltas, Calls, Maybe
<1> HIDE DEF delta, call
<1>6. <<delta>> \in Seq(CallDeltas) /\ calls \in Seq(Calls)
  BY <1>1, <1>5
<1> HIDE DEF calls
<1> QED BY <1>3, <1>4, <1>6, CallingSays, Zenon

LEMMA ArgueSays ==
  ASSUME Conversation, NEW c \in DOMAIN said, NEW k \in DOMAIN said[c].calls,
         NEW text \in Pieces, Argue(c, k, text)
  PROVE  Saying(c)
<1> DEFINE old == said[c].calls
           delta == [index |-> k - 1, id |-> Null, name |-> Null, arguments |-> text]
           calls == [old EXCEPT ![k].arguments = @ \o text]
<1>1. old \in Seq(Calls) /\ said[c] \in Messages
  BY Talking DEF Messages
<1>2. k - 1 \in Nat
  BY <1>1
<1>3. calls = AddCalls(old, <<delta>>)
  <2> HIDE DEF old
  <2>1. k \in DOMAIN old
    BY DEF old
  <2>2. AddCalls(old, <<MoreArguments(k, text)>>) = ArguedOn(old, k, text)
    BY <1>1, <2>1, CallGoesOn, Zenon
  <2> QED BY <2>2, Zenon DEF MoreArguments, ArguedOn
<1>4. Delta(c, [Silence(c) EXCEPT !.calls = <<delta>>],
               [said[c] EXCEPT !.calls[k].arguments = @ \o text], Null)
      /\ reported' = reported /\ Open(c)
  BY Zenon DEF Argue
<1>5. [said[c] EXCEPT !.calls[k].arguments = @ \o text] = [said[c] EXCEPT !.calls = calls]
  OBVIOUS
<1>6. delta \in CallDeltas
  BY <1>2 DEF CallDeltas, Maybe
<1> HIDE DEF delta
<1>7. <<delta>> \in Seq(CallDeltas)
  BY <1>6
<1>8. calls \in Seq(Calls)
  <2> HIDE DEF old
  <2>1. k \in 1..Len(old) /\ old[k] \in Calls
    BY <1>1 DEF old
  <2> DEFINE call == old[k]
             new == call.arguments \o text
  <2>2. calls = [old EXCEPT ![k] = [call EXCEPT !.arguments = new]]
    OBVIOUS
  <2>3. call \in Calls
    BY <2>1
  <2> HIDE DEF call
  <2>4. new \in Pieces
    BY <2>3 DEF Calls, Pieces
  <2> HIDE DEF new
  <2>5. [call EXCEPT !.arguments = new] \in Calls
    BY <2>3, <2>4 DEF Calls
  <2> HIDE DEF calls
  <2> QED BY <1>1, <2>1, <2>2, <2>5, Replaced
<1> HIDE DEF calls
<1> QED BY <1>3, <1>4, <1>5, <1>7, <1>8, CallingSays, Zenon DEF old

LEMMA CallAtOnceSays ==
  ASSUME Conversation, NEW c \in DOMAIN said, NEW n \in Nat, NEW name \in Pieces,
         NEW arguments \in Pieces, CallAtOnce(c, n, name, arguments)
  PROVE  Saying(c)
<1> DEFINE delta(k) == [index |-> Null, id |-> k, name |-> name, arguments |-> arguments]
           call(k) == [id |-> k, name |-> name, arguments |-> arguments]
           deltas == [k \in 1..n |-> delta(k)]
           calls == [k \in 1..n |-> call(k)]
<1>1. said[c].calls = << >>
  BY Zenon DEF CallAtOnce
<1>2. calls = AddCalls(said[c].calls, deltas)
  BY <1>1, CallsAtOnce
<1>3. Delta(c, [Silence(c) EXCEPT !.calls = deltas], [said[c] EXCEPT !.calls = calls], Null)
      /\ reported' = reported /\ Open(c)
  BY Zenon DEF CallAtOnce
<1>4. \A k \in 1..n : delta(k) \in CallDeltas /\ call(k) \in Calls
  BY DEF CallDeltas, Calls, Maybe
<1> HIDE DEF delta, call
<1>5. deltas \in Seq(CallDeltas) /\ calls \in Seq(Calls)
  BY <1>4
<1> HIDE DEF deltas, calls
<1> QED BY <1>2, <1>3, <1>5, CallingSays, Zenon

LEMMA EndSays ==
  ASSUME Conversation, NEW c \in DOMAIN said, NEW reason \in Finishes, NEW usage \in Usages,
         EndChoice(c, reason, usage)
  PROVE  Saying(c)
<1> DEFINE m == said[c]
           delta == [Silence(c) EXCEPT !.finish = reason]
           message == [m EXCEPT !.finish = reason]
<1>1. m \in Messages /\ m.index = c /\ c \in Nat
  BY Talking
<1>2. Delta(c, delta, message, usage) /\ reported' = Given(usage, reported) /\ Open(c)
  BY Zenon DEF EndChoice
<1> HIDE DEF m
<1>3. /\ delta \in Deltas /\ delta.index = c /\ delta.content = Null /\ delta.reasoning = Null
      /\ delta.calls = << >> /\ delta.finish = reason
  <2> DEFINE silence == Silence(c)
  <2>1. /\ silence \in Deltas /\ silence.index = c /\ silence.reasoning = Null
        /\ silence.content = Null /\ silence.calls = << >>
    BY <1>1, SilenceFields
  <2> HIDE DEF silence
  <2> QED BY <2>1 DEF Deltas, Ends, Maybe, silence
<1>4. /\ message \in Messages /\ message.index = c /\ message.content = m.content
      /\ message.reasoning = m.reasoning /\ message.calls = m.calls /\ message.finish = reason
  BY <1>1 DEF Messages, Ends, Maybe
<1>5. Given(reason, m.finish) = reason
  BY StreamNullAssumption DEF Given
<1> HIDE DEF delta, message
<1>6. Brief(delta)
  <2>1. Len(<< >>) <= 1
    OBVIOUS
  <2>2. Given(Null, << >>) = << >>
    BY DEF Given
  <2> QED BY <1>3, <2>1, <2>2, Zenon DEF Brief
<1> QED BY <1>1, <1>2, <1>3, <1>4, <1>5, <1>6, SaysNothing, DeltaSays, Zenon DEF m

LEMMA EventSays ==
  ASSUME StreamIInv, NEW c \in DOMAIN said, Event(c)
  PROVE  Saying(c)
<1>1. Conversation /\ all \in Seq(Chunks)
  BY DEF StreamIInv
<1>2. \A text \in {Piece, << >>} : text \in Pieces /\ Len(text) <= 1
  <2>1. Len(all) + 1 \in Nat
    BY <1>1
  <2>2. Piece \in Pieces /\ Len(Piece) = 1 /\ << >> \in Pieces /\ Len(<< >>) = 0
    BY <2>1 DEF Piece, Pieces
  <2>3. Len(Piece) <= 1 /\ Len(<< >>) <= 1
    BY <2>2
  <2> QED BY <2>2, <2>3, Zenon
<1>3. \A n \in 1..MaxCalls : n \in Nat
  BY StreamBoundsAssumption
<1>4. \A usage \in {Null, "usage"} : usage \in Usages
  BY DEF Usages, Maybe
<1>5. \A text \in {Piece, << >>} : Speak(c, text) => Saying(c)
  BY <1>1, <1>2, SpeakSays, Zenon
<1>10. \A thought \in {Piece, << >>}, text \in {Null, Piece} :
         Think(c, thought, text) => Saying(c)
  <2>1. \A text \in {Null, Piece} : text \in Maybe(Pieces) /\ Len(Given(text, << >>)) <= 1
    <3>1. Null \in Maybe(Pieces) /\ Piece \in Maybe(Pieces)
      BY <1>2 DEF Maybe
    <3>2. Given(Null, << >>) = << >> /\ Given(Piece, << >>) \in {Piece, << >>}
      BY DEF Given
    <3> QED BY <1>2, <3>1, <3>2, Zenon
  <2> QED BY <1>1, <1>2, <2>1, ThinkSays, Zenon
<1>6. Call(c, Piece) => Saying(c)
  BY <1>1, <1>2, CallSays, Zenon
<1>7. \A k \in DOMAIN said[c].calls : Argue(c, k, Piece) => Saying(c)
  BY <1>1, <1>2, ArgueSays, Zenon
<1>8. \A n \in 1..MaxCalls : CallAtOnce(c, n, Piece, Piece) => Saying(c)
  BY <1>1, <1>2, <1>3, CallAtOnceSays, Zenon
<1>9. \A reason \in Finishes, usage \in {Null, "usage"} : EndChoice(c, reason, usage) => Saying(c)
  BY <1>1, <1>4, EndSays, Zenon
<1> QED BY <1>5, <1>6, <1>7, <1>8, <1>9, <1>10, Zenon DEF Event

-----------------------------------------------------------------------------
(* Every step keeps the two together.                                       *)

LEMMA StreamStarts == StreamInit => StreamIInv
<1> SUFFICES ASSUME StreamInit PROVE StreamIInv
  OBVIOUS
<1>1. /\ answers \in 1..MaxChoices /\ said = [c \in 0..answers - 1 |-> Silence(c)]
      /\ reported = Null /\ all = << >>
  BY DEF StreamInit
<1>2. answers \in Nat /\ \A c \in 0..answers - 1 : c \in Nat
  BY <1>1, StreamBoundsAssumption
<1>3. /\ said \in [0..answers - 1 -> Messages]
      /\ \A c \in DOMAIN said : said[c] = Silence(c) /\ c \in Nat
  BY <1>1, <1>2, NewChoiceIsSilence
<1>4. \A c \in Nat : Silence(c).index = c /\ Silence(c).role = Null
  BY DEF Silence
<1>5. Conversation
  BY <1>1, <1>2, <1>3, <1>4 DEF Conversation, Usages, Maybe
<1>6. Speakers(0) /\ 0 \in 0..answers
  BY <1>2, <1>3, <1>4 DEF Speakers
<1>7. all \in Seq(Chunks) /\ Len(all) = 0
  BY <1>1
<1>8. FromSse(all) = NewResponse
  <2>1. PICK g \in [0..Len(all) -> Decoded] :
          PutTogether(g, all) /\ FromSse(all) = g[Len(all)]
    BY <1>7, ChunksFold, Zenon
  <2> QED BY <1>7, <2>1 DEF PutTogether
<1>9. Spoken(0) = << >>
  BY <1>5, <1>6, SpokenType DEF SpokenTyped
<1>10. FromSse(all) = [choices |-> Spoken(0), usage |-> reported]
  BY <1>1, <1>8, <1>9 DEF NewResponse
<1> QED BY <1>5, <1>6, <1>7, <1>10, Zenon DEF StreamIInv

LEMMA NothingSaid ==
  ASSUME StreamIInv, UNCHANGED <<answers, said, reported, all>>
  PROVE  StreamIInv'
<1>1. PICK l \in 0..answers :
        Speakers(l) /\ FromSse(all) = [choices |-> Spoken(l), usage |-> reported]
  BY Zenon DEF StreamIInv
<1>2. Conversation'
  BY DEF StreamIInv, Conversation
<1>3. all' \in Seq(Chunks)
  BY DEF StreamIInv
<1>4. Speakers(l)' /\ l \in 0..answers'
  BY <1>1 DEF Speakers
<1>5. Spoken(l)' = Spoken(l)
  BY DEF Spoken
<1>6. FromSse(all') = [choices |-> Spoken(l)', usage |-> reported']
  BY <1>1, <1>5, Zenon
<1> QED BY <1>2, <1>3, <1>4, <1>6, Zenon DEF StreamIInv

-----------------------------------------------------------------------------
(* What is shown.                                                           *)

\* The screen is up to date: it holds what a single choice has said so far.
ShownInv ==
  /\ shown \in Seq(Items)
  /\ thinking \in BOOLEAN
  /\ Screen.mark = IF thinking THEN OpenMark ELSE CloseMark
  /\ Screen.doubled = {}
  /\ answers = 1 /\ ~Open(0) => ~thinking
  /\ answers = 1 /\ Apart =>
       /\ Screen.thoughts = Given(said[0].reasoning, << >>)
       /\ Screen.speech = Given(said[0].content, << >>)
  /\ Len(all) <= MaxEvents

LEMMA ShownStarts == StreamInit => ShownInv
<1> SUFFICES ASSUME StreamInit PROVE ShownInv
  OBVIOUS
<1>1. shown = << >> /\ thinking = FALSE /\ all = << >> /\ answers \in 1..MaxChoices
      /\ said = [c \in 0..answers - 1 |-> Silence(c)]
  BY DEF StreamInit
<1>2. shown \in Seq(Items) /\ Len(shown) = 0
  BY <1>1
<1>3. Screen = Blank
  <2>1. PICK g \in [0..Len(shown) -> Readings] :
          ReadSoFar(g, shown) /\ ScreenOf(shown) = g[Len(shown)]
    BY <1>2, ScreenFold, Zenon
  <2>2. ScreenOf(shown) = Blank
    BY <1>2, <2>1 DEF ReadSoFar
  <2> QED BY <2>2, Zenon DEF Screen, ScreenOf
<1>4. Blank.mark = CloseMark /\ Blank.doubled = {} /\ Blank.thoughts = << >> /\ Blank.speech = << >>
  BY DEF Blank
<1>5. Len(all) <= MaxEvents
  BY <1>1, StreamBoundsAssumption
<1>6. answers = 1 => /\ Given(said[0].reasoning, << >>) = << >>
                     /\ Given(said[0].content, << >>) = << >>
  <2> SUFFICES ASSUME answers = 1 PROVE /\ Given(said[0].reasoning, << >>) = << >>
                                        /\ Given(said[0].content, << >>) = << >>
    OBVIOUS
  <2>1. said[0] = Silence(0)
    BY <1>1
  <2>2. Silence(0).reasoning = Null /\ Silence(0).content = Null
    BY SilenceFields, 0 \in Nat, Zenon
  <2> QED BY <2>1, <2>2, Zenon DEF Given
<1> QED BY <1>1, <1>2, <1>3, <1>4, <1>5, <1>6, Zenon DEF ShownInv

\* What more a message has said when a delta is added to it.
LEMMA SaidMore ==
  ASSUME NEW m \in Messages, NEW d, NEW m2, Says(d, m, m2)
  PROVE  /\ Given(m2.reasoning, << >>) = Given(m.reasoning, << >>) \o Given(d.reasoning, << >>)
         /\ Given(m2.content, << >>) = Given(m.content, << >>) \o Given(d.content, << >>)
<1>1. /\ m.reasoning \in Maybe(Pieces) /\ d.reasoning \in Maybe(Pieces)
      /\ m2.reasoning = AppendedTo(m.reasoning, d.reasoning)
  BY DEF Says, Messages, Deltas
<1>2. Given(m2.content, << >>) = Given(m.content, << >>) \o Given(d.content, << >>)
  BY Zenon DEF Says, Appended
<1> DEFINE old == Given(m.reasoning, << >>)
<1>3. old \in Pieces
  BY <1>1 DEF Given, Maybe, Pieces
<1>4. CASE d.reasoning = Null
  <2>1. m2.reasoning = m.reasoning /\ Given(d.reasoning, << >>) = << >>
    BY <1>1, <1>4, Zenon DEF AppendedTo, Given
  <2> HIDE DEF old
  <2>2. old \o << >> = old
    BY <1>3 DEF Pieces
  <2> QED BY <1>2, <2>1, <2>2, Zenon DEF old
<1>5. CASE d.reasoning # Null
  <2>1. m2.reasoning = old \o d.reasoning /\ Given(d.reasoning, << >>) = d.reasoning
    BY <1>1, <1>5, Zenon DEF AppendedTo, Given
  <2> HIDE DEF old
  <2>2. old \o d.reasoning \in Pieces
    BY <1>1, <1>3, <1>5 DEF Maybe, Pieces
  <2>3. old \o d.reasoning # Null
    BY <2>2, StreamNullAssumption DEF Pieces
  <2>4. Given(m2.reasoning, << >>) = m2.reasoning
    BY <2>1, <2>3, Zenon DEF Given
  <2> QED BY <1>2, <2>1, <2>4, Zenon DEF old
<1> QED BY <1>4, <1>5

LEMMA SayingShown ==
  ASSUME StreamIInv, ShownInv, NEW c \in DOMAIN said, Saying(c)
  PROVE  ShownInv'
<1>1. PICK d, m2, usage :
        /\ Says(d, said[c], m2) /\ Open(c) /\ Showing(d)
        /\ usage \in Usages
        /\ said' = [said EXCEPT ![c] = m2]
        /\ all' = Append(all, [choices |-> <<d>>, usage |-> usage])
        /\ answers' = answers
  BY Zenon DEF Saying
<1>2. Conversation /\ all \in Seq(Chunks)
  BY DEF StreamIInv
<1>3. said[c] \in Messages /\ d \in Deltas
  BY <1>1, <1>2, Talking, Zenon DEF Says
<1>4. Brief(d) /\ shown' = Displayed(d) /\ thinking' = NowThinking(d) /\ Len(all) < MaxEvents
  BY <1>1, Zenon DEF Showing
<1> DEFINE r == Screen
           r2 == ScreenOf(Displayed(d))
<1>5. Displayed(d) \in Seq(Items) /\ DeltaRead(d, r, r2)
  BY <1>3, <1>4, ReadsDelta, Zenon DEF ShownInv
<1>6. Screen' = r2
  BY <1>4, Zenon DEF Screen, ScreenOf
<1> HIDE DEF r2
<1>7. Len(all') <= MaxEvents
  <2> DEFINE l == Len(all)
  <2>1. l \in Nat /\ Len(all') = l + 1
    BY <1>1, <1>2
  <2> HIDE DEF l
  <2>2. l < MaxEvents
    BY <1>4 DEF l
  <2> QED BY <2>1, <2>2, StreamBoundsAssumption
<1>8. (answers = 1 /\ ~Open(0) => ~thinking)'
  <2> SUFFICES ASSUME answers = 1, said'[0].finish # Null PROVE ~thinking'
    BY <1>1, Zenon DEF Open
  <2>1. c = 0
    BY <1>2 DEF Conversation
  <2>2. said'[0] = m2
    BY <1>1, <2>1
  <2>3. m2.finish = Given(d.finish, Null)
    BY <1>1, <2>1, Zenon DEF Says, Open
  <2>4. d.finish # Null
    BY <2>2, <2>3, Zenon DEF Given
  <2>5. d.reasoning = Null
    BY <1>4, <2>4, Zenon DEF Brief
  <2> QED BY <1>4, <2>5, Zenon DEF NowThinking
<1>10. Apart' => Apart /\ Plain(d)
  <2> SUFFICES ASSUME Apart' PROVE Apart /\ Plain(d)
    OBVIOUS
  <2> DEFINE chunk == [choices |-> <<d>>, usage |-> usage]
             l == Len(all)
  <2>1. chunk.choices[1] = d /\ chunk \in Chunks
    BY <1>1, <1>3 DEF Chunks
  <2> HIDE DEF chunk
  <2>2. /\ all' = Append(all, chunk) /\ DOMAIN all = 1..l /\ l \in Nat
        /\ DOMAIN all' = 1..(l + 1) /\ all'[l + 1] = chunk
        /\ \A i \in 1..l : all'[i] = all[i]
    BY <1>1, <1>2, <2>1 DEF chunk
  <2>3. \A i \in 1..(l + 1) : Plain(all'[i].choices[1])
    BY <2>2, Zenon DEF Apart, Plain
  <2> HIDE DEF l
  <2>4. l + 1 \in 1..(l + 1) /\ \A i \in 1..l : i \in 1..(l + 1)
    BY <2>2
  <2>5. Plain(d)
    BY <2>1, <2>2, <2>3, <2>4, Zenon
  <2>6. Apart
    BY <2>2, <2>3, <2>4, Zenon DEF Apart
  <2> QED BY <2>5, <2>6
<1>11. (answers = 1 /\ Apart =>
          /\ Screen.thoughts = Given(said[0].reasoning, << >>)
          /\ Screen.speech = Given(said[0].content, << >>))'
  <2> SUFFICES ASSUME answers = 1, Apart, Plain(d)
               PROVE  /\ Screen'.thoughts = Given(said'[0].reasoning, << >>)
                      /\ Screen'.speech = Given(said'[0].content, << >>)
    BY <1>1, <1>10, Zenon
  <2>1. c = 0
    BY <1>2 DEF Conversation
  <2>2. said'[0] = m2
    BY <1>1, <2>1
  <2>3. r.thoughts = Given(said[0].reasoning, << >>) /\ r.speech = Given(said[0].content, << >>)
    BY Zenon DEF ShownInv
  <2>4. /\ r2.thoughts = r.thoughts \o Given(d.reasoning, << >>)
        /\ r2.speech = r.speech \o Given(d.content, << >>)
    BY <1>5, Zenon DEF DeltaRead
  <2>5. /\ Given(m2.reasoning, << >>)
             = Given(said[0].reasoning, << >>) \o Given(d.reasoning, << >>)
        /\ Given(m2.content, << >>) = Given(said[0].content, << >>) \o Given(d.content, << >>)
    BY <1>1, <1>3, <2>1, SaidMore, Zenon
  <2> HIDE DEF r
  <2> QED BY <1>6, <2>2, <2>3, <2>4, <2>5, Zenon
<1>9. /\ Screen'.mark = IF thinking' THEN OpenMark ELSE CloseMark
      /\ Screen'.doubled = {} /\ thinking' \in BOOLEAN /\ shown' \in Seq(Items)
  <2>1. thinking' \in BOOLEAN
    BY <1>4, Zenon DEF NowThinking
  <2>2. r.doubled = {}
    BY Zenon DEF ShownInv
  <2>3. /\ Screen'.mark = IF NowThinking(d) THEN OpenMark ELSE CloseMark
        /\ Screen'.doubled = {}
    BY <1>5, <1>6, <2>2, Zenon DEF DeltaRead
  <2> QED BY <1>4, <1>5, <2>1, <2>3, Zenon
<1> QED BY <1>7, <1>8, <1>9, <1>11, Zenon DEF ShownInv

LEMMA NothingShown ==
  ASSUME ShownInv, UNCHANGED <<answers, said, all, shown, thinking>>
  PROVE  ShownInv'
BY DEF ShownInv, Screen, Open, Apart

LEMMA StreamGoesOn ==
  StreamIInv /\ ShownInv /\ [StreamNext]_streamVars => StreamIInv' /\ ShownInv'
<1> SUFFICES ASSUME StreamIInv, ShownInv, [StreamNext]_streamVars PROVE StreamIInv' /\ ShownInv'
  OBVIOUS
<1>1. CASE \E c \in DOMAIN said : Event(c)
  BY <1>1, EventSays, SayingIInv, SayingShown, Zenon
<1>2. CASE ReportUsage
  <2> DEFINE chunk == [choices |-> << >>, usage |-> separate']
  <2>1. ParseLine(chunk) /\ UNCHANGED <<answers, said, reported>>
    BY <1>2, Zenon DEF ReportUsage
  <2>2. chunk.choices = << >>
    OBVIOUS
  <2> HIDE DEF chunk
  <2>3. UNCHANGED <<all, shown, thinking>>
    BY <2>1, <2>2, Zenon DEF ParseLine
  <2>4. /\ UNCHANGED <<answers, said, reported, all>>
        /\ UNCHANGED <<answers, said, all, shown, thinking>>
    BY <2>1, <2>3
  <2> QED BY <2>4, NothingSaid, NothingShown, Zenon
<1>3. CASE UNCHANGED streamVars
  <2>1. /\ UNCHANGED <<answers, said, reported, all>>
        /\ UNCHANGED <<answers, said, all, shown, thinking>>
    BY <1>3 DEF streamVars
  <2> QED BY <2>1, NothingSaid, NothingShown, Zenon
<1> QED BY <1>1, <1>2, <1>3, Zenon DEF StreamNext

-----------------------------------------------------------------------------
(* What is put together is the whole answer.                                *)

\* The choices up to l, read as one answer.
LEMMA WholeIsSpoken ==
  ASSUME Conversation, NEW l \in 0..answers
  PROVE  FoldLeft(WholeChoice, << >>, [i \in 1..l |-> said[i - 1]]) = Spoken(l)
<1> DEFINE json == [i \in 1..l |-> said[i - 1]]
<1>1. l \in Nat /\ \A i \in 1..l : i - 1 \in 0..answers - 1
  BY DEF Conversation
<1>2. \A i \in 1..l : said[i - 1] \in Messages /\ said[i - 1].index = i - 1
  BY <1>1 DEF Conversation
<1>3. json \in [1..l -> Messages] /\ \A i \in 1..l : json[i] = said[i - 1]
  BY <1>2
<1> HIDE DEF json
<1>4. json \in Seq(Messages) /\ Len(json) = l
  BY <1>1, <1>3
<1>5. PICK g \in [0..l -> Seq(ChoiceRecords)] :
        /\ g[0] = << >>
        /\ \A k \in 1..l : g[k] = WholeChoice(g[k - 1], json[k])
        /\ FoldLeft(WholeChoice, << >>, json) = g[l]
  BY <1>4, ChoicesFold
<1>6. \A k \in 0..l : k \in 0..answers
  BY DEF Conversation
<1> DEFINE A == {k \in 0..l : g[k] = Spoken(k)}
<1>7. 0 \in A
  <2>1. 0 \in 0..l
    BY <1>1
  <2>2. Spoken(0) = << >>
    BY <1>6, <2>1, SpokenType DEF SpokenTyped
  <2> QED BY <1>5, <2>1, <2>2
<1>8. ASSUME NEW k \in 0..l - 1, k \in A PROVE k + 1 \in A
  <2> DEFINE s == Spoken(k)
             p == Parsed(said[k])
             put == PutAt(s, k + 1, p)
  <2>1. /\ k + 1 \in 1..l /\ k + 1 \in 0..l /\ (k + 1) - 1 = k /\ k + 1 \in Nat \ {0} /\ k \in 0..l
        /\ k \in Nat
    BY <1>1
  <2>2. s \in Seq(ChoiceRecords) /\ Len(s) = k /\ \A i \in 1..k : s[i] = Parsed(said[i - 1])
    BY <1>6, <2>1, SpokenType, Zenon DEF SpokenTyped
  <2>3. said[k] \in Messages /\ said[k].index = k
    BY <1>2, <2>1
  <2>4. p \in ChoiceRecords
    BY <2>3, ParsedMessage
  <2>5. g[k + 1] = WholeChoice(s, said[k])
    BY <1>3, <1>5, <1>8, <2>1
  <2>6. g[k + 1] = put
    BY <2>2, <2>3, <2>5, WholeChoiceType, Zenon
  <2>7. put \in Seq(ChoiceRecords) /\ Stands(put, s, k + 1, p)
    BY <2>1, <2>2, <2>4, PutAtPlace, Zenon
  <2>8. /\ Spoken(k + 1) \in Seq(ChoiceRecords) /\ Len(Spoken(k + 1)) = k + 1
        /\ \A i \in 1..k + 1 : Spoken(k + 1)[i] = Parsed(said[i - 1])
    BY <1>6, <2>1, SpokenType, Zenon DEF SpokenTyped
  <2> HIDE DEF s, p, put
  <2>9. Len(put) = k + 1 /\ put[k + 1] = p
    <3>1. k + 1 > Len(s)
      BY <2>1, <2>2
    <3> QED BY <2>7, <3>1, Zenon DEF Stands
  <2>10. ASSUME NEW i \in 1..k + 1 PROVE put[i] = Spoken(k + 1)[i]
    <3>1. CASE i = k + 1
      BY <2>1, <2>8, <2>9, <3>1 DEF p
    <3>2. CASE i # k + 1
      <4>1. i \in 1..k /\ i <= Len(s)
        BY <2>1, <2>2, <3>2
      <4>2. put[i] = ChoiceAt(s, i)
        BY <2>7, <2>9, <3>2, Zenon DEF Stands
      <4> QED BY <2>2, <2>8, <4>1, <4>2, Zenon DEF ChoiceAt
    <3> QED BY <3>1, <3>2
  <2>11. put = Spoken(k + 1)
    BY <2>7, <2>8, <2>9, <2>10, SeqEqual
  <2> QED BY <2>1, <2>6, <2>11
<1>9. l \in A
  <2> HIDE DEF A
  <2>1. l \in 0..l
    BY <1>1
  <2> QED BY <1>1, <1>7, <1>8, <2>1, UpTo, Zenon
<1> QED BY <1>5, <1>9, Zenon DEF json

\* The last choice that has said something is the last of the whole answer.
LEMMA WholeIsUpTo ==
  ASSUME Conversation, NEW l \in 0..answers, Speakers(l)
  PROVE  Whole = [choices |-> [i \in 1..l |-> said[i - 1]], usage |-> reported]
<1> DEFINE spoken == {c \in DOMAIN said : said[c].role # Null}
           greatest == CHOOSE c \in spoken : \A d \in spoken : d <= c
           last == IF spoken = {} THEN 0 ELSE greatest + 1
<1>1. answers \in Nat /\ l \in Nat /\ DOMAIN said = 0..answers - 1
  BY DEF Conversation
<1>2. last = l
  <2>1. CASE l = 0
    <3>1. \A c \in DOMAIN said : ~(c < 0)
      BY <1>1
    <3>2. spoken = {}
      BY <2>1, <3>1, Zenon DEF Speakers
    <3> QED BY <2>1, <3>2
  <2>2. CASE l # 0
    <3>1. l > 0 /\ l - 1 \in DOMAIN said
      BY <1>1, <2>2
    <3>2. l - 1 \in spoken
      BY <3>1, Zenon DEF Speakers
    <3>3. \A d \in spoken : d \in DOMAIN said /\ d < l
      BY Zenon DEF Speakers
    <3>4. \A d \in spoken : d \in Nat /\ d <= l - 1
      BY <1>1, <3>3
    <3> HIDE DEF spoken
    <3>5. greatest \in spoken /\ \A d \in spoken : d <= greatest
      <4>1. \E c \in spoken : \A d \in spoken : d <= c
        BY <3>2, <3>4, Zenon
      <4> QED BY <4>1, Zenon
    <3> HIDE DEF greatest
    <3>6. greatest \in Nat /\ greatest <= l - 1 /\ l - 1 <= greatest
      BY <3>2, <3>4, <3>5, Zenon
    <3>7. greatest + 1 = l
      BY <1>1, <3>6
    <3>8. spoken # {}
      BY <3>2
    <3> QED BY <3>7, <3>8
  <2> QED BY <2>1, <2>2
<1>3. Whole = [choices |-> [i \in 1..last |-> said[i - 1]], usage |-> reported]
  BY Zenon DEF Whole
<1> HIDE DEF last
<1> QED BY <1>2, <1>3, Zenon

LEMMA StreamedAndWhole == StreamIInv => StreamedIsWhole
<1> SUFFICES ASSUME StreamIInv PROVE StreamedIsWhole
  OBVIOUS
<1>1. Conversation
  BY DEF StreamIInv
<1>2. PICK l \in 0..answers :
        Speakers(l) /\ FromSse(all) = [choices |-> Spoken(l), usage |-> reported]
  BY Zenon DEF StreamIInv
<1> DEFINE json == [i \in 1..l |-> said[i - 1]]
<1>3. FoldLeft(WholeChoice, << >>, json) = Spoken(l)
  BY <1>1, WholeIsSpoken, Zenon
<1>4. Whole = [choices |-> json, usage |-> reported]
  BY <1>1, <1>2, WholeIsUpTo, Zenon
<1> HIDE DEF json
<1>5. Whole.choices = json /\ Whole.usage = reported
  BY <1>4
<1>6. FromJson(Whole) = [choices |-> Spoken(l), usage |-> reported]
  BY <1>3, <1>5, Zenon DEF FromJson
<1> QED BY <1>2, <1>6, Zenon DEF StreamedIsWhole

LEMMA StreamInvariance == StreamSpec => [](StreamIInv /\ ShownInv)
<1>1. StreamInit => StreamIInv /\ ShownInv
  BY StreamStarts, ShownStarts
<1>2. StreamIInv /\ ShownInv /\ [StreamNext]_streamVars => StreamIInv' /\ ShownInv'
  BY StreamGoesOn
<1> QED BY <1>1, <1>2, PTL DEF StreamSpec

(***************************************************************************)
(* The mark that is shown last tells whether the model is thinking         *)
(* (response.cc 254-273), for any number of choices.                       *)
(***************************************************************************)
THEOREM StreamTypes == StreamSpec => []StreamTypeOK
<1>1. StreamIInv /\ ShownInv => StreamTypeOK
  BY Zenon DEF StreamIInv, Conversation, ShownInv, StreamTypeOK
<1> QED BY <1>1, StreamInvariance, PTL

(***************************************************************************)
(* At every point of a stream the chunks put together are what the same    *)
(* message would have been, had it come as a whole (response.cc 160-216    *)
(* against 100-158): whatever the order in which choices and calls take    *)
(* turns, and for any number of them.                                      *)
(***************************************************************************)
THEOREM StreamsAddUp == StreamSpec => []StreamedIsWhole
<1>1. StreamIInv => StreamedIsWhole
  BY StreamedAndWhole
<1> QED BY <1>1, StreamInvariance, PTL

(***************************************************************************)
(* What parse_line shows (241-289) are the thoughts of a single choice     *)
(* between marks and its content outside, in full and in order, as long as *)
(* no delta brings both; marks alternate, and none is open when the choice *)
(* has finished.                                                           *)
(***************************************************************************)
THEOREM SaidIsShown == StreamSpec => []ShownIsSaid
<1>1. ShownInv => ShownIsSaid
  BY Zenon DEF ShownInv, ShownIsSaid
<1> QED BY <1>1, StreamInvariance, PTL
=============================================================================
