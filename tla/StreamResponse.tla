--------------------------- MODULE StreamResponse ---------------------------
(***************************************************************************)
(* The decoding of answers (response.cc): a server streams an answer as    *)
(* deltas, the client shows their text as they come in, keeps the chunks   *)
(* and puts them together when the stream ends.                            *)
(*                                                                         *)
(* The SSE decoder is external: it turns the bytes, however they are cut,  *)
(* into events, so that a step here is one event.  Texts are sequences of  *)
(* pieces, and the piece that comes with the n-th event is n.  The index   *)
(* of a choice is its place; the field index, which nobody reads, is left  *)
(* out.                                                                    *)
(***************************************************************************)
EXTENDS Naturals, Sequences, SequencesExt

CONSTANTS
  Finishes,    \* finish reasons
  Null,        \* a value that is null or absent in the JSON
  MaxChoices,  \* BOUND: choices of an answer
  MaxCalls,    \* BOUND: tool calls of a choice
  MaxEvents    \* BOUND: events of a stream

ASSUME StreamBoundsAssumption == MaxChoices \in Nat \ {0} /\ MaxCalls \in Nat
                                       /\ MaxEvents \in Nat

ASSUME StreamNullAssumption ==
  Null \notin Seq(Nat) \cup Nat \cup Finishes \cup {"assistant", "usage"}

VARIABLES
  answers,   \* ghost: choices the server answers with
  said,      \*   what each of them has said so far, as one JSON message
  reported,  \*   the usage the server has reported with a choice
  separate,  \*   the usage it has reported in a chunk of its own
  all,       \* all_json_data_
  shown,     \* the text shown, with the marks of thinking
  thinking   \* is_started_reasoning_content_

streamVars == <<answers, said, reported, separate, all, shown, thinking>>

OpenMark == <<"open">>
CloseMark == <<"close">>
Shown(text) == [i \in DOMAIN text |-> <<"text", text[i]>>]

-----------------------------------------------------------------------------
(***************************************************************************)
(* Messages.                                                               *)
(***************************************************************************)
NewCall == [id |-> Null, name |-> << >>, arguments |-> << >>]

NewChoice == [role |-> Null, content |-> << >>, reasoning |-> Null,
              calls |-> << >>, finish |-> Null]

NewResponse == [choices |-> << >>, usage |-> Null]

Given(value, default) == IF value = Null THEN default ELSE value

\* vector::resize, when it grows.
Grown(s, n, element) ==
  [i \in 1..(IF n > Len(s) THEN n ELSE Len(s)) |->
     IF i <= Len(s) THEN s[i] ELSE element]

\* append_string: to a string, and to an optional one.
Appended(text, more) == text \o Given(more, << >>)

AppendedTo(optional, more) ==
  IF more = Null THEN optional ELSE Given(optional, << >>) \o more

-----------------------------------------------------------------------------
(***************************************************************************)
(* from_sse_json (160-216): the chunks of a stream, put together.          *)
(***************************************************************************)
\* Mutant of PlaceOf: only the place in the delta counts.
PlaceInDelta(delta, index) == index

\* A call without an index follows the one before it in the same delta.
PlaceOf(delta, index) == Given(delta.index, index)

AddCall(state, delta) ==
  LET k == PlaceOf(delta, state.index) + 1
      calls == Grown(state.calls, k, NewCall)
      call == [id |-> Given(delta.id, calls[k].id),
               name |-> Appended(calls[k].name, delta.name),
               arguments |-> Appended(calls[k].arguments, delta.arguments)]
  IN  [calls |-> [calls EXCEPT ![k] = call], index |-> k]

AddCalls(calls, deltas) ==
  FoldLeft(AddCall, [calls |-> calls, index |-> 0], deltas).calls

Merged(old, delta) ==
  [role |-> Given(delta.role, old.role),
   content |-> Appended(old.content, delta.content),
   reasoning |-> AppendedTo(old.reasoning, delta.reasoning),
   calls |-> AddCalls(old.calls, delta.calls),
   finish |-> Given(delta.finish, old.finish)]

AddDelta(choices, delta) ==
  LET i == delta.index + 1
  IN  [Grown(choices, i, NewChoice) EXCEPT ![i] = Merged(@, delta)]

AddChunk(response, chunk) ==
  [choices |-> FoldLeft(AddDelta, response.choices, chunk.choices),
   usage |-> Given(chunk.usage, response.usage)]

FromSse(chunks) == FoldLeft(AddChunk, NewResponse, chunks)

(***************************************************************************)
(* from_json (100-158): an answer that comes as a whole.  A call without a *)
(* function is skipped.                                                    *)
(***************************************************************************)
WholeCall(call) ==
  [id |-> call.id, name |-> Given(call.name, << >>),
   arguments |-> Given(call.arguments, << >>)]

Parsed(json) ==
  [role |-> json.role,
   content |-> Given(json.content, << >>),
   reasoning |-> json.reasoning,
   calls |-> [k \in 1..Len(json.calls) |-> WholeCall(json.calls[k])],
   finish |-> json.finish]

WholeChoice(choices, json) ==
  LET i == json.index + 1
  IN  [Grown(choices, i, NewChoice) EXCEPT ![i] = Parsed(json)]

FromJson(json) ==
  [choices |-> FoldLeft(WholeChoice, << >>, json.choices),
   usage |-> json.usage]

-----------------------------------------------------------------------------
(***************************************************************************)
(* parse_line (241-289), for one event.  Only the text of the first choice *)
(* in the chunk is shown, and a chunk without choices is dropped.          *)
(***************************************************************************)
Marks(delta) ==
  IF delta.reasoning # Null
  THEN IF thinking THEN << >> ELSE <<OpenMark>>
  ELSE IF thinking THEN <<CloseMark>> ELSE << >>

\* Mutant of NowThinking: it is never over.
StillThinking(delta) == thinking \/ delta.reasoning # Null

NowThinking(delta) == delta.reasoning # Null

ParseLine(chunk) ==
  IF chunk.choices = << >>
  THEN UNCHANGED <<all, shown, thinking>>
  ELSE LET delta == chunk.choices[1]
       IN  /\ shown' = shown \o Marks(delta)
                        \o Shown(Given(delta.reasoning, << >>))
                        \o Shown(Given(delta.content, << >>))
           /\ thinking' = NowThinking(delta)
           /\ all' = Append(all, chunk)

-----------------------------------------------------------------------------
(***************************************************************************)
(* The server.  It thinks, speaks or calls tools, and finishes; what       *)
(* several choices say may alternate, and so may the arguments of several  *)
(* calls.  The first delta of a choice holds its role.                     *)
(***************************************************************************)
Silence(c) == [index |-> c, role |-> Null, content |-> Null,
               reasoning |-> Null, calls |-> << >>, finish |-> Null]

\* A delta of choice c, which changes what it has said.
Delta(c, delta, message, usage) ==
  /\ Len(all) < MaxEvents                               \* BOUND
  /\ said' = [said EXCEPT ![c] = [message EXCEPT !.role = "assistant"]]
  /\ ParseLine([choices |->
                   <<[delta EXCEPT !.role = IF said[c].role = Null
                                            THEN "assistant" ELSE Null]>>,
                usage |-> usage])
  /\ UNCHANGED <<answers, separate>>

Open(c) == said[c].finish = Null

\* A thought may come at any time, also in one delta with something said.
Think(c, thought, text) ==
  /\ Open(c)
  /\ Delta(c, [Silence(c) EXCEPT !.reasoning = thought, !.content = text],
           [said[c] EXCEPT !.reasoning = AppendedTo(@, thought),
                           !.content = AppendedTo(@, text)], Null)
  /\ UNCHANGED reported

Speak(c, text) ==
  /\ Open(c)
  /\ Delta(c, [Silence(c) EXCEPT !.content = text],
           [said[c] EXCEPT !.content = AppendedTo(@, text)], Null)
  /\ UNCHANGED reported

\* A new call, and later more of its arguments.
Call(c, name) ==
  LET k == Len(said[c].calls)
      delta == [index |-> k, id |-> k, name |-> name, arguments |-> << >>]
  IN
  /\ Open(c)
  /\ k < MaxCalls                                       \* BOUND
  /\ Delta(c, [Silence(c) EXCEPT !.calls = <<delta>>],
           [said[c] EXCEPT !.calls =
              Append(@, [id |-> k, name |-> name, arguments |-> << >>])], Null)
  /\ UNCHANGED reported

Argue(c, k, text) ==
  LET delta == [index |-> k - 1, id |-> Null, name |-> Null,
                arguments |-> text]
  IN
  /\ Open(c)
  /\ Delta(c, [Silence(c) EXCEPT !.calls = <<delta>>],
           [said[c] EXCEPT !.calls[k].arguments = @ \o text], Null)
  /\ UNCHANGED reported

\* Some servers send all calls in one delta, whole and without an index.
CallAtOnce(c, n, name, arguments) ==
  LET call(k) == [id |-> k, name |-> name, arguments |-> arguments]
      delta(k) == [index |-> Null, id |-> k, name |-> name,
                   arguments |-> arguments]
  IN
  /\ Open(c)
  /\ said[c].calls = << >>
  /\ Delta(c, [Silence(c) EXCEPT !.calls = [k \in 1..n |-> delta(k)]],
           [said[c] EXCEPT !.calls = [k \in 1..n |-> call(k)]], Null)
  /\ UNCHANGED reported

\* Usage comes with the last delta, in a chunk of its own, or not at all.
EndChoice(c, reason, usage) ==
  /\ Open(c)
  /\ Delta(c, [Silence(c) EXCEPT !.finish = reason],
           [said[c] EXCEPT !.finish = reason], usage)
  /\ reported' = Given(usage, reported)

ReportUsage ==
  /\ \A c \in DOMAIN said : ~Open(c)
  /\ reported = Null /\ separate = Null
  /\ separate' = "usage"
  /\ ParseLine([choices |-> << >>, usage |-> separate'])
  /\ UNCHANGED <<answers, said, reported>>

-----------------------------------------------------------------------------
StreamInit ==
  /\ answers \in 1..MaxChoices
  /\ said = [c \in 0..(answers - 1) |-> Silence(c)]
  /\ reported = Null
  /\ separate = Null
  /\ all = << >>
  /\ shown = << >>
  /\ thinking = FALSE

Piece == <<Len(all) + 1>>

Event(c) ==
  \/ \E thought \in {Piece, << >>}, text \in {Null, Piece} :
       Think(c, thought, text)
  \/ \E text \in {Piece, << >>} : Speak(c, text)
  \/ Call(c, Piece)
  \/ \E k \in DOMAIN said[c].calls : Argue(c, k, Piece)
  \/ \E n \in 1..MaxCalls : CallAtOnce(c, n, Piece, Piece)
  \/ \E reason \in Finishes, usage \in {Null, "usage"} :
       EndChoice(c, reason, usage)

StreamNext == (\E c \in DOMAIN said : Event(c)) \/ ReportUsage

StreamSpec == StreamInit /\ [][StreamNext]_streamVars

-----------------------------------------------------------------------------
(***************************************************************************)
(* Properties.                                                             *)
(*                                                                         *)
(* The screen, read piece by piece: what stands between marks is thought,  *)
(* the rest is said.  A mark that comes twice in a row is doubled.         *)
(***************************************************************************)
Blank == [mark |-> CloseMark, doubled |-> {}, thoughts |-> << >>, speech |-> << >>]

ReadOn(screen, t) ==
  IF t \in {OpenMark, CloseMark}
  THEN [screen EXCEPT !.mark = t,
                      !.doubled = IF screen.mark = t THEN @ \cup {t} ELSE @]
  ELSE IF screen.mark = OpenMark
       THEN [screen EXCEPT !.thoughts = Append(@, t[2])]
       ELSE [screen EXCEPT !.speech = Append(@, t[2])]

Screen == FoldLeft(ReadOn, Blank, shown)

(***************************************************************************)
(* The mark that is shown last says whether the model is thinking          *)
(* (254-273).                                                              *)
(***************************************************************************)
StreamTypeOK ==
  /\ answers \in 1..MaxChoices
  /\ Len(all) <= MaxEvents
  /\ thinking \in BOOLEAN
  /\ Screen.mark = IF thinking THEN OpenMark ELSE CloseMark

(***************************************************************************)
(* At any point the chunks put together are what the same message would    *)
(* have been, had it come as a whole (from_sse_json against from_json).    *)
(***************************************************************************)
Whole ==
  LET spoken == {c \in DOMAIN said : said[c].role # Null}
      last == IF spoken = {} THEN 0
              ELSE (CHOOSE c \in spoken : \A d \in spoken : d <= c) + 1
  IN  [choices |-> [i \in 1..last |-> said[i - 1]], usage |-> reported]

StreamedIsWhole == FromSse(all) = FromJson(Whole)

(***************************************************************************)
(* Marks alternate, and behind an answer with one choice no mark is open.  *)
(* Such an answer is shown in full and in order, its thoughts between      *)
(* marks and its content outside, however often it goes from one to the    *)
(* other, as long as no delta brings both: what that one says is shown     *)
(* inside the marks (254-277).                                             *)
(***************************************************************************)
Plain(delta) == delta.reasoning = Null \/ Given(delta.content, << >>) = << >>
Apart == \A i \in DOMAIN all : Plain(all[i].choices[1])

ShownIsSaid ==
  /\ Screen.doubled = {}
  /\ answers = 1 /\ ~Open(0) => Screen.mark = CloseMark
  /\ answers = 1 /\ Apart =>
       /\ Screen.thoughts = Given(said[0].reasoning, << >>)
       /\ Screen.speech = Given(said[0].content, << >>)

(***************************************************************************)
(* The same of every delta.  It does not hold: content that comes in one   *)
(* delta with a thought, even an empty one, is shown inside the marks,     *)
(* because parse_line closes them only in a delta without thoughts.        *)
(***************************************************************************)
SpeechShownOutside ==
  answers = 1 => Screen.speech = Given(said[0].content, << >>)

(***************************************************************************)
(* Usage that the server reports is known (args.cc 193-195).               *)
(***************************************************************************)
UsageKnown == separate # Null => FromSse(all).usage = separate
=============================================================================
