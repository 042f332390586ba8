---------------------------- MODULE CommandTools ----------------------------
(***************************************************************************)
(* The tools that run a command (bash, cmd, powershell, execute_command)   *)
(* and the one that asks the user (ask_user), the terminal they ask on,    *)
(* the filter they apply to the output, and the list call_tool() finds     *)
(* them in.  bash.cc, cmd.cc and powershell.cc have the same control, and  *)
(* one set of actions stands for the three.                                *)
(*                                                                         *)
(* Four actors: the session that makes one call after another, the user    *)
(* who types lines and may hang up, the child process, and the clock.      *)
(* The subprocess library is external: it is used to run a child, to       *)
(* capture its output, and to kill it once its timeout is over.            *)
(***************************************************************************)
EXTENDS Integers, Sequences, SequencesExt

CONSTANTS
    Line,           \* the contents a line of output can have
    Outputs,        \* the texts a child may write: sequences of lines
    Timeouts,       \* the finite timeouts a call may ask for, in seconds
    Filters,        \* the filters a call may ask for: sequences of filters
    MaxTime,        \* the clock stops counting here
    Options         \* how many options ask_user offers

ASSUME BoundsAssumption ==
    /\ Timeouts \subseteq 0..MaxTime
    /\ MaxTime \in Nat /\ Options \in Nat \ {0}
    /\ Outputs \subseteq Seq(Line)

Infinite == -1

VARIABLES
    flag,           \* "yes" or "no", the last of --yes and --no, or "none"
    tty,            \* "none", "open", or "ended": reads give end of file
    registered,     \* the names of functions()
    request,        \* the call being served
    phase,          \* "idle", "asking", "menu", "running" or "answered"
    typed,          \* the line the user has typed and no one has read
    child,          \* what became of the child process
    elapsed,        \* seconds since the child was started
    answer,         \* what the call returned to the session
    started,        \* ghost: how many processes this call started
    said            \* ghost: what confirm() was told last

commandVars == <<flag, tty, registered, request, phase, typed, child, elapsed, answer,
                 started, said>>
terminal == <<tty, typed>>
process == <<child, elapsed, started>>
fixed == <<flag, registered>>

Shells == {"bash", "cmd", "powershell"}
Commands == Shells \cup {"execute_command"}
Tools == Commands \cup {"ask_user"}

\* A pattern is the set of the lines it is found in, if std::regex takes it.
Filter ==
    [by : {"include", "exclude"}, lines : SUBSET Line, wellFormed : BOOLEAN]
    \cup [by : {"head", "tail"}, count : Int]

ASSUME FiltersAssumption == Filters \subseteq Seq(Filter)

NoCall == [tool |-> "none", confirm |-> FALSE, timeout |-> Infinite, filters |-> <<>>]
NoLine == [word |-> "none", number |-> 0]
Typable == {[word |-> w, number |-> 0] : w \in {"empty", "yes", "no", "other"}}
           \cup {[word |-> "number", number |-> n] : n \in 0..Options + 1}

NoChild == [status |-> "none", code |-> 0, out |-> <<>>, err |-> <<>>]
Replied(kind) == [kind |-> kind, out |-> <<>>, err |-> <<>>, timedOut |-> FALSE, choice |-> 0]

-----------------------------------------------------------------------------
(* filter_lines()                                                           *)

\* What std::erase_if leaves of the lines when it takes away what is not in S.
Selected(lines, S) ==
    FoldLeft(LAMBDA left, l : IF l \in S THEN Append(left, l) ELSE left, <<>>, lines)

\* Mutant of Kept: the tail has one line too many.
KeptOneMore(lines, filter) ==
    CASE filter.by = "exclude" -> Selected(lines, Line \ filter.lines)
      [] filter.by = "include" -> Selected(lines, filter.lines)
      [] filter.by = "head" ->
            IF filter.count \in 0..Len(lines) - 1 THEN SubSeq(lines, 1, filter.count) ELSE lines
      [] filter.by = "tail" ->
            IF filter.count \in 0..Len(lines) - 1
            THEN SubSeq(lines, Len(lines) - filter.count, Len(lines)) ELSE lines

Kept(lines, filter) ==
    CASE filter.by = "exclude" -> Selected(lines, Line \ filter.lines)
      [] filter.by = "include" -> Selected(lines, filter.lines)
      [] filter.by = "head" ->
            IF filter.count \in 0..Len(lines) - 1 THEN SubSeq(lines, 1, filter.count) ELSE lines
      [] filter.by = "tail" ->
            IF filter.count \in 0..Len(lines) - 1
            THEN SubSeq(lines, Len(lines) - filter.count + 1, Len(lines)) ELSE lines

HasPattern(filter) == filter.by \in {"include", "exclude"}

\* std::regex throws, but an empty text returns before any pattern is looked at.
FilterThrows(text, filters) ==
    text # <<>> /\ \E i \in DOMAIN filters : HasPattern(filters[i]) /\ ~filters[i].wellFormed

FilterLines(text, filters) == FoldLeft(Kept, text, filters)

-----------------------------------------------------------------------------
(* The list of functions.                                                   *)

\* enabled(): cmd and powershell are for Windows, ask_user needs a terminal.
\* bash is there on Unix, and on Windows if it is found.
Enabled(windows, terminalThere) ==
    {"execute_command"}
    \cup (IF windows THEN {"cmd", "powershell"} ELSE {"bash"})
    \cup (IF terminalThere THEN {"ask_user"} ELSE {})

\* chat_args.confirm_default_yes: --no only sets what it is without any flag.
defaultYes == flag = "yes"

CommandInit ==
    /\ flag \in {"none", "yes", "no"}
    /\ tty \in {"none", "open"}
    /\ \E windows \in BOOLEAN :
        \/ registered = Enabled(windows, tty = "open")
        \/ windows /\ registered = Enabled(windows, tty = "open") \cup {"bash"}
    /\ request = NoCall
    /\ phase = "idle"
    /\ typed = NoLine
    /\ child = NoChild
    /\ elapsed = 0
    /\ answer = Replied("none")
    /\ started = 0
    /\ said = "nothing"

Return(reply) == phase' = "answered" /\ answer' = reply

Begin(tool, confirm, timeout, filters) ==
    /\ phase = "idle"
    /\ request' = [tool |-> tool, confirm |-> confirm, timeout |-> timeout, filters |-> filters]
    /\ UNCHANGED <<fixed, terminal, said>>

\* call_tool() with a name that is not in the list, and a tool whose arguments
\* are no object, lack what is required, or have it in the wrong type.
CallRefused(tool, kind) ==
    /\ kind = IF tool \in registered THEN "invalid" ELSE "not found"
    /\ Begin(tool, FALSE, Infinite, <<>>)
    /\ Return(Replied(kind))
    /\ UNCHANGED process

\* subprocess::run() with its start time.
Start ==
    /\ phase' = "running"
    /\ child' = [NoChild EXCEPT !.status = "running"]
    /\ elapsed' = 0
    /\ started' = started + 1

CallCommand(tool, confirm, timeout, filters) ==
    /\ tool \in registered \cap Commands
    /\ Begin(tool, confirm, timeout, filters)
    /\ IF confirm THEN phase' = "asking" /\ UNCHANGED process ELSE Start
    /\ UNCHANGED answer

\* The terminal was there when ask_user was registered; it is asked again.
CallAskUser ==
    /\ "ask_user" \in registered
    /\ Begin("ask_user", FALSE, Infinite, <<>>)
    /\ IF tty = "none" THEN Return(Replied("no terminal"))
                       ELSE phase' = "menu" /\ UNCHANGED answer
    /\ UNCHANGED process

-----------------------------------------------------------------------------
(* The terminal.                                                            *)

UserTypes(line) ==
    /\ tty = "open" /\ typed = NoLine
    /\ phase \in {"asking", "menu"}
    /\ typed' = line
    /\ UNCHANGED <<fixed, request, phase, tty, process, answer, said>>

HangUp ==
    /\ tty = "open"
    /\ tty' = "ended"
    /\ UNCHANGED <<fixed, request, phase, typed, process, answer, said>>

\* Mutant of ReadLine: it waits at the end of the file, too.
ReadLineWaits(line) ==
    /\ typed # NoLine /\ line = typed.word
    /\ typed' = NoLine
    /\ UNCHANGED tty

\* read_line() waits for a line; at the end of file, and with no terminal, it
\* gives an empty one at once.
ReadLine(line) ==
    /\ \/ typed # NoLine /\ line = typed.word
       \/ typed = NoLine /\ tty # "open" /\ line = "empty"
    /\ typed' = NoLine
    /\ UNCHANGED tty

\* Mutant of ConfirmReads: an empty answer is a yes, whatever the default.
EmptyIsYes ==
    /\ phase = "asking"
    /\ \E line \in {"empty", "yes", "no", "other", "number"} :
        /\ ReadLine(line)
        /\ said' = IF line \in {"yes", "no"} THEN line ELSE IF line = "empty" THEN "nothing" ELSE said
        /\ IF line \in {"yes", "empty"}
           THEN Start /\ UNCHANGED answer
           ELSE /\ UNCHANGED process
                /\ IF line = "no" THEN Return(Replied("cancelled")) ELSE UNCHANGED <<phase, answer>>
    /\ UNCHANGED <<fixed, request>>

\* One round of the loop in confirm(), and what the tool does with the answer.
ConfirmReads ==
    /\ phase = "asking"
    /\ \E line \in {"empty", "yes", "no", "other", "number"} :
        /\ ReadLine(line)
        /\ said' = IF line \in {"yes", "no"} THEN line ELSE IF line = "empty" THEN "nothing" ELSE said
        /\ IF line = "yes" \/ (line = "empty" /\ defaultYes)
           THEN Start /\ UNCHANGED answer
           ELSE /\ UNCHANGED process
                /\ IF line \in {"no", "empty"} THEN Return(Replied("cancelled"))
                                               ELSE UNCHANGED <<phase, answer>>
    /\ UNCHANGED <<fixed, request>>

\* One round of the loop in menu(): std::stoul throws on what is no number.
MenuReads ==
    /\ phase = "menu"
    /\ \E line \in {"empty", "yes", "no", "other", "number"} : ReadLine(line)
    /\ IF typed.word = "number" /\ typed.number \in 1..Options
       THEN Return([Replied("selected") EXCEPT !.choice = typed.number])
       ELSE UNCHANGED <<phase, answer>>
    /\ UNCHANGED <<fixed, request, process, said>>

-----------------------------------------------------------------------------
(* The child.                                                               *)

ChildRuns == phase = "running" /\ child.status = "running"

ChildExits(code, out, err) ==
    /\ ChildRuns
    /\ child' = [status |-> "exited", code |-> code, out |-> out, err |-> err]
    /\ UNCHANGED <<fixed, request, phase, terminal, elapsed, started, answer, said>>

\* The library kills the child's group at the timeout; it has written some.
ChildKilled(out, err) ==
    /\ ChildRuns
    /\ request.timeout # Infinite /\ elapsed >= request.timeout
    /\ child' = [status |-> "killed", code |-> 1, out |-> out, err |-> err]
    /\ UNCHANGED <<fixed, request, phase, terminal, elapsed, started, answer, said>>

\* Time also passes between the child's end and the second look at the clock.
Tick ==
    /\ phase = "running"
    /\ elapsed < MaxTime
    /\ elapsed' = elapsed + 1
    /\ UNCHANGED <<fixed, request, phase, terminal, child, started, answer, said>>

\* Mutant of TimedOut: off by one.
TimedOutLate ==
    child.code # 0 /\ request.timeout # Infinite /\ elapsed > request.timeout

TimedOut ==
    child.code # 0 /\ request.timeout # Infinite /\ elapsed >= request.timeout

\* The text is cut down and put together.  A pattern that is refused throws,
\* out of the tool, into the handler around call_tool().
Report ==
    /\ phase = "running" /\ child.status \in {"exited", "killed"}
    /\ IF FilterThrows(child.out, request.filters) \/ FilterThrows(child.err, request.filters)
       THEN Return(Replied("tool error"))
       ELSE Return([Replied("result") EXCEPT
                        !.out = FilterLines(child.out, request.filters),
                        !.err = FilterLines(child.err, request.filters),
                        !.timedOut = TimedOut])
    /\ UNCHANGED <<fixed, request, terminal, process, said>>

\* The session keeps the answer in its history and goes on.
TakeAnswer ==
    /\ phase = "answered"
    /\ phase' = "idle"
    /\ request' = NoCall /\ child' = NoChild /\ elapsed' = 0 /\ answer' = Replied("none")
    /\ started' = 0 /\ said' = "nothing"
    /\ UNCHANGED <<fixed, terminal>>

Call ==
    \/ \E tool \in Tools \cup {"unknown"}, kind \in {"invalid", "not found"} :
            CallRefused(tool, kind)
    \/ \E tool \in Commands, confirm \in BOOLEAN, timeout \in Timeouts \cup {Infinite},
          filters \in Filters : CallCommand(tool, confirm, timeout, filters)
    \/ CallAskUser

Child ==
    \E out \in Outputs, err \in Outputs :
        (\E code \in {0, 1} : ChildExits(code, out, err)) \/ ChildKilled(out, err)

CommandNext ==
    \/ Call
    \/ HangUp \/ \E line \in Typable : UserTypes(line)
    \/ ConfirmReads \/ MenuReads
    \/ Child \/ Tick \/ Report \/ TakeAnswer

(***************************************************************************)
(* The process takes its steps, the clock goes on and the library kills    *)
(* what is over its time.  A user who is asked again and again types, at   *)
(* some time, a line the prompt can use, or hangs up.  Nothing is assumed  *)
(* of the child: it may run for ever.                                      *)
(***************************************************************************)
Usable(line) ==
    IF phase = "asking" THEN line.word \in {"yes", "no", "empty"}
                        ELSE line.word = "number" /\ line.number \in 1..Options

Fairness ==
    /\ WF_commandVars(ConfirmReads) /\ WF_commandVars(MenuReads)
    /\ WF_commandVars(Report) /\ WF_commandVars(Tick)
    /\ WF_commandVars(\E out \in Outputs, err \in Outputs : ChildKilled(out, err))
    /\ SF_commandVars(\E line \in Typable : Usable(line) /\ UserTypes(line))

CommandSpec == CommandInit /\ [][CommandNext]_commandVars /\ Fairness

-----------------------------------------------------------------------------
(* Properties.                                                              *)

\* Every variable has its type; in particular options[index] exists whenever
\* ask_user selects one.
CommandTypeOK ==
    /\ flag \in {"none", "yes", "no"}
    /\ tty \in {"none", "open", "ended"}
    /\ registered \subseteq Tools
    /\ request.tool \in Tools \cup {"none", "unknown"} /\ request.confirm \in BOOLEAN
    /\ request.timeout \in Timeouts \cup {Infinite}
    /\ request.filters \in Filters \cup {<<>>}
    /\ phase \in {"idle", "asking", "menu", "running", "answered"}
    /\ typed \in Typable \cup {NoLine}
    /\ child.status \in {"none", "running", "exited", "killed"}
    /\ elapsed \in 0..MaxTime
    /\ answer.kind = "selected" => answer.choice \in 1..Options
    /\ started \in Nat
    /\ said \in {"nothing", "yes", "no"}

(***************************************************************************)
(* A command that requires confirmation is started only if the user typed  *)
(* yes, under whatever flag, or gave an empty answer (or none, at the end  *)
(* of the terminal) under --yes; no call starts two; and a call that is    *)
(* refused, cancelled or selects an option has started none.  This is less *)
(* than the help text says of the two flags: see FlagsAnswer.              *)
(***************************************************************************)
RunsOnlyAllowed ==
    /\ started <= 1
    /\ started = 1 /\ request.confirm => said = "yes" \/ (said = "nothing" /\ defaultYes)
    /\ started = 1 => request.tool \in registered \cap Commands
    /\ answer.kind \in {"invalid", "not found", "cancelled", "selected", "no terminal"}
          => started = 0

(***************************************************************************)
(* What args.cc 291-298 tells of the flags: --yes answers yes to every     *)
(* confirmation prompt and --no answers no.  The code does not do so: both *)
(* only choose the default of an empty line (terminal.cc 184-193), so that *)
(* under --no a command runs once a yes is typed, and under --yes a typed  *)
(* no cancels.  MCCommandToolsFlags.cfg finds it violated.                 *)
(***************************************************************************)
FlagsAnswer ==
    request.confirm =>
        /\ flag = "no" => started = 0
        /\ flag = "yes" => answer.kind # "cancelled"

(***************************************************************************)
(* The verdict is guessed from the exit code and the clock.  The guess is  *)
(* right when it matters: a command killed at its timeout is reported as   *)
(* timed out, one that succeeded never is, nor one that had no timeout.    *)
(* (One that failed by itself at about its timeout may be reported too.)   *)
(***************************************************************************)
KilledIsTimedOut ==
    answer.kind = "result" =>
        /\ child.status = "killed" => answer.timedOut
        /\ answer.timedOut => child.code # 0 /\ request.timeout # Infinite

\* What the filters promise of a text, without saying how it is computed: from
\* tells which line of the text each line of the result is.
Lets(filter, l) ==
    /\ filter.by = "include" => l \in filter.lines
    /\ filter.by = "exclude" => l \notin filter.lines

Counts(filter) == ~HasPattern(filter) /\ filter.count >= 0

Picked(from, text, result) ==
    /\ from \in [DOMAIN result -> DOMAIN text]
    /\ \A i, j \in DOMAIN result : i < j => from[i] < from[j]
    /\ \A i \in DOMAIN result : result[i] = text[from[i]]

Promised(text, filters, result) ==
    LET Included(l) == \A k \in DOMAIN filters : Lets(filters[k], l)
        counts == {k \in DOMAIN filters : Counts(filters[k])}
    IN  /\ \A i \in DOMAIN result : Included(result[i])
        /\ \A k \in counts : Len(result) <= filters[k].count
        /\ \E from \in [DOMAIN result -> DOMAIN text] :
            /\ Picked(from, text, result)
            /\ counts = {} => \A i \in DOMAIN text :
                 Included(text[i]) => \E j \in DOMAIN result : from[j] = i

(***************************************************************************)
(* The output a call returns is what the command wrote, cut down as the    *)
(* filters say, whatever their order: lines in their order, every one      *)
(* that all patterns let pass and no other, and no more than each count.   *)
(***************************************************************************)
FilteredAsPromised ==
    answer.kind = "result" =>
        /\ Promised(child.out, request.filters, answer.out)
        /\ Promised(child.err, request.filters, answer.err)

(***************************************************************************)
(* A confirmation is answered, also at the end of the terminal; a command  *)
(* with a timeout is answered, also if it never ends by itself; and a menu *)
(* is answered unless the terminal ends, after which it asks for ever.     *)
(***************************************************************************)
CallsAreAnswered ==
    /\ phase = "asking" ~> phase \in {"running", "answered"}
    /\ phase = "running" /\ request.timeout # Infinite ~> phase = "answered"
    /\ phase = "menu" ~> phase = "answered" \/ tty = "ended"
=============================================================================
