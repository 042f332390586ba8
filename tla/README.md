# A TLA+ model of ai.cli

`ai` is a command line client for chat models that speak the OpenAI chat
completions protocol. It sends prompts, runs the tools the model asks for,
shows the answers as they stream in and keeps every conversation in an SQLite
file. This directory holds TLA+ specifications of its parts, TLC configurations
that check them on small instances, and TLAPS proofs that carry the central
results over to every value of the constants.

## Inventory

| Part | State | Operations | Talks to |
| --- | --- | --- | --- |
| chat loop (`chat.cc`) | chat history, prompt, continued session | one run of `chat()`: load, request, tools, save | client, tools, history |
| OpenAI client (`openai.cc`) | the curl handle | `chat`, `models` | the server |
| stream decoding (`response.cc`) | the chunks so far, the thinking mark | `parse`, `toResponse`, `from_json` | client |
| history (`history.cc`) | the table `conversations_v1`, the schema | `init_db`, `create_session`, `get_messages`, `list_session_infos`, `set_topic`, `generate_topic` | SQLite, client |
| SQLite wrapper (`base/database.cc`) | handle, statement, open transaction | open, `step`, `commit`, `~transaction` | SQLite |
| tool registry (`function.cc`) | the list of tools, filled before `main` | `call_tool` | tools |
| file tools (`tools/filesystem`) | the files | `read_file`, `write_file`, `edit_file`, `replace_lines`, `move_file`, listings | file system |
| execute tools (`tools/execute`), `ask_user` | a child process, its start time | refuse, confirm, run, judge, filter the output | child, terminal |
| terminal (`base/terminal.cc`) | the tty | `confirm`, `menu`, `edit`, `read_line` | user |
| timer (`base/timer.h`) | shared state, worker thread | `start`, `stop`, `running`, moves | threads |
| self-update (`update.cc`) | the executable, its backup, temporary files | check, download, extract, replace | GitHub, file system |
| configuration (`config.cc`) | the configuration file | write the default, load | file system |
| globbing (`base/glob.cc`, `base/matchglob.cc`, `find_files.cc`) | the matcher's positions and stack | match, search a directory, search wider | file system |
| command line (`args.cc`) | the settings of the command | put together options, environment, configuration, standard input | configuration, user |
| `expected.h` | a union and its tag | construct, assign, emplace, swap, read, monadic calls | every user of it |
| logging, other utilities | none that outlives a call | - | - |

What is hard in them, and what makes each of them correct:

- **Chat loop and client.** One thread, but many ways to leave it: early
  returns, exceptions, `LOG(FATAL)`, a destructor that must not throw, a
  signal. Every exit decides whether a conversation survives. Correct means:
  what is sent obeys the protocol (each tool call is followed by its result, at
  most one system message, the prompt once), what is saved is complete, and a
  continued session is never rewritten.
- **History.** Several processes share one file without a server. Correct means:
  the table is an append-only log with unique ids and existing parents, a
  returned id is the caller's own row, and no process keeps the write lock. Every
  process makes the schema anew when it opens the file, on what older versions,
  quicker processes and dead ones have left there.
- **Stream decoding.** Chunks of several choices and calls arrive in pieces.
  Correct means: what is assembled is what the server meant.
- **File tools.** Read, change and write back without a lock. Correct means: an
  edit that is refused changes nothing, an accepted one changes only what it
  names.
- **Timer.** Three threads may meet: the caller of `start`, the caller of `stop`
  and the worker. Correct means: no callback after `stop` has returned, no
  joinable thread left behind, no wait for ever.
- **Self-update.** Two renames replace the running program. Correct means: there
  is always an executable, the old or the new one.
- **Execute tools and terminal.** A prompt that asks again until it has an
  answer, a user who may hang up, and a verdict about the child that is guessed
  from its exit code and the clock. Correct means: nothing runs without its yes,
  a killed command is reported as timed out, every prompt that can end ends.
- **Globbing.** A matcher with a stack of its own, which may skip a match, invent
  one, or come back for ever. Correct means: the files found are those that match.
- **Configuration and command line.** A first run beside another one, beside a
  crash, beside the user's editor; then four sources for every setting, some
  looked up by URL. Correct means: the configuration is a whole one, a key goes to
  the provider it belongs to, the input is used once.
- **`expected.h`.** A tagged union by hand, in three forms, where any construction
  may throw half way. Correct means: the tag names the member that is alive.

`PROJECT.json` lists the hazards line by line.

## Modules

| Module | Models | Code |
| --- | --- | --- |
| `SessionLog` | what the history promises: an append-only log | `history.h`, `create_session`, `set_topic` |
| `ChatSession` | invocations of `ai chat`, one after another | `chat.cc`, `openai.cc`, `scope_exit.h` |
| `ChatSessionProofs` | theorems about `ChatSession` and `StreamResponse` | |
| `HistoryFile` | what the next two share: the processes and the write lock | |
| `HistoryStore` | several processes on the history file | `history.cc`, `base/database.cc` |
| `HistorySchema` | several processes that open a history file | `init_db`, `base/database.cc` |
| `HistoryProofs` | theorems about `HistoryStore` and `HistorySchema` | |
| `Timer` | one timer, its users, workers and callback | `base/timer.h` |
| `Update` | runs of `ai update` on one machine | `update.cc`, `base/temp_file.cc`, `base/download.cc` |
| `UpdateProofs` | theorems about `Update` | |
| `StreamResponse` | one streamed answer, shown and put together | `response.cc` |
| `FileText` | what reading, editing and replacing lines compute | `read_file.cc`, `edit_file.cc`, `replace_lines.cc` |
| `FileTools` | tool calls of several processes on files | those, `write_file.cc`, `move_file.cc`, `base/file.cc` |
| `FileToolsProofs` | theorems about `FileTools` | |
| `CommandTools` | calls of the tools that run a command or ask the user | `tools/execute*`, `ask_user.cc`, `base/terminal.cc`, `function.cc` |
| `FindFiles` | a search for files, with the glob matcher step by step | `base/matchglob.cc`, `base/glob.cc`, `find_files.cc` |
| `ToolProofs` | theorems about `FindFiles` and `CommandTools` | |
| `Startup` | processes from their start to the settings of their request | `config.cc`, `args.cc`, `write_file`, `generate_topic` |
| `StartupProofs` | theorems about `Startup` | |
| `Expected` | sequences of calls on variables of type `expected` | `base/expected.h` |
| `BaseProofs` | theorems about `Expected` and `Timer` | |
| `DataLemmas` | lemmas on numbers, sequences and folds that several proofs share | |
| `MC...` | the instances TLC checks | |

`ChatSession` and `HistoryStore` look at the same history from two sides, and
both are shown to implement `SessionLog` (`LogSpec`): the first with everything
a conversation consists of and one process at a time, the second with
many processes at once and a conversation that is only a number. `SessionLog` is
what makes the two fit together: each of them may be read with the other one
replaced by the log.

### ChatSession

The variables are those of `chat()`: `chat_history`, `user_prompt`,
`system_prompt`, the continued session (`parent`), the response being worked on,
and the saved `sessions`. `phase` says where the function is:

    idle -> request -> waiting -> tools -> request ...
                                       \-> exit -> topic -> idle

`Begin` is everything up to the loop; `Send` is `OpenAIClient::chat` up to
`curl_easy_perform`, with the new history assigned before the request is
serialised, as in `openai.cc`; `Receive` is what happens to an answer up to the
tools, `RunTool` one turn of the tool loop, `ShowThrows` one that ends when its
result is shown, outside the inner try, before it is on record, `EndRound` the look at
the finish reason; `Save...` and `...Topic` are the two halves of the scope_exit. `Return`
leaves the inner try block and so leads to the scope_exit. `Die` does not: that
is `LOG(FATAL)`, `std::terminate` and signals.

Texts are members of small sets. `"binary"` stands for a tool result that is not
UTF-8, because `dump()` throws on it, once for the request (caught) and once
more in the scope_exit (not caught). A topic is written as the messages it sums
up, so that a topic of another session is told apart.

Two choices by the compiled library are nondeterministic: an exception thrown
through libcurl's C frames either ends the program (`BadChunk`) or is caught
(`RequestFails`). Reading the last element of an empty list of choices is a
crash.

### HistoryStore

Each process opens the file, reads, converses, inserts, commits and labels.
`rows` is what is committed; `lock` is SQLite's write lock in WAL mode. The
abstraction of SQLite is external: BEGIN takes no lock, the first write takes it
or fails when the busy timeout runs out, COMMIT, ROLLBACK and the end of a
process release it, and readers see what is committed. An INSERT that got the lock and
failed (`InsertDuplicate`, `InsertFails`) leaves it with the process until
`Rollback`, the destructor of the transaction; `Refuse` is an INSERT that never had
it. Faults: a file that does
not open, a busy timeout, a failing write, a failing COMMIT, a missing topic, a
crash at any point. One coincidence is left out: that a second process draws the
very id whose COMMIT is failing.

### HistorySchema

A process asks for write-ahead logging, then goes through the nine statements of
`init_db`: two tables, two indices, five columns of the legacy table that are looked
for (`Look`) before they are added. `schema` is what the file has, `at` the statement a
process is at. A write holds the lock from `BeginWrite` to `EndWrite`; in between
others wait, or give up after the busy timeout (`TimesOut`), and under a rollback
journal readers wait, too. The change of the journal mode is three steps, because it
reads the file first and then wants it for itself: two processes may each find the
other one reading, and SQLite refuses both at once, since there is no busy timeout
yet. (With SQLite 3.40.1, of two such processes on a new file both were refused in 41
of 600 attempts, and one in the others.) A failing statement ends
`init_db` if it was to create a table, and is ignored otherwise; a file that cannot be
opened is in `HistoryStore`, which takes the schema for granted and WAL mode, too.

### Timer

Every `start` makes a new `State` object, so the model numbers them; `worker`,
`cancelled`, `running` and `wpc` are per State, while `state` is the pointer the
timer holds. The worker thread of State s is actor s, which is how a callback
that calls `stop` is recognised. A step is what no other thread can see half
done: `Take` the swap of the pointer, `Check` the comparison of thread ids,
`Cancel`, `Notify` and `Join` the rest of `stop`, `Store`, `Spawn` and `Assign`
the rest of `start`. `wait_for` is two steps, because `cancelled_` is set without
the mutex: `Test` of the predicate and `Sleep`; a notification in between is lost.

`Timer` has no lock around `start` and its header says nothing of concurrent
starts. The variable `synchronised` is chosen once: where it is true no `start`
overlaps another thread's call, and a timeout does not expire before `start` has
assigned the thread handle. `MCTimerRace.cfg` shows what happens otherwise: the
callback stops the timer before `worker_` is assigned, and a joinable thread is
destroyed.

### Update

`files` is what is at the installed path (0) and at the paths with `.old`
appended; a run finds the path it replaces through `/proc/self/exe`, which
follows the file it executes (`image`, told apart by its `inode`) to wherever
another run has renamed it. The steps of `replace_and_restart` are actions:
`Clear`, `MoveAside`, `Place` or `Copy` and `CopyDone`, `Discard`, `Permit`,
`Exec`; each may fail, which throws (`Throw`) or returns, and `Die` may end the
process anywhere. A copy goes on into the file it has open (`output`), wherever
another run has renamed that file meanwhile, or into none that has a path. Two copies
into one file at a time are left out (the bound in `Copy`). `temp` is what `TempFile` has to remove, and `Finish` is its
destructor. The variable `overlapping` is chosen once: whether a second run may
start while one is under way.

### StreamResponse

A server says something (`said`, a ghost) by sending deltas; `ParseLine` is the
callback for one event, and `all`, `shown` and `thinking` are its state. Nothing
is put together before the stream ends, but `StreamedIsWhole` compares at every
point `FromSse(all)` with `FromJson` of what was said so far, because a stream
may end anywhere. Texts are sequences of pieces, one per event, so that a piece
in the wrong place is told apart. A choice may think, speak and think again, and a
delta may hold a thought and text, which `parse_line` shows both inside the marks.

### FileText and FileTools

`FileText` holds the computations: lines are found by counting newlines, edits
go through a fold over their items, each at the first match. Next to them stand
references written in another way (`Lines` cuts a text into lines, `IsEdit` says
what one replacement is, `InChunks` reads a file piece by piece), which the
properties compare them with. Integers from JSON lose the bits that do not fit
(`ToInt`).

In `FileTools` a call of a tool is a sequence of steps: `Begin` (arguments),
`Accept`, `Refuse` or `ReadFails` (the file is read and the new text computed),
the time during which the diff is shown and may `Throw`, `Open`, which truncates,
and `Put` or `Break`, which write all of the text or a part. `handle` is where an
opened file is: a rename by another process takes it along or makes it
unreachable, and a write goes over what is there, so that the overlapping writes
of two processes mix as they do on a disk. `Outside` is everybody else.
`before` and `disturbed` are ghosts: what the call found, and whether anybody
has touched the file since.

### CommandTools

One call after another is served: `CallRefused` (a name that is not registered,
arguments that are no object), `CallCommand`, `CallAskUser`, and `TakeAnswer`, when
the session has its result. `phase` says what the tool is doing:

    idle -> asking -> running -> answered -> idle
       \-> menu ------------------^

`ConfirmReads` and `MenuReads` are one round of the loops in `confirm()` and
`menu()`; `ReadLine` is `read_line()`, which gives an empty line at once when the
terminal has ended. `ChildExits` and `ChildKilled` are the child's two ends; `Tick`
may come between them and `Report`, because `execute_command.cc` looks at the clock
after the child has ended, and it is this second look that decides `timed_out`.
`flag` is the last of --yes and --no; `defaultYes` is all that the code keeps of it.
`FilterLines` is a fold over the filters, as in `execute.cc`, and `Selected` one over
the lines; a regular expression is the set of lines it is found in, or ill-formed,
which throws. `bash`, `cmd` and
`powershell` differ in the program they start and in nothing the model looks at,
so one set of actions stands for the three. The subprocess library and the user
are external.

### FindFiles

The matcher is modelled one turn of its loop at a time, with its two positions
`p` and `n` and its stack: `ReadStar` pushes the places to come back to,
`ReadChar`, `Backtrack`, `Accept` and `Reject` are the branches of the loop. Around
it, `MatchNext` is one entry of the directory iterator, `IterationFails` an
exception of the iterator, `SearchWider` the second pass of `find_files` with a star
on both sides. What it computes is compared with `Matches`, which has no positions
and no stack: there is a way to cut the name into pieces, one for every item of
the pattern. Characters are members of a small set in which two letters differ in
case only.

### Startup

`Look`, `Create` and `Write` are the three steps of
`write_default_config_if_not_exists`: look whether there is a file, open it (which
empties it, whoever has written it meanwhile), write it. Both of the last two may
fail, and nobody is told. `ReadConfig` is the rest of `load_config`, with all that
leads back to the defaults; `UserSaves` is an editor, which replaces the file at
once. `SettleChat` and `SettleModels` are the callbacks of the two commands: every
setting is an operator named for the variable it computes (`Url`, `Model`, `ApiKey`,
`Prompts`, `TopicApiKey`), and `Incomplete` says what ends the program with a
message. `TopicRequest` belongs to `generate_topic`, which takes the chat's settings
where the topic has none. A URL is the sequence of its parts, so that one may occur
in another. The option parser and the environment are external; the hidden option
`--url` is left out.

### Expected

A variable holds a storage: the tag, and beside it what is really alive in the
union. An operator that stands for a member function is the set of the outcomes
it can have: what the object and the argument hold afterwards, and whether the
call returned, threw or ended the program. `form` is the template
(`expected<T, E>`, `expected<T&, E>`, `expected<void, E>`), `throwing` says whose
moves may throw, both chosen once. An action is a call of any of a group of
operations on any variables, and a throw destroys nothing but what the code
destroys. T and E are external: an assignment to a live member (`Fails`) and the two
assignments in `std::swap` (`SwapMembers`) may throw and lose what the member held,
which then counts as moved out; a move that throws has left its source as it was. The
`operator=` of `expected<T&, E>` that takes a value (line 926) is left out, because its
body names a member of a dependent base and cannot be instantiated.

## Runs

| Run | Question | Expected |
| --- | --- | --- |
| `chat` | protocol, completeness and progress of invocation after invocation | pass |
| `history` | is the table the log, under every interleaving and fault? | pass |
| `history_commit` | does a returned id mean a stored row? | violated: failing COMMIT |
| `schema` | is the schema whole when `init_db` returns, whoever else is at it? | pass |
| `timer` | no late callback, nothing out of reach, no call stuck? | pass |
| `update` | is a program left, and a newer one, wherever an update ends? | pass |
| `stream` | is the streamed message the one that was said and shown? | pass |
| `files` | does a tool call do what it answers, and do lines and edits come out right? | pass |
| `commands` | is only run what was allowed, and reported what happened, under any user, child and clock? | pass |
| `find_files` | are the files found those that match, and does every search end? | pass |
| `startup` | does every process go on with a whole configuration, the right key, its input once? | pass |
| `expected` | does the tag name what is alive, whatever throws? | pass |

`history_commit` shows a disagreement between the code and what it says of itself; it
is under "findings" in `PROJECT.json`. Eleven more configurations, to be run by hand,
reproduce others, each with one property that TLC finds violated:

| Configuration | Property | What happens |
| --- | --- | --- |
| `MCChatSessionFatal.cfg` | `Persisted` | a request after a tool round is answered with HTTP >= 400: `LOG(FATAL)` (`openai.cc` 341) ends the process, the `scope_exit` of `chat.cc` 74 never runs, and what the tools did is not on record (`README.md` 27: "conversation is persisted to disk") |
| `MCChatSessionShow.cfg` | `PairedWhateverShown` | cutting down a result that is not UTF-8 (`chat.cc` 238) is outside the inner try: if it throws, the round ends between two tools (278), and the session that continues this one sends calls without results |
| `MCHistorySchemaWal.cfg` | `WalForAll` | two first runs switch to WAL mode at once, before either has set a busy timeout: both are refused and go on under a rollback journal (`history.cc` 72: "Enable WAL mode for concurrent multi-process access") |
| `MCHistoryStoreLast.cfg` | `ContinuesLastSaved` | -C takes the session that started last, not the one saved last |
| `MCTimerRace.cfg` | `NoJoinableDropped` | a joinable thread is destroyed, see Timer above |
| `MCStreamResponseUsage.cfg` | `UsageKnown` | a chunk without choices is dropped, and the usage with it |
| `MCStreamResponseBoth.cfg` | `SpeechShownOutside` | content in one delta with a thought, even an empty one, is shown inside the marks, as a thought (`response.cc` 254-277) |
| `MCCommandToolsFlags.cfg` | `FlagsAnswer` | --yes and --no only set the default of an empty line (`terminal.cc` 184-193), so under --no a typed yes runs the command and under --yes a typed no cancels it (`args.cc` 296: "Auto-deny (answer no to) all tool confirmation prompts that require user approval before execution") |
| `MCFileToolsMove.cfg` | `MoveKeepsDestination` | a move replaces an existing destination |
| `MCFindFilesStar.cfg` | `StarStaysInSegment` | before a question mark, a star crosses a separator (`matchglob.cc` 58; the test at `tests/base/matchglob_test.cc` 138 says it does not) |
| `MCStartupPrefix.cfg` | `AliasIsOfPrefix` | a provider's URL is looked for anywhere in the URL, not at its start (`args.cc` 50 says prefix), so that a gateway whose URL contains it gets the provider's key |

Bounds. `chat`: two saved sessions, so that one continues another (or itself is
continued with a system prompt and without), three requests per invocation, so
that a tool round follows a tool round, one prompt, one system prompt besides
the default, and seven responses: the three of a server that keeps the protocol
and four of one that does not. A deadlock is not an error there: with the last
session saved no invocation is left. `history`: two processes, two ids, so that a
collision happens with the other process and with an earlier row, three
conversations, and two values of the clock, so that starts are equal and
different. `schema`: two processes, three runs, so that a third one finds what two
that raced or died have left, two failing statements in a run, and files with nothing,
with a legacy table of no, of two or of all columns. It stops when the runs are used
up. `timer`: two threads and two starts, which is the least for a restart
beside a stop. `update`: two processes and two
runs, two releases of which the older one has the greater last part, and three
appended `.old`, one more than two runs can reach. It may stop: when the runs are
used up there is nothing left to do. `stream`: two choices, two calls each and
four events, enough for both choices and both calls to alternate, and for
thinking, speaking and thinking again; a stream that is over stops. `files`: all
texts of up to three characters at one path and two calls, which may overlap or
follow each other, with one change by somebody else; three characters are enough
for an empty line, an open last line, and matches that overlap; ints have four
bits. It stops when the calls are used up. `commands`: two timeouts (zero, which
is over at once, and one second), a clock of three values, so that the child ends
before, at and after its timeout, a silent child and one of three lines, and lists
of up to two filters of every kind, in both orders, with an ill-formed one.
`find_files`: every pattern of up to four characters of four kinds and four wider
ones, against every name of up to three letters and some of four, where a second
star makes a backtrack pass a first one; and directories of two names in either
order. It stops when the search is over. `startup`: two processes, which is the
least for a race over the file, two saves, so that a usable file is replaced by an
unusable one and back, five configurations (no JSON, none usable, three with
providers whose URLs contain each other or share a name or lack a key), two
environments and eleven command lines, one for every way through the callbacks. It
stops when the processes have settled. `expected`: two variables, so that a call
has an argument that is another or the same, and two contents that a swap must
keep apart.

The properties, in the order of their importance:

- `RequestsWellPaired`: in a request every tool call is followed by its results,
  in order, and no result is anywhere else, provided the server has kept the
  protocol so far and no result was lost when it was shown (`PairedWhateverShown`). It spans the recording in `openai.cc`, the tool loop in
  `chat.cc`, the load of a continued session and the filter of system messages.
- `LogSpec`: refinement of `SessionLog`.
- `ToolsRecorded`: a saved session holds the result of every call that ran, but for
  the one whose result could not be shown.
- `Lineage`: apart from system messages a continued session is a prefix of its
  continuation.
- `SystemFirst`, `PromptSentOnce`: no second system message, no second prompt.
- `ReturnedMeansOwn`, `LockDiscipline`: a returned id is the caller's row, and
  the lock is held between INSERT, done or refused, and the end of the transaction only.
- `MissingIsExplained`: what is missing when `init_db` returns is missing because of
  this process's own failing statement, not because another one was quicker or died.
- `CopySurvives`: when updates do not overlap, a program that runs is at one of
  the paths after every failure and every crash. `CopyAtHand`: where updates do
  overlap, there is one or a run under way still has it to place, unless a run
  was interrupted.
- `UpgradesOnly`, `ReturnedIsTidy`: without --force only a newer release is
  installed, and a run that returns leaves no temporary file.
- `StoppedIsOver`, `ArmedIsReachable`, `NoJoinableDroppedApart`: after `stop` no
  callback runs, a timer that may fire can be stopped, and no joinable thread is
  destroyed, if starts are kept apart.
- `StreamedIsWhole`, `ShownIsSaid`: the chunks put together are the message; marks on
  the screen alternate, and what a single choice says is there in full, thoughts
  between marks, if no delta brings both.
- `CallsKeepTheirWord`: a call whose file nobody else touched has done all it
  answers, or nothing, or after the truncation a part from the beginning. Of a call
  that was disturbed nothing is promised: what was written meanwhile is lost.
- `LinesAreReplaced`, `EditsAreApplied`, `ChunksAddUp`: the computations agree
  with their references.
- `RunsOnlyAllowed`: a command runs once, after a typed yes (also under --no) or, under
  --yes, an empty answer, and a call that was refused or cancelled has run none. That
  the flags answer every prompt, as the help text says, is `FlagsAnswer`, which fails.
- `KilledIsTimedOut`: the guess about the timeout is right where it matters. (A
  command that fails by itself at about its timeout may be reported as timed out,
  too.)
- `FilteredAsPromised`: the output is cut down as the filters say, in any order. It
  does not tell head from tail, and that nothing is left out it says of lists without
  counts.
- `ConfigIsWhole`: nobody goes on with half a configuration, or with the defaults
  where a usable file was there all the time. It is about what is loaded: that a user
  who saves between `Look` and `Write` loses the file is not caught.
- `KeysGoHome`: a key that was looked up is sent to a provider whose URL is in the
  URL of the request; the topic falls back to the chat's key only where its
  provider has none. It needs aliases that differ.
- `InputIsUsedOnce`: what is piped in becomes one prompt, neither lost nor doubled.
- `FoundIsRight`: the matcher agrees with the definition of a match.
- `TagIsTrue`, `WholeUntilThrown`, `ThrowKeepsOrEmpties`, `ReturnedMeansDone`: what
  `expected` promises its users. Three exceptions are in the code: `swap` of two
  types that may both throw, an assignment of `expected<void, E>` that throws, and
  `emplace` of `expected<void, E>`, which leaks a live error. A call that throws
  leaves the object empty where a member was to be constructed anew, and on its side,
  with its content or without, where the live member was assigned to; `swap` of a value
  and an error is undone; `swap` within a side leaves both alive, with what the second
  held in one of them, but the first may have lost its content.
- `LocalProgress`, `SaveReturns`, `InitDbReturns`, `CallsReturn`, `CallsAreAnswered`,
  `SearchEnds`:
  liveness, see below.
- `TypeOK`: one per module, and proved. Where no run checks it, it can be checked by
  hand: `MCTimerTypes.cfg`, `MCHistorySchemaTypes.cfg`, or with the type invariant named
  in the configuration of the run.

## Fairness

`ChatSession`: weak fairness of the program's own steps (`GiveUp`, `Send`,
`EndRound` and the save), because `chat()` runs on one thread and none of these
steps waits for anybody. The server, the tools and the topic request are not
fair: no timeout is set on the request, and a tool may wait for the user.
`LocalProgress` therefore promises only that an invocation gets to the next
point where somebody else is waited for, or to its end.

`HistoryStore`: weak fairness, for each process, of the steps inside
`create_session`. The only one that waits is the INSERT, and SQLite's busy
handler gives up after five seconds (`history.cc` 76), so that the disjunction is
always enabled there and one of its steps is taken. Faults of the disk are not
in the fair part. `HistorySchema` is fair in the same way.

`Timer`: weak fairness of every thread, with callbacks that return, and strong
fairness of the timeout. `wait_for` keeps its deadline across wake-ups, so a
worker that is woken again and again is not kept from timing out, although the
timeout is not enabled while it is awake. `Wake` by itself (spurious) is not
fair. `CallsReturn` rests on the timeout where a notification is lost, which is
what the code relies on as well.

`CommandTools`: weak fairness of the tool's own steps, of the clock, and of the
library's kill; strong fairness of a user who types a line the prompt can use,
because each useless line disables the typing for a moment. Nothing is assumed of
the child, which may run for ever, so a command without a timeout may do so as
well; and a menu on a terminal that has ended asks for ever (`terminal.cc` 225),
which is why `CallsAreAnswered` makes that exception.

`FindFiles`: weak fairness of `Next`; one thread runs the search, and every step
of it is its own.

`Update`, `FileTools`, `StreamResponse`, `Startup` and `Expected` have no fairness: a
process may be killed and a server may fall silent, and only safety is claimed.

## Proofs

TLAPS checks, for every value of the constants that satisfies the assumptions of
the modules:

- `ChatSessionProofs`: of `ChatSession` `TypeCorrect`, `SystemAtFront`,
  `ToolResultsSaved`, `RequestsArePaired`, `LineageKept`, `PromptCountedOnce`
  (`PromptSentOnce`), `ImplementsLog`; of `StreamResponse` `StreamTypes`, `StreamsAddUp`
  (`StreamedIsWhole`), `SaidIsShown` (`ShownIsSaid`).
- `HistoryProofs`: of `HistoryStore` `TypeCorrect`, `LockReleased`, `ReturnedIdIsOwn`,
  `ImplementsLog`; of `HistorySchema` `SchemaTypes`, `SchemaExplained`
  (`MissingIsExplained`).
- `UpdateProofs`: `TypeCorrect`, `ProgramSurvives` (`CopySurvives`), `ProgramAtHand`
  (`CopyAtHand`), `ReturnsTidy` (`ReturnedIsTidy`), `NeverDowngrades` (`UpgradesOnly`).
- `FileToolsProofs`: `TypeCorrect`, `WordKept` (`CallsKeepTheirWord`), `EditsApplied`
  (`EditsAreApplied`), `LinesReplacedOnly` (`LinesAreReplaced`), `ChunksMakeFile`
  (`ChunksAddUp`).
- `ToolProofs`: of `FindFiles` `TypeCorrect`, `FoundExactly` (`FoundIsRight`); of
  `CommandTools` `CommandTypeCorrect`, `OnlyAllowedRuns` (`RunsOnlyAllowed`),
  `KillIsReported` (`KilledIsTimedOut`), `FiltersKeepTheirPromise`
  (`FilteredAsPromised`).
- `StartupProofs`: `TypeCorrect`, `ConfigKept` (`ConfigIsWhole`), `KeysSentHome`
  (`KeysGoHome`), `InputIsOnePrompt` (`InputIsUsedOnce`).
- `BaseProofs`: of `Expected` `TypeCorrect`, `TagsAreTrue` (`TagIsTrue`), `AlwaysWhole`
  (`WholeUntilThrown`), and the two action properties: `ThrowsKeep`
  (`ThrowKeepsOrEmpties`) and `ReturnsDo` (`ReturnedMeansDone`); of `Timer` `TimerTypes`,
  `StoppedStaysOver` (`StoppedIsOver`), `ArmedStaysReachable` (`ArmedIsReachable`),
  `JoinableIsKept` (`NoJoinableDroppedApart`).

`HistorySchema`, `Timer`, `CommandTools` and `StreamResponse` put their name before
`Init`, `Next`, `Spec` and `TypeOK`, because a module of proofs extends them together
with another one. `DataLemmas` has no theorem of its own.

The assumptions say that the special values are distinct (`NoCall` is no call
id, the empty prompt is no prompt, and so on), that responses are sequences of
choices, that patterns, names, configurations and URLs are sequences and the default providers
usable, that prompts are a sequence and the text `"stdin"` stands for what is read
from there and for nothing that is given, that null is neither a text nor a number nor
a reason to finish, and that bounds are naturals. The bounds are parameters too: the results
hold for any number of sessions, requests, processes and ids.

*The inductive invariant of the chat.* `SystemFirst` holds of a request because
`DropSystem` removes every system message, which needs no more than its
definition. When no system prompt is given the history is sent as it was loaded,
so the invariant has to speak of every saved session. `ToolsRecorded` is about a
saved session after its invocation has left the loop, so `IInv` adds that what
was executed is recorded in the running history (`RunRecorded`) and that the row
named by `session_id` is this very history (`SavedIsMine`). `RequestsWellPaired`
needs the state between the two: while tools run, the history ends in an
assistant message whose first results are there and whose other calls are exactly
those of `response.calls` (`ChatPaired`), and a saved session is well paired
only when its invocation left the loop at a good point, which is why the
invariant restricts itself to what may be sent again. `Lineage` adds that
`DropSystem` of an appended history is the appended `DropSystem` of it. These
facts are lemmas about `DropSystem`, which is written with ranks and not as a
recursion, so that they need no induction.
`PromptSentOnce` counts: the running history holds as many messages of the user as the
loaded one, and one more once the prompt is sent (`PromptCounted`). That dropping the
system messages leaves their number alone is a bijection between the indices before
and after (`DropSystemCounts`), again without induction.

*The inductive invariant of the store* says which ids are taken and when: a
process in `begun` has drawn an id, one in `inserted` holds the lock and its id is
not stored (`InsertedIsNew`), ids are unique (`UniqueIds`), parents are stored
before their children (`ParentStored`), and the row of a process in `topic` is
still unlabelled (`Untitled`). With these every step is a step of `SessionLog`
or leaves the table alone.

*The inductive invariant of the update.* `CopySurvives` is not inductive, since
the rename that moves the program aside destroys it unless the file at the
path is whole and is the one moved. `IInv` says, for runs that do not overlap,
that at most one process is at work (`Alone`), that no two paths hold the same
inode and all inodes are known (`InodesApart`, `InodesKnown`), so that a run
which finds its own file has found the only one; and it says where the
program is at each stage (`Stage`): at the path to be replaced until it is moved
aside, and at the backup's path from then on. One lemma per action carries it on.
Two smaller invariants stand beside it. `UInv`: past the comparison the release is
newer unless --force was given, what is extracted is that release and what is placed
stays there, again without overlap. `HomeInv`: whoever has taken the program from the
installed path is about to put one there, and what is there and not whole is still
being copied; it needs no more than that nobody was interrupted, so `CopyAtHand` holds
of runs that overlap as well.

*The inductive invariant of the file tools* is about calls nobody has disturbed
(`Settled`): until the file is opened it is as it was, from then on it is empty
and the handle is at the call's path, and what will be written is the outcome.
Steps of others either leave such a call alone or disturb it (`LeftAlone`),
which is proved once for every change of files. For `CallsKeepTheirWord` it does not
matter what an edit computes: that proof does not expand it. The other three theorems
are about nothing else. While the diff is shown, the text is the outcome of the call on
what it found, so they follow from lemmas that hold of every text: each place an edit
takes is the first one (`ItemIsEdit`), and an edit that was refused stays refused
(`RefusedForGood`); a text has as many lines as newlines, and one more if it does not
end with one (`ShapeOfText`); what follows a newline adds its own lines to those before
(`LinesBehind`), so that a text is cut behind a line where its list of lines is
(`CutBehindLine`); and pieces that begin where the one before ends make up the text
(`PiecesAddUp`).

*Folds.* Filters, edits, lines, deltas and calls are worked through by folds. The
library's folds take an operator, which the provers do not instantiate, so that its
theorems on them are out of reach. `FoldExists` and `FoldSteps` (`DataLemmas`) do not
mention one: given a set of pairs that says where a value goes at each place, there is
a function from the places to the values on the way. Each module shows that its own
operator steps in this way (`EditedFolds`, `LinesFolds`, `DeltasFold`), and
what holds of all prefixes follows by an induction over a set of numbers (`UpTo`).

*The inductive invariant of the commands* ties the ghosts to the phase: before a
command runs, nothing is started, no child is there and nothing has been said
(`Before`); while one runs there is no answer yet (`Unanswered`); a killed child
has failed and its time is over, and stays over, because the clock does not go
back (`Killed`); and the verdict in an answer is the one computed from the child
and the clock that are still there (`Verdict`). That what is cut down keeps its promise
is a fact about `FilterLines` alone, for any filters in any order.

*The inductive invariant of the stream* (`StreamIInv`) says that what was put together
is what the choices have said (`Spoken`), up to the last one that has said anything.
Every event is one choice that says more (`Saying`), and merging its delta into the
message as it was gives the message as it has become (`Says`, `MergedIsParsed`): this
is one lemma on all that a delta may hold, with the list of calls as its hard part. A
choice that is silent so far is as new (`NewChoiceIsSilence`), which is why the
elements the vector is filled up with do no harm. Of the screen `ShownInv` says that
what is read off it piece by piece (`Screen`) is what a single choice has said, and that
the last mark tells whether the model is thinking.

*The inductive invariant of the search.* The items before `p` can use up the
characters before `n` (`Reach`: there is a cut of that beginning); if `p` is at a star
it is counted in, because it may still eat (`Here`). Every place on the stack is a
star with the characters before it used up and one more that it may eat (`Place`,
`MayEat`), so that to come back after that one is a cut again. At the end of items
and name the cut is a whole one, which is what a match is (`AcceptedMatches`). A cut
grows by one item or by one character of a star (`ReachMore`, `ReachFurther`); a skip
stops because some position stops it, and the least one does (`LeastExists`).

That no match is lost is the same read backwards. `Rest` says that the items from
one on can use up what follows a character; `WithinReach`, that a name that matches
can be finished from where the matcher is or from a place on the stack. A
star that reads a character pushes the place where it eats that character, and any
cut in which it eats more goes through there (`StarCutShort`). A skip passes only
characters where the next item does not match (`SkipIsSafe`); that needs the next
item to be a character, which it is because of two stars in a row `Items` keeps
one (`NoTwoStars`, from what ranks in a set are: `RankIsTaken`, `RanksTouch`). Where the
matcher is stuck nothing can be finished (`StuckIsLost`), so it rejects a name, with
an empty stack, only when there is no match.

*The inductive invariant of the start.* The file is always one that was saved, or
empty, or the defaults; if it is not one that was saved, or if somebody is about to
create it, there has been no file (`FileInv`). That is what makes the empty file
harmless: it loads as the defaults, and so does the file that was not there. A user
who saves between another process's `Look` and `Create` loses that file; then, too,
what is loaded is the defaults, which is what the missing file would have been
loaded as. For the keys, what
a settled process holds is what the callbacks compute from its configuration
(`SettledInv`; the environment does not change), and every loaded configuration has
usable providers at natural indices (`WellMade`). The rest is about looking up: the
first of some indices is one of them, which needs that a set of naturals has a
least element (`LeastExists`, from the well-foundedness of `<`); with it
`RankIsTaken` shows, by a least counterexample, that the providers listed by rank
are providers of the file (both are in `DataLemmas`). A topic with an empty URL is
looked up, too, and finds nothing, because no provider's URL is empty (`NothingInNothing`). For the prompts,
`Complete` says that a settled chat has a model and a prompt (the checks of
`bind_chat_args`), and `PromptsUseInput` that of all prompts one is the standard input
if there is any to be used, and none otherwise: the set of their indices is a
singleton or empty, in each of the ways the input is read.

*The inductive invariant of the schema.* Every statement before the one a process is at
has made its object or failed (`SettledBefore`), and init_db returns at the last one, or
at a table that failed (`SettledAt`). The schema only grows, so that what others do does
not matter; of its own statements, one that is skipped is there already, and one that
finds a duplicate column, too.

*The inductive invariant of the timer* (`TimerInv`) holds without a condition only of
types and of room: as many starts are under way as there are States left for them
(`Room`, from the bound that guards a start). All else supposes that starts are kept
apart (`Apart`): who owns a State and what its thread is like is said at each place
of each call (`StopOwns`, `StartOwns`, `WorkerStops`), no two calls own the same one
(`OneOwner`), and a worker that has not come to its end is the timer's or a user's
(`Live`). A callback that stops its own timer finds its own State, or none, because
another stop has taken it; therefore `Live` counts workers that fire. TLC has checked this
invariant on two users and three starts before it was proved.

*The inductive invariant of expected* is one of its storages: `Sane` says that the
tag names what is alive where the form promises it, and `Good` that every outcome
of an operation leaves two sane storages, `Clean` that it does so without reading
a dead member until something throws. There is one lemma per operation; the
operations are built from `Destroyed`, `WithValue` and `WithError`, and so are the
lemmas. The exceptions named in `TagIsTrue` are where the lemmas need their
hypotheses. The action properties follow from one lemma per operation again:
`Kept`, `Untouched`, `Copied`, `Moved` and `Exchanged` say of a set of outcomes what
`ThrowKeeps` and `ReturnDoes` say of a step, and are carried through `Attempt` and
`Turned`, from which the operations are built.

Only model-checked: the liveness properties (`LocalProgress`, `SaveReturns`,
`InitDbReturns`, `CallsReturn`, `CallsAreAnswered`, `SearchEnds`), because fairness and
ENABLED are beyond the prover. All other properties that hold are proved. The runs that
end in a violation are counterexamples and need no proof.

## Plan

Built so far: `SessionLog`, `ChatSession`, `HistoryFile`, `HistoryStore`,
`HistorySchema`, `Timer`, `Update`,
`StreamResponse`, `FileTools`, `CommandTools`, `FindFiles`, `Startup`, `Expected`.
Every safety property a passing run checks has its theorem. What is left:

1. `AiCli`: `ChatSession` over `HistoryStore`, several invocations at once, and what of
   `Lineage` is left then.
2. The theorems that such a composition needs of the two.

## Not modelled

The declaration of the options for the argument parser, help texts, colours and
layout, the text of the default system prompt, the read-only listings of
`ai history` and of the file tools, `string.cc`, base64, temporary directories and
`scoped_handle`: data, formatting or sequential wrappers without a protocol of
their own. Of the modelled parts: moves of a `Timer` and `running()`; the Windows
variants of the update, which hands over to a batch file, of the terminal and of
temporary files; the text that `edit()` of the terminal gives, but for whether there
is one; the copy that the file tools make for the diff; the field `index` of a
choice, which nobody reads, chunks without a delta, and the byte level of a stream,
which the SSE decoder (a submodule) turns into events; ranges and negations of
glob patterns, which `matchglob.cc` does not have. SQLite, libcurl, the JSON
library, the option parser, the regular expressions and the subprocess library are
external and appear only as far as the code uses them.
