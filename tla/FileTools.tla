----------------------------- MODULE FileTools -----------------------------
(***************************************************************************)
(* The tools that change files (edit_file, replace_lines, write_file and   *)
(* move_file, over base/file.cc), called by several processes whose files  *)
(* somebody else changes too.  Nothing is locked, and a file is truncated  *)
(* before it is written.                                                   *)
(***************************************************************************)
EXTENDS FileText

CONSTANTS
  Callers,      \* processes that run `ai chat`
  Paths,
  Absent,       \* no file
  Nowhere,      \* the place of an open file without a path
  Calls,        \* tool calls they may make
  FirstFiles,   \* what may be at the paths at first
  OutsideTexts, \* texts that others put into files
  MaxCalls,     \* BOUND: calls
  MaxOutside    \* BOUND: changes by others

Items == [search : Texts \cup {Null}, replace : Texts \cup {Null}]

Edits == [tool : {"edit"}, path : Paths, items : Seq(Items)]
Replacements == [tool : {"replace"}, path : Paths, start : Int, end : Int,
                 content : Texts]
Writes == [tool : {"write"}, path : Paths, content : Texts]
Moves == [tool : {"move"}, path : Paths, destination : Paths]

ASSUME AbsentAssumption == Absent \notin Texts
ASSUME NowhereAssumption == Nowhere \notin Paths \cup Callers
ASSUME CallsAssumption ==
  Calls # {} /\ Calls \subseteq Edits \cup Replacements \cup Writes \cup Moves
ASSUME FilesAssumption ==
  FirstFiles \subseteq [Paths -> Texts \cup {Absent}] /\ OutsideTexts \subseteq Texts
ASSUME BoundsAssumption == MaxCalls \in Nat /\ MaxOutside \in Nat

VARIABLES
  files,     \* the text at each path, or Absent
  calls,     \* calls so far
  outside,   \* changes by others so far
  pc,        \* of each caller: where its call is
  call,      \*   the call
  text,      \*   what it is going to write
  handle,    \*   where the file is that it has open for writing, or Nowhere
  result,    \*   how its last call ended
  before,    \* ghost: what was at the call's path when it began
  disturbed  \*   whether somebody else has changed that since

vars == <<files, calls, outside, pc, call, text, handle, result, before,
          disturbed>>

Steps == {"idle", "read", "show", "opened", "move"}

Results == {"none", "ok", "unopened", "refused", "thrown", "broken", "killed"}

TypeOK ==
  /\ files \in [Paths -> Texts \cup {Absent}]
  /\ calls \in 0..MaxCalls
  /\ outside \in 0..MaxOutside
  /\ pc \in [Callers -> Steps]
  /\ call \in [Callers -> Calls]
  /\ \A p \in Callers : pc[p] = "move" <=> pc[p] # "idle" /\ call[p] \in Moves
  /\ text \in [Callers -> Texts]
  /\ handle \in [Callers -> Paths \cup {Nowhere}]
  /\ \A p \in Callers :
       handle[p] # Nowhere => pc[p] = "opened" /\ files[handle[p]] # Absent
  /\ result \in [Callers -> Results]
  /\ before \in [Callers -> Texts \cup {Absent}]
  /\ disturbed \in [Callers -> BOOLEAN]

-----------------------------------------------------------------------------
NoCall == CHOOSE c \in Calls : TRUE

\* What a call makes of a text.
Outcome(c, old) ==
  CASE c.tool = "edit" -> Edited(old, c.items)
    [] c.tool = "replace" ->
         LinesReplaced(old, ToInt(c.start), ToInt(c.end), c.content)
    [] OTHER -> c.content

\* The text at some of the paths is changed, by caller p or by nobody of them.
Change(p, paths, new) ==
  /\ files' = [path \in Paths |-> IF path \in paths THEN new[path]
                                                    ELSE files[path]]
  /\ disturbed' = [q \in Callers |->
                     \/ disturbed[q]
                     \/ /\ q # p /\ pc[q] # "idle"
                        /\ call[q].path \in paths]

SameFiles == UNCHANGED <<files, disturbed>>

Close(p) == handle' = [handle EXCEPT ![p] = Nowhere]

Return(p, how) ==
  /\ pc' = [pc EXCEPT ![p] = "idle"]
  /\ result' = [result EXCEPT ![p] = how]
  /\ call' = [call EXCEPT ![p] = NoCall]
  /\ text' = [text EXCEPT ![p] = << >>]
  /\ before' = [before EXCEPT ![p] = Absent]
  /\ UNCHANGED <<calls, outside>>

Goto(p, step) ==
  /\ pc' = [pc EXCEPT ![p] = step]
  /\ UNCHANGED <<calls, outside, call, result, before>>

\* A call begins; arguments of other types are refused at once.
Begin(p, c) ==
  /\ pc[p] = "idle"
  /\ calls < MaxCalls                                   \* BOUND
  /\ calls' = calls + 1
  /\ pc' = [pc EXCEPT ![p] = CASE c \in Moves -> "move"
                               [] c \in Writes -> "show"
                               [] OTHER -> "read"]
  /\ call' = [call EXCEPT ![p] = c]
  /\ text' = [text EXCEPT ![p] = IF c \in Writes THEN c.content ELSE << >>]
  /\ before' = [before EXCEPT ![p] = files[c.path]]
  /\ disturbed' = [disturbed EXCEPT ![p] = \E q \in Callers : handle[q] = c.path]
  /\ result' = [result EXCEPT ![p] = "none"]
  /\ UNCHANGED <<files, outside, handle>>

-----------------------------------------------------------------------------
(***************************************************************************)
(* Reading, and all that may refuse the call.                              *)
(***************************************************************************)
ReadFails(p) ==
  /\ pc[p] = "read"
  /\ Return(p, "unopened")
  /\ SameFiles /\ UNCHANGED handle

Refuse(p) ==
  /\ pc[p] = "read"
  /\ files[call[p].path] # Absent
  /\ Outcome(call[p], files[call[p].path]) \notin Texts
  /\ Return(p, "refused")
  /\ SameFiles /\ UNCHANGED handle

Accept(p) ==
  LET old == files[call[p].path]
      new == Outcome(call[p], old)
  IN
  /\ pc[p] = "read"
  /\ old # Absent /\ new \in Texts
  /\ text' = [text EXCEPT ![p] = new]
  /\ Goto(p, "show")
  /\ SameFiles /\ UNCHANGED handle

\* The difference is shown by a program that may be missing.
Throw(p) ==
  /\ pc[p] = "show" /\ call[p] \notin Writes
  /\ Return(p, "thrown")
  /\ SameFiles /\ UNCHANGED handle

-----------------------------------------------------------------------------
(***************************************************************************)
(* write_file of base/file.cc (32-40).                                     *)
(***************************************************************************)
OpenFails(p) ==
  /\ pc[p] = "show"
  /\ Return(p, "unopened")
  /\ SameFiles /\ UNCHANGED handle

\* Mutant of Open: the file is not truncated.
OpenAsIs(p) ==
  /\ pc[p] = "show"
  /\ Change(p, {call[p].path},
            [path \in Paths |-> IF files[path] = Absent THEN << >>
                                                        ELSE files[path]])
  /\ handle' = [handle EXCEPT ![p] = call[p].path]
  /\ Goto(p, "opened")
  /\ UNCHANGED text

\* The file is made, or made empty.
Open(p) ==
  /\ pc[p] = "show"
  /\ Change(p, {call[p].path}, [path \in Paths |-> << >>])
  /\ handle' = [handle EXCEPT ![p] = call[p].path]
  /\ Goto(p, "opened")
  /\ UNCHANGED text

\* n characters are written over what is there, and are all that happens.
Write(p, n) ==
  LET new(old) == SubSeq(text[p], 1, n) \o SubSeq(old, n + 1, Len(old))
  IN  IF handle[p] = Nowhere THEN SameFiles
      ELSE Change(p, {handle[p]}, [path \in {handle[p]} |-> new(files[path])])

Put(p) ==
  /\ pc[p] = "opened"
  /\ Write(p, Len(text[p]))
  /\ Return(p, "ok")
  /\ Close(p)

\* The disk is full, or the process is killed.
Break(p, how) ==
  /\ pc[p] = "opened"
  /\ \E n \in 0..Len(text[p]) : Write(p, n)
  /\ Return(p, how)
  /\ Close(p)

Die(p) ==
  /\ pc[p] \in {"read", "show", "move"}
  /\ Return(p, "killed")
  /\ SameFiles /\ UNCHANGED handle

-----------------------------------------------------------------------------
(***************************************************************************)
(* move_file (37-43): rename replaces what is at the destination, and open *)
(* files move along.                                                       *)
(***************************************************************************)
Rename(p) ==
  LET source == call[p].path
      destination == call[p].destination
      moved(q) == CASE handle[q] = source -> destination
                    [] handle[q] = destination -> Nowhere
                    [] OTHER -> handle[q]
  IN
  /\ pc[p] = "move"
  /\ files[source] # Absent
  /\ IF source = destination
     THEN SameFiles /\ UNCHANGED handle
     ELSE /\ Change(p, {source, destination},
                    [path \in Paths |-> IF path = source THEN Absent
                                                         ELSE files[source]])
          /\ handle' = [q \in Callers |-> moved(q)]
  /\ Return(p, "ok")

RenameFails(p) ==
  /\ pc[p] = "move"
  /\ Return(p, "refused")
  /\ SameFiles /\ UNCHANGED handle

-----------------------------------------------------------------------------
\* An editor, a command or the user writes or removes a file.
Outside(path, new) ==
  /\ outside < MaxOutside                               \* BOUND
  /\ outside' = outside + 1
  /\ Change(Nowhere, {path}, [other \in Paths |-> new])
  /\ handle' = [q \in Callers |->
                  IF new = Absent /\ handle[q] = path THEN Nowhere
                                                      ELSE handle[q]]
  /\ UNCHANGED <<calls, pc, call, text, result, before>>

-----------------------------------------------------------------------------
Init ==
  /\ files \in FirstFiles
  /\ calls = 0
  /\ outside = 0
  /\ pc = [p \in Callers |-> "idle"]
  /\ call = [p \in Callers |-> NoCall]
  /\ text = [p \in Callers |-> << >>]
  /\ handle = [p \in Callers |-> Nowhere]
  /\ result = [p \in Callers |-> "none"]
  /\ before = [p \in Callers |-> Absent]
  /\ disturbed = [p \in Callers |-> FALSE]

Reading(p) == ReadFails(p) \/ Refuse(p) \/ Accept(p) \/ Throw(p)

Writing(p) ==
  \/ OpenFails(p) \/ Open(p) \/ Put(p)
  \/ \E how \in {"broken", "killed"} : Break(p, how)

Next ==
  \/ \E p \in Callers :
       \/ \E c \in Calls : Begin(p, c)
       \/ Reading(p) \/ Writing(p) \/ Rename(p) \/ RenameFails(p) \/ Die(p)
  \/ \E path \in Paths, new \in OutsideTexts \cup {Absent} : Outside(path, new)

Spec == Init /\ [][Next]_vars

-----------------------------------------------------------------------------
(***************************************************************************)
(* Properties.                                                             *)
(*                                                                         *)
(* A call at whose file nobody else was at work does what it answers: the  *)
(* whole of what was asked, or nothing, or, once the file is open, a part  *)
(* from its beginning.                                                     *)
(***************************************************************************)
KeepsWord(p) ==
  LET new == files'[call[p].path]
  IN  CASE result'[p] = "ok" -> new = Outcome(call[p], before[p])
        [] result'[p] \in {"broken", "killed"} ->
             new = before[p] \/ IsPrefix(new, Outcome(call[p], before[p]))
        [] OTHER -> new = before[p]

CallsKeepTheirWord ==
  [][\A p \in Callers :
       /\ pc[p] \in {"read", "show", "opened"} /\ pc'[p] = "idle"
       /\ ~disturbed[p]
       => KeepsWord(p)]_vars

(***************************************************************************)
(* replace_lines changes the lines from start to end, and no other one.    *)
(***************************************************************************)
AtWork(p, tools) == pc[p] = "show" /\ ~disturbed[p] /\ call[p] \in tools

LinesAreReplaced ==
  \A p \in Callers : AtWork(p, Replacements) =>
    LET old == Lines(before[p])
        start == ToInt(call[p].start)
        end == ToInt(call[p].end)
    IN  Lines(text[p]) = SubSeq(old, 1, start - 1) \o Lines(Ended(call[p].content))
                           \o SubSeq(old, end + 1, Len(old))

(***************************************************************************)
(* edit_file makes one change per item, each at the first place where its  *)
(* search text is by then.                                                 *)
(***************************************************************************)
EditsAreApplied ==
  \A p \in Callers : AtWork(p, Edits) =>
    LET items == call[p].items
        after(k) == Edited(before[p], SubSeq(items, 1, k))
    IN  \A k \in DOMAIN items : IsEdit(after(k - 1), items[k], after(k))

(***************************************************************************)
(* A file that is read in chunks of lines is read as a whole.              *)
(***************************************************************************)
ChunksAddUp ==
  \A path \in Paths : files[path] # Absent =>
    \A limit \in 1..2 : InChunks(files[path], limit) = files[path]

(***************************************************************************)
(* A move to another path fails if that exists (move_file.cc 62).          *)
(***************************************************************************)
MoveKeepsDestination ==
  [][\A p \in Callers :
       /\ pc[p] = "move" /\ pc'[p] = "idle" /\ result'[p] = "ok"
       /\ call[p].destination # call[p].path
       => files[call[p].destination] = Absent]_vars
=============================================================================
