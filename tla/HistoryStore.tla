---------------------------- MODULE HistoryStore ----------------------------
(***************************************************************************)
(* The chat history database (history.cc, base/database.cc) under several  *)
(* `ai chat` processes at once.  Each one opens the file, reads the        *)
(* session it continues, converses, saves its own session in a transaction *)
(* and then sets the topic of the row it wrote.                            *)
(*                                                                         *)
(* SQLite is external.  In WAL mode, which init_db asks for, a reader sees *)
(* what is committed and needs no lock; BEGIN TRANSACTION takes none       *)
(* either; the first write takes the write lock of the file, or fails when *)
(* the busy timeout runs out; COMMIT, ROLLBACK and the end of the process  *)
(* give it back, and only COMMIT leaves anything behind.                   *)
(***************************************************************************)
EXTENDS HistoryFile, Naturals, FiniteSets, SequencesExt

CONSTANTS
  Ids,               \* session ids generate_session_id may come up with
  NoSession,         \* the empty session id
  NoTopic,           \* the empty topic
  Faults,            \* what may go wrong, of FaultKinds
  MaxConversations,  \* BOUND: conversations that get as far as their save
  MaxClock           \* BOUND: seconds

FaultKinds == {"open", "busy", "io", "commit", "topic", "crash"}

Row == [id : Ids, start : Nat, parent : Ids \cup {NoSession}, messages : Nat,
        topic : Nat \cup {NoTopic}]

ASSUME NoneAssumption == NoSession \notin Ids /\ NoTopic \notin Nat
ASSUME FaultsAssumption == Faults \subseteq FaultKinds
ASSUME BoundsAssumption == MaxConversations \in Nat /\ MaxClock \in Nat

VARIABLES
  rows,           \* the committed rows of conversations_v1, by rowid
  phase,          \* where each process is: see Phases
  connected,      \* whether its database handle is valid
  start,          \* its start_ts
  parent,         \* id of the session it continues, or NoSession
  messages,       \* its conversation: a number of its own
  session_id,     \* the id it generated, then what create_session returned
  conversations,  \* conversations so far, to number them
  clock,          \* seconds since the epoch
  orphans         \* ghost: ids returned for rows whose COMMIT failed

vars == <<rows, lock, phase, connected, start, parent, messages, session_id,
          conversations, clock, orphans>>

(***************************************************************************)
(* "opened" is past the constructor of HistoryDB, "chatting" has loaded    *)
(* its history, "begun" is inside the transaction, "inserted" behind an    *)
(* INSERT that was done, "refused" behind one that failed and has the lock,*)
(* and create_session has returned in "topic".                             *)
(***************************************************************************)
Phases == {"idle", "opened", "chatting", "begun", "inserted", "refused", "topic"}

TypeOK ==
  /\ rows \in Seq(Row)
  /\ lock \in Procs \cup {NoProc}
  /\ phase \in [Procs -> Phases]
  /\ connected \in [Procs -> BOOLEAN]
  /\ start \in [Procs -> Nat]
  /\ parent \in [Procs -> Ids \cup {NoSession}]
  /\ messages \in [Procs -> Nat]
  /\ session_id \in [Procs -> Ids \cup {NoSession}]
  /\ conversations \in Nat
  /\ clock \in Nat
  /\ orphans \in SUBSET Ids

Stored == {rows[i].id : i \in DOMAIN rows}

Goto(p, to) == phase' = [phase EXCEPT ![p] = to]

\* The process ends; a new one will take its place.
End(p) ==
  /\ Goto(p, "idle")
  /\ connected' = [connected EXCEPT ![p] = FALSE]
  /\ start' = [start EXCEPT ![p] = 0]
  /\ parent' = [parent EXCEPT ![p] = NoSession]
  /\ messages' = [messages EXCEPT ![p] = 0]
  /\ session_id' = [session_id EXCEPT ![p] = NoSession]

-----------------------------------------------------------------------------
(***************************************************************************)
(* chat.cc 24-31: the start time, then the database.  When sqlite3_open_v2 *)
(* fails the handle stays null, and every operation returns at once.       *)
(***************************************************************************)
Open(p) ==
  /\ phase[p] = "idle"
  /\ start' = [start EXCEPT ![p] = clock]
  /\ \E ok \in BOOLEAN :
       /\ ok \/ "open" \in Faults
       /\ connected' = [connected EXCEPT ![p] = ok]
  /\ Goto(p, "opened")
  /\ UNCHANGED <<rows, lock, parent, messages, session_id, conversations,
                 clock, orphans>>

(***************************************************************************)
(* list_session_infos(1): ORDER BY start DESC LIMIT 1 (history.cc 306-367) *)
(* leaves it open which of two rows with the same start comes first.       *)
(***************************************************************************)
Newest ==
  {i \in DOMAIN rows : \A j \in DOMAIN rows : rows[j].start <= rows[i].start}

Load(p, from) ==
  /\ phase[p] = "opened"
  /\ parent' = [parent EXCEPT ![p] = from]
  /\ Goto(p, "chatting")
  /\ UNCHANGED <<rows, lock, connected, start, messages, session_id,
                 conversations, clock, orphans>>

\* No -C, or an id or a history that is not there.
LoadNothing(p) == Load(p, NoSession)

\* -C
LoadLast(p) == \E i \in Newest : connected[p] /\ Load(p, rows[i].id)

\* --continue-from: get_messages(id) has found the row.
LoadFrom(p) == \E id \in Stored : connected[p] /\ Load(p, id)

-----------------------------------------------------------------------------
(***************************************************************************)
(* create_session (history.cc 177-251).  The conversation is over; an id   *)
(* is generated and the transaction begun.  Ids are time and 64 random     *)
(* bits: any id may come up, also one that is taken.  Left out is a second *)
(* coincidence on top of a failed COMMIT: that two processes draw its id.  *)
(***************************************************************************)
Converse(p) ==
  /\ conversations < MaxConversations
  /\ conversations' = conversations + 1
  /\ messages' = [messages EXCEPT ![p] = conversations + 1]

BeginSave(p) ==
  /\ phase[p] = "chatting"
  /\ connected[p]
  /\ Converse(p)
  /\ \E id \in Ids \ orphans : session_id' = [session_id EXCEPT ![p] = id]
  /\ Goto(p, "begun")
  /\ UNCHANGED <<rows, lock, connected, start, parent, clock, orphans>>

\* history.cc 183-185: without a database there is nothing to save to.
SaveNowhere(p) ==
  /\ phase[p] = "chatting"
  /\ ~connected[p]
  /\ Converse(p)
  /\ Goto(p, "topic")
  /\ UNCHANGED <<rows, lock, connected, start, parent, session_id, clock,
                 orphans>>

\* Mutant of Refused: the id it generated all the same.
GeneratedId(p) == session_id[p]

\* What create_session returns when there is no row: the empty id.
Refused(p) == NoSession

NewRow(p) ==
  [id |-> session_id[p], start |-> start[p], parent |-> parent[p],
   messages |-> messages[p], topic |-> NoTopic]

(***************************************************************************)
(* The INSERT gets the write lock.  The row is kept back until the COMMIT; *)
(* an id that is taken violates UNIQUE, and the row is refused.            *)
(***************************************************************************)
Insert(p) ==
  /\ phase[p] = "begun"
  /\ lock = NoProc
  /\ session_id[p] \notin Stored
  /\ lock' = p
  /\ Goto(p, "inserted")
  /\ UNCHANGED <<rows, connected, start, parent, messages, session_id,
                 conversations, clock, orphans>>

\* The transaction ends with nothing to undo, and create_session returns.
Refuse(p) ==
  /\ session_id' = [session_id EXCEPT ![p] = Refused(p)]
  /\ Goto(p, "topic")
  /\ UNCHANGED <<rows, lock, connected, start, parent, messages,
                 conversations, clock, orphans>>

\* The INSERT got the lock and failed: its transaction is still open.
LeaveOpen(p) ==
  /\ lock = NoProc
  /\ lock' = p
  /\ Goto(p, "refused")
  /\ UNCHANGED <<rows, connected, start, parent, messages, session_id,
                 conversations, clock, orphans>>

\* Mutant of InsertDuplicate: the same row is tried again.
InsertAgain(p) ==
  /\ phase[p] = "begun"
  /\ lock = NoProc
  /\ session_id[p] \in Stored
  /\ UNCHANGED vars

InsertDuplicate(p) ==
  /\ phase[p] = "begun"
  /\ session_id[p] \in Stored
  /\ LeaveOpen(p)

\* The lock stays with another process until the timeout runs out
\* (history.cc 76).
TimesOut(p) ==
  /\ phase[p] = "begun"
  /\ lock # NoProc
  /\ "busy" \in Faults
  /\ Refuse(p)

\* The disk is full or broken: before the INSERT has the lock or with it.
\* SQLite may also end such a transaction by itself; ROLLBACK then fails.
InsertFails(p) ==
  /\ phase[p] = "begun"
  /\ "io" \in Faults
  /\ LeaveOpen(p) \/ Refuse(p)

\* Mutant of Rollback: the transaction stays open, no ROLLBACK is sent.
NoRollback(p) ==
  /\ phase[p] = "refused"
  /\ Refuse(p)

\* ~transaction (database.cc 192-196), on the way out of create_session.
Rollback(p) ==
  /\ phase[p] = "refused"
  /\ lock' = NoProc
  /\ session_id' = [session_id EXCEPT ![p] = Refused(p)]
  /\ Goto(p, "topic")
  /\ UNCHANGED <<rows, connected, start, parent, messages, conversations,
                 clock, orphans>>

Commit(p) ==
  /\ phase[p] = "inserted"
  /\ rows' = Append(rows, NewRow(p))
  /\ lock' = NoProc
  /\ Goto(p, "topic")
  /\ UNCHANGED <<connected, start, parent, messages, session_id,
                 conversations, clock, orphans>>

(***************************************************************************)
(* database.cc 187-196: a COMMIT that fails only leaves committed_ unset,  *)
(* so the row is rolled back, but history.cc 242-245 returns the id.       *)
(***************************************************************************)
CommitFails(p) ==
  /\ phase[p] = "inserted"
  /\ "commit" \in Faults
  /\ \A q \in Procs \ {p} : session_id[q] # session_id[p]
  /\ lock' = NoProc
  /\ orphans' = orphans \cup {session_id[p]}
  /\ Goto(p, "topic")
  /\ UNCHANGED <<rows, connected, start, parent, messages, session_id,
                 conversations, clock>>

-----------------------------------------------------------------------------
(***************************************************************************)
(* generate_topic has returned a topic, and set_topic (427-449) updates    *)
(* the row of the session in a transaction of its own.                     *)
(***************************************************************************)
\* Mutant of Labelled: the row that was saved last.
LabelledLast(p) == DOMAIN rows \cap {Len(rows)}

Labelled(p) == {i \in DOMAIN rows : rows[i].id = session_id[p]}

SetTopic(p) ==
  /\ phase[p] = "topic"
  /\ lock = NoProc
  /\ rows' = [i \in DOMAIN rows |->
                IF i \in Labelled(p)
                THEN [rows[i] EXCEPT !.topic = messages[p]]
                ELSE rows[i]]
  /\ End(p)
  /\ UNCHANGED <<lock, conversations, clock, orphans>>

\* There is no topic, or the UPDATE fails: that is logged and forgotten.
SkipTopic(p) ==
  /\ phase[p] = "topic"
  /\ \/ "busy" \in Faults /\ lock # NoProc
     \/ "topic" \in Faults
  /\ End(p)
  /\ UNCHANGED <<rows, lock, conversations, clock, orphans>>

(***************************************************************************)
(* The process ends where it is: by a signal, by LOG(FATAL) or, out of the *)
(* scope_exit, by std::terminate.  What is not committed is gone and the   *)
(* lock is free.                                                           *)
(***************************************************************************)
Crash(p) ==
  /\ phase[p] # "idle"
  /\ "crash" \in Faults
  /\ lock' = IF lock = p THEN NoProc ELSE lock
  /\ End(p)
  /\ UNCHANGED <<rows, conversations, clock, orphans>>

Tick ==
  /\ clock < MaxClock
  /\ clock' = clock + 1
  /\ UNCHANGED <<rows, lock, phase, connected, start, parent, messages,
                 session_id, conversations, orphans>>

-----------------------------------------------------------------------------
Init ==
  /\ rows = << >>
  /\ lock = NoProc
  /\ phase = [p \in Procs |-> "idle"]
  /\ connected = [p \in Procs |-> FALSE]
  /\ start = [p \in Procs |-> 0]
  /\ parent = [p \in Procs |-> NoSession]
  /\ messages = [p \in Procs |-> 0]
  /\ session_id = [p \in Procs |-> NoSession]
  /\ conversations = 0
  /\ clock = 0
  /\ orphans = {}

SaveStep(p) ==
  Insert(p) \/ InsertDuplicate(p) \/ TimesOut(p) \/ Rollback(p) \/ Commit(p)

Step(p) ==
  \/ Open(p) \/ LoadNothing(p) \/ LoadLast(p) \/ LoadFrom(p)
  \/ BeginSave(p) \/ SaveNowhere(p)
  \/ SaveStep(p) \/ InsertFails(p) \/ CommitFails(p)
  \/ SetTopic(p) \/ SkipTopic(p) \/ Crash(p)

Next == Tick \/ \E p \in Procs : Step(p)

(***************************************************************************)
(* A process inside create_session goes on: nothing there waits but the    *)
(* INSERT, and SQLite's busy handler gives up after five seconds.  That a  *)
(* disk breaks is not fair, so nothing is allowed to rely on it.           *)
(***************************************************************************)
Spec == Init /\ [][Next]_vars /\ \A p \in Procs : WF_vars(SaveStep(p))

-----------------------------------------------------------------------------
(***************************************************************************)
(* Properties.                                                             *)
(*                                                                         *)
(* The write lock is held between the INSERT, done or refused, and the end *)
(* of its transaction and nowhere else: every return of create_session     *)
(* gives it back (~transaction), so no process asks the server for a topic *)
(* while the others are locked out.                                        *)
(***************************************************************************)
LockDiscipline ==
  \A p \in Procs : lock = p <=> phase[p] \in {"inserted", "refused"}

(***************************************************************************)
(* An id that create_session returns is the id of this conversation's row, *)
(* with its parent and start, unless the COMMIT failed: not of another     *)
(* process's row when the insert was refused.                              *)
(***************************************************************************)
Holds(i, p) ==
  /\ rows[i].id = session_id[p]
  /\ rows[i].messages = messages[p]
  /\ rows[i].parent = parent[p]
  /\ rows[i].start = start[p]

ReturnedMeansOwn ==
  \A p \in Procs :
    phase[p] = "topic" /\ session_id[p] \notin orphans \cup {NoSession} =>
      \E i \in DOMAIN rows : Holds(i, p)

(***************************************************************************)
(* history.h 42, "create a new session and persist its messages in one     *)
(* step", and 57, "a unique session_id string": whoever gets an id has a   *)
(* stored session.  A COMMIT that fails breaks it.                         *)
(***************************************************************************)
ReturnedMeansStored ==
  \A p \in Procs :
    phase[p] = "topic" /\ session_id[p] # NoSession =>
      \E i \in DOMAIN rows : Holds(i, p)

(***************************************************************************)
(* args.cc 197, "-C: continue conversation from the last saved chat        *)
(* history".  The code takes the session that started last, which another  *)
(* one saved after it may have overtaken.  (Sessions of the same second    *)
(* are not told apart.)                                                    *)
(***************************************************************************)
ContinuesLastSaved ==
  [][\A p \in Procs : LoadLast(p) =>
       \E i \in DOMAIN rows :
         rows[i].id = parent'[p] /\ rows[i].start = Last(rows).start]_vars

(***************************************************************************)
(* The table is the log that SessionLog promises, whatever the processes   *)
(* interleave: rows appear whole and stay, ids are unique, a parent was    *)
(* there before its child, a topic is that of its own row.                 *)
(***************************************************************************)
Log == INSTANCE SessionLog WITH log <- rows

LogSpec == Log!Spec

(***************************************************************************)
(* create_session always returns: no order of transactions, refusals and   *)
(* crashes leaves a process waiting for the lock for good.                 *)
(***************************************************************************)
SaveReturns ==
  \A p \in Procs : phase[p] = "begun" ~> phase[p] \in {"topic", "idle"}
=============================================================================
