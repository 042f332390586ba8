----------------------------- MODULE SessionLog -----------------------------
(***************************************************************************)
(* What the chat history promises, whatever is underneath (history.h 18-60 *)
(* and 95-96): a log of sessions.                                          *)
(*                                                                         *)
(*   - a session appears whole, in one step, and never changes or goes;    *)
(*   - its session_id is unique;                                           *)
(*   - the session it continues, if any, was saved before it;              *)
(*   - only its topic is filled in later, at most once, and it is the      *)
(*     topic of that session's own messages.                               *)
(*                                                                         *)
(* ChatSession implements this log with one process at a time, and         *)
(* HistoryStore with several processes on one SQLite file.                 *)
(***************************************************************************)
EXTENDS Naturals, Sequences

CONSTANTS
  NoSession,   \* the empty session id
  NoTopic      \* the empty topic

VARIABLE
  log          \* the saved sessions, oldest first

Known == { log[i].id : i \in DOMAIN log }

Init == log = << >>

(***************************************************************************)
(* A session is saved.  A topic is written as the messages it sums up.     *)
(***************************************************************************)
Save ==
  /\ Len(log') = Len(log) + 1
  /\ \A i \in DOMAIN log : log'[i] = log[i]
  /\ LET saved == log'[Len(log) + 1]
     IN  /\ saved.id # NoSession
         /\ saved.id \notin Known
         /\ saved.parent \in Known \cup {NoSession}
         /\ saved.topic = NoTopic

Label ==
  \E i \in DOMAIN log :
    /\ log[i].topic = NoTopic
    /\ log' = [log EXCEPT ![i].topic = log[i].messages]

Next == Save \/ Label

Spec == Init /\ [][Next]_log
=============================================================================
