---------------------------- MODULE HistoryFile ----------------------------
(***************************************************************************)
(* The history file, which every `ai` process opens: HistorySchema says    *)
(* how its tables are made, HistoryStore how sessions are saved in it.     *)
(***************************************************************************)
CONSTANTS
  Procs,  \* the processes
  NoProc  \* nobody holds the write lock

ASSUME NoProcAssumption == NoProc \notin Procs

VARIABLE
  lock    \* the process that holds SQLite's write lock, or NoProc
=============================================================================
