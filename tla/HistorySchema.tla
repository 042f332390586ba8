--------------------------- MODULE HistorySchema ---------------------------
(***************************************************************************)
(* The constructor of HistoryDB (history.cc 60-129, base/database.cc): the *)
(* tables, columns and indices a database must have before a session can   *)
(* be saved, made by every `ai` process anew, several at once, on files    *)
(* that an earlier version or a process that died left behind.             *)
(*                                                                         *)
(* SQLite is external.  A statement that writes holds the write lock of    *)
(* the file until it is committed; it is done wholly or not at all; one    *)
(* that finds the lock taken waits for the busy timeout and then fails.    *)
(* Under a rollback journal ("delete") readers wait for it, too.  The      *)
(* change to write-ahead logging ("wal") wants the file for itself, and    *)
(* init_db asks for it before there is a timeout.                          *)
(***************************************************************************)
EXTENDS HistoryFile, Naturals, Sequences, FiniteSets

CONSTANTS
  OldSchemas,  \* what is in the files that earlier versions left
  SchemaFaults,      \* what may go wrong, of SchemaFaultKinds
  MaxRuns,     \* BOUND: runs of `ai`
  MaxFailed    \* BOUND: statements that fail in one run

SchemaFaultKinds == {"busy", "io", "crash"}

(***************************************************************************)
(* What init_db makes, in this order: the columns are those of the legacy  *)
(* table "conversations", which is created with all of them.               *)
(***************************************************************************)
Statements ==
  <<"conversations_v1", "idx_start", "conversations",
    "topic", "url", "model", "work_dir", "parent_id", "idx_updated_at">>

Tables == {"conversations_v1", "conversations"}
Columns == {"topic", "url", "model", "work_dir", "parent_id"}
Objects == {Statements[i] : i \in DOMAIN Statements}

ASSUME SchemasAssumption ==
  \A s \in OldSchemas : s \subseteq Objects \ {"conversations_v1", "idx_start"}
ASSUME SchemaFaultsAssumption == SchemaFaults \subseteq SchemaFaultKinds
ASSUME RunsAssumption == MaxRuns \in Nat /\ MaxFailed \in Nat

VARIABLES
  journal,  \* the journal mode of the file, "delete" or "wal"
  schema,   \* the objects of its schema
  stage,    \* where each process is: see Stages
  at,       \* the statement it is at, an index of Statements
  failed,   \* ghost: its statements that failed with SQLITE_BUSY or an I/O error
  runs      \* runs so far

schemaVars == <<journal, schema, lock, stage, at, failed, runs>>

(***************************************************************************)
(* "switching" has a lock for the change of the journal and "switched"     *)
(* gives it back; "look" is before PRAGMA table_info and "exec" before any *)
(* other statement, which writes in "writing".                             *)
(***************************************************************************)
Stages == {"idle", "open", "switching", "switched", "look", "exec", "writing",
           "ready"}

SchemaTypeOK ==
  /\ journal \in {"delete", "wal"}
  /\ schema \in SUBSET Objects
  /\ lock \in Procs \cup {NoProc}
  /\ stage \in [Procs -> Stages]
  /\ at \in [Procs -> DOMAIN Statements]
  /\ failed \in [Procs -> SUBSET Objects]
  /\ runs \in 0..MaxRuns

Enter(p, to) == stage' = [stage EXCEPT ![p] = to]

Statement(p) == Statements[at[p]]

-----------------------------------------------------------------------------
(***************************************************************************)
(* A process opens the file (database.cc 26-46), which creates it.         *)
(***************************************************************************)
OpenFile(p) ==
  /\ stage[p] = "idle"
  /\ runs < MaxRuns
  /\ runs' = runs + 1
  /\ Enter(p, "open")
  /\ UNCHANGED <<journal, schema, lock, at, failed>>

(***************************************************************************)
(* PRAGMA journal_mode=WAL, whose failure nobody looks at.  It reads the   *)
(* file first, and fails at once if another has a lock when it wants the   *)
(* file for itself: of two that switch, each may see the other one.        *)
(***************************************************************************)
Switching(q) == stage[q] \in {"switching", "switched"}

Alone(p) == lock = NoProc /\ \A q \in Procs \ {p} : ~Switching(q)

BeginSwitch(p) ==
  /\ stage[p] = "open"
  /\ Enter(p, "switching")
  /\ UNCHANGED <<journal, schema, lock, at, failed, runs>>

Switch(p) ==
  /\ stage[p] = "switching"
  /\ journal' = IF Alone(p) THEN "wal" ELSE journal
  /\ Enter(p, "switched")
  /\ UNCHANGED <<schema, lock, at, failed, runs>>

(***************************************************************************)
(* The next statement: a column is looked for before it is added.          *)
(***************************************************************************)
FirstStage(i) == IF Statements[i] \in Columns THEN "look" ELSE "exec"

Advance(p) ==
  IF at[p] = Len(Statements)
  THEN /\ Enter(p, "ready")
       /\ UNCHANGED at
  ELSE /\ at' = [at EXCEPT ![p] = at[p] + 1]
       /\ Enter(p, FirstStage(at[p] + 1))

\* PRAGMA busy_timeout=5000, and foreign_keys: settings of the connection.
SetTimeout(p) ==
  /\ stage[p] = "switched"
  /\ Enter(p, FirstStage(at[p]))
  /\ UNCHANGED <<journal, schema, lock, at, failed, runs>>

-----------------------------------------------------------------------------
(***************************************************************************)
(* add_column_if_missing (history.cc 131-158).  A table_info that fails    *)
(* has found nothing, and the column is then added again.                  *)
(***************************************************************************)
\* Nobody may read under a rollback journal while another one writes.
KeptFromReading(p) == journal = "delete" /\ lock \notin {p, NoProc}

Look(p) ==
  /\ stage[p] = "look"
  /\ ~KeptFromReading(p)
  /\ IF Statement(p) \in schema
     THEN Advance(p)
     ELSE Enter(p, "exec") /\ UNCHANGED at
  /\ UNCHANGED <<journal, schema, lock, failed, runs>>

LookFails(p) ==
  /\ stage[p] = "look"
  /\ ("busy" \in SchemaFaults /\ KeptFromReading(p)) \/ "io" \in SchemaFaults
  /\ Enter(p, "exec")
  /\ UNCHANGED <<journal, schema, lock, at, failed, runs>>

\* What is there already needs no lock: CREATE ... IF NOT EXISTS does nothing.
AlreadyThere(p) ==
  /\ stage[p] = "exec"
  /\ Statement(p) \in schema \ Columns
  /\ ~KeptFromReading(p)
  /\ Advance(p)
  /\ UNCHANGED <<journal, schema, lock, failed, runs>>

\* Mutant of Duplicate: the failure ends init_db.
DuplicateReturns(p) ==
  /\ stage[p] = "exec"
  /\ Statement(p) \in schema \cap Columns
  /\ ~KeptFromReading(p)
  /\ Enter(p, "ready")
  /\ UNCHANGED <<journal, schema, lock, at, failed, runs>>

\* Mutant of Duplicate: the column is added again until that succeeds.
DuplicateAgain(p) ==
  /\ stage[p] = "exec"
  /\ Statement(p) \in schema \cap Columns
  /\ ~KeptFromReading(p)
  /\ UNCHANGED schemaVars

\* Between table_info and ALTER TABLE another process has added the column:
\* "duplicate column name", which nobody looks at either.
Duplicate(p) ==
  /\ stage[p] = "exec"
  /\ Statement(p) \in schema \cap Columns
  /\ ~KeptFromReading(p)
  /\ Advance(p)
  /\ UNCHANGED <<journal, schema, lock, failed, runs>>

-----------------------------------------------------------------------------
(***************************************************************************)
(* A statement that writes.                                                *)
(***************************************************************************)
BeginWrite(p) ==
  /\ stage[p] = "exec"
  /\ Statement(p) \notin schema
  /\ lock = NoProc
  /\ lock' = p
  /\ Enter(p, "writing")
  /\ UNCHANGED <<journal, schema, at, failed, runs>>

\* A new legacy table has every column.
Made(s) == IF s = "conversations" THEN {s} \cup Columns ELSE {s}

\* Under a rollback journal the commit waits for whoever reads.
KeptFromCommit(p) ==
  journal = "delete" /\ \E q \in Procs \ {p} : Switching(q)

EndWrite(p) ==
  /\ stage[p] = "writing"
  /\ ~KeptFromCommit(p)
  /\ schema' = schema \cup Made(Statement(p))
  /\ lock' = NoProc
  /\ Advance(p)
  /\ UNCHANGED <<journal, failed, runs>>

(***************************************************************************)
(* exec returns false (database.cc 68-78) and what was written is rolled   *)
(* back.  init_db returns if that was a table (history.cc 102-105 and      *)
(* 126-129) and goes on otherwise; the handle stays valid.                 *)
(***************************************************************************)
KeptFromWriting(p) ==
  lock \notin {p, NoProc} /\ (Statement(p) \notin schema \/ journal = "delete")

Failed(p) ==
  /\ Cardinality(failed[p]) < MaxFailed
  /\ lock' = IF lock = p THEN NoProc ELSE lock
  /\ failed' = [failed EXCEPT ![p] = @ \cup {Statement(p)}]
  /\ IF Statement(p) \in Tables
     THEN Enter(p, "ready") /\ UNCHANGED at
     ELSE Advance(p)
  /\ UNCHANGED <<journal, schema, runs>>

StaysBusy(p) ==
  /\ "busy" \in SchemaFaults
  /\ \/ stage[p] = "exec" /\ KeptFromWriting(p)
     \/ stage[p] = "writing" /\ KeptFromCommit(p)
  /\ Failed(p)

Breaks(p) ==
  /\ "io" \in SchemaFaults
  /\ stage[p] \in {"exec", "writing"}
  /\ Failed(p)

-----------------------------------------------------------------------------
(***************************************************************************)
(* A process ends when it has done what it came for, or dies wherever it   *)
(* is; the next one to open the file rolls its statement back.             *)
(***************************************************************************)
Gone(p) ==
  /\ Enter(p, "idle")
  /\ at' = [at EXCEPT ![p] = 1]
  /\ failed' = [failed EXCEPT ![p] = {}]
  /\ UNCHANGED <<journal, schema, runs>>

Close(p) == stage[p] = "ready" /\ Gone(p) /\ UNCHANGED lock

Die(p) ==
  /\ "crash" \in SchemaFaults
  /\ stage[p] \notin {"idle", "ready"}
  /\ lock' = IF lock = p THEN NoProc ELSE lock
  /\ Gone(p)

SchemaInit ==
  /\ schema \in {{}} \cup OldSchemas
  /\ journal \in IF schema = {} THEN {"delete"} ELSE {"delete", "wal"}
  /\ lock = NoProc
  /\ stage = [p \in Procs |-> "idle"]
  /\ at = [p \in Procs |-> 1]
  /\ failed = [p \in Procs |-> {}]
  /\ runs = 0

InitDb(p) ==
  \/ BeginSwitch(p) \/ Switch(p) \/ SetTimeout(p)
  \/ Look(p) \/ AlreadyThere(p) \/ Duplicate(p)
  \/ BeginWrite(p) \/ EndWrite(p) \/ StaysBusy(p)

SchemaNext ==
  \E p \in Procs :
    OpenFile(p) \/ InitDb(p) \/ LookFails(p) \/ Breaks(p) \/ Close(p) \/ Die(p)

(***************************************************************************)
(* A process inside init_db goes on: what it waits for is the lock, which  *)
(* the others give back or lose when they die, and it waits for no longer  *)
(* than the busy timeout.  That a disk breaks is not fair.                 *)
(***************************************************************************)
SchemaSpec == SchemaInit /\ [][SchemaNext]_schemaVars /\ \A p \in Procs : WF_schemaVars(InitDb(p))

-----------------------------------------------------------------------------
(***************************************************************************)
(* Whatever is missing when init_db returns is missing because its own     *)
(* statement failed, or that of a table, which ends it (history.cc 102-105 *)
(* and 126-129): not because another process was quicker, a table_info     *)
(* failed, or an earlier run died half way.  (Without "conversations_v1"   *)
(* the INSERT of create_session cannot be prepared, 220-223, and the       *)
(* session is lost.)                                                       *)
(***************************************************************************)
EndedBy(table, o) ==
  \E i, j \in DOMAIN Statements :
    Statements[i] = table /\ Statements[j] = o /\ i <= j

MissingIsExplained ==
  \A p \in Procs, o \in Objects :
    stage[p] = "ready" /\ o \notin schema =>
      o \in failed[p] \/ \E table \in failed[p] \cap Tables : EndedBy(table, o)

(***************************************************************************)
(* history.cc 72, "Enable WAL mode for concurrent multi-process access":   *)
(* when init_db returns the file is in that mode.  Two processes that ask  *)
(* for it at once may both be refused, and go on without it.               *)
(***************************************************************************)
WalForAll == \A p \in Procs : stage[p] = "ready" => journal = "wal"

(***************************************************************************)
(* init_db returns, whatever the others do or leave behind.                *)
(***************************************************************************)
InitDbReturns ==
  \A p \in Procs : stage[p] = "open" ~> stage[p] \in {"ready", "idle"}
=============================================================================
