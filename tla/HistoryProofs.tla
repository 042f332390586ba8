--------------------------- MODULE HistoryProofs ---------------------------
(***************************************************************************)
(* Proofs about the history database, for any processes, ids, faults and   *)
(* bounds: the invariants of HistoryStore, and that its table is a         *)
(* SessionLog; and what the schema lacks after init_db (HistorySchema).    *)
(*                                                                         *)
(* Why an id that was returned is this conversation's row, and why a topic *)
(* goes to its own row, rests on more than the actions show: on which ids  *)
(* are free while a transaction is open, and on conversations being        *)
(* numbered apart.  IInv adds those facts.                                 *)
(***************************************************************************)
EXTENDS HistoryStore, HistorySchema, TLAPS

(***************************************************************************)
(* The inductive invariant.                                                *)
(***************************************************************************)
Saving == {"begun", "inserted", "refused", "topic"}

\* Inside the transaction a process has an id, and nobody's COMMIT of that
\* id has failed.
Drawn ==
  \A p \in Procs : phase[p] \in {"begun", "inserted"} =>
    session_id[p] \in Ids /\ session_id[p] \notin orphans

\* Before it, a process has none.
NotDrawn ==
  \A p \in Procs : phase[p] \notin Saving => session_id[p] = NoSession

\* The lock keeps the id of an inserted row free until the COMMIT.
InsertedIsNew ==
  \A p \in Procs : phase[p] = "inserted" => session_id[p] \notin Stored

UniqueIds ==
  \A i, j \in DOMAIN rows : rows[i].id = rows[j].id => i = j

OrphansNotStored == orphans \cap Stored = {}

ParentStored == \A p \in Procs : parent[p] \in Stored \cup {NoSession}

\* Conversations that are being saved have numbers of their own.
Numbered ==
  /\ \A p \in Procs : messages[p] <= conversations
  /\ \A p, q \in Procs :
       phase[p] \in Saving /\ phase[q] \in Saving /\ messages[p] = messages[q]
         => p = q

\* A topic is set once: while its process is at it, the row has none.
Untitled ==
  \A p \in Procs : phase[p] = "topic" =>
    \A i \in DOMAIN rows :
      rows[i].id = session_id[p] => rows[i].topic = NoTopic

IInv ==
  /\ TypeOK
  /\ LockDiscipline
  /\ Drawn
  /\ NotDrawn
  /\ InsertedIsNew
  /\ UniqueIds
  /\ OrphansNotStored
  /\ ParentStored
  /\ Numbered
  /\ Untitled
  /\ ReturnedMeansOwn

-----------------------------------------------------------------------------
(***************************************************************************)
(* What the two actions that write the table do to it.                     *)
(***************************************************************************)
LEMMA CommitAppends ==
  ASSUME TypeOK, Drawn, NEW p \in Procs, Commit(p)
  PROVE  /\ NewRow(p) \in Row
         /\ rows' \in Seq(Row)
         /\ Len(rows') = Len(rows) + 1
         /\ \A i \in DOMAIN rows : i \in DOMAIN rows' /\ rows'[i] = rows[i]
         /\ Len(rows) + 1 \in DOMAIN rows'
         /\ rows'[Len(rows) + 1] = NewRow(p)
         /\ \A i \in DOMAIN rows' : i \in DOMAIN rows \/ i = Len(rows) + 1
         /\ Stored' = Stored \cup {session_id[p]}
<1>1. NewRow(p) \in Row
  BY DEF NewRow, Row, TypeOK, Drawn, Commit
<1>2. rows' = Append(rows, NewRow(p)) /\ rows \in Seq(Row)
  BY DEF Commit, TypeOK
<1>3. NewRow(p).id = session_id[p]
  BY DEF NewRow
<1> HIDE DEF NewRow, Row
<1>4. /\ rows' \in Seq(Row)
      /\ Len(rows') = Len(rows) + 1
      /\ DOMAIN rows = 1..Len(rows)
      /\ DOMAIN rows' = 1..(Len(rows) + 1)
      /\ Len(rows) \in Nat
      /\ \A i \in DOMAIN rows : rows'[i] = rows[i]
      /\ rows'[Len(rows) + 1] = NewRow(p)
  BY <1>1, <1>2
<1>5. Stored' = Stored \cup {session_id[p]}
  <2>1. ASSUME NEW i \in DOMAIN rows' PROVE rows'[i].id \in Stored \cup {session_id[p]}
    BY <1>3, <1>4 DEF Stored
  <2>2. ASSUME NEW i \in DOMAIN rows PROVE rows[i].id \in Stored'
    <3>1. i \in DOMAIN rows' /\ rows'[i].id = rows[i].id
      BY <1>4
    <3> QED
      BY <3>1 DEF Stored
  <2>3. session_id[p] \in Stored'
    <3>1. Len(rows) + 1 \in DOMAIN rows' /\ rows'[Len(rows) + 1].id = session_id[p]
      BY <1>3, <1>4
    <3> QED
      BY <3>1 DEF Stored
  <2> QED
    BY <2>1, <2>2, <2>3 DEF Stored
<1> QED
  BY <1>1, <1>4, <1>5

LEMMA TopicKeepsRows ==
  ASSUME TypeOK, NEW p \in Procs, SetTopic(p)
  PROVE  /\ rows' \in Seq(Row)
         /\ Len(rows') = Len(rows)
         /\ DOMAIN rows' = DOMAIN rows
         /\ \A i \in DOMAIN rows :
              /\ rows'[i].id = rows[i].id
              /\ rows'[i].start = rows[i].start
              /\ rows'[i].parent = rows[i].parent
              /\ rows'[i].messages = rows[i].messages
              /\ i \notin Labelled(p) => rows'[i] = rows[i]
              /\ i \in Labelled(p) =>
                   rows'[i] = [rows[i] EXCEPT !.topic = messages[p]]
         /\ Stored' = Stored
<1>1. /\ rows \in Seq(Row)
      /\ messages[p] \in Nat
      /\ rows' = [i \in DOMAIN rows |->
                    IF i \in Labelled(p)
                    THEN [rows[i] EXCEPT !.topic = messages[p]]
                    ELSE rows[i]]
  BY DEF SetTopic, TypeOK
<1>2. /\ DOMAIN rows' = DOMAIN rows
      /\ DOMAIN rows = 1..Len(rows)
      /\ Len(rows) \in Nat
      /\ \A i \in DOMAIN rows : rows[i] \in Row
  BY <1>1
<1>3. ASSUME NEW i \in DOMAIN rows
      PROVE  /\ rows'[i] \in Row
             /\ rows'[i].id = rows[i].id
             /\ rows'[i].start = rows[i].start
             /\ rows'[i].parent = rows[i].parent
             /\ rows'[i].messages = rows[i].messages
             /\ i \notin Labelled(p) => rows'[i] = rows[i]
             /\ i \in Labelled(p) =>
                  rows'[i] = [rows[i] EXCEPT !.topic = messages[p]]
  BY <1>1, <1>2 DEF Row
<1>4. rows' \in Seq(Row) /\ Len(rows') = Len(rows)
  BY <1>1, <1>2, <1>3
<1>5. Stored' = Stored
  BY <1>2, <1>3 DEF Stored
<1> QED
  BY <1>2, <1>3, <1>4, <1>5

-----------------------------------------------------------------------------
LEMMA InitIInv == Init => IInv
<1> SUFFICES ASSUME Init PROVE IInv
  OBVIOUS
<1> USE DEF Init
<1>1. TypeOK
  BY DEF TypeOK, Phases
<1>2. LockDiscipline
  BY NoneAssumption, NoProcAssumption DEF LockDiscipline
<1>3. Drawn /\ NotDrawn /\ InsertedIsNew /\ Untitled /\ ReturnedMeansOwn
  BY DEF Drawn, NotDrawn, InsertedIsNew, Untitled, ReturnedMeansOwn
<1>4. UniqueIds /\ OrphansNotStored /\ ParentStored /\ Numbered
  BY DEF UniqueIds, OrphansNotStored, ParentStored, Numbered, Saving
<1> QED
  BY <1>1, <1>2, <1>3, <1>4 DEF IInv

(***************************************************************************)
(* Types.  Commit needs Drawn: an empty id must not become a row's.        *)
(***************************************************************************)
LEMMA TypeStep == TypeOK /\ Drawn /\ [Next]_vars => TypeOK'
<1> SUFFICES ASSUME TypeOK, Drawn, [Next]_vars PROVE TypeOK'
  OBVIOUS
<1>1. CASE Tick
  BY <1>1, BoundsAssumption DEF Tick, TypeOK
<1>2. ASSUME NEW p \in Procs, Open(p) PROVE TypeOK'
  BY <1>2 DEF Open, TypeOK, Goto, Phases
<1>3. ASSUME NEW p \in Procs,
             LoadNothing(p) \/ LoadLast(p) \/ LoadFrom(p)
      PROVE  TypeOK'
  <2>1. \A i \in DOMAIN rows : rows[i].id \in Ids
    <3>1. \A i \in DOMAIN rows : rows[i] \in Row
      BY DEF TypeOK
    <3> QED
      BY <3>1 DEF Row
  <2>2. PICK from : from \in Ids \cup {NoSession} /\ Load(p, from)
    <3>1. CASE LoadNothing(p)
      BY <3>1 DEF LoadNothing
    <3>2. CASE LoadLast(p)
      BY <2>1, <3>2 DEF LoadLast, Newest
    <3>3. CASE LoadFrom(p)
      BY <2>1, <3>3 DEF LoadFrom, Stored
    <3> QED
      BY <1>3, <3>1, <3>2, <3>3
  <2> QED
    BY <2>2 DEF Load, TypeOK, Goto, Phases
<1>4. ASSUME NEW p \in Procs, BeginSave(p) PROVE TypeOK'
  BY <1>4 DEF BeginSave, Converse, TypeOK, Goto, Phases
<1>5. ASSUME NEW p \in Procs, SaveNowhere(p) PROVE TypeOK'
  BY <1>5 DEF SaveNowhere, Converse, TypeOK, Goto, Phases
<1>6. ASSUME NEW p \in Procs, Insert(p) PROVE TypeOK'
  BY <1>6 DEF Insert, TypeOK, Goto, Phases
<1>7. ASSUME NEW p \in Procs,
             InsertDuplicate(p) \/ TimesOut(p) \/ InsertFails(p)
      PROVE  TypeOK'
  <2>1. CASE LeaveOpen(p)
    BY <2>1 DEF LeaveOpen, TypeOK, Goto, Phases
  <2>2. CASE Refuse(p)
    BY <2>2 DEF Refuse, Refused, TypeOK, Goto, Phases
  <2> QED
    BY <1>7, <2>1, <2>2 DEF InsertDuplicate, TimesOut, InsertFails
<1>8. ASSUME NEW p \in Procs, Commit(p) PROVE TypeOK'
  <2>1. rows' \in Seq(Row)
    BY <1>8, CommitAppends
  <2> QED
    BY <1>8, <2>1 DEF Commit, TypeOK, Goto, Phases
<1>9. ASSUME NEW p \in Procs, CommitFails(p) PROVE TypeOK'
  BY <1>9 DEF CommitFails, Drawn, TypeOK, Goto, Phases
<1>10. ASSUME NEW p \in Procs, SetTopic(p) PROVE TypeOK'
  <2>1. rows' \in Seq(Row)
    BY <1>10, TopicKeepsRows
  <2> QED
    BY <1>10, <2>1 DEF SetTopic, End, TypeOK, Goto, Phases
<1>11. ASSUME NEW p \in Procs, SkipTopic(p) \/ Crash(p) PROVE TypeOK'
  <2>1. CASE SkipTopic(p)
    BY <2>1 DEF SkipTopic, End, TypeOK, Goto, Phases
  <2>2. CASE Crash(p)
    BY <2>2 DEF Crash, End, TypeOK, Goto, Phases
  <2> QED
    BY <1>11, <2>1, <2>2
<1>12. ASSUME NEW p \in Procs, Rollback(p) PROVE TypeOK'
  BY <1>12 DEF Rollback, Refused, TypeOK, Goto, Phases
<1>13. CASE UNCHANGED vars
  BY <1>13 DEF vars, TypeOK
<1>14. ASSUME NEW p \in Procs, Step(p) PROVE TypeOK'
  BY <1>2, <1>3, <1>4, <1>5, <1>6, <1>7, <1>8, <1>9, <1>10, <1>11, <1>12, <1>14
     DEF Step, SaveStep
<1> QED
  BY <1>1, <1>13, <1>14 DEF Next

(***************************************************************************)
(* The lock.                                                               *)
(***************************************************************************)
LEMMA LockStep == TypeOK /\ LockDiscipline /\ [Next]_vars => LockDiscipline'
<1> SUFFICES ASSUME TypeOK, LockDiscipline, [Next]_vars
             PROVE  LockDiscipline'
  OBVIOUS
<1> USE NoneAssumption, NoProcAssumption DEF TypeOK, LockDiscipline, Goto
<1>1. CASE Tick \/ UNCHANGED vars
  BY <1>1 DEF Tick, vars
<1>2. ASSUME NEW p \in Procs,
             Open(p) \/ LoadNothing(p) \/ LoadLast(p) \/ LoadFrom(p)
      PROVE  LockDiscipline'
  BY <1>2 DEF Open, LoadNothing, LoadLast, LoadFrom, Load
<1>3. ASSUME NEW p \in Procs, BeginSave(p) \/ SaveNowhere(p)
      PROVE  LockDiscipline'
  BY <1>3 DEF BeginSave, SaveNowhere
<1>4. ASSUME NEW p \in Procs, Insert(p) PROVE LockDiscipline'
  BY <1>4 DEF Insert
<1>5. ASSUME NEW p \in Procs,
             InsertDuplicate(p) \/ TimesOut(p) \/ InsertFails(p)
      PROVE  LockDiscipline'
  <2>1. CASE LeaveOpen(p)
    BY <2>1 DEF LeaveOpen
  <2>2. CASE Refuse(p)
    BY <1>5, <2>2 DEF InsertDuplicate, TimesOut, InsertFails, LeaveOpen, Refuse
  <2> QED
    BY <1>5, <2>1, <2>2 DEF InsertDuplicate, TimesOut, InsertFails
<1>6. ASSUME NEW p \in Procs, Commit(p) \/ CommitFails(p) \/ Rollback(p)
      PROVE  LockDiscipline'
  BY <1>6 DEF Commit, CommitFails, Rollback
<1>7. ASSUME NEW p \in Procs, SetTopic(p) \/ SkipTopic(p)
      PROVE  LockDiscipline'
  <2>1. phase[p] = "topic" /\ phase' = [phase EXCEPT ![p] = "idle"] /\ lock' = lock
    BY <1>7 DEF SetTopic, SkipTopic, End
  <2> QED
    BY <2>1
<1>8. ASSUME NEW p \in Procs, Crash(p) PROVE LockDiscipline'
  BY <1>8 DEF Crash, End
<1> QED
  BY <1>1, <1>2, <1>3, <1>4, <1>5, <1>6, <1>7, <1>8 DEF Next, Step, SaveStep

(***************************************************************************)
(* What the other actions have in common: they leave the rows alone, and   *)
(* with them every fact about rows only.                                   *)
(***************************************************************************)
LEMMA SameRows ==
  ASSUME NEW p \in Procs, Step(p), ~Commit(p), ~SetTopic(p)
  PROVE  rows' = rows /\ Stored' = Stored
<1>1. rows' = rows
  BY DEF Step, SaveStep, Open, LoadNothing, LoadLast, LoadFrom, Load,
         BeginSave, SaveNowhere, Insert, InsertDuplicate, TimesOut,
         InsertFails, LeaveOpen, Refuse, Rollback, CommitFails, SkipTopic, Crash
<1> QED
  BY <1>1 DEF Stored

(***************************************************************************)
(* Which ids are in use.                                                   *)
(***************************************************************************)
IdFacts == Drawn /\ NotDrawn /\ InsertedIsNew /\ UniqueIds /\ OrphansNotStored

LEMMA IdStep ==
  TypeOK /\ LockDiscipline /\ IdFacts /\ [Next]_vars => IdFacts'
<1> SUFFICES ASSUME TypeOK, LockDiscipline, IdFacts, [Next]_vars
             PROVE  IdFacts'
  OBVIOUS
<1> USE DEF IdFacts, Drawn, NotDrawn, InsertedIsNew, OrphansNotStored, Goto,
            Saving
<1>1. CASE Tick \/ UNCHANGED vars
  BY <1>1 DEF Tick, vars, Stored, UniqueIds
<1>2. ASSUME NEW p \in Procs, Step(p), ~Commit(p), ~SetTopic(p) PROVE IdFacts'
  <2>1. rows' = rows /\ Stored' = Stored /\ UniqueIds'
    BY <1>2, SameRows DEF UniqueIds
  <2>2. CASE Open(p) \/ LoadNothing(p) \/ LoadLast(p) \/ LoadFrom(p)
    BY <2>1, <2>2 DEF Open, LoadNothing, LoadLast, LoadFrom, Load, TypeOK
  <2>3. CASE BeginSave(p)
    BY <2>1, <2>3 DEF BeginSave, TypeOK
  <2>4. CASE SaveNowhere(p)
    BY <2>1, <2>4 DEF SaveNowhere, TypeOK
  <2>5. CASE Insert(p)
    BY <2>1, <2>5 DEF Insert, TypeOK
  <2>6. CASE InsertDuplicate(p) \/ TimesOut(p) \/ InsertFails(p)
    <3>1. CASE LeaveOpen(p)
      BY <2>1, <3>1 DEF LeaveOpen, TypeOK
    <3>2. CASE Refuse(p)
      BY <2>1, <3>2 DEF Refuse, Refused, TypeOK
    <3> QED
      BY <2>6, <3>1, <3>2 DEF InsertDuplicate, TimesOut, InsertFails
  <2>7. CASE CommitFails(p)
    BY <2>1, <2>7 DEF CommitFails, TypeOK
  <2>8. CASE SkipTopic(p)
    BY <2>1, <2>8 DEF SkipTopic, End, TypeOK
  <2>9. CASE Crash(p)
    BY <2>1, <2>9 DEF Crash, End, TypeOK
  <2>10. CASE Rollback(p)
    BY <2>1, <2>10 DEF Rollback, Refused, TypeOK
  <2> QED
    BY <1>2, <2>2, <2>3, <2>4, <2>5, <2>6, <2>7, <2>8, <2>9, <2>10
       DEF Step, SaveStep
<1>3. ASSUME NEW p \in Procs, Commit(p) PROVE IdFacts'
  <2>1. /\ phase' = [phase EXCEPT ![p] = "topic"]
        /\ phase[p] = "inserted"
        /\ session_id' = session_id /\ orphans' = orphans
        /\ Stored' = Stored \cup {session_id[p]}
        /\ session_id[p] \notin Stored /\ session_id[p] \notin orphans
    BY <1>3, CommitAppends DEF Commit
  <2>2. \A q \in Procs : phase[q] = "inserted" => q = p
    BY <2>1 DEF LockDiscipline
  <2>3. Drawn' /\ NotDrawn' /\ InsertedIsNew' /\ OrphansNotStored'
    BY <2>1, <2>2 DEF TypeOK
  <2>4. UniqueIds'
    <3>1. \A i \in DOMAIN rows : rows[i].id \in Stored
      BY DEF Stored
    <3>2. NewRow(p).id = session_id[p]
      BY DEF NewRow
    <3> QED
      BY <1>3, <2>1, <3>1, <3>2, CommitAppends DEF UniqueIds
  <2> QED
    BY <2>3, <2>4
<1>4. ASSUME NEW p \in Procs, SetTopic(p) PROVE IdFacts'
  <2>1. Stored' = Stored /\ UniqueIds'
    BY <1>4, TopicKeepsRows DEF UniqueIds
  <2> QED
    BY <1>4, <2>1 DEF SetTopic, End, TypeOK
<1> QED
  BY <1>1, <1>2, <1>3, <1>4 DEF Next

(***************************************************************************)
(* Every parent is a stored session.                                       *)
(***************************************************************************)
LEMMA ParentStep ==
  TypeOK /\ Drawn /\ ParentStored /\ [Next]_vars => ParentStored'
<1> SUFFICES ASSUME TypeOK, Drawn, ParentStored, [Next]_vars
             PROVE  ParentStored'
  OBVIOUS
<1> USE DEF ParentStored
<1>1. CASE Tick \/ UNCHANGED vars
  BY <1>1 DEF Tick, vars, Stored
<1>2. ASSUME NEW p \in Procs, Step(p) PROVE Stored \subseteq Stored'
  BY <1>2, SameRows, CommitAppends, TopicKeepsRows
<1>3. ASSUME NEW p \in Procs,
             LoadNothing(p) \/ LoadLast(p) \/ LoadFrom(p)
      PROVE  ParentStored'
  <2>1. PICK from \in Stored \cup {NoSession} : Load(p, from)
    BY <1>3 DEF LoadNothing, LoadLast, LoadFrom, Newest, Stored
  <2>2. Stored \subseteq Stored'
    BY <1>2, <1>3 DEF Step
  <2> QED
    BY <2>1, <2>2 DEF Load, TypeOK
<1>4. ASSUME NEW p \in Procs, Step(p),
             ~(LoadNothing(p) \/ LoadLast(p) \/ LoadFrom(p))
      PROVE  ParentStored'
  <2>1. parent' = parent \/ parent' = [parent EXCEPT ![p] = NoSession]
    BY <1>4 DEF Step, SaveStep, Open, BeginSave, SaveNowhere, Insert,
                InsertDuplicate, TimesOut, InsertFails, LeaveOpen, Refuse, Rollback, Commit,
                CommitFails, SetTopic, SkipTopic, Crash, End
  <2> QED
    BY <1>2, <1>4, <2>1 DEF TypeOK
<1> QED
  BY <1>1, <1>3, <1>4 DEF Next

(***************************************************************************)
(* The numbers of the conversations.                                       *)
(***************************************************************************)
LEMMA NumberedStep == TypeOK /\ Numbered /\ [Next]_vars => Numbered'
<1> SUFFICES ASSUME TypeOK, Numbered, [Next]_vars PROVE Numbered'
  OBVIOUS
<1> USE DEF Numbered, Saving, TypeOK, Goto
<1>1. CASE Tick \/ UNCHANGED vars
  BY <1>1 DEF Tick, vars
<1>2. ASSUME NEW p \in Procs,
             Open(p) \/ LoadNothing(p) \/ LoadLast(p) \/ LoadFrom(p)
      PROVE  Numbered'
  <2>1. PICK to \in {"opened", "chatting"} :
          phase' = [phase EXCEPT ![p] = to]
    BY <1>2 DEF Open, LoadNothing, LoadLast, LoadFrom, Load
  <2>2. messages' = messages /\ conversations' = conversations
    BY <1>2 DEF Open, LoadNothing, LoadLast, LoadFrom, Load
  <2> QED
    BY <2>1, <2>2
<1>3. ASSUME NEW p \in Procs, BeginSave(p) \/ SaveNowhere(p) PROVE Numbered'
  <2>1. PICK to \in Saving : phase' = [phase EXCEPT ![p] = to]
    BY <1>3 DEF BeginSave, SaveNowhere
  <2>2. /\ messages' = [messages EXCEPT ![p] = conversations + 1]
        /\ conversations' = conversations + 1
        /\ phase[p] = "chatting"
    BY <1>3 DEF BeginSave, SaveNowhere, Converse
  <2>3. \A q \in Procs : messages'[q] <= conversations'
    BY <2>2
  <2>4. \A q \in Procs :
          q # p => messages'[q] = messages[q] /\ phase'[q] = phase[q]
    BY <2>1, <2>2
  <2>5. \A q \in Procs : q # p => messages'[q] # messages'[p]
    BY <2>2, <2>4
  <2> QED
    BY <2>3, <2>4, <2>5
<1>4. ASSUME NEW p \in Procs,
             Insert(p) \/ InsertDuplicate(p) \/ TimesOut(p) \/ InsertFails(p)
               \/ Rollback(p)
      PROVE  Numbered'
  <2>1. PICK to \in Saving : phase' = [phase EXCEPT ![p] = to]
    BY <1>4 DEF Insert, InsertDuplicate, TimesOut, InsertFails, LeaveOpen, Refuse, Rollback
  <2>2. phase[p] \in Saving /\ UNCHANGED <<messages, conversations>>
    BY <1>4 DEF Insert, InsertDuplicate, TimesOut, InsertFails, LeaveOpen, Refuse, Rollback
  <2> QED
    BY <2>1, <2>2
<1>5. ASSUME NEW p \in Procs, Commit(p) \/ CommitFails(p) PROVE Numbered'
  BY <1>5 DEF Commit, CommitFails
<1>6. ASSUME NEW p \in Procs, SetTopic(p) \/ SkipTopic(p) \/ Crash(p)
      PROVE  Numbered'
  <2>1. /\ phase' = [phase EXCEPT ![p] = "idle"]
        /\ messages' = [messages EXCEPT ![p] = 0]
        /\ conversations' = conversations
    BY <1>6 DEF SetTopic, SkipTopic, Crash, End
  <2> QED
    BY <2>1
<1> QED
  BY <1>1, <1>2, <1>3, <1>4, <1>5, <1>6 DEF Next, Step, SaveStep

(***************************************************************************)
(* What create_session returned: this conversation's row, which has no     *)
(* topic yet.                                                              *)
(***************************************************************************)
OwnRow == Untitled /\ ReturnedMeansOwn

LEMMA OwnRowStep ==
  TypeOK /\ LockDiscipline /\ IdFacts /\ Numbered /\ OwnRow /\ [Next]_vars
    => OwnRow'
<1> SUFFICES ASSUME TypeOK, LockDiscipline, IdFacts, Numbered, OwnRow,
                    [Next]_vars
             PROVE  OwnRow'
  OBVIOUS
<1> USE DEF OwnRow, Goto
<1>1. CASE Tick \/ UNCHANGED vars
  BY <1>1 DEF Tick, vars, Untitled, ReturnedMeansOwn, Holds
\* The steps that do not touch what the two facts are about.
<1>2. ASSUME NEW p \in Procs, rows' = rows, orphans \subseteq orphans',
             \A q \in Procs : q # p =>
               /\ phase'[q] = phase[q]
               /\ session_id'[q] = session_id[q]
               /\ messages'[q] = messages[q]
               /\ parent'[q] = parent[q]
               /\ start'[q] = start[q],
             phase'[p] = "topic" => session_id'[p] \in orphans' \cup {NoSession},
             phase'[p] = "topic" => session_id'[p] \notin Stored
      PROVE  OwnRow'
  BY <1>2 DEF Untitled, ReturnedMeansOwn, Holds, Stored
<1>3. NoSession \notin Stored
  <2>1. \A i \in DOMAIN rows : rows[i] \in Row
    BY DEF TypeOK
  <2> QED
    BY <2>1, NoneAssumption, NoProcAssumption DEF Stored, Row
<1>4. ASSUME NEW p \in Procs,
             Open(p) \/ LoadNothing(p) \/ LoadLast(p) \/ LoadFrom(p)
      PROVE  OwnRow'
  <2>1. rows' = rows /\ orphans' = orphans /\ phase'[p] # "topic"
    BY <1>4 DEF Open, LoadNothing, LoadLast, LoadFrom, Load, TypeOK
  <2>2. \A q \in Procs : q # p =>
          /\ phase'[q] = phase[q]
          /\ session_id'[q] = session_id[q]
          /\ messages'[q] = messages[q]
          /\ parent'[q] = parent[q]
          /\ start'[q] = start[q]
    BY <1>4 DEF Open, LoadNothing, LoadLast, LoadFrom, Load, TypeOK
  <2> QED
    BY <1>2, <2>1, <2>2
<1>5. ASSUME NEW p \in Procs, BeginSave(p) \/ SaveNowhere(p) \/ Insert(p)
      PROVE  OwnRow'
  <2>1. rows' = rows /\ orphans' = orphans
    BY <1>5 DEF BeginSave, SaveNowhere, Insert
  <2>2. \A q \in Procs : q # p =>
          /\ phase'[q] = phase[q]
          /\ session_id'[q] = session_id[q]
          /\ messages'[q] = messages[q]
          /\ parent'[q] = parent[q]
          /\ start'[q] = start[q]
    BY <1>5 DEF BeginSave, SaveNowhere, Insert, Converse, TypeOK
  <2>3. phase'[p] = "topic" => session_id'[p] = NoSession
    BY <1>5 DEF BeginSave, SaveNowhere, Insert, TypeOK, IdFacts, NotDrawn,
                Saving
  <2> QED
    BY <1>2, <1>3, <2>1, <2>2, <2>3
<1>6. ASSUME NEW p \in Procs,
             InsertDuplicate(p) \/ TimesOut(p) \/ InsertFails(p) \/ Rollback(p)
      PROVE  OwnRow'
  <2>1. LeaveOpen(p) \/ Refuse(p) \/ Rollback(p)
    BY <1>6 DEF InsertDuplicate, TimesOut, InsertFails
  <2>2. /\ rows' = rows /\ orphans' = orphans
        /\ phase'[p] = "topic" => session_id'[p] = NoSession
    BY <2>1 DEF LeaveOpen, Refuse, Rollback, Refused, TypeOK
  <2>3. \A q \in Procs : q # p =>
          /\ phase'[q] = phase[q]
          /\ session_id'[q] = session_id[q]
          /\ messages'[q] = messages[q]
          /\ parent'[q] = parent[q]
          /\ start'[q] = start[q]
    BY <2>1 DEF LeaveOpen, Refuse, Rollback, TypeOK
  <2> QED
    BY <1>2, <1>3, <2>2, <2>3
<1>7. ASSUME NEW p \in Procs, CommitFails(p) PROVE OwnRow'
  <2>1. /\ rows' = rows /\ orphans \subseteq orphans'
        /\ session_id'[p] \in orphans'
        /\ session_id'[p] \notin Stored
    BY <1>7 DEF CommitFails, IdFacts, InsertedIsNew
  <2>2. \A q \in Procs : q # p =>
          /\ phase'[q] = phase[q]
          /\ session_id'[q] = session_id[q]
          /\ messages'[q] = messages[q]
          /\ parent'[q] = parent[q]
          /\ start'[q] = start[q]
    BY <1>7 DEF CommitFails, TypeOK
  <2> QED
    BY <1>2, <2>1, <2>2
<1>8. ASSUME NEW p \in Procs, SkipTopic(p) \/ Crash(p) PROVE OwnRow'
  <2>1. rows' = rows /\ orphans' = orphans /\ End(p)
    BY <1>8 DEF SkipTopic, Crash
  <2>2. \A q \in Procs : q # p =>
          /\ phase'[q] = phase[q]
          /\ session_id'[q] = session_id[q]
          /\ messages'[q] = messages[q]
          /\ parent'[q] = parent[q]
          /\ start'[q] = start[q]
    BY <2>1 DEF End, TypeOK
  <2>3. phase'[p] # "topic"
    BY <2>1 DEF End, TypeOK
  <2> QED
    BY <1>2, <2>1, <2>2, <2>3
<1>9. ASSUME NEW p \in Procs, Commit(p) PROVE OwnRow'
  <2>1. /\ phase' = [phase EXCEPT ![p] = "topic"]
        /\ phase[p] = "inserted"
        /\ UNCHANGED <<start, parent, messages, session_id, orphans>>
    BY <1>9 DEF Commit
  <2>2. /\ session_id[p] \notin Stored
        /\ session_id[p] \notin orphans
        /\ session_id[p] # NoSession
    BY <2>1, NoneAssumption, NoProcAssumption DEF IdFacts, InsertedIsNew, Drawn
  <2>3. /\ \A i \in DOMAIN rows : i \in DOMAIN rows' /\ rows'[i] = rows[i]
        /\ \A i \in DOMAIN rows' : i \in DOMAIN rows \/ i = Len(rows) + 1
        /\ Len(rows) + 1 \in DOMAIN rows'
        /\ rows'[Len(rows) + 1] = NewRow(p)
    BY <1>9, CommitAppends DEF IdFacts
  <2>4. /\ NewRow(p).id = session_id[p]
        /\ NewRow(p).topic = NoTopic
        /\ NewRow(p).messages = messages[p]
        /\ NewRow(p).parent = parent[p]
        /\ NewRow(p).start = start[p]
    BY DEF NewRow
  <2>5. \A i \in DOMAIN rows : rows[i].id \in Stored
    BY DEF Stored
  <2>6. \A q \in Procs : q # p => phase'[q] = phase[q]
    BY <2>1 DEF TypeOK
  \* Another process that is at its topic has another id.
  <2>7. ASSUME NEW q \in Procs, q # p, phase[q] = "topic"
        PROVE  session_id[q] # session_id[p]
    <3>1. CASE session_id[q] \in orphans \cup {NoSession}
      BY <2>2, <3>1
    <3>2. CASE session_id[q] \notin orphans \cup {NoSession}
      <4>1. PICK i \in DOMAIN rows : Holds(i, q)
        BY <2>7, <3>2 DEF ReturnedMeansOwn
      <4> QED
        BY <2>2, <2>5, <4>1 DEF Holds
    <3> QED
      BY <3>1, <3>2
  <2>8. Untitled'
    BY <2>1, <2>2, <2>3, <2>4, <2>5, <2>6, <2>7 DEF Untitled
  <2>9. ReturnedMeansOwn'
    <3> SUFFICES ASSUME NEW q \in Procs, phase'[q] = "topic",
                        session_id'[q] \notin orphans' \cup {NoSession}
                 PROVE  \E i \in DOMAIN rows' : Holds(i, q)'
      BY DEF ReturnedMeansOwn
    <3>1. CASE q = p
      BY <2>1, <2>3, <2>4, <3>1 DEF Holds
    <3>2. CASE q # p
      <4>1. PICK i \in DOMAIN rows : Holds(i, q)
        BY <2>1, <2>6, <3>2 DEF ReturnedMeansOwn
      <4> QED
        BY <2>1, <2>3, <4>1 DEF Holds
    <3> QED
      BY <3>1, <3>2
  <2> QED
    BY <2>8, <2>9
<1>10. ASSUME NEW p \in Procs, SetTopic(p) PROVE OwnRow'
  <2>1. phase[p] = "topic" /\ End(p) /\ orphans' = orphans
    BY <1>10 DEF SetTopic
  <2>2. \A q \in Procs : q # p =>
          /\ phase'[q] = phase[q]
          /\ session_id'[q] = session_id[q]
          /\ messages'[q] = messages[q]
          /\ parent'[q] = parent[q]
          /\ start'[q] = start[q]
    BY <2>1 DEF End, TypeOK
  <2>3. phase'[p] # "topic"
    BY <2>1 DEF End, TypeOK
  <2>4. \A q \in Procs : phase'[q] = "topic" => q # p /\ phase[q] = "topic"
    BY <2>2, <2>3
  <2>5. /\ DOMAIN rows' = DOMAIN rows
        /\ \A i \in DOMAIN rows :
             /\ rows'[i].id = rows[i].id
             /\ rows'[i].start = rows[i].start
             /\ rows'[i].parent = rows[i].parent
             /\ rows'[i].messages = rows[i].messages
             /\ i \notin Labelled(p) => rows'[i] = rows[i]
    BY <1>10, TopicKeepsRows
  \* No other process is at the topic of the same row.
  <2>6. ASSUME NEW q \in Procs, q # p, phase[q] = "topic",
               NEW i \in DOMAIN rows, rows[i].id = session_id[q]
        PROVE  i \notin Labelled(p)
    BY <1>3, <2>1, <2>6 DEF Labelled, ReturnedMeansOwn, Holds, Numbered,
         Saving, IdFacts, OrphansNotStored, UniqueIds, Stored
  <2>7. Untitled'
    BY <2>2, <2>4, <2>5, <2>6 DEF Untitled
  <2>8. ReturnedMeansOwn'
    <3> SUFFICES ASSUME NEW q \in Procs, phase'[q] = "topic",
                        session_id'[q] \notin orphans' \cup {NoSession}
                 PROVE  \E i \in DOMAIN rows' : Holds(i, q)'
      BY DEF ReturnedMeansOwn
    <3>1. PICK i \in DOMAIN rows : Holds(i, q)
      BY <2>1, <2>2, <2>4 DEF ReturnedMeansOwn
    <3> QED
      BY <2>2, <2>4, <2>5, <3>1 DEF Holds
  <2> QED
    BY <2>7, <2>8
<1>11. ASSUME NEW p \in Procs, Step(p) PROVE OwnRow'
  BY <1>4, <1>5, <1>6, <1>7, <1>8, <1>9, <1>10, <1>11 DEF Step, SaveStep
<1> QED
  BY <1>1, <1>11 DEF Next

LEMMA IInvStep == IInv /\ [Next]_vars => IInv'
BY TypeStep, LockStep, IdStep, ParentStep, NumberedStep, OwnRowStep
   DEF IInv, IdFacts, OwnRow

LEMMA Invariance == Spec => []IInv
<1>1. Init => IInv
  BY InitIInv
<1>2. IInv /\ [Next]_vars => IInv'
  BY IInvStep
<1> QED
  BY <1>1, <1>2, PTL DEF Spec

-----------------------------------------------------------------------------
(***************************************************************************)
(* The state always has its type: no row without an id, no dangling phase. *)
(***************************************************************************)
THEOREM TypeCorrect == Spec => []TypeOK
<1>1. IInv => TypeOK
  BY DEF IInv
<1> QED
  BY <1>1, Invariance, PTL

(***************************************************************************)
(* For any number of processes the write lock is held between the INSERT,  *)
(* done or refused, and the end of its transaction (history.cc 208-250),   *)
(* and at no other time: not while a topic is asked for, and by no process *)
(* that has ended.                                                         *)
(***************************************************************************)
THEOREM LockReleased == Spec => []LockDiscipline
<1>1. IInv => LockDiscipline
  BY DEF IInv
<1> QED
  BY <1>1, Invariance, PTL

(***************************************************************************)
(* Whatever ids the processes draw and however they interleave, the id     *)
(* that create_session (history.cc 241-250) returns is that of the row of  *)
(* this very conversation, unless its COMMIT failed.                       *)
(***************************************************************************)
THEOREM ReturnedIdIsOwn == Spec => []ReturnedMeansOwn
<1>1. IInv => ReturnedMeansOwn
  BY DEF IInv
<1> QED
  BY <1>1, Invariance, PTL

-----------------------------------------------------------------------------
(***************************************************************************)
(* The table is a SessionLog: a COMMIT saves, an UPDATE of the topic       *)
(* labels, and nothing else writes.                                        *)
(***************************************************************************)
LEMMA CommitSaves ==
  ASSUME IInv, NEW p \in Procs, Commit(p)
  PROVE  Log!Save
<1>1. /\ phase[p] = "inserted"
      /\ session_id[p] \in Ids
      /\ session_id[p] \notin Stored
      /\ parent[p] \in Stored \cup {NoSession}
  BY DEF Commit, IInv, Drawn, InsertedIsNew, ParentStored
<1>2. /\ NewRow(p).id = session_id[p]
      /\ NewRow(p).parent = parent[p]
      /\ NewRow(p).topic = NoTopic
  BY DEF NewRow
<1>3. Stored = Log!Known
  BY DEF Stored, Log!Known
<1> QED
  BY <1>1, <1>2, <1>3, CommitAppends, NoneAssumption, NoProcAssumption DEF IInv, Log!Save

LEMMA TopicLabels ==
  ASSUME IInv, NEW p \in Procs, SetTopic(p)
  PROVE  Log!Label \/ rows' = rows
<1> USE DEF IInv
<1>1. DOMAIN rows' = DOMAIN rows /\ rows \in Seq(Row) /\ rows' \in Seq(Row)
  BY TopicKeepsRows DEF TypeOK
<1>2. CASE Labelled(p) = {}
  <2>1. \A i \in DOMAIN rows : rows'[i] = rows[i]
    BY <1>2, TopicKeepsRows
  <2> QED
    BY <1>1, <2>1
<1>3. CASE Labelled(p) # {}
  <2>1. PICK i \in DOMAIN rows : rows[i].id = session_id[p]
    BY <1>3 DEF Labelled
  <2>2. Labelled(p) = {i}
    BY <2>1 DEF Labelled, UniqueIds
  <2>3. rows[i].topic = NoTopic
    BY <2>1 DEF SetTopic, Untitled
  \* The row is there, so its id is nobody's failed COMMIT.
  <2>4. session_id[p] \notin orphans \cup {NoSession}
    <3>1. rows[i] \in Row
      BY <1>1
    <3> QED
      BY <2>1, <3>1, NoneAssumption, NoProcAssumption DEF OrphansNotStored, Stored, Row
  <2>5. rows[i].messages = messages[p]
    <3>1. PICK j \in DOMAIN rows : Holds(j, p)
      BY <2>4 DEF SetTopic, ReturnedMeansOwn
    <3> QED
      BY <2>1, <3>1 DEF Holds, UniqueIds
  <2>6. rows' = [rows EXCEPT ![i].topic = rows[i].messages]
    <3>1. rows'[i] = [rows[i] EXCEPT !.topic = rows[i].messages]
      BY <2>2, <2>5, TopicKeepsRows
    <3>2. \A k \in DOMAIN rows : k # i => rows'[k] = rows[k]
      BY <2>2, TopicKeepsRows
    <3> QED
      BY <1>1, <3>1, <3>2
  <2> QED
    BY <2>3, <2>6 DEF Log!Label
<1> QED
  BY <1>2, <1>3

(***************************************************************************)
(* HistoryStore implements SessionLog: however many processes share the    *)
(* file, crash in it or time out on it, sessions appear whole and stay,    *)
(* their ids are unique, a parent was there before its child, and a topic  *)
(* is set once, to that of its own session.                                *)
(***************************************************************************)
THEOREM ImplementsLog == Spec => LogSpec
<1>1. Init => Log!Init
  BY DEF Init, Log!Init
<1>2. IInv /\ [Next]_vars => [Log!Next]_rows
  <2> SUFFICES ASSUME IInv, [Next]_vars PROVE [Log!Next]_rows
    OBVIOUS
  <2>1. CASE Tick \/ UNCHANGED vars
    BY <2>1 DEF Tick, vars
  <2>2. ASSUME NEW p \in Procs, Commit(p) PROVE [Log!Next]_rows
    BY <2>2, CommitSaves DEF Log!Next
  <2>3. ASSUME NEW p \in Procs, SetTopic(p) PROVE [Log!Next]_rows
    BY <2>3, TopicLabels DEF Log!Next
  <2>4. ASSUME NEW p \in Procs, Step(p), ~Commit(p), ~SetTopic(p)
        PROVE  [Log!Next]_rows
    BY <2>4, SameRows
  <2> QED
    BY <2>1, <2>2, <2>3, <2>4 DEF Next
<1> QED
  BY <1>1, <1>2, Invariance, PTL DEF Spec, LogSpec, Log!Spec

-----------------------------------------------------------------------------
(***************************************************************************)
(* The schema.  Every statement before the one a process is at has made    *)
(* its object or failed, and init_db returns at the last one, or at a      *)
(* table that could not be created.                                        *)
(***************************************************************************)
LEMMA SchemaParameters ==
  /\ NoProc \notin Procs
  /\ \A s \in OldSchemas : s \subseteq Objects
  /\ MaxRuns \in Nat
BY NoProcAssumption, SchemasAssumption, RunsAssumption

SettledBefore(p) ==
  \A i \in 1..9 : i < at[p] => Statements[i] \in schema \cup failed[p]

SettledAt(p) ==
  stage[p] = "ready" =>
    /\ Statement(p) \in schema \cup failed[p]
    /\ at[p] = 9 \/ Statement(p) \in Tables \cap failed[p]

SchemaInv == SchemaTypeOK /\ \A p \in Procs : SettledBefore(p) /\ SettledAt(p)

LEMMA StatementsAre ==
  /\ DOMAIN Statements = 1..9
  /\ Len(Statements) = 9
  /\ \A i \in 1..9 : Statements[i] \in Objects
<1>1. DOMAIN Statements = 1..9
  BY DEF Statements
<1>2. Len(Statements) = 9
  BY DEF Statements
<1>3. \A i \in 1..9 : Statements[i] \in Objects
  BY <1>1, Zenon DEF Objects
<1> QED BY <1>1, <1>2, <1>3

LEMMA ColumnsAreObjects == Columns \subseteq Objects
<1>1. /\ Statements[4] = "topic" /\ Statements[5] = "url" /\ Statements[6] = "model"
      /\ Statements[7] = "work_dir" /\ Statements[8] = "parent_id"
  BY DEF Statements
<1> QED BY <1>1, StatementsAre DEF Columns

LEMMA SchemaInitially == ASSUME SchemaInit PROVE SchemaInv
<1>1. schema \in SUBSET Objects /\ journal \in {"delete", "wal"}
  BY SchemaParameters DEF SchemaInit
<1>2. SchemaTypeOK
  BY <1>1, SchemaParameters, StatementsAre DEF SchemaInit, SchemaTypeOK, Stages
<1>3. ASSUME NEW p \in Procs PROVE SettledBefore(p) /\ SettledAt(p)
  BY <1>3 DEF SchemaInit, SettledBefore, SettledAt
<1> QED BY <1>2, <1>3 DEF SchemaInv

\* What the lemmas below say of every action: a process other than p is where
\* it was, and the schema has only grown.
Only(p) ==
  /\ \A q \in Procs \ {p} :
       stage'[q] = stage[q] /\ at'[q] = at[q] /\ failed'[q] = failed[q]
  /\ schema \subseteq schema'

LEMMA OthersSettled ==
  ASSUME SchemaInv, NEW p \in Procs, Only(p), NEW q \in Procs \ {p}
  PROVE  SettledBefore(q)' /\ SettledAt(q)'
BY DEF SchemaInv, Only, SettledBefore, SettledAt, Statement

LEMMA GotoTo ==
  ASSUME SchemaTypeOK, NEW p \in Procs, NEW to \in Stages, Enter(p, to)
  PROVE  /\ stage'[p] = to
         /\ stage' \in [Procs -> Stages]
         /\ \A q \in Procs \ {p} : stage'[q] = stage[q]
BY DEF SchemaTypeOK, Enter

\* A step that leaves p at its statement and does not end init_db.
LEMMA StaysSettled ==
  ASSUME SchemaInv, NEW p \in Procs, NEW to \in Stages \ {"ready"}, Enter(p, to),
         UNCHANGED <<schema, at, failed>>
  PROVE  \A q \in Procs : SettledBefore(q)' /\ SettledAt(q)'
<1>1. /\ stage'[p] = to
      /\ \A q \in Procs \ {p} : stage'[q] = stage[q]
  BY GotoTo DEF SchemaInv
<1> QED BY <1>1 DEF SchemaInv, SettledBefore, SettledAt, Statement

LEMMA Advances ==
  ASSUME SchemaTypeOK, NEW p \in Procs, Advance(p)
  PROVE  /\ stage' \in [Procs -> Stages]
         /\ at' \in [Procs -> 1..9]
         /\ \A q \in Procs \ {p} : stage'[q] = stage[q] /\ at'[q] = at[q]
         /\ \/ stage'[p] = "ready" /\ at[p] = 9 /\ at'[p] = 9
            \/ stage'[p] # "ready" /\ at'[p] = at[p] + 1
<1>0. at \in [Procs -> 1..9]
  BY StatementsAre DEF SchemaTypeOK
<1>1. CASE at[p] = 9
  <2>1. Enter(p, "ready") /\ at' = at
    BY <1>1, StatementsAre DEF Advance
  <2> QED BY <1>0, <1>1, <2>1, GotoTo DEF Stages
<1>2. CASE at[p] # 9
  <2>1. at' = [at EXCEPT ![p] = at[p] + 1] /\ Enter(p, FirstStage(at[p] + 1))
    BY <1>2, StatementsAre DEF Advance
  <2>2. FirstStage(at[p] + 1) \in Stages \ {"ready"}
    BY DEF FirstStage, Stages
  <2>3. at[p] + 1 \in 1..9
    BY <1>0, <1>2
  <2> QED BY <1>0, <2>1, <2>2, <2>3, GotoTo
<1> QED BY <1>1, <1>2

\* The statement p was at is done, or has failed.
LEMMA AdvanceSettled ==
  ASSUME SchemaInv, NEW p \in Procs, Advance(p), Only(p), failed[p] \subseteq failed'[p],
         Statement(p) \in schema' \cup failed'[p]
  PROVE  \A q \in Procs : SettledBefore(q)' /\ SettledAt(q)'
<1>1. SettledBefore(p)' /\ SettledAt(p)'
  <2>1. at[p] \in 1..9 /\ SchemaTypeOK /\ SettledBefore(p) /\ schema \subseteq schema'
    BY StatementsAre DEF SchemaInv, SchemaTypeOK, Only
  <2>2. CASE stage'[p] = "ready" /\ at[p] = 9 /\ at'[p] = 9
    BY <2>1, <2>2 DEF SettledBefore, SettledAt, Statement
  <2>3. CASE stage'[p] # "ready" /\ at'[p] = at[p] + 1
    <3>1. \A i \in 1..9 : i < at'[p] => i < at[p] \/ i = at[p]
      BY <2>1, <2>3
    <3> QED BY <2>1, <2>3, <3>1 DEF SettledBefore, SettledAt, Statement
  <2> QED BY <2>1, <2>2, <2>3, Advances
<1> QED BY <1>1, OthersSettled

LEMMA StatementIsObject ==
  ASSUME SchemaTypeOK, NEW p \in Procs
  PROVE  Statement(p) \in Objects /\ at[p] \in 1..9
BY StatementsAre DEF SchemaTypeOK, Statement

LEMMA FailedKeeps ==
  ASSUME SchemaInv, NEW p \in Procs, Failed(p)
  PROVE  SchemaInv'
<1>1. /\ failed' = [failed EXCEPT ![p] = @ \cup {Statement(p)}]
      /\ lock' \in {lock, NoProc}
      /\ UNCHANGED <<journal, schema, runs>>
  BY DEF Failed
<1>2. SchemaTypeOK /\ Statement(p) \in Objects /\ at[p] \in 1..9
  BY StatementIsObject DEF SchemaInv
<1>3. /\ failed' \in [Procs -> SUBSET Objects]
      /\ failed'[p] = failed[p] \cup {Statement(p)}
      /\ \A q \in Procs \ {p} : failed'[q] = failed[q]
  BY <1>1, <1>2 DEF SchemaTypeOK
<1>4. CASE Statement(p) \in Tables
  <2>1. Enter(p, "ready") /\ at' = at
    BY <1>4 DEF Failed
  <2>2. /\ stage'[p] = "ready" /\ stage' \in [Procs -> Stages]
        /\ \A q \in Procs \ {p} : stage'[q] = stage[q]
    BY <1>2, <2>1, GotoTo DEF Stages
  <2>3. SchemaTypeOK'
    BY <1>1, <1>2, <1>3, <2>1, <2>2 DEF SchemaTypeOK
  <2>4. SettledBefore(p)' /\ SettledAt(p)'
    BY <1>1, <1>3, <1>4, <2>1, <2>2 DEF SettledBefore, SettledAt, Statement, SchemaInv
  <2>5. Only(p)
    BY <1>1, <1>3, <2>1, <2>2 DEF Only
  <2> QED BY <2>3, <2>4, <2>5, OthersSettled DEF SchemaInv
<1>5. CASE Statement(p) \notin Tables
  <2>1. Advance(p)
    BY <1>5 DEF Failed
  <2>2. SchemaTypeOK'
    BY <1>1, <1>2, <1>3, <2>1, Advances, StatementsAre DEF SchemaTypeOK
  <2>3. Only(p)
    BY <1>1, <1>2, <1>3, <2>1, Advances DEF Only
  <2> QED BY <1>3, <2>1, <2>2, <2>3, AdvanceSettled DEF SchemaInv
<1> QED BY <1>4, <1>5

\* Steps that neither make nor skip anything.
LEMMA WaitingKeeps ==
  ASSUME SchemaInv, NEW p \in Procs,
         NEW to \in Stages \ {"ready"}, Enter(p, to),
         UNCHANGED <<schema, at, failed>>,
         journal' \in {"delete", "wal"}, lock' \in Procs \cup {NoProc}, runs' \in 0..MaxRuns
  PROVE  SchemaInv'
<1>1. stage' \in [Procs -> Stages]
  BY GotoTo DEF SchemaInv
<1>2. SchemaTypeOK'
  BY <1>1 DEF SchemaTypeOK, SchemaInv
<1> QED BY <1>2, StaysSettled DEF SchemaInv

LEMMA SkipKeeps ==
  ASSUME SchemaInv, NEW p \in Procs, Advance(p),
         Statement(p) \in schema',
         failed' = failed, journal' = journal, runs' = runs, schema \subseteq schema',
         schema' \subseteq Objects, lock' \in Procs \cup {NoProc}
  PROVE  SchemaInv'
<1>1. SchemaTypeOK'
  BY Advances, StatementsAre DEF SchemaTypeOK, SchemaInv
<1>2. Only(p)
  BY Advances DEF Only, SchemaInv
<1> QED BY <1>1, <1>2, AdvanceSettled DEF SchemaInv

LEMMA GoneKeeps ==
  ASSUME SchemaInv, NEW p \in Procs, Gone(p), lock' \in {lock,
         NoProc}
  PROVE  SchemaInv'
<1>1. /\ stage'[p] = "idle" /\ stage' \in [Procs -> Stages]
      /\ \A q \in Procs \ {p} : stage'[q] = stage[q]
  BY GotoTo DEF Gone, Stages, SchemaInv
<1>2. /\ at' = [at EXCEPT ![p] = 1] /\ failed' = [failed EXCEPT ![p] = {}]
      /\ UNCHANGED <<journal, schema, runs>>
  BY DEF Gone
<1>3. SchemaTypeOK'
  BY <1>1, <1>2, StatementsAre DEF SchemaTypeOK, SchemaInv
<1>4. Only(p)
  BY <1>1, <1>2 DEF Only, SchemaTypeOK, SchemaInv
<1>5. SettledBefore(p)' /\ SettledAt(p)'
  BY <1>1, <1>2 DEF SettledBefore, SettledAt, SchemaTypeOK, SchemaInv
<1> QED BY <1>3, <1>4, <1>5, OthersSettled DEF SchemaInv

LEMMA SchemaStep ==
  ASSUME SchemaInv, [SchemaNext]_schemaVars PROVE SchemaInv'
<1>1. CASE UNCHANGED schemaVars
  BY <1>1 DEF schemaVars, SchemaInv, SchemaTypeOK, SettledBefore, SettledAt, Statement
<1>2. ASSUME NEW p \in Procs,
             OpenFile(p) \/ InitDb(p) \/ LookFails(p) \/ Breaks(p) \/ Close(p) \/ Die(p)
      PROVE  SchemaInv'
  <2>0. /\ journal \in {"delete", "wal"} /\ schema \subseteq Objects
        /\ lock \in Procs \cup {NoProc} /\ runs \in 0..MaxRuns
        /\ Statement(p) \in Objects
    BY StatementIsObject DEF SchemaInv, SchemaTypeOK
  <2>1. CASE OpenFile(p)
    <3>1. runs' \in 0..MaxRuns
      BY <2>0, <2>1, SchemaParameters DEF OpenFile
    <3> QED BY <2>0, <2>1, <3>1, WaitingKeeps DEF OpenFile, Stages
  <2>2. CASE BeginSwitch(p) \/ Switch(p)
    BY <2>0, <2>2, WaitingKeeps DEF BeginSwitch, Switch, Stages
  <2>3. CASE SetTimeout(p)
    BY <2>0, <2>3, WaitingKeeps DEF SetTimeout, FirstStage, Stages
  <2>4. CASE Look(p)
    <3>1. CASE Statement(p) \in schema
      BY <2>0, <2>4, <3>1, SkipKeeps DEF Look
    <3>2. CASE Statement(p) \notin schema
      BY <2>0, <2>4, <3>2, WaitingKeeps DEF Look, Stages
    <3> QED BY <3>1, <3>2
  <2>5. CASE AlreadyThere(p) \/ Duplicate(p)
    BY <2>0, <2>5, SkipKeeps DEF AlreadyThere, Duplicate
  <2>6. CASE BeginWrite(p) \/ LookFails(p)
    BY <2>0, <2>6, WaitingKeeps DEF BeginWrite, LookFails, Stages
  <2>7. CASE EndWrite(p)
    <3>1. schema' = schema \cup Made(Statement(p))
      BY <2>7 DEF EndWrite
    <3>2. Statement(p) \in Made(Statement(p))
      BY DEF Made
    <3>3. Made(Statement(p)) \subseteq Objects
      BY <2>0, ColumnsAreObjects DEF Made
    <3> QED BY <2>0, <2>7, <3>1, <3>2, <3>3, SkipKeeps DEF EndWrite
  <2>8. CASE StaysBusy(p) \/ Breaks(p)
    BY <2>8, FailedKeeps DEF StaysBusy, Breaks
  <2>9. CASE Close(p) \/ Die(p)
    BY <2>9, GoneKeeps DEF Close, Die
  <2> QED BY <1>2, <2>1, <2>2, <2>3, <2>4, <2>5, <2>6, <2>7, <2>8, <2>9 DEF InitDb
<1> QED BY <1>1, <1>2 DEF SchemaNext

LEMMA Explained ==
  ASSUME SchemaInv PROVE MissingIsExplained
<1> SUFFICES ASSUME NEW p \in Procs, NEW o \in Objects, stage[p] = "ready",
                    o \notin schema
             PROVE  o \in failed[p] \/ \E table \in failed[p] \cap Tables : EndedBy(table, o)
  BY DEF MissingIsExplained
<1>1. PICK j \in 1..9 : Statements[j] = o
  BY StatementsAre DEF Objects
<1>2. /\ Statement(p) \in schema \cup failed[p]
      /\ at[p] = 9 \/ Statement(p) \in Tables \cap failed[p]
      /\ SettledBefore(p)
      /\ at[p] \in 1..9
  BY StatementIsObject DEF SchemaInv, SettledAt
<1>3. CASE j < at[p]
  BY <1>1, <1>2, <1>3 DEF SettledBefore
<1>4. CASE j = at[p]
  BY <1>1, <1>2, <1>4 DEF Statement
<1>5. CASE at[p] < j
  <2>1. Statement(p) \in Tables \cap failed[p]
    BY <1>1, <1>2, <1>5
  <2>2. EndedBy(Statement(p), o)
    BY <1>1, <1>2, <1>5, StatementsAre DEF EndedBy, Statement
  <2> QED BY <2>1, <2>2
<1> QED BY <1>1, <1>2, <1>3, <1>4, <1>5

(***************************************************************************)
(* The invariant of the schema, and what follows from it.                  *)
(***************************************************************************)
THEOREM SchemaInvariance == SchemaSpec => []SchemaInv
<1>1. SchemaInit => SchemaInv
  BY SchemaInitially
<1>2. SchemaInv /\ [SchemaNext]_schemaVars => SchemaInv'
  BY SchemaStep
<1> QED BY <1>1, <1>2, PTL DEF SchemaSpec

\* The journal, the schema and the processes that make it have their types.
THEOREM SchemaTypes == SchemaSpec => []SchemaTypeOK
<1>1. SchemaInv => SchemaTypeOK
  BY DEF SchemaInv
<1> QED BY <1>1, SchemaInvariance, PTL

\* What is missing after init_db is explained by a statement of its own that
\* failed, however many processes migrate at once (history.cc 60-129).
THEOREM SchemaExplained == SchemaSpec => []MissingIsExplained
<1>1. SchemaInv => MissingIsExplained
  BY Explained
<1> QED BY <1>1, SchemaInvariance, PTL
=============================================================================
