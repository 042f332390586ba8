---------------------------- MODULE UpdateProofs ----------------------------
(***************************************************************************)
(* Proofs about Update, for any versions, processes and bounds: however    *)
(* often `ai update` is run, and wherever a run fails or dies, a program   *)
(* that runs is left as long as runs do not overlap.                       *)
(***************************************************************************)
EXTENDS Update, TLAPS

USE VersionsAssumption, UnversionedAssumption, BoundsAssumption,
    AbsentAssumption DEF Nowhere

\* What a copy has written so far.
LEMMA HalfIsFile ==
  ASSUME NEW file \in File, NEW inode \in 0..MaxRuns
  PROVE  [file EXCEPT !.inode = inode, !.whole = FALSE] \in File
BY DEF File

LEMMA CopiedIsFile ==
  ASSUME TypeOK, NEW p \in Updaters, pc[p] = "copy"
  PROVE  /\ target[p] \in Paths /\ Opened(p) \in 0..MaxRuns
         /\ [new[p] EXCEPT !.inode = Opened(p), !.whole = FALSE] \in File
         /\ [new[p] EXCEPT !.inode = Opened(p), !.whole = FALSE] # Absent
<1>1. target[p] \in Paths /\ new[p] \in File
  BY DEF TypeOK, Replacing, Paths
<1>2. Opened(p) \in 0..MaxRuns
  BY <1>1 DEF Opened, TypeOK, File
<1>3. [new[p] EXCEPT !.inode = Opened(p), !.whole = FALSE] \in File
  BY <1>1, <1>2, HalfIsFile, Zenon
<1> QED
  BY <1>1, <1>2, <1>3, AbsentAssumption, Zenon

\* The same file when the copy is done.
LEMMA CompletedIsFile ==
  ASSUME NEW file \in File
  PROVE  /\ [file EXCEPT !.whole = TRUE] \in File
         /\ [file EXCEPT !.whole = TRUE] # Absent
         /\ [file EXCEPT !.whole = TRUE].inode = file.inode
         /\ [file EXCEPT !.whole = TRUE].version = file.version
         /\ [file EXCEPT !.whole = TRUE].executable = file.executable
         /\ [file EXCEPT !.whole = TRUE].whole
BY DEF File

(***************************************************************************)
(* The file that a copy is written to, as long as it has a path (copy_file *)
(* at update.cc 261, beside the remove and the renames at 256-259).        *)
(***************************************************************************)
OutputThere(p) == pc[p] = "copying" /\ output[p] # Nowhere => files[output[p]] # Absent

OutputOK == output \in [Updaters -> 0..Nowhere] /\ \A p \in Updaters : OutputThere(p)

\* Steps that take no path away.
LEMMA OutputStays ==
  ASSUME TypeOK, output' \in [Updaters -> 0..Nowhere],
         \A a \in Paths : files[a] # Absent => files'[a] # Absent,
         \A q \in Updaters :
           pc'[q] = "copying" => pc[q] = "copying" /\ output'[q] = output[q]
  PROVE  OutputOK'
<1>1. ASSUME NEW q \in Updaters, pc'[q] = "copying", output'[q] # Nowhere
      PROVE  files'[output'[q]] # Absent
  <2>1. /\ output[q] \in Paths /\ files[output[q]] # Absent /\ output'[q] = output[q]
    BY <1>1 DEF TypeOK, Paths
  <2> QED
    BY <2>1
<1> QED
  BY <1>1 DEF OutputOK, OutputThere

\* Steps that move a file from one path to another, or to none.
LEMMA OutputFollows ==
  ASSUME TypeOK, NEW from \in Paths, NEW to \in 0..Nowhere, from # to, Renamed(from, to),
         to # Nowhere /\ files[from] # Absent => files'[to] # Absent,
         \A a \in Paths \ {from, to} : files'[a] = files[a],
         \A q \in Updaters : pc'[q] = "copying" => pc[q] = "copying"
  PROVE  OutputOK'
<1>1. output' = [q \in Updaters |-> IF output[q] = from THEN to
                                   ELSE IF output[q] = to THEN Nowhere
                                   ELSE output[q]]
  BY DEF Renamed
<1>2. output' \in [Updaters -> 0..Nowhere]
  BY <1>1 DEF TypeOK
<1>3. ASSUME NEW q \in Updaters, pc'[q] = "copying", output'[q] # Nowhere
      PROVE  files'[output'[q]] # Absent
  <2>1. output'[q] = IF output[q] = from THEN to
                     ELSE IF output[q] = to THEN Nowhere ELSE output[q]
    BY <1>1
  <2>2. output[q] # Nowhere => output[q] \in Paths /\ files[output[q]] # Absent
    BY <1>3 DEF TypeOK, Paths
  <2> QED
    BY <1>3, <2>1, <2>2 DEF Paths
<1> QED
  BY <1>2, <1>3 DEF OutputOK, OutputThere

LEMMA OutputStep ==
  ASSUME TypeOK, [Next]_vars
  PROVE  OutputOK'
<1> USE DEF Same, SameRun, SameChoice, SameOutput, SameOutcome, Now
<1>1. CASE UNCHANGED vars
  BY <1>1 DEF vars, TypeOK, OutputOK, OutputThere
<1>2. ASSUME NEW p \in Updaters, NEW step, step # "copying",
             pc' = [pc EXCEPT ![p] = step],
             output' = output \/ output' = [output EXCEPT ![p] = Nowhere],
             \A a \in Paths : files[a] # Absent => files'[a] # Absent
      PROVE  OutputOK'
  <2>1. \A q \in Updaters :
          pc'[q] = "copying" => pc[q] = "copying" /\ output'[q] = output[q]
    BY <1>2 DEF TypeOK
  <2>2. output' \in [Updaters -> 0..Nowhere]
    BY <1>2 DEF TypeOK
  <2> QED
    BY <1>2, <2>1, <2>2, OutputStays
<1>3. ASSUME NEW p \in Updaters, Prepare(p) PROVE OutputOK'
  BY <1>2, <1>3 DEF Prepare, Start, Locate, Compare, Download, NoRelease, Extract,
                    ExtractFails, Finish
<1>4. ASSUME NEW p \in Updaters, Clear(p) PROVE OutputOK'
  <2>1. CASE target[p] < Depth
    <3>1. Backup(p) \in Paths /\ target[p] \in Paths
      BY <2>1 DEF Backup, TypeOK, Paths
    <3>2. files' = [files EXCEPT ![Backup(p)] = Absent] /\ Renamed(Backup(p), Nowhere)
      BY <1>4, <2>1 DEF Clear
    <3>3. \A a \in Paths \ {Backup(p), Nowhere} : files'[a] = files[a]
      BY <3>2 DEF TypeOK
    <3>4. \A q \in Updaters : pc'[q] = "copying" => pc[q] = "copying"
      BY <1>4 DEF Clear, TypeOK
    <3>5. Backup(p) # Nowhere /\ Nowhere \in 0..Nowhere
      BY <3>1 DEF Paths
    <3> QED
      BY <3>1, <3>2, <3>3, <3>4, <3>5, OutputFollows
  <2>2. CASE ~(target[p] < Depth)
    BY <1>2, <1>4, <2>2 DEF Clear
  <2> QED
    BY <2>1, <2>2
<1>5. ASSUME NEW p \in Updaters, MoveAside(p) PROVE OutputOK'
  <2>1. /\ target[p] \in Paths /\ Backup(p) \in Paths /\ Backup(p) # target[p]
        /\ Backup(p) \in 0..Nowhere /\ files[target[p]] # Absent
    BY <1>5 DEF MoveAside, Exists, Backup, TypeOK, Paths
  <2>2. /\ files' = [files EXCEPT ![Backup(p)] = files[target[p]], ![target[p]] = Absent]
        /\ Renamed(target[p], Backup(p))
    BY <1>5 DEF MoveAside
  <2>3. /\ \A a \in Paths \ {target[p], Backup(p)} : files'[a] = files[a]
        /\ files'[Backup(p)] # Absent
    BY <2>1, <2>2 DEF TypeOK
  <2>4. \A q \in Updaters : pc'[q] = "copying" => pc[q] = "copying"
    BY <1>5 DEF MoveAside, TypeOK
  <2> QED
    BY <2>1, <2>2, <2>3, <2>4, OutputFollows
<1>6. ASSUME NEW p \in Updaters, Place(p) PROVE OutputOK'
  <2>1. CASE files' = [files EXCEPT ![target[p]] = new[p]] /\ Renamed(target[p], Nowhere)
    <3>1. target[p] \in Paths /\ Nowhere \in 0..Nowhere /\ target[p] # Nowhere
      BY <1>6 DEF Place, TypeOK, Replacing, Paths
    <3>2. \A a \in Paths \ {target[p], Nowhere} : files'[a] = files[a]
      BY <2>1 DEF TypeOK
    <3>3. \A q \in Updaters : pc'[q] = "copying" => pc[q] = "copying"
      BY <1>6 DEF Place, TypeOK
    <3> QED
      BY <2>1, <3>1, <3>2, <3>3, OutputFollows
  <2>2. CASE Now(p, "copy") /\ UNCHANGED <<files, temp, output>>
    BY <1>2, <2>2
  <2> QED
    BY <1>6, <2>1, <2>2 DEF Place
<1>7. ASSUME NEW p \in Updaters, Copy(p) PROVE OutputOK'
  <2>1. target[p] \in Paths /\ target[p] \in 0..Nowhere
    BY <1>7 DEF Copy, TypeOK, Replacing, Paths
  <2> DEFINE half == [new[p] EXCEPT !.inode = Opened(p), !.whole = FALSE]
  <2>2. /\ files' = [files EXCEPT ![target[p]] = half]
        /\ output' = [output EXCEPT ![p] = target[p]]
        /\ pc' = [pc EXCEPT ![p] = "copying"]
    BY <1>7 DEF Copy
  <2>3. half # Absent
    <3>1. pc[p] = "copy"
      BY <1>7 DEF Copy
    <3> QED
      BY <3>1, CopiedIsFile, Zenon
  <2> HIDE DEF half
  <2>4. /\ files'[target[p]] # Absent
        /\ \A a \in Paths : files[a] # Absent => files'[a] # Absent
    BY <2>1, <2>2, <2>3 DEF TypeOK
  <2>5. /\ output' \in [Updaters -> 0..Nowhere]
        /\ output'[p] = target[p]
        /\ \A q \in Updaters : q # p => output'[q] = output[q] /\ pc'[q] = pc[q]
    BY <2>1, <2>2 DEF TypeOK
  <2>6. ASSUME NEW q \in Updaters, q # p PROVE OutputThere(q)'
    <3>1. output[q] # Nowhere => output[q] \in Paths
      BY DEF TypeOK, Paths
    <3> QED
      BY <2>4, <2>5, <2>6, <3>1 DEF OutputThere, TypeOK
  <2>7. OutputThere(p)'
    BY <2>4, <2>5 DEF OutputThere
  <2> QED
    BY <2>5, <2>6, <2>7 DEF OutputOK
<1>8. ASSUME NEW p \in Updaters, CopyDone(p) PROVE OutputOK'
  <2>1. \A a \in Paths : files[a] # Absent => files'[a] # Absent
    BY <1>8, CompletedIsFile DEF CopyDone, TypeOK
  <2> QED
    BY <1>2, <1>8, <2>1 DEF CopyDone, CloseOutput
<1>9. ASSUME NEW p \in Updaters, Permit(p) PROVE OutputOK'
  <2>1. target[p] \in Paths /\ files[target[p]] \in File
    BY <1>9 DEF Permit, Exists, TypeOK, Paths
  <2>2. [files[target[p]] EXCEPT !.executable = TRUE] \in File
    BY <2>1 DEF File
  <2>3. \A a \in Paths : files[a] # Absent => files'[a] # Absent
    BY <1>9, <2>1, <2>2 DEF Permit, TypeOK
  <2> QED
    BY <1>2, <1>9, <2>3 DEF Permit
<1>10. ASSUME NEW p \in Updaters, Discard(p) \/ Exec(p) \/ Throw(p) \/ Die(p)
       PROVE  OutputOK'
  BY <1>2, <1>10 DEF Discard, Exec, Throw, Die, Finish, CloseOutput
<1> QED
  BY <1>1, <1>3, <1>4, <1>5, <1>6, <1>7, <1>8, <1>9, <1>10 DEF Next, Replace

(***************************************************************************)
(* The type invariant (update.cc as a whole): a replacement knows a path,  *)
(* and has a program to put there.                                         *)
(***************************************************************************)
THEOREM TypeCorrect == Spec => []TypeOK
<1>1. Init => TypeOK
  <2> SUFFICES ASSUME Init PROVE TypeOK
    OBVIOUS
  <2> DEFINE installed(version) ==
        [inode |-> 0, version |-> version, whole |-> TRUE, executable |-> TRUE]
  <2>1. PICK version \in Programs :
          /\ files = [path \in Paths |->
                        IF path = 0 THEN installed(version) ELSE Absent]
          /\ image = [p \in Updaters |-> installed(version)]
          /\ latest = [p \in Updaters |-> version]
          /\ new = [p \in Updaters |-> installed(version)]
    BY DEF Init
  <2>2. installed(version) \in File
    BY DEF File
  <2> HIDE DEF installed
  <2>3. /\ files \in [Paths -> File \cup {Absent}]
        /\ image \in [Updaters -> File]
        /\ latest \in [Updaters -> Programs]
        /\ new \in [Updaters -> File]
    BY <2>1, <2>2
  <2>4. /\ overlapping \in BOOLEAN
        /\ runs = 0
        /\ pc = [p \in Updaters |-> "idle"]
        /\ run = [p \in Updaters |-> 0]
        /\ force = [p \in Updaters |-> FALSE]
        /\ target = [p \in Updaters |-> 0]
        /\ temp = [p \in Updaters |-> {}]
        /\ output = [p \in Updaters |-> Nowhere]
        /\ result = [p \in Updaters |-> "none"]
        /\ interrupted = FALSE
    BY DEF Init
  <2>5. /\ pc \in [Updaters -> Steps]
        /\ force \in [Updaters -> BOOLEAN]
        /\ temp \in [Updaters -> SUBSET Temporary]
        /\ result \in [Updaters -> Results]
    BY <2>4 DEF Steps, Results
  <2>6. /\ runs \in 0..MaxRuns
        /\ run \in [Updaters -> 0..runs]
        /\ target \in [Updaters -> 0..Nowhere]
        /\ output \in [Updaters -> 0..Nowhere]
    <3>1. Nowhere \in 0..Nowhere
      OBVIOUS
    <3> HIDE DEF Nowhere
    <3>2. 0 \in 0..Nowhere
      BY DEF Nowhere
    <3> QED
      BY <2>4, <3>1, <3>2
  <2>7. \A p \in Updaters : pc[p] = "idle"
    BY <2>4
  <2>8. /\ "idle" \notin Replacing /\ "idle" # "copying"
        /\ "idle" \notin {"clear", "aside", "place", "copy"}
    BY DEF Replacing
  <2>9. interrupted \in BOOLEAN
    BY <2>4
  <2> QED
    BY <2>3, <2>4, <2>5, <2>6, <2>7, <2>8, <2>9, Zenon DEF TypeOK
<1>2. TypeOK /\ [Next]_vars => TypeOK'
  <2> USE DEF Same, SameRun, SameChoice, SameOutput, SameOutcome, Now
  <2> SUFFICES ASSUME TypeOK, [Next]_vars
               PROVE  TypeOK'
    OBVIOUS
  <2>0. OutputOK'
    BY OutputStep
  <2>1. ASSUME NEW p \in Updaters, NEW path \in Paths, Start(p, path)
        PROVE  TypeOK'
    BY <2>0, <2>1, SMTT(30) DEF OutputOK, OutputThere, Start, Runs, TypeOK, File, Paths, Steps, Results, Temporary,
                Replacing
  <2>2. ASSUME NEW p \in Updaters, Locate(p) PROVE TypeOK'
    <3> DEFINE here == {path \in Paths : files[path] # Absent
                                         /\ files[path].inode = image[p].inode}
    <3>1. target' = [target EXCEPT ![p] =
             IF here = {} THEN Nowhere ELSE CHOOSE path \in here : TRUE]
      BY <2>2 DEF Locate
    <3>2. target' \in [Updaters -> 0..Nowhere]
      BY <2>2, <3>1 DEF Locate, TypeOK, Paths
    <3> QED
      BY <2>0, <2>2, <3>2 DEF OutputOK, OutputThere, Locate, TypeOK, Steps, Replacing
  <2>3. ASSUME NEW p \in Updaters, NEW how \in Results, Finish(p, how),
               SameRun, SameChoice, UNCHANGED files,
               interrupted' \in BOOLEAN
        PROVE  TypeOK'
    BY <2>0, <2>3 DEF OutputOK, OutputThere, Finish, TypeOK, Steps, Results, Temporary, Replacing
  <2>4. ASSUME NEW p \in Updaters, NEW version \in Versions,
               Compare(p, version)
        PROVE  TypeOK'
    <3>1. latest' \in [Updaters -> Programs]
      BY <2>4 DEF Compare, TypeOK, Programs
    <3>2. CASE Finish(p, "current")
      BY <2>0, <2>4, <3>1, <3>2
      DEF OutputOK, OutputThere, Compare, Finish, TypeOK, Steps, Results, Temporary, Replacing
    <3>3. CASE Now(p, "download") /\ SameOutcome
      BY <2>0, <2>4, <3>1, <3>3 DEF OutputOK, OutputThere, Compare, TypeOK, Steps, Replacing
    <3> QED
      BY <2>4, <3>2, <3>3 DEF Compare
  <2>5. ASSUME NEW p \in Updaters, Download(p) PROVE TypeOK'
    BY <2>0, <2>5 DEF OutputOK, OutputThere, Download, TypeOK, Steps, Temporary, Replacing
  <2>6. ASSUME NEW p \in Updaters, NoRelease(p) PROVE TypeOK'
    BY <2>3, <2>6 DEF NoRelease, Results, TypeOK
  <2>7. ASSUME NEW p \in Updaters, Extract(p) PROVE TypeOK'
    <3>1. new' \in [Updaters -> File]
      BY <2>7 DEF Extract, Extracted, TypeOK, File
    <3>2. temp' \in [Updaters -> SUBSET Temporary] /\ "new" \in temp'[p]
      <4>1. PICK others \in SUBSET {"other"} :
               temp' = [temp EXCEPT ![p] = {"archive", "dir", "new"}
                                             \cup others]
        BY <2>7 DEF Extract
      <4>2. {"archive", "dir", "new"} \cup others \in SUBSET Temporary
        BY DEF Temporary
      <4> QED
        BY <4>1, <4>2 DEF TypeOK
    <3>3. \A q \in Updaters : q # p => temp'[q] = temp[q]
      BY <2>7 DEF Extract, TypeOK
    <3>4. pc' = [pc EXCEPT ![p] = "clear"]
      BY <2>7 DEF Extract
    <3>5. \A q \in Updaters :
             pc'[q] \in {"clear", "aside", "place", "copy"} => "new" \in temp'[q]
      BY <3>2, <3>3, <3>4 DEF TypeOK
    <3> QED
      BY <2>0, <2>7, <3>1, <3>2, <3>4, <3>5 DEF OutputOK, OutputThere, Extract, TypeOK, Steps, Replacing
  <2>8. ASSUME NEW p \in Updaters, ExtractFails(p) PROVE TypeOK'
    <3>1. PICK left \in SUBSET {"new", "other"} :
             IF left = {} THEN Finish(p, "failed")
             ELSE /\ Now(p, "idle")
                  /\ result' = [result EXCEPT ![p] = "terminated"]
                  /\ temp' = [temp EXCEPT ![p] = {"archive", "dir"} \cup left]
      BY <2>8 DEF ExtractFails
    <3>2. CASE left = {}
      BY <2>3, <2>8, <3>1, <3>2 DEF ExtractFails, Results, TypeOK
    <3>3. CASE left # {}
      <4>1. {"archive", "dir"} \cup left \in SUBSET Temporary
        BY DEF Temporary
      <4>2. /\ pc' = [pc EXCEPT ![p] = "idle"]
            /\ temp' = [temp EXCEPT ![p] = {"archive", "dir"} \cup left]
            /\ result' = [result EXCEPT ![p] = "terminated"]
        BY <3>1, <3>3
      <4>3. temp' \in [Updaters -> SUBSET Temporary]
        BY <4>1, <4>2 DEF TypeOK
      <4>4. \A q \in Updaters : pc'[q] # "idle" => q # p
        BY <4>2 DEF TypeOK
      <4>5. \A q \in Updaters :
               pc'[q] # "idle" => pc'[q] = pc[q] /\ temp'[q] = temp[q]
        BY <4>2, <4>4 DEF TypeOK
      <4> QED
        BY <2>0, <2>8, <4>2, <4>3, <4>5
        DEF OutputOK, OutputThere, ExtractFails, TypeOK, Steps, Results, Replacing
    <3> QED
      BY <3>2, <3>3
  <2>9. ASSUME NEW p \in Updaters, Clear(p) PROVE TypeOK'
    BY <2>0, <2>9 DEF OutputOK, OutputThere, Clear, Backup, TypeOK, Paths, Steps, Replacing
  <2>10. ASSUME NEW p \in Updaters, MoveAside(p) PROVE TypeOK'
    <3>1. target[p] < Depth /\ target[p] \in Paths /\ Backup(p) \in Paths
      BY <2>10 DEF MoveAside, Exists, Backup, TypeOK, Paths
    <3>2. files' \in [Paths -> File \cup {Absent}]
      BY <2>10, <3>1 DEF MoveAside, TypeOK
    <3> QED
      BY <2>0, <2>10, <3>1, <3>2 DEF OutputOK, OutputThere, MoveAside, TypeOK, Steps, Replacing
  <2>11. ASSUME NEW p \in Updaters, Place(p) PROVE TypeOK'
    BY <2>0, <2>11 DEF OutputOK, OutputThere, Place, TypeOK, Steps, Temporary, Replacing
  <2>12. ASSUME NEW p \in Updaters, Copy(p) PROVE TypeOK'
    <3>1. /\ target[p] \in Paths
          /\ [new[p] EXCEPT !.inode = Opened(p), !.whole = FALSE] \in File
      <4>1. pc[p] = "copy"
        BY <2>12 DEF Copy
      <4> QED
        BY <4>1, CopiedIsFile, Zenon
    <3>2. files' \in [Paths -> File \cup {Absent}]
      BY <2>12, <3>1 DEF Copy, TypeOK
    <3>3. /\ pc[p] = "copy" /\ pc' = [pc EXCEPT ![p] = "copying"]
          /\ UNCHANGED <<overlapping, runs, run, image, force, target, latest, temp, new,
                         result, interrupted>>
      BY <2>12 DEF Copy
    <3> QED
      BY <2>0, <3>2, <3>3 DEF OutputOK, OutputThere, TypeOK, Steps, Replacing
  <2>13. ASSUME NEW p \in Updaters, CopyDone(p) PROVE TypeOK'
    <3>1. files' \in [Paths -> File \cup {Absent}]
      <4>1. CASE output[p] = Nowhere
        BY <2>13, <4>1 DEF CopyDone, TypeOK
      <4>2. CASE output[p] # Nowhere
        <5>1. output[p] \in Paths /\ files[output[p]] \in File
          BY <2>13, <4>2 DEF CopyDone, TypeOK, Paths
        <5> QED
          BY <2>13, <4>2, <5>1, CompletedIsFile DEF CopyDone, TypeOK
      <4> QED
        BY <4>1, <4>2
    <3>2. /\ pc[p] = "copying" /\ pc' = [pc EXCEPT ![p] = "discard"]
          /\ UNCHANGED <<overlapping, runs, run, image, force, target, latest, temp, new,
                         result, interrupted>>
      BY <2>13 DEF CopyDone
    <3> QED
      BY <2>0, <3>1, <3>2 DEF OutputOK, OutputThere, TypeOK, Steps, Replacing
  <2>14. ASSUME NEW p \in Updaters, Discard(p) PROVE TypeOK'
    BY <2>0, <2>14 DEF OutputOK, OutputThere, Discard, TypeOK, Steps, Temporary, Replacing
  <2>15. ASSUME NEW p \in Updaters, Permit(p) PROVE TypeOK'
    <3>1. target[p] \in Paths /\ files[target[p]] \in File
      BY <2>15 DEF Permit, Exists, TypeOK, Paths
    <3>2. [files[target[p]] EXCEPT !.executable = TRUE] \in File
      BY <3>1 DEF File
    <3>3. files' \in [Paths -> File \cup {Absent}]
      BY <2>15, <3>1, <3>2 DEF Permit, TypeOK
    <3> QED
      BY <2>0, <2>15, <3>3 DEF OutputOK, OutputThere, Permit, TypeOK, Steps, Replacing
  <2>16. ASSUME NEW p \in Updaters, Exec(p) PROVE TypeOK'
    <3>1. CASE Finish(p, "failed")
      BY <2>3, <2>16, <3>1 DEF Exec, Results, TypeOK
    <3>2. CASE ~Finish(p, "failed")
      BY <2>0, <2>16, <3>2 DEF OutputOK, OutputThere, Exec, TypeOK, Steps, Results, Replacing
    <3> QED
      BY <3>1, <3>2
  <2>17. ASSUME NEW p \in Updaters, Throw(p) PROVE TypeOK'
    BY <2>3, <2>17 DEF Throw, Interrupt, Results, TypeOK
  <2>18. ASSUME NEW p \in Updaters, Die(p) PROVE TypeOK'
    BY <2>0, <2>18 DEF OutputOK, OutputThere, Die, Interrupt, TypeOK, Steps, Results, Replacing
  <2>19. CASE UNCHANGED vars
    BY <2>19 DEF vars, TypeOK
  <2> QED
    BY <2>1, <2>2, <2>4, <2>5, <2>6, <2>7, <2>8, <2>9, <2>10, <2>11, <2>12,
       <2>13, <2>14, <2>15, <2>16, <2>17, <2>18, <2>19
    DEF Next, Prepare, Replace
<1> QED
  BY <1>1, <1>2, PTL DEF Spec

-----------------------------------------------------------------------------
(***************************************************************************)
(* The inductive invariant of CopySurvives.  The file a run executes is    *)
(* found again by its inode, so that inodes tell files apart (InodesApart, *)
(* and a run's own one is not in use until it has put its program there);  *)
(* and that file is at the path to be replaced until it is moved aside,    *)
(* and at the backup's path from then on.                                  *)
(***************************************************************************)
Alone == \A p, q \in Updaters : pc[p] # "idle" /\ pc[q] # "idle" => p = q

InodesApart ==
  \A a, b \in Paths :
    files[a] # Absent /\ files[b] # Absent /\ files[a].inode = files[b].inode
      => a = b

InodesKnown == \A a \in Paths : files[a] # Absent => files[a].inode <= runs

Unused(p) == \A a \in Paths : files[a] # Absent => files[a].inode # run[p]

ToReplace == {"compare", "download", "extract", "clear", "aside"}
ToPlace == {"clear", "aside", "place", "copy"}

Stage(p) ==
  /\ pc[p] # "idle" => Runs(image[p])
  /\ pc[p] \in {"locate"} \cup ToReplace \cup ToPlace => Unused(p)
  /\ pc[p] \in ToPlace => new[p].inode = run[p]
  /\ pc[p] = "locate" => \E a \in Paths : files[a] = image[p]
  /\ pc[p] \in ToReplace => target[p] < Depth /\ files[target[p]] = image[p]
  /\ pc[p] \in Replacing \cup {"exec"} =>
       target[p] < Depth /\ files[target[p] + 1] = image[p]
  /\ pc[p] = "copying" => output[p] = target[p]

Safe ==
  /\ Alone /\ InodesApart /\ InodesKnown /\ ProgramLeft
  /\ \A p \in Updaters : Stage(p)

IInv == ~overlapping => Safe

(***************************************************************************)
(* The end of a run changes no file (the early returns of update(), its    *)
(* exceptions and a crash).                                                *)
(***************************************************************************)
LEMMA RunEnds ==
  ASSUME TypeOK, Safe, NEW p \in Updaters, pc[p] # "idle",
         pc' = [pc EXCEPT ![p] = "idle"], UNCHANGED <<files, runs>>
  PROVE  Safe'
<1>1. \A q \in Updaters : pc'[q] = "idle"
  BY DEF Safe, Alone, TypeOK
<1>2. Alone' /\ \A q \in Updaters : Stage(q)'
  BY <1>1 DEF Alone, Stage, ToReplace, ToPlace, Replacing
<1>3. InodesApart' /\ InodesKnown' /\ ProgramLeft'
  BY DEF Safe, InodesApart, InodesKnown, ProgramLeft
<1> QED
  BY <1>2, <1>3 DEF Safe

(***************************************************************************)
(* A run that goes on is the only one.                                     *)
(***************************************************************************)
LEMMA RunGoesOn ==
  ASSUME TypeOK, Safe, NEW p \in Updaters, pc[p] # "idle", NEW step \in Steps,
         pc' = [pc EXCEPT ![p] = step], Stage(p)', InodesApart', InodesKnown',
         ProgramLeft'
  PROVE  Safe'
<1>1. \A q \in Updaters : q # p => pc'[q] = "idle"
  BY DEF Safe, Alone, TypeOK
<1>2. Alone'
  BY <1>1 DEF Alone
<1>3. ASSUME NEW q \in Updaters, q # p PROVE Stage(q)'
  BY <1>1, <1>3 DEF Stage, ToReplace, ToPlace, Replacing
<1> QED
  BY <1>2, <1>3 DEF Safe

\* As long as it leaves the files alone.
LEMMA RunGoesOnQuietly ==
  ASSUME TypeOK, Safe, NEW p \in Updaters, pc[p] # "idle", NEW step \in Steps,
         pc' = [pc EXCEPT ![p] = step], Stage(p)', UNCHANGED <<files, runs>>
  PROVE  Safe'
<1>1. InodesApart' /\ InodesKnown' /\ ProgramLeft'
  BY DEF Safe, InodesApart, InodesKnown, ProgramLeft
<1> QED
  BY <1>1, RunGoesOn

(***************************************************************************)
(* A run starts from a program that is there.                              *)
(***************************************************************************)
LEMMA StartSafe ==
  ASSUME TypeOK, Safe, ~overlapping, NEW p \in Updaters, NEW path \in Paths,
         Start(p, path)
  PROVE  Safe'
<1>1. /\ \A q \in Updaters : pc[q] = "idle"
      /\ Runs(files[path])
      /\ runs' = runs + 1
      /\ run' = [run EXCEPT ![p] = runs']
      /\ image' = [image EXCEPT ![p] = files[path]]
      /\ pc' = [pc EXCEPT ![p] = "locate"]
      /\ files' = files
  BY DEF Start, Now
<1>2. \A q \in Updaters : q # p => pc'[q] = "idle"
  BY <1>1 DEF TypeOK
<1>3. Alone'
  BY <1>2 DEF Alone
<1>4. InodesApart' /\ ProgramLeft'
  BY <1>1 DEF Safe, InodesApart, ProgramLeft
<1>5. \A a \in Paths : files[a] # Absent =>
        files[a].inode \in Nat /\ files[a].inode <= runs
  BY DEF Safe, InodesKnown, TypeOK, File
<1>6. runs \in Nat
  BY DEF TypeOK
<1>7. InodesKnown'
  BY <1>1, <1>5, <1>6 DEF InodesKnown
<1>8. Stage(p)'
  <2>1. pc'[p] = "locate" /\ image'[p] = files[path] /\ run'[p] = runs + 1
    BY <1>1 DEF TypeOK
  <2>2. Unused(p)'
    BY <1>1, <1>5, <1>6, <2>1 DEF Unused
  <2> QED
    BY <1>1, <2>1, <2>2 DEF Stage, ToReplace, ToPlace, Replacing
<1>9. ASSUME NEW q \in Updaters, q # p PROVE Stage(q)'
  BY <1>2, <1>9 DEF Stage, ToReplace, ToPlace, Replacing
<1> QED
  BY <1>3, <1>4, <1>7, <1>8, <1>9 DEF Safe

(***************************************************************************)
(* /proc/self/exe names the path of the program that runs.                 *)
(***************************************************************************)
LEMMA LocateSafe ==
  ASSUME TypeOK, Safe, NEW p \in Updaters, Locate(p)
  PROVE  Safe'
<1> DEFINE here == {path \in Paths : files[path] # Absent
                                     /\ files[path].inode = image[p].inode}
<1>1. /\ pc[p] = "locate"
      /\ here \subseteq 0..(Depth - 1)
      /\ target' = [target EXCEPT ![p] =
                      IF here = {} THEN Nowhere
                                   ELSE CHOOSE path \in here : TRUE]
      /\ pc' = [pc EXCEPT ![p] = "compare"]
      /\ UNCHANGED <<files, runs, run, image, new>>
  BY DEF Locate, Now, Same, SameRun
<1>2. Stage(p)
  BY DEF Safe
<1>3. PICK a \in Paths : files[a] = image[p] /\ files[a] # Absent
  BY <1>1, <1>2 DEF Stage, Runs
<1>4. here = {a}
  BY <1>3 DEF Safe, InodesApart
<1> HIDE DEF here
<1>5. a < Depth
  BY <1>1, <1>4
<1>6. target'[p] = a
  BY <1>1, <1>4 DEF TypeOK
<1>7. pc'[p] = "compare"
  BY <1>1 DEF TypeOK
<1>8. Unused(p)' /\ Runs(image[p])
  BY <1>1, <1>2 DEF Stage, Unused
<1>9. Stage(p)'
  BY <1>1, <1>3, <1>5, <1>6, <1>7, <1>8
  DEF Stage, ToReplace, ToPlace, Replacing
<1> QED
  BY <1>1, <1>9, RunGoesOnQuietly DEF Steps

(***************************************************************************)
(* Up to the replacement the files stay as they are.                       *)
(***************************************************************************)
LEMMA PrepareSafe ==
  ASSUME TypeOK, Safe, NEW p \in Updaters,
         \/ \E version \in Versions : Compare(p, version)
         \/ Download(p) \/ NoRelease(p) \/ Extract(p) \/ ExtractFails(p)
  PROVE  Safe'
<1> USE DEF Same, SameRun, SameChoice, SameOutput, SameOutcome, Now
<1>0. Stage(p)
  BY DEF Safe
<1>1. ASSUME NEW version \in Versions, Compare(p, version) PROVE Safe'
  <2>1. CASE Finish(p, "current")
    BY <1>1, <2>1, RunEnds DEF Compare, Finish
  <2>2. CASE pc' = [pc EXCEPT ![p] = "download"]
    <3>1. Stage(p)'
      BY <1>0, <1>1, <2>2
      DEF Compare, Stage, Unused, ToReplace, ToPlace, Replacing, TypeOK
    <3> QED
      BY <1>1, <2>2, <3>1, RunGoesOnQuietly DEF Compare, Steps
  <2> QED
    BY <1>1, <2>1, <2>2 DEF Compare
<1>2. CASE Download(p)
  <2>1. Stage(p)'
    BY <1>0, <1>2
    DEF Download, Stage, Unused, ToReplace, ToPlace, Replacing, TypeOK
  <2> QED
    BY <1>2, <2>1, RunGoesOnQuietly DEF Download, Steps
<1>3. CASE NoRelease(p)
  BY <1>3, RunEnds DEF NoRelease, Finish
<1>4. CASE Extract(p)
  <2>1. new'[p].inode = run[p]
    BY <1>4 DEF Extract, Extracted, TypeOK
  <2>2. /\ pc[p] = "extract"
        /\ pc' = [pc EXCEPT ![p] = "clear"]
        /\ UNCHANGED <<files, target, runs, run, image>>
    BY <1>4 DEF Extract
  <2>3. Stage(p)'
    BY <1>0, <2>1, <2>2
    DEF Stage, Unused, ToReplace, ToPlace, Replacing, TypeOK
  <2> QED
    BY <2>2, <2>3, RunGoesOnQuietly DEF Steps
<1>5. CASE ExtractFails(p)
  <2>1. pc' = [pc EXCEPT ![p] = "idle"]
    BY <1>5 DEF ExtractFails, Finish
  <2> QED
    BY <1>5, <2>1, RunEnds DEF ExtractFails
<1> QED
  BY <1>1, <1>2, <1>3, <1>4, <1>5

(***************************************************************************)
(* The first two steps of the replacement: the program at the path goes to *)
(* the backup's.                                                           *)
(***************************************************************************)
LEMMA AsideSafe ==
  ASSUME TypeOK, Safe, NEW p \in Updaters, Clear(p) \/ MoveAside(p)
  PROVE  Safe'
<1> USE DEF Same, SameRun, SameChoice, SameOutput, SameOutcome, Now
<1>1. /\ pc[p] \in {"clear", "aside"}
      /\ UNCHANGED <<runs, run, image, target, new>>
  BY DEF Clear, MoveAside
<1>2. Stage(p)
  BY DEF Safe
<1>3. /\ target[p] \in Paths /\ Backup(p) \in Paths /\ Backup(p) # target[p]
      /\ target[p] < Depth
      /\ files[target[p]] = image[p] /\ Runs(image[p]) /\ image[p] # Absent
      /\ Unused(p) /\ new[p].inode = run[p]
  BY <1>1, <1>2 DEF Stage, ToReplace, ToPlace, Backup, Paths, TypeOK, Runs
<1>4. DOMAIN files = Paths
  BY DEF TypeOK
<1>5. CASE Clear(p)
  <2>1. files' = [files EXCEPT ![Backup(p)] = Absent]
    BY <1>3, <1>5 DEF Clear
  <2>2. \A a \in Paths : files'[a] # Absent => files'[a] = files[a]
    BY <1>4, <2>1
  <2>3. InodesApart' /\ InodesKnown' /\ Unused(p)'
    BY <1>1, <1>3, <2>2 DEF Safe, InodesApart, InodesKnown, Unused
  <2>4. files'[target[p]] = image[p]
    BY <1>3, <1>4, <2>1
  <2>5. ProgramLeft'
    BY <1>3, <2>4 DEF ProgramLeft
  <2>6. pc' = [pc EXCEPT ![p] = "aside"] /\ pc'[p] = "aside"
    BY <1>5 DEF Clear, TypeOK
  <2>7. Stage(p)'
    BY <1>1, <1>3, <2>3, <2>4, <2>6 DEF Stage, ToReplace, ToPlace, Replacing
  <2> QED
    BY <1>1, <2>3, <2>5, <2>6, <2>7, RunGoesOn DEF Steps
<1>6. CASE MoveAside(p)
  <2>1. files' = [files EXCEPT ![Backup(p)] = files[target[p]],
                               ![target[p]] = Absent]
    BY <1>6 DEF MoveAside
  <2>2. /\ files'[Backup(p)] = image[p]
        /\ files'[target[p]] = Absent
        /\ \A a \in Paths \ {Backup(p), target[p]} : files'[a] = files[a]
    BY <1>3, <1>4, <2>1
  <2>3. InodesApart'
    BY <1>3, <2>2 DEF Safe, InodesApart
  <2>4. InodesKnown' /\ Unused(p)'
    BY <1>1, <1>3, <2>2 DEF Safe, InodesKnown, Unused
  <2>5. ProgramLeft'
    BY <1>3, <2>2 DEF ProgramLeft
  <2>6. pc' = [pc EXCEPT ![p] = "place"] /\ pc'[p] = "place"
    BY <1>6 DEF MoveAside, TypeOK
  <2>7. Stage(p)'
    BY <1>1, <1>3, <2>2, <2>4, <2>6
    DEF Stage, ToReplace, ToPlace, Replacing, Backup
  <2> QED
    BY <1>1, <2>3, <2>4, <2>5, <2>6, <2>7, RunGoesOn DEF Steps
<1> QED
  BY <1>5, <1>6

(***************************************************************************)
(* From then on only the file at the path changes, and it is the run's.    *)
(***************************************************************************)
LEMMA WriteSafe ==
  ASSUME TypeOK, Safe, NEW p \in Updaters, pc[p] \in Replacing,
         NEW f \in File, f.inode <= runs,
         \A a \in Paths \ {target[p]} :
           files[a] # Absent => files[a].inode # f.inode,
         files' = [files EXCEPT ![target[p]] = f],
         UNCHANGED <<runs, run, image, target>>
  PROVE  /\ InodesApart' /\ InodesKnown' /\ ProgramLeft'
         /\ Runs(image[p])
         /\ target[p] < Depth /\ files'[target[p] + 1] = image[p]
         /\ files'[target[p]] = f /\ f # Absent
<1>1. /\ Runs(image[p])
      /\ target[p] < Depth /\ files[target[p] + 1] = image[p]
  BY DEF Safe, Stage, Replacing
<1>2. /\ target[p] \in Paths /\ target[p] + 1 \in Paths
      /\ target[p] # target[p] + 1
  BY <1>1 DEF TypeOK, Paths
<1>3. /\ files'[target[p]] = f
      /\ \A a \in Paths \ {target[p]} : files'[a] = files[a]
  BY <1>2 DEF TypeOK
<1>4. files'[target[p] + 1] = image[p]
  BY <1>1, <1>2, <1>3
<1>5. InodesApart'
  BY <1>3 DEF Safe, InodesApart
<1>6. InodesKnown'
  BY <1>3 DEF Safe, InodesKnown
<1>7. ProgramLeft'
  BY <1>1, <1>2, <1>4 DEF ProgramLeft
<1> QED
  BY <1>1, <1>3, <1>4, <1>5, <1>6, <1>7

LEMMA PlaceSafe ==
  ASSUME TypeOK, Safe, NEW p \in Updaters, Place(p) \/ Copy(p)
  PROVE  Safe'
<1> USE DEF Same, SameRun, SameChoice, SameOutput, SameOutcome, Now
<1>1. /\ pc[p] \in {"place", "copy"}
      /\ UNCHANGED <<runs, run, image, target, new>>
  BY DEF Place, Copy
<1>2. Stage(p)
  BY DEF Safe
<1>3. new[p] \in File /\ new[p].inode = run[p]
  BY <1>1, <1>2 DEF Stage, ToPlace, TypeOK
<1>4. /\ \A a \in Paths : files[a] # Absent => files[a].inode # run[p]
      /\ run[p] <= runs /\ target[p] \in Paths
  BY <1>1, <1>2 DEF Stage, Unused, ToPlace, TypeOK, Replacing, Paths
<1>5. pc[p] \in Replacing /\ pc[p] # "idle"
  BY <1>1 DEF Replacing
<1>6. CASE Place(p) /\ files' = files
  <2>1. pc[p] = "place" /\ \E step \in {"permit", "copy"} :
          pc' = [pc EXCEPT ![p] = step]
    BY <1>6 DEF Place
  <2>2. PICK step \in {"permit", "copy"} : pc' = [pc EXCEPT ![p] = step]
    BY <2>1
  <2>3. pc'[p] = step
    BY <2>2 DEF TypeOK
  <2>4. Stage(p)'
    BY <1>1, <1>2, <1>6, <2>1, <2>3
    DEF Stage, Unused, ToReplace, ToPlace, Replacing
  <2> QED
    BY <1>1, <1>5, <1>6, <2>2, <2>4, RunGoesOnQuietly DEF Steps
<1>7. CASE Place(p) /\ files' # files
  <2>1. /\ files' = [files EXCEPT ![target[p]] = new[p]]
        /\ pc' = [pc EXCEPT ![p] = "permit"]
    BY <1>7 DEF Place
  <2>2. pc'[p] = "permit"
    BY <2>1 DEF TypeOK
  <2>3. /\ InodesApart' /\ InodesKnown' /\ ProgramLeft'
        /\ Runs(image[p])
        /\ target[p] < Depth /\ files'[target[p] + 1] = image[p]
    <3>1. /\ new[p].inode <= runs
          /\ \A a \in Paths \ {target[p]} : files[a] # Absent => files[a].inode # new[p].inode
      BY <1>3, <1>4
    <3> QED
      BY <1>1, <1>3, <1>5, <2>1, <3>1, WriteSafe
  <2>4. Stage(p)'
    BY <1>1, <2>2, <2>3 DEF Stage, ToReplace, ToPlace, Replacing
  <2> QED
    BY <1>5, <2>1, <2>3, <2>4, RunGoesOn DEF Steps
<1>8. CASE Copy(p)
  <2> DEFINE half == [new[p] EXCEPT !.inode = Opened(p), !.whole = FALSE]
  <2>0. pc[p] = "copy"
    BY <1>8 DEF Copy
  <2>1. half \in File
    BY <2>0, CopiedIsFile, Zenon
  <2>2. half.inode = Opened(p)
    BY <1>3 DEF File
  <2>3. /\ files' = [files EXCEPT ![target[p]] = half]
        /\ output' = [output EXCEPT ![p] = target[p]]
        /\ pc' = [pc EXCEPT ![p] = "copying"]
    BY <1>8 DEF Copy
  <2> HIDE DEF half
  <2>4. pc'[p] = "copying" /\ output'[p] = target[p]
    BY <2>3 DEF TypeOK
  <2>5. /\ half.inode <= runs
        /\ \A a \in Paths \ {target[p]} : files[a] # Absent => files[a].inode # half.inode
    BY <1>4, <2>2 DEF Opened, Safe, InodesApart, InodesKnown
  <2>6. /\ InodesApart' /\ InodesKnown' /\ ProgramLeft'
        /\ Runs(image[p])
        /\ target[p] < Depth /\ files'[target[p] + 1] = image[p]
    BY <1>1, <1>5, <2>1, <2>3, <2>5, WriteSafe
  <2>7. Stage(p)'
    BY <1>1, <2>4, <2>6 DEF Stage, ToReplace, ToPlace, Replacing
  <2> QED
    BY <1>5, <2>3, <2>6, <2>7, RunGoesOn DEF Steps
<1> QED
  BY <1>6, <1>7, <1>8

\* The file keeps its inode when its copy is done or its mode is changed.
LEMMA ChangeSafe ==
  ASSUME TypeOK, Safe, NEW p \in Updaters, pc[p] \in {"copying", "permit"},
         NEW step \in {"discard", "exec"}, pc' = [pc EXCEPT ![p] = step],
         files[target[p]] # Absent,
         NEW f \in File, f.inode = files[target[p]].inode,
         files' = [files EXCEPT ![target[p]] = f],
         UNCHANGED <<runs, run, image, target, new>>
  PROVE  Safe'
<1>1. /\ Runs(image[p])
      /\ target[p] < Depth /\ files[target[p] + 1] = image[p]
  BY DEF Safe, Stage, Replacing
<1>2. /\ target[p] \in Paths /\ target[p] + 1 \in Paths
      /\ target[p] # target[p] + 1
  BY <1>1 DEF TypeOK, Paths
<1>3. /\ files'[target[p]] = f
      /\ \A a \in Paths \ {target[p]} : files'[a] = files[a]
  BY <1>2 DEF TypeOK
<1>4. \A a \in Paths : /\ files'[a] # Absent <=> files[a] # Absent
                       /\ files'[a].inode = files[a].inode
  BY <1>3
<1>5. InodesApart' /\ InodesKnown'
  BY <1>4 DEF Safe, InodesApart, InodesKnown
<1>6. files'[target[p] + 1] = image[p]
  BY <1>1, <1>2, <1>3
<1>7. ProgramLeft'
  BY <1>1, <1>2, <1>6 DEF ProgramLeft
<1>8. pc'[p] = step
  BY DEF TypeOK
<1>9. Stage(p)'
  BY <1>1, <1>6, <1>8 DEF Stage, ToReplace, ToPlace, Replacing
<1> QED
  BY <1>5, <1>7, <1>9, RunGoesOn DEF Steps

LEMMA CopyDoneSafe ==
  ASSUME TypeOK, Safe, NEW p \in Updaters, CopyDone(p)
  PROVE  Safe'
<1> USE DEF Same, SameRun, SameChoice, SameOutput, SameOutcome, Now
<1>1. /\ pc[p] = "copying" /\ pc' = [pc EXCEPT ![p] = "discard"]
      /\ UNCHANGED <<runs, run, image, target, new>>
  BY DEF CopyDone
<1>2. output[p] = target[p] /\ target[p] < Depth
  BY <1>1 DEF Safe, Stage, Replacing
<1>3. /\ output[p] # Nowhere /\ target[p] \in Paths
      /\ files[target[p]] # Absent /\ files[target[p]] \in File
  BY <1>1, <1>2 DEF TypeOK, Paths
<1> DEFINE f == [files[target[p]] EXCEPT !.whole = TRUE]
<1>4. files' = [files EXCEPT ![target[p]] = f]
  BY <1>2, <1>3 DEF CopyDone
<1>5. f \in File /\ f.inode = files[target[p]].inode
  BY <1>3, CompletedIsFile
<1> HIDE DEF f
<1> QED
  BY <1>1, <1>3, <1>4, <1>5, ChangeSafe

LEMMA PermitSafe ==
  ASSUME TypeOK, Safe, NEW p \in Updaters, Permit(p)
  PROVE  Safe'
<1> USE DEF Same, SameRun, SameChoice, SameOutput, SameOutcome, Now
<1>1. /\ pc[p] = "permit" /\ pc' = [pc EXCEPT ![p] = "exec"]
      /\ files[target[p]] # Absent
      /\ UNCHANGED <<runs, run, image, target, new>>
  BY DEF Permit, Exists
<1>2. target[p] \in Paths /\ files[target[p]] \in File
  BY <1>1 DEF TypeOK, Replacing, Paths
<1> DEFINE f == [files[target[p]] EXCEPT !.executable = TRUE]
<1>3. files' = [files EXCEPT ![target[p]] = f]
  BY DEF Permit
<1>4. f \in File /\ f.inode = files[target[p]].inode
  BY <1>2 DEF File
<1> HIDE DEF f
<1> QED
  BY <1>1, <1>3, <1>4, ChangeSafe

LEMMA Invariance == Spec => []IInv
<1>1. Init => IInv
  <2> SUFFICES ASSUME Init PROVE Safe
    BY DEF IInv
  <2> DEFINE installed(version) ==
        [inode |-> 0, version |-> version, whole |-> TRUE, executable |-> TRUE]
  <2>1. PICK version \in Programs :
          files = [path \in Paths |->
                    IF path = 0 THEN installed(version) ELSE Absent]
    BY DEF Init
  <2>2. /\ Runs(installed(version)) <=> installed(version) # Absent
        /\ installed(version) \in File
        /\ installed(version).inode = 0
    BY DEF Runs, File
  <2> HIDE DEF installed
  <2>3. 0 \in Paths
    BY DEF Paths
  <2>4. ProgramLeft
    BY <2>1, <2>2, <2>3 DEF ProgramLeft
  <2>5. InodesApart /\ InodesKnown
    BY <2>1, <2>2 DEF Init, InodesApart, InodesKnown
  <2>6. \A p \in Updaters : pc[p] = "idle"
    BY ZenonT(30) DEF Init
  <2>7. Alone /\ \A p \in Updaters : Stage(p)
    BY <2>6 DEF Alone, Stage, ToReplace, ToPlace, Replacing
  <2> QED
    BY <2>4, <2>5, <2>7 DEF Safe
<1>2. TypeOK /\ IInv /\ [Next]_vars => IInv'
  <2> SUFFICES ASSUME TypeOK, IInv, [Next]_vars, ~overlapping'
               PROVE  Safe'
    BY DEF IInv
  <2> USE DEF Same, SameRun, SameChoice, SameOutput, SameOutcome, Now
  <2>1. CASE UNCHANGED vars
    <3>1. Safe
      BY <2>1 DEF IInv, vars
    <3>2. Alone' /\ InodesApart' /\ InodesKnown' /\ ProgramLeft'
      BY <2>1, <3>1
      DEF vars, Safe, Alone, InodesApart, InodesKnown, ProgramLeft
    <3>3. \A p \in Updaters : Stage(p)'
      BY <2>1, <3>1 DEF vars, Safe, Stage, Unused
    <3> QED
      BY <3>2, <3>3 DEF Safe
  <2>2. ASSUME NEW p \in Updaters, Prepare(p) \/ Replace(p) \/ Die(p)
        PROVE  Safe'
    <3>1. overlapping' = overlapping
      BY <2>2
      DEF Prepare, Replace, Die, Start, Locate, Compare, Download, NoRelease,
          Extract, ExtractFails, Clear, MoveAside, Place, Copy, CopyDone,
          Discard, Permit, Exec, Throw
    <3>2. Safe /\ ~overlapping
      BY <3>1 DEF IInv
    <3>3. CASE Prepare(p)
      BY <3>2, <3>3, StartSafe, LocateSafe, PrepareSafe DEF Prepare
    <3>4. CASE Clear(p) \/ MoveAside(p)
      BY <3>2, <3>4, AsideSafe
    <3>5. CASE Place(p) \/ Copy(p) \/ CopyDone(p)
      BY <3>2, <3>5, PlaceSafe, CopyDoneSafe
    <3>6. CASE Discard(p)
      <4>1. /\ pc[p] = "discard"
            /\ pc' = [pc EXCEPT ![p] = "permit"]
            /\ UNCHANGED <<files, runs, run, image, target, new>>
        BY <3>6 DEF Discard
      <4>2. pc'[p] = "permit"
        BY <4>1 DEF TypeOK
      <4>3. Stage(p)'
        BY <3>2, <4>1, <4>2 DEF Safe, Stage, ToReplace, ToPlace, Replacing
      <4> QED
        BY <3>2, <4>1, <4>3, RunGoesOnQuietly DEF Steps
    <3>7. CASE Permit(p)
      BY <3>2, <3>7, PermitSafe
    <3>8. CASE Exec(p) \/ Throw(p) \/ Die(p)
      <4>1. /\ pc[p] # "idle"
            /\ pc' = [pc EXCEPT ![p] = "idle"]
            /\ UNCHANGED <<files, runs>>
        BY <3>8 DEF Exec, Throw, Die, Finish
      <4> QED
        BY <3>2, <4>1, RunEnds
    <3> QED
      BY <2>2, <3>3, <3>4, <3>5, <3>6, <3>7, <3>8 DEF Replace
  <2> QED
    BY <2>1, <2>2 DEF Next
<1> QED
  BY <1>1, <1>2, TypeCorrect, PTL DEF Spec

(***************************************************************************)
(* A program that runs is left, whatever step of an update fails           *)
(* (update.cc 255-280).                                                    *)
(***************************************************************************)
THEOREM ProgramSurvives == Spec => []CopySurvives
<1>1. IInv => CopySurvives
  BY DEF IInv, Safe, CopySurvives
<1> QED
  BY <1>1, Invariance, PTL

-----------------------------------------------------------------------------
(***************************************************************************)
(* The inductive invariant of ReturnedIsTidy is the property itself: only  *)
(* a run that ends changes what it says, or one that starts.               *)
(***************************************************************************)
LEMMA FinishTidy ==
  ASSUME TypeOK, ReturnedIsTidy, NEW p \in Updaters, NEW how, Finish(p, how)
  PROVE  ReturnedIsTidy'
<1>1. ASSUME NEW q \in Updaters, q # p,
             pc'[q] = "idle", result'[q] \in {"current", "failed"}
      PROVE  temp'[q] = {}
  BY <1>1 DEF Finish, Now, TypeOK, ReturnedIsTidy
<1>2. ASSUME result'[p] \in {"current", "failed"} PROVE temp'[p] = {}
  BY <1>2 DEF Finish, TypeOK
<1> QED
  BY <1>1, <1>2 DEF ReturnedIsTidy

\* A run that ends otherwise, or goes on, promises nothing.
LEMMA OthersTidy ==
  ASSUME TypeOK, ReturnedIsTidy, NEW p \in Updaters, NEW step, NEW how, NEW left,
         pc' = [pc EXCEPT ![p] = step],
         result' = [result EXCEPT ![p] = how], temp' = [temp EXCEPT ![p] = left],
         step # "idle" \/ how \notin {"current", "failed"}
  PROVE  ReturnedIsTidy'
BY DEF TypeOK, ReturnedIsTidy

(***************************************************************************)
(* An update that returns has removed what it has put into the temporary   *)
(* directory (the destructor of TempFile, temp_file.cc 119-123): it ends   *)
(* the program rather than leave something behind in silence.              *)
(***************************************************************************)
THEOREM ReturnsTidy == Spec => []ReturnedIsTidy
<1>1. Init => ReturnedIsTidy
  BY DEF Init, ReturnedIsTidy
<1>2. TypeOK /\ ReturnedIsTidy /\ [Next]_vars => ReturnedIsTidy'
  <2> SUFFICES ASSUME TypeOK, ReturnedIsTidy, [Next]_vars PROVE ReturnedIsTidy'
    OBVIOUS
  <2> USE DEF Same, SameRun, SameChoice, SameOutput, SameOutcome, Now
  <2>1. CASE UNCHANGED vars
    BY <2>1 DEF vars, ReturnedIsTidy
  <2>2. ASSUME NEW p \in Updaters, NEW step, step # "idle",
               pc' = [pc EXCEPT ![p] = step], UNCHANGED result,
               \E left : temp' = [temp EXCEPT ![p] = left]
        PROVE  ReturnedIsTidy'
    BY <2>2 DEF TypeOK, ReturnedIsTidy
  <2>3. ASSUME NEW p \in Updaters, NEW step, step # "idle",
               pc' = [pc EXCEPT ![p] = step], SameOutcome
        PROVE  ReturnedIsTidy'
    BY <2>3 DEF TypeOK, ReturnedIsTidy
  <2>4. ASSUME NEW p \in Updaters, Prepare(p) PROVE ReturnedIsTidy'
    <3>1. ASSUME NEW path \in Paths, Start(p, path) PROVE ReturnedIsTidy'
      BY <3>1, OthersTidy DEF Start
    <3>2. CASE Locate(p)
      BY <2>3, <3>2 DEF Locate
    <3>3. ASSUME NEW version \in Versions, Compare(p, version)
          PROVE  ReturnedIsTidy'
      BY <2>3, <3>3, FinishTidy DEF Compare
    <3>4. CASE Download(p)
      BY <2>2, <3>4 DEF Download
    <3>5. CASE NoRelease(p)
      BY <3>5, FinishTidy DEF NoRelease
    <3>6. CASE Extract(p)
      BY <2>2, <3>6 DEF Extract
    <3>7. CASE ExtractFails(p)
      BY <3>7, FinishTidy, OthersTidy DEF ExtractFails
    <3> QED
      BY <2>4, <3>1, <3>2, <3>3, <3>4, <3>5, <3>6, <3>7 DEF Prepare
  <2>5. ASSUME NEW p \in Updaters, Replace(p) PROVE ReturnedIsTidy'
    <3>1. CASE Clear(p) \/ MoveAside(p) \/ Copy(p) \/ CopyDone(p) \/ Permit(p)
      BY <2>3, <3>1 DEF Clear, MoveAside, Copy, CopyDone, Permit
    <3>2. CASE Place(p)
      BY <2>2, <2>3, <3>2 DEF Place
    <3>3. CASE Discard(p)
      BY <2>2, <3>3 DEF Discard
    <3>4. CASE Exec(p)
      <4>1. CASE Finish(p, "failed")
        BY <4>1, FinishTidy
      <4>2. CASE /\ pc' = [pc EXCEPT ![p] = "idle"] /\ temp' = temp
                 /\ result' = [result EXCEPT ![p] = "restarted"]
        BY <4>2 DEF TypeOK, ReturnedIsTidy
      <4> QED
        BY <3>4, <4>1, <4>2 DEF Exec
    <3>5. CASE Throw(p)
      BY <3>5, FinishTidy DEF Throw
    <3> QED
      BY <2>5, <3>1, <3>2, <3>3, <3>4, <3>5 DEF Replace
  <2>6. ASSUME NEW p \in Updaters, Die(p) PROVE ReturnedIsTidy'
    BY <2>6 DEF Die, TypeOK, ReturnedIsTidy
  <2> QED
    BY <2>1, <2>4, <2>5, <2>6 DEF Next
<1> QED
  BY <1>1, <1>2, TypeCorrect, PTL DEF Spec

-----------------------------------------------------------------------------
(***************************************************************************)
(* The inductive invariant of UpgradesOnly, for runs that do not overlap:  *)
(* past the comparison there is a release that is newer, what was          *)
(* extracted is that release, and once it is placed it stays at the path.  *)
(***************************************************************************)
Chosen == {"download", "extract", "clear", "aside", "place", "copy", "copying",
           "discard", "permit", "exec"}

Upgrading(p) ==
  /\ pc[p] \in Chosen =>
       (~force[p] /\ image[p].version # Unversioned =>
          Newer(latest[p], image[p].version))
  /\ pc[p] \in ToPlace => new[p].version = latest[p]
  /\ pc[p] \in {"copying", "discard", "permit", "exec"} =>
       files[target[p]].version = latest[p]

UInv == ~overlapping => \A p \in Updaters : Upgrading(p)

\* What compare_semver puts above is newer.
LEMMA AboveIsNewer ==
  ASSUME NEW a \in Versions, NEW b \in Versions, ~(CompareSemver(a, b) >= 0)
  PROVE  Newer(b, a)
<1>1. /\ a[1] \in Nat /\ a[2] \in Nat /\ a[3] \in Nat
      /\ b[1] \in Nat /\ b[2] \in Nat /\ b[3] \in Nat
  BY DEF CompareSemver
<1>2. CASE a[1] # b[1]
  <2>1. b[1] > a[1]
    BY <1>1, <1>2 DEF CompareSemver
  <2>2. 1 \in 1..3 /\ \A j \in 1..(1 - 1) : b[j] = a[j]
    OBVIOUS
  <2> QED
    BY <2>1, <2>2, Zenon DEF Newer
<1>3. CASE a[1] = b[1] /\ a[2] # b[2]
  <2>1. b[2] > a[2]
    BY <1>1, <1>3 DEF CompareSemver
  <2>2. 2 \in 1..3 /\ \A j \in 1..(2 - 1) : b[j] = a[j]
    BY <1>3
  <2> QED
    BY <2>1, <2>2, Zenon DEF Newer
<1>4. CASE a[1] = b[1] /\ a[2] = b[2]
  <2>1. b[3] > a[3]
    BY <1>1, <1>4 DEF CompareSemver
  <2>2. 3 \in 1..3 /\ \A j \in 1..(3 - 1) : b[j] = a[j]
    BY <1>4
  <2> QED
    BY <2>1, <2>2, Zenon DEF Newer
<1> QED
  BY <1>2, <1>3, <1>4

\* The other updaters are idle, and an idle one is not upgrading.
LEMMA OnlyOneUpgrades ==
  ASSUME TypeOK, NEW p \in Updaters, NEW step,
         \A q \in Updaters : q # p => pc[q] = "idle",
         pc' = [pc EXCEPT ![p] = step], Upgrading(p)'
  PROVE  \A q \in Updaters : Upgrading(q)'
<1>1. \A q \in Updaters : q # p => pc'[q] = "idle"
  BY DEF TypeOK
<1>2. ASSUME NEW q \in Updaters, q # p PROVE Upgrading(q)'
  BY <1>1, <1>2 DEF Upgrading, Chosen, ToPlace
<1> QED
  BY <1>2

LEMMA UpgradingInvariant ==
  ASSUME TypeOK, Alone, ~overlapping, \A p \in Updaters : Upgrading(p), [Next]_vars
  PROVE  \A p \in Updaters : Upgrading(p)'
<1> USE DEF Same, SameRun, SameChoice, SameOutput, SameOutcome, Now
<1>1. CASE UNCHANGED vars
  BY <1>1 DEF vars, Upgrading
<1>2. ASSUME NEW p \in Updaters, NEW step, pc' = [pc EXCEPT ![p] = step],
             pc[p] # "idle", Upgrading(p)'
      PROVE  \A q \in Updaters : Upgrading(q)'
  BY <1>2, OnlyOneUpgrades DEF Alone
<1>3. ASSUME NEW p \in Updaters, pc' = [pc EXCEPT ![p] = "idle"], pc[p] # "idle"
      PROVE  \A q \in Updaters : Upgrading(q)'
  <2>1. pc'[p] = "idle"
    BY <1>3 DEF TypeOK
  <2>2. Upgrading(p)'
    BY <2>1 DEF Upgrading, Chosen, ToPlace
  <2> QED
    BY <1>2, <1>3, <2>2
<1>4. ASSUME NEW p \in Updaters, NEW path \in Paths, Start(p, path)
      PROVE  \A q \in Updaters : Upgrading(q)'
  <2>1. /\ \A q \in Updaters : pc[q] = "idle"
        /\ pc' = [pc EXCEPT ![p] = "locate"]
    BY <1>4 DEF Start
  <2>2. pc'[p] = "locate"
    BY <2>1 DEF TypeOK
  <2>3. Upgrading(p)'
    BY <2>2 DEF Upgrading, Chosen, ToPlace
  <2> QED
    BY <2>1, <2>3, OnlyOneUpgrades
<1>5. ASSUME NEW p \in Updaters, Locate(p)
      PROVE  \A q \in Updaters : Upgrading(q)'
  <2>1. pc[p] = "locate" /\ pc' = [pc EXCEPT ![p] = "compare"]
    BY <1>5 DEF Locate
  <2>2. pc'[p] = "compare"
    BY <2>1 DEF TypeOK
  <2>3. Upgrading(p)'
    BY <2>2 DEF Upgrading, Chosen, ToPlace
  <2> QED
    BY <1>2, <2>1, <2>3
<1>6. ASSUME NEW p \in Updaters, NEW version \in Versions, Compare(p, version)
      PROVE  \A q \in Updaters : Upgrading(q)'
  <2>1. pc[p] = "compare" /\ latest' = [latest EXCEPT ![p] = version]
        /\ UNCHANGED <<force, image, new, files, target>>
    BY <1>6 DEF Compare
  <2>2. CASE UpToDate(p, version)
    <3>1. pc' = [pc EXCEPT ![p] = "idle"]
      BY <1>6, <2>2 DEF Compare, Finish
    <3> QED
      BY <1>3, <2>1, <3>1
  <2>3. CASE ~UpToDate(p, version)
    <3>1. pc' = [pc EXCEPT ![p] = "download"]
      BY <1>6, <2>3 DEF Compare
    <3>2. pc'[p] = "download" /\ latest'[p] = version
      BY <2>1, <3>1 DEF TypeOK
    <3>3. image[p].version \in Programs
      BY DEF TypeOK, File
    <3>4. ~force[p] /\ image[p].version # Unversioned => Newer(version, image[p].version)
      BY <2>3, <3>3, AboveIsNewer DEF UpToDate, Programs
    <3>5. Upgrading(p)'
      BY <2>1, <3>2, <3>4 DEF Upgrading, Chosen, ToPlace
    <3> QED
      BY <1>2, <2>1, <3>1, <3>5
  <2> QED
    BY <2>2, <2>3
<1>7. ASSUME NEW p \in Updaters, Download(p) \/ Clear(p) \/ MoveAside(p) \/ Discard(p)
      PROVE  \A q \in Updaters : Upgrading(q)'
  <2>1. /\ UNCHANGED <<force, image, latest, new, target>>
        /\ \/ pc[p] = "download" /\ pc' = [pc EXCEPT ![p] = "extract"]
           \/ pc[p] = "clear" /\ pc' = [pc EXCEPT ![p] = "aside"]
           \/ pc[p] = "aside" /\ pc' = [pc EXCEPT ![p] = "place"]
           \/ pc[p] = "discard" /\ pc' = [pc EXCEPT ![p] = "permit"] /\ files' = files
    BY <1>7 DEF Download, Clear, MoveAside, Discard
  <2>2. PICK step : pc' = [pc EXCEPT ![p] = step]
    BY <2>1
  <2>3. pc'[p] = step
    BY <2>2 DEF TypeOK
  <2>4. /\ pc[p] \in Chosen
        /\ pc'[p] \in ToPlace => pc[p] \in ToPlace
        /\ pc'[p] \in {"copying", "discard", "permit", "exec"} =>
             pc[p] \in {"copying", "discard", "permit", "exec"} /\ files' = files
    BY <2>1, <2>3 DEF Chosen, ToPlace, TypeOK
  <2>5. Upgrading(p)'
    BY <2>1, <2>4 DEF Upgrading
  <2>6. pc[p] # "idle"
    BY <2>1
  <2> QED
    BY <1>2, <2>2, <2>5, <2>6
<1>8. ASSUME NEW p \in Updaters, Extract(p)
      PROVE  \A q \in Updaters : Upgrading(q)'
  <2>1. /\ pc[p] = "extract" /\ pc' = [pc EXCEPT ![p] = "clear"]
        /\ UNCHANGED <<force, image, latest>> /\ Extracted(p)
    BY <1>8 DEF Extract
  <2>2. pc'[p] = "clear" /\ new'[p].version = latest[p]
    BY <2>1 DEF TypeOK, Extracted
  <2>3. Upgrading(p)'
    BY <2>1, <2>2 DEF Upgrading, Chosen, ToPlace
  <2> QED
    BY <1>2, <2>1, <2>3
<1>9. ASSUME NEW p \in Updaters, Place(p) \/ Copy(p)
      PROVE  \A q \in Updaters : Upgrading(q)'
  <2>1. /\ pc[p] \in {"place", "copy"}
        /\ UNCHANGED <<force, image, latest, new, target>>
    BY <1>9 DEF Place, Copy
  <2>2. /\ target[p] \in Paths /\ new[p].version = latest[p] /\ pc[p] \in Chosen
        /\ new[p] \in File
    BY <2>1 DEF TypeOK, Replacing, Paths, Upgrading, ToPlace, Chosen
  <2>3. ASSUME NEW f, f.version = latest[p], files' = [files EXCEPT ![target[p]] = f],
               NEW step \in {"permit", "copying"}, pc' = [pc EXCEPT ![p] = step]
        PROVE  \A q \in Updaters : Upgrading(q)'
    <3>1. files'[target[p]] = f /\ pc'[p] = step
      BY <2>2, <2>3 DEF TypeOK
    <3>2. Upgrading(p)'
      BY <2>1, <2>2, <2>3, <3>1 DEF Upgrading, Chosen, ToPlace
    <3> QED
      BY <1>2, <2>1, <2>3, <3>2
  <2>4. CASE pc' = [pc EXCEPT ![p] = "copy"]
    <3>1. pc'[p] = "copy"
      BY <2>4 DEF TypeOK
    <3>2. Upgrading(p)'
      BY <2>1, <2>2, <3>1 DEF Upgrading, Chosen, ToPlace
    <3> QED
      BY <1>2, <2>1, <2>4, <3>2
  <2>5. CASE Place(p)
    BY <2>2, <2>3, <2>4, <2>5 DEF Place
  <2>6. CASE Copy(p)
    <3> DEFINE half == [new[p] EXCEPT !.inode = Opened(p), !.whole = FALSE]
    <3>1. half.version = latest[p]
      BY <2>2 DEF File
    <3>2. files' = [files EXCEPT ![target[p]] = half] /\ pc' = [pc EXCEPT ![p] = "copying"]
      BY <2>6 DEF Copy
    <3> HIDE DEF half
    <3> QED
      BY <2>3, <3>1, <3>2
  <2> QED
    BY <1>9, <2>5, <2>6
<1>10. ASSUME NEW p \in Updaters, Permit(p)
       PROVE  \A q \in Updaters : Upgrading(q)'
  <2>1. /\ pc[p] = "permit" /\ pc' = [pc EXCEPT ![p] = "exec"]
        /\ files[target[p]] # Absent
        /\ files' = [files EXCEPT ![target[p]].executable = TRUE]
        /\ UNCHANGED <<force, image, latest, new, target>>
    BY <1>10 DEF Permit, Exists
  <2>2. target[p] \in Paths /\ files[target[p]] \in File /\ pc'[p] = "exec"
    BY <2>1 DEF TypeOK, Replacing, Paths
  <2>3. files'[target[p]].version = files[target[p]].version
    BY <2>1, <2>2 DEF TypeOK, File
  <2>4. Upgrading(p)'
    BY <2>1, <2>2, <2>3 DEF Upgrading, Chosen, ToPlace
  <2> QED
    BY <1>2, <2>1, <2>4
<1>11. ASSUME NEW p \in Updaters, CopyDone(p)
       PROVE  \A q \in Updaters : Upgrading(q)'
  <2>1. /\ pc[p] = "copying" /\ pc' = [pc EXCEPT ![p] = "discard"]
        /\ UNCHANGED <<force, image, latest, new, target>>
    BY <1>11 DEF CopyDone
  <2>2. pc'[p] = "discard" /\ target[p] \in Paths /\ output[p] \in 0..Nowhere
    BY <2>1 DEF TypeOK, Replacing, Paths
  <2>3. files'[target[p]].version = files[target[p]].version
    <3>1. CASE output[p] = Nowhere
      BY <1>11, <3>1 DEF CopyDone
    <3>2. CASE output[p] # Nowhere
      <4>1. output[p] \in Paths /\ files[output[p]] \in File
        BY <2>1, <2>2, <3>2 DEF TypeOK, Paths
      <4>2. files' = [files EXCEPT ![output[p]] = [files[output[p]] EXCEPT !.whole = TRUE]]
        BY <1>11, <3>2 DEF CopyDone
      <4> QED
        BY <2>2, <4>1, <4>2, CompletedIsFile DEF TypeOK
    <3> QED
      BY <3>1, <3>2
  <2>4. Upgrading(p)'
    BY <2>1, <2>2, <2>3 DEF Upgrading, Chosen, ToPlace
  <2> QED
    BY <1>2, <2>1, <2>4
<1>12. ASSUME NEW p \in Updaters,
              NoRelease(p) \/ ExtractFails(p) \/ Exec(p) \/ Throw(p) \/ Die(p)
       PROVE  \A q \in Updaters : Upgrading(q)'
  <2>1. pc[p] # "idle" /\ pc' = [pc EXCEPT ![p] = "idle"]
    BY <1>12 DEF NoRelease, ExtractFails, Exec, Throw, Die, Finish
  <2> QED
    BY <1>3, <2>1
<1> QED
  BY <1>1, <1>4, <1>5, <1>6, <1>7, <1>8, <1>9, <1>10, <1>11, <1>12
  DEF Next, Prepare, Replace

(***************************************************************************)
(* An update that restarts the program has put the release it found at the *)
(* path, and without --force that is newer than the program was            *)
(* (compare_semver and update, update.cc 385-403).                         *)
(***************************************************************************)
THEOREM NeverDowngrades == Spec => UpgradesOnly
<1>1. Init => UInv
  BY DEF Init, UInv, Upgrading, Chosen, ToPlace
<1>2. [Next]_vars => overlapping' = overlapping
  BY DEF Next, vars, Prepare, Replace, Die, Start, Locate, Compare, Download,
         NoRelease, Extract, ExtractFails, Clear, MoveAside, Place, Copy,
         CopyDone, Discard, Permit, Exec, Throw, Same, SameRun
<1>3. TypeOK /\ IInv /\ UInv /\ [Next]_vars => UInv'
  BY <1>2, UpgradingInvariant DEF IInv, Safe, UInv
<1>4. TypeOK /\ UInv /\ [Next]_vars =>
        [\A p \in Updaters :
           result[p] # "restarted" /\ result'[p] = "restarted" /\ ~overlapping =>
             /\ files[target[p]].version = latest[p]
             /\ ~force[p] /\ image[p].version # Unversioned =>
                  Newer(latest[p], image[p].version)]_vars
  <2> SUFFICES ASSUME TypeOK, UInv, Next, NEW p \in Updaters, ~overlapping,
                      result[p] # "restarted", result'[p] = "restarted"
               PROVE  /\ files[target[p]].version = latest[p]
                      /\ ~force[p] /\ image[p].version # Unversioned =>
                           Newer(latest[p], image[p].version)
    OBVIOUS
  <2> USE DEF Same, SameRun, SameChoice, SameOutput, SameOutcome, Now
  <2>1. PICK q \in Updaters : Prepare(q) \/ Replace(q) \/ Die(q)
    BY DEF Next
  <2>2. ASSUME NEW how, how # "restarted", result' = [result EXCEPT ![q] = how]
        PROVE  FALSE
    BY <2>2 DEF TypeOK
  <2>3. ASSUME NEW how, how \in {"current", "failed"}, Finish(q, how) PROVE FALSE
    BY <2>2, <2>3 DEF Finish
  <2>4. ~Prepare(q)
    BY <2>2, <2>3
    DEF Prepare, Start, Locate, Compare, Download, NoRelease, Extract,
        ExtractFails
  <2>5. ~Die(q)
    BY <2>2 DEF Die
  <2>6. Exec(q)
    BY <2>1, <2>3, <2>4, <2>5
    DEF Replace, Clear, MoveAside, Place, Copy, CopyDone, Discard, Permit, Throw
  <2>7. pc[q] = "exec" /\ p = q
    BY <2>3, <2>6 DEF Exec, TypeOK
  <2> QED
    BY <2>7 DEF UInv, Upgrading, Chosen
<1> QED
  BY <1>1, <1>3, <1>4, TypeCorrect, Invariance, PTL DEF Spec, UpgradesOnly

-----------------------------------------------------------------------------
(***************************************************************************)
(* The inductive invariant of CopyAtHand, which runs may overlap in.  It   *)
(* is about path 0: whoever takes the program from there is about to put   *)
(* another one there, and an incomplete one is still being copied.         *)
(***************************************************************************)
Working(p) == pc[p] \in Replacing /\ target[p] = 0
Copying(p) == pc[p] = "copying" /\ target[p] = 0 /\ output[p] = 0
Incomplete == files[0] # Absent /\ ~files[0].whole

\* The step of p is none that moves a file away that another one writes.
StaysOpen(p) == \A q \in Updaters : q # p /\ output[q] = 0 => output'[q] = 0

HomeInv ==
  /\ \A p \in Updaters : pc[p] \in ToPlace => new[p].whole
  /\ ~interrupted => Runs(files[0]) \/ \E p \in Updaters : Working(p)
  /\ ~interrupted /\ Incomplete => \E p \in Updaters : Copying(p)

(***************************************************************************)
(* Who has not taken the program from path 0 changes nothing there; and    *)
(* an interruption is not spoken of.                                       *)
(***************************************************************************)
LEMMA HomeApart ==
  ASSUME TypeOK, HomeInv, NEW p \in Updaters, NEW step \in Steps,
         pc' = [pc EXCEPT ![p] = step],
         \/ files'[0] = files[0] /\ ~Working(p) /\ pc[p] # "copying" /\ ~interrupted
         \/ interrupted',
         StaysOpen(p),
         \A q \in Updaters : q # p => target'[q] = target[q] /\ new'[q] = new[q],
         step \in ToPlace => new'[p].whole
  PROVE  HomeInv'
<1>1. \A q \in Updaters : q # p => pc'[q] = pc[q]
  BY DEF TypeOK
<1>2. pc'[p] = step
  BY DEF TypeOK
<1>3. \A q \in Updaters : pc'[q] \in ToPlace => new'[q].whole
  BY <1>1, <1>2, Zenon DEF HomeInv
<1>4. CASE interrupted'
  BY <1>3, <1>4, Zenon DEF HomeInv
<1>5. CASE files'[0] = files[0] /\ ~Working(p) /\ pc[p] # "copying" /\ ~interrupted
  <2>1. ~Copying(p)
    BY <1>5, Zenon DEF Copying
  <2>2. ASSUME NEW q \in Updaters
        PROVE  (Working(q) => Working(q)') /\ (Copying(q) => Copying(q)')
    BY <1>1, <1>5, <2>1, <2>2, Zenon DEF Working, Copying, StaysOpen
  <2>3. Runs(files'[0]) \/ \E q \in Updaters : Working(q)'
    BY <1>5, <2>2, Zenon DEF HomeInv
  <2>4. Incomplete' => \E q \in Updaters : Copying(q)'
    BY <1>5, <2>2, Zenon DEF HomeInv, Incomplete
  <2> QED
    BY <1>3, <2>3, <2>4, Zenon DEF HomeInv
<1> QED
  BY <1>4, <1>5, Zenon

(***************************************************************************)
(* Who has taken it, or takes it, is at work until the end.                *)
(***************************************************************************)
LEMMA HomeTaken ==
  ASSUME TypeOK, HomeInv, NEW p \in Updaters, NEW step \in Replacing,
         pc' = [pc EXCEPT ![p] = step], target[p] = 0,
         UNCHANGED <<target, new, interrupted>>,
         step \in ToPlace => pc[p] \in ToPlace,
         \/ files'[0] = Absent \/ files'[0].whole
         \/ step = "copying" /\ output'[p] = 0
         \/ files'[0] = files[0] /\ pc[p] # "copying" /\ StaysOpen(p)
  PROVE  HomeInv'
<1>1. \A q \in Updaters : q # p => pc'[q] = pc[q]
  BY DEF TypeOK
<1>2. pc'[p] = step
  BY DEF TypeOK
<1>3. \A q \in Updaters : pc'[q] \in ToPlace => new'[q].whole
  BY <1>1, <1>2, Zenon DEF HomeInv
<1>4. Working(p)'
  BY <1>2, Zenon DEF Working
<1>5. ~interrupted' /\ Incomplete' => \E q \in Updaters : Copying(q)'
  <2>1. CASE files'[0] = Absent \/ files'[0].whole
    BY <2>1, Zenon DEF Incomplete
  <2>2. CASE step = "copying" /\ output'[p] = 0
    <3>1. Copying(p)'
      BY <1>2, <2>2, Zenon DEF Copying
    <3> QED
      BY <3>1, Zenon
  <2>3. CASE files'[0] = files[0] /\ pc[p] # "copying" /\ StaysOpen(p)
    <3>1. ASSUME NEW q \in Updaters, Copying(q) PROVE Copying(q)'
      BY <1>1, <2>3, <3>1, Zenon DEF Copying, StaysOpen
    <3> QED
      BY <2>3, <3>1, Zenon DEF HomeInv, Incomplete
  <2> QED
    BY <2>1, <2>2, <2>3, Zenon
<1> QED
  BY <1>3, <1>4, <1>5, Zenon DEF HomeInv

LEMMA HomeInvariant == Spec => []HomeInv
<1>1. Init => HomeInv
  <2> SUFFICES ASSUME Init PROVE HomeInv
    OBVIOUS
  <2>1. 0 \in Paths
    BY DEF Paths
  <2>2. PICK version \in Programs :
          files = [path \in Paths |->
                    IF path = 0 THEN [inode |-> 0, version |-> version,
                                      whole |-> TRUE, executable |-> TRUE]
                                ELSE Absent]
    BY DEF Init
  <2> DEFINE installed == [inode |-> 0, version |-> version, whole |-> TRUE,
                           executable |-> TRUE]
  <2>3. files[0] = installed /\ installed \in File /\ installed.whole /\ installed.executable
    BY <2>1, <2>2 DEF File
  <2> HIDE DEF installed
  <2>4. Runs(files[0]) /\ ~Incomplete
    BY <2>3 DEF Runs, Incomplete
  <2>5. \A p \in Updaters : pc[p] = "idle"
    BY ZenonT(30) DEF Init
  <2> QED
    BY <2>4, <2>5 DEF HomeInv, ToPlace
<1>2. TypeOK /\ HomeInv /\ [Next]_vars => HomeInv'
  <2> SUFFICES ASSUME TypeOK, HomeInv, [Next]_vars PROVE HomeInv'
    OBVIOUS
  <2> USE DEF Same, SameRun, SameChoice, SameOutput, SameOutcome, Now
  <2>1. CASE UNCHANGED vars
    BY <2>1 DEF vars, HomeInv, Working, Copying, Incomplete, Runs
  <2>2. ASSUME NEW p \in Updaters, NEW step \in Steps,
               pc' = [pc EXCEPT ![p] = step], pc[p] \notin Replacing,
               files'[0] = files[0], interrupted' = interrupted, StaysOpen(p),
               \A q \in Updaters : q # p => target'[q] = target[q] /\ new'[q] = new[q],
               step \in ToPlace => new'[p].whole
        PROVE  HomeInv'
    <3>1. ~Working(p) /\ pc[p] # "copying"
      BY <2>2 DEF Working, Replacing
    <3>2. interrupted \in BOOLEAN
      BY DEF TypeOK
    <3> QED
      BY <2>2, <3>1, <3>2, HomeApart
  <2>3. ASSUME NEW p \in Updaters, NEW how, Finish(p, how), SameRun, SameChoice, SameOutput,
               UNCHANGED <<files, interrupted>>, pc[p] \notin Replacing
        PROVE  HomeInv'
    BY <2>2, <2>3 DEF StaysOpen, Finish, Steps, ToPlace
  <2>4. ASSUME NEW p \in Updaters, Prepare(p) PROVE HomeInv'
    <3>1. ASSUME NEW path \in Paths, Start(p, path) PROVE HomeInv'
      BY <2>2, <3>1 DEF StaysOpen, Start, Steps, ToPlace, Replacing
    <3>2. CASE Locate(p)
      <4>1. \A q \in Updaters : q # p => target'[q] = target[q]
        BY <3>2 DEF Locate, TypeOK
      <4> QED
        BY <2>2, <3>2, <4>1 DEF StaysOpen, Locate, Steps, ToPlace, Replacing
    <3>3. ASSUME NEW version \in Versions, Compare(p, version) PROVE HomeInv'
      <4>1. /\ pc[p] = "compare" /\ UNCHANGED <<files, target, new, output, interrupted>>
            /\ \E step \in {"idle", "download"} : pc' = [pc EXCEPT ![p] = step]
        BY <3>3 DEF Compare, Finish
      <4> QED
        BY <2>2, <4>1 DEF StaysOpen, Steps, ToPlace, Replacing
    <3>4. CASE Download(p)
      BY <2>2, <3>4 DEF StaysOpen, Download, Steps, ToPlace, Replacing
    <3>5. CASE NoRelease(p)
      BY <2>3, <3>5 DEF NoRelease, Replacing
    <3>6. CASE Extract(p)
      <4>1. /\ \A q \in Updaters : q # p => new'[q] = new[q]
            /\ new'[p].whole
        BY <3>6 DEF Extract, Extracted, TypeOK
      <4> QED
        BY <2>2, <3>6, <4>1 DEF StaysOpen, Extract, Steps, Replacing
    <3>7. CASE ExtractFails(p)
      <4>1. /\ pc[p] = "extract" /\ UNCHANGED <<files, target, new, output, interrupted>>
            /\ pc' = [pc EXCEPT ![p] = "idle"]
        BY <3>7 DEF ExtractFails, Finish
      <4> QED
        BY <2>2, <4>1 DEF StaysOpen, Steps, ToPlace, Replacing
    <3> QED
      BY <2>4, <3>1, <3>2, <3>3, <3>4, <3>5, <3>6, <3>7 DEF Prepare
  <2>5. ASSUME NEW p \in Updaters, Clear(p) PROVE HomeInv'
    <3>1. files'[0] = files[0]
      BY <2>5 DEF Clear, Backup, TypeOK, Paths
    <3>2. new[p].whole /\ pc[p] \notin Replacing
      BY <2>5 DEF Clear, HomeInv, ToPlace, Replacing
    <3>3. StaysOpen(p)
      BY <2>5 DEF Clear, Renamed, Backup, StaysOpen, TypeOK
    <3> QED
      BY <2>2, <2>5, <3>1, <3>2, <3>3 DEF Clear, Steps
  <2>6. ASSUME NEW p \in Updaters, MoveAside(p) PROVE HomeInv'
    <3>1. /\ pc[p] = "aside" /\ pc' = [pc EXCEPT ![p] = "place"]
          /\ UNCHANGED <<target, new, interrupted>>
          /\ target[p] < Depth /\ target[p] \in Nat
      BY <2>6 DEF MoveAside, Exists, TypeOK
    <3>2. files' = [files EXCEPT ![target[p] + 1] = files[target[p]],
                                 ![target[p]] = Absent]
      BY <2>6 DEF MoveAside, Backup
    <3>3. new[p].whole /\ pc[p] \notin Replacing
      BY <3>1 DEF HomeInv, ToPlace, Replacing
    <3>4. CASE target[p] = 0
      <4>1. files'[0] = Absent
        BY <3>1, <3>2, <3>4 DEF TypeOK, Paths
      <4>2. /\ "place" \in Replacing
            /\ "place" \in ToPlace => pc[p] \in ToPlace
        BY <3>1 DEF Replacing, ToPlace
      <4> QED
        BY <3>1, <3>4, <4>1, <4>2, HomeTaken
    <3>5. CASE target[p] # 0
      <4>1. files'[0] = files[0]
        BY <3>1, <3>2, <3>5 DEF TypeOK, Paths
      <4>2. StaysOpen(p)
        BY <2>6, <3>1, <3>5 DEF MoveAside, Renamed, Backup, StaysOpen, TypeOK
      <4> QED
        BY <2>2, <3>1, <3>3, <4>1, <4>2 DEF Steps
    <3> QED
      BY <3>4, <3>5
  <2>7. ASSUME NEW p \in Updaters, Place(p) \/ Copy(p) \/ Discard(p)
        PROVE  HomeInv'
    <3>1. PICK step \in Replacing : pc' = [pc EXCEPT ![p] = step]
      BY <2>7 DEF Place, Copy, Discard, Replacing
    <3>2. /\ pc[p] \in Replacing /\ pc[p] # "copying"
          /\ UNCHANGED <<target, new, interrupted>>
      BY <2>7 DEF Place, Copy, Discard, Replacing
    <3>3. target[p] \in Nat /\ target[p] < Depth /\ step \in Steps
      BY <3>1, <3>2 DEF TypeOK, Steps, Replacing
    <3>4. pc'[p] = step
      BY <3>1 DEF TypeOK
    <3>5. step \in ToPlace => pc[p] \in ToPlace
      BY <2>7, <3>4 DEF Place, Copy, Discard, ToPlace, TypeOK
    <3>6. pc[p] \in ToPlace => new[p].whole
      BY DEF HomeInv
    <3>7. CASE target[p] # 0
      <4>1. files'[0] = files[0]
        <5>1. files' = files \/ \E f : files' = [files EXCEPT ![target[p]] = f]
          BY <2>7 DEF Place, Copy, Discard
        <5> QED
          BY <3>3, <3>7, <5>1 DEF TypeOK, Paths
      <4>2. ~Working(p)
        BY <3>7 DEF Working
      <4>3. StaysOpen(p)
        BY <2>7, <3>7 DEF Place, Copy, Discard, Renamed, StaysOpen, TypeOK
      <4> QED
        BY <3>1, <3>2, <3>3, <3>5, <3>6, <4>1, <4>2, <4>3, HomeApart DEF TypeOK
    <3>8. CASE target[p] = 0
      <4>1. CASE Copy(p)
        <5>1. step = "copying" /\ output'[p] = 0
          BY <3>4, <3>8, <4>1 DEF Copy, TypeOK
        <5> QED
          BY <3>1, <3>2, <3>5, <3>8, <5>1, HomeTaken
      <4>2. CASE UNCHANGED <<files, output>>
        BY <3>1, <3>2, <3>5, <3>8, <4>2, HomeTaken DEF StaysOpen
      <4>3. CASE files' = [files EXCEPT ![target[p]] = new[p]] /\ pc[p] = "place"
        <5>1. files'[0] = new[p] /\ new[p].whole
          BY <3>6, <3>8, <4>3 DEF TypeOK, Paths, ToPlace
        <5> QED
          BY <3>1, <3>2, <3>5, <3>8, <5>1, HomeTaken
      <4> QED
        BY <2>7, <4>1, <4>2, <4>3 DEF Place, Discard
    <3> QED
      BY <3>7, <3>8
  <2>8. ASSUME NEW p \in Updaters, Permit(p) PROVE HomeInv'
    <3>1. /\ pc[p] = "permit" /\ pc' = [pc EXCEPT ![p] = "exec"]
          /\ files[target[p]] # Absent
          /\ files' = [files EXCEPT ![target[p]].executable = TRUE]
          /\ UNCHANGED <<target, new, output, interrupted>>
      BY <2>8 DEF Permit, Exists
    <3>2. target[p] \in Paths /\ files[target[p]] \in File
      BY <3>1 DEF TypeOK, Replacing, Paths
    <3>3. CASE target[p] # 0
      <4>1. files'[0] = files[0] /\ ~Working(p)
        BY <3>1, <3>3 DEF Working, TypeOK, Paths
      <4> QED
        BY <3>1, <4>1, HomeApart DEF StaysOpen, Steps, ToPlace, TypeOK
    <3>4. CASE target[p] = 0
      <4> DEFINE f == [files[0] EXCEPT !.executable = TRUE]
      <4>1. /\ f \in File /\ f # Absent /\ f.executable
            /\ f.whole = files[0].whole
        BY <3>2, <3>4 DEF File
      <4>2. files'[0] = f
        BY <3>1, <3>2, <3>4 DEF TypeOK
      <4> HIDE DEF f
      <4>3. ASSUME NEW q \in Updaters, q # p PROVE pc'[q] = pc[q]
        BY <3>1, <4>3 DEF TypeOK
      <4>4. pc'[p] = "exec"
        BY <3>1 DEF TypeOK
      <4>5. ASSUME NEW q \in Updaters, Copying(q) PROVE Copying(q)' /\ Working(q)'
        BY <3>1, <4>3, <4>5 DEF Copying, Working, Replacing
      <4>6. Incomplete' => Incomplete
        BY <3>1, <3>4, <4>1, <4>2 DEF Incomplete
      <4>7. ~Incomplete => Runs(f)
        BY <3>1, <3>4, <4>1 DEF Incomplete, Runs
      <4>8. \A q \in Updaters : pc'[q] \in ToPlace => new'[q].whole
        BY <3>1, <4>3, <4>4 DEF HomeInv, ToPlace
      <4>9. ~interrupted /\ Incomplete => \E q \in Updaters : Copying(q)
        BY DEF HomeInv
      <4>10. ~interrupted' => Runs(f) \/ \E q \in Updaters : Working(q)'
        BY <3>1, <4>5, <4>7, <4>9, Zenon
      <4>11. ~interrupted' /\ Incomplete' => \E q \in Updaters : Copying(q)'
        BY <3>1, <4>5, <4>6, <4>9, Zenon
      <4>12. Runs(f) => Runs(files'[0])
        BY <4>2, Zenon
      <4> QED
        BY <4>8, <4>10, <4>11, <4>12, Zenon DEF HomeInv
    <3> QED
      BY <3>3, <3>4
  <2>9. ASSUME NEW p \in Updaters, Exec(p) PROVE HomeInv'
    <3>1. /\ pc[p] = "exec" /\ pc' = [pc EXCEPT ![p] = "idle"]
          /\ UNCHANGED <<files, target, new, output, interrupted>>
      BY <2>9 DEF Exec, Finish
    <3> QED
      BY <2>2, <3>1 DEF StaysOpen, Steps, ToPlace, Replacing
  <2>10. ASSUME NEW p \in Updaters, Throw(p) \/ Die(p) PROVE HomeInv'
    <3>1. /\ pc' = [pc EXCEPT ![p] = "idle"] /\ UNCHANGED <<files, target, new>>
          /\ interrupted' = (interrupted \/ pc[p] \in Replacing)
      BY <2>10 DEF Throw, Die, Finish, Interrupt
    <3>2. StaysOpen(p)
      BY <2>10 DEF Throw, Die, CloseOutput, StaysOpen, TypeOK
    <3>3. CASE interrupted'
      BY <3>1, <3>2, <3>3, HomeApart DEF Steps, ToPlace
    <3>4. CASE ~interrupted'
      BY <2>2, <3>1, <3>2, <3>4 DEF Steps, ToPlace, TypeOK
    <3> QED
      BY <3>3, <3>4
  <2>11. ASSUME NEW p \in Updaters, CopyDone(p) PROVE HomeInv'
    <3>1. /\ pc[p] = "copying" /\ pc' = [pc EXCEPT ![p] = "discard"]
          /\ output' = [output EXCEPT ![p] = Nowhere]
          /\ UNCHANGED <<target, new, interrupted>>
      BY <2>11 DEF CopyDone, CloseOutput
    <3>2. \A q \in Updaters : q # p => pc'[q] = pc[q] /\ output'[q] = output[q]
      BY <3>1 DEF TypeOK
    <3>3. pc'[p] = "discard"
      BY <3>1 DEF TypeOK
    <3>4. \A q \in Updaters : pc'[q] \in ToPlace => new'[q].whole
      BY <3>1, <3>2, <3>3 DEF HomeInv, ToPlace
    <3>5. \A q \in Updaters : Working(q) => Working(q)'
      BY <3>1, <3>2, <3>3 DEF Working, Replacing
    <3>6. CASE output[p] = 0
      <4>1. files[0] \in File /\ 0 \in Paths /\ output[p] # Nowhere
        <5>1. 0 \in Paths /\ output[p] # Nowhere
          BY <3>6, BoundsAssumption DEF Paths, Nowhere
        <5>2. files[0] # Absent
          BY <3>1, <3>6, <5>1, Zenon DEF TypeOK
        <5> QED
          BY <5>1, <5>2 DEF TypeOK
      <4>2. files' = [files EXCEPT ![0] = [files[0] EXCEPT !.whole = TRUE]]
        BY <2>11, <3>6, <4>1 DEF CopyDone
      <4>3. files'[0] = [files[0] EXCEPT !.whole = TRUE]
        BY <4>1, <4>2 DEF TypeOK
      <4>4. /\ files'[0] # Absent /\ files'[0].whole
            /\ files'[0].executable = files[0].executable
        BY <4>1, <4>3, CompletedIsFile, Zenon
      <4>5. ~Incomplete' /\ (Runs(files[0]) => Runs(files'[0]))
        BY <4>4, Zenon DEF Incomplete, Runs
      <4> QED
        BY <3>1, <3>4, <3>5, <4>5, Zenon DEF HomeInv
    <3>7. CASE output[p] # 0
      <4>1. files'[0] = files[0]
        BY <2>11, <3>7 DEF CopyDone, TypeOK, Paths
      <4>2. \A q \in Updaters : Copying(q) => Copying(q)'
        BY <3>1, <3>2, <3>7 DEF Copying
      <4> QED
        BY <3>1, <3>4, <3>5, <4>1, <4>2, Zenon DEF HomeInv, Incomplete
    <3> QED
      BY <3>6, <3>7
  <2> QED
    BY <2>1, <2>4, <2>5, <2>6, <2>7, <2>8, <2>9, <2>10, <2>11 DEF Next, Replace
<1> QED
  BY <1>1, <1>2, TypeCorrect, PTL DEF Spec

(***************************************************************************)
(* When runs overlap, too, a program that runs is left or about to be put  *)
(* there, as long as no run ends during its replacement                    *)
(* (replace_and_restart, update.cc 255-280).                               *)
(***************************************************************************)
THEOREM ProgramAtHand == Spec => []CopyAtHand
<1>1. HomeInv => CopyAtHand
  <2> SUFFICES ASSUME HomeInv, ~interrupted
               PROVE  ProgramLeft \/ \E p \in Updaters : pc[p] \in Replacing
    BY DEF CopyAtHand
  <2>1. 0 \in Paths
    BY DEF Paths
  <2> QED
    BY <2>1 DEF HomeInv, ProgramLeft, Working
<1> QED
  BY <1>1, HomeInvariant, PTL
=============================================================================
