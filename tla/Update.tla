------------------------------- MODULE Update -------------------------------
(***************************************************************************)
(* `ai update` (update.cc) on Linux: runs of it, one after another or two  *)
(* at once, that replace the installed program by the latest release, with *)
(* every step failing or the process dying after any of them.              *)
(*                                                                         *)
(* Paths are numbered: 0 is the installed program and n + 1 is path n with *)
(* ".old" appended, the backup that replacing path n makes.                *)
(***************************************************************************)
EXTENDS Integers

CONSTANTS
  Updaters,    \* processes that run `ai update`
  Versions,    \* released versions: <<major, minor, patch>>
  Unversioned, \* what parse_semver makes of a build without a tag
  Absent,      \* no file
  Depth,       \* BOUND: how often ".old" is appended
  MaxRuns      \* BOUND: runs of `ai update`

ASSUME VersionsAssumption == Versions \subseteq Nat \X Nat \X Nat
ASSUME UnversionedAssumption == Unversioned \notin Versions
ASSUME BoundsAssumption == Depth \in Nat \ {0} /\ MaxRuns \in Nat

Paths == 0..Depth
Nowhere == Depth + 1  \* for a file that has no path
Programs == Versions \cup {Unversioned}

\* inode 0 was installed, inode n came with the n-th run.
File == [inode : 0..MaxRuns, version : Programs, whole : BOOLEAN,
         executable : BOOLEAN]

ASSUME AbsentAssumption == Absent \notin File

VARIABLES
  overlapping, \* whether a run may start while another one is under way
  files,       \* the file at each path
  runs,        \* runs so far
  pc,          \* of each updater: its next step
  run,         \*   the number of its run
  image,       \*   the file it executes
  force,       \*   --force
  target,      \*   current_exe; Nowhere when that names no file
  latest,      \*   latest_ver
  temp,        \*   what it keeps in the temporary directory
  new,         \*   the extracted program
  output,      \*   where the file is that copy_file has open
  result,      \*   how its last run ended
  interrupted  \* ghost: whether a run has ended during its replacement

vars == <<overlapping, files, runs, pc, run, image, force, target, latest,
          temp, new, output, result, interrupted>>

(***************************************************************************)
(* temp holds "archive", "dir", and what is in the directory: "new", the   *)
(* extracted program, and "other".                                         *)
(***************************************************************************)
Temporary == {"archive", "dir", "new", "other"}

Steps == {"idle", "locate", "compare", "download", "extract", "clear", "aside",
          "place", "copy", "copying", "discard", "permit", "exec"}

Replacing == {"place", "copy", "copying", "discard", "permit"}

Results == {"none", "current", "failed", "restarted", "terminated", "killed"}

TypeOK ==
  /\ overlapping \in BOOLEAN
  /\ files \in [Paths -> File \cup {Absent}]
  /\ runs \in 0..MaxRuns
  /\ pc \in [Updaters -> Steps]
  /\ run \in [Updaters -> 0..runs]
  /\ image \in [Updaters -> File]
  /\ force \in [Updaters -> BOOLEAN]
  /\ target \in [Updaters -> 0..Nowhere]
  /\ \A p \in Updaters : pc[p] \in Replacing => target[p] < Depth
  /\ latest \in [Updaters -> Programs]
  /\ temp \in [Updaters -> SUBSET Temporary]
  /\ \A p \in Updaters :
       pc[p] \in {"clear", "aside", "place", "copy"} => "new" \in temp[p]
  /\ new \in [Updaters -> File]
  /\ output \in [Updaters -> 0..Nowhere]
  /\ \A p \in Updaters :
       pc[p] = "copying" /\ output[p] # Nowhere => files[output[p]] # Absent
  /\ result \in [Updaters -> Results]
  /\ interrupted \in BOOLEAN

Runs(f) == f # Absent /\ f.whole /\ f.executable

-----------------------------------------------------------------------------
(***************************************************************************)
(* compare_semver: below, equal to or above 0, by the first parts that     *)
(* differ.                                                                 *)
(***************************************************************************)
\* Mutant of CompareSemver: the greatest part decides.
CompareLargest(a, b) ==
  LET top(v) == CHOOSE i \in {v[1], v[2], v[3]} :
                  \A j \in {v[1], v[2], v[3]} : j <= i
  IN  IF top(a) >= top(b) THEN 1 ELSE -1

CompareSemver(a, b) ==
  IF a[1] # b[1] THEN a[1] - b[1]
  ELSE IF a[2] # b[2] THEN a[2] - b[2]
  ELSE a[3] - b[3]

Now(p, step) == pc' = [pc EXCEPT ![p] = step]

(***************************************************************************)
(* The end of update(), by return or exception.  tmp_dir is destroyed      *)
(* first, and remove() of a directory that is not empty throws in the      *)
(* destructor, which ends the program.                                     *)
(***************************************************************************)
\* Mutant of Finish: the destructor ignores the error.
FinishQuietly(p, how) ==
  /\ Now(p, "idle")
  /\ result' = [result EXCEPT ![p] = how]
  /\ temp' = [temp EXCEPT ![p] = IF @ \cap {"new", "other"} = {} THEN {}
                                 ELSE @ \ {"archive"}]

Finish(p, how) ==
  LET empty == temp[p] \cap {"new", "other"} = {}
  IN
  /\ Now(p, "idle")
  /\ result' = [result EXCEPT ![p] = IF empty THEN how ELSE "terminated"]
  /\ temp' = IF empty THEN [temp EXCEPT ![p] = {}] ELSE temp

SameRun == UNCHANGED <<overlapping, runs, run, image, force>>
Same == SameRun /\ UNCHANGED interrupted
SameChoice == UNCHANGED <<target, latest, new>>
SameOutput == UNCHANGED output
SameOutcome == UNCHANGED <<temp, result>>

-----------------------------------------------------------------------------
(***************************************************************************)
(* Somebody runs the program at a path.                                    *)
(***************************************************************************)
Start(p, path) ==
  /\ runs < MaxRuns                                     \* BOUND
  /\ path < Depth                                       \* BOUND
  /\ overlapping \/ \A q \in Updaters : pc[q] = "idle"
  /\ pc[p] = "idle"
  /\ Runs(files[path])
  /\ runs' = runs + 1
  /\ run' = [run EXCEPT ![p] = runs']
  /\ image' = [image EXCEPT ![p] = files[path]]
  /\ \E f \in BOOLEAN : force' = [force EXCEPT ![p] = f]
  /\ temp' = [temp EXCEPT ![p] = {}]
  /\ result' = [result EXCEPT ![p] = "none"]
  /\ Now(p, "locate")
  /\ UNCHANGED <<overlapping, files, interrupted>> /\ SameChoice /\ SameOutput

\* /proc/self/exe (298-306) follows the running file when it is renamed.
Locate(p) ==
  LET here == {path \in Paths : files[path] # Absent
                                /\ files[path].inode = image[p].inode}
  IN
  /\ pc[p] = "locate"
  /\ here \subseteq 0..(Depth - 1)                      \* BOUND
  /\ target' = [target EXCEPT ![p] =
                  IF here = {} THEN Nowhere ELSE CHOOSE path \in here : TRUE]
  /\ Now(p, "compare")
  /\ UNCHANGED <<files, latest, new>> /\ Same /\ SameOutput /\ SameOutcome

\* 345-427: the latest release, unless this program is as new.
UpToDate(p, version) ==
  /\ ~force[p]
  /\ image[p].version # Unversioned
  /\ CompareSemver(image[p].version, version) >= 0

Compare(p, version) ==
  /\ pc[p] = "compare"
  /\ latest' = [latest EXCEPT ![p] = version]
  /\ IF UpToDate(p, version) THEN Finish(p, "current")
                             ELSE Now(p, "download") /\ SameOutcome
  /\ UNCHANGED <<files, target, new>> /\ Same /\ SameOutput

\* 431-442: download() removes what it has written when it fails.
Download(p) ==
  /\ pc[p] = "download"
  /\ temp' = [temp EXCEPT ![p] = {"archive"}]
  /\ Now(p, "extract")
  /\ UNCHANGED <<files, result>> /\ Same /\ SameChoice /\ SameOutput

\* 298-442: no path, or the server does not answer with what is needed.
NoRelease(p) ==
  /\ pc[p] \in {"locate", "compare", "download"}
  /\ Finish(p, "failed")
  /\ UNCHANGED files /\ Same /\ SameChoice /\ SameOutput

(***************************************************************************)
(* 445-477: tar into a new directory.  It may fail half-way, and the       *)
(* archive may hold something else.                                        *)
(***************************************************************************)
Extracted(p) ==
  \E executable \in BOOLEAN :
    new' = [new EXCEPT ![p] =
              [inode |-> run[p], version |-> latest[p], whole |-> TRUE,
               executable |-> executable]]

Extract(p) ==
  /\ pc[p] = "extract"
  /\ \E others \in SUBSET {"other"} :
       temp' = [temp EXCEPT ![p] = {"archive", "dir", "new"} \cup others]
  /\ Extracted(p)
  /\ Now(p, "clear")
  /\ UNCHANGED <<files, target, latest, result>> /\ Same /\ SameOutput

ExtractFails(p) ==
  /\ pc[p] = "extract"
  /\ \E left \in SUBSET {"new", "other"} :
       IF left = {} THEN Finish(p, "failed")
       ELSE /\ Now(p, "idle")
            /\ result' = [result EXCEPT ![p] = "terminated"]
            /\ temp' = [temp EXCEPT ![p] = {"archive", "dir"} \cup left]
  /\ UNCHANGED files /\ Same /\ SameChoice /\ SameOutput

-----------------------------------------------------------------------------
(***************************************************************************)
(* replace_and_restart (255-280).                                          *)
(***************************************************************************)
Exists(p) == target[p] < Depth /\ files[target[p]] # Absent
Backup(p) == target[p] + 1

\* Files that are open follow a rename, and outlive the loss of their path.
Renamed(from, to) ==
  output' = [q \in Updaters |-> IF output[q] = from THEN to
                               ELSE IF output[q] = to THEN Nowhere
                               ELSE output[q]]

Clear(p) ==
  /\ pc[p] = "clear"
  /\ IF target[p] < Depth
     THEN /\ files' = [files EXCEPT ![Backup(p)] = Absent]
          /\ Renamed(Backup(p), Nowhere)
     ELSE UNCHANGED <<files, output>>
  /\ Now(p, "aside")
  /\ Same /\ SameChoice /\ SameOutcome

\* Mutant of MoveAside: the program is removed instead of renamed.
RemoveCurrent(p) ==
  /\ pc[p] = "aside"
  /\ Exists(p)
  /\ files' = [files EXCEPT ![target[p]] = Absent]
  /\ Renamed(target[p], Nowhere)
  /\ Now(p, "place")
  /\ Same /\ SameChoice /\ SameOutcome

MoveAside(p) ==
  /\ pc[p] = "aside"
  /\ Exists(p)
  /\ files' = [files EXCEPT ![Backup(p)] = files[target[p]],
                            ![target[p]] = Absent]
  /\ Renamed(target[p], Backup(p))
  /\ Now(p, "place")
  /\ Same /\ SameChoice /\ SameOutcome

\* 259; it fails when the temporary directory is on another file system.
Place(p) ==
  /\ pc[p] = "place"
  /\ \/ /\ files' = [files EXCEPT ![target[p]] = new[p]]
        /\ Renamed(target[p], Nowhere)
        /\ temp' = [temp EXCEPT ![p] = @ \ {"new"}]
        /\ Now(p, "permit")
     \/ Now(p, "copy") /\ UNCHANGED <<files, temp, output>>
  /\ UNCHANGED result /\ Same /\ SameChoice

(***************************************************************************)
(* 261-263: copy_file opens the file at the path, or a new one, and begins *)
(* with an incomplete one.  A file that is executed is not opened.  Left   *)
(* out is that two copies are written into one file at a time.             *)
(***************************************************************************)
Opened(p) == IF files[target[p]] = Absent THEN run[p] ELSE files[target[p]].inode

Copy(p) ==
  /\ pc[p] = "copy"
  /\ \A q \in Updaters :
       /\ pc[q] # "idle" => image[q].inode # Opened(p)
       /\ pc[q] = "copying" => output[q] # target[p]    \* BOUND
  /\ files' = [files EXCEPT ![target[p]] =
                 [new[p] EXCEPT !.inode = Opened(p), !.whole = FALSE]]
  /\ output' = [output EXCEPT ![p] = target[p]]
  /\ Now(p, "copying")
  /\ Same /\ SameChoice /\ SameOutcome

CloseOutput(p) == output' = [output EXCEPT ![p] = Nowhere]

\* The file may be at another path by now, or at none.
CopyDone(p) ==
  /\ pc[p] = "copying"
  /\ files' = IF output[p] = Nowhere THEN files
              ELSE [files EXCEPT ![output[p]].whole = TRUE]
  /\ CloseOutput(p)
  /\ Now(p, "discard")
  /\ Same /\ SameChoice /\ SameOutcome

Discard(p) ==
  /\ pc[p] = "discard"
  /\ temp' = [temp EXCEPT ![p] = @ \ {"new"}]
  /\ Now(p, "permit")
  /\ UNCHANGED <<files, result>> /\ Same /\ SameChoice /\ SameOutput

\* Mutant of Permit: the mode of the archive is kept.
PermitNothing(p) ==
  /\ pc[p] = "permit"
  /\ Exists(p)
  /\ Now(p, "exec")
  /\ UNCHANGED files /\ Same /\ SameChoice /\ SameOutput /\ SameOutcome

Permit(p) ==
  /\ pc[p] = "permit"
  /\ Exists(p)
  /\ files' = [files EXCEPT ![target[p]].executable = TRUE]
  /\ Now(p, "exec")
  /\ Same /\ SameChoice /\ SameOutput /\ SameOutcome

\* No destructor runs when exec succeeds.
Exec(p) ==
  /\ pc[p] = "exec"
  /\ \/ /\ Runs(files[target[p]])
        /\ Now(p, "idle")
        /\ result' = [result EXCEPT ![p] = "restarted"]
        /\ UNCHANGED temp
     \/ Finish(p, "failed")
  /\ UNCHANGED files /\ Same /\ SameChoice /\ SameOutput

Interrupt(p) == interrupted' = (interrupted \/ pc[p] \in Replacing)

\* A step of the replacement throws: remove, rename, copy_file, permissions.
Throw(p) ==
  /\ pc[p] \in {"clear", "aside", "copy", "copying", "discard", "permit"}
  /\ Finish(p, "failed")
  /\ Interrupt(p)
  /\ CloseOutput(p)
  /\ UNCHANGED files /\ SameRun /\ SameChoice

Die(p) ==
  /\ pc[p] # "idle"
  /\ Now(p, "idle")
  /\ result' = [result EXCEPT ![p] = "killed"]
  /\ Interrupt(p)
  /\ CloseOutput(p)
  /\ UNCHANGED <<files, temp>> /\ SameRun /\ SameChoice

-----------------------------------------------------------------------------
Init ==
  \E version \in Programs :
    LET installed == [inode |-> 0, version |-> version, whole |-> TRUE,
                      executable |-> TRUE]
    IN
    /\ overlapping \in BOOLEAN
    /\ files = [path \in Paths |-> IF path = 0 THEN installed ELSE Absent]
    /\ runs = 0
    /\ pc = [p \in Updaters |-> "idle"]
    /\ run = [p \in Updaters |-> 0]
    /\ image = [p \in Updaters |-> installed]
    /\ force = [p \in Updaters |-> FALSE]
    /\ target = [p \in Updaters |-> 0]
    /\ latest = [p \in Updaters |-> version]
    /\ temp = [p \in Updaters |-> {}]
    /\ new = [p \in Updaters |-> installed]
    /\ output = [p \in Updaters |-> Nowhere]
    /\ result = [p \in Updaters |-> "none"]
    /\ interrupted = FALSE

Prepare(p) ==
  \/ \E path \in Paths : Start(p, path)
  \/ Locate(p)
  \/ \E version \in Versions : Compare(p, version)
  \/ Download(p) \/ NoRelease(p) \/ Extract(p) \/ ExtractFails(p)

Replace(p) ==
  \/ Clear(p) \/ MoveAside(p) \/ Place(p) \/ Copy(p) \/ CopyDone(p)
  \/ Discard(p) \/ Permit(p) \/ Exec(p) \/ Throw(p)

Next == \E p \in Updaters : Prepare(p) \/ Replace(p) \/ Die(p)

Spec == Init /\ [][Next]_vars

-----------------------------------------------------------------------------
(***************************************************************************)
(* Properties.                                                             *)
(*                                                                         *)
(* When updates do not overlap, a program that runs is always there, at    *)
(* its own path or at a backup's, whatever step fails and wherever the     *)
(* process dies (255-272).                                                 *)
(***************************************************************************)
ProgramLeft == \E path \in Paths : Runs(files[path])

CopySurvives == ~overlapping => ProgramLeft

(***************************************************************************)
(* When they do overlap, one may remove the other's backup while nothing   *)
(* is at the path.  As long as no run ends during its replacement, the     *)
(* other one is then about to put its program there.                       *)
(***************************************************************************)
CopyAtHand ==
  ~interrupted => ProgramLeft \/ \E p \in Updaters : pc[p] \in Replacing

(***************************************************************************)
(* An update that restarts the program has put the release it found at the *)
(* path it runs from, and without --force that is newer than itself        *)
(* (385-403).                                                              *)
(***************************************************************************)
Newer(a, b) ==
  \E i \in 1..3 : a[i] > b[i] /\ \A j \in 1..(i - 1) : a[j] = b[j]

UpgradesOnly ==
  [][\A p \in Updaters :
       result[p] # "restarted" /\ result'[p] = "restarted" /\ ~overlapping =>
         /\ files[target[p]].version = latest[p]
         /\ ~force[p] /\ image[p].version # Unversioned =>
              Newer(latest[p], image[p].version)]_vars

(***************************************************************************)
(* An update that returns leaves no temporary file (temp_file.cc 119-123). *)
(***************************************************************************)
ReturnedIsTidy ==
  \A p \in Updaters :
    pc[p] = "idle" /\ result[p] \in {"current", "failed"} => temp[p] = {}
=============================================================================
