------------------------------- MODULE Timer -------------------------------
(***************************************************************************)
(* One ai::base::Timer (base/timer.h): threads that start and stop it, the *)
(* worker thread that each start creates, and a callback that may stop its *)
(* own timer.                                                              *)
(*                                                                         *)
(* Every start makes a State of its own, numbered here; it is shared by    *)
(* the timer, the calls at work on it and its worker, and destroyed when   *)
(* the last of them lets go.  The worker of State s is actor s.            *)
(***************************************************************************)
EXTENDS Naturals, FiniteSets

CONSTANTS
  Users,         \* the threads that call start and stop
  CallbackStops, \* whether the callback may call stop
  MaxStarts      \* BOUND: calls of start

ASSUME UsersAssumption == IsFiniteSet(Users) /\ Users \cap Nat = {}
ASSUME FlagAssumption == CallbackStops \in BOOLEAN
ASSUME BoundAssumption == MaxStarts \in Nat

States == 1..MaxStarts
None == 0
Actors == Users \cup States

VARIABLES
  synchronised, \* whether a start is over before another call begins and
                \*   before its own timeout expires: chosen once
  state,      \* Timer::state_, or None
  started,    \* States made so far
  cancelled,  \* of each State: cancelled_
  running,    \*   running_
  worker,     \*   worker_: "empty", "joinable", "detached" or "joined"
  wpc,        \*   where its thread is: see WorkerPhases
  at,         \* of each actor: where its call is, see CallPhases
  held,       \*   the State its call works on, or None
  starting,   \*   whether its call is a start
  stopped     \* ghost: the States that a stop has waited for

calls == <<at, held, starting>>
timerVars == <<synchronised, state, started, cancelled, running, worker, wpc, calls,
          stopped>>

(***************************************************************************)
(* A worker "tested" the predicate of wait_for and found no cancellation,  *)
(* is "asleep" in it, "awake" after a notification, or runs the callback:  *)
(* "firing", or "stopping" once that has called stop.                      *)
(***************************************************************************)
WorkerPhases ==
  {"none", "begun", "tested", "asleep", "awake", "firing", "stopping", "over"}

StopPhases == {"idle", "check", "cancel", "notify", "join"}
CallPhases == StopPhases \cup {"store", "spawn", "assign"}

TimerTypeOK ==
  /\ synchronised \in BOOLEAN
  /\ started \in 0..MaxStarts
  /\ state \in 0..started
  /\ cancelled \in [States -> BOOLEAN]
  /\ running \in [States -> BOOLEAN]
  /\ worker \in [States -> {"empty", "joinable", "detached", "joined"}]
  /\ wpc \in [States -> WorkerPhases]
  /\ at \in [Actors -> CallPhases]
  /\ \A s \in States : at[s] \in StopPhases /\ ~starting[s]
  /\ held \in [Actors -> 0..started]
  /\ \A a \in Actors : held[a] = None <=> at[a] \in {"idle", "store"}
  /\ starting \in [Actors -> BOOLEAN]
  /\ stopped \subseteq 1..started

-----------------------------------------------------------------------------
(***************************************************************************)
(* stop (51-69).  It begins by taking the State out of the timer; without  *)
(* one it returns.  A stop that start has called goes on in there.         *)
(***************************************************************************)
Return(isStart) == IF isStart THEN "store" ELSE "idle"

Take(a, isStart) ==
  /\ at[a] = "idle"
  /\ starting' = [starting EXCEPT ![a] = isStart]
  /\ held' = [held EXCEPT ![a] = state]
  /\ state' = None
  /\ at' = [at EXCEPT ![a] = IF state = None THEN Return(isStart) ELSE "check"]
  /\ UNCHANGED <<synchronised, started, cancelled, running, worker, stopped>>

LetGo(a) ==
  /\ held' = [held EXCEPT ![a] = None]
  /\ at' = [at EXCEPT ![a] = Return(starting[a])]

Goto(a, phase) ==
  /\ at' = [at EXCEPT ![a] = phase]
  /\ UNCHANGED held

\* Synchronised: no start overlaps the call of another thread.
OthersIdle(u) == \A v \in Users \ {u} : at[v] = "idle"
NobodyStarts == \A v \in Users : at[v] # "idle" => ~starting[v]

Stop(u) ==
  /\ synchronised => NobodyStarts
  /\ Take(u, FALSE)
  /\ UNCHANGED wpc

\* Mutant of Check: the callback's own stop is like any other.
CheckNothing(a) ==
  /\ at[a] = "check"
  /\ Goto(a, "cancel")
  /\ UNCHANGED <<synchronised, state, started, cancelled, running, worker, wpc,
                 starting, stopped>>

\* 56-59: in the worker itself there is nothing to wait for.
Check(a) ==
  /\ at[a] = "check"
  /\ UNCHANGED <<synchronised, state, started, cancelled, running, wpc,
                 starting, stopped>>
  /\ IF held[a] = a /\ worker[a] = "joinable"
     THEN worker' = [worker EXCEPT ![a] = "detached"] /\ LetGo(a)
     ELSE Goto(a, "cancel") /\ UNCHANGED worker

Cancel(a) ==
  /\ at[a] = "cancel"
  /\ cancelled' = [cancelled EXCEPT ![held[a]] = TRUE]
  /\ Goto(a, "notify")
  /\ UNCHANGED <<synchronised, state, started, running, worker, wpc, starting,
                 stopped>>

\* The mutex is not held here: only a worker that is asleep by now wakes.
Notify(a) ==
  /\ at[a] = "notify"
  /\ wpc' = IF wpc[held[a]] = "asleep" THEN [wpc EXCEPT ![held[a]] = "awake"]
                                       ELSE wpc
  /\ Goto(a, "join")
  /\ UNCHANGED <<synchronised, state, started, cancelled, running, worker,
                 starting, stopped>>

\* Mutant of Join: the worker is left to itself.
JoinNothing(a) ==
  /\ at[a] = "join"
  /\ worker' = [worker EXCEPT ![held[a]] = "detached"]
  /\ running' = [running EXCEPT ![held[a]] = FALSE]
  /\ stopped' = stopped \cup {held[a]}
  /\ LetGo(a)
  /\ UNCHANGED <<synchronised, state, started, cancelled, wpc, starting>>

\* 64-68: joinable(), join() and the end of stop.
Join(a) ==
  LET s == held[a]
  IN
  /\ at[a] = "join"
  /\ worker[s] = "joinable" => wpc[s] = "over"
  /\ worker' = IF worker[s] = "joinable" THEN [worker EXCEPT ![s] = "joined"]
                                         ELSE worker
  /\ running' = [running EXCEPT ![s] = FALSE]
  /\ stopped' = stopped \cup {s}
  /\ LetGo(a)
  /\ UNCHANGED <<synchronised, state, started, cancelled, wpc, starting>>

\* A thread that joins itself gets an exception instead, which 89-93 catch.
JoinItself(s) ==
  /\ at[s] = "join"
  /\ held[s] = s
  /\ worker[s] = "joinable"
  /\ LetGo(s)
  /\ UNCHANGED <<synchronised, state, started, cancelled, running, worker, wpc,
                 starting, stopped>>

-----------------------------------------------------------------------------
(***************************************************************************)
(* start (71-97): stop, then a new State and its worker.  worker_ is       *)
(* assigned after the thread has begun.                                    *)
(***************************************************************************)
\* BOUND
MayStart == started + Cardinality({v \in Users : starting[v]}) < MaxStarts

\* Mutant of Start: the timer that is running is not stopped.
StartOver(u) ==
  /\ MayStart
  /\ synchronised => OthersIdle(u)
  /\ at[u] = "idle"
  /\ starting' = [starting EXCEPT ![u] = TRUE]
  /\ Goto(u, "store")
  /\ UNCHANGED <<synchronised, state, started, cancelled, running, worker, wpc,
                 stopped>>

Start(u) ==
  /\ MayStart
  /\ synchronised => OthersIdle(u)
  /\ Take(u, TRUE)
  /\ UNCHANGED wpc

Store(u) ==
  /\ at[u] = "store"
  /\ started' = started + 1
  /\ state' = started'
  /\ held' = [held EXCEPT ![u] = started']
  /\ running' = [running EXCEPT ![started'] = TRUE]
  /\ at' = [at EXCEPT ![u] = "spawn"]
  /\ UNCHANGED <<synchronised, cancelled, worker, wpc, starting, stopped>>

Spawn(u) ==
  /\ at[u] = "spawn"
  /\ wpc' = [wpc EXCEPT ![held[u]] = "begun"]
  /\ Goto(u, "assign")
  /\ UNCHANGED <<synchronised, state, started, cancelled, running, worker,
                 starting, stopped>>

Assign(u) ==
  /\ at[u] = "assign"
  /\ worker' = [worker EXCEPT ![held[u]] = "joinable"]
  /\ starting' = [starting EXCEPT ![u] = FALSE]
  /\ held' = [held EXCEPT ![u] = None]
  /\ at' = [at EXCEPT ![u] = "idle"]
  /\ UNCHANGED <<synchronised, state, started, cancelled, running, wpc,
                 stopped>>

-----------------------------------------------------------------------------
(***************************************************************************)
(* The worker (81-96).  wait_for tests its predicate, sleeps, and tests    *)
(* again when it wakes, by a notification or by itself; when the time is   *)
(* over the predicate decides whether the callback runs.                   *)
(***************************************************************************)
Worker(s, from, to) ==
  /\ wpc[s] \in from
  /\ wpc' = [wpc EXCEPT ![s] = to]
  /\ running' = [running EXCEPT ![s] = @ /\ to # "over"]
  /\ UNCHANGED <<synchronised, state, started, cancelled, worker, calls,
                 stopped>>

Test(s) ==
  Worker(s, {"begun", "awake"}, IF cancelled[s] THEN "over" ELSE "tested")

Sleep(s) == Worker(s, {"tested"}, "asleep")

Wake(s) == Worker(s, {"asleep"}, "awake")

\* Mutant of TimeOut: the worker waits without a timeout.
WaitOn(s) == FALSE /\ Wake(s)

TimeOut(s) ==
  /\ synchronised => worker[s] # "empty"
  /\ Worker(s, {"asleep"}, IF cancelled[s] THEN "over" ELSE "firing")

CallbackStop(s) ==
  /\ CallbackStops
  /\ wpc[s] = "firing"
  /\ wpc' = [wpc EXCEPT ![s] = "stopping"]
  /\ Take(s, FALSE)

\* It returns or throws, which is caught.
CallbackEnds(s) ==
  /\ at[s] = "idle"
  /\ Worker(s, {"firing", "stopping"}, "over")

-----------------------------------------------------------------------------
TimerInit ==
  /\ synchronised \in BOOLEAN
  /\ state = None
  /\ started = 0
  /\ cancelled = [s \in States |-> FALSE]
  /\ running = [s \in States |-> FALSE]
  /\ worker = [s \in States |-> "empty"]
  /\ wpc = [s \in States |-> "none"]
  /\ at = [a \in Actors |-> "idle"]
  /\ held = [a \in Actors |-> None]
  /\ starting = [a \in Actors |-> FALSE]
  /\ stopped = {}

StopStep(a) == Check(a) \/ Cancel(a) \/ Notify(a) \/ Join(a)
StartStep(u) == Store(u) \/ Spawn(u) \/ Assign(u)
WorkerStep(s) == Test(s) \/ Sleep(s) \/ CallbackEnds(s) \/ JoinItself(s)

UserNext(u) == Start(u) \/ Stop(u) \/ StopStep(u) \/ StartStep(u)
WorkerNext(s) ==
  WorkerStep(s) \/ Wake(s) \/ TimeOut(s) \/ CallbackStop(s) \/ StopStep(s)

TimerNext == (\E u \in Users : UserNext(u)) \/ (\E s \in States : WorkerNext(s))

(***************************************************************************)
(* Threads go on and callbacks return.  wait_for keeps its deadline        *)
(* however often it wakes, so the timeout is strongly fair.                *)
(***************************************************************************)
Fairness ==
  /\ \A u \in Users : WF_timerVars(StopStep(u) \/ StartStep(u))
  /\ \A s \in States :
       /\ WF_timerVars(WorkerStep(s) \/ StopStep(s))
       /\ SF_timerVars(TimeOut(s))

TimerSpec == TimerInit /\ [][TimerNext]_timerVars /\ Fairness

-----------------------------------------------------------------------------
(***************************************************************************)
(* Properties.                                                             *)
(*                                                                         *)
(* When a stop that found the timer set has returned, its worker is gone   *)
(* and its callback will not run any more.                                 *)
(***************************************************************************)
StoppedIsOver == synchronised => \A s \in stopped : wpc[s] = "over"

(***************************************************************************)
(* A worker that may still fire can still be stopped: the timer refers to  *)
(* it, or a call is at work on it.  A restart does not leave the one       *)
(* before behind (start calls stop, 73).                                   *)
(***************************************************************************)
MayFire(s) == wpc[s] \in {"begun", "tested", "asleep", "awake"} /\ ~cancelled[s]

ArmedIsReachable ==
  synchronised =>
    \A s \in States : MayFire(s) => state = s \/ \E a \in Actors : held[a] = s

(***************************************************************************)
(* No State is destroyed with a joinable thread, which would end the       *)
(* program (std::thread's destructor).                                     *)
(***************************************************************************)
Referenced(s) ==
  \/ state = s
  \/ \E a \in Actors : held[a] = s
  \/ wpc[s] \notin {"none", "over"}

NoJoinableDropped == \A s \in States : worker[s] = "joinable" => Referenced(s)

\* It holds of callers that keep their starts apart.
NoJoinableDroppedApart == synchronised => NoJoinableDropped

(***************************************************************************)
(* Every call returns, also a stop by the callback and one whose           *)
(* notification was lost: no join waits for ever.                          *)
(***************************************************************************)
CallsReturn == \A a \in Actors : at[a] # "idle" ~> at[a] = "idle"
=============================================================================
