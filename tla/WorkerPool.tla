----------------------------- MODULE WorkerPool -----------------------------
(***************************************************************************)
(* WorkerPool of nats/src/server/worker-pool.ts: execute runs pieces of    *)
(* work under a semaphore and a timeout, shutdown turns new work away and  *)
(* waits for the work in progress, up to a timeout of its own.             *)
(*                                                                         *)
(* An action is what one process does between two awaits. The semaphore is *)
(* async-mutex's: a caller that finds a free permit takes it at once, but  *)
(* goes on only when its promise is resolved, after the caller of execute  *)
(* has gone on; the others wait in the order they came.                    *)
(***************************************************************************)
EXTENDS Integers, Sequences, FiniteSets

CONSTANTS
  Tasks,        \* calls of execute, each made at most once
  Hanging,      \* the tasks among them whose work may never settle
  Shutdowns,    \* calls of shutdown, each made at most once
  Concurrency   \* permits of the semaphore

ASSUME HangingAssumption == Hanging \subseteq Tasks
ASSUME ConcurrencyAssumption == Concurrency \in Nat \ {0}

VARIABLES
  isShuttingDown,
  permits,      \* free permits of the semaphore
  waiting,      \* tasks that wait for a permit, in order
  activities,   \* tasks whose work has begun and not settled
  timedOut,     \* tasks whose timeout has passed while they worked
  stage,        \* stage[t]: "idle", "queued", "granted", "working" or "done"
  outcome,      \* outcome[t]: what execute's promise settled with
  awaited,      \* awaited[s]: the activities shutdown s waits for
  closing       \* closing[s]: "idle", "waiting", "settled" or "expired"

poolVars == <<isShuttingDown, permits, waiting, activities, timedOut, stage,
              outcome, awaited, closing>>

Stages == {"idle", "queued", "granted", "working", "done"}

TypeOK ==
  /\ isShuttingDown \in BOOLEAN
  /\ permits \in 0..Concurrency
  /\ waiting \in Seq(Tasks)
  /\ activities \subseteq Tasks
  /\ timedOut \subseteq Tasks
  /\ stage \in [Tasks -> Stages]
  /\ outcome \in [Tasks -> {"none", "ok", "error", "timeout", "shutdown"}]
  /\ awaited \in [Shutdowns -> SUBSET Tasks]
  /\ closing \in [Shutdowns -> {"idle", "waiting", "settled", "expired"}]

Init ==
  /\ isShuttingDown = FALSE
  /\ permits = Concurrency
  /\ waiting = <<>>
  /\ activities = {}
  /\ timedOut = {}
  /\ stage = [t \in Tasks |-> "idle"]
  /\ outcome = [t \in Tasks |-> "none"]
  /\ awaited = [s \in Shutdowns |-> {}]
  /\ closing = [s \in Shutdowns |-> "idle"]

-----------------------------------------------------------------------------
\* execute is called, and turned away, given a permit or made to wait for one.
Refuse(t) ==
  /\ stage[t] = "idle"
  /\ isShuttingDown
  /\ stage' = [stage EXCEPT ![t] = "done"]
  /\ outcome' = [outcome EXCEPT ![t] = "shutdown"]
  /\ UNCHANGED <<isShuttingDown, permits, waiting, activities, timedOut, awaited, closing>>

Acquire(t) ==
  /\ stage[t] = "idle"
  /\ ~isShuttingDown
  /\ \/ /\ permits > 0
        /\ permits' = permits - 1
        /\ stage' = [stage EXCEPT ![t] = "granted"]
        /\ UNCHANGED waiting
     \/ /\ permits = 0
        /\ waiting' = Append(waiting, t)
        /\ stage' = [stage EXCEPT ![t] = "queued"]
        /\ UNCHANGED permits
  /\ UNCHANGED <<isShuttingDown, activities, timedOut, outcome, awaited, closing>>

\* The permit's promise is resolved: the timer is set and the work begins. The
\* flag is not looked at again.
Start(t) ==
  /\ stage[t] = "granted"
  /\ stage' = [stage EXCEPT ![t] = "working"]
  /\ activities' = activities \cup {t}
  /\ UNCHANGED <<isShuttingDown, permits, waiting, timedOut, outcome, awaited, closing>>

\* The timer fires. The signal is aborted, but the work goes on until it settles.
Expire(t) ==
  /\ stage[t] = "working"
  /\ t \notin timedOut
  /\ timedOut' = timedOut \cup {t}
  /\ UNCHANGED <<isShuttingDown, permits, waiting, activities, stage, outcome,
                 awaited, closing>>

\* Mutant of Release: the permit is made free, and whoever waits is not told.
ReleaseOnly(t) ==
  /\ permits' = permits + 1
  /\ stage' = [stage EXCEPT ![t] = "done"]
  /\ UNCHANGED waiting

\* release(): the permit of t goes to the first that waits, or is free.
Release(t) ==
  \/ /\ waiting = <<>>
     /\ permits' = permits + 1
     /\ stage' = [stage EXCEPT ![t] = "done"]
     /\ UNCHANGED waiting
  \/ /\ waiting # <<>>
     /\ waiting' = Tail(waiting)
     /\ stage' = [stage EXCEPT ![t] = "done", ![Head(waiting)] = "granted"]
     /\ UNCHANGED permits

\* The work settles, and execute with it.
Settle(t) ==
  /\ stage[t] = "working"
  /\ \E result \in IF t \in timedOut THEN {"timeout"} ELSE {"ok", "error"} :
       outcome' = [outcome EXCEPT ![t] = result]
  /\ activities' = activities \ {t}
  /\ Release(t)
  /\ UNCHANGED <<isShuttingDown, timedOut, awaited, closing>>

-----------------------------------------------------------------------------
\* The end of the wait: at once if nothing is in progress.
Await(s) ==
  /\ awaited' = [awaited EXCEPT ![s] = activities]
  /\ closing' = [closing EXCEPT ![s] = IF activities = {} THEN "settled" ELSE "waiting"]

\* Mutant of Shutdown: the waiters of the semaphore are not cancelled.
ShutdownLeavesWaiters(s) ==
  /\ closing[s] = "idle"
  /\ isShuttingDown' = TRUE
  /\ Await(s)
  /\ UNCHANGED <<permits, waiting, activities, timedOut, stage, outcome>>

\* shutdown is called: from now on tasks are turned away, and those that wait
\* for a permit are woken with a WorkerPoolShutdownError. One that has been
\* given its permit but has not gone on is in neither set.
Shutdown(s) ==
  LET cancelled == {waiting[i] : i \in DOMAIN waiting} IN
  /\ closing[s] = "idle"
  /\ isShuttingDown' = TRUE
  /\ waiting' = <<>>
  /\ stage' = [t \in Tasks |-> IF t \in cancelled THEN "done" ELSE stage[t]]
  /\ outcome' = [t \in Tasks |-> IF t \in cancelled THEN "shutdown" ELSE outcome[t]]
  /\ Await(s)
  /\ UNCHANGED <<permits, activities, timedOut>>

\* Mutant of ShutdownEnds: one activity that settles is enough (Promise.race).
ShutdownEndsEarly(s) ==
  /\ closing[s] = "waiting"
  /\ awaited[s] \ activities # {}
  /\ closing' = [closing EXCEPT ![s] = "settled"]
  /\ UNCHANGED <<isShuttingDown, permits, waiting, activities, timedOut, stage,
                 outcome, awaited>>

\* Every activity there was when shutdown was called has settled.
ShutdownEnds(s) ==
  /\ closing[s] = "waiting"
  /\ awaited[s] \cap activities = {}
  /\ closing' = [closing EXCEPT ![s] = "settled"]
  /\ UNCHANGED <<isShuttingDown, permits, waiting, activities, timedOut, stage,
                 outcome, awaited>>

\* Mutant of ShutdownExpires: the wait has no timeout.
ShutdownNeverExpires(s) == FALSE /\ UNCHANGED poolVars

\* shutdownTimeout passes first.
ShutdownExpires(s) ==
  /\ closing[s] = "waiting"
  /\ closing' = [closing EXCEPT ![s] = "expired"]
  /\ UNCHANGED <<isShuttingDown, permits, waiting, activities, timedOut, stage,
                 outcome, awaited>>

Next ==
  \/ \E t \in Tasks : Refuse(t) \/ Acquire(t) \/ Start(t) \/ Expire(t) \/ Settle(t)
  \/ \E s \in Shutdowns : Shutdown(s) \/ ShutdownEnds(s) \/ ShutdownExpires(s)

Spec == Init /\ [][Next]_poolVars

\* Promises that are resolved run their continuations and timers fire; work
\* settles unless it hangs.
Fairness ==
  /\ \A t \in Tasks : WF_poolVars(Start(t))
  /\ \A t \in Tasks \ Hanging : WF_poolVars(Settle(t))
  /\ \A s \in Shutdowns : WF_poolVars(ShutdownEnds(s) \/ ShutdownExpires(s))

FairSpec == Spec /\ Fairness

-----------------------------------------------------------------------------
(***************************************************************************)
(* Properties.                                                             *)
(***************************************************************************)
Holders == {t \in Tasks : stage[t] \in {"granted", "working"}}

\* Permits are neither lost nor made: work in progress, granted or begun, and
\* free permits always add up, through failures, timeouts and cancellations, and
\* nobody waits while a permit is free.
PermitsConserved ==
  /\ Cardinality(Holders) + permits = Concurrency
  /\ permits > 0 => waiting = <<>>

\* A task whose timeout passed while it worked is never answered with a result
\* or an error of its own, however it settles.
LateIsTimeout ==
  \A t \in timedOut : outcome[t] \in {"none", "timeout"}

\* A task that ends with WorkerPoolShutdownError has not begun its work, and
\* once the pool shuts down nobody is left to wait for a permit.
ShutdownWakesWaiters ==
  /\ isShuttingDown => waiting = <<>>
  /\ \A t \in Tasks : outcome[t] = "shutdown" => t \notin activities \cup timedOut

\* A shutdown that ends before its timeout has seen every task it found at work
\* through to an answer of its own. (It says nothing of a task that held a permit
\* but had not gone on when shutdown was called: the code does not wait for it.)
ShutdownSeesActivitiesOut ==
  \A s \in Shutdowns : closing[s] = "settled" =>
    \A t \in awaited[s] : stage[t] = "done" /\ outcome[t] \in {"ok", "error", "timeout"}

\* shutdown always ends, whatever the work in progress does.
ShutdownTerminates ==
  \A s \in Shutdowns : closing[s] = "waiting" ~> closing[s] \in {"settled", "expired"}

\* Work that does not hang is reached and answered once submitted, if no more
\* work hangs than leaves a permit for it.
TasksSettle ==
  Cardinality(Hanging) < Concurrency =>
    \A t \in Tasks \ Hanging : stage[t] # "idle" ~> stage[t] = "done"
=============================================================================
