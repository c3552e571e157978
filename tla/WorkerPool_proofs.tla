-------------------------- MODULE WorkerPool_proofs --------------------------
(***************************************************************************)
(* The safety properties of WorkerPool hold for any number of tasks,       *)
(* permits and calls of shutdown, whichever tasks hang.                    *)
(*                                                                         *)
(* The inductive invariant says where a task can be. Queued says that those*)
(* that wait are in the queue once, so that a permit handed on goes to a   *)
(* task that has none; Course relates a task's stage, its outcome, its     *)
(* timeout and the set of activities; Closing says what a shutdown awaits. *)
(* Permits are conserved because every step that makes a holder of one task*)
(* either takes a free permit or unmakes another.                          *)
(***************************************************************************)
EXTENDS WorkerPool, FiniteSetTheorems, TLAPS

Typed ==
  /\ isShuttingDown \in BOOLEAN
  /\ permits \in Nat
  /\ waiting \in Seq(Tasks)
  /\ stage \in [Tasks -> Stages]
  /\ outcome \in [Tasks -> {"none", "ok", "error", "timeout", "shutdown"}]
  /\ awaited \in [Shutdowns -> SUBSET Tasks]
  /\ closing \in [Shutdowns -> {"idle", "waiting", "settled", "expired"}]
  /\ timedOut \subseteq Tasks

Queued ==
  /\ \A i \in 1..Len(waiting) : stage[waiting[i]] = "queued"
  /\ \A i, j \in 1..Len(waiting) : waiting[i] = waiting[j] => i = j
  /\ isShuttingDown => waiting = <<>>

Course ==
  /\ activities = {t \in Tasks : stage[t] = "working"}
  /\ \A t \in Tasks : stage[t] # "done" <=> outcome[t] = "none"
  /\ \A t \in timedOut : stage[t] \in {"working", "done"} /\ outcome[t] \in {"none", "timeout"}

Closing ==
  \A s \in Shutdowns :
    /\ closing[s] # "idle" => isShuttingDown
    /\ closing[s] = "idle" => awaited[s] = {}
    /\ \A t \in awaited[s] : stage[t] \in {"working", "done"} /\ outcome[t] # "shutdown"
    /\ closing[s] = "settled" => \A t \in awaited[s] : stage[t] = "done"

PoolInv == Typed /\ Queued /\ Course /\ PermitsConserved /\ Closing

-----------------------------------------------------------------------------
\* The holders of a finite number of tasks can be counted.
LEMMA HoldersFinite ==
  ASSUME IsFiniteSet(Tasks)
  PROVE  IsFiniteSet(Holders) /\ Cardinality(Holders) \in Nat
  <1>1. Holders \subseteq Tasks BY DEF Holders
  <1> QED BY <1>1, FS_Subset, FS_CardinalityType

\* The pool starts in the invariant.
LEMMA InitInv ==
  ASSUME IsFiniteSet(Tasks), Init
  PROVE  PoolInv
  <1>1. Typed
    <2>1. awaited \in [Shutdowns -> SUBSET Tasks] BY DEF Init
    <2>2. waiting \in Seq(Tasks) BY DEF Init
    <2> QED BY <2>1, <2>2, ConcurrencyAssumption DEF Init, Typed, Stages
  <1>2. Queued BY DEF Init, Queued
  <1>3. Course BY DEF Init, Course
  <1>4. Holders = {} BY DEF Init, Holders
  <1>5. PermitsConserved
    BY <1>4, FS_EmptySet, ConcurrencyAssumption DEF Init, PermitsConserved
  <1>6. Closing BY DEF Init, Closing
  <1> QED BY <1>1, <1>2, <1>3, <1>5, <1>6 DEF PoolInv

\* Every step keeps the types.
LEMMA TypedStep ==
  ASSUME PoolInv, [Next]_poolVars
  PROVE  Typed'
  <1> USE DEF PoolInv, Typed, Stages
  <1>1. ASSUME NEW t \in Tasks, Refuse(t) PROVE Typed'
    BY <1>1 DEF Refuse
  <1>2. ASSUME NEW t \in Tasks, Acquire(t) PROVE Typed'
    <2>0. PICK phase \in {"granted", "queued"} : stage' = [stage EXCEPT ![t] = phase]
      BY <1>2 DEF Acquire
    <2>1. stage' \in [Tasks -> Stages] BY <2>0
    <2>2. permits' \in Nat /\ waiting' \in Seq(Tasks) BY <1>2 DEF Acquire
    <2>3. UNCHANGED <<isShuttingDown, activities, timedOut, outcome, awaited, closing>>
      BY <1>2 DEF Acquire
    <2> QED BY <2>1, <2>2, <2>3
  <1>3. ASSUME NEW t \in Tasks, Start(t) PROVE Typed'
    BY <1>3 DEF Start
  <1>4. ASSUME NEW t \in Tasks, Expire(t) PROVE Typed'
    BY <1>4 DEF Expire
  <1>5. ASSUME NEW t \in Tasks, Settle(t) PROVE Typed'
    <2>1. CASE waiting = <<>>
      BY <1>5, <2>1 DEF Settle, Release
    <2>2. CASE waiting # <<>>
      <3>1. Head(waiting) \in Tasks /\ Tail(waiting) \in Seq(Tasks) BY <2>2
      <3> QED BY <1>5, <2>2, <3>1 DEF Settle, Release
    <2> QED BY <2>1, <2>2
  <1>6. ASSUME NEW s \in Shutdowns, Shutdown(s) PROVE Typed'
    <2>1. stage' \in [Tasks -> Stages] BY <1>6 DEF Shutdown
    <2>2. outcome' \in [Tasks -> {"none", "ok", "error", "timeout", "shutdown"}]
      BY <1>6 DEF Shutdown
    <2>3. activities \subseteq Tasks BY DEF Course
    <2>4. /\ awaited' \in [Shutdowns -> SUBSET Tasks]
          /\ closing' \in [Shutdowns -> {"idle", "waiting", "settled", "expired"}]
      BY <1>6, <2>3 DEF Shutdown, Await
    <2> QED BY <1>6, <2>1, <2>2, <2>4 DEF Shutdown
  <1>7. ASSUME NEW s \in Shutdowns, ShutdownEnds(s) \/ ShutdownExpires(s) PROVE Typed'
    BY <1>7 DEF ShutdownEnds, ShutdownExpires
  <1>8. CASE UNCHANGED poolVars BY <1>8 DEF poolVars
  <1> QED BY <1>1, <1>2, <1>3, <1>4, <1>5, <1>6, <1>7, <1>8 DEF Next

\* A task that waits is in the queue once, and none waits once the pool shuts
\* down: a permit that is handed on leaves the queue shorter by its head.
LEMMA QueuedStep ==
  ASSUME PoolInv, [Next]_poolVars
  PROVE  Queued'
  <1> USE DEF PoolInv, Typed, Queued
  <1>1. ASSUME NEW t \in Tasks, Refuse(t) PROVE Queued'
    BY <1>1 DEF Refuse
  <1>2. ASSUME NEW t \in Tasks, Acquire(t) PROVE Queued'
    <2>1. CASE permits > 0
      BY <1>2, <2>1 DEF Acquire
    <2>2. CASE ~(permits > 0)
      <3>1. waiting' = Append(waiting, t) /\ stage' = [stage EXCEPT ![t] = "queued"]
        BY <1>2, <2>2 DEF Acquire
      <3>2. \A i \in 1..Len(waiting) : waiting[i] # t BY <1>2 DEF Acquire
      <3>3. ~isShuttingDown' BY <1>2 DEF Acquire
      <3> QED BY <3>1, <3>2, <3>3
    <2> QED BY <2>1, <2>2
  <1>3. ASSUME NEW t \in Tasks, Start(t) PROVE Queued'
    BY <1>3 DEF Start
  <1>4. ASSUME NEW t \in Tasks, Expire(t) PROVE Queued'
    BY <1>4 DEF Expire
  <1>5. ASSUME NEW t \in Tasks, Settle(t) PROVE Queued'
    <2>1. CASE waiting = <<>>
      BY <1>5, <2>1 DEF Settle, Release
    <2>2. CASE waiting # <<>>
      <3>1. /\ waiting' = Tail(waiting)
            /\ stage' = [stage EXCEPT ![t] = "done", ![Head(waiting)] = "granted"]
            /\ UNCHANGED isShuttingDown
        BY <1>5, <2>2 DEF Settle, Release
      <3>2. /\ Len(Tail(waiting)) = Len(waiting) - 1
            /\ \A i \in 1..Len(Tail(waiting)) : Tail(waiting)[i] = waiting[i + 1]
            /\ Head(waiting) = waiting[1] /\ Len(waiting) > 0
        BY <2>2
      <3>3. stage[t] = "working" BY <1>5 DEF Settle
      <3>4. \A i \in 1..Len(Tail(waiting)) :
              Tail(waiting)[i] \in Tasks /\ Tail(waiting)[i] # t
                /\ Tail(waiting)[i] # Head(waiting)
        BY <3>2, <3>3
      <3> QED BY <2>2, <3>1, <3>2, <3>4
    <2> QED BY <2>1, <2>2
  <1>6. ASSUME NEW s \in Shutdowns, Shutdown(s) PROVE Queued'
    BY <1>6 DEF Shutdown
  <1>7. ASSUME NEW s \in Shutdowns, ShutdownEnds(s) \/ ShutdownExpires(s) PROVE Queued'
    BY <1>7 DEF ShutdownEnds, ShutdownExpires
  <1>8. CASE UNCHANGED poolVars BY <1>8 DEF poolVars
  <1> QED BY <1>1, <1>2, <1>3, <1>4, <1>5, <1>6, <1>7, <1>8 DEF Next

\* A task begins its work, times out and is answered in that order.
LEMMA CourseStep ==
  ASSUME PoolInv, [Next]_poolVars
  PROVE  Course'
  <1> USE DEF PoolInv, Typed, Course, Stages
  <1>1. ASSUME NEW t \in Tasks, Refuse(t) PROVE Course'
    BY <1>1 DEF Refuse
  <1>2. ASSUME NEW t \in Tasks, Acquire(t) PROVE Course'
    BY <1>2 DEF Acquire
  <1>3. ASSUME NEW t \in Tasks, Start(t) PROVE Course'
    BY <1>3 DEF Start
  <1>4. ASSUME NEW t \in Tasks, Expire(t) PROVE Course'
    BY <1>4 DEF Expire
  <1>5. ASSUME NEW t \in Tasks, Settle(t) PROVE Course'
    <2>1. PICK result \in {"ok", "error", "timeout"} :
            /\ outcome' = [outcome EXCEPT ![t] = result]
            /\ t \in timedOut => result = "timeout"
      BY <1>5 DEF Settle
    <2>2. /\ stage[t] = "working" /\ activities' = activities \ {t}
          /\ UNCHANGED timedOut
      BY <1>5 DEF Settle
    <2>3. CASE waiting = <<>>
      <3>1. stage' = [stage EXCEPT ![t] = "done"]
        BY <1>5, <2>3 DEF Settle, Release
      <3> QED BY <2>1, <2>2, <3>1
    <2>4. CASE waiting # <<>>
      <3>1. stage' = [stage EXCEPT ![t] = "done", ![Head(waiting)] = "granted"]
        BY <1>5, <2>4 DEF Settle, Release
      <3>2. Head(waiting) \in Tasks /\ stage[Head(waiting)] = "queued"
        BY <2>4 DEF Queued
      <3> QED BY <2>1, <2>2, <3>1, <3>2
    <2> QED BY <2>3, <2>4
  <1>6. ASSUME NEW s \in Shutdowns, Shutdown(s) PROVE Course'
    <2> DEFINE cancelled == {waiting[i] : i \in DOMAIN waiting}
    <2>1. \A t \in cancelled : stage[t] = "queued" BY DEF Queued
    <2>2. /\ stage' = [t \in Tasks |-> IF t \in cancelled THEN "done" ELSE stage[t]]
          /\ outcome' = [t \in Tasks |-> IF t \in cancelled THEN "shutdown" ELSE outcome[t]]
          /\ UNCHANGED <<activities, timedOut>>
      BY <1>6 DEF Shutdown
    <2> HIDE DEF cancelled
    <2> QED BY <2>1, <2>2
  <1>7. ASSUME NEW s \in Shutdowns, ShutdownEnds(s) \/ ShutdownExpires(s) PROVE Course'
    BY <1>7 DEF ShutdownEnds, ShutdownExpires
  <1>8. CASE UNCHANGED poolVars BY <1>8 DEF poolVars
  <1> QED BY <1>1, <1>2, <1>3, <1>4, <1>5, <1>6, <1>7, <1>8 DEF Next

\* Permits are conserved: a task that becomes a holder takes a free permit or the
\* permit of one that ceases to be.
LEMMA PermitsStep ==
  ASSUME IsFiniteSet(Tasks), PoolInv, [Next]_poolVars
  PROVE  PermitsConserved'
  <1> USE DEF PoolInv, Typed, Stages
  <1>0. /\ IsFiniteSet(Holders) /\ Cardinality(Holders) \in Nat
        /\ Cardinality(Holders) + permits = Concurrency
        /\ permits > 0 => waiting = <<>>
    BY HoldersFinite DEF PermitsConserved
  <1>1. ASSUME NEW t \in Tasks, Refuse(t) PROVE PermitsConserved'
    <2>1. Holders' = Holders BY <1>1 DEF Refuse, Holders
    <2> QED BY <1>1, <1>0, <2>1 DEF Refuse, PermitsConserved
  <1>2. ASSUME NEW t \in Tasks, Acquire(t) PROVE PermitsConserved'
    <2>1. CASE permits > 0
      <3>1. Holders' = Holders \cup {t} /\ t \notin Holders
        BY <1>2, <2>1 DEF Acquire, Holders
      <3>2. Cardinality(Holders') = Cardinality(Holders) + 1
        BY <1>0, <3>1, FS_AddElement
      <3>3. permits' = permits - 1 /\ waiting' = waiting BY <1>2, <2>1 DEF Acquire
      <3> QED BY <1>0, <2>1, <3>2, <3>3 DEF PermitsConserved
    <2>2. CASE permits = 0
      <3>1. Holders' = Holders BY <1>2, <2>2 DEF Acquire, Holders
      <3>2. permits' = 0 BY <1>2, <2>2 DEF Acquire
      <3> QED BY <1>0, <2>2, <3>1, <3>2 DEF PermitsConserved
    <2> QED BY <2>1, <2>2
  <1>3. ASSUME NEW t \in Tasks, Start(t) PROVE PermitsConserved'
    <2>1. Holders' = Holders BY <1>3 DEF Start, Holders
    <2> QED BY <1>3, <1>0, <2>1 DEF Start, PermitsConserved
  <1>4. ASSUME NEW t \in Tasks, Expire(t) PROVE PermitsConserved'
    <2>1. Holders' = Holders BY <1>4 DEF Expire, Holders
    <2> QED BY <1>4, <1>0, <2>1 DEF Expire, PermitsConserved
  <1>5. ASSUME NEW t \in Tasks, Settle(t) PROVE PermitsConserved'
    <2>1. t \in Holders BY <1>5 DEF Settle, Holders
    <2>2. /\ IsFiniteSet(Holders \ {t})
          /\ Cardinality(Holders \ {t}) = Cardinality(Holders) - 1
      BY <1>0, <2>1, FS_RemoveElement
    <2>3. CASE waiting = <<>>
      <3>1. /\ stage' = [stage EXCEPT ![t] = "done"]
            /\ permits' = permits + 1 /\ waiting' = waiting
        BY <1>5, <2>3 DEF Settle, Release
      <3>2. Holders' = Holders \ {t} BY <3>1 DEF Holders
      <3> QED BY <1>0, <2>2, <2>3, <3>1, <3>2 DEF PermitsConserved
    <2>4. CASE waiting # <<>>
      <3>1. /\ stage' = [stage EXCEPT ![t] = "done", ![Head(waiting)] = "granted"]
            /\ permits' = permits
        BY <1>5, <2>4 DEF Settle, Release
      <3>2. Head(waiting) \in Tasks /\ stage[Head(waiting)] = "queued"
        BY <2>4 DEF Queued
      <3>3. stage[t] = "working" BY <1>5 DEF Settle
      <3>4. Holders' = (Holders \ {t}) \cup {Head(waiting)}
        BY <3>1, <3>2, <3>3 DEF Holders
      <3>5. Head(waiting) \notin Holders \ {t} BY <3>2 DEF Holders
      <3>6. Cardinality(Holders') = Cardinality(Holders)
        <4>1. Cardinality((Holders \ {t}) \cup {Head(waiting)})
                = Cardinality(Holders \ {t}) + 1
          BY <2>2, <3>5, FS_AddElement
        <4> QED BY <1>0, <2>2, <3>4, <4>1
      <3>7. permits' = 0 BY <1>0, <2>4, <3>1
      <3> QED BY <1>0, <3>1, <3>6, <3>7 DEF PermitsConserved
    <2> QED BY <2>3, <2>4
  <1>6. ASSUME NEW s \in Shutdowns, Shutdown(s) PROVE PermitsConserved'
    <2>1. Holders' = Holders BY <1>6 DEF Shutdown, Holders, Queued
    <2>2. permits' = permits /\ waiting' = <<>> BY <1>6 DEF Shutdown
    <2> QED BY <1>0, <2>1, <2>2 DEF PermitsConserved
  <1>7. ASSUME NEW s \in Shutdowns, ShutdownEnds(s) \/ ShutdownExpires(s)
        PROVE  PermitsConserved'
    <2>1. Holders' = Holders BY <1>7 DEF ShutdownEnds, ShutdownExpires, Holders
    <2> QED BY <1>7, <1>0, <2>1 DEF ShutdownEnds, ShutdownExpires, PermitsConserved
  <1>8. CASE UNCHANGED poolVars
    <2>1. Holders' = Holders BY <1>8 DEF poolVars, Holders
    <2> QED BY <1>8, <1>0, <2>1 DEF poolVars, PermitsConserved
  <1> QED BY <1>1, <1>2, <1>3, <1>4, <1>5, <1>6, <1>7, <1>8 DEF Next

\* What a shutdown awaits is tasks that began before it was called.
LEMMA ClosingStep ==
  ASSUME IsFiniteSet(Tasks), PoolInv, [Next]_poolVars
  PROVE  Closing'
  <1> USE DEF PoolInv, Typed, Stages
  <1>1. ASSUME NEW t \in Tasks, Acquire(t) PROVE Closing'
    <2>1. \A s \in Shutdowns : closing'[s] = "idle" /\ awaited'[s] = {}
      BY <1>1 DEF Acquire, Closing
    <2> QED BY <2>1 DEF Closing
  <1>2. ASSUME NEW t \in Tasks, Refuse(t) \/ Start(t) \/ Expire(t) \/ Settle(t)
        PROVE  Closing'
    <2>1. /\ UNCHANGED <<closing, awaited, isShuttingDown>>
      BY <1>2 DEF Refuse, Start, Expire, Settle
    <2>2. \A u \in Tasks :
            stage[u] \in {"working", "done"} => stage'[u] \in {"working", "done"}
                                             /\ (stage[u] = "done" => stage'[u] = "done")
      BY <1>2 DEF Refuse, Start, Expire, Settle, Release, Queued
    <2>3. \A u \in Tasks :
            stage[u] \in {"working", "done"} /\ outcome[u] # "shutdown" =>
              outcome'[u] # "shutdown"
      BY <1>2 DEF Refuse, Start, Expire, Settle
    <2> QED BY <2>1, <2>2, <2>3 DEF Closing
  <1>3. ASSUME NEW s \in Shutdowns, Shutdown(s) PROVE Closing'
    <2> SUFFICES ASSUME NEW r \in Shutdowns
                 PROVE  /\ closing'[r] # "idle" => isShuttingDown'
                        /\ closing'[r] = "idle" => awaited'[r] = {}
                        /\ \A t \in awaited'[r] : /\ stage'[t] \in {"working", "done"}
                                                  /\ outcome'[t] # "shutdown"
                        /\ closing'[r] = "settled" => \A t \in awaited'[r] : stage'[t] = "done"
      BY DEF Closing
    <2>1. isShuttingDown' BY <1>3 DEF Shutdown
    <2>2. \A t \in Tasks : stage[t] \in {"working", "done"} =>
                             stage'[t] = stage[t] /\ outcome'[t] = outcome[t]
      BY <1>3 DEF Shutdown, Queued
    <2>4. CASE r = s
      <3>1. /\ awaited'[r] = activities
            /\ closing'[r] = IF activities = {} THEN "settled" ELSE "waiting"
        BY <1>3, <2>4 DEF Shutdown, Await
      <3>2. \A t \in activities : t \in Tasks /\ stage[t] = "working" /\ outcome[t] = "none"
        BY DEF Course
      <3> QED BY <2>1, <2>2, <3>1, <3>2
    <2>5. CASE r # s
      <3>1. awaited'[r] = awaited[r] /\ closing'[r] = closing[r]
        BY <1>3, <2>5 DEF Shutdown, Await
      <3> QED BY <2>1, <2>2, <3>1 DEF Closing
    <2> QED BY <2>4, <2>5
  <1>4. ASSUME NEW s \in Shutdowns, ShutdownEnds(s) \/ ShutdownExpires(s) PROVE Closing'
    <2>1. /\ UNCHANGED <<isShuttingDown, stage, outcome, awaited>>
          /\ closing[s] = "waiting" /\ closing'[s] \in {"settled", "expired"}
          /\ \A r \in Shutdowns \ {s} : closing'[r] = closing[r]
          /\ closing'[s] = "settled" => awaited[s] \cap activities = {}
      BY <1>4 DEF ShutdownEnds, ShutdownExpires
    <2>2. closing'[s] = "settled" => \A t \in awaited[s] : stage[t] = "done"
      BY <2>1 DEF Closing, Course
    <2> QED BY <2>1, <2>2 DEF Closing
  <1>5. CASE UNCHANGED poolVars
    BY <1>5 DEF poolVars, Closing
  <1> QED BY <1>1, <1>2, <1>3, <1>4, <1>5 DEF Next

-----------------------------------------------------------------------------
\* PoolInv is an invariant, for any finite set of tasks.
THEOREM Invariance ==
  ASSUME IsFiniteSet(Tasks)
  PROVE  Spec => []PoolInv
  <1>1. Init => PoolInv BY InitInv
  <1>2. PoolInv /\ [Next]_poolVars => PoolInv'
    BY TypedStep, QueuedStep, CourseStep, PermitsStep, ClosingStep DEF PoolInv
  <1> QED BY <1>1, <1>2, PTL DEF Spec

\* Every variable keeps its type; that no more permits are free than there are is
\* part of it, and follows from their conservation.
THEOREM TypeCorrect ==
  ASSUME IsFiniteSet(Tasks)
  PROVE  Spec => []TypeOK
  <1>1. PoolInv => TypeOK
    BY HoldersFinite, ConcurrencyAssumption
       DEF PoolInv, Typed, Course, PermitsConserved, TypeOK
  <1> QED BY <1>1, Invariance, PTL

\* Permits are neither lost nor made, and nobody waits while one is free.
THEOREM ConservesPermits ==
  ASSUME IsFiniteSet(Tasks)
  PROVE  Spec => []PermitsConserved
  <1>1. PoolInv => PermitsConserved BY DEF PoolInv
  <1> QED BY <1>1, Invariance, PTL

\* Work whose timeout passed is answered with a timeout, if at all.
THEOREM LateWorkTimesOut ==
  ASSUME IsFiniteSet(Tasks)
  PROVE  Spec => []LateIsTimeout
  <1>1. PoolInv => LateIsTimeout BY DEF PoolInv, Course, LateIsTimeout
  <1> QED BY <1>1, Invariance, PTL

\* Shutdown leaves nobody waiting, and whoever it turns away has not begun.
THEOREM WaitersAreWoken ==
  ASSUME IsFiniteSet(Tasks)
  PROVE  Spec => []ShutdownWakesWaiters
  <1>1. PoolInv => ShutdownWakesWaiters
    BY DEF PoolInv, Typed, Queued, Course, Stages, ShutdownWakesWaiters
  <1> QED BY <1>1, Invariance, PTL

\* A shutdown that ends before its timeout has seen every task it found at work
\* through to an answer of its own.
THEOREM ShutdownWaitsForActivities ==
  ASSUME IsFiniteSet(Tasks)
  PROVE  Spec => []ShutdownSeesActivitiesOut
  <1>1. PoolInv => ShutdownSeesActivitiesOut
    <2> SUFFICES ASSUME PoolInv, NEW s \in Shutdowns, closing[s] = "settled", NEW t \in awaited[s]
                 PROVE  stage[t] = "done" /\ outcome[t] \in {"ok", "error", "timeout"}
      BY DEF ShutdownSeesActivitiesOut
    <2>1. t \in Tasks /\ stage[t] = "done" /\ outcome[t] # "shutdown"
      BY DEF PoolInv, Typed, Closing
    <2> QED BY <2>1 DEF PoolInv, Typed, Course
  <1> QED BY <1>1, Invariance, PTL
=============================================================================
