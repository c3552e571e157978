------------------------ MODULE LambdaRuntime_proofs ------------------------
(***************************************************************************)
(* Theorems about LambdaRuntime, for every set of invocations, of which    *)
(* any may hang and any may throw.                                         *)
(***************************************************************************)
EXTENDS LambdaRuntime, SequenceTheorems, TLAPS

-----------------------------------------------------------------------------
(***************************************************************************)
(* The queue.                                                              *)
(***************************************************************************)

\* No event is queued twice.
Once == \A m, n \in DOMAIN queue : queue[m] = queue[n] => m = n

\* What an offer adds to the queue.
LEMMA OfferQueues ==
  ASSUME NEW S, NEW s \in Seq(S), NEW i \in S
  PROVE  /\ Append(s, i) \in Seq(S)
         /\ ToSet(Append(s, i)) = ToSet(s) \cup {i}
<1>1. /\ Append(s, i) \in Seq(S)
      /\ Len(Append(s, i)) = Len(s) + 1
      /\ \A n \in 1..Len(s) : Append(s, i)[n] = s[n]
      /\ Append(s, i)[Len(s) + 1] = i
  OBVIOUS
<1>2. DOMAIN s = 1..Len(s) /\ Len(s) \in Nat
  OBVIOUS
<1>3. DOMAIN Append(s, i) = 1..(Len(s) + 1)
  BY <1>1
<1> QED BY <1>1, <1>2, <1>3 DEF ToSet

\* What a take leaves in the queue, if no event is queued twice.
LEMMA TakeRemoves ==
  ASSUME NEW S, queue \in Seq(S), queue # <<>>, Once
  PROVE  /\ Tail(queue) \in Seq(S)
         /\ Head(queue) \in ToSet(queue)
         /\ ToSet(Tail(queue)) = ToSet(queue) \ {Head(queue)}
         /\ \A m, n \in DOMAIN Tail(queue) : Tail(queue)[m] = Tail(queue)[n] => m = n
<1>1. /\ Tail(queue) \in Seq(S)
      /\ Len(Tail(queue)) = Len(queue) - 1
      /\ \A n \in 1..Len(Tail(queue)) : Tail(queue)[n] = queue[n + 1]
  OBVIOUS
<1>2. /\ DOMAIN queue = 1..Len(queue) /\ Len(queue) \in Nat \ {0}
      /\ Head(queue) = queue[1]
  OBVIOUS
<1>3. DOMAIN Tail(queue) = 1..(Len(queue) - 1)
  BY <1>1, <1>2
<1>4. \A n \in 2..Len(queue) : queue[n] = Tail(queue)[n - 1] /\ n - 1 \in DOMAIN Tail(queue)
  BY <1>1, <1>2, <1>3
<1>5. \A n \in DOMAIN Tail(queue) : n + 1 \in DOMAIN queue /\ n + 1 # 1
  BY <1>2, <1>3
<1>6. ToSet(Tail(queue)) \subseteq ToSet(queue) \ {Head(queue)}
  BY <1>1, <1>2, <1>3, <1>5 DEF ToSet, Once
<1>7. ToSet(queue) \ {Head(queue)} \subseteq ToSet(Tail(queue))
  <2>1. ASSUME NEW n \in DOMAIN queue, queue[n] # Head(queue)
        PROVE  \E m \in DOMAIN Tail(queue) : Tail(queue)[m] = queue[n]
    <3>1. n \in 2..Len(queue)
      BY <1>2, <2>1
    <3> QED BY <1>4, <3>1
  <2> QED BY <2>1 DEF ToSet
<1>8. \A m, n \in DOMAIN Tail(queue) : Tail(queue)[m] = Tail(queue)[n] => m = n
  BY <1>1, <1>2, <1>3, <1>5 DEF Once
<1> QED BY <1>1, <1>2, <1>6, <1>7, <1>8 DEF ToSet

LEMMA EmptyQueue == ToSet(<<>>) = {}
BY DEF ToSet

-----------------------------------------------------------------------------
(***************************************************************************)
(* The course of an event: it is in one place at a time.                   *)
(***************************************************************************)

\* A queued event, and the one in main's hand, have not got to a fiber or been
\* answered; nor has an event that was not delivered.
Course ==
  /\ Once
  /\ hand # Nobody => hand \in called /\ hand \notin ToSet(queue)
  /\ \A i \in Invocations :
       i \notin called \/ i \in ToSet(queue) \/ i = hand =>
         fiber[i] = "none" /\ response[i] = "none"
  /\ \A i \in Invocations : response[i] = "interrupted" => fiber[i] = "none"

\* main's phases: once the queue is shut down main has left its loop and has
\* nobody in hand, and nobody is queued. While main is in its loop, or not yet in
\* it, nobody is adrift but the one it has in hand.
Loop ==
  /\ isShutdown => main \in {"releasing", "joining", "ended"} /\ queue = <<>>
  /\ main \in {"releasing", "joining"} => isShutdown
  /\ ~isShutdown => Adrift \subseteq {hand}
  /\ \A i, j \in Adrift : i = j

Inv == TypeOK /\ Course /\ Loop

\* What TearDown does to the queued invocations.
LEMMA TearDownTells ==
  ASSUME TypeOK, NEW left \in Seq(called), TearDown(left)
  PROVE  /\ main' = "releasing" /\ isShutdown' = TRUE /\ queue' = <<>>
         /\ response' \in [Invocations -> {"none", "ok", "error", "interrupted"}]
         /\ \A i \in ToSet(left) : response'[i] = "interrupted"
         /\ \A i \in Invocations \ ToSet(left) : response'[i] = response[i]
<1>1. ToSet(left) \subseteq Invocations
  BY DEF TypeOK, ToSet
<1> QED BY <1>1 DEF TypeOK, TearDown

LEMMA InvHolds == Spec => []Inv
<1>1. Init => Inv
  <2> SUFFICES ASSUME Init PROVE Inv
    OBVIOUS
  <2>1. queue \in Seq(called)
    BY DEF Init
  <2>2. TypeOK
    BY <2>1, NobodyAssumption DEF Init, TypeOK, Phases
  <2> QED BY <2>2, EmptyQueue, NobodyAssumption
          DEF Init, Inv, Course, Once, Loop, Adrift, Untold
<1>2. Inv /\ [Next]_vars => Inv'
  <2> SUFFICES ASSUME Inv, [Next]_vars
               PROVE  Inv'
    OBVIOUS
  <2> USE NobodyAssumption
  <2>0. ToSet(queue) \subseteq called /\ called \subseteq Invocations
    BY DEF Inv, TypeOK, ToSet
  <2>a. ToSet(<<>>) = {}
    BY EmptyQueue
  <2>1. ASSUME NEW i \in Invocations, Invoke(i)
        PROVE  Inv'
    <3>1. queue \in Seq(called')
      BY <2>1 DEF Inv, TypeOK, Invoke
    <3>2. CASE isShutdown
      <4>1. TypeOK' /\ Course'
        BY <2>0, <2>1, <3>1, <3>2 DEF Inv, TypeOK, Invoke, Course, Loop, Once
      <4>2. Adrift' = Adrift
        BY <2>0, <2>1, <3>2 DEF Inv, TypeOK, Invoke, Course, Loop, Adrift, Untold
      <4> QED BY <2>1, <3>2, <4>1, <4>2 DEF Inv, Loop, Invoke
    <3>3. CASE ~isShutdown /\ main = "waiting"
      <4>1. TypeOK' /\ Course'
        BY <2>0, <2>1, <3>1, <3>3 DEF Inv, TypeOK, Invoke, Course, Once, Phases
      <4>2. hand = Nobody /\ Adrift = {} /\ hand' = i
        BY <2>1, <3>3 DEF Inv, Loop, TypeOK, Invoke, Adrift, Untold
      <4>3. Adrift' = {i}
        BY <2>0, <2>1, <3>3, <4>2 DEF Inv, TypeOK, Invoke, Course, Adrift, Untold
      <4> QED BY <2>1, <3>3, <4>1, <4>2, <4>3 DEF Inv, Loop, Invoke
    <3>4. CASE ~isShutdown /\ main # "waiting"
      <4>1. queue' = Append(queue, i) /\ UNCHANGED <<main, hand, response, isShutdown, stopping, fiber>>
        BY <2>1, <3>4 DEF Invoke
      <4>2. queue' \in Seq(called') /\ ToSet(queue') = ToSet(queue) \cup {i}
        BY <2>1, <3>1, <4>1, OfferQueues DEF Invoke
      <4>3. i \notin ToSet(queue)
        BY <2>0, <2>1 DEF Invoke
      <4>4. Once'
        <5>1. queue \in Seq(called)
          BY DEF Inv, TypeOK
        <5>2. /\ DOMAIN queue = 1..Len(queue) /\ Len(queue) \in Nat
              /\ DOMAIN queue' = 1..(Len(queue) + 1)
              /\ \A n \in 1..Len(queue) : queue'[n] = queue[n]
              /\ queue'[Len(queue) + 1] = i
          BY <4>1, <5>1
        <5>3. \A n \in DOMAIN queue : queue[n] # i
          BY <4>3 DEF ToSet
        <5> QED BY <5>2, <5>3 DEF Inv, Course, Once
      <4>5. TypeOK'
        BY <2>1, <4>1, <4>2 DEF Inv, TypeOK, Invoke
      <4>6. Course'
        BY <2>0, <2>1, <4>1, <4>2, <4>4 DEF Inv, TypeOK, Invoke, Course
      <4>7. Adrift' = Adrift
        BY <2>0, <2>1, <4>1, <4>2, <4>3 DEF Inv, Invoke, Adrift, Untold
      <4> QED BY <3>4, <4>1, <4>5, <4>6, <4>7 DEF Inv, Loop
    <3> QED BY <2>1, <3>2, <3>3, <3>4 DEF Invoke
  <2>2. ASSUME Build \/ BuildFails \/ Released \/ Stop \/ End
        PROVE  Inv'
    <3>1. UNCHANGED <<hand, queue, isShutdown, called, fiber, response>>
      BY <2>2 DEF Build, BuildFails, Released, Stop, End
    <3>2. Adrift' = Adrift
      BY <3>1 DEF Adrift, Untold
    <3>3. TypeOK' /\ Course'
      BY <2>2, <3>1 DEF Inv, TypeOK, Course, Once, Phases, Build, BuildFails, Released, Stop, End
    <3>4. Loop'
      BY <2>2, <3>1, <3>2 DEF Inv, Loop, TypeOK, Build, BuildFails, Released, Stop, End
    <3> QED BY <3>3, <3>4 DEF Inv
  <2>3. ASSUME NEW i \in Invocations, NEW left \in Seq(called), Handle(i, left),
               UNCHANGED <<stopping, called>>,
               main \in {"polling", "handed"},
               i \in called, fiber[i] = "none", response[i] = "none",
               ToSet(left) = ToSet(queue) \ {i},
               hand \in {i, Nobody}, i \notin ToSet(left),
               \A m, n \in DOMAIN left : left[m] = left[n] => m = n
        PROVE  Inv'
    <3>1. ~isShutdown
      BY <2>3 DEF Inv, Loop
    <3>2. Adrift \subseteq {i}
      BY <2>3, <3>1, <2>0 DEF Inv, Loop, Adrift, Untold, TypeOK
    <3>3. CASE /\ fiber' = [fiber EXCEPT ![i] = "working"]
               /\ queue' = left
               /\ main' = "polling"
               /\ UNCHANGED <<isShutdown, response>>
      <4>1. TypeOK' /\ hand' = Nobody
        BY <2>3, <3>3 DEF Inv, TypeOK, Handle, Phases
      <4>2. Course'
        BY <2>0, <2>3, <3>3, <4>1 DEF Inv, Course, TypeOK, Once
      <4>3. Adrift' = {}
        BY <2>0, <2>3, <3>2, <3>3 DEF Inv, TypeOK, Adrift, Untold
      <4> QED BY <3>1, <3>3, <4>1, <4>2, <4>3 DEF Inv, Loop
    <3>4. CASE TearDown(left) /\ UNCHANGED fiber
      <4>1. /\ main' = "releasing" /\ isShutdown' = TRUE /\ queue' = <<>>
            /\ response' \in [Invocations -> {"none", "ok", "error", "interrupted"}]
            /\ \A j \in ToSet(left) : response'[j] = "interrupted"
            /\ \A j \in Invocations \ ToSet(left) : response'[j] = response[j]
        BY <3>4, TearDownTells DEF Inv
      <4>2. hand' = Nobody /\ <<>> \in Seq(called)
        BY <2>3 DEF Handle
      <4>3. TypeOK'
        BY <2>3, <3>4, <4>1, <4>2 DEF Inv, TypeOK, Phases
      <4>4. Course'
        BY <2>0, <2>a, <2>3, <3>4, <4>1, <4>2 DEF Inv, Course, TypeOK, Once
      <4>5. Adrift' \subseteq {i}
        BY <2>0, <2>a, <2>3, <3>2, <3>4, <4>1 DEF Inv, Adrift, Untold
      <4> QED BY <4>1, <4>3, <4>4, <4>5 DEF Inv, Loop
    <3> QED BY <2>3, <3>3, <3>4 DEF Handle
  <2>4. CASE Poll
    <3>1. CASE queue = <<>>
      <4>1. /\ main = "polling" /\ main' = "waiting"
            /\ UNCHANGED <<hand, queue, isShutdown, stopping, called, fiber, response>>
        BY <2>4, <3>1 DEF Poll
      <4>2. Adrift' = Adrift
        BY <4>1 DEF Adrift, Untold
      <4> QED BY <4>1, <4>2 DEF Inv, TypeOK, Course, Once, Loop, Phases
    <3>2. CASE queue # <<>>
      <4>1. /\ main = "polling" /\ Handle(Head(queue), Tail(queue))
            /\ UNCHANGED <<stopping, called>>
        BY <2>4, <3>2 DEF Poll
      <4>2. /\ Tail(queue) \in Seq(called)
            /\ Head(queue) \in ToSet(queue)
            /\ ToSet(Tail(queue)) = ToSet(queue) \ {Head(queue)}
            /\ \A m, n \in DOMAIN Tail(queue) : Tail(queue)[m] = Tail(queue)[n] => m = n
        BY <3>2, TakeRemoves DEF Inv, TypeOK, Course
      <4>3. hand = Nobody
        BY <4>1 DEF Inv, TypeOK
      <4>4. fiber[Head(queue)] = "none" /\ response[Head(queue)] = "none"
        BY <2>0, <4>2 DEF Inv, Course
      <4> QED BY <2>0, <2>3, <4>1, <4>2, <4>3, <4>4
    <3> QED BY <3>1, <3>2
  <2>5. CASE Resume
    <3>1. /\ main = "handed" /\ Handle(hand, queue) /\ hand \in Invocations
          /\ UNCHANGED <<stopping, called>>
      BY <2>5 DEF Resume, Inv, TypeOK
    <3>2. hand \in called /\ hand \notin ToSet(queue) /\ queue \in Seq(called)
      BY <3>1 DEF Inv, Course, TypeOK
    <3>3. fiber[hand] = "none" /\ response[hand] = "none"
      BY <3>1 DEF Inv, Course
    <3>4. ToSet(queue) = ToSet(queue) \ {hand}
      BY <3>2
    <3>5. \A m, n \in DOMAIN queue : queue[m] = queue[n] => m = n
      BY DEF Inv, Course, Once
    <3> QED BY <2>3, <3>1, <3>2, <3>3, <3>4, <3>5
  <2>6. ASSUME NEW i \in Invocations, Settle(i) \/ Die(i) \/ InterruptChild(i)
        PROVE  Inv'
    <3>1. /\ fiber[i] = "working" /\ fiber'[i] # "none"
          /\ \A j \in Invocations \ {i} : fiber'[j] = fiber[j] /\ response'[j] = response[j]
          /\ response'[i] # "interrupted" \/ response'[i] = response[i]
          /\ fiber' \in [Invocations -> {"none", "working", "done", "dead", "interrupted"}]
          /\ response' \in [Invocations -> {"none", "ok", "error", "interrupted"}]
          /\ UNCHANGED <<main, hand, queue, isShutdown, stopping, called>>
      BY <2>6 DEF Inv, TypeOK, Settle, Die, InterruptChild
    <3>2. TypeOK'
      BY <3>1 DEF Inv, TypeOK
    <3>3. Course'
      BY <3>1 DEF Inv, Course, TypeOK, Once
    <3>4. Adrift' = Adrift
      BY <2>0, <3>1 DEF Adrift, Untold
    <3> QED BY <3>1, <3>2, <3>3, <3>4 DEF Inv, Loop
  <2>7. CASE Interrupted
    <3>0. /\ main \in {"polling", "waiting", "handed"} /\ TearDown(queue) /\ hand' = Nobody
          /\ UNCHANGED <<stopping, called, fiber>>
      BY <2>7 DEF Interrupted
    <3>1. /\ main' = "releasing" /\ isShutdown' = TRUE /\ queue' = <<>>
          /\ response' \in [Invocations -> {"none", "ok", "error", "interrupted"}]
          /\ \A j \in ToSet(queue) : response'[j] = "interrupted"
          /\ \A j \in Invocations \ ToSet(queue) : response'[j] = response[j]
      BY <3>0, TearDownTells DEF Inv, TypeOK
    <3>2. ~isShutdown /\ <<>> \in Seq(called)
      BY <3>0 DEF Inv, Loop
    <3>3. TypeOK'
      BY <3>0, <3>1, <3>2 DEF Inv, TypeOK, Phases
    <3>4. Course'
      BY <2>0, <2>a, <3>0, <3>1 DEF Inv, Course, TypeOK, Once
    <3>5. Adrift' \subseteq {hand}
      BY <2>0, <2>a, <3>0, <3>1, <3>2 DEF Inv, Loop, Adrift, Untold
    <3> QED BY <3>1, <3>3, <3>4, <3>5 DEF Inv, Loop
  <2>8. CASE UNCHANGED vars
    BY <2>8 DEF vars, Inv, TypeOK, Course, Once, Loop, Adrift, Untold
  <2> QED BY <2>1, <2>2, <2>4, <2>5, <2>6, <2>7, <2>8 DEF Next
<1> QED BY <1>1, <1>2, PTL DEF Spec

\* Every variable of the runtime keeps its type, and main has an event in hand
\* exactly while it has not gone on with it.
THEOREM TypeCorrect == Spec => []TypeOK
BY InvHolds, PTL DEF Inv

\* Whoever is told of an interruption has not been handled.
THEOREM InterruptedMayRepeat == Spec => []InterruptedNeverBegun
<1>1. Inv => InterruptedNeverBegun
  BY DEF Inv, Course, InterruptedNeverBegun
<1> QED BY <1>1, InvHolds, PTL

\* The teardown tells everybody in the queue, and at most one event is lost on
\* its way from the queue to a fiber.
THEOREM TeardownTellsTheQueue == Spec => []OneAdriftAtMost
<1>1. Inv => OneAdriftAtMost
  BY DEF Inv, Loop, OneAdriftAtMost
<1> QED BY <1>1, InvHolds, PTL
=============================================================================
