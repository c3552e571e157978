---------------------------- MODULE LambdaRuntime ----------------------------
(***************************************************************************)
(* The process engine of effects/src/lambda.ts: run hands each event that  *)
(* Lambda delivers to one main fiber, through an unbounded queue, and      *)
(* awaits a Deferred; main builds the environment and then, for ever,      *)
(* takes an event and forks a child fiber that handles it.                 *)
(*                                                                         *)
(* The effect library is external. An action is what one fiber does until  *)
(* it waits, so a fiber that has been given a value may be interrupted     *)
(* before it goes on with it; the default scheduler leaves no time for     *)
(* that, but options.runtime may bring another. A fiber that ends, for     *)
(* whatever reason, interrupts its children and waits for them. An action  *)
(* on a queue that is shut down interrupts whoever asked for it.           *)
(***************************************************************************)
EXTENDS Integers, Sequences, SequencesExt

CONSTANTS
  Invocations,   \* events Lambda delivers, each at most once
  Hanging,       \* the ones whose handler may never settle
  Throwing,      \* the ones for which the handler may throw and not return an effect
  Nobody         \* no invocation

ASSUME HangingAssumption == Hanging \subseteq Invocations
ASSUME NobodyAssumption == Nobody \notin Invocations

VARIABLES
  main,       \* "building" the environment, "polling" the queue, "waiting" for an
              \* event, "handed" one, "releasing" the environment, "joining" its
              \* children or "ended"
  hand,       \* the event main has been handed and has not gone on with
  queue,      \* events offered and not taken
  isShutdown, \* the queue has been shut down
  stopping,   \* the interruption of main has been asked for
  called,     \* invocations delivered
  fiber,      \* fiber[i]: "none", "working", "done", "dead" or "interrupted"
  response    \* response[i]: what run's promise settled with: "none" yet, "ok",
              \* "error" or "interrupted"

vars == <<main, hand, queue, isShutdown, stopping, called, fiber, response>>

Phases == {"building", "polling", "waiting", "handed", "releasing", "joining", "ended"}

TypeOK ==
  /\ main \in Phases
  /\ hand \in Invocations \cup {Nobody}
  /\ main = "handed" <=> hand # Nobody
  /\ queue \in Seq(called)
  /\ isShutdown \in BOOLEAN
  /\ stopping \in BOOLEAN
  /\ called \subseteq Invocations
  /\ fiber \in [Invocations -> {"none", "working", "done", "dead", "interrupted"}]
  /\ response \in [Invocations -> {"none", "ok", "error", "interrupted"}]

Init ==
  /\ main = "building"
  /\ hand = Nobody
  /\ queue = <<>>
  /\ isShutdown = FALSE
  /\ stopping = FALSE
  /\ called = {}
  /\ fiber = [i \in Invocations |-> "none"]
  /\ response = [i \in Invocations |-> "none"]

-----------------------------------------------------------------------------
\* Lambda calls the handler: the event is given to main if main waits for one,
\* else it is queued, whether or not anybody will ever take it.
Invoke(i) ==
  /\ i \notin called
  /\ called' = called \cup {i}
  /\ \/ /\ isShutdown
        /\ response' = [response EXCEPT ![i] = "interrupted"]
        /\ UNCHANGED <<main, hand, queue>>
     \/ /\ ~isShutdown /\ main = "waiting"
        /\ main' = "handed"
        /\ hand' = i
        /\ UNCHANGED <<queue, response>>
     \/ /\ ~isShutdown /\ main # "waiting"
        /\ queue' = Append(queue, i)
        /\ UNCHANGED <<main, hand, response>>
  /\ UNCHANGED <<isShutdown, stopping, fiber>>

\* The environment has been built.
Build ==
  /\ main = "building" /\ ~stopping
  /\ main' = "polling"
  /\ UNCHANGED <<hand, queue, isShutdown, stopping, called, fiber, response>>

\* The layer fails, or is interrupted: the loop and its teardown never run, and
\* the queue stays open.
BuildFails ==
  /\ main = "building"
  /\ main' = "ended"
  /\ UNCHANGED <<hand, queue, isShutdown, stopping, called, fiber, response>>

\* Mutant of TearDown: the queue is shut down first, which interrupts takeAll.
TearDownShutFirst(left) ==
  /\ main' = "releasing"
  /\ isShutdown' = TRUE
  /\ queue' = left
  /\ UNCHANGED response

\* Effect.ensuring: the events left in the queue are taken, the queue is shut
\* down, and their callers are interrupted.
TearDown(left) ==
  /\ main' = "releasing"
  /\ isShutdown' = TRUE
  /\ queue' = <<>>
  /\ response' = [i \in Invocations |->
                    IF i \in ToSet(left) THEN "interrupted" ELSE response[i]]

\* main goes on with an event. It is main that calls the handler: if the handler
\* throws, main fails; if it returns an effect, a child runs it.
Handle(i, left) ==
  /\ hand' = Nobody
  /\ \/ /\ fiber' = [fiber EXCEPT ![i] = "working"]
        /\ queue' = left
        /\ main' = "polling"
        /\ UNCHANGED <<isShutdown, response>>
     \/ /\ i \in Throwing
        /\ TearDown(left)
        /\ UNCHANGED fiber

\* Mutant of Poll: the event is looked at and not taken.
PollPeeking ==
  /\ main = "polling" /\ ~stopping
  /\ \/ /\ queue = <<>>
        /\ main' = "waiting"
        /\ UNCHANGED <<hand, queue, isShutdown, fiber, response>>
     \/ /\ queue # <<>>
        /\ Handle(Head(queue), queue)
  /\ UNCHANGED <<stopping, called>>

\* Queue.take: an event that is there is gone on with at once.
Poll ==
  /\ main = "polling" /\ ~stopping
  /\ \/ /\ queue = <<>>
        /\ main' = "waiting"
        /\ UNCHANGED <<hand, queue, isShutdown, fiber, response>>
     \/ /\ queue # <<>>
        /\ Handle(Head(queue), Tail(queue))
  /\ UNCHANGED <<stopping, called>>

Resume ==
  /\ main = "handed" /\ ~stopping
  /\ Handle(hand, queue)
  /\ UNCHANGED <<stopping, called>>

\* Mutant of Settle: a handler that fails answers nobody.
SettleUncaught(i) ==
  /\ fiber[i] = "working"
  /\ fiber' = [fiber EXCEPT ![i] = "done"]
  /\ \/ response' = [response EXCEPT ![i] = "ok"]
     \/ UNCHANGED response
  /\ UNCHANGED <<main, hand, queue, isShutdown, stopping, called>>

\* The handler succeeds or fails, and its caller with it.
Settle(i) ==
  /\ fiber[i] = "working"
  /\ fiber' = [fiber EXCEPT ![i] = "done"]
  /\ \E result \in {"ok", "error"} : response' = [response EXCEPT ![i] = result]
  /\ UNCHANGED <<main, hand, queue, isShutdown, stopping, called>>

\* The handler's effect dies: catchAll does not catch a defect.
Die(i) ==
  /\ fiber[i] = "working"
  /\ fiber' = [fiber EXCEPT ![i] = "dead"]
  /\ UNCHANGED <<main, hand, queue, isShutdown, stopping, called, response>>

-----------------------------------------------------------------------------
\* SIGTERM, SIGINT or beforeExit, or options.timeout has passed: main is to be
\* interrupted. Nobody waits for that, and asking again changes nothing.
Stop ==
  /\ ~stopping /\ main # "ended"
  /\ stopping' = TRUE
  /\ UNCHANGED <<main, hand, queue, isShutdown, called, fiber, response>>

\* main learns of it, between two events or with one in hand that is lost.
Interrupted ==
  /\ stopping /\ main \in {"polling", "waiting", "handed"}
  /\ TearDown(queue)
  /\ hand' = Nobody
  /\ UNCHANGED <<stopping, called, fiber>>

\* The environment is released while handlers are still at work in it; only when
\* main has no more to do are its children interrupted.
Released ==
  /\ main = "releasing"
  /\ main' = "joining"
  /\ UNCHANGED <<hand, queue, isShutdown, stopping, called, fiber, response>>

\* Mutant of InterruptChild: handlers are let run to their end.
InterruptNoChild(i) == FALSE /\ UNCHANGED vars

\* Neither branch of the child's pipeline runs: nobody completes its Deferred.
InterruptChild(i) ==
  /\ main = "joining" /\ fiber[i] = "working"
  /\ fiber' = [fiber EXCEPT ![i] = "interrupted"]
  /\ UNCHANGED <<main, hand, queue, isShutdown, stopping, called, response>>

End ==
  /\ main = "joining"
  /\ \A i \in Invocations : fiber[i] # "working"
  /\ main' = "ended"
  /\ UNCHANGED <<hand, queue, isShutdown, stopping, called, fiber, response>>

Next ==
  \/ \E i \in Invocations : Invoke(i) \/ Settle(i) \/ Die(i) \/ InterruptChild(i)
  \/ Build \/ BuildFails \/ Poll \/ Resume
  \/ Stop \/ Interrupted \/ Released \/ End

Spec == Init /\ [][Next]_vars

\* The scheduler runs every fiber that can go on, the environment is built or
\* not and is released, handlers settle unless they hang. Nothing need be
\* invoked, nor main be stopped.
Fairness ==
  /\ WF_vars(Build \/ BuildFails) /\ WF_vars(Poll) /\ WF_vars(Resume)
  /\ WF_vars(Interrupted) /\ WF_vars(Released) /\ WF_vars(End)
  /\ \A i \in Invocations : WF_vars(InterruptChild(i))
  /\ \A i \in Invocations \ Hanging : WF_vars(Settle(i) \/ Die(i))

FairSpec == Spec /\ Fairness

-----------------------------------------------------------------------------
(***************************************************************************)
(* Properties.                                                             *)
(***************************************************************************)

\* Invocations that have neither been told anything nor reached a handler.
Untold == {i \in called : response[i] = "none" /\ fiber[i] = "none"}

\* The ones among them that nobody will tell: they are not even queued.
Adrift == Untold \ ToSet(queue)

\* An invocation that is told of an interruption has not been handled and never
\* will be: its caller may repeat it. It rests on an event being in one place
\* only: the queue, main's hand or a fiber.
InterruptedNeverBegun ==
  \A i \in Invocations :
    response[i] = "interrupted" => fiber[i] = "none" /\ i # hand /\ i \notin ToSet(queue)

\* The teardown (takeAll, then shutdown, then the interruptions) leaves nobody in
\* the queue, and one event at most slips through between the queue and a fiber:
\* the one main had in hand.
OneAdriftAtMost ==
  /\ isShutdown => queue = <<>>
  /\ \A i, j \in Adrift : i = j

\* Every invocation is answered or interrupted in the end, unless its handler
\* hangs, dies or is interrupted with main, it is the one main had in hand, or
\* the environment was not built.
InvocationsSettle ==
  \A i \in Invocations \ Hanging :
    i \in called ~>
      \/ response[i] # "none"
      \/ fiber[i] \in {"dead", "interrupted"}
      \/ i \in Adrift /\ isShutdown
      \/ main = "ended" /\ ~isShutdown

\* main ends once it has been told to, or has failed, though handlers hang.
MainEnds == stopping \/ isShutdown ~> main = "ended"
=============================================================================
