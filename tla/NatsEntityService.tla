-------------------------- MODULE NatsEntityService --------------------------
(***************************************************************************)
(* A NatsService (nats/src/server/nats-service.ts) and the entity service  *)
(* behind it (core/src/service), for any domain. The work a command does   *)
(* in the pool is an execution of the entity service: it begins when the   *)
(* pool begins the work, runs while the pool counts it as active, and the  *)
(* work settles with what the execution ends with.                         *)
(*                                                                         *)
(* Nothing but the number of requests limits the executions here: how many *)
(* overlap is what the command loop and the pool make of them.             *)
(***************************************************************************)
EXTENDS NatsService

CONSTANTS
  Commands, Absent, Rejected, Nothing, StartState, Initializes(_), FirstState(_),
  Reduces(_), Reduce(_, _), Valid(_), Decide(_, _), Guards(_),
                 \* the domain, as in EntityService (StartState: its Start)
  Foreign, InEffects, Guarding, Stale, Remote, MaxForeign, MaxFaults
                 \* its store and its bounds, as in EntityService

VARIABLES
  log, foreign, faults, pc, command, entity, seen, late, retried, triggered,
                 \* EntityService's
  ended          \* ended[t]: what the execution of t ended with

E == INSTANCE EntityService WITH
  Executions <- Tasks, MaxInFlight <- Cardinality(Tasks), outcome <- ended, Start <- StartState

\* The entity service as a caller sees it that waits for every answer.
Serial == INSTANCE EntityService WITH
  Executions <- Tasks, MaxInFlight <- 1, outcome <- ended, Start <- StartState

ASSUME ServedAssumption == E!Others \notin Tasks
ASSUME StoreAssumption ==
  {InEffects, Guarding, Stale, Remote} \subseteq BOOLEAN /\ {MaxForeign, MaxFaults} \subseteq Nat

entityVars ==
  <<log, foreign, faults, pc, command, entity, seen, late, retried, triggered, ended>>
servedVars == <<natsVars, entityVars>>

ServedInit == Init /\ E!Init

-----------------------------------------------------------------------------
\* The pool begins the work: service.execute is called.
BeginCommand(t) == Begin(t) /\ E!Execute(t)

\* An execution goes on.
Work(t) ==
  \/ E!Loaded(t) \/ E!Published(t) \/ E!Conflicted(t) \/ E!PublishFails(t)
  \/ E!Reloaded(t) \/ E!LoadFails(t)

\* What goes on behind the pool: the executions, timer or no timer, requests to
\* the store that were given up, and other programs.
Behind ==
  /\ (\E t \in Tasks : Work(t) \/ E!Arrives(t)) \/ E!PublishElsewhere
  /\ UNCHANGED natsVars

\* Mutant of CommandEnds: the work settles when its timer fires.
CommandEndsInTime(t) ==
  /\ pc[t] = "done" \/ t \in timedOut
  /\ CommandSettles(t)
  /\ t \notin timedOut => (outcome'[t] = "ok" <=> ended[t] = "ok")
  /\ t \in effects' <=> ended[t] = "ok" \/ E!RecordedBy(t) # {}
  /\ UNCHANGED entityVars

\* The execution has ended, and the work settles with it. Its effect is what it has
\* recorded by then: a request that the store carries out later is not known here.
CommandEnds(t) ==
  /\ pc[t] = "done"
  /\ CommandSettles(t)
  /\ t \notin timedOut => (outcome'[t] = "ok" <=> ended[t] = "ok")
  /\ t \in effects' <=> ended[t] = "ok" \/ E!RecordedBy(t) # {}
  /\ UNCHANGED entityVars

\* What happens around the executions.
Around ==
  /\ \/ \E t \in Tasks : CallExecute(t) \/ Expire(t) \/ Reply(t)
     \/ \E l \in Loads : CallLoad(l) \/ LoadSettles(l)
     \/ Take \/ Leave
     \/ Shutdown \/ Stopped \/ Joined \/ Closed
  /\ UNCHANGED entityVars

ServedNext ==
  \/ \E t \in Tasks : BeginCommand(t) \/ CommandEnds(t)
  \/ Behind
  \/ Around

ServedSpec == ServedInit /\ [][ServedNext]_servedVars

-----------------------------------------------------------------------------
(***************************************************************************)
(* Properties.                                                             *)
(***************************************************************************)

\* The pool, the loop and the timers together make the executions of one service
\* run one at a time, those of commands that were given up included: the entity
\* service behind it is the one EntityService describes with MaxInFlight = 1.
OneAtATime == Serial!Spec

\* The events of commands are recorded in the order the commands arrived in, by a
\* store in the process: a request to a remote one may be carried out after it was
\* given up.
RecordedInOrder ==
  \A i, j \in DOMAIN log : \A m, n \in DOMAIN inbox :
    i < j /\ log[i].by = inbox[m] /\ log[j].by = inbox[n] => m <= n

\* Any answer to a command is final: once it has been sent, SERVICE_OVERLOADED
\* after a timeout included, the command records nothing any more. A client that
\* repeats it then does not race with its first attempt. This, too, is so only if no
\* request to the store outlives its execution.
AnswerIsFinal ==
  [][\A t \in Tasks :
       reply[t] # "none" \/ service = "down" => E!RecordedBy(t)' = E!RecordedBy(t)]_servedVars
=============================================================================
