--------------------------- MODULE EntityService ---------------------------
(***************************************************************************)
(* execute and load of a service over one aggregate: core/src/service      *)
(* (service.ts, loader.ts, dispatcher.ts) and its twin in effects/src.     *)
(*                                                                         *)
(* execute loads the entity by replaying the aggregate's events, hands it  *)
(* to the handler of the command, which may refuse or publish an event,    *)
(* and answers with the entity, loaded anew when there was a publish. The  *)
(* executions of all processes interleave at every await.                  *)
(*                                                                         *)
(* A domain (its reducers and handlers) is a set of constant operators.    *)
(* The store is an event log as EventLog.tla has it: loads may be stale,   *)
(* and when it is reached over a network, the store's own policy repeats a *)
(* publish that failed, whose earlier requests may have been carried out,  *)
(* or may be carried out later, after the answer even. A revision is the   *)
(* position of its event in the log.                                       *)
(***************************************************************************)
EXTENDS Integers, Sequences, FiniteSets

CONSTANTS
  Executions,      \* calls of execute, each made at most once
  Commands,        \* commands a caller may send, malformed ones included
  Absent,          \* the state of an entity no initializer has made yet
  Rejected,        \* a handler's decision to throw
  Nothing,         \* a handler's decision to publish nothing
  Start,           \* what the init function returns; Absent if there is none
  Initializes(_),  \* the event has an initializer
  FirstState(_),   \* what the initializer makes of the event
  Reduces(_),      \* the event has a reducer
  Reduce(_, _),    \* the reducer
  Valid(_),        \* the command's path has a handler and its payload the schema's form
  Decide(_, _),    \* the handler: Rejected, Nothing or the event it publishes
  Guards(_),       \* the handler passes entity.revision as expectedRevision
  Foreign,         \* events other programs publish to the aggregate
  InEffects,       \* TRUE: the service is that of effects/src, FALSE: that of core/src
  Guarding,        \* TRUE: the store heeds expectedRevision (MemoryStore does not)
  Stale,           \* TRUE: a load may miss the latest events (as DynamoDB's may)
  Remote,          \* TRUE: the store is reached over a network (MemoryStore is not)
  MaxInFlight,     \* executions in progress at a time (1: one NatsService, which awaits each)
  MaxForeign,      \* bound: events of other programs
  MaxFaults        \* bound: store calls that fail

ASSUME FlagAssumption == {InEffects, Guarding, Stale, Remote} \subseteq BOOLEAN
ASSUME BoundAssumption == {MaxInFlight, MaxForeign, MaxFaults} \subseteq Nat

Others  == "others"    \* the publisher of a foreign event
Initial == 0           \* Revision.Initial

ASSUME OthersAssumption == Others \notin Executions

VARIABLES
  log,        \* the recorded events of the aggregate
  foreign,    \* events other programs published so far
  faults,     \* store calls that failed so far
  pc,         \* pc[x]: "idle", "loading", "publishing", "reloading" or "done"
  command,    \* command[x]: what x was asked to do
  entity,     \* entity[x]: the state and revision the handler of x was given
  seen,       \* seen[x]: how many events x last loaded
  late,       \* late[x]: requests of x to the store nobody waits for any more
  retried,    \* executions whose publish the store's policy has repeated
  triggered,  \* triggered[x]: TrackingPublisher.triggered
  outcome     \* outcome[x]: "none", "ok" or the error of execute

vars == <<log, foreign, faults, pc, command, entity, seen, late, retried, triggered, outcome>>

Errors == {"unavailable", "invalid", "rejected", "conflict", "failed"}

TypeOK ==
  /\ \A i \in DOMAIN log : /\ log[i].by \in Executions \cup {Others}
                           /\ log[i].by \in Executions => log[i].command \in Commands
  /\ foreign \in 0..MaxForeign
  /\ faults \in 0..MaxFaults
  /\ pc \in [Executions -> {"idle", "loading", "publishing", "reloading", "done"}]
  /\ DOMAIN command = Executions /\ DOMAIN entity = Executions
  /\ \A x \in Executions : pc[x] # "idle" => command[x] \in Commands
  /\ \A x \in Executions : entity[x].revision \in 0..Len(log)
  /\ seen \in [Executions -> 0..Len(log)]
  /\ late \in [Executions -> 0..faults]
  /\ retried \subseteq Executions
  /\ triggered \in [Executions -> BOOLEAN]
  /\ outcome \in [Executions -> {"none", "ok"} \cup Errors]

-----------------------------------------------------------------------------
(***************************************************************************)
(* Replay.                                                                 *)
(***************************************************************************)

\* The state after an event: an initializer may make an absent one, a reducer
\* change a present one, and an event with neither is passed over.
After(s, e) ==
  IF s = Absent THEN IF Initializes(e) THEN FirstState(e) ELSE Absent
                ELSE IF Reduces(e) THEN Reduce(s, e) ELSE s

State(events) ==
  LET after[n \in 0..Len(events)] ==
        IF n = 0 THEN Start ELSE After(after[n - 1], events[n].event)
  IN  after[Len(events)]

\* Whether event i of the history moves the revision: it went into the state. In
\* effects/src an initializer counts even if it makes no state.
Used(events, i) ==
  LET s == State(SubSeq(events, 1, i - 1))
      e == events[i].event
  IN  IF s = Absent THEN Initializes(e) /\ (InEffects \/ FirstState(e) # Absent)
                    ELSE Reduces(e)

\* The revision of an entity: that of the last event its state has used.
Revision(events) ==
  LET used == {i \in DOMAIN events : Used(events, i)}
  IN  IF used = {} THEN Initial ELSE CHOOSE i \in used : \A j \in used : j <= i

Replay(events) == [state |-> State(events), revision |-> Revision(events)]

-----------------------------------------------------------------------------
Init ==
  /\ log = <<>>
  /\ foreign = 0
  /\ faults = 0
  /\ pc = [x \in Executions |-> "idle"]
  /\ command = [x \in Executions |-> Nothing]
  /\ entity = [x \in Executions |-> [state |-> Start, revision |-> Initial]]
  /\ seen = [x \in Executions |-> 0]
  /\ late = [x \in Executions |-> 0]
  /\ retried = {}
  /\ triggered = [x \in Executions |-> FALSE]
  /\ outcome = [x \in Executions |-> "none"]

InFlight == {x \in Executions : pc[x] \notin {"idle", "done"}}

\* execute is called, and its first load begins.
Execute(x) ==
  /\ pc[x] = "idle"
  /\ Cardinality(InFlight) < MaxInFlight
  /\ \E c \in Commands : command' = [command EXCEPT ![x] = c]
  /\ pc' = [pc EXCEPT ![x] = "loading"]
  /\ UNCHANGED <<log, foreign, faults, entity, seen, late, retried, triggered, outcome>>

\* x is answered: with its entity, or with an error.
Finish(x, result) ==
  /\ pc' = [pc EXCEPT ![x] = "done"]
  /\ outcome' = [outcome EXCEPT ![x] = result]

\* The events a load may return: all of them, or from a lagging replica fewer.
Readable == {SubSeq(log, 1, k) : k \in IF Stale THEN 0..Len(log) ELSE {Len(log)}}

\* The command is checked and its handler runs, up to its publish if it has one.
Dispatch(x, state) ==
  LET decision == Decide(state, command[x]) IN
  \/ state = Absent /\ Finish(x, "unavailable")
  \/ state # Absent /\ ~Valid(command[x]) /\ Finish(x, "invalid")
  \/ state # Absent /\ Valid(command[x]) /\ decision = Rejected /\ Finish(x, "rejected")
  \/ /\ state # Absent /\ Valid(command[x]) /\ decision \notin {Rejected, Nothing}
     /\ pc' = [pc EXCEPT ![x] = "publishing"]
     /\ UNCHANGED outcome
  \/ /\ state # Absent /\ Valid(command[x]) /\ decision = Nothing
     /\ IF InEffects THEN pc' = [pc EXCEPT ![x] = "reloading"] /\ UNCHANGED outcome
                     ELSE Finish(x, "ok")

\* The first load returns; what follows, up to the handler's publish, is one
\* synchronous step.
Loaded(x) ==
  /\ pc[x] = "loading"
  /\ \E events \in Readable :
       /\ entity' = [entity EXCEPT ![x] = Replay(events)]
       /\ seen' = [seen EXCEPT ![x] = Len(events)]
       /\ Dispatch(x, State(events))
  /\ UNCHANGED <<log, foreign, faults, command, late, retried, triggered>>

Guarded(x) == Guarding /\ Guards(command[x])

\* The store's condition: a guarded publish expects the revision its handler saw.
Accepts(x) == Guarded(x) => entity[x].revision = Len(log)

Record(x) == [by |-> x, command |-> command[x],
              event |-> Decide(entity[x].state, command[x])]

\* Mutant of Published: the event is appended whatever the entity's revision.
PublishedUnguarded(x) ==
  /\ pc[x] = "publishing"
  /\ log' = Append(log, Record(x))
  /\ triggered' = [triggered EXCEPT ![x] = TRUE]
  /\ pc' = [pc EXCEPT ![x] = "reloading"]
  /\ UNCHANGED <<foreign, faults, command, entity, seen, late, retried, outcome>>

\* Mutant of Published: the publish is not tracked, and the answer is the
\* entity the handler was given.
PublishedUntracked(x) ==
  /\ pc[x] = "publishing"
  /\ Accepts(x)
  /\ log' = Append(log, Record(x))
  /\ Finish(x, "ok")
  /\ UNCHANGED <<foreign, faults, command, entity, seen, late, retried, triggered>>

\* The store appends the event, and the entity is loaded again.
Published(x) ==
  /\ pc[x] = "publishing"
  /\ Accepts(x)
  /\ log' = Append(log, Record(x))
  /\ triggered' = [triggered EXCEPT ![x] = TRUE]
  /\ pc' = [pc EXCEPT ![x] = "reloading"]
  /\ UNCHANGED <<foreign, faults, command, entity, seen, late, retried, outcome>>

\* The aggregate is no longer at the revision the handler expects: the publish
\* fails, and the handler with it. The event that is in the way may be the one an
\* earlier attempt of this very publish has recorded.
Conflicted(x) ==
  /\ pc[x] = "publishing"
  /\ ~Accepts(x)
  /\ Finish(x, "conflict")
  /\ UNCHANGED <<log, foreign, faults, command, entity, seen, late, retried, triggered>>

\* The store's policy sends the publish once more, or gives it up.
RetryOrFail(x) ==
  \/ retried' = retried \cup {x} /\ UNCHANGED <<pc, outcome>>
  \/ Finish(x, "failed") /\ UNCHANGED retried

\* Mutant of PublishFails: after a lost reply the command is executed afresh, with
\* the revision its own event has.
PublishFailsAfresh(x) ==
  /\ Remote /\ pc[x] = "publishing" /\ faults < MaxFaults
  /\ faults' = faults + 1
  /\ Accepts(x) /\ log' = Append(log, Record(x))
  /\ pc' = [pc EXCEPT ![x] = "loading"]
  /\ retried' = retried \cup {x}
  /\ UNCHANGED <<foreign, command, entity, seen, late, triggered, outcome>>

\* A request to the store ends in an error. It has been carried out, or is still
\* under way and may be later or never.
PublishFails(x) ==
  /\ Remote /\ pc[x] = "publishing" /\ faults < MaxFaults
  /\ faults' = faults + 1
  /\ \/ Accepts(x) /\ log' = Append(log, Record(x)) /\ UNCHANGED late
     \/ late' = [late EXCEPT ![x] = @ + 1] /\ UNCHANGED log
  /\ RetryOrFail(x)
  /\ UNCHANGED <<foreign, command, entity, seen, triggered>>

\* A request that nobody waits for is carried out, whatever became of x.
Arrives(x) ==
  /\ late[x] > 0 /\ Accepts(x)
  /\ late' = [late EXCEPT ![x] = @ - 1]
  /\ log' = Append(log, Record(x))
  /\ UNCHANGED <<foreign, faults, pc, command, entity, seen, retried, triggered, outcome>>

\* The load after the handler returns, and execute with it.
Reloaded(x) ==
  /\ pc[x] = "reloading"
  /\ \E events \in Readable :
       /\ seen' = [seen EXCEPT ![x] = Len(events)]
       /\ Finish(x, IF State(events) = Absent THEN "unavailable" ELSE "ok")
  /\ UNCHANGED <<log, foreign, faults, command, entity, late, retried, triggered>>

\* Either load fails, the second one after the command has taken effect.
LoadFails(x) ==
  /\ pc[x] \in {"loading", "reloading"}
  /\ faults < MaxFaults
  /\ faults' = faults + 1
  /\ Finish(x, "failed")
  /\ UNCHANGED <<log, foreign, command, entity, seen, late, retried, triggered>>

\* Another program publishes to the aggregate.
PublishElsewhere ==
  /\ foreign < MaxForeign
  /\ foreign' = foreign + 1
  /\ \E e \in Foreign :
       log' = Append(log, [by |-> Others, command |-> Nothing, event |-> e])
  /\ UNCHANGED <<faults, pc, command, entity, seen, late, retried, triggered, outcome>>

Next ==
  \/ \E x \in Executions : \/ Execute(x)
                           \/ Loaded(x)
                           \/ Published(x)
                           \/ Conflicted(x)
                           \/ PublishFails(x)
                           \/ Arrives(x)
                           \/ Reloaded(x)
                           \/ LoadFails(x)
  \/ PublishElsewhere

Spec == Init /\ [][Next]_vars

-----------------------------------------------------------------------------
(***************************************************************************)
(* What holds.                                                             *)
(***************************************************************************)

\* The events of one execution, as positions in the log.
RecordedBy(x) == {i \in DOMAIN log : log[i].by = x}

\* Every event of a guarded command is the one its handler would have decided
\* on had it run alone on the history before it: executions that interleave,
\* stale loads, events without a reducer and lost answers notwithstanding. This
\* is what a handler gains by passing entity.revision to publish, and it rests
\* on replay never giving an entity a revision beyond the events it has used.
Serializable ==
  \A i \in DOMAIN log :
    log[i].by \in Executions /\ Guards(log[i].command)
      => log[i].event = Decide(State(SubSeq(log, 1, i - 1)), log[i].command)

\* What an execution may leave behind. A guarded command records one event at
\* most, although its publish is repeated with the revision it began with, and
\* although requests that were given up are carried out later. A publish that went
\* through has recorded its event. A command that was refused has recorded nothing,
\* nor has one that met a conflict, unless its publish was repeated: then the
\* conflict may be with its own event.
RecordsAsAnswered ==
  \A x \in Executions :
    /\ pc[x] # "idle" /\ Guarded(x) => Cardinality(RecordedBy(x)) <= 1
    /\ triggered[x] => RecordedBy(x) # {}
    /\ outcome[x] \in {"invalid", "rejected"} \/ (outcome[x] = "conflict" /\ x \notin retried)
         => RecordedBy(x) = {}

\* The entity a successful execution returns has its event in it, given a store
\* whose loads are current: the second load is left out only when nothing was
\* published. (A request that was repeated may record the event again later.)
ReadsItsWrite ==
  \A x \in Executions :
    outcome[x] = "ok" /\ RecordedBy(x) # {} => \E i \in RecordedBy(x) : i <= seen[x]
=============================================================================
