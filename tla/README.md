# A TLA+ verification of wee-events

wee-events is a TypeScript library for event-sourced services: an event store
over DynamoDB, services that replay events into entities and run commands on
them, and servers that put such services on NATS, HTTP and AWS Lambda. This
directory holds models of its core in TLA+, the TLC runs that check them, and
theorems about them that TLAPS checks.

Paths are relative to the repository; `P/` stands for `packages/`.

## 1. The system

| Component | State | Operations | Interacts with |
|---|---|---|---|
| aggregate ids (`P/core/src/types/core.ts`) | none | `encode`, `decoder` | name the partitions of the stores |
| `EventStore` (`P/core/src/store/types.ts`) | an append-only log per aggregate | `publish`, `load` | implemented by the two stores below |
| `DynamoEventStore` (`P/dynamo-event-store`) | a `latest-revision` record and `change-set#…` records per aggregate, a ULID factory per process | `publish` (retry policy, conditional transaction), `load` (pages, retry per page) | DynamoDB, cypher, tokenizer |
| `MemoryStore` (`P/core/src/store/memory-store.ts`) | arrays of events | `publish`, `load` | tests and samples |
| core service (`P/core/src/service`) | none of its own; per execution: entity, `triggered` | `load`, `execute` = load, dispatch, reload; builders that describe loaders and dispatchers | event store, command handlers |
| effects service (`P/effects/src/service`) | as above | as above, always reloads | event store, handlers |
| account (`P/effects/src/service/sample`) and receipts (`samples/receipts`) | reducers and handlers | commands | services |
| `WorkerPool` (`P/nats/src/server/worker-pool.ts`) | semaphore and its queue, `activities`, `isShuttingDown` | `execute` (timeout), `shutdown` (timeout) | async-mutex, timers |
| `NatsService` (`P/nats/src/server/nats-service.ts`) | command iterator and its loop, load callbacks, pool, shutdown signal | `execute`, `load` endpoints, `shutdown` | NATS, pool, service |
| `NatsClient` (`P/nats/src/client`) | none; modifiers | `execute`, `load`, error mapping | NATS |
| RSA key source (`P/cypher/src/rsa/keysource`) | a cache per process, a table | the call (get or create) | DynamoDB, RSA cypher |
| RSA cypher (`P/cypher/src/rsa/cypher.ts`) | none | encrypt, decrypt | RSA key source |
| AES cypher, tokenizer (`P/cypher`) | none | encrypt, decrypt, tokenize | a hash of the aggregate id |
| Lambda runtime (`P/effects/src/lambda.ts`) | a queue, the main fiber and its environment, a child fiber and a Deferred per event | `run`, teardown, cleanup on signals and timeout | AWS Lambda, the effect library |
| Fastify server (`P/fastify`) | none | routes to `load` and `execute` | service |
| AWS clients, configuration, rendering, logging, OpenAPI, command line tool | none | wiring and formatting | |

A command travels client -> NATS -> `NatsService` -> `WorkerPool` -> `execute` ->
handler -> `publish` -> DynamoDB, and back. Everything runs on an event loop: between
two `await`s a process is not interrupted, at every `await` it is. Several processes
share one table.

What is hard, and what makes each component correct:

* **Store.** Lost replies and retries, requests that outlive their callers,
  transactions of several processes in any order, pages from lagging replicas.
  Correct if an expected revision is honoured, a guarded publish writes once,
  success is durable, revisions ascend, loads have no gaps, and calls end.
* **Services.** Other executions publish between the load and the publish of one;
  loads may be stale; the reload may fail after the command took effect; a publish may be
  repeated, or carried out after it was given up. Correct if guarded commands behave as if
  run alone and record once, refused commands leave no trace, and an
  answer shows the command's own event.
* **Pool.** Permits that change hands, timers that race results, shutdown amid all of
  it. Correct if permits are conserved, nobody is forgotten and shutdown ends.
* **NATS service.** A serial command loop beside parallel loads, and a shutdown of
  four stages. Correct if replies are truthful and commands run in order, if what is
  received is answered and nothing happens after shutdown.
* **NATS client.** Timers, lost requests and a connection that closes, against a service
  that knows nothing of them. Correct if a caller may rely on what its call ends with.
* **Key source and RSA cypher.** Get-or-create with caches and no lock. Correct if what is
  encrypted for a type can be decrypted for it, and not for another.

* **Lambda runtime.** Fibers that wait, fail, die and are interrupted at any moment, and a
  teardown amid it. Correct if an event is in one place only, if every invocation is answered
  but for the ways the code leaves open, and if main ends when it is told to.
* **Aggregate ids.** Two strings joined to one. Correct if no two aggregates share a name.

`PROJECT.json` lists the hazards line by line, with the properties that cover them.

## 2. The modules

| Module | Models | Composition |
|---|---|---|
| `EventLog` | what `EventStore` promises about one aggregate | abstract specification |
| `DynamoEventStore` | publish and load over DynamoDB | implements `EventLog` (`ImplementsEventLog`) |
| `EntityService` | `execute` of both service packages, for any domain | works on a log as `EventLog` has it |
| `Descriptions` | the builders of loaders and dispatchers, both packages | pure operators |
| `Account` | a domain: reducers and handlers | extends `EntityService`, described with `Descriptions`; `AccountDomain` says that the service runs it |
| `Receipts` | a domain: reducers and handlers, and its business rules over a log | described with `Descriptions`; `MCReceipts` puts it into an entity service |
| `WorkerPool` | the pool and its semaphore | |
| `NatsService` | loop, callbacks, replies, shutdown | composes `WorkerPool` by `INSTANCE` |
| `NatsClient` | the client's calls, its timers and its errors | extends `NatsService` |
| `NatsEntityService` | a NATS service and the entity service whose executions are its work | extends `NatsService`, composes `EntityService` by `INSTANCE`; implements `EntityService` with `MaxInFlight = 1` (`OneAtATime`) |
| `NatsReceipts` | the receipts sample as its NATS server runs it | extends `NatsEntityService`, takes `Receipts` in by `INSTANCE`; `ReceiptDomain` says that the service runs it |
| `LambdaRuntime` | queue, main fiber, children, teardown | |
| `AggregateId` | the names of partitions | extends `DynamoEventStore` |
| `KeySource` | the RSA key source over its table | |
| `RsaCypher` | encrypt and decrypt | extends `KeySource` |
| `*_proofs` | theorems and proofs | extend the module they are named after, but `EntityService_proofs` extends `Account` and `NatsEntityService_proofs` `NatsReceipts`, whose theorems they hold too; proofs about a composition take in those about its parts by `INSTANCE` |
| `MC*` | constants for TLC | extend the module they are named after; `MCDynamoEventStore` takes in `AggregateId`, `MCKeySource` `RsaCypher` |

Operators named as mutants ("Mutant of ...") in a module are no part of its
specification: each is a plausible bug in the definition it names, and every
property of a passing run fails when one of them takes the place of that definition.

### DynamoEventStore

One aggregate's partition. `log` is the sequence of change sets in commit order,
`latest` the `latest-revision` record. A ULID is a natural number.

* `Publish` / `Invalid` are the call and its validation; `Attempt` is one pass of the
  retry policy: `$publish` stamps the events with fresh ULIDs, `$write` sends the
  transaction. A retry stamps them anew, as the code does.
* `Commit` and `Reject` are DynamoDB's: `LatestCondition` is `latestCondition` case by
  case, and both puts happen together. `requests` is the network: a request whose
  caller saw an error may still arrive, after the retry, or after the caller is gone.
* `Succeed`, `Conflict`, `Fail` are the ways an attempt ends, `RetryOrGiveUp` the
  policy's choice. `Crash` ends a process and its ULID factory.
* `Load`, `ReadPage`, `ReadFails`: each page is read from a replica that has only the
  first `k` commits, `k` chosen anew per page, because the query does not ask for
  consistent reads.

Two constants state what the environment may do. `ClockSync` says that a new ULID is
above every committed one whichever process made it; it is an assumption about the
clocks of the deployment, needed because a guarded write is not compared with the
latest revision (`store.ts:145-148`). `Reliable` says that an error means the request
never takes effect, which the code does not justify: `DynamoImplements` assumes it to be small
enough for TLC, while `DynamoGuard` and all theorems do without. Each run, and each theorem that needs one, says which it assumes.

A caller may expect any revision: that of a change set, the initial one, or one the
aggregate never had (`Unknown`). A publish that expects none and is retried after a lost
reply is written once per attempt at worst, and a guarded one that is retried may be told
of a conflict with itself. What is left is `OneAttemptWritesOnce`: a publish that was not
retried is written once at most, and not at all if it is told of a conflict.

The refinement maps the log to `EventLog`'s by dropping the ids (`AbsLog`), a call that has
sent something to a pending one (`AbsTold`), and a load that has ended to what it returned
(`AbsView`). A commit is a `Write` whoever waits for it, a retry is a stutter.

`AggregateId` has strings as sequences of symbols and says what `encode` and `decoder` do with
them. `IdsKeptApart` is a statement about these two alone: no two ids whose types have no dots
share a name, and each is known by its own. What is in the log has no part in it: that
there is something makes it a statement about states, and a partition is all that is stored
under one name.

### EntityService, Descriptions, Account, Receipts

`Execute` begins with a load; `Loaded` is the load's return and everything up to the
handler's publish, one synchronous stretch; `entity[x]` is what the handler was given, and
a request carries what it decided on that, however late it arrives. `Published`,
`Conflicted` and `PublishFails` are the ends of one request to the store; `Reloaded` and
`LoadFails` end the call. A failed request has been carried out, or is still under way
(`late`) and arrives at any time or never (`Arrives`), after the answer even; the store's
policy then repeats it (`retried`) or gives it up (`RetryOrFail`). So an unguarded event may
be recorded twice, and a conflict may be one with the command's own event, as
`DynamoFalseConflict` shows of the store itself.

`InEffects` tells the effects service from the core one, `Guarding` a store that
heeds `expectedRevision` from `MemoryStore`, `Stale` a store whose loads may lag, `Remote`
a store behind a network from one in the process, whose publish is carried out where it
is called. `Revision` is that of the last event the state used, which lags behind the log when
the last event has no reducer; in the effects package an initializer counts even when it
makes no state. `MaxInFlight = 1` is one `NatsService`, which
`NatsEntityService` shows; above it are HTTP servers or several instances.
The domain is given by constant operators: initializers, reducers, handlers, which
handlers guard their publish, and events of other programs.

`Descriptions` has the builders of both packages. A description is a record of functions:
`reducer`, `initializer` and `handler` add an entry by `Register`, which is the object
spread of the code. `Account` and `Receipts` call them in the order the samples do
(`AccountLoader`, `ReceiptDispatcher`, ...), and the constants of `EntityService` are read
off the descriptions: what reduces is what a loader knows, what is valid is what a
dispatcher accepts. A reducer or handler registered under the wrong name, left out, or
given the wrong schema would change what the runs check. Each run adds commands that have
no handler or that no schema accepts. Reducers and handlers are functions of what they are
called with, one argument after the other (`reducers[type][state][data]`), and the domains
are unbounded: totals are any integers, items any sequence.

`AccountDomain` and `ReceiptDomain` say that the constants of the service are what the sample's
description makes of them, on a given set of states and events. The code has this by
construction, `server.ts:17-22` of the sample hands its description to the service; TLC
evaluates the same formulas on small sets in the runs `EntityGuarded` and `NatsReceipts`, and the proofs assume
them of all states.

A handler publishes at most one event here. That is all the repository's samples do,
though the interface allows more.

### WorkerPool, NatsService

`stage[t]` follows a call of `execute`. The step from "granted" to "working" is a
separate action because the semaphore's promise is resolved before the caller runs on,
and a shutdown may fall in between. `Release` hands the permit to the first that waits.
`awaited[s]` is the set of activities `shutdown` found.

`NatsService` drives the pool's actions: `Take` is one turn of the command loop
(`Throw`, `Decline` or `Submit`), `Begin`, `Expire` and `CommandSettles` are the pool's
steps, `Reply` the end of `handleCommandMessage`. `Shutdown`, `Stopped`, `Joined`,
`Closed` are the awaits of `shutdown`. NATS delivers each request once and in order to a
subscribed service. A client's timer is no part of it: the service is not told of it, and
a repeated request is another request.

### NatsEntityService

The work of a command in the pool is an execution: `BeginCommand` is the pool's `Begin` and
the service's `Execute` in one step, `Behind` what executions and other programs do while the
pool knows nothing of it, `CommandEnds` the settling of the work with what the execution
ended with, and `Around` everything else of the NATS service. How many executions overlap is
not a bound of this module but a consequence of loop, pool and timers. Order and finality
(`RecordedInOrder`, `AnswerIsFinal`) are properties of a service whose store is in its
process, as that of the sample's server is. Over a remote store a request that was given up
may be carried out after later commands and after the answer, and neither holds.
`NatsReceipts` adds the domain, and names what it promises to the sample's users.

### NatsClient

`call[r]` follows a call of the client. `Execute` refuses an unknown command or a payload
its schema does not accept before it sends anything, else makes its `Request`: delivered,
lost, or told that there is no responder. `Receive` is a reply in time, `GiveUp` the timer
of five seconds, which may fire at any moment while the service works on for its thirty;
`Close` ends all pending calls of the connection. `Outcome` is what the client makes of a
reply: anything but an entity fails the schema of the response and becomes a
`ServiceError`, because the connection does not throw for error payloads, as the comment at
`client.ts:106` supposes, and nothing uses `errorRegistry` or `mapResponseError`. A caller
therefore cannot tell a refused command from a failed one. `Elsewhere` is the service and
the clients of other programs, `Own` the requests of this one.

### KeySource, RsaCypher

`puts[k]` is the history of the table's item for type `k`: the `attribute_not_exists`
condition names an attribute no item has, so every put goes through. `disturbed` and
`crowded` are history variables: the types whose calls overlapped, or met a failed put or
a stale read, or left a put behind, at all or within one source. They let the properties say
exactly what undisturbed use may rely on. A put whose error was caught, or that a restart cut
off, is `adrift`: it may never have been sent, or `Land` carries it out at any later time and
the pair in the table is replaced. Its type is disturbed from the moment it goes adrift.

In `RsaCypher` every call of a source is made by an encryption or, if `opens[c]` holds a
buffer, by a decryption. `Opens` says that a decryption gives the payload back: its key pair
is the one the buffer was made with.

### LambdaRuntime

An action is what one fiber does until it waits. `main` is where the main fiber is, `hand` the
event it has been given and has not gone on with. `Invoke` is Lambda's call of `run`'s handler:
it offers an event to the queue, or to the main fiber that waits for one; `Poll` and `Resume`
take it and fork a child; `Settle` and `Die` are the ways a child ends by itself. `Stop` is a
signal or the timeout of `options`, `Interrupted` the moment main learns of it. `TearDown` is
the code's `Effect.ensuring`, and `Released`, `InterruptChild` and `End` are what the effect
library does after it: the environment is released, then children are interrupted and
awaited. With the library's own scheduler main goes on at once with what it is handed;
`options.runtime` may bring another scheduler, and `hand` is there for it.

## 3. What the runs show

| Run | Shows | Bounds |
|---|---|---|
| `DynamoGuard` | `GuardHonoured`, `GuardedOnce`, `NoLostUpdate`, `OkIsDurable`, `OneAttemptWritesOnce`, with no assumption on clocks or errors | 3 publishes, each in a process of its own, 1 retry, 4 ULIDs, of which a new one is among the 2 next |
| `DynamoImplements` | refinement of `EventLog`, `Ascending`, `LoadsPrefix`, `CallsSettle` under `ClockSync` and `Reliable`; `IdsKeptApart` | 2 publishes, a load, a retry, a crash; strings of up to 3 symbols, one of them the dot |
| `DynamoFalseConflict` | violation: a conflict is reported by a publish that was written | 2 publishes |
| `EntityGuarded` | `Serializable`, `RecordsAsAnswered`, `BalanceNeverNegative` with stale loads, and a lost answer, a repeated publish or a request that comes after the answer | 3 executions, 2 foreign events, 1 fault |
| `NatsReceipts` | `ClosedIsFinal`, `FinalTotalIsSum`, `ReadsItsWrite`, `RecordedInOrder`, `OneAtATime`, `AnswerIsFinal`: the receipts sample behind a NATS service, with timers, late work and shutdown | 4 commands, 2 permits, tea that costs 1 and pie that costs 2; a store in the process, no failed loads, which the proofs allow |
| `ReceiptsConcurrent` | violation: an item is added to a closed receipt | 3 executions |
| `WorkerPool` | permits, late work, shutdown, and that tasks and shutdown end | 4 tasks, 2 permits, 1 task that may hang, 1 shutdown |
| `NatsOverloaded` | violation: a command that took effect is answered SERVICE_OVERLOADED | 2 commands |
| `NatsClient` | `InOrder`, `RepliesTruthful`, `NobodyTurnedAway`, `QuietWhenDown`, `ReceivedIsAnswered`, `ShutdownReturns` of the service; `CallersConclude` of the client | a command and a load of the client; of other programs one command that may hang and one that may be malformed or unreadable |
| `KeySource` | `Decipherable`, `TypesKeepApart`, `CacheStable` | 4 encryptions or decryptions, 2 sources, 2 types, 3 key pairs, 2 faults |
| `KeySourceRace` | violation: a stored key pair is replaced | 3 calls, no faults |
| `LambdaRuntime` | `InterruptedNeverBegun`, `OneAdriftAtMost`, `InvocationsSettle`, `MainEnds` | 4 invocations, a handler that may hang, one that may throw |

Why the bounds are enough. An anomaly of the store needs a publish, its retry, and one or
two publishes of others in between: three calls and one retry hold all orders of these,
and four ULIDs leave room for gaps. A page boundary needs two change sets; a load that
goes wrong needs a third write between pages only if revisions do not ascend
(`LoadsHaveNoGaps` below proves it for any number, and without `Reliable`). Two permits
and four tasks give one that works, one that is granted, and two that wait, the order of
which matters. For a client, one command that may hang holds up the next, which is what
leaves a request behind at shutdown. Behind the NATS service, four commands are what it takes
to add two items, close the receipt and come late, or to add, remove and close; two prices tell
the items apart. Four invocations of the Lambda runtime are one with a child, one in hand and
two in the queue when main stops. Three symbols are enough for a dot at the start, in the
middle or at the end of a type or a key. Four calls of a key source are two encryptions that
race and a decryption of each; two faults are a restart that cuts a put off and another that
empties a cache, and three pairs let one that lands late replace one that is in use. Two executions show every race of the service and a third
shows that refused ones do not disturb it; foreign events bring in the revision lag. The
theorems below drop the bounds of most of these properties. Deadlock checking is off in
every run because each call is made at most once and all behaviours end; what must not get
stuck is stated as a liveness property instead. Symmetry is used only in runs without
liveness properties.

The violations are what the code does against what it says. `PROJECT.json` quotes the
lines under "findings":

1. A guarded publish whose reply was lost is retried, meets its own write and reports
   `ExpectedRevisionConflictError` although its events are stored.
2. The receipts sample checks the status of a receipt and publishes unguarded, so
   overlapping executions add items to closed receipts.
3. A command that ends after the pool's timeout has taken effect, and is answered that
   the service was at capacity and could not process it.
4. The condition that should keep a stored RSA key from being replaced holds always.

Other things a reader of the models may care about, which no run states: a message
that is not JSON ends the command loop of an instance that stays subscribed
(`nats-service.ts:114-122`; `ReceivedIsAnswered` makes the exception explicit); messages
the iterator holds at shutdown are neither executed nor answered, where the comment at
`nats-service.ts:236` has the pool's shutdown process remaining messages and the package's
README (`README.md:510-513`) drain all subscriptions; the pool's `shutdown` returns at once
(`worker-pool.ts:95`) when the only task has its permit but has not run on, where the test
"should wait for active activities to complete" (`worker-pool.test.ts:133-155`) has just such
a task and a comment (`:148`) that shutdown should be waiting, and passes because it does not
look (`ShutdownSeesActivitiesOut` speaks of the activities found and not of that task);
`NatsService.shutdown` never returns while a command hangs, because the wait for the loop
comes before the pool's timeout (`ShutdownReturns` excepts it); an unguarded publish whose reply is lost is
written again by its retry, and a publish reported as failed may be carried out later, after
other commands (`store.ts:72-90`); a put of a key pair that a restart cut off may replace
another source's pair later (`dynamodb.ts:59-60`); the commands of an instance
run one at a time, where the README says concurrently; a closed receipt can be voided,
where the sample's README says that finalized receipts cannot be modified; and the
README of the NATS package has the client's `error.message` be the domain's, which it is not
(`NatsClient`, above). In the Lambda runtime, a handler that throws before it returns an
effect ends main, and with it every later invocation (`lambda.ts:38`); if the
environment fails or is interrupted while it is built, the queue stays open and its events
wait for ever; a child that dies or is interrupted answers nobody; the environment is released
while handlers still work in it; `options.timeout` ends main as a whole and not a single
event; and `cleanup` calls `Runtime.runSync` on an interruption that must wait, which throws in
the signal's listener, so that only a process that survives this does what the model
describes. `InvocationsSettle` makes the exceptions explicit. `afterRevision` is handed down to
the store's query and never used there (`store.ts:170`), `cf` of the core dispatcher and
`AggregateId.decoder` have no caller, and nothing refuses a type with a dot in it, whose aggregates
may share a partition with another's.

## 4. Fairness

* `DynamoEventStore`: weak fairness of `Proceed` per call and of `Read` per load: the
  SDK reports an answer or an error in the end, and the event loop resumes the waiter.
  Nothing is assumed of DynamoDB, which need not serve a request, nor of callers.
* `WorkerPool`: weak fairness of `Start` (a resolved promise runs on), of `Settle` for
  work that does not hang, and of the end of a shutdown (its timer fires at the latest).
  Timers of tasks need not fire: nothing depends on one.
* `NatsService`: the same for the pool's steps, the loop's and shutdown's. Clients need
  not call and shutdown need not begin. `ClientFairSpec` is the same: of clients nothing is
  assumed, and their timers need not fire.
* `LambdaRuntime`: weak fairness of main, which the scheduler runs when it can go on, of the
  building and release of the environment, of the interruption of children, and of handlers
  that do not hang. Nothing need be invoked, nor main be stopped.

Fairness is never strong, and never of a command in `Hanging`.

## 5. What is proved

For all values of the constants, by TLAPS. Each proof is an inductive invariant,
established action by action.

* `DynamoEventStore_proofs`. `TypeCorrect`. Then `ConcurrencyInv`: `latest` is the revision
  at the end of `log`; revisions are the last ids of their change sets, unique among requests
  and log, and no greater than what the factory made; a call that has sent something has
  fixed its `expected`, and its requests carry it; a call answered "ok" has its change
  set in the log. `OptimisticConcurrency`, `SuccessIsDurable`, `NoUpdateIsLost` and
  `RetriesWriteOnce` follow. `GuardHonoured` alone is not inductive: it needs to know
  that `latest` mirrors the log. `RevisionsAscend` and `LoadsHaveNoGaps` add `ClockSync`:
  requests under way may not overtake a committed revision unless their condition is
  bound to fail, and what a load has read is all of the log up to its cursor.
  `SingleAttemptsWriteOnce` assumes nothing and rests on `UnretriedInv`: whatever a call that
  was not retried has under way or in the log is the one request it sent.
  `ImplementsTheLog` puts these together: under `ClockSync`, `MapInv` (`TypeOK`,
  `ConcurrencyInv`, `OrderInv`, `LoadInv` and, for reliable stores, `ToldInv`, by which a call
  has one request at most that can still arrive and none once it failed) makes every step
  one of `EventLog`'s or a stutter, one lemma per action.
  `PartitionsAreKeptApart`: of two types without dots the shorter would have its separator
  where the longer has a symbol, so they are equal, and the keys with them.
* `EntityService_proofs`, for any domain. `TypeCorrect`; `AnswersTellWhatWasRecorded` and
  `AnswersShowTheirWrite` (`ASSUME ~Stale`) from an invariant that ties an execution's
  stage to what it recorded and to the requests it has left behind: the first event of a
  guarded command moves the revision past the one all its requests expect; `GuardedCommandsSerialize` (`ASSUME Guarding`) from the fact
  that an entity's revision never passes the events it has seen, so that a revision equal
  to the length of the log means the execution has seen all of it. `CommandsAloneSerialize`
  is the same of unguarded commands, if one execution runs at a time, loads are not stale, the
  store is in the process and nobody else writes: what an execution has loaded then is the log, until it has published.
  For the account, `BalancesStayPositive` (`ASSUME Guarding`): by induction along the log,
  the state after its first `k` events is absent or a total that is not negative, because
  additions add and a deduction was decided on exactly the events before it.
* `WorkerPool_proofs`, for any finite set of tasks. `PoolInv` is the types, the queue
  (exactly the queued tasks, each once), the course of a task (who is an activity, who
  has an outcome), the conservation of permits, and what a shutdown still waits for.
  `ConservesPermits`, `LateWorkTimesOut`, `WaitersAreWoken`, `ShutdownWaitsForActivities`
  follow.

* `NatsService_proofs`, for any requests, permits and hanging commands. `Inv` says that the
  loop has one command in the pool at a time, the one it took last, that requests behind it
  are untouched and those before it answered, and that the pool is shut down after the loop
  has ended. `CommandsRunInOrder`, `RepliesTellTheTruth`, `ShutdownTurnsNobodyAway` and
  `DownIsQuiet` follow. `DrivesThePool`: every step of the service is one of
  `WorkerPool` or none, which carries over what is proved of the pool
  (`ServiceKeepsThePool`, `ServiceTypes`). `NobodyTurnedAway` is needed for `InOrder`: a command the pool refused
  would not be answered.
* `NatsClient_proofs`, for any requests, of which the client makes any part.
  `ClientsLeaveTheServiceAlone` is that every step of the composition is a step of
  `NatsService` or none, which carries `Inv` over; `Knowledge` adds what each state of a call
  implies, and `CallersMayConclude` follows.
* `RsaCypher_proofs`, for any calls, sources, types and faults. `KeysInv` says that a pair,
  wherever it is found (the table, a cache, a call's hand), belongs to one type, and that an
  undisturbed type is worked on by one call at a time and has one pair, which is in the table
  before any cache; and that a put adrift is for a disturbed type (`Drifting`), so that none
  can land in an undisturbed one. From that and from the fact that a buffer is that of an encryption that
  has returned, `TypesAreKeptApart` and `StaysDecipherable` follow. `CachesAreStable` rests on
  `AllAlone`: a source not crowded for a type has one call at most at work on it, and
  nothing cached meanwhile.
* `NatsEntityService_proofs`, for any domain, requests and permits. `ServesAsSpecified`: every step
  is one of `NatsService` or none, which carries its `Inv` over. `Linked` says that an execution
  is under way only while the pool has its command at work, late or not; with `Inv`, which
  allows one such command, `ExecutesOneAtATime` follows, a refinement that derives
  `MaxInFlight = 1` instead of assuming it. `Ordered` adds that who has recorded something was
  taken from the inbox before whoever is at work now; `RecordsInOrder` and `AnswersAreFinal` follow for
  a store in the process (`ASSUME ~Remote`). `ServesEntity`
  brings in `EntityService_proofs` with `MaxInFlight = 1`: `ServedAnswersShowTheirWrite`
  (`ASSUME ~Stale`) and `ServedCommandsSerialize` (`ASSUME ~Stale, ~Remote, MaxForeign = 0`), every event
  of the log is the decision of its handler on the events before it.
* The receipts sample, in the same module (`ASSUME ReceiptDomain(R!Receipt, ReceiptEvents)`,
  `~Stale`, `~Remote`, `MaxForeign = 0`, which is the sample's server over its `MemoryStore`;
  loads may fail). `History` says what the log of such a service can be: after every prefix the state
  is a receipt, and the next event is one its handler decides on there. `ClosedStaysFinal`:
  a status, once it is "finalized" or "voided", is never "open" again in a history, and
  items are decided on open receipts only. `FinalTotalsAreSums`: the items of a receipt are a
  sequence, the rule speaks of sets of events, and removal takes out all items of a name. The
  two are compared by weight. For every weighing of items by name and price, what is on the
  receipt weighs as much as the events that put it there and that no later removal took off
  (`Backed`, kept by every event); the weight that is the price is the total, the weight that
  counts shows that a receipt which may be finalized has something on it.
* `LambdaRuntime_proofs`, for any invocations and handlers. `Inv` says that an event is in one
  place (the queue, main's hand, a fiber) and there once, that an event is lost only from the
  hand and only once, and that a queue that is shut down is empty. `TypeCorrect`,
  `InterruptedMayRepeat` and `TeardownTellsTheQueue` follow.

The assumptions are the named `ASSUME`s of the modules (sets of the right kind, bounds
in `Nat`), which TLC evaluates on every instance, and those a theorem states itself.

Two techniques take the place of what the provers lack. Induction over a natural number is
done with sets: the numbers a claim holds for contain 0 and with `k` also `k + 1`, and the
least number outside would contradict that (`Induct`). Folds and sums of the community modules are
recursive functions on sets; `FoldExists` builds a function that satisfies such an
equation, so that the `CHOOSE` behind the recursion has one, and from then on only
the equation is used (`FoldInOrder`, `TotalEquation`, `WithoutEquation`, `SumNext`, `SetSum`).

Of the properties the passing runs check, every invariant and action property is stated by a
theorem. Only model-checked is liveness, which is out of the prover's reach: `CallsSettle`,
`ShutdownTerminates`, `TasksSettle`, `ReceivedIsAnswered`, `ShutdownReturns`,
`InvocationsSettle`, `MainEnds`. The types of `NatsClient` and of the key source are proved as far
as their invariants need them (`Knowledge`, `Shapes`).

## 6. What is not modelled

Cryptography, tokens and JSON, and of schemas more than what they accept (data the
properties do not tell apart); the classification of domain errors into codes and HTTP
statuses; `Fastify`, which adds nothing to concurrent calls of
`execute`; the retry of AWS calls (`aws/errors.ts:210-213`), which awaits anew a promise that has
settled and so never repeats the call, and keeps no state; `cf`, which nothing uses;
configuration, logging, rendering, OpenAPI and the command line tool; NATS,
DynamoDB, async-mutex and the ULID library beyond the behaviour stated above.

## 7. State and plan

Done: the store, its interface, the refinement and its proof; services, the builders that
describe them and two domains; the pool, the NATS service, its client, and the composition of
service and NATS service; the key source and the RSA cypher; the Lambda runtime; the encoding
of aggregate ids; proofs about all of these.

What could follow:

1. The tokenizer as a pure module, against a reference definition.
2. Several `NatsService` instances over one store, which `ReceiptsConcurrent` shows to overlap.
3. The codes of `handleError`, with what each lets a caller conclude, once a client reads them.
4. `DynamoEventStore` in the place of the log of `EntityService`, so that a guarded command's
   serializability is a theorem about the table and not about `EventLog`.
5. The safety half of the liveness properties: that who waits is enabled, as invariants.
