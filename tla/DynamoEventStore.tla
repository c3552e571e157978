-------------------------- MODULE DynamoEventStore --------------------------
(***************************************************************************)
(* DynamoEventStore.publish and .load (dynamo-event-store/src/store.ts,    *)
(* changeset.ts) over one aggregate's partition of the DynamoDB table.     *)
(*                                                                         *)
(* A publish stamps its events with ULIDs, gathers them in one change set  *)
(* and sends a transaction of two puts: the "latest-revision" record, on a *)
(* condition, and the change set itself. Every attempt stamps the events   *)
(* anew. A load pages through the change sets in the order of their sort   *)
(* key, which is their revision. Aggregates share no record, so one        *)
(* partition is the whole story but for the ULIDs other aggregates use up, *)
(* which only leave gaps in the ones seen here.                            *)
(*                                                                         *)
(* Requests stay in the network until DynamoDB serves them; the caller may *)
(* give up on one that is still there, or on one whose reply is lost.      *)
(***************************************************************************)
EXTENDS Integers, Sequences, FiniteSets

CONSTANTS
  Calls,       \* publish calls, each made at most once
  Loads,       \* load calls, each made at most once
  Procs,       \* processes, each with a monotonic ULID factory of its own
  ProcOf,      \* ProcOf[c]: the process that makes call c
  Ulid,        \* ULIDs, as numbers in their lexical order
  MaxRetries,  \* retries of a retryable error (maxAttempts: 5 in the code)
  MaxBatch,    \* bound: events in one publish
  Spread,      \* bound: a new ULID is among the Spread smallest it could be
  MaxCrashes,  \* bound: process crashes in a behaviour
  ClockSync,   \* TRUE: a new ULID is above every committed one, whoever made it
  Reliable     \* TRUE: a request whose call saw an error never takes effect

ASSUME UlidAssumption == Ulid \subseteq Nat \ {0}
ASSUME ProcAssumption == ProcOf \in [Calls -> Procs]
ASSUME BoundAssumption == /\ {MaxRetries, MaxCrashes} \subseteq Nat
                          /\ {MaxBatch, Spread} \subseteq Nat \ {0}
                          /\ {ClockSync, Reliable} \subseteq BOOLEAN

AnyRevision == -1    \* options.expectedRevision left undefined
Initial     == 0     \* Revision.Initial; also the latest of an empty aggregate
Unknown     == -2    \* any revision this aggregate never has, or no ULID at all

VARIABLES
  log,        \* the change sets of the aggregate, in the order of their commits
  latest,     \* revision of the latest-revision record, Initial if there is none
  requests,   \* transactions sent and not yet served
  lastUlid,   \* lastUlid[p]: the last ULID the factory of p made
  crashes,    \* crashes so far
  pc,         \* pc[c]: "idle", "encode", "waiting" or "done"
  expected,   \* expected[c]: the expectedRevision of call c
  sent,       \* sent[c]: the revision of the change set c last sent
  answer,     \* answer[c]: how DynamoDB answered the request of c
  retries,    \* retries[c]: retries c has used
  outcome,    \* outcome[c]: what the caller of c was told
  lpc,        \* lpc[l]: "idle", "reading", "done" or "failed"
  cursor,     \* cursor[l]: load l has read up to this revision
  loaded,     \* loaded[l]: revisions of the change sets l has read
  lretries    \* lretries[l]: retries used for the page being read

storeVars == <<log, latest, requests>>
callVars  == <<lastUlid, crashes, pc, expected, sent, answer, retries, outcome>>
loadVars  == <<lpc, cursor, loaded, lretries>>
vars == <<storeVars, callVars, loadVars>>

ChangeSets == [call : Calls, ids : SUBSET Ulid, rev : Ulid,
               expected : {AnyRevision, Initial, Unknown} \cup Ulid]

TypeOK ==
  /\ log \in Seq(ChangeSets)
  /\ latest \in {Initial} \cup Ulid
  /\ requests \in SUBSET ChangeSets
  /\ lastUlid \in [Procs -> {Initial} \cup Ulid]
  /\ crashes \in 0..MaxCrashes
  /\ pc \in [Calls -> {"idle", "encode", "waiting", "done"}]
  /\ expected \in [Calls -> {AnyRevision, Initial, Unknown} \cup Ulid]
  /\ sent \in [Calls -> {Initial} \cup Ulid]
  /\ answer \in [Calls -> {"none", "ok", "rejected"}]
  /\ retries \in [Calls -> 0..MaxRetries]
  /\ outcome \in [Calls -> {"none", "ok", "conflict", "failed", "lost"}]
  /\ lpc \in [Loads -> {"idle", "reading", "done", "failed"}]
  /\ cursor \in [Loads -> {Initial} \cup Ulid]
  /\ loaded \in [Loads -> SUBSET Ulid]
  /\ lretries \in [Loads -> 0..MaxRetries]

Init ==
  /\ log = <<>>
  /\ latest = Initial
  /\ requests = {}
  /\ lastUlid = [p \in Procs |-> Initial]
  /\ crashes = 0
  /\ pc = [c \in Calls |-> "idle"]
  /\ expected = [c \in Calls |-> AnyRevision]
  /\ sent = [c \in Calls |-> Initial]
  /\ answer = [c \in Calls |-> "none"]
  /\ retries = [c \in Calls |-> 0]
  /\ outcome = [c \in Calls |-> "none"]
  /\ lpc = [l \in Loads |-> "idle"]
  /\ cursor = [l \in Loads |-> Initial]
  /\ loaded = [l \in Loads |-> {}]
  /\ lretries = [l \in Loads |-> 0]

-----------------------------------------------------------------------------
(***************************************************************************)
(* ULIDs. A factory never repeats itself or goes back while its process    *)
(* lives; two factories are ordered by nothing but their clocks, and never *)
(* collide (80 random bits).                                               *)
(***************************************************************************)
CommittedIds == UNION {log[i].ids : i \in DOMAIN log}
UsedIds == CommittedIds \cup UNION {r.ids : r \in requests}

Fresh(p) == {u \in Ulid : /\ u > lastUlid[p]
                          /\ u \notin UsedIds
                          /\ ClockSync => \A v \in CommittedIds : v < u}

\* The ULIDs the events of one publish may be given, read off synchronously.
Batches(p) ==
  LET near == {u \in Fresh(p) : Cardinality({v \in Fresh(p) : v < u}) < Spread}
  IN  {ids \in SUBSET near : ids # {} /\ Cardinality(ids) <= MaxBatch}

-----------------------------------------------------------------------------
(***************************************************************************)
(* Publish, at the caller's side.                                          *)
(***************************************************************************)

\* publish is called, with Revision.Initial, with no expected revision, or with
\* any other: that of an event of the aggregate, which need not be the last of
\* its change set, or one that the aggregate never has, as nothing checks it.
Publish(c) ==
  /\ pc[c] = "idle"
  /\ pc' = [pc EXCEPT ![c] = "encode"]
  /\ \E e \in {AnyRevision, Initial, Unknown} \cup CommittedIds :
       expected' = [expected EXCEPT ![c] = e]
  /\ UNCHANGED <<storeVars, lastUlid, crashes, sent, answer, retries, outcome, loadVars>>

\* No events, or an event without a type or with data that is no payload: the
\* error is not retryable and comes before any ULID is made.
Invalid(c) ==
  /\ pc[c] = "idle"
  /\ pc' = [pc EXCEPT ![c] = "done"]
  /\ outcome' = [outcome EXCEPT ![c] = "failed"]
  /\ UNCHANGED <<storeVars, lastUlid, crashes, expected, sent, answer, retries, loadVars>>

\* Mutant of Attempt: a retry forgets the expected revision.
AttemptUnguardedRetry(c) ==
  LET p == ProcOf[c]
      e == IF retries[c] = 0 THEN expected[c] ELSE AnyRevision IN
  /\ pc[c] = "encode"
  /\ \E ids \in Batches(p) : \E rev \in ids :
       /\ \A u \in ids : u <= rev
       /\ requests' = requests \cup {[call |-> c, ids |-> ids, rev |-> rev, expected |-> e]}
       /\ lastUlid' = [lastUlid EXCEPT ![p] = rev]
       /\ sent' = [sent EXCEPT ![c] = rev]
  /\ pc' = [pc EXCEPT ![c] = "waiting"]
  /\ answer' = [answer EXCEPT ![c] = "none"]
  /\ UNCHANGED <<log, latest, crashes, expected, retries, outcome, loadVars>>

\* One attempt of the retry policy: $publish stamps the events, makes the
\* change set, whose revision is that of its last event, and $write sends it.
Attempt(c) ==
  LET p == ProcOf[c] IN
  /\ pc[c] = "encode"
  /\ \E ids \in Batches(p) : \E rev \in ids :
       /\ \A u \in ids : u <= rev
       /\ requests' = requests \cup
            {[call |-> c, ids |-> ids, rev |-> rev, expected |-> expected[c]]}
       /\ lastUlid' = [lastUlid EXCEPT ![p] = rev]
       /\ sent' = [sent EXCEPT ![c] = rev]
  /\ pc' = [pc EXCEPT ![c] = "waiting"]
  /\ answer' = [answer EXCEPT ![c] = "none"]
  /\ UNCHANGED <<log, latest, crashes, expected, retries, outcome, loadVars>>

\* Mutant of Succeed: a failed condition is taken for success.
SucceedWhateverAnswer(c) ==
  /\ pc[c] = "waiting"
  /\ answer[c] # "none"
  /\ pc' = [pc EXCEPT ![c] = "done"]
  /\ outcome' = [outcome EXCEPT ![c] = "ok"]
  /\ UNCHANGED <<storeVars, lastUlid, crashes, expected, sent, answer, retries, loadVars>>

\* The transaction went through: publish returns the change set's revision.
Succeed(c) ==
  /\ pc[c] = "waiting"
  /\ answer[c] = "ok"
  /\ pc' = [pc EXCEPT ![c] = "done"]
  /\ outcome' = [outcome EXCEPT ![c] = "ok"]
  /\ UNCHANGED <<storeVars, lastUlid, crashes, expected, sent, answer, retries, loadVars>>

\* Mutants of RetryOrGiveUp: one retry too many, and retries that are not counted.
RetryOnceMore(c, handled, error) ==
  \/ /\ handled
     /\ retries[c] <= MaxRetries
     /\ retries' = [retries EXCEPT ![c] = @ + 1]
     /\ pc' = [pc EXCEPT ![c] = "encode"]
     /\ UNCHANGED outcome
  \/ /\ handled => retries[c] > MaxRetries
     /\ pc' = [pc EXCEPT ![c] = "done"]
     /\ outcome' = [outcome EXCEPT ![c] = error]
     /\ UNCHANGED retries

RetryUncounted(c, handled, error) ==
  IF handled
  THEN /\ pc' = [pc EXCEPT ![c] = "encode"]
       /\ UNCHANGED <<retries, outcome>>
  ELSE /\ pc' = [pc EXCEPT ![c] = "done"]
       /\ outcome' = [outcome EXCEPT ![c] = error]
       /\ UNCHANGED retries

\* An attempt failed with an error the policy handles, or does not.
RetryOrGiveUp(c, handled, error) ==
  \/ /\ handled
     /\ retries[c] < MaxRetries
     /\ retries' = [retries EXCEPT ![c] = @ + 1]
     /\ pc' = [pc EXCEPT ![c] = "encode"]
     /\ UNCHANGED outcome
  \/ /\ handled => retries[c] = MaxRetries
     /\ pc' = [pc EXCEPT ![c] = "done"]
     /\ outcome' = [outcome EXCEPT ![c] = error]
     /\ UNCHANGED retries

\* The condition on latest-revision failed. Only a publish that expected no
\* revision is tried again; at the end it is a RevisionConflictError, otherwise
\* an ExpectedRevisionConflictError.
Conflict(c) ==
  /\ pc[c] = "waiting"
  /\ answer[c] = "rejected"
  /\ RetryOrGiveUp(c, expected[c] = AnyRevision, "conflict")
  /\ UNCHANGED <<storeVars, lastUlid, crashes, expected, sent, answer, loadVars>>

\* Some other error: retryable (throttling, unavailable, internal, clock skew,
\* the SDK's own trait) or not (a broken connection, a conflict between two
\* transactions in progress, a cypher that fails). It says nothing of the
\* request, which may still be served or never, unless Reliable.
Fail(c) ==
  /\ pc[c] = "waiting"
  /\ Reliable => answer[c] = "none"
  /\ requests' = IF Reliable THEN {r \in requests : ~(r.call = c /\ r.rev = sent[c])} ELSE requests
  /\ \E retryable \in BOOLEAN : RetryOrGiveUp(c, retryable, "failed")
  /\ UNCHANGED <<log, latest, lastUlid, crashes, expected, sent, answer, loadVars>>

\* A process stops: its calls end unanswered, its next factory knows nothing of
\* this one's ULIDs. Requests that left it may still arrive.
Crash(p) ==
  LET dead == {c \in Calls : ProcOf[c] = p /\ pc[c] \in {"encode", "waiting"}} IN
  /\ crashes < MaxCrashes
  /\ crashes' = crashes + 1
  /\ lastUlid' = [lastUlid EXCEPT ![p] = Initial]
  /\ pc' = [c \in Calls |-> IF c \in dead THEN "done" ELSE pc[c]]
  /\ outcome' = [c \in Calls |-> IF c \in dead THEN "lost" ELSE outcome[c]]
  /\ UNCHANGED <<storeVars, expected, sent, answer, retries, loadVars>>

-----------------------------------------------------------------------------
(***************************************************************************)
(* TransactWriteItems, at DynamoDB's side.                                 *)
(***************************************************************************)

\* Mutants of LatestCondition: Revision.Initial taken for no revision, and an
\* unguarded write that does not compare its revision with the latest.
LatestConditionNoInitial(r) ==
  IF r.expected \in {AnyRevision, Initial} THEN latest = Initial \/ latest < r.rev
                                           ELSE latest = r.expected
LatestConditionUnordered(r) ==
  CASE r.expected = AnyRevision -> TRUE
    [] r.expected = Initial     -> latest = Initial
    [] OTHER                    -> latest = r.expected

\* latestCondition: what must hold of latest-revision for r to be written.
LatestCondition(r) ==
  CASE r.expected = AnyRevision -> latest = Initial \/ latest < r.rev
    [] r.expected = Initial     -> latest = Initial
    [] OTHER                    -> latest = r.expected

\* The call that sent r is still waiting for the answer to it.
Awaited(r) == pc[r.call] = "waiting" /\ sent[r.call] = r.rev

Answered(r, a) ==
  answer' = IF Awaited(r) THEN [answer EXCEPT ![r.call] = a] ELSE answer

\* Both puts happen, or neither.
Commit(r) ==
  /\ LatestCondition(r)
  /\ log' = Append(log, r)
  /\ latest' = r.rev
  /\ requests' = requests \ {r}
  /\ Answered(r, "ok")
  /\ UNCHANGED <<lastUlid, crashes, pc, expected, sent, retries, outcome, loadVars>>

\* Mutant of Reject: two puts instead of a transaction, and the second is made.
RejectHalfway(r) ==
  /\ ~LatestCondition(r)
  /\ log' = Append(log, r)
  /\ requests' = requests \ {r}
  /\ Answered(r, "rejected")
  /\ UNCHANGED <<latest, lastUlid, crashes, pc, expected, sent, retries, outcome, loadVars>>

\* The condition does not hold: nothing is written.
Reject(r) ==
  /\ ~LatestCondition(r)
  /\ requests' = requests \ {r}
  /\ Answered(r, "rejected")
  /\ UNCHANGED <<log, latest, lastUlid, crashes, pc, expected, sent, retries, outcome, loadVars>>

-----------------------------------------------------------------------------
(***************************************************************************)
(* Load. The query does not ask for a consistent read, so each page may be *)
(* served by a replica that has only the first k commits.                  *)
(***************************************************************************)
Replica(k) == {log[i].rev : i \in 1..k}

Load(l) ==
  /\ lpc[l] = "idle"
  /\ lpc' = [lpc EXCEPT ![l] = "reading"]
  /\ UNCHANGED <<storeVars, callVars, cursor, loaded, lretries>>

\* Mutant of ReadPage: a page takes the place of the pages before it.
ReadPageForgets(l) ==
  /\ lpc[l] = "reading"
  /\ \E k \in 0..Len(log) :
       LET rest == {rev \in Replica(k) : rev > cursor[l]} IN
       \/ /\ loaded' = [loaded EXCEPT ![l] = rest]
          /\ lpc' = [lpc EXCEPT ![l] = "done"]
          /\ UNCHANGED cursor
       \/ \E end \in rest :
            /\ loaded' = [loaded EXCEPT ![l] = {rev \in rest : rev <= end}]
            /\ cursor' = [cursor EXCEPT ![l] = end]
            /\ UNCHANGED lpc
  /\ lretries' = [lretries EXCEPT ![l] = 0]
  /\ UNCHANGED <<storeVars, callVars>>

\* $read returns some of the change sets beyond the cursor, the lowest first;
\* how many depends on their size. Without a LastEvaluatedKey the load is over.
\* (A page that ends on the last change set may still carry a key.)
ReadPage(l) ==
  /\ lpc[l] = "reading"
  /\ \E k \in 0..Len(log) :
       LET rest == {rev \in Replica(k) : rev > cursor[l]} IN
       \/ /\ loaded' = [loaded EXCEPT ![l] = @ \cup rest]
          /\ lpc' = [lpc EXCEPT ![l] = "done"]
          /\ UNCHANGED cursor
       \/ \E end \in rest :
            /\ loaded' = [loaded EXCEPT ![l] = @ \cup {rev \in rest : rev <= end}]
            /\ cursor' = [cursor EXCEPT ![l] = end]
            /\ UNCHANGED lpc
  /\ lretries' = [lretries EXCEPT ![l] = 0]
  /\ UNCHANGED <<storeVars, callVars>>

\* Each page is read under a retry policy of its own.
ReadFails(l) ==
  /\ lpc[l] = "reading"
  /\ \/ /\ lretries[l] < MaxRetries
        /\ lretries' = [lretries EXCEPT ![l] = @ + 1]
        /\ UNCHANGED lpc
     \/ /\ lpc' = [lpc EXCEPT ![l] = "failed"]
        /\ UNCHANGED lretries
  /\ UNCHANGED <<storeVars, callVars, cursor, loaded>>

-----------------------------------------------------------------------------
Proceed(c) == Attempt(c) \/ Succeed(c) \/ Conflict(c) \/ Fail(c)
Serve(r) == Commit(r) \/ Reject(r)
Read(l) == ReadPage(l) \/ ReadFails(l)

Next ==
  \/ \E c \in Calls : Publish(c) \/ Invalid(c) \/ Proceed(c)
  \/ \E r \in requests : Serve(r)
  \/ \E p \in Procs : Crash(p)
  \/ \E l \in Loads : Load(l) \/ Read(l)

\* A call runs on to its end: the SDK reports an answer or an error at last,
\* and the event loop resumes whoever waits for it.
Fairness ==
  /\ \A c \in Calls : WF_vars(Proceed(c))
  /\ \A l \in Loads : WF_vars(Read(l))

Spec == Init /\ [][Next]_vars
FairSpec == Spec /\ Fairness

-----------------------------------------------------------------------------
(***************************************************************************)
(* Properties.                                                             *)
(***************************************************************************)
Guarded(i) == log[i].expected # AnyRevision
RevBefore(i) == IF i = 1 THEN Initial ELSE log[i - 1].rev

\* Optimistic concurrency (latestCondition): a change set published with an
\* expected revision directly follows the change set of that revision, whatever
\* was retried, delayed, lost or written by others in between.
GuardHonoured == \A i \in DOMAIN log : Guarded(i) => log[i].expected = RevBefore(i)

\* createPublishRetryPolicy re-stamps and re-sends a transaction whose reply was
\* lost; with an expected revision the events are still written at most once.
GuardedOnce == \A i, j \in DOMAIN log :
                 Guarded(i) /\ log[i].call = log[j].call => i = j

\* Of two publishes that expect the same revision, at most one is told it
\* succeeded: neither overwrites what the other decided on.
NoLostUpdate ==
  \A c, d \in Calls :
    /\ c # d
    /\ expected[c] = expected[d]
    /\ expected[c] # AnyRevision
    => ~(outcome[c] = "ok" /\ outcome[d] = "ok")

\* publish returns a revision only if the change set of that revision is in the
\* aggregate for good, and it is its own, under the revision it expected.
OkIsDurable ==
  \A c \in Calls : outcome[c] = "ok" =>
    \E i \in DOMAIN log : /\ log[i].call = c
                          /\ log[i].rev = sent[c]
                          /\ log[i].expected = expected[c]

\* A publish that was never retried writes its events at most once, however late
\* its request arrives, and not at all when it is told of a conflict. (Retried
\* after a reply was lost, an unguarded publish may write them once per attempt,
\* and a guarded one be told of a conflict with its own: DynamoFalseConflict.)
OneAttemptWritesOnce ==
  \A i \in DOMAIN log :
    LET c == log[i].call IN
    retries[c] = 0 => /\ outcome[c] # "conflict"
                      /\ \A j \in DOMAIN log : log[j].call = c => i = j

\* What ExpectedRevisionConflictError says ("revision did not match the expected
\* revision of ..."): the publish itself has not written anything.
ConflictMeansNotWritten ==
  \A i \in DOMAIN log : Guarded(i) => outcome[log[i].call] # "conflict"

\* Revisions grow along the log, so that the order loads return change sets in,
\* that of the sort key, is the order in which they were committed.
Ascending == \A i, j \in DOMAIN log : i < j => log[i].rev < log[j].rev

\* A load, paged over replicas that lag behind by different amounts while others
\* write, returns the change sets up to some commit, and none after it: no gap.
LoadsPrefix ==
  \A l \in Loads : lpc[l] = "done" =>
    \E k \in 0..Len(log) : loaded[l] = Replica(k)

\* Every publish and every load ends, whatever errors it meets (retry policies).
CallsSettle ==
  /\ \A c \in Calls : pc[c] = "encode" ~> pc[c] = "done"
  /\ \A l \in Loads : lpc[l] = "reading" ~> lpc[l] \in {"done", "failed"}

-----------------------------------------------------------------------------
(***************************************************************************)
(* The refinement: the store implements EventLog when revisions ascend.    *)
(***************************************************************************)
Told(c) == CASE pc[c] = "idle" -> "idle"
             [] pc[c] = "done" -> outcome[c]
             [] OTHER          -> "pending"

Entry(r) == [call |-> r.call, rev |-> r.rev, expected |-> r.expected]

AbsLog == [i \in DOMAIN log |-> Entry(log[i])]
AbsTold == [c \in Calls |-> Told(c)]
AbsAnswered == [c \in Calls |-> IF outcome[c] = "ok" THEN sent[c] ELSE Initial]
AbsView == [l \in Loads |-> [done |-> lpc[l] = "done",
                             revs |-> IF lpc[l] = "done" THEN loaded[l] ELSE {}]]

Abstract == INSTANCE EventLog WITH
  log <- AbsLog, guard <- expected, told <- AbsTold, answered <- AbsAnswered, view <- AbsView

ImplementsEventLog == Abstract!Spec
=============================================================================
