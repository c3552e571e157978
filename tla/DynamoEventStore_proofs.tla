----------------------- MODULE DynamoEventStore_proofs -----------------------
(***************************************************************************)
(* Theorems about DynamoEventStore, for every number of callers, processes *)
(* and retries, and for every set of ULIDs; and, at the end, about the     *)
(* names of its partitions, for any strings.                               *)
(***************************************************************************)
EXTENDS AggregateId, SequenceTheorems, TLAPS

-----------------------------------------------------------------------------
(***************************************************************************)
(* Types.                                                                  *)
(***************************************************************************)

\* The ids in the log are ULIDs.
LEMMA CommittedUlids ==
  ASSUME log \in Seq(ChangeSets)
  PROVE  CommittedIds \subseteq Ulid
<1>1. \A i \in DOMAIN log : log[i] \in ChangeSets
  OBVIOUS
<1>2. \A i \in DOMAIN log : log[i].ids \subseteq Ulid
  BY <1>1 DEF ChangeSets
<1> QED BY <1>2 DEF CommittedIds

\* A batch is a set of fresh ULIDs of its process.
LEMMA BatchIsFresh ==
  ASSUME NEW p \in Procs, NEW ids \in Batches(p)
  PROVE  ids \subseteq Fresh(p) /\ ids \subseteq Ulid
BY DEF Batches, Fresh

\* What a failed attempt leaves behind: the call retries, or has ended.
LEMMA RetryOrGiveUpEffect ==
  ASSUME TypeOK, NEW c \in Calls, NEW handled \in BOOLEAN,
         NEW error \in {"conflict", "failed"}, RetryOrGiveUp(c, handled, error)
  PROVE  /\ retries' \in [Calls -> 0..MaxRetries]
         /\ \E phase \in {"encode", "done"} : pc' = [pc EXCEPT ![c] = phase]
         /\ \/ outcome' = outcome
            \/ pc'[c] = "done" /\ outcome' = [outcome EXCEPT ![c] = error]
BY BoundAssumption DEF TypeOK, RetryOrGiveUp

\* Every reachable state is of the right shape: the change sets, requests and
\* phases of publish and load hold only what the code can put there.
THEOREM TypeCorrect == Spec => []TypeOK
<1>1. Init => TypeOK
  BY BoundAssumption DEF Init, TypeOK
<1>2. TypeOK /\ [Next]_vars => TypeOK'
  <2> SUFFICES ASSUME TypeOK, [Next]_vars
               PROVE  TypeOK'
    OBVIOUS
  <2> USE BoundAssumption, ProcAssumption
  <2>1. ASSUME NEW c \in Calls, Publish(c)
        PROVE  TypeOK'
    BY <2>1, CommittedUlids DEF TypeOK, Publish, storeVars, loadVars
  <2>2. ASSUME NEW c \in Calls, Invalid(c)
        PROVE  TypeOK'
    BY <2>2 DEF TypeOK, Invalid, storeVars, loadVars
  <2>3. ASSUME NEW c \in Calls, Attempt(c)
        PROVE  TypeOK'
    <3>0. PICK ids \in Batches(ProcOf[c]) : \E rev \in ids :
            /\ requests' = requests \cup {[call |-> c, ids |-> ids, rev |-> rev,
                                           expected |-> expected[c]]}
            /\ lastUlid' = [lastUlid EXCEPT ![ProcOf[c]] = rev]
            /\ sent' = [sent EXCEPT ![c] = rev]
      BY <2>3 DEF Attempt
    <3>1. PICK rev \in ids :
            /\ requests' = requests \cup {[call |-> c, ids |-> ids, rev |-> rev,
                                           expected |-> expected[c]]}
            /\ lastUlid' = [lastUlid EXCEPT ![ProcOf[c]] = rev]
            /\ sent' = [sent EXCEPT ![c] = rev]
      BY <3>0
    <3>2. ids \subseteq Ulid /\ rev \in Ulid
      BY BatchIsFresh
    <3>3. [call |-> c, ids |-> ids, rev |-> rev, expected |-> expected[c]] \in ChangeSets
      BY <3>2 DEF TypeOK, ChangeSets
    <3>4. requests' \in SUBSET ChangeSets
      BY <3>1, <3>3 DEF TypeOK
    <3> QED BY <2>3, <3>1, <3>2, <3>4 DEF TypeOK, Attempt, loadVars
  <2>4. ASSUME NEW c \in Calls, Succeed(c)
        PROVE  TypeOK'
    BY <2>4 DEF TypeOK, Succeed, storeVars, loadVars
  <2>5. ASSUME NEW c \in Calls, Conflict(c)
        PROVE  TypeOK'
    <3>1. (expected[c] = AnyRevision) \in BOOLEAN
      OBVIOUS
    <3>2. RetryOrGiveUp(c, expected[c] = AnyRevision, "conflict")
      BY <2>5 DEF Conflict
    <3>3. /\ retries' \in [Calls -> 0..MaxRetries]
          /\ \E phase \in {"encode", "done"} : pc' = [pc EXCEPT ![c] = phase]
          /\ \/ outcome' = outcome
             \/ pc'[c] = "done" /\ outcome' = [outcome EXCEPT ![c] = "conflict"]
      BY <3>1, <3>2, RetryOrGiveUpEffect
    <3>4. pc' \in [Calls -> {"idle", "encode", "waiting", "done"}]
      BY <3>3 DEF TypeOK
    <3>5. outcome' \in [Calls -> {"none", "ok", "conflict", "failed", "lost"}]
      BY <3>3 DEF TypeOK
    <3>6. UNCHANGED <<storeVars, lastUlid, crashes, expected, sent, answer, loadVars>>
      BY <2>5 DEF Conflict
    <3> QED BY <3>3, <3>4, <3>5, <3>6 DEF TypeOK, storeVars, loadVars
  <2>6. ASSUME NEW c \in Calls, Fail(c)
        PROVE  TypeOK'
    <3>1. requests' \in SUBSET ChangeSets
      BY <2>6 DEF TypeOK, Fail
    <3>2. /\ retries' \in [Calls -> 0..MaxRetries]
          /\ \E phase \in {"encode", "done"} : pc' = [pc EXCEPT ![c] = phase]
          /\ \/ outcome' = outcome
             \/ pc'[c] = "done" /\ outcome' = [outcome EXCEPT ![c] = "failed"]
      BY <2>6, RetryOrGiveUpEffect DEF Fail
    <3>3. pc' \in [Calls -> {"idle", "encode", "waiting", "done"}]
      BY <3>2 DEF TypeOK
    <3>4. outcome' \in [Calls -> {"none", "ok", "conflict", "failed", "lost"}]
      BY <3>2 DEF TypeOK
    <3>5. UNCHANGED <<log, latest, lastUlid, crashes, expected, sent, answer, loadVars>>
      BY <2>6 DEF Fail
    <3> QED BY <3>1, <3>2, <3>3, <3>4, <3>5 DEF TypeOK, loadVars
  <2>7. ASSUME NEW r \in requests, Commit(r)
        PROVE  TypeOK'
    <3>1. r \in ChangeSets /\ r.rev \in Ulid /\ r.call \in Calls
      BY DEF TypeOK, ChangeSets
    <3>2. log' \in Seq(ChangeSets)
      BY <2>7, <3>1 DEF TypeOK, Commit
    <3> QED BY <2>7, <3>1, <3>2 DEF TypeOK, Commit, Answered, loadVars
  <2>8. ASSUME NEW r \in requests, Reject(r)
        PROVE  TypeOK'
    <3>1. r.call \in Calls
      BY DEF TypeOK, ChangeSets
    <3> QED BY <2>8, <3>1 DEF TypeOK, Reject, Answered, loadVars
  <2>9. ASSUME NEW p \in Procs, Crash(p)
        PROVE  TypeOK'
    BY <2>9 DEF TypeOK, Crash, storeVars, loadVars
  <2>10. ASSUME NEW l \in Loads, Load(l)
         PROVE  TypeOK'
    BY <2>10 DEF TypeOK, Load, storeVars, callVars
  <2>11. ASSUME NEW l \in Loads, ReadPage(l)
         PROVE  TypeOK'
    <3>1. \A k \in 0..Len(log) : Replica(k) \subseteq Ulid
      <4> SUFFICES ASSUME NEW k \in 0..Len(log), NEW i \in 1..k
                   PROVE  log[i].rev \in Ulid
        BY DEF Replica
      <4>1. log[i] \in ChangeSets
        BY DEF TypeOK
      <4> QED BY <4>1 DEF ChangeSets
    <3> DEFINE Typed == /\ loaded' \in [Loads -> SUBSET Ulid]
                        /\ cursor' \in [Loads -> {Initial} \cup Ulid]
                        /\ lpc' \in [Loads -> {"idle", "reading", "done", "failed"}]
    <3>2. ASSUME NEW k \in 0..Len(log),
                 loaded' = [loaded EXCEPT ![l] = @ \cup {rev \in Replica(k) : rev > cursor[l]}],
                 lpc' = [lpc EXCEPT ![l] = "done"],
                 UNCHANGED cursor
          PROVE  Typed
      <4>1. {rev \in Replica(k) : rev > cursor[l]} \subseteq Ulid
        BY <3>1
      <4>2. loaded' \in [Loads -> SUBSET Ulid]
        BY <3>2, <4>1 DEF TypeOK
      <4>3. lpc' \in [Loads -> {"idle", "reading", "done", "failed"}]
        BY <3>2 DEF TypeOK
      <4> QED BY <3>2, <4>2, <4>3 DEF TypeOK
    <3>3. ASSUME NEW k \in 0..Len(log),
                 NEW end \in {rev \in Replica(k) : rev > cursor[l]},
                 loaded' = [loaded EXCEPT ![l] = @ \cup
                             {rev \in {rev \in Replica(k) : rev > cursor[l]} : rev <= end}],
                 cursor' = [cursor EXCEPT ![l] = end],
                 UNCHANGED lpc
          PROVE  Typed
      <4>1. /\ {rev \in {rev \in Replica(k) : rev > cursor[l]} : rev <= end} \subseteq Ulid
            /\ end \in Ulid
        BY <3>1
      <4>2. loaded' \in [Loads -> SUBSET Ulid]
        BY <3>3, <4>1 DEF TypeOK
      <4>3. cursor' \in [Loads -> {Initial} \cup Ulid]
        BY <3>3, <4>1 DEF TypeOK
      <4> QED BY <3>3, <4>2, <4>3 DEF TypeOK
    <3>4. Typed
      BY <2>11, <3>2, <3>3 DEF ReadPage
    <3>6. lretries' = [lretries EXCEPT ![l] = 0]
      BY <2>11 DEF ReadPage
    <3>7. lretries' \in [Loads -> 0..MaxRetries]
      BY <3>6 DEF TypeOK
    <3>5. UNCHANGED <<storeVars, callVars>>
      BY <2>11 DEF ReadPage
    <3> QED BY <3>4, <3>5, <3>7 DEF TypeOK, storeVars, callVars
  <2>12. ASSUME NEW l \in Loads, ReadFails(l)
         PROVE  TypeOK'
    <3>1. MaxRetries \in Nat /\ lretries[l] \in 0..MaxRetries
      BY DEF TypeOK
    <3>2. lretries[l] < MaxRetries => lretries[l] + 1 \in 0..MaxRetries
      BY <3>1
    <3>4. lretries' \in [Loads -> 0..MaxRetries]
      BY <2>12, <3>2 DEF TypeOK, ReadFails
    <3>3. lpc' \in [Loads -> {"idle", "reading", "done", "failed"}]
      BY <2>12 DEF TypeOK, ReadFails
    <3> QED BY <2>12, <3>4, <3>3 DEF TypeOK, ReadFails, storeVars, callVars
  <2>13. CASE UNCHANGED vars
    BY <2>13 DEF TypeOK, vars, storeVars, callVars, loadVars
  <2> QED
    BY <2>1, <2>2, <2>3, <2>4, <2>5, <2>6, <2>7, <2>8, <2>9, <2>10, <2>11, <2>12, <2>13
    DEF Next, Proceed, Serve, Read
<1> QED BY <1>1, <1>2, PTL DEF Spec

-----------------------------------------------------------------------------
(***************************************************************************)
(* The invariant behind optimistic concurrency. GuardHonoured says that a  *)
(* guarded change set follows the one it expected; that this makes it the  *)
(* only one with that expectation needs revisions to be distinct, and that *)
(* a caller is told the truth needs a trace of what was sent and answered. *)
(***************************************************************************)

\* The latest-revision record and the change sets are written together.
LatestIsTip == latest = IF log = <<>> THEN Initial ELSE log[Len(log)].rev

\* A ULID is in one change set at most, sent or committed.
Stamped ==
  /\ \A i \in DOMAIN log : log[i].rev \in log[i].ids
  /\ \A r \in requests : r.rev \in r.ids /\ r.ids \cap CommittedIds = {}
  /\ \A i, j \in DOMAIN log : i # j => log[i].ids \cap log[j].ids = {}
  /\ \A r, s \in requests : r # s => r.ids \cap s.ids = {}

\* A change set is written under the expectation of the call it came from.
CarriesGuard ==
  /\ \A i \in DOMAIN log : /\ pc[log[i].call] # "idle"
                           /\ log[i].expected = expected[log[i].call]
  /\ \A r \in requests : /\ pc[r.call] # "idle"
                         /\ r.expected = expected[r.call]

\* A call that was answered "ok", or told its caller so, sent a change set that
\* is in the log.
Acked ==
  \A c \in Calls :
    /\ outcome[c] = "ok" => pc[c] = "done"
    /\ outcome[c] = "ok" \/ (pc[c] = "waiting" /\ answer[c] = "ok")
         => \E i \in DOMAIN log : log[i].call = c /\ log[i].rev = sent[c]

\* A commit adds its change set at the end of the log and changes nothing there.
LEMMA CommitAppends ==
  ASSUME TypeOK, NEW r \in requests, Commit(r)
  PROVE  /\ r \in ChangeSets
         /\ Len(log) \in Nat /\ DOMAIN log = 1..Len(log)
         /\ Len(log') = Len(log) + 1 /\ DOMAIN log' = 1..(Len(log) + 1)
         /\ log'[Len(log) + 1] = r
         /\ \A i \in 1..Len(log) : log'[i] = log[i]
         /\ CommittedIds' = CommittedIds \cup r.ids
<1>1. r \in ChangeSets /\ log \in Seq(ChangeSets) /\ log' = Append(log, r)
  BY DEF TypeOK, Commit
<1>2. /\ Len(log) \in Nat /\ DOMAIN log = 1..Len(log)
      /\ Len(log') = Len(log) + 1 /\ DOMAIN log' = 1..(Len(log) + 1)
      /\ log'[Len(log) + 1] = r
      /\ \A i \in 1..Len(log) : log'[i] = log[i]
  BY <1>1
<1>3. CommittedIds' = CommittedIds \cup r.ids
  BY <1>2 DEF CommittedIds
<1> QED BY <1>1, <1>2, <1>3

\* What a step does to the log and to the requests: only a commit writes the
\* log, only an attempt sends.
LEMMA StoreStep ==
  ASSUME [Next]_vars
  PROVE  \/ \E r \in requests : Commit(r)
         \/ \E c \in Calls : Attempt(c) /\ UNCHANGED <<log, latest>>
         \/ requests' \subseteq requests /\ UNCHANGED <<log, latest, sent>>
<1>1. ASSUME NEW c \in Calls, Publish(c) \/ Invalid(c) \/ Succeed(c) \/ Conflict(c)
      PROVE  UNCHANGED <<log, latest, requests, sent>>
  BY <1>1 DEF Publish, Invalid, Succeed, Conflict, storeVars
<1>2. ASSUME NEW c \in Calls, Attempt(c)
      PROVE  UNCHANGED <<log, latest>>
  BY <1>2 DEF Attempt
<1>3. ASSUME NEW c \in Calls, Fail(c)
      PROVE  requests' \subseteq requests /\ UNCHANGED <<log, latest, sent>>
  BY <1>3 DEF Fail
<1>4. ASSUME NEW r \in requests, Reject(r)
      PROVE  requests' \subseteq requests /\ UNCHANGED <<log, latest, sent>>
  BY <1>4 DEF Reject
<1>5. ASSUME NEW p \in Procs, Crash(p)
      PROVE  UNCHANGED <<log, latest, requests, sent>>
  BY <1>5 DEF Crash, storeVars
<1>6. ASSUME NEW l \in Loads, Load(l) \/ ReadPage(l) \/ ReadFails(l)
      PROVE  UNCHANGED <<log, latest, requests, sent>>
  BY <1>6 DEF Load, ReadPage, ReadFails, storeVars, callVars
<1>7. CASE UNCHANGED vars
  BY <1>7 DEF vars, storeVars, callVars
<1> QED
  BY <1>1, <1>2, <1>3, <1>4, <1>5, <1>6, <1>7 DEF Next, Proceed, Serve, Read

LEMMA LatestIsTipStep == TypeOK /\ LatestIsTip /\ [Next]_vars => LatestIsTip'
<1> SUFFICES ASSUME TypeOK, LatestIsTip, [Next]_vars
             PROVE  LatestIsTip'
  OBVIOUS
<1>1. ASSUME NEW r \in requests, Commit(r)
      PROVE  LatestIsTip'
  <2>1. log' # <<>> /\ log'[Len(log')] = r
    BY <1>1, CommitAppends
  <2> QED BY <1>1, <2>1 DEF LatestIsTip, Commit
<1>2. CASE UNCHANGED <<log, latest>>
  BY <1>2 DEF LatestIsTip
<1> QED BY <1>1, <1>2, StoreStep

LEMMA StampedStep == TypeOK /\ Stamped /\ [Next]_vars => Stamped'
<1> SUFFICES ASSUME TypeOK, Stamped, [Next]_vars
             PROVE  Stamped'
  OBVIOUS
<1>1. ASSUME NEW r \in requests, Commit(r)
      PROVE  Stamped'
  <2>1. requests' = requests \ {r}
    BY <1>1 DEF Commit
  <2>2. \A s \in requests' : s.ids \cap CommittedIds' = {}
    BY <1>1, <2>1, CommitAppends DEF Stamped
  <2>3. \A i \in DOMAIN log : log[i].ids \cap r.ids = {}
    BY DEF Stamped, CommittedIds
  <2>4. \A i, j \in DOMAIN log' : i # j => log'[i].ids \cap log'[j].ids = {}
    BY <1>1, <2>3, CommitAppends DEF Stamped
  <2>5. \A i \in DOMAIN log' : log'[i].rev \in log'[i].ids
    BY <1>1, CommitAppends DEF Stamped
  <2> QED BY <2>1, <2>2, <2>4, <2>5 DEF Stamped
<1>2. ASSUME NEW c \in Calls, Attempt(c)
      PROVE  Stamped'
  <2>1. PICK ids \in Batches(ProcOf[c]) : \E rev \in ids :
          requests' = requests \cup {[call |-> c, ids |-> ids, rev |-> rev,
                                      expected |-> expected[c]]}
    BY <1>2 DEF Attempt
  <2>2. PICK rev \in ids :
          requests' = requests \cup {[call |-> c, ids |-> ids, rev |-> rev,
                                      expected |-> expected[c]]}
    BY <2>1
  <2>3. ids \cap CommittedIds = {} /\ \A r \in requests : ids \cap r.ids = {}
    BY BatchIsFresh, ProcAssumption DEF Fresh, UsedIds
  <2>4. log' = log /\ CommittedIds' = CommittedIds
    BY <1>2 DEF Attempt, CommittedIds
  <2> QED BY <2>2, <2>3, <2>4 DEF Stamped
<1>3. CASE requests' \subseteq requests /\ UNCHANGED log
  BY <1>3 DEF Stamped, CommittedIds
<1> QED BY <1>1, <1>2, <1>3, StoreStep

\* A call that has begun keeps its expected revision and never begins again.
LEMMA BegunStep ==
  ASSUME TypeOK, [Next]_vars, NEW d \in Calls, pc[d] # "idle"
  PROVE  pc'[d] # "idle" /\ expected'[d] = expected[d]
<1>1. ASSUME NEW c \in Calls, Publish(c)
      PROVE  pc'[d] # "idle" /\ expected'[d] = expected[d]
  BY <1>1 DEF TypeOK, Publish
<1>2. ASSUME NEW c \in Calls, Invalid(c) \/ Attempt(c) \/ Succeed(c)
      PROVE  pc'[d] # "idle" /\ expected'[d] = expected[d]
  BY <1>2 DEF TypeOK, Invalid, Attempt, Succeed
<1>3. ASSUME NEW c \in Calls, Conflict(c) \/ Fail(c)
      PROVE  pc'[d] # "idle" /\ expected'[d] = expected[d]
  BY <1>3 DEF TypeOK, Conflict, Fail, RetryOrGiveUp
<1>4. ASSUME NEW r \in requests, Commit(r) \/ Reject(r)
      PROVE  pc'[d] # "idle" /\ expected'[d] = expected[d]
  BY <1>4 DEF Commit, Reject
<1>5. ASSUME NEW p \in Procs, Crash(p)
      PROVE  pc'[d] # "idle" /\ expected'[d] = expected[d]
  BY <1>5 DEF TypeOK, Crash
<1>6. ASSUME NEW l \in Loads, Load(l) \/ ReadPage(l) \/ ReadFails(l)
      PROVE  pc'[d] # "idle" /\ expected'[d] = expected[d]
  BY <1>6 DEF Load, ReadPage, ReadFails, callVars
<1>7. CASE UNCHANGED vars
  BY <1>7 DEF vars, callVars
<1> QED
  BY <1>1, <1>2, <1>3, <1>4, <1>5, <1>6, <1>7 DEF Next, Proceed, Serve, Read

LEMMA CarriesGuardStep == TypeOK /\ CarriesGuard /\ [Next]_vars => CarriesGuard'
<1> SUFFICES ASSUME TypeOK, CarriesGuard, [Next]_vars
             PROVE  CarriesGuard'
  OBVIOUS
<1>1. \A i \in DOMAIN log : /\ pc'[log[i].call] # "idle"
                           /\ log[i].expected = expected'[log[i].call]
  <2>1. \A i \in DOMAIN log : log[i].call \in Calls
    <3>1. \A i \in DOMAIN log : log[i] \in ChangeSets
      BY DEF TypeOK
    <3> QED BY <3>1 DEF ChangeSets
  <2> QED BY <2>1, BegunStep DEF CarriesGuard
<1>2. \A r \in requests : /\ pc'[r.call] # "idle"
                         /\ r.expected = expected'[r.call]
  <2>1. \A r \in requests : r.call \in Calls
    BY DEF TypeOK, ChangeSets
  <2> QED BY <2>1, BegunStep DEF CarriesGuard
<1>3. ASSUME NEW r \in requests, Commit(r)
      PROVE  CarriesGuard'
  <2>1. requests' \subseteq requests
    BY <1>3 DEF Commit
  <2> QED BY <1>1, <1>2, <1>3, <2>1, CommitAppends DEF CarriesGuard
<1>4. ASSUME NEW c \in Calls, Attempt(c)
      PROVE  CarriesGuard'
  <2>1. \A r \in requests' : r \in requests \/ (r.call = c /\ r.expected = expected[c])
    BY <1>4 DEF Attempt
  <2>2. log' = log /\ pc'[c] # "idle" /\ expected'[c] = expected[c]
    BY <1>4 DEF Attempt, TypeOK
  <2> QED BY <1>1, <1>2, <2>1, <2>2 DEF CarriesGuard
<1>5. CASE requests' \subseteq requests /\ UNCHANGED log
  BY <1>1, <1>2, <1>5 DEF CarriesGuard
<1> QED BY <1>3, <1>4, <1>5, StoreStep

LEMMA GuardHonouredStep ==
  TypeOK /\ LatestIsTip /\ GuardHonoured /\ [Next]_vars => GuardHonoured'
<1> SUFFICES ASSUME TypeOK, LatestIsTip, GuardHonoured, [Next]_vars
             PROVE  GuardHonoured'
  OBVIOUS
<1>1. ASSUME NEW r \in requests, Commit(r)
      PROVE  GuardHonoured'
  <2> PICK n \in Nat : n = Len(log)
    BY <1>1, CommitAppends
  <2>1. r.expected # AnyRevision => r.expected = latest
    BY <1>1 DEF Commit, LatestCondition
  <2>2. latest = IF n = 0 THEN Initial ELSE log[n].rev
    BY DEF LatestIsTip, TypeOK
  <2>3. \A i \in 1..n : RevBefore(i)' = RevBefore(i) /\ (Guarded(i)' <=> Guarded(i))
    BY <1>1, CommitAppends DEF RevBefore, Guarded
  <2>4. RevBefore(n + 1)' = latest
    BY <1>1, <2>2, CommitAppends DEF RevBefore
  <2> SUFFICES ASSUME NEW i \in DOMAIN log', Guarded(i)'
               PROVE  log'[i].expected = RevBefore(i)'
    BY DEF GuardHonoured
  <2>5. CASE i \in 1..n
    BY <1>1, <2>3, <2>5, CommitAppends DEF GuardHonoured
  <2>6. CASE i = n + 1
    BY <1>1, <2>1, <2>4, <2>6, CommitAppends DEF Guarded
  <2> QED BY <1>1, <2>5, <2>6, CommitAppends
<1>2. CASE UNCHANGED log
  BY <1>2 DEF GuardHonoured, Guarded, RevBefore
<1> QED BY <1>1, <1>2, StoreStep

LEMMA AckedStep == TypeOK /\ Acked /\ [Next]_vars => Acked'
<1> SUFFICES ASSUME TypeOK, Acked, [Next]_vars, NEW d \in Calls
             PROVE  /\ outcome'[d] = "ok" => pc'[d] = "done"
                    /\ outcome'[d] = "ok" \/ (pc'[d] = "waiting" /\ answer'[d] = "ok")
                         => \E i \in DOMAIN log' : log'[i].call = d /\ log'[i].rev = sent'[d]
  BY DEF Acked
<1> DEFINE Written == \E i \in DOMAIN log : log[i].call = d /\ log[i].rev = sent[d]
           Goal == /\ outcome'[d] = "ok" => pc'[d] = "done"
                   /\ outcome'[d] = "ok" \/ (pc'[d] = "waiting" /\ answer'[d] = "ok")
                        => Written'
<1>1. ASSUME NEW c \in Calls, Publish(c) \/ Invalid(c) \/ Succeed(c)
      PROVE  Goal
  <2>1. log' = log /\ sent' = sent /\ answer' = answer
    BY <1>1 DEF Publish, Invalid, Succeed, storeVars
  <2>2. outcome'[d] = "ok" => pc'[d] = "done"
    BY <1>1 DEF TypeOK, Acked, Publish, Invalid, Succeed
  <2>3. outcome'[d] = "ok" => outcome[d] = "ok" \/ (pc[d] = "waiting" /\ answer[d] = "ok")
    BY <1>1 DEF TypeOK, Publish, Invalid, Succeed
  <2>4. pc'[d] = "waiting" => pc[d] = "waiting"
    BY <1>1 DEF TypeOK, Publish, Invalid, Succeed
  <2> QED BY <2>1, <2>2, <2>3, <2>4 DEF Acked
<1>2. ASSUME NEW c \in Calls, Attempt(c)
      PROVE  Goal
  <2>1. CASE c = d
    BY <1>2, <2>1 DEF TypeOK, Acked, Attempt
  <2>2. CASE c # d
    <3>1. PICK u : sent' = [sent EXCEPT ![c] = u]
      BY <1>2 DEF Attempt
    <3>2. sent'[d] = sent[d] /\ pc'[d] = pc[d] /\ answer'[d] = answer[d]
      BY <1>2, <2>2, <3>1 DEF TypeOK, Attempt
    <3>3. log' = log /\ outcome' = outcome
      BY <1>2 DEF Attempt
    <3> QED BY <3>2, <3>3 DEF Acked
  <2> QED BY <2>1, <2>2
<1>3. ASSUME NEW c \in Calls, Conflict(c) \/ Fail(c)
      PROVE  Goal
  <2>1. log' = log /\ sent' = sent /\ answer' = answer
    BY <1>3 DEF Conflict, Fail, storeVars
  <2>2. PICK handled \in BOOLEAN, error \in {"conflict", "failed"} :
          RetryOrGiveUp(c, handled, error)
    BY <1>3 DEF Conflict, Fail
  <2>3. pc[c] = "waiting" /\ outcome[c] # "ok"
    BY <1>3 DEF Conflict, Fail, Acked
  <2>4. /\ \E phase \in {"encode", "done"} : pc' = [pc EXCEPT ![c] = phase]
        /\ outcome' = outcome \/ outcome' = [outcome EXCEPT ![c] = error]
    BY <2>2, RetryOrGiveUpEffect
  <2>5. outcome'[d] = "ok" => outcome[d] = "ok" /\ d # c
    BY <2>3, <2>4 DEF TypeOK
  <2>6. d # c => pc'[d] = pc[d]
    BY <2>4 DEF TypeOK
  <2>7. pc'[c] # "waiting"
    BY <2>4 DEF TypeOK
  <2> QED BY <2>1, <2>5, <2>6, <2>7 DEF Acked
<1>4. ASSUME NEW r \in requests, Commit(r)
      PROVE  Goal
  <2>1. Written => Written'
    BY <1>4, CommitAppends DEF Commit
  <2>2. CASE Awaited(r) /\ r.call = d
    <3>1. Written'
      BY <1>4, <2>2, CommitAppends DEF Commit, Awaited
    <3>2. outcome' = outcome /\ pc' = pc
      BY <1>4 DEF Commit
    <3> QED BY <3>1, <3>2 DEF Acked
  <2>3. CASE ~(Awaited(r) /\ r.call = d)
    <3>1. answer'[d] = answer[d]
      BY <1>4, <2>3 DEF Commit, Answered, TypeOK
    <3> QED BY <1>4, <2>1, <3>1 DEF Acked, Commit
  <2> QED BY <2>2, <2>3
<1>5. ASSUME NEW r \in requests, Reject(r)
      PROVE  Goal
  <2>1. answer'[d] = "ok" => answer[d] = "ok"
    BY <1>5 DEF Reject, Answered, TypeOK
  <2> QED BY <1>5, <2>1 DEF Acked, Reject
<1>6. ASSUME NEW p \in Procs, Crash(p)
      PROVE  Goal
  BY <1>6 DEF TypeOK, Acked, Crash, storeVars
<1>7. ASSUME NEW l \in Loads, Load(l) \/ ReadPage(l) \/ ReadFails(l)
      PROVE  Goal
  BY <1>7 DEF Acked, Load, ReadPage, ReadFails, storeVars, callVars
<1>8. CASE UNCHANGED vars
  BY <1>8 DEF Acked, vars, storeVars, callVars
<1> QED
  BY <1>1, <1>2, <1>3, <1>4, <1>5, <1>6, <1>7, <1>8 DEF Next, Proceed, Serve, Read

\* The inductive invariant, all of it.
ConcurrencyInv == LatestIsTip /\ Stamped /\ CarriesGuard /\ Acked /\ GuardHonoured

LEMMA ConcurrencyInvariant == Spec => []ConcurrencyInv
<1>1. Init => ConcurrencyInv
  BY DEF Init, ConcurrencyInv, LatestIsTip, Stamped, CarriesGuard, Acked, GuardHonoured
<1>2. TypeOK /\ ConcurrencyInv /\ [Next]_vars => ConcurrencyInv'
  BY LatestIsTipStep, StampedStep, CarriesGuardStep, AckedStep, GuardHonouredStep
  DEF ConcurrencyInv
<1> QED BY <1>1, <1>2, TypeCorrect, PTL DEF Spec

\* Two change sets that expect the same revision are one: both follow the same
\* change set, or both are the first.
LEMMA SameGuardSameEntry ==
  ASSUME TypeOK, Stamped, GuardHonoured,
         NEW i \in DOMAIN log, NEW j \in DOMAIN log,
         Guarded(i), log[i].expected = log[j].expected
  PROVE  i = j
<1>1. RevBefore(i) = RevBefore(j)
  BY DEF GuardHonoured, Guarded
<1>2. i \in Nat \ {0} /\ j \in Nat \ {0} /\ DOMAIN log = 1..Len(log) /\ Len(log) \in Nat
  BY DEF TypeOK
<1>3. \A k \in DOMAIN log : log[k].rev # Initial
  <2>1. \A k \in DOMAIN log : log[k] \in ChangeSets
    BY DEF TypeOK
  <2> QED BY <2>1, UlidAssumption DEF ChangeSets, Initial
<1>4. ASSUME NEW m \in DOMAIN log, NEW n \in DOMAIN log, log[m].rev = log[n].rev
      PROVE  m = n
  <2>1. log[m].rev \in log[m].ids /\ log[m].rev \in log[n].ids
    BY <1>4 DEF Stamped
  <2> QED BY <2>1 DEF Stamped
<1>5. CASE i = 1 /\ j # 1
  <2>1. j - 1 \in DOMAIN log
    BY <1>2, <1>5
  <2> QED BY <1>1, <1>3, <1>5, <2>1 DEF RevBefore
<1>6. CASE i # 1 /\ j = 1
  <2>1. i - 1 \in DOMAIN log
    BY <1>2, <1>6
  <2> QED BY <1>1, <1>3, <1>6, <2>1 DEF RevBefore
<1>7. CASE i # 1 /\ j # 1
  <2>1. i - 1 \in DOMAIN log /\ j - 1 \in DOMAIN log
    BY <1>2, <1>7
  <2>2. log[i - 1].rev = log[j - 1].rev
    BY <1>1, <1>7 DEF RevBefore
  <2>3. i - 1 = j - 1
    BY <1>4, <2>1, <2>2
  <2> QED BY <1>2, <2>3
<1> QED BY <1>5, <1>6, <1>7

\* A guarded change set follows the revision its publisher expected, whatever is
\* retried, lost, delayed or written by others.
THEOREM OptimisticConcurrency == Spec => []GuardHonoured
BY ConcurrencyInvariant, PTL DEF ConcurrencyInv

\* The retries of a guarded publish write its events at most once.
THEOREM RetriesWriteOnce == Spec => []GuardedOnce
<1>1. TypeOK /\ ConcurrencyInv => GuardedOnce
  <2> SUFFICES ASSUME TypeOK, ConcurrencyInv, NEW i \in DOMAIN log, NEW j \in DOMAIN log,
                      Guarded(i), log[i].call = log[j].call
               PROVE  i = j
    BY DEF GuardedOnce
  <2>1. log[i].expected = log[j].expected
    BY DEF ConcurrencyInv, CarriesGuard
  <2> QED BY <2>1, SameGuardSameEntry DEF ConcurrencyInv
<1> QED BY <1>1, TypeCorrect, ConcurrencyInvariant, PTL

\* publish returns the revision of a change set of its own, in the log for good.
THEOREM SuccessIsDurable == Spec => []OkIsDurable
<1>1. TypeOK /\ ConcurrencyInv => OkIsDurable
  <2> SUFFICES ASSUME ConcurrencyInv, NEW c \in Calls, outcome[c] = "ok"
               PROVE  \E i \in DOMAIN log : /\ log[i].call = c
                                            /\ log[i].rev = sent[c]
                                            /\ log[i].expected = expected[c]
    BY DEF OkIsDurable
  <2>1. PICK i \in DOMAIN log : log[i].call = c /\ log[i].rev = sent[c]
    BY DEF ConcurrencyInv, Acked
  <2>2. log[i].expected = expected[c]
    BY <2>1 DEF ConcurrencyInv, CarriesGuard
  <2> QED BY <2>1, <2>2
<1> QED BY <1>1, TypeCorrect, ConcurrencyInvariant, PTL

\* Of two publishes that expect the same revision at most one succeeds.
THEOREM NoUpdateIsLost == Spec => []NoLostUpdate
<1>1. TypeOK /\ ConcurrencyInv /\ OkIsDurable => NoLostUpdate
  <2> SUFFICES ASSUME TypeOK, ConcurrencyInv, OkIsDurable, NEW c \in Calls, NEW d \in Calls,
                      expected[c] = expected[d], expected[c] # AnyRevision,
                      outcome[c] = "ok", outcome[d] = "ok"
               PROVE  c = d
    BY DEF NoLostUpdate
  <2>1. PICK i \in DOMAIN log : log[i].call = c /\ log[i].expected = expected[c]
    BY DEF OkIsDurable
  <2>2. PICK j \in DOMAIN log : log[j].call = d /\ log[j].expected = expected[d]
    BY DEF OkIsDurable
  <2>3. i = j
    BY <2>1, <2>2, SameGuardSameEntry DEF ConcurrencyInv, Guarded
  <2> QED BY <2>1, <2>2, <2>3
<1> QED BY <1>1, TypeCorrect, ConcurrencyInvariant, SuccessIsDurable, PTL

-----------------------------------------------------------------------------
(***************************************************************************)
(* Order. With clocks that agree, the ULIDs of a guarded publish are above *)
(* the revision it expected, so that the condition "latest = expected"     *)
(* orders the log as "latest < revision" does for an unguarded one.        *)
(***************************************************************************)

\* A revision a caller expects is one that has been committed.
ExpectsCommitted ==
  \A c \in Calls : expected[c] \in {AnyRevision, Initial, Unknown} \cup CommittedIds

\* A request is above what it expects.
SentAfterExpected == \A r \in requests : r.expected < r.rev

OrderInv == ExpectsCommitted /\ SentAfterExpected /\ Ascending

\* A commit is under a greater revision than the latest.
LEMMA CommitAscends ==
  ASSUME TypeOK, OrderInv, NEW r \in requests, Commit(r)
  PROVE  r.rev \in Nat \ {0} /\ latest \in Nat /\ latest < r.rev
<1>1. r.rev \in Nat \ {0} /\ latest \in Nat
  <2>1. r.rev \in Ulid
    BY CommitAppends DEF ChangeSets
  <2>2. latest \in {Initial} \cup Ulid
    BY DEF TypeOK
  <2>3. \A u \in Ulid : u \in Nat \ {0}
    BY UlidAssumption
  <2> QED BY <2>1, <2>2, <2>3 DEF Initial
<1>2. latest < r.rev
  BY <1>1 DEF Commit, LatestCondition, OrderInv, SentAfterExpected, Initial, AnyRevision
<1> QED BY <1>1, <1>2

LEMMA OrderStep ==
  ASSUME ClockSync
  PROVE  TypeOK /\ LatestIsTip /\ OrderInv /\ [Next]_vars => OrderInv'
<1> SUFFICES ASSUME TypeOK, LatestIsTip, OrderInv, [Next]_vars
             PROVE  OrderInv'
  OBVIOUS
<1>1. ASSUME NEW r \in requests, Commit(r)
      PROVE  OrderInv'
  <2> PICK n \in Nat : n = Len(log)
    BY <1>1, CommitAppends
  <2>1. expected' = expected /\ requests' \subseteq requests
    BY <1>1 DEF Commit
  <2>2. r.rev \in Nat \ {0} /\ latest \in Nat /\ latest < r.rev
    BY <1>1, CommitAscends
  <2>4. \A i \in 1..n : log[i].rev \in Nat /\ log[i].rev <= latest
    <3>1. \A i \in DOMAIN log : log[i] \in ChangeSets
      BY DEF TypeOK
    <3>2. \A i \in 1..n : log[i].rev \in Nat
      BY <3>1, UlidAssumption, <1>1, CommitAppends DEF ChangeSets
    <3>3. n # 0 => latest = log[n].rev
      BY DEF LatestIsTip, TypeOK
    <3> QED BY <1>1, <3>2, <3>3, CommitAppends DEF OrderInv, Ascending
  <2>5. Ascending'
    <3> SUFFICES ASSUME NEW i \in 1..(n + 1), NEW j \in 1..(n + 1), i < j
                 PROVE  log'[i].rev < log'[j].rev
      BY <1>1, CommitAppends DEF Ascending
    <3>1. CASE j \in 1..n
      BY <1>1, <3>1, CommitAppends DEF OrderInv, Ascending
    <3>2. CASE j = n + 1
      BY <1>1, <3>2, <2>2, <2>4, CommitAppends
    <3> QED BY <3>1, <3>2
  <2> QED BY <1>1, <2>1, <2>5, CommitAppends
          DEF OrderInv, ExpectsCommitted, SentAfterExpected
<1>2. ASSUME NEW c \in Calls, Attempt(c)
      PROVE  OrderInv'
  <2>1. PICK ids \in Batches(ProcOf[c]) : \E rev \in ids :
          requests' = requests \cup {[call |-> c, ids |-> ids, rev |-> rev,
                                      expected |-> expected[c]]}
    BY <1>2 DEF Attempt
  <2>2. PICK rev \in ids :
          requests' = requests \cup {[call |-> c, ids |-> ids, rev |-> rev,
                                      expected |-> expected[c]]}
    BY <2>1
  <2>3. rev \in Nat \ {0} /\ \A v \in CommittedIds : v < rev
    BY BatchIsFresh, ProcAssumption, UlidAssumption DEF Fresh
  <2>4. expected[c] < rev
    BY <2>3 DEF OrderInv, ExpectsCommitted, AnyRevision, Initial, Unknown
  <2>5. UNCHANGED <<log, expected, CommittedIds>>
    BY <1>2 DEF Attempt, CommittedIds
  <2> QED BY <2>2, <2>4, <2>5 DEF OrderInv, ExpectsCommitted, SentAfterExpected, Ascending
<1>3. ASSUME NEW c \in Calls, Publish(c)
      PROVE  OrderInv'
  <2>1. UNCHANGED <<log, requests, CommittedIds>>
    BY <1>3 DEF Publish, storeVars, CommittedIds
  <2>2. PICK e \in {AnyRevision, Initial, Unknown} \cup CommittedIds :
          expected' = [expected EXCEPT ![c] = e]
    BY <1>3 DEF Publish
  <2> QED BY <2>1, <2>2 DEF OrderInv, ExpectsCommitted, SentAfterExpected, Ascending, TypeOK
<1>4. CASE requests' \subseteq requests /\ UNCHANGED <<log, expected>>
  BY <1>4 DEF OrderInv, ExpectsCommitted, SentAfterExpected, Ascending, CommittedIds
<1>5. ASSUME NEW c \in Calls, Invalid(c) \/ Succeed(c) \/ Conflict(c) \/ Fail(c)
      PROVE  requests' \subseteq requests /\ UNCHANGED <<log, expected>>
  BY <1>5 DEF Invalid, Succeed, Conflict, Fail, storeVars
<1>6. ASSUME NEW r \in requests, Reject(r)
      PROVE  requests' \subseteq requests /\ UNCHANGED <<log, expected>>
  BY <1>6 DEF Reject
<1>7. ASSUME NEW p \in Procs, Crash(p)
      PROVE  requests' \subseteq requests /\ UNCHANGED <<log, expected>>
  BY <1>7 DEF Crash, storeVars
<1>8. ASSUME NEW l \in Loads, Load(l) \/ ReadPage(l) \/ ReadFails(l)
      PROVE  requests' \subseteq requests /\ UNCHANGED <<log, expected>>
  BY <1>8 DEF Load, ReadPage, ReadFails, storeVars, callVars
<1>9. UNCHANGED vars => requests' \subseteq requests /\ UNCHANGED <<log, expected>>
  BY DEF vars, storeVars, callVars
<1> QED
  BY <1>1, <1>2, <1>3, <1>4, <1>5, <1>6, <1>7, <1>8, <1>9 DEF Next, Proceed, Serve, Read

LEMMA OrderInvariant == ASSUME ClockSync PROVE Spec => []OrderInv
<1>1. Init => OrderInv
  BY DEF Init, OrderInv, ExpectsCommitted, SentAfterExpected, Ascending
<1>2. TypeOK /\ LatestIsTip /\ OrderInv /\ [Next]_vars => OrderInv'
  BY OrderStep
<1> QED BY <1>1, <1>2, TypeCorrect, ConcurrencyInvariant, PTL DEF Spec, ConcurrencyInv

\* When clocks agree, revisions grow along the log: sorting change sets by
\* revision, as a load does, gives them back in the order of their commits.
THEOREM RevisionsAscend == ASSUME ClockSync PROVE Spec => []Ascending
BY OrderInvariant, PTL DEF OrderInv

-----------------------------------------------------------------------------
(***************************************************************************)
(* Loads. While it reads, a load holds exactly what is up to its cursor:   *)
(* a replica that lags can only be short of what is beyond, never hold a   *)
(* change set without the ones before it.                                  *)
(***************************************************************************)
LoadInv ==
  \A l \in Loads :
    /\ lpc[l] = "idle" => loaded[l] = {} /\ cursor[l] = Initial
    /\ lpc[l] = "reading" =>
         /\ cursor[l] \in {Initial} \cup Replica(Len(log))
         /\ loaded[l] = {rev \in Replica(Len(log)) : rev <= cursor[l]}
    /\ lpc[l] = "done" => \E k \in 0..Len(log) : loaded[l] = Replica(k)

\* Revisions of the log are natural numbers above Initial.
LEMMA ReplicaRevisions ==
  ASSUME TypeOK
  PROVE  /\ Len(log) \in Nat /\ DOMAIN log = 1..Len(log)
         /\ \A i \in 1..Len(log) : log[i].rev \in Nat \ {0}
<1>1. Len(log) \in Nat /\ DOMAIN log = 1..Len(log) /\ \A i \in 1..Len(log) : log[i] \in ChangeSets
  BY DEF TypeOK
<1>2. \A i \in 1..Len(log) : log[i].rev \in Ulid
  BY <1>1 DEF ChangeSets
<1> QED BY <1>1, <1>2, UlidAssumption

\* A page from a replica leaves the load with all there is up to its cursor, or
\* up to some commit when the page is the last.
LEMMA PageExtends ==
  ASSUME TypeOK, Ascending, NEW k \in 0..Len(log),
         NEW at \in {Initial} \cup Replica(Len(log))
  PROVE  LET held == {rev \in Replica(Len(log)) : rev <= at}
             rest == {rev \in Replica(k) : rev > at}
         IN  /\ \E m \in 0..Len(log) : held \cup rest = Replica(m)
             /\ \A end \in rest :
                  held \cup {rev \in rest : rev <= end}
                    = {rev \in Replica(Len(log)) : rev <= end}
<1> DEFINE n == Len(log)
           held == {rev \in Replica(n) : rev <= at}
           rest == {rev \in Replica(k) : rev > at}
<1>1. n \in Nat /\ k \in 0..n /\ \A i \in 1..n : log[i].rev \in Nat \ {0}
  BY ReplicaRevisions
<1>2. \A i, j \in 1..n : i < j => log[i].rev < log[j].rev
  BY ReplicaRevisions DEF Ascending
<1>3. at \in Nat
  BY <1>1 DEF Replica, Initial
<1> HIDE DEF n
<1>4. ASSUME NEW end \in rest
      PROVE  held \cup {rev \in rest : rev <= end} = {rev \in Replica(n) : rev <= end}
  <2>1. PICK e \in 1..k : end = log[e].rev
    BY DEF Replica
  <2>2. \A i \in 1..n : log[i].rev <= end => i \in 1..k
    BY <1>1, <1>2, <2>1
  <2>3. end > at
    OBVIOUS
  <2>4. \A i \in 1..n : log[i].rev <= end <=>
          log[i].rev <= at \/ (i \in 1..k /\ log[i].rev > at /\ log[i].rev <= end)
    BY <1>1, <1>3, <2>1, <2>2, <2>3
  <2> QED BY <1>1, <2>4 DEF Replica
<1>5. \E m \in 0..n : held \cup rest = Replica(m)
  <2>1. CASE \E i \in 1..k : log[i].rev > at
    <3>1. PICK e \in 1..k : log[e].rev > at
      BY <2>1
    <3>2. \A i \in 1..n : log[i].rev <= at => i \in 1..k
      BY <1>1, <1>2, <1>3, <3>1
    <3>3. held \cup rest = Replica(k)
      BY <1>1, <1>3, <3>2 DEF Replica
    <3> QED BY <1>1, <3>3
  <2>2. CASE ~\E i \in 1..k : log[i].rev > at
    <3>1. rest = {}
      BY <2>2 DEF Replica
    <3>2. CASE at = Initial
      <4>1. held = {}
        BY <1>1, <3>2 DEF Replica, Initial
      <4>2. Replica(0) = {}
        BY DEF Replica
      <4> QED BY <1>1, <3>1, <4>1, <4>2
    <3>3. CASE at # Initial
      <4>1. PICK e \in 1..n : at = log[e].rev
        BY <3>3 DEF Replica, n
      <4>2. \A i \in 1..n : log[i].rev <= at <=> i \in 1..e
        BY <1>1, <1>2, <4>1
      <4>3. held = Replica(e)
        BY <1>1, <4>1, <4>2 DEF Replica
      <4> QED BY <1>1, <3>1, <4>1, <4>3
    <3> QED BY <3>2, <3>3
  <2> QED BY <2>1, <2>2
<1> QED BY <1>4, <1>5 DEF n

LEMMA LoadStep ==
  ASSUME TypeOK, Ascending, Ascending', LoadInv, [Next]_vars, NEW l \in Loads
  PROVE  /\ lpc'[l] = "idle" => loaded'[l] = {} /\ cursor'[l] = Initial
         /\ lpc'[l] = "reading" =>
              /\ cursor'[l] \in {Initial} \cup Replica(Len(log))'
              /\ loaded'[l] = {rev \in Replica(Len(log))' : rev <= cursor'[l]}
         /\ lpc'[l] = "done" => \E k \in 0..Len(log') : loaded'[l] = Replica(k)'
<1> DEFINE Goal ==
      /\ lpc'[l] = "idle" => loaded'[l] = {} /\ cursor'[l] = Initial
      /\ lpc'[l] = "reading" =>
           /\ cursor'[l] \in {Initial} \cup Replica(Len(log))'
           /\ loaded'[l] = {rev \in Replica(Len(log))' : rev <= cursor'[l]}
      /\ lpc'[l] = "done" => \E k \in 0..Len(log') : loaded'[l] = Replica(k)'
<1>1. CASE UNCHANGED <<log, loadVars>>
  <2>1. \A k : Replica(k)' = Replica(k)
    BY <1>1 DEF Replica
  <2>2. lpc' = lpc /\ cursor' = cursor /\ loaded' = loaded /\ Len(log') = Len(log)
    BY <1>1 DEF loadVars
  <2>3. Replica(Len(log))' = Replica(Len(log))
    BY <1>1, <2>1 DEF Replica
  <2> QED BY <2>1, <2>2, <2>3 DEF LoadInv
<1>2. ASSUME NEW r \in requests, Commit(r)
      PROVE  Goal
  <2> PICK n \in Nat : n = Len(log)
    BY ReplicaRevisions
  <2>1. UNCHANGED loadVars
    BY <1>2 DEF Commit
  <2>2. r.rev \in Nat \ {0}
    <3>1. r.rev \in Ulid
      BY <1>2, CommitAppends DEF ChangeSets
    <3> QED BY <3>1, UlidAssumption
  <2>3. \A k \in 0..n : Replica(k)' = Replica(k)
    BY <1>2, CommitAppends DEF Replica
  <2>4. \A i \in 1..n : log[i].rev < r.rev
    BY <1>2, CommitAppends DEF Ascending
  <2>5. Replica(Len(log))' = Replica(n) \cup {r.rev}
    BY <1>2, CommitAppends DEF Replica
  <2>6. ASSUME lpc[l] = "reading"
        PROVE  cursor[l] < r.rev
    BY <2>2, <2>4, <2>6 DEF LoadInv, Replica, Initial
  <2>7. \A i \in 1..n : log[i].rev \in Nat
    BY ReplicaRevisions
  <2>8. cursor[l] \in Nat
    <3>1. cursor[l] \in {Initial} \cup Ulid
      BY DEF TypeOK
    <3>2. \A u \in Ulid : u \in Nat
      BY UlidAssumption
    <3> QED BY <3>1, <3>2 DEF Initial
  <2>9. ASSUME lpc[l] = "reading"
        PROVE  {rev \in Replica(n) \cup {r.rev} : rev <= cursor[l]}
                 = {rev \in Replica(n) : rev <= cursor[l]}
    BY <2>2, <2>6, <2>8, <2>9
  <2>10. Len(log') = n + 1
    BY <1>2, CommitAppends
  <2> QED BY <2>1, <2>3, <2>5, <2>9, <2>10 DEF LoadInv, loadVars
<1>3. ASSUME NEW m \in Loads, Load(m)
      PROVE  Goal
  <2>1. log' = log
    BY <1>3 DEF Load, storeVars
  <2>2. Replica(Len(log))' = Replica(Len(log)) /\ \A k \in 0..Len(log) : Replica(k)' = Replica(k)
    BY <2>1 DEF Replica
  <2>3. CASE m = l
    <3>1. {rev \in Replica(Len(log)) : rev <= Initial} = {}
      BY ReplicaRevisions DEF Replica, Initial
    <3>2. lpc'[l] = "reading" /\ cursor'[l] = Initial /\ loaded'[l] = {}
      BY <1>3, <2>3 DEF Load, LoadInv, TypeOK
    <3> QED BY <2>2, <3>1, <3>2
  <2>4. CASE m # l
    <3>1. lpc'[l] = lpc[l] /\ cursor' = cursor /\ loaded' = loaded
      BY <1>3, <2>4 DEF Load, TypeOK
    <3> QED BY <2>1, <2>2, <3>1 DEF LoadInv
  <2> QED BY <2>3, <2>4
<1>4. ASSUME NEW m \in Loads, ReadPage(m)
      PROVE  Goal
  <2>1. log' = log
    BY <1>4 DEF ReadPage, storeVars
  <2>2. Replica(Len(log))' = Replica(Len(log)) /\ \A k \in 0..Len(log) : Replica(k)' = Replica(k)
    BY <2>1 DEF Replica
  <2>3. CASE m = l
    <3> DEFINE rest(k) == {rev \in Replica(k) : rev > cursor[l]}
    <3>1. PICK k \in 0..Len(log) :
            \/ /\ loaded' = [loaded EXCEPT ![l] = @ \cup rest(k)]
               /\ lpc' = [lpc EXCEPT ![l] = "done"]
               /\ UNCHANGED cursor
            \/ \E end \in rest(k) :
                 /\ loaded' = [loaded EXCEPT ![l] = @ \cup {rev \in rest(k) : rev <= end}]
                 /\ cursor' = [cursor EXCEPT ![l] = end]
                 /\ UNCHANGED lpc
      BY <1>4, <2>3 DEF ReadPage
    <3>2. /\ lpc[l] = "reading"
          /\ cursor[l] \in {Initial} \cup Replica(Len(log))
          /\ loaded[l] = {rev \in Replica(Len(log)) : rev <= cursor[l]}
      BY <1>4, <2>3 DEF ReadPage, LoadInv
    <3>3. /\ \E j \in 0..Len(log) : loaded[l] \cup rest(k) = Replica(j)
          /\ \A end \in rest(k) :
               loaded[l] \cup {rev \in rest(k) : rev <= end}
                 = {rev \in Replica(Len(log)) : rev <= end}
      <4> DEFINE held == {rev \in Replica(Len(log)) : rev <= cursor[l]}
      <4>1. /\ \E j \in 0..Len(log) : held \cup rest(k) = Replica(j)
            /\ \A end \in rest(k) :
                 held \cup {rev \in rest(k) : rev <= end}
                   = {rev \in Replica(Len(log)) : rev <= end}
        BY <3>2, PageExtends
      <4>2. loaded[l] = held
        BY <3>2
      <4> HIDE DEF held, rest
      <4> QED BY <4>1, <4>2
    <3>4. CASE /\ loaded' = [loaded EXCEPT ![l] = @ \cup rest(k)]
               /\ lpc' = [lpc EXCEPT ![l] = "done"]
      <4>1. lpc'[l] = "done" /\ loaded'[l] = loaded[l] \cup rest(k)
        BY <3>4 DEF TypeOK
      <4> QED BY <2>1, <2>2, <3>3, <4>1
    <3>5. ASSUME NEW end \in rest(k),
                 loaded' = [loaded EXCEPT ![l] = @ \cup {rev \in rest(k) : rev <= end}],
                 cursor' = [cursor EXCEPT ![l] = end],
                 UNCHANGED lpc
          PROVE  Goal
      <4>1. /\ lpc'[l] = "reading" /\ cursor'[l] = end
            /\ loaded'[l] = loaded[l] \cup {rev \in rest(k) : rev <= end}
        BY <3>2, <3>5 DEF TypeOK
      <4>2. end \in Replica(Len(log))
        BY ReplicaRevisions DEF Replica
      <4> QED BY <2>2, <3>3, <4>1, <4>2
    <3> QED BY <3>1, <3>4, <3>5
  <2>4. CASE m # l
    <3>1. /\ lpc'[l] = lpc[l] /\ cursor'[l] = cursor[l] /\ loaded'[l] = loaded[l]
      BY <1>4, <2>4 DEF ReadPage, TypeOK
    <3> QED BY <2>1, <2>2, <3>1 DEF LoadInv
  <2> QED BY <2>3, <2>4
<1>5. ASSUME NEW m \in Loads, ReadFails(m)
      PROVE  Goal
  <2>1. UNCHANGED <<log, cursor, loaded>> /\ lpc'[l] \in {lpc[l], "failed"}
    BY <1>5 DEF ReadFails, TypeOK, storeVars
  <2>2. Replica(Len(log))' = Replica(Len(log)) /\ \A k \in 0..Len(log) : Replica(k)' = Replica(k)
    BY <2>1 DEF Replica
  <2> QED BY <2>1, <2>2 DEF LoadInv
<1>6. ASSUME NEW c \in Calls, \/ Publish(c) \/ Invalid(c) \/ Attempt(c)
                             \/ Succeed(c) \/ Conflict(c) \/ Fail(c)
      PROVE  UNCHANGED <<log, loadVars>>
  BY <1>6 DEF Publish, Invalid, Attempt, Succeed, Conflict, Fail, storeVars
<1>7. ASSUME NEW r \in requests, Reject(r)
      PROVE  UNCHANGED <<log, loadVars>>
  BY <1>7 DEF Reject
<1>8. ASSUME NEW p \in Procs, Crash(p)
      PROVE  UNCHANGED <<log, loadVars>>
  BY <1>8 DEF Crash, storeVars
<1>9. UNCHANGED vars => UNCHANGED <<log, loadVars>>
  BY DEF vars, storeVars
<1> QED
  BY <1>1, <1>2, <1>3, <1>4, <1>5, <1>6, <1>7, <1>8, <1>9 DEF Next, Proceed, Serve, Read

LEMMA LoadInvariant == ASSUME ClockSync PROVE Spec => []LoadInv
<1>1. Init => LoadInv
  BY DEF Init, LoadInv
<1>2. TypeOK /\ Ascending /\ Ascending' /\ LoadInv /\ [Next]_vars => LoadInv'
  BY LoadStep DEF LoadInv
<1> QED BY <1>1, <1>2, TypeCorrect, RevisionsAscend, PTL DEF Spec

\* When clocks agree, a load returns a prefix of the log, although each of its
\* pages may come from a replica that lags behind the others.
THEOREM LoadsHaveNoGaps == ASSUME ClockSync PROVE Spec => []LoadsPrefix
<1>1. LoadInv => LoadsPrefix
  BY DEF LoadInv, LoadsPrefix
<1> QED BY <1>1, LoadInvariant, PTL

-----------------------------------------------------------------------------
(***************************************************************************)
(* A publish that was not retried. All that it ever sent is one request,   *)
(* which is under way, or in the log, or neither: with the ULIDs of change *)
(* sets kept apart (Stamped), it is enough that every trace of the call    *)
(* carries the revision it last sent.                                      *)
(***************************************************************************)
Traceless(c) == /\ \A r \in requests : r.call # c
                /\ \A i \in DOMAIN log : log[i].call # c

Unretried(c) ==
  /\ \A r \in requests : r.call = c => r.rev = sent[c] /\ pc[c] \in {"waiting", "done"}
  /\ \A i \in DOMAIN log : log[i].call = c => log[i].rev = sent[c] /\ pc[c] \in {"waiting", "done"}
  /\ outcome[c] = "conflict" => pc[c] = "done" /\ Traceless(c)
  /\ pc[c] = "waiting" /\ answer[c] = "rejected" => Traceless(c)

UnretriedInv == \A c \in Calls : retries[c] = 0 => Unretried(c)

\* The calls of requests and of change sets are calls.
LEMMA CallsOfStore ==
  ASSUME TypeOK
  PROVE  /\ \A r \in requests : r.call \in Calls
         /\ \A i \in DOMAIN log : log[i].call \in Calls
<1>1. \A r \in requests : r \in ChangeSets
  BY DEF TypeOK
<1>2. \A i \in DOMAIN log : log[i] \in ChangeSets
  BY DEF TypeOK
<1> QED BY <1>1, <1>2 DEF ChangeSets

\* A call that a step leaves alone stays as it was, if the step adds no request
\* of its and no change set.
LEMMA UnretriedAside ==
  ASSUME NEW d \in Calls, Unretried(d),
         pc'[d] = pc[d], outcome'[d] = outcome[d],
         sent'[d] = sent[d], answer'[d] = answer[d],
         \A r \in requests' : r.call = d => r \in requests,
         \A i \in DOMAIN log' : log'[i].call = d => i \in DOMAIN log /\ log'[i] = log[i]
  PROVE  Unretried(d)'
BY DEF Unretried, Traceless

\* A step that does not touch the log may move on a call that is told of no
\* conflict, or has left no trace.
LEMMA UnretriedMoves ==
  ASSUME NEW c \in Calls, Unretried(c), UNCHANGED <<log, sent>>, requests' \subseteq requests,
         pc'[c] # "waiting",
         pc'[c] = "done" \/ Traceless(c),
         outcome'[c] = "conflict" => pc'[c] = "done" /\ Traceless(c)
  PROVE  Unretried(c)'
BY DEF Unretried, Traceless

LEMMA UnretriedStep == TypeOK /\ Stamped /\ UnretriedInv /\ [Next]_vars => UnretriedInv'
<1> SUFFICES ASSUME TypeOK, Stamped, UnretriedInv, [Next]_vars, NEW d \in Calls, retries'[d] = 0
             PROVE  Unretried(d)'
  BY DEF UnretriedInv
<1>1. ASSUME NEW c \in Calls, Publish(c) \/ Invalid(c)
      PROVE  Unretried(d)'
  <2>1. /\ UNCHANGED <<log, requests, sent, answer, retries>> /\ pc[c] = "idle"
        /\ pc' \in {[pc EXCEPT ![c] = "encode"], [pc EXCEPT ![c] = "done"]}
        /\ outcome' \in {outcome, [outcome EXCEPT ![c] = "failed"]}
    BY <1>1 DEF Publish, Invalid, storeVars
  <2>2. Unretried(d)
    BY <2>1 DEF UnretriedInv
  <2>3. CASE d # c
    BY <2>1, <2>2, <2>3, UnretriedAside DEF TypeOK
  <2>4. CASE d = c
    <3>1. Traceless(c) /\ outcome[c] # "conflict"
      BY <2>1, <2>2, <2>4 DEF Unretried, Traceless
    <3> QED BY <2>1, <2>2, <2>4, <3>1, UnretriedMoves DEF TypeOK
  <2> QED BY <2>3, <2>4
<1>2. ASSUME NEW c \in Calls, Attempt(c)
      PROVE  Unretried(d)'
  <2>1. PICK ids \in Batches(ProcOf[c]) : \E rev \in ids :
          /\ requests' = requests \cup {[call |-> c, ids |-> ids, rev |-> rev,
                                         expected |-> expected[c]]}
          /\ sent' = [sent EXCEPT ![c] = rev]
    BY <1>2 DEF Attempt
  <2>2. PICK rev \in ids :
          /\ requests' = requests \cup {[call |-> c, ids |-> ids, rev |-> rev,
                                         expected |-> expected[c]]}
          /\ sent' = [sent EXCEPT ![c] = rev]
    BY <2>1
  <2> PICK q : q = [call |-> c, ids |-> ids, rev |-> rev, expected |-> expected[c]]
    OBVIOUS
  <2>3. /\ UNCHANGED <<log, retries, outcome>> /\ pc[c] = "encode"
        /\ pc' = [pc EXCEPT ![c] = "waiting"]
        /\ answer' = [answer EXCEPT ![c] = "none"]
    BY <1>2 DEF Attempt
  <2>4. Unretried(d)
    BY <2>3 DEF UnretriedInv
  <2>5. q.call = c /\ q.rev = rev /\ requests' = requests \cup {q}
    BY <2>2
  <2>6. CASE d # c
    BY <2>2, <2>3, <2>4, <2>5, <2>6, UnretriedAside DEF TypeOK
  <2>7. CASE d = c
    <3>1. Traceless(c) /\ outcome[c] # "conflict"
      BY <2>3, <2>4, <2>7 DEF Unretried, Traceless
    <3>2. pc'[c] = "waiting" /\ answer'[c] = "none" /\ sent'[c] = rev /\ outcome'[c] = outcome[c]
      BY <2>2, <2>3 DEF TypeOK
    <3>3. \A r \in requests' : r.call = c => r.rev = rev
      BY <2>5, <3>1 DEF Traceless
    <3> QED BY <2>3, <2>7, <3>1, <3>2, <3>3 DEF Unretried, Traceless
  <2> QED BY <2>6, <2>7
<1>3. ASSUME NEW c \in Calls, Succeed(c)
      PROVE  Unretried(d)'
  <2>1. /\ UNCHANGED <<log, requests, sent, answer, retries>>
        /\ pc' = [pc EXCEPT ![c] = "done"] /\ outcome' = [outcome EXCEPT ![c] = "ok"]
    BY <1>3 DEF Succeed, storeVars
  <2>2. Unretried(d)
    BY <2>1 DEF UnretriedInv
  <2>3. CASE d # c
    BY <2>1, <2>2, <2>3, UnretriedAside DEF TypeOK
  <2>4. CASE d = c
    BY <2>1, <2>2, <2>4, UnretriedMoves DEF TypeOK
  <2> QED BY <2>3, <2>4
<1>4. ASSUME NEW c \in Calls, Conflict(c) \/ Fail(c)
      PROVE  Unretried(d)'
  <2>1. /\ UNCHANGED <<log, sent, answer>> /\ requests' \subseteq requests
        /\ pc[c] = "waiting"
    BY <1>4 DEF Conflict, Fail, storeVars
  <2>2. PICK handled \in BOOLEAN, error \in {"conflict", "failed"} :
          /\ RetryOrGiveUp(c, handled, error)
          /\ error = "conflict" => answer[c] = "rejected"
    BY <1>4 DEF Conflict, Fail
  <2>3. \/ /\ retries' = [retries EXCEPT ![c] = @ + 1]
           /\ pc' = [pc EXCEPT ![c] = "encode"]
           /\ UNCHANGED outcome
        \/ /\ pc' = [pc EXCEPT ![c] = "done"]
           /\ outcome' = [outcome EXCEPT ![c] = error]
           /\ UNCHANGED retries
    BY <2>2 DEF RetryOrGiveUp
  <2>4. retries[d] = 0 /\ (d = c => UNCHANGED retries)
    BY <2>3, BoundAssumption DEF TypeOK
  <2>5. Unretried(d)
    BY <2>4 DEF UnretriedInv
  <2>6. CASE d # c
    BY <2>1, <2>3, <2>5, <2>6, UnretriedAside DEF TypeOK
  <2>7. CASE d = c
    <3>1. pc'[c] = "done" /\ outcome'[c] = error
      BY <2>3, <2>4, <2>7, BoundAssumption DEF TypeOK
    <3>2. outcome'[c] = "conflict" => Traceless(c)
      BY <2>1, <2>2, <2>5, <2>7, <3>1 DEF Unretried
    <3> QED BY <2>1, <2>5, <2>7, <3>1, <3>2, UnretriedMoves
  <2> QED BY <2>6, <2>7
<1>5. ASSUME NEW p \in Procs, Crash(p)
      PROVE  Unretried(d)'
  <2>1. UNCHANGED <<log, requests, sent, answer, retries>>
    BY <1>5 DEF Crash, storeVars
  <2>2. \/ pc'[d] = "done" /\ outcome'[d] = "lost"
        \/ pc'[d] = pc[d] /\ outcome'[d] = outcome[d]
    <3> DEFINE dead == {c \in Calls : ProcOf[c] = p /\ pc[c] \in {"encode", "waiting"}}
    <3>1. /\ pc' = [c \in Calls |-> IF c \in dead THEN "done" ELSE pc[c]]
          /\ outcome' = [c \in Calls |-> IF c \in dead THEN "lost" ELSE outcome[c]]
      BY <1>5 DEF Crash
    <3> HIDE DEF dead
    <3> QED BY <3>1
  <2>3. Unretried(d)
    BY <2>1 DEF UnretriedInv
  <2> QED BY <2>1, <2>2, <2>3, UnretriedAside, UnretriedMoves
<1>6. ASSUME NEW r \in requests, Commit(r)
      PROVE  Unretried(d)'
  <2> PICK n \in Nat : n = Len(log)
    BY <1>6, CommitAppends
  <2>1. /\ requests' = requests \ {r} /\ UNCHANGED <<pc, outcome, sent, retries>>
        /\ Answered(r, "ok")
    BY <1>6 DEF Commit
  <2>2. /\ DOMAIN log = 1..n /\ DOMAIN log' = 1..(n + 1)
        /\ log'[n + 1] = r /\ \A i \in 1..n : log'[i] = log[i]
    BY <1>6, CommitAppends
  <2>3. Unretried(d)
    BY <2>1 DEF UnretriedInv
  <2>4. CASE d # r.call
    <3>1. answer'[d] = answer[d]
      BY <2>1, <2>4, CallsOfStore DEF Answered, TypeOK
    <3> QED BY <2>1, <2>2, <2>3, <2>4, <3>1, UnretriedAside
  <2>5. CASE d = r.call
    <3>1. r.rev = sent[d] /\ pc[d] \in {"waiting", "done"} /\ outcome[d] # "conflict"
      BY <2>3, <2>5 DEF Unretried, Traceless
    <3>2. pc[d] = "waiting" => answer'[d] = "ok"
      BY <2>1, <2>5, <3>1 DEF Answered, Awaited, TypeOK
    <3> QED BY <2>1, <2>2, <2>3, <2>5, <3>1, <3>2 DEF Unretried
  <2> QED BY <2>4, <2>5
<1>7. ASSUME NEW r \in requests, Reject(r)
      PROVE  Unretried(d)'
  <2>1. /\ requests' = requests \ {r} /\ UNCHANGED <<log, pc, outcome, sent, retries>>
        /\ Answered(r, "rejected")
    BY <1>7 DEF Reject
  <2>2. Unretried(d)
    BY <2>1 DEF UnretriedInv
  <2>3. CASE d # r.call
    <3>1. answer'[d] = answer[d]
      BY <2>1, <2>3, CallsOfStore DEF Answered, TypeOK
    <3> QED BY <2>1, <2>2, <2>3, <3>1, UnretriedAside
  <2>4. CASE d = r.call
    <3>1. \A s \in requests : s.call = d => s.rev = r.rev
      BY <2>2, <2>4 DEF Unretried
    <3>2. \A s \in requests' : s.call # d
      BY <2>1, <3>1 DEF Stamped
    <3>3. \A i \in DOMAIN log : log[i].call # d
      <4> SUFFICES ASSUME NEW i \in DOMAIN log, log[i].call = d
                   PROVE  FALSE
        OBVIOUS
      <4>1. log[i].rev = r.rev
        BY <2>2, <2>4 DEF Unretried
      <4> QED BY <4>1 DEF Stamped, CommittedIds
    <3> QED BY <2>1, <2>2, <3>2, <3>3 DEF Unretried, Traceless
  <2> QED BY <2>3, <2>4
<1>8. ASSUME NEW l \in Loads, Load(l) \/ ReadPage(l) \/ ReadFails(l)
      PROVE  Unretried(d)'
  BY <1>8, UnretriedAside DEF Load, ReadPage, ReadFails, storeVars, callVars, UnretriedInv
<1>9. CASE UNCHANGED vars
  BY <1>9, UnretriedAside DEF vars, storeVars, callVars, UnretriedInv
<1> QED
  BY <1>1, <1>2, <1>3, <1>4, <1>5, <1>6, <1>7, <1>8, <1>9 DEF Next, Proceed, Serve, Read

\* A publish that was never retried writes its events once at most, guarded or
\* not, and whatever is lost; and one told of a conflict has written none.
THEOREM SingleAttemptsWriteOnce == Spec => []OneAttemptWritesOnce
<1>1. Init => UnretriedInv
  BY DEF Init, UnretriedInv, Unretried
<1>2. TypeOK /\ ConcurrencyInv /\ UnretriedInv /\ [Next]_vars => UnretriedInv'
  BY UnretriedStep DEF ConcurrencyInv
<1>3. TypeOK /\ ConcurrencyInv /\ UnretriedInv => OneAttemptWritesOnce
  <2> SUFFICES ASSUME TypeOK, Stamped, UnretriedInv, NEW i \in DOMAIN log,
                      retries[log[i].call] = 0
               PROVE  /\ outcome[log[i].call] # "conflict"
                      /\ \A j \in DOMAIN log : log[j].call = log[i].call => i = j
    BY DEF OneAttemptWritesOnce, ConcurrencyInv
  <2>1. Unretried(log[i].call)
    BY CallsOfStore DEF UnretriedInv
  <2>2. \A j \in DOMAIN log : log[j].call = log[i].call => log[j].rev = log[i].rev
    BY <2>1 DEF Unretried
  <2> QED BY <2>1, <2>2 DEF Unretried, Traceless, Stamped
<1> QED BY <1>1, <1>2, <1>3, TypeCorrect, ConcurrencyInvariant, PTL DEF Spec

-----------------------------------------------------------------------------
(***************************************************************************)
(* What callers are told when an error means that nothing was written: a   *)
(* call has one request under way at most, the one it waits for or the one *)
(* it left behind when its process stopped, and none once it is in the log.*)
(***************************************************************************)
ToldInv ==
  /\ \A c \in Calls : outcome[c] # "none" => pc[c] = "done"
  /\ \A r \in requests : outcome[r.call] = "lost" \/ (Awaited(r) /\ answer[r.call] = "none")
  /\ \A r, s \in requests : r.call = s.call => r = s
  /\ \A r \in requests : \A i \in DOMAIN log : r.call # log[i].call
  /\ \A i, j \in DOMAIN log : log[i].call = log[j].call => i = j
  /\ \A i \in DOMAIN log :
       \/ outcome[log[i].call] \in {"ok", "lost"}
       \/ pc[log[i].call] = "waiting" /\ answer[log[i].call] = "ok"

\* A step that does not touch the store may change what a call is at, as long as
\* it has no request under way and nothing in the log, or says so.
LEMMA ToldAsides ==
  ASSUME TypeOK, ToldInv, NEW c \in Calls,
         UNCHANGED <<log, sent, answer>>,
         requests' \subseteq requests,
         \A d \in Calls \ {c} : pc'[d] = pc[d] /\ outcome'[d] = outcome[d],
         outcome'[c] # "none" => pc'[c] = "done",
         \A r \in requests' : r.call # c,
         \/ outcome'[c] = "ok"
         \/ \A i \in DOMAIN log : log[i].call # c
  PROVE  ToldInv'
<1>1. \A d \in Calls : outcome'[d] # "none" => pc'[d] = "done"
  BY DEF ToldInv
<1>2. \A r \in requests' : outcome'[r.call] = "lost" \/ (Awaited(r)' /\ answer'[r.call] = "none")
  BY CallsOfStore DEF ToldInv, Awaited
<1>3. \A i \in DOMAIN log :
        \/ outcome'[log[i].call] \in {"ok", "lost"}
        \/ pc'[log[i].call] = "waiting" /\ answer'[log[i].call] = "ok"
  BY CallsOfStore DEF ToldInv
<1> QED BY <1>1, <1>2, <1>3 DEF ToldInv

LEMMA ToldStep ==
  ASSUME Reliable
  PROVE  TypeOK /\ ToldInv /\ [Next]_vars => ToldInv'
<1> SUFFICES ASSUME TypeOK, ToldInv, [Next]_vars
             PROVE  ToldInv'
  OBVIOUS
<1>1. ASSUME NEW c \in Calls, Publish(c) \/ Invalid(c)
      PROVE  ToldInv'
  <2>1. pc[c] = "idle" /\ outcome[c] = "none"
    BY <1>1 DEF Publish, Invalid, ToldInv, TypeOK
  <2>2. /\ UNCHANGED <<log, requests, sent, answer>>
        /\ \A d \in Calls \ {c} : pc'[d] = pc[d] /\ outcome'[d] = outcome[d]
        /\ outcome'[c] # "none" => pc'[c] = "done"
    BY <1>1, <2>1 DEF Publish, Invalid, TypeOK, storeVars
  <2>3. /\ \A r \in requests : r.call # c
        /\ \A i \in DOMAIN log : log[i].call # c
    BY <2>1 DEF ToldInv, Awaited
  <2> QED BY <2>2, <2>3, ToldAsides
<1>2. ASSUME NEW c \in Calls, Attempt(c)
      PROVE  ToldInv'
  <2>1. PICK ids \in Batches(ProcOf[c]) : \E rev \in ids :
          /\ requests' = requests \cup {[call |-> c, ids |-> ids, rev |-> rev,
                                         expected |-> expected[c]]}
          /\ sent' = [sent EXCEPT ![c] = rev]
    BY <1>2 DEF Attempt
  <2>2. PICK rev \in ids :
          /\ requests' = requests \cup {[call |-> c, ids |-> ids, rev |-> rev,
                                         expected |-> expected[c]]}
          /\ sent' = [sent EXCEPT ![c] = rev]
    BY <2>1
  <2> PICK q : q = [call |-> c, ids |-> ids, rev |-> rev, expected |-> expected[c]]
    OBVIOUS
  <2>3. pc[c] = "encode" /\ outcome[c] = "none"
    BY <1>2 DEF Attempt, ToldInv, TypeOK
  <2>4. /\ \A r \in requests : r.call # c
        /\ \A i \in DOMAIN log : log[i].call # c
    BY <2>3 DEF ToldInv, Awaited
  <2>5. /\ log' = log /\ outcome' = outcome
        /\ pc' = [pc EXCEPT ![c] = "waiting"]
        /\ answer' = [answer EXCEPT ![c] = "none"]
    BY <1>2 DEF Attempt
  <2>6. q.call = c /\ q.rev = rev /\ requests' = requests \cup {q}
    BY <2>2
  <2>7. \A d \in Calls : outcome'[d] # "none" => pc'[d] = "done"
    BY <2>3, <2>5 DEF ToldInv, TypeOK
  <2>8. \A r \in requests' : outcome'[r.call] = "lost" \/ (Awaited(r)' /\ answer'[r.call] = "none")
    <3>1. Awaited(q)' /\ answer'[q.call] = "none"
      BY <2>2, <2>5, <2>6 DEF Awaited, TypeOK
    <3>2. ASSUME NEW r \in requests
          PROVE  outcome'[r.call] = "lost" \/ (Awaited(r)' /\ answer'[r.call] = "none")
      <4>1. r.call \in Calls /\ r.call # c
        BY <2>4, CallsOfStore
      <4>2. pc'[r.call] = pc[r.call] /\ sent'[r.call] = sent[r.call] /\ answer'[r.call] = answer[r.call]
        BY <2>2, <2>5, <4>1 DEF TypeOK
      <4> QED BY <2>5, <4>2 DEF ToldInv, Awaited
    <3> QED BY <2>6, <3>1, <3>2
  <2>9. \A i \in DOMAIN log :
          \/ outcome'[log[i].call] \in {"ok", "lost"}
          \/ pc'[log[i].call] = "waiting" /\ answer'[log[i].call] = "ok"
    BY <2>4, <2>5, CallsOfStore DEF ToldInv, TypeOK
  <2>10. /\ \A r, s \in requests' : r.call = s.call => r = s
         /\ \A r \in requests' : \A i \in DOMAIN log : r.call # log[i].call
    BY <2>4, <2>6 DEF ToldInv
  <2> QED BY <2>5, <2>7, <2>8, <2>9, <2>10 DEF ToldInv
<1>3. ASSUME NEW c \in Calls, Succeed(c)
      PROVE  ToldInv'
  <2>1. pc[c] = "waiting" /\ answer[c] = "ok" /\ outcome[c] = "none"
    BY <1>3 DEF Succeed, ToldInv, TypeOK
  <2>2. /\ UNCHANGED <<log, requests, sent, answer>>
        /\ \A d \in Calls \ {c} : pc'[d] = pc[d] /\ outcome'[d] = outcome[d]
        /\ outcome'[c] = "ok" /\ pc'[c] = "done"
    BY <1>3 DEF Succeed, TypeOK, storeVars
  <2>3. \A r \in requests : r.call # c
    BY <2>1 DEF ToldInv
  <2> QED BY <2>2, <2>3, ToldAsides
<1>4. ASSUME NEW c \in Calls, Conflict(c) \/ Fail(c)
      PROVE  ToldInv'
  <2>1. pc[c] = "waiting" /\ answer[c] # "ok" /\ outcome[c] = "none"
    BY <1>4 DEF Conflict, Fail, ToldInv, TypeOK
  <2>2. \A i \in DOMAIN log : log[i].call # c
    BY <2>1 DEF ToldInv
  <2>3. UNCHANGED <<log, sent, answer>> /\ requests' \subseteq requests
    BY <1>4 DEF Conflict, Fail, storeVars
  <2>4. \A r \in requests' : r.call # c
    <3>1. CASE Conflict(c)
      BY <2>1, <2>3, <3>1 DEF Conflict, ToldInv
    <3>2. CASE Fail(c)
      <4>1. requests' = {r \in requests : ~(r.call = c /\ r.rev = sent[c])}
        BY <3>2 DEF Fail
      <4> QED BY <2>1, <4>1 DEF ToldInv, Awaited
    <3> QED BY <1>4, <3>1, <3>2
  <2>5. PICK handled \in BOOLEAN, error \in {"conflict", "failed"} :
          RetryOrGiveUp(c, handled, error)
    BY <1>4 DEF Conflict, Fail
  <2>6. /\ \E phase \in {"encode", "done"} : pc' = [pc EXCEPT ![c] = phase]
        /\ \/ outcome' = outcome
           \/ pc'[c] = "done" /\ outcome' = [outcome EXCEPT ![c] = error]
    BY <2>5, RetryOrGiveUpEffect
  <2>7. /\ \A d \in Calls \ {c} : pc'[d] = pc[d] /\ outcome'[d] = outcome[d]
        /\ outcome'[c] # "none" => pc'[c] = "done"
    BY <2>1, <2>6 DEF TypeOK
  <2> QED BY <2>2, <2>3, <2>4, <2>7, ToldAsides
<1>5. ASSUME NEW p \in Procs, Crash(p)
      PROVE  ToldInv'
  <2>1. UNCHANGED <<log, requests, sent, answer>>
    BY <1>5 DEF Crash, storeVars
  <2>2. \A d \in Calls :
          \/ pc'[d] = "done" /\ outcome'[d] = "lost"
          \/ pc'[d] = pc[d] /\ outcome'[d] = outcome[d]
    <3> DEFINE dead == {d \in Calls : ProcOf[d] = p /\ pc[d] \in {"encode", "waiting"}}
    <3>1. /\ pc' = [d \in Calls |-> IF d \in dead THEN "done" ELSE pc[d]]
          /\ outcome' = [d \in Calls |-> IF d \in dead THEN "lost" ELSE outcome[d]]
      BY <1>5 DEF Crash
    <3> HIDE DEF dead
    <3> QED BY <3>1
  <2>3. \A d \in Calls : outcome'[d] # "none" => pc'[d] = "done"
    BY <2>2 DEF ToldInv
  <2>4. \A r \in requests : outcome'[r.call] = "lost" \/ (Awaited(r)' /\ answer'[r.call] = "none")
    BY <2>1, <2>2, CallsOfStore DEF ToldInv, Awaited
  <2>5. \A i \in DOMAIN log :
          \/ outcome'[log[i].call] \in {"ok", "lost"}
          \/ pc'[log[i].call] = "waiting" /\ answer'[log[i].call] = "ok"
    BY <2>1, <2>2, CallsOfStore DEF ToldInv
  <2> QED BY <2>1, <2>3, <2>4, <2>5 DEF ToldInv
<1>6. ASSUME NEW r \in requests, Commit(r)
      PROVE  ToldInv'
  <2> PICK n \in Nat : n = Len(log)
    BY <1>6, CommitAppends
  <2>1. /\ requests' = requests \ {r} /\ UNCHANGED <<pc, outcome, sent>>
        /\ Answered(r, "ok")
    BY <1>6 DEF Commit
  <2>2. r.call \in Calls /\ \A s \in requests' : s.call # r.call
    BY <2>1, CallsOfStore DEF ToldInv
  <2>3. \A d \in Calls \ {r.call} : answer'[d] = answer[d]
    BY <2>1, <2>2 DEF Answered, TypeOK
  <2>4. outcome[r.call] = "lost" \/ (pc[r.call] = "waiting" /\ answer'[r.call] = "ok")
    BY <2>1, <2>2 DEF ToldInv, Answered, Awaited, TypeOK
  <2>5. /\ DOMAIN log = 1..n /\ DOMAIN log' = 1..(n + 1)
        /\ log'[n + 1] = r /\ \A i \in 1..n : log'[i] = log[i]
    BY <1>6, CommitAppends
  <2>6. \A i \in 1..n : log[i].call # r.call /\ log[i].call \in Calls
    BY <2>5, CallsOfStore DEF ToldInv
  <2>7. \A s \in requests' : outcome'[s.call] = "lost" \/ (Awaited(s)' /\ answer'[s.call] = "none")
    BY <2>1, <2>2, <2>3, CallsOfStore DEF ToldInv, Awaited
  <2>8. \A i \in DOMAIN log' :
          \/ outcome'[log'[i].call] \in {"ok", "lost"}
          \/ pc'[log'[i].call] = "waiting" /\ answer'[log'[i].call] = "ok"
    BY <2>1, <2>3, <2>4, <2>5, <2>6 DEF ToldInv
  <2>9. \A i, j \in DOMAIN log' : log'[i].call = log'[j].call => i = j
    BY <2>5, <2>6 DEF ToldInv
  <2>10. \A s \in requests' : \A i \in DOMAIN log' : s.call # log'[i].call
    BY <2>1, <2>2, <2>5 DEF ToldInv
  <2> QED BY <2>1, <2>7, <2>8, <2>9, <2>10 DEF ToldInv
<1>7. ASSUME NEW r \in requests, Reject(r)
      PROVE  ToldInv'
  <2>1. /\ requests' = requests \ {r} /\ UNCHANGED <<log, pc, outcome, sent>>
        /\ Answered(r, "rejected")
    BY <1>7 DEF Reject
  <2>2. r.call \in Calls /\ \A s \in requests' : s.call # r.call
    BY <2>1, CallsOfStore DEF ToldInv
  <2>3. \A d \in Calls \ {r.call} : answer'[d] = answer[d]
    BY <2>1, <2>2 DEF Answered, TypeOK
  <2>4. \A s \in requests' : outcome'[s.call] = "lost" \/ (Awaited(s)' /\ answer'[s.call] = "none")
    BY <2>1, <2>2, <2>3, CallsOfStore DEF ToldInv, Awaited
  <2>5. \A i \in DOMAIN log :
          \/ outcome'[log[i].call] \in {"ok", "lost"}
          \/ pc'[log[i].call] = "waiting" /\ answer'[log[i].call] = "ok"
    BY <2>1, <2>3, CallsOfStore DEF ToldInv
  <2> QED BY <2>1, <2>4, <2>5 DEF ToldInv
<1>8. ASSUME NEW l \in Loads, Load(l) \/ ReadPage(l) \/ ReadFails(l)
      PROVE  ToldInv'
  BY <1>8 DEF Load, ReadPage, ReadFails, storeVars, callVars, ToldInv, Awaited
<1>9. CASE UNCHANGED vars
  BY <1>9 DEF vars, storeVars, callVars, ToldInv, Awaited
<1> QED
  BY <1>1, <1>2, <1>3, <1>4, <1>5, <1>6, <1>7, <1>8, <1>9 DEF Next, Proceed, Serve, Read

LEMMA ToldInvariant == ASSUME Reliable PROVE Spec => []ToldInv
<1>1. Init => ToldInv
  BY DEF Init, ToldInv
<1>2. TypeOK /\ ToldInv /\ [Next]_vars => ToldInv'
  BY ToldStep
<1> QED BY <1>1, <1>2, TypeCorrect, PTL DEF Spec

-----------------------------------------------------------------------------
(***************************************************************************)
(* The refinement. When clocks agree, every step of the store is a step of *)
(* EventLog or none: a commit is its Write, the calls' ends are its Accept *)
(* and Refuse, and attempts, retries, rejections and pages show nothing.   *)
(***************************************************************************)
AbsEntries == [call : Calls, rev : Ulid, expected : {AnyRevision, Initial, Unknown} \cup Ulid]

\* The invariant the mapping of steps needs.
MapInv == /\ TypeOK
          /\ ConcurrencyInv
          /\ OrderInv
          /\ LoadInv
          /\ Reliable => ToldInv

\* The abstract log is as long as the log.
LEMMA AbsShape ==
  ASSUME TypeOK
  PROVE  /\ Len(log) \in Nat /\ DOMAIN log = 1..Len(log)
         /\ AbsLog \in Seq(AbsEntries) /\ Len(AbsLog) = Len(log)
         /\ DOMAIN AbsLog = 1..Len(log)
         /\ \A i \in 1..Len(log) : AbsLog[i] = Entry(log[i])
<1> PICK n \in Nat : n = Len(log) /\ DOMAIN log = 1..n
  BY DEF TypeOK
<1>1. \A i \in 1..n : log[i] \in ChangeSets
  BY DEF TypeOK
<1>2. \A i \in 1..n : Entry(log[i]) \in AbsEntries
  BY <1>1 DEF ChangeSets, Entry, AbsEntries
<1>3. AbsLog \in [1..n -> AbsEntries]
  BY <1>2 DEF AbsLog
<1>4. AbsLog \in Seq(AbsEntries)
  BY <1>3, SeqDef
<1>5. Len(AbsLog) = n
  BY <1>3, <1>4, LenProperties
<1> QED BY <1>3, <1>4, <1>5 DEF AbsLog

\* Both have the same latest revision.
LEMMA AbsTip ==
  ASSUME TypeOK, LatestIsTip
  PROVE  Abstract!Tip(AbsLog) = latest
<1>1. AbsLog = <<>> <=> Len(log) = 0
  BY AbsShape, EmptySeq
<1>2. log = <<>> <=> Len(log) = 0
  BY EmptySeq DEF TypeOK
<1>3. CASE Len(log) = 0
  BY <1>1, <1>2, <1>3 DEF Abstract!Tip, Abstract!Initial, LatestIsTip, Initial
<1>4. CASE Len(log) # 0
  <2>1. Len(log) \in 1..Len(log)
    BY <1>4, AbsShape
  <2>2. AbsLog[Len(AbsLog)] = Entry(log[Len(log)])
    BY <2>1, AbsShape
  <2> QED BY <1>1, <1>2, <1>4, <2>2 DEF Abstract!Tip, LatestIsTip, Entry
<1> QED BY <1>3, <1>4

\* A commit appends to the abstract log what it appends to the log.
LEMMA AbsAppend ==
  ASSUME TypeOK, TypeOK', NEW r \in requests, Commit(r)
  PROVE  AbsLog' = Append(AbsLog, Entry(r))
<1> PICK n \in Nat : n = Len(log)
  BY AbsShape
<1> PICK e \in AbsEntries : e = Entry(r)
  BY CommitAppends DEF ChangeSets, AbsEntries, Entry
<1>1. /\ AbsLog' \in Seq(AbsEntries) /\ Len(AbsLog') = n + 1
      /\ AbsLog \in Seq(AbsEntries) /\ Len(AbsLog) = n
  <2>1. AbsLog' \in Seq(AbsEntries) /\ Len(AbsLog') = Len(log')
    <3>1. DOMAIN log' = 1..(n + 1) /\ \A i \in 1..(n + 1) : log'[i] \in ChangeSets
      BY CommitAppends DEF TypeOK
    <3>2. \A i \in 1..(n + 1) : Entry(log'[i]) \in AbsEntries
      BY <3>1 DEF ChangeSets, Entry, AbsEntries
    <3>3. AbsLog' \in [1..(n + 1) -> AbsEntries]
      BY <3>1, <3>2 DEF AbsLog, Entry
    <3>4. AbsLog' \in Seq(AbsEntries)
      BY <3>3, SeqDef
    <3> QED BY <3>3, <3>4, LenProperties, CommitAppends
  <2> QED BY <2>1, AbsShape, CommitAppends
<1>2. \A i \in 1..(n + 1) : AbsLog'[i] = IF i = n + 1 THEN e ELSE AbsLog[i]
  BY CommitAppends DEF AbsLog, Entry
<1>3. /\ Append(AbsLog, e) \in Seq(AbsEntries)
      /\ Len(Append(AbsLog, e)) = n + 1
      /\ \A i \in 1..n : Append(AbsLog, e)[i] = AbsLog[i]
      /\ Append(AbsLog, e)[n + 1] = e
  BY <1>1, AppendProperties
<1>4. \A i \in 1..(n + 1) : AbsLog'[i] = Append(AbsLog, e)[i]
  BY <1>2, <1>3
<1>5. AbsLog' = Append(AbsLog, e)
  BY <1>1, <1>3, <1>4, SeqEqual
<1> QED BY <1>5

\* What the first k commits hold is what the first k entries of the abstract log
\* hold.
LEMMA AbsReplica ==
  ASSUME TypeOK, NEW k \in 0..Len(log)
  PROVE  Abstract!Revisions(SubSeq(AbsLog, 1, k)) = Replica(k)
<1> PICK n \in Nat : n = Len(log)
  BY AbsShape
<1> DEFINE prefix == SubSeq(AbsLog, 1, k)
<1>1. /\ prefix \in Seq(AbsEntries) /\ Len(prefix) = k
      /\ \A i \in 1..k : prefix[i] = AbsLog[i]
  BY AbsShape, SubSeqProperties
<1>2. DOMAIN prefix = 1..k
  BY <1>1, LenProperties
<1>3. \A i \in 1..k : prefix[i].rev = log[i].rev
  BY <1>1, AbsShape DEF Entry
<1> HIDE DEF prefix
<1>4. Abstract!Revisions(prefix) = Replica(k)
  BY <1>2, <1>3 DEF Abstract!Revisions, Replica
<1> QED BY <1>4 DEF prefix

\* What a step must leave alone to leave the abstract state alone.
LEMMA AbsLogStays == log' = log => AbsLog' = AbsLog
BY DEF AbsLog, Entry

LEMMA AbsViewStays ==
  ASSUME \A l \in Loads : /\ lpc'[l] = "done" <=> lpc[l] = "done"
                          /\ lpc[l] = "done" => loaded'[l] = loaded[l]
  PROVE  AbsView' = AbsView
BY DEF AbsView

LEMMA AbsAnsweredStays ==
  ASSUME \A c \in Calls : /\ outcome'[c] = "ok" <=> outcome[c] = "ok"
                          /\ outcome[c] = "ok" => sent'[c] = sent[c]
  PROVE  AbsAnswered' = AbsAnswered
BY DEF AbsAnswered

LEMMA AbsToldStays ==
  ASSUME \A c \in Calls : Told(c)' = Told(c)
  PROVE  AbsTold' = AbsTold
BY DEF AbsTold

LEMMA AbsToldMoves ==
  ASSUME NEW c \in Calls, NEW x, pc'[c] = "done" /\ outcome'[c] = x,
         \A d \in Calls \ {c} : pc'[d] = pc[d] /\ outcome'[d] = outcome[d]
  PROVE  AbsTold' = [AbsTold EXCEPT ![c] = x]
<1>1. Told(c)' = x
  BY DEF Told
<1>2. \A d \in Calls \ {c} : Told(d)' = Told(d)
  BY DEF Told
<1> QED BY <1>1, <1>2 DEF AbsTold

\* The caller of a call that has begun and not ended has been told nothing.
LEMMA TellsNothing ==
  ASSUME TypeOK, Acked, NEW c \in Calls, pc[c] \in {"encode", "waiting"}
  PROVE  AbsTold[c] = "pending" /\ outcome[c] # "ok"
BY DEF Told, AbsTold, Acked

\* Publish is Ask.
LEMMA PublishAsks ==
  ASSUME TypeOK, NEW c \in Calls, Publish(c)
  PROVE  \E e \in {Abstract!AnyRevision, Abstract!Initial, Abstract!Unknown} \cup Ulid : Abstract!Ask(c, e)
<1>1. PICK e \in {AnyRevision, Initial, Unknown} \cup CommittedIds :
        expected' = [expected EXCEPT ![c] = e]
  BY DEF Publish
<1>2. e \in {Abstract!AnyRevision, Abstract!Initial, Abstract!Unknown} \cup Ulid
  BY CommittedUlids
  DEF TypeOK, Abstract!AnyRevision, Abstract!Initial, Abstract!Unknown, AnyRevision, Initial, Unknown
<1>3. /\ UNCHANGED <<log, outcome, sent, lpc, loaded>>
      /\ pc[c] = "idle" /\ pc' = [pc EXCEPT ![c] = "encode"]
  BY DEF Publish, storeVars, loadVars
<1>4. AbsLog' = AbsLog /\ AbsAnswered' = AbsAnswered /\ AbsView' = AbsView
  BY <1>3, AbsLogStays, AbsAnsweredStays, AbsViewStays
<1>5. AbsTold[c] = "idle" /\ AbsTold' = [AbsTold EXCEPT ![c] = "pending"]
  <2>1. Told(c) = "idle" /\ Told(c)' = "pending"
    BY <1>3 DEF Told, TypeOK
  <2>2. \A d \in Calls \ {c} : Told(d)' = Told(d)
    BY <1>3 DEF Told, TypeOK
  <2> QED BY <2>1, <2>2 DEF AbsTold
<1> QED BY <1>1, <1>2, <1>4, <1>5 DEF Abstract!Ask

\* A call that ends with an error ends like Refuse, if nothing of it is in the log
\* when errors mean so.
LEMMA ErrorRefuses ==
  ASSUME TypeOK, Acked, NEW c \in Calls, NEW error \in {"conflict", "failed"},
         UNCHANGED <<log, expected, sent, lpc, loaded>>,
         pc[c] \in {"idle", "encode", "waiting"},
         pc' = [pc EXCEPT ![c] = "done"], outcome' = [outcome EXCEPT ![c] = error],
         Reliable => \A i \in DOMAIN log : log[i].call # c
  PROVE  Abstract!Refuse(c)
<1>1. outcome[c] # "ok"
  BY DEF Acked
<1>2. AbsLog' = AbsLog /\ AbsAnswered' = AbsAnswered /\ AbsView' = AbsView
  BY <1>1, AbsLogStays, AbsAnsweredStays, AbsViewStays DEF TypeOK
<1>3. AbsTold[c] \in {"idle", "pending"}
  BY DEF AbsTold, Told
<1>4. AbsTold' = [AbsTold EXCEPT ![c] = error]
  BY AbsToldMoves DEF TypeOK
<1>5. Reliable => \A i \in DOMAIN AbsLog : AbsLog[i].call # c
  BY AbsShape DEF Entry
<1> QED BY <1>2, <1>3, <1>4, <1>5 DEF Abstract!Refuse

\* What ends a call with an error is a Refuse, and what lets it try again nothing.
LEMMA FailureMaps ==
  ASSUME TypeOK, Acked, Reliable => ToldInv, NEW c \in Calls, Conflict(c) \/ Fail(c)
  PROVE  Abstract!Refuse(c) \/ UNCHANGED Abstract!vars
<1>1. PICK handled \in BOOLEAN, error \in {"conflict", "failed"} :
        RetryOrGiveUp(c, handled, error)
  BY DEF Conflict, Fail
<1>2. /\ pc[c] = "waiting" /\ UNCHANGED <<log, expected, sent, lpc, loaded>>
      /\ Reliable => answer[c] # "ok"
  BY DEF Conflict, Fail, storeVars, loadVars
<1>3. CASE pc' = [pc EXCEPT ![c] = "encode"] /\ UNCHANGED outcome
  <2>1. \A d \in Calls : Told(d)' = Told(d)
    <3>1. Told(c)' = "pending" /\ Told(c) = "pending"
      BY <1>2, <1>3 DEF TypeOK, Told
    <3>2. \A d \in Calls \ {c} : Told(d)' = Told(d)
      BY <1>3 DEF TypeOK, Told
    <3> QED BY <3>1, <3>2
  <2> QED BY <1>2, <1>3, <2>1, AbsLogStays, AbsViewStays, AbsAnsweredStays, AbsToldStays
          DEF Abstract!vars
<1>4. CASE pc' = [pc EXCEPT ![c] = "done"] /\ outcome' = [outcome EXCEPT ![c] = error]
  <2>1. Reliable => \A i \in DOMAIN log : log[i].call # c
    BY <1>2 DEF ToldInv, Acked
  <2> QED BY <1>2, <1>4, <2>1, ErrorRefuses
<1> QED BY <1>1, <1>3, <1>4 DEF RetryOrGiveUp

\* A call that is refused before it sends anything has written nothing.
LEMMA InvalidMaps ==
  ASSUME TypeOK, Acked, CarriesGuard, NEW c \in Calls, Invalid(c)
  PROVE  Abstract!Refuse(c)
<1>1. /\ UNCHANGED <<log, expected, sent, lpc, loaded>> /\ pc[c] = "idle"
      /\ pc' = [pc EXCEPT ![c] = "done"] /\ outcome' = [outcome EXCEPT ![c] = "failed"]
  BY DEF Invalid, storeVars, loadVars
<1>2. \A i \in DOMAIN log : log[i].call # c
  BY <1>1 DEF CarriesGuard
<1> QED BY <1>1, <1>2, ErrorRefuses

\* A success is an Accept of a change set that is in the log.
LEMMA SucceedMaps ==
  ASSUME TypeOK, Acked, NEW c \in Calls, Succeed(c)
  PROVE  Abstract!Accept(c)
<1>1. /\ UNCHANGED <<log, expected, sent, lpc, loaded>> /\ pc[c] = "waiting" /\ answer[c] = "ok"
      /\ pc' = [pc EXCEPT ![c] = "done"] /\ outcome' = [outcome EXCEPT ![c] = "ok"]
  BY DEF Succeed, storeVars, loadVars
<1>2. PICK i \in DOMAIN log : log[i].call = c /\ log[i].rev = sent[c]
  BY <1>1 DEF Acked
<1>3. i \in DOMAIN AbsLog /\ AbsLog[i].call = c /\ AbsLog[i].rev = sent[c]
  BY <1>2, AbsShape DEF Entry
<1>4. AbsAnswered' = [AbsAnswered EXCEPT ![c] = sent[c]]
  BY <1>1 DEF AbsAnswered, TypeOK
<1>5. AbsLog' = AbsLog /\ AbsView' = AbsView
  BY <1>1, AbsLogStays, AbsViewStays
<1>6. AbsTold[c] = "pending"
  BY <1>1, TellsNothing
<1>7. AbsTold' = [AbsTold EXCEPT ![c] = "ok"]
  BY <1>1, AbsToldMoves DEF TypeOK
<1> QED BY <1>1, <1>3, <1>4, <1>5, <1>6, <1>7 DEF Abstract!Accept

\* A commit is a Write, late or not.
LEMMA CommitMaps ==
  ASSUME MapInv, TypeOK', NEW r \in requests, Commit(r)
  PROVE  \E c \in Calls : \E rev \in Ulid : Abstract!Write(c, rev)
<1> DEFINE c == r.call
<1>1. /\ r \in ChangeSets /\ UNCHANGED <<pc, outcome, expected, sent, lpc, loaded>>
      /\ LatestCondition(r)
  BY CommitAppends DEF MapInv, Commit, loadVars
<1>2. c \in Calls /\ r.rev \in Ulid
  BY <1>1 DEF ChangeSets
<1>3. AbsTold[c] # "idle"
  BY <1>2 DEF MapInv, ConcurrencyInv, CarriesGuard, AbsTold, Told, TypeOK
<1>4. Abstract!Tip(AbsLog) = latest
  BY AbsTip DEF MapInv, ConcurrencyInv
<1>5. r.rev > latest /\ latest \in Nat
  BY CommitAscends DEF MapInv
<1>6. r.expected = expected[c]
  BY DEF MapInv, ConcurrencyInv, CarriesGuard
<1>7. expected[c] \in {Abstract!AnyRevision, latest}
  BY <1>1, <1>6 DEF LatestCondition, AnyRevision, Abstract!AnyRevision
<1>8. ASSUME Reliable
      PROVE  AbsTold[c] \in {"pending", "lost"} /\ \A i \in DOMAIN AbsLog : AbsLog[i].call # c
  <2>1. ToldInv /\ TypeOK
    BY <1>8 DEF MapInv
  <2>2. AbsTold[c] \in {"pending", "lost"}
    BY <1>2, <2>1 DEF ToldInv, Awaited, AbsTold, Told
  <2>3. \A i \in DOMAIN log : log[i].call # c
    BY <2>1 DEF ToldInv
  <2> QED BY <2>1, <2>2, <2>3, AbsShape DEF Entry
<1>9. AbsLog' = Append(AbsLog, [call |-> c, rev |-> r.rev, expected |-> expected[c]])
  BY <1>6, AbsAppend DEF MapInv, Entry
<1>10. AbsTold' = AbsTold /\ AbsAnswered' = AbsAnswered /\ AbsView' = AbsView
  <2>1. \A d \in Calls : Told(d)' = Told(d)
    BY <1>1 DEF Told
  <2> QED BY <1>1, <2>1, AbsToldStays, AbsAnsweredStays, AbsViewStays
<1>11. Abstract!Write(c, r.rev)
  BY <1>1, <1>3, <1>4, <1>5, <1>7, <1>8, <1>9, <1>10 DEF Abstract!Write
<1> QED BY <1>2, <1>11

\* A crash loses the callers that were waiting in the process.
LEMMA CrashMaps ==
  ASSUME TypeOK, Acked, NEW p \in Procs, Crash(p)
  PROVE  Abstract!Lose
<1> DEFINE dead == {c \in Calls : ProcOf[c] = p /\ pc[c] \in {"encode", "waiting"}}
<1>1. /\ UNCHANGED <<log, expected, sent, lpc, loaded>>
      /\ pc' = [c \in Calls |-> IF c \in dead THEN "done" ELSE pc[c]]
      /\ outcome' = [c \in Calls |-> IF c \in dead THEN "lost" ELSE outcome[c]]
  BY DEF Crash, storeVars, loadVars
<1>2. dead \subseteq Calls /\ \A c \in dead : AbsTold[c] = "pending" /\ outcome[c] # "ok"
  BY TellsNothing
<1> HIDE DEF dead
<1>3. AbsTold' = [c \in Calls |-> IF c \in dead THEN "lost" ELSE AbsTold[c]]
  <2>1. \A c \in dead : Told(c)' = "lost"
    BY <1>1, <1>2 DEF Told
  <2>2. \A c \in Calls \ dead : Told(c)' = Told(c)
    BY <1>1 DEF Told
  <2> QED BY <1>2, <2>1, <2>2 DEF AbsTold
<1>4. AbsLog' = AbsLog /\ AbsAnswered' = AbsAnswered /\ AbsView' = AbsView
  BY <1>1, <1>2, AbsLogStays, AbsAnsweredStays, AbsViewStays
<1>5. dead \in SUBSET {c \in Calls : AbsTold[c] = "pending"}
  BY <1>2
<1> QED BY <1>1, <1>3, <1>4, <1>5 DEF Abstract!Lose

\* An attempt, which sends a request, and a rejection show nothing.
LEMMA AttemptMaps ==
  ASSUME TypeOK, Acked, NEW c \in Calls, Attempt(c)
  PROVE  UNCHANGED Abstract!vars
<1>1. /\ UNCHANGED <<log, expected, outcome, lpc, loaded>>
      /\ pc[c] = "encode" /\ pc' = [pc EXCEPT ![c] = "waiting"]
      /\ \E rev \in Ulid : sent' = [sent EXCEPT ![c] = rev]
  BY BatchIsFresh, ProcAssumption DEF Attempt, loadVars
<1>2. outcome[c] # "ok" /\ \A d \in Calls \ {c} : sent'[d] = sent[d]
  BY <1>1 DEF Acked, TypeOK
<1>3. \A d \in Calls : Told(d)' = Told(d)
  <2>1. Told(c)' = "pending" /\ Told(c) = "pending"
    BY <1>1 DEF TypeOK, Told
  <2>2. \A d \in Calls \ {c} : Told(d)' = Told(d)
    BY <1>1 DEF TypeOK, Told
  <2> QED BY <2>1, <2>2
<1>4. AbsAnswered' = AbsAnswered
  BY <1>1, <1>2, AbsAnsweredStays
<1> QED BY <1>1, <1>3, <1>4, AbsLogStays, AbsViewStays, AbsToldStays DEF Abstract!vars

\* A step that leaves all this alone shows nothing.
LEMMA AbsStays ==
  ASSUME UNCHANGED <<log, expected, pc, outcome, sent>>, AbsView' = AbsView
  PROVE  UNCHANGED Abstract!vars
<1>1. \A c \in Calls : Told(c)' = Told(c)
  BY DEF Told
<1> QED BY <1>1, AbsLogStays, AbsAnsweredStays, AbsToldStays DEF Abstract!vars

\* The last page of a load is a Load, and what is before it nothing.
LEMMA ReadMaps ==
  ASSUME MapInv, MapInv', [Next]_vars, NEW l \in Loads, Load(l) \/ ReadPage(l) \/ ReadFails(l)
  PROVE  Abstract!Load(l) \/ UNCHANGED Abstract!vars
<1>1. /\ UNCHANGED <<log, expected, pc, outcome, sent>>
      /\ lpc[l] # "done"
      /\ \A m \in Loads \ {l} : lpc'[m] = lpc[m] /\ loaded'[m] = loaded[m]
  BY DEF Load, ReadPage, ReadFails, storeVars, callVars, MapInv, TypeOK
<1>2. CASE lpc'[l] # "done"
  <2>1. AbsView' = AbsView
    BY <1>1, <1>2, AbsViewStays
  <2> QED BY <1>1, <2>1, AbsStays
<1>3. CASE lpc'[l] = "done"
  <2>1. PICK k \in 0..Len(log) : loaded'[l] = Replica(k)
    <3>1. \E k \in 0..Len(log') : loaded'[l] = Replica(k)'
      BY <1>3, LoadStep DEF MapInv, OrderInv
    <3>2. \A k : Replica(k)' = Replica(k)
      BY <1>1 DEF Replica
    <3> QED BY <1>1, <3>1, <3>2
  <2>2. loaded'[l] = Abstract!Revisions(SubSeq(AbsLog, 1, k))
    BY <2>1, AbsReplica DEF MapInv
  <2>3. k \in 0..Len(AbsLog)
    BY AbsShape DEF MapInv
  <2>4. ~AbsView[l].done
    BY <1>1 DEF AbsView
  <2>5. AbsView' = [AbsView EXCEPT ![l] = [done |-> TRUE, revs |-> loaded'[l]]]
    BY <1>1, <1>3 DEF AbsView
  <2>6. AbsLog' = AbsLog /\ AbsAnswered' = AbsAnswered /\ AbsTold' = AbsTold
    <3>1. \A c \in Calls : Told(c)' = Told(c)
      BY <1>1 DEF Told
    <3> QED BY <1>1, <3>1, AbsLogStays, AbsAnsweredStays, AbsToldStays
  <2> QED BY <1>1, <2>2, <2>3, <2>4, <2>5, <2>6 DEF Abstract!Load
<1> QED BY <1>2, <1>3

LEMMA StepMaps == MapInv /\ MapInv' /\ [Next]_vars => [Abstract!Next]_(Abstract!vars)
<1> SUFFICES ASSUME MapInv, MapInv', [Next]_vars
             PROVE  Abstract!Next \/ UNCHANGED Abstract!vars
  OBVIOUS
<1> USE DEF MapInv, ConcurrencyInv
<1>1. ASSUME NEW c \in Calls, Publish(c) PROVE Abstract!Next
  BY <1>1, PublishAsks DEF Abstract!Next
<1>2. ASSUME NEW c \in Calls, Invalid(c) PROVE Abstract!Next
  BY <1>2, InvalidMaps DEF Abstract!Next
<1>3. ASSUME NEW c \in Calls, Attempt(c) PROVE UNCHANGED Abstract!vars
  BY <1>3, AttemptMaps
<1>4. ASSUME NEW c \in Calls, Succeed(c) PROVE Abstract!Next
  BY <1>4, SucceedMaps DEF Abstract!Next
<1>5. ASSUME NEW c \in Calls, Conflict(c) \/ Fail(c)
      PROVE  Abstract!Next \/ UNCHANGED Abstract!vars
  BY <1>5, FailureMaps DEF Abstract!Next
<1>6. ASSUME NEW r \in requests, Commit(r) PROVE Abstract!Next
  BY <1>6, CommitMaps DEF Abstract!Next
<1>7. ASSUME NEW r \in requests, Reject(r) PROVE UNCHANGED Abstract!vars
  <2>1. UNCHANGED <<log, expected, pc, outcome, sent, lpc, loaded>>
    BY <1>7 DEF Reject, loadVars
  <2> QED BY <2>1, AbsViewStays, AbsStays
<1>8. ASSUME NEW p \in Procs, Crash(p) PROVE Abstract!Next
  BY <1>8, CrashMaps DEF Abstract!Next
<1>9. ASSUME NEW l \in Loads, Load(l) \/ ReadPage(l) \/ ReadFails(l)
      PROVE  Abstract!Next \/ UNCHANGED Abstract!vars
  BY <1>9, ReadMaps DEF Abstract!Next
<1>10. CASE UNCHANGED vars
  <2>1. UNCHANGED <<log, expected, pc, outcome, sent, lpc, loaded>>
    BY <1>10 DEF vars, storeVars, callVars, loadVars
  <2> QED BY <2>1, AbsViewStays, AbsStays
<1> QED
  BY <1>1, <1>2, <1>3, <1>4, <1>5, <1>6, <1>7, <1>8, <1>9, <1>10 DEF Next, Proceed, Serve, Read

LEMMA InitMaps == Init /\ TypeOK => Abstract!Init
<1> SUFFICES ASSUME Init, TypeOK PROVE Abstract!Init
  OBVIOUS
<1>1. AbsLog = <<>>
  <2>1. Len(log) = 0
    BY DEF Init
  <2> QED BY <2>1, AbsShape, EmptySeq
<1>2. AbsTold = [c \in Calls |-> "idle"]
  BY DEF Init, AbsTold, Told
<1>3. AbsAnswered = [c \in Calls |-> Initial] /\ expected = [c \in Calls |-> AnyRevision]
  BY DEF Init, AbsAnswered
<1>4. AbsView = [l \in Loads |-> [done |-> FALSE, revs |-> {}]]
  BY DEF Init, AbsView
<1> QED
  BY <1>1, <1>2, <1>3, <1>4
  DEF Abstract!Init, Abstract!AnyRevision, Abstract!Initial, AnyRevision, Initial

\* When clocks agree, the store keeps what the EventStore interface promises: for
\* its callers, retries, lost replies, late transactions, crashes and pages from
\* lagging replicas come down to a log that only grows, each change set after the
\* revision it expected, and to loads of a prefix of it.
THEOREM ImplementsTheLog == ASSUME ClockSync PROVE Spec => ImplementsEventLog
<1>1. Spec => []MapInv
  <2>1. CASE Reliable
    BY <2>1, TypeCorrect, ConcurrencyInvariant, OrderInvariant, LoadInvariant, ToldInvariant, PTL
       DEF MapInv
  <2>2. CASE ~Reliable
    <3>1. TypeOK /\ ConcurrencyInv /\ OrderInv /\ LoadInv => MapInv
      BY <2>2 DEF MapInv
    <3> QED BY <3>1, TypeCorrect, ConcurrencyInvariant, OrderInvariant, LoadInvariant, PTL
  <2> QED BY <2>1, <2>2
<1>2. MapInv => TypeOK
  BY DEF MapInv
<1> QED BY <1>1, <1>2, InitMaps, StepMaps, PTL DEF Spec, ImplementsEventLog, Abstract!Spec

-----------------------------------------------------------------------------
(***************************************************************************)
(* The names of partitions.                                                *)
(***************************************************************************)

\* s is spelled by t, the symbol d, and k.
Spells(s, t, d, k) ==
  /\ s \in Seq(Symbols)
  /\ Len(s) = Len(t) + 1 + Len(k)
  /\ \A i \in 1..Len(t) : s[i] = t[i]
  /\ s[Len(t) + 1] = d[1]
  /\ \A i \in 1..Len(k) : s[Len(t) + 1 + i] = k[i]

\* A symbol between two strings.
LEMMA Joined ==
  ASSUME NEW t \in Seq(Symbols), NEW d \in Seq(Symbols), NEW k \in Seq(Symbols), Len(d) = 1
  PROVE  Spells((t \o d) \o k, t, d, k)
<1> DEFINE h == t \o d
           e == h \o k
<1>1. h \in Seq(Symbols)
  OBVIOUS
<1>2. /\ Len(h) = Len(t) + Len(d)
      /\ \A i \in 1..Len(t) + Len(d) : h[i] = IF i <= Len(t) THEN t[i] ELSE d[i - Len(t)]
  BY ConcatProperties, Zenon
<1>3. e \in Seq(Symbols)
  <2> HIDE DEF h
  <2> QED BY <1>1
<1>4. /\ Len(e) = Len(h) + Len(k)
      /\ \A i \in 1..Len(h) + Len(k) : e[i] = IF i <= Len(h) THEN h[i] ELSE k[i - Len(h)]
  <2> HIDE DEF h
  <2> QED BY <1>1, ConcatProperties, Zenon
<1>5. Len(t) \in Nat /\ Len(k) \in Nat
  OBVIOUS
<1> HIDE DEF h, e
<1>6. Len(h) = Len(t) + 1
  BY <1>2
<1>7. \A i \in 1..Len(t) : e[i] = t[i]
  BY <1>2, <1>4, <1>5
<1>8. e[Len(t) + 1] = d[1]
  <2>1. h[Len(t) + 1] = d[1]
    BY <1>2, <1>5
  <2>2. e[Len(t) + 1] = h[Len(t) + 1]
    BY <1>4, <1>5, <1>6
  <2> QED
    BY <2>1, <2>2
<1>9. ASSUME NEW i \in 1..Len(k) PROVE e[Len(t) + 1 + i] = k[i]
  <2>1. /\ Len(t) + 1 + i \in 1..Len(h) + Len(k)
        /\ ~ (Len(t) + 1 + i <= Len(h))
        /\ Len(t) + 1 + i - Len(h) = i
    BY <1>5, <1>6
  <2> QED
    BY <1>4, <2>1
<1>10. e = (t \o d) \o k
  BY DEF e, h
<1>11. Len(e) = Len(t) + 1 + Len(k)
  BY <1>4, <1>6
<1> QED
  BY <1>3, <1>7, <1>8, <1>9, <1>10, <1>11, Zenon DEF Spells

\* An encoded id is spelled by the type, a dot, and the key.
Spelled(a, s) == Spells(s, a.type, <<Dot>>, a.key)

\* Types and keys are strings, of some length.
LEMMA Strings ==
  ASSUME NEW a \in AggregateIds
  PROVE  /\ a.type \in Seq(Symbols) /\ a.key \in Seq(Symbols)
         /\ Len(a.type) \in Nat /\ Len(a.key) \in Nat
<1>1. a.type \in Types /\ a.key \in Keys
  BY DEF AggregateIds
<1>2. a.type \in Seq(Symbols) /\ a.key \in Seq(Symbols)
  BY <1>1, StringsAssumption, Zenon
<1> QED
  BY <1>2, LenProperties, Zenon

\* encode: type, dot and key, one after the other.
LEMMA Encoded ==
  ASSUME NEW a \in AggregateIds
  PROVE  Spelled(a, encode(a))
<1> DEFINE t == a.type
           k == a.key
           d == <<Dot>>
<1>1. t \in Seq(Symbols) /\ k \in Seq(Symbols)
  BY Strings, Zenon
<1>2. d \in Seq(Symbols) /\ Len(d) = 1 /\ d[1] = Dot
  BY StringsAssumption
<1>3. encode(a) = (t \o d) \o k
  BY DEF encode
<1> HIDE DEF t, k, d
<1>4. Spells((t \o d) \o k, t, d, k)
  BY <1>1, <1>2, Joined, Zenon
<1> QED
  BY <1>3, <1>4, Zenon DEF Spelled, t, k, d

\* A type without dots is no longer than the one it is taken for.
LEMMA NoLonger ==
  ASSUME NEW a \in AggregateIds, NEW b \in AggregateIds, NEW s,
         DotFree(b.type), Spelled(a, s), Spelled(b, s)
  PROVE  Len(b.type) <= Len(a.type)
<1> SUFFICES ASSUME Len(a.type) < Len(b.type) PROVE FALSE
  BY Strings
<1>1. Len(a.type) + 1 \in 1..Len(b.type)
  BY Strings
<1>2. b.type[Len(a.type) + 1] = Dot
  BY <1>1 DEF Spelled, Spells
<1>3. DOMAIN b.type = 1..Len(b.type)
  BY Strings, LenProperties, Zenon
<1> QED
  BY <1>1, <1>2, <1>3 DEF DotFree

\* Types without dots end where the first dot of the encoded id is.
LEMMA NobodyConfused == Confused = {}
<1> SUFFICES ASSUME NEW a \in AggregateIds, NEW b \in AggregateIds,
                    DotFree(a.type), DotFree(b.type), encode(a) = encode(b)
             PROVE  a = b
  BY DEF Confused
<1> DEFINE s == encode(a)
<1>1. Spelled(a, s) /\ Spelled(b, s)
  BY Encoded, Zenon
<1> HIDE DEF s
<1>2. /\ a.type \in Seq(Symbols) /\ a.key \in Seq(Symbols)
      /\ Len(a.type) \in Nat /\ Len(a.key) \in Nat
  BY Strings, Zenon
<1>3. /\ b.type \in Seq(Symbols) /\ b.key \in Seq(Symbols)
      /\ Len(b.type) \in Nat /\ Len(b.key) \in Nat
  BY Strings, Zenon
<1>4. Len(a.type) = Len(b.type)
  <2>1. Len(a.type) <= Len(b.type) /\ Len(b.type) <= Len(a.type)
    BY <1>1, NoLonger, Zenon
  <2> QED
    BY <1>2, <1>3, <2>1
<1>5. Len(a.key) = Len(b.key)
  <2>1. /\ Len(s) = Len(a.type) + 1 + Len(a.key)
        /\ Len(s) = Len(b.type) + 1 + Len(b.key)
    BY <1>1, Zenon DEF Spelled, Spells
  <2> DEFINE n == Len(b.type)
             v == Len(a.key)
             w == Len(b.key)
  <2>2. n \in Nat /\ v \in Nat /\ w \in Nat /\ n + 1 + v = n + 1 + w
    BY <1>2, <1>3, <1>4, <2>1, Zenon
  <2> HIDE DEF n, v, w
  <2>3. v = w
    BY <2>2
  <2> QED
    BY <2>3, Zenon DEF v, w
<1>6. a.type = b.type
  <2>1. \A i \in 1..Len(a.type) : a.type[i] = b.type[i]
    BY <1>1, <1>4, Zenon DEF Spelled, Spells
  <2> QED
    BY <1>2, <1>3, <1>4, <2>1, SeqEqual, Zenon
<1>7. a.key = b.key
  <2>1. \A i \in 1..Len(a.key) : a.key[i] = b.key[i]
    BY <1>1, <1>4, <1>5, Zenon DEF Spelled, Spells
  <2> QED
    BY <1>2, <1>3, <1>5, <2>1, SeqEqual, Zenon
<1> QED
  BY <1>6, <1>7 DEF AggregateIds

\* A part of a sequence is the sequence that has its elements.
LEMMA Part ==
  ASSUME NEW S, NEW s \in Seq(S), NEW t \in Seq(S), NEW m \in Nat,
         m + Len(t) <= Len(s), \A i \in 1..Len(t) : s[m + i] = t[i]
  PROVE  SubSeq(s, m + 1, m + Len(t)) = t
<1> DEFINE n == Len(t)
           u == SubSeq(s, m + 1, m + n)
<1>1. n \in Nat
  OBVIOUS
<1>2. Len(s) \in Nat
  OBVIOUS
<1>3. \A i \in m + 1 .. m + n : s[i] \in S
  <2>1. \A i \in m + 1 .. m + n : i \in 1..Len(s)
    <3> HIDE DEF n
    <3>1. m + n <= Len(s)
      BY DEF n
    <3> QED
      BY <1>1, <1>2, <3>1
  <2> QED
    BY <2>1, ElementOfSeq, Zenon
<1>4. m + 1 \in Int /\ m + n \in Int
  BY <1>1
<1>5. /\ u \in Seq(S)
      /\ Len(u) = IF m + 1 <= m + n THEN (m + n) - (m + 1) + 1 ELSE 0
      /\ \A i \in 1 .. (m + n) - (m + 1) + 1 : u[i] = s[(m + 1) + i - 1]
  <2> DEFINE p == m + 1
             q == m + n
  <2>1. (\A i \in p .. q : s[i] \in S) /\ p \in Int /\ q \in Int
    BY <1>3, <1>4, Zenon
  <2> HIDE DEF p, q
  <2>2. /\ SubSeq(s, p, q) \in Seq(S)
        /\ Len(SubSeq(s, p, q)) = IF p <= q THEN q - p + 1 ELSE 0
        /\ \A i \in 1 .. q - p + 1 : SubSeq(s, p, q)[i] = s[p + i - 1]
    BY <2>1, SubSeqProperties
  <2> QED
    BY <2>2, Zenon DEF p, q
<1> HIDE DEF u
<1>6. Len(u) = Len(t)
  <2> HIDE DEF n
  <2>1. Len(u) = n
    BY <1>1, <1>5
  <2> QED
    BY <2>1 DEF n
<1>7. \A i \in 1..Len(u) : u[i] = t[i]
  <2> SUFFICES ASSUME NEW i \in 1..Len(t) PROVE u[i] = t[i]
    BY <1>6
  <2>1. i \in 1 .. (m + n) - (m + 1) + 1 /\ (m + 1) + i - 1 = m + i
    BY <1>1
  <2>2. u[i] = s[m + i]
    BY <1>5, <2>1
  <2> QED
    BY <2>2
<1> QED
  BY <1>5, <1>6, <1>7, SeqEqual, Zenon DEF u

\* The decoder takes an encoded id apart where encode joined it.
LEMMA NobodyMisread == Misread = {}
<1> SUFFICES ASSUME NEW a \in AggregateIds, a.key # <<>>
             PROVE  decoder(a.type, encode(a)) = IF DotFree(a.type) THEN a ELSE Refused
  BY DEF Misread
<1> DEFINE s == encode(a)
           cut == \E i \in DOMAIN s :
                    s[i] = Dot /\ DotFree(SubSeq(s, 1, i - 1))
                    /\ SubSeq(s, 1, i - 1) = a.type /\ i < Len(s)
<1>1. Spelled(a, s)
  BY Encoded, Zenon
<1>2. decoder(a.type, s) = IF cut THEN [type |-> a.type, key |-> SubSeq(s, Len(a.type) + 2, Len(s))]
                           ELSE Refused
  BY DEF decoder
<1> HIDE DEF s
<1>3. CASE ~ DotFree(a.type)
  <2>1. ~ cut
    BY <1>3
  <2> QED
    BY <1>2, <1>3, <2>1, Zenon DEF s
<1>4. CASE DotFree(a.type)
  <2> DEFINE n == Len(a.type)
             m == Len(a.key)
  <2>1. /\ a.type \in Seq(Symbols) /\ a.key \in Seq(Symbols)
        /\ n \in Nat /\ m \in Nat
    BY Strings, Zenon
  <2>2. m \in Nat \ {0}
    BY <2>1, EmptySeq, Zenon
  <2>3. s \in Seq(Symbols) /\ Len(s) = n + 1 + m /\ s[n + 1] = Dot
    BY <1>1, <<Dot>>[1] = Dot, Zenon DEF Spelled, Spells
  <2>4. SubSeq(s, 1, n) = a.type
    <3>1. \A i \in 1..n : s[0 + i] = a.type[i]
      <4> SUFFICES ASSUME NEW i \in 1..n PROVE s[0 + i] = a.type[i]
        OBVIOUS
      <4>1. s[i] = a.type[i]
        BY <1>1, Zenon DEF Spelled, Spells
      <4>2. 0 + i = i
        BY <2>1
      <4> QED
        BY <4>1, <4>2, Zenon
    <3>2. 0 + n <= Len(s) /\ 0 + 1 = 1 /\ 0 + n = n
      <4> HIDE DEF n, m
      <4> QED
        BY <2>1, <2>2, <2>3
    <3>3. SubSeq(s, 0 + 1, 0 + n) = a.type
      BY <2>1, <2>3, <3>1, <3>2, Part, 0 \in Nat, Zenon
    <3> QED
      BY <3>2, <3>3, Zenon
  <2>5. SubSeq(s, n + 2, Len(s)) = a.key
    <3>1. \A i \in 1..m : s[n + 1 + i] = a.key[i]
      BY <1>1 DEF Spelled, Spells
    <3>2. /\ n + 1 \in Nat /\ (n + 1) + m <= Len(s)
          /\ (n + 1) + 1 = n + 2 /\ (n + 1) + m = Len(s)
      <4> HIDE DEF n, m
      <4> QED
        BY <2>1, <2>2, <2>3
    <3>3. SubSeq(s, (n + 1) + 1, (n + 1) + m) = a.key
      BY <2>1, <2>3, <3>1, <3>2, Part, Zenon
    <3> QED
      BY <3>2, <3>3, Zenon
  <2>6. cut
    <3>1. n + 1 \in DOMAIN s /\ n + 1 < Len(s) /\ (n + 1) - 1 = n
      <4>1. DOMAIN s = 1..Len(s)
        BY <2>3, LenProperties, Zenon
      <4> HIDE DEF n, m
      <4> QED
        BY <2>1, <2>2, <2>3, <4>1
    <3> HIDE DEF n, m
    <3> QED
      BY <1>4, <2>3, <2>4, <3>1, Zenon
  <2>7. decoder(a.type, s) = [type |-> a.type, key |-> a.key]
    BY <1>2, <2>5, <2>6, Zenon
  <2>8. a = [type |-> a.type, key |-> a.key]
    BY DEF AggregateIds
  <2> QED
    BY <1>4, <2>7, <2>8, Zenon DEF s
<1> QED
  BY <1>3, <1>4

\* What is stored for an aggregate is found for no other, and is known by its
\* partition's name: for any types without dots, and any keys.
THEOREM PartitionsAreKeptApart == Spec => []IdsKeptApart
<1>1. IdsKeptApart
  BY NobodyConfused, NobodyMisread, Zenon DEF IdsKeptApart
<1> QED
  BY <1>1, PTL
=============================================================================
