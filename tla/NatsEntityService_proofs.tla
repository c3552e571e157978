---------------------- MODULE NatsEntityService_proofs ----------------------
(***************************************************************************)
(* Theorems about a NatsService and the entity service behind it, for any  *)
(* domain, requests, permits and hanging commands, and of the receipts     *)
(* sample that is served that way.                                         *)
(*                                                                         *)
(* The steps of the composition are steps of either part, so Inv of        *)
(* NatsService_proofs carries over: one command is in the pool at a time.  *)
(* What is added ties the course of its execution to its place in there,   *)
(* which makes the entity service behind it one that executes commands one *)
(* at a time, so that EntityService_proofs carries over as well: the log   *)
(* is one of serial decisions. The rest follows by induction over the log. *)
(***************************************************************************)
EXTENDS NatsReceipts, NatsService_proofs, FiniteSetTheorems

LEMMA ServedStep == ServedNext => [Next]_natsVars
  BY DEF ServedNext, BeginCommand, Behind, CommandEnds, Around, Next, Serve

\* The service in front of an entity service is the service that NatsService
\* specifies, with commands that settle as their executions do: what is proved of
\* it holds here too.
THEOREM ServesAsSpecified == ServedSpec => Spec
<1>1. ServedInit => Init
  BY DEF ServedInit
<1>2. [ServedNext]_servedVars => [Next]_natsVars
  BY ServedStep DEF servedVars
<1> QED BY <1>1, <1>2, PTL DEF ServedSpec, Spec

LEMMA ServedInvariance == ServedSpec => []Inv
  BY ServesAsSpecified, Invariance, PTL

-----------------------------------------------------------------------------
\* An execution is in progress only while its command is at work in the pool, and
\* one that has not begun there has recorded nothing.
Linked ==
  /\ pc \in [Tasks -> {"idle", "loading", "publishing", "reloading", "done"}]
  /\ \A t \in Tasks : pc[t] \notin {"idle", "done"} => stage[t] = "working"
  /\ \A t \in Tasks : stage[t] \in {"idle", "queued", "granted"} => pc[t] = "idle"

\* A command at work is the one in hand, and no other is in the pool.
LEMMA InHand ==
  ASSUME Inv, NEW t \in Tasks, stage[t] \in {"granted", "working"}
  PROVE  /\ t = inbox[taken] /\ taken \in DOMAIN inbox /\ loop = "handling"
         /\ reply[t] = "none" /\ service # "down"
         /\ \A u \in Tasks \ {t} : stage[u] \in {"idle", "done"}
  BY DEF Inv, Types, Single, Stages

LEMMA LinkedInit == ServedInit => Linked
  BY DEF ServedInit, Init, Pool!Init, E!Init, Linked

\* What an execution does: it goes from one stage to the next, and appends to the
\* log its own event only, when it publishes.
LEMMA WorkDoes ==
  ASSUME NEW t \in Tasks, Work(t)
  PROVE  /\ pc[t] \in {"loading", "publishing", "reloading"}
         /\ UNCHANGED pc \/ \E p \in {"publishing", "reloading", "done"} : pc' = [pc EXCEPT ![t] = p]
         /\ \/ UNCHANGED log
            \/ pc[t] = "publishing" /\ log' = Append(log, E!Record(t))
<1> USE DEF E!Finish, E!RetryOrFail
<1>2. CASE E!Loaded(t) BY <1>2 DEF E!Loaded, E!Dispatch
<1>3. CASE E!Published(t) BY <1>3 DEF E!Published
<1>4. CASE E!Conflicted(t) BY <1>4 DEF E!Conflicted
<1>5. CASE E!PublishFails(t) BY <1>5 DEF E!PublishFails
<1>6. CASE E!Reloaded(t) BY <1>6 DEF E!Reloaded
<1>7. CASE E!LoadFails(t) BY <1>7 DEF E!LoadFails
<1> QED BY <1>2, <1>3, <1>4, <1>5, <1>6, <1>7 DEF Work

\* Around the executions, the pool moves only commands that have not begun.
LEMMA AroundMoves ==
  ASSUME Inv, Around
  PROVE  \A t \in Tasks : stage'[t] # stage[t] => stage[t] \in {"idle", "queued"}
<1>1. ASSUME NEW t \in Tasks, CallExecute(t) \/ Expire(t) \/ Reply(t) PROVE UNCHANGED stage
  BY <1>1 DEF CallExecute, Expire, Pool!Expire, Reply, poolVars
<1>2. ASSUME NEW l \in Loads, CallLoad(l) \/ LoadSettles(l) PROVE UNCHANGED stage
  BY <1>2 DEF CallLoad, LoadSettles, poolVars
<1>3. CASE Leave \/ Shutdown \/ Stopped \/ Closed
  BY <1>3 DEF Leave, Shutdown, Stopped, Closed, Pool!ShutdownEnds, Pool!ShutdownExpires, poolVars
<1>4. CASE Take
  <2>1. CASE Throw \/ Decline BY <2>1 DEF Throw, Decline, poolVars
  <2>2. CASE Submit
    <3>1. stage[Message] = "idle" /\ \E p \in {"granted", "queued", "done"} : stage' = [stage EXCEPT ![Message] = p]
      BY <2>2 DEF Submit, Pool!Refuse, Pool!Acquire
    <3> QED BY <3>1 DEF Inv, Types
  <2> QED BY <1>4, <2>1, <2>2 DEF Take
<1>5. CASE Joined
  <2>1. stage' = [t \in Tasks |-> IF t \in {waiting[i] : i \in DOMAIN waiting} THEN "done" ELSE stage[t]]
    BY <1>5 DEF Joined, Pool!Shutdown
  <2>2. \A i \in DOMAIN waiting : stage[waiting[i]] = "queued"
    BY DEF Inv, Single
  <2> QED BY <2>1, <2>2
<1> QED BY <1>1, <1>2, <1>3, <1>4, <1>5 DEF Around

LEMMA LinkedStep == Inv /\ Linked /\ [ServedNext]_servedVars => Linked'
<1> SUFFICES ASSUME Inv, Linked, [ServedNext]_servedVars PROVE Linked'
  OBVIOUS
<1>1. ASSUME NEW t \in Tasks, BeginCommand(t) PROVE Linked'
  <2>1. /\ stage[t] = "granted" /\ stage' = [stage EXCEPT ![t] = "working"]
        /\ pc' = [pc EXCEPT ![t] = "loading"]
    BY <1>1 DEF BeginCommand, Begin, Pool!Start, E!Execute
  <2> QED BY <2>1 DEF Linked, Inv, Types
<1>2. ASSUME NEW t \in Tasks, Work(t), UNCHANGED natsVars PROVE Linked'
  BY <1>2, WorkDoes DEF Linked, natsVars, poolVars
<1>3. ASSUME NEW t \in Tasks, CommandEnds(t) PROVE Linked'
  <2>1. /\ stage[t] = "working" /\ pc[t] = "done" /\ Pool!Release(t) /\ UNCHANGED pc
    BY <1>3 DEF CommandEnds, CommandSettles, Pool!Settle, entityVars
  <2>2. waiting = <<>>
    <3>1. ASSUME waiting # <<>> PROVE FALSE
      <4>1. 1 \in DOMAIN waiting /\ waiting[1] \in Tasks BY <3>1 DEF Inv, Types
      <4>2. stage[waiting[1]] = "queued" BY <4>1 DEF Inv, Single
      <4> QED BY <2>1, <4>1, <4>2, InHand
    <3> QED BY <3>1
  <2>3. stage' = [stage EXCEPT ![t] = "done"]
    BY <2>1, <2>2 DEF Pool!Release
  <2> QED BY <2>1, <2>3 DEF Linked, Inv, Types
<1>4. ASSUME E!PublishElsewhere \/ (\E t \in Tasks : E!Arrives(t)), UNCHANGED natsVars
      PROVE  Linked'
  BY <1>4 DEF E!PublishElsewhere, E!Arrives, natsVars, poolVars, Linked
<1>5. CASE Around
  BY <1>5, AroundMoves DEF Around, entityVars, Linked
<1>6. CASE UNCHANGED servedVars
  BY <1>6 DEF servedVars, natsVars, poolVars, entityVars, Linked
<1> QED BY <1>1, <1>2, <1>3, <1>4, <1>5, <1>6 DEF ServedNext, Behind

LEMMA LinkedInvariance == ServedSpec => [](Inv /\ Linked)
  BY ServedInvariance, LinkedInit, LinkedStep, PTL DEF ServedSpec

-----------------------------------------------------------------------------
(***************************************************************************)
(* The executions run one at a time.                                       *)
(***************************************************************************)

\* The actions of an execution do not depend on how many may be in progress.
LEMMA SameWork ==
  ASSUME NEW t \in Tasks, Work(t)
  PROVE  Serial!Next
<1>1. CASE E!Loaded(t)
  BY <1>1 DEF E!Loaded, E!Readable, E!Replay, E!State, E!After, E!Revision, E!Used,
    E!Initial, E!Dispatch, E!Finish, Serial!Loaded, Serial!Readable,
    Serial!Replay, Serial!State, Serial!After, Serial!Revision, Serial!Used, Serial!Initial,
    Serial!Dispatch, Serial!Finish, Serial!Next
<1>2. CASE E!Published(t)
  BY <1>2 DEF E!Published, E!Accepts, E!Guarded, E!Record, Serial!Published,
    Serial!Accepts, Serial!Guarded, Serial!Record, Serial!Next
<1>3. CASE E!Conflicted(t)
  BY <1>3 DEF E!Conflicted, E!Accepts, E!Guarded, E!Finish, Serial!Conflicted,
    Serial!Accepts, Serial!Guarded, Serial!Finish, Serial!Next
<1>4. CASE E!PublishFails(t)
  BY <1>4 DEF E!PublishFails, E!RetryOrFail, E!Accepts, E!Guarded, E!Record, E!Finish,
    Serial!PublishFails, Serial!RetryOrFail, Serial!Accepts, Serial!Guarded,
    Serial!Record, Serial!Finish, Serial!Next
<1>5. CASE E!Reloaded(t)
  BY <1>5 DEF E!Reloaded, E!Readable, E!State, E!After, E!Finish, Serial!Reloaded,
    Serial!Readable, Serial!State, Serial!After, Serial!Finish, Serial!Next
<1>6. CASE E!LoadFails(t)
  BY <1>6 DEF E!LoadFails, E!Finish, Serial!LoadFails, Serial!Finish, Serial!Next
<1> QED BY <1>1, <1>2, <1>3, <1>4, <1>5, <1>6 DEF Work

LEMMA SameArrival ==
  ASSUME NEW t \in Tasks, E!Arrives(t)
  PROVE  Serial!Next
BY DEF E!Arrives, E!Accepts, E!Guarded, E!Record, Serial!Arrives, Serial!Accepts,
  Serial!Guarded, Serial!Record, Serial!Next

\* A command begins when no other execution is in progress.
LEMMA BeginsAlone ==
  ASSUME Inv, Linked, NEW t \in Tasks, BeginCommand(t)
  PROVE  Serial!Execute(t)
<1>1. stage[t] = "granted" /\ E!Execute(t)
  BY DEF BeginCommand, Begin, Pool!Start
<1>2. Serial!InFlight = {}
  BY <1>1, InHand DEF Serial!InFlight, Linked
<1>3. Cardinality({}) < 1
  BY FS_EmptySet
<1>4. Serial!Cardinality({}) = Cardinality({})
  BY DEF Serial!Cardinality, Cardinality
<1> QED BY <1>1, <1>2, <1>3, <1>4 DEF E!Execute, Serial!Execute

\* The entity service behind one NatsService, however many permits its pool has and
\* whichever timers fire, is the one EntityService describes with one execution at
\* a time, so that what is checked or proved of that one holds of it.
THEOREM ExecutesOneAtATime == ServedSpec => OneAtATime
<1>1. ServedInit => Serial!Init
  BY DEF ServedInit, E!Init, Serial!Init, E!Initial, Serial!Initial
<1>2. Inv /\ Linked /\ [ServedNext]_servedVars => [Serial!Next]_(Serial!vars)
  <2> SUFFICES ASSUME Inv, Linked, [ServedNext]_servedVars
               PROVE  Serial!Next \/ UNCHANGED Serial!vars
    OBVIOUS
  <2>1. ASSUME NEW t \in Tasks, BeginCommand(t) PROVE Serial!Next
    BY <2>1, BeginsAlone DEF Serial!Next
  <2>2. ASSUME NEW t \in Tasks, Work(t) \/ E!Arrives(t) PROVE Serial!Next
    BY <2>2, SameWork, SameArrival
  <2>3. ASSUME NEW t \in Tasks, CommandEnds(t) PROVE UNCHANGED Serial!vars
    BY <2>3 DEF CommandEnds, entityVars, Serial!vars
  <2>4. CASE E!PublishElsewhere
    BY <2>4 DEF E!PublishElsewhere, E!Others, Serial!PublishElsewhere, Serial!Others, Serial!Next
  <2>5. CASE Around \/ UNCHANGED servedVars
    BY <2>5 DEF Around, servedVars, entityVars, Serial!vars
  <2> QED BY <2>1, <2>2, <2>3, <2>4, <2>5 DEF ServedNext, Behind
<1> QED BY <1>1, <1>2, LinkedInvariance, PTL DEF ServedSpec, OneAtATime, Serial!Spec

-----------------------------------------------------------------------------
(***************************************************************************)
(* What the executions leave in the log.                                   *)
(***************************************************************************)

\* A store in the process is written by the command in hand and by other programs, and
\* the commands whose events are in it were taken in that order.
Ordered ==
  /\ \E S : log \in Seq(S)
  /\ \A t \in Tasks : late[t] = 0
  /\ \A i, j \in DOMAIN log :
       i <= j /\ log[i].by \in Tasks /\ log[j].by \in Tasks =>
         \E m, n \in 1..taken : m <= n /\ log[i].by = inbox[m] /\ log[j].by = inbox[n]

\* A step of the composition leaves the log alone, or appends an event of another
\* program, or one of a command at work.
LEMMA ServedRecords ==
  ASSUME Inv, Linked, Ordered, [ServedNext]_servedVars
  PROVE  \/ UNCHANGED log
         \/ \E r : /\ log' = Append(log, r)
                   /\ \/ r.by \notin Tasks
                      \/ r.by \in Tasks /\ stage[r.by] = "working" /\ UNCHANGED natsVars
<1>1. ASSUME NEW t \in Tasks, BeginCommand(t) \/ CommandEnds(t) PROVE UNCHANGED log
  BY <1>1 DEF BeginCommand, E!Execute, CommandEnds, entityVars
<1>2. ASSUME NEW t \in Tasks, Work(t), UNCHANGED natsVars, log' = Append(log, E!Record(t))
      PROVE  /\ E!Record(t).by = t /\ stage[t] = "working" /\ UNCHANGED natsVars
  BY <1>2, WorkDoes DEF E!Record, Linked
<1>3. ASSUME E!PublishElsewhere
      PROVE  \E r : log' = Append(log, r) /\ r.by \notin Tasks
  <2>1. PICK e \in Foreign :
          log' = Append(log, [by |-> E!Others, command |-> Nothing, event |-> e])
    BY <1>3 DEF E!PublishElsewhere
  <2> QED BY <2>1, ServedAssumption
<1>4. CASE Around \/ UNCHANGED servedVars
  BY <1>4 DEF Around, servedVars, entityVars
<1>5. ASSUME NEW t \in Tasks, E!Arrives(t) PROVE FALSE
  <2>1. late[t] > 0 /\ late[t] = 0
    BY <1>5 DEF E!Arrives, Ordered
  <2> QED BY <2>1
<1> QED BY <1>1, <1>2, <1>3, <1>4, <1>5, WorkDoes DEF ServedNext, Behind

\* A store in the process carries out every request before it answers it.
LEMMA NothingLate ==
  ASSUME ~Remote, Ordered, [ServedNext]_servedVars
  PROVE  UNCHANGED late
<1>1. ASSUME NEW t \in Tasks, BeginCommand(t) \/ CommandEnds(t) PROVE UNCHANGED late
  BY <1>1 DEF BeginCommand, E!Execute, CommandEnds, entityVars
<1>2. ASSUME NEW t \in Tasks, Work(t) PROVE UNCHANGED late
  BY <1>2 DEF Work, E!Loaded, E!Published, E!Conflicted, E!PublishFails, E!Reloaded, E!LoadFails
<1>3. ASSUME NEW t \in Tasks, E!Arrives(t) PROVE FALSE
  <2>1. late[t] > 0 /\ late[t] = 0
    BY <1>3 DEF E!Arrives, Ordered
  <2> QED BY <2>1
<1>4. CASE E!PublishElsewhere \/ Around \/ UNCHANGED servedVars
  BY <1>4 DEF E!PublishElsewhere, Around, servedVars, entityVars
<1> QED BY <1>1, <1>2, <1>3, <1>4 DEF ServedNext, Behind

\* Requests that were taken stay where they are on the iterator.
LEMMA TakenStay ==
  ASSUME Inv, [Next]_natsVars
  PROVE  /\ taken \in Nat /\ taken' \in Nat /\ taken <= taken'
         /\ \A m \in 1..taken : inbox'[m] = inbox[m]
<1>0. taken \in Nat /\ taken <= Len(inbox) /\ Len(inbox) \in Nat
  BY DEF Inv, Types
<1>1. ASSUME NEW t \in Tasks, CallExecute(t)
      PROVE  taken' = taken /\ \A m \in 1..taken : inbox'[m] = inbox[m]
  BY <1>0, <1>1 DEF CallExecute, Inv, Types
<1>2. ASSUME NEW l \in Loads, CallLoad(l) \/ LoadSettles(l) PROVE UNCHANGED <<taken, inbox>>
  BY <1>2 DEF CallLoad, LoadSettles
<1>3. ASSUME NEW t \in Tasks, Begin(t) \/ Expire(t) \/ CommandSettles(t) \/ Reply(t)
      PROVE  UNCHANGED <<taken, inbox>>
  BY <1>3 DEF Begin, Expire, CommandSettles, Reply, serviceVars
<1>4. CASE Leave \/ Shutdown \/ Stopped \/ Joined \/ Closed \/ UNCHANGED natsVars
  BY <1>0, <1>4 DEF Leave, Shutdown, Stopped, Joined, Closed, natsVars, serviceVars
<1>5. CASE Take
  BY <1>0, <1>5 DEF Take
<1> QED BY <1>0, <1>1, <1>2, <1>3, <1>4, <1>5 DEF Next, Serve

LEMMA OrderedInit == ServedInit => Ordered
<1> SUFFICES ASSUME ServedInit PROVE Ordered
  OBVIOUS
<1>1. log = <<>> BY DEF ServedInit, E!Init
<1>2. log \in Seq({}) /\ DOMAIN log = {} BY <1>1
<1>3. \A t \in Tasks : late[t] = 0 BY DEF ServedInit, E!Init
<1> QED BY <1>2, <1>3 DEF Ordered

LEMMA OrderedStep ==
  ASSUME ~Remote
  PROVE  Inv /\ Linked /\ Ordered /\ [ServedNext]_servedVars => Ordered'
<1> SUFFICES ASSUME Inv, Linked, Ordered, [ServedNext]_servedVars PROVE Ordered'
  OBVIOUS
<1>0. \A t \in Tasks : late'[t] = 0
  BY NothingLate DEF Ordered
<1>1. /\ taken \in Nat /\ taken' \in Nat /\ taken <= taken'
      /\ \A m \in 1..taken : inbox'[m] = inbox[m]
  BY ServedStep, TakenStay DEF servedVars
<1>2. CASE UNCHANGED log
  <2>1. \A m \in 1..taken : m \in 1..taken' BY <1>1
  <2> QED BY <1>0, <1>1, <1>2, <2>1 DEF Ordered
<1>3. ASSUME NEW r, log' = Append(log, r),
             \/ r.by \notin Tasks
             \/ r.by \in Tasks /\ stage[r.by] = "working" /\ UNCHANGED natsVars
      PROVE  Ordered'
  <2>1. PICK S : log \in Seq(S) BY DEF Ordered
  <2>2. log \in Seq(S \cup {r}) /\ log' \in Seq(S \cup {r}) BY <1>3, <2>1
  <2>3. /\ DOMAIN log = 1..Len(log) /\ DOMAIN log' = 1..(Len(log) + 1) /\ Len(log) \in Nat
        /\ log'[Len(log) + 1] = r /\ \A i \in DOMAIN log : log'[i] = log[i]
    BY <1>3, <2>1
  <2>4. \A m \in 1..taken : m \in 1..taken' /\ m <= taken BY <1>1
  <2>5. ASSUME NEW i \in DOMAIN log', NEW j \in DOMAIN log', i <= j,
               log'[i].by \in Tasks, log'[j].by \in Tasks
        PROVE  \E m, n \in 1..taken' : m <= n /\ log'[i].by = inbox'[m] /\ log'[j].by = inbox'[n]
    <3>1. CASE j \in DOMAIN log
      <4>1. i \in DOMAIN log BY <2>3, <2>5, <3>1
      <4>2. PICK m, n \in 1..taken : m <= n /\ log[i].by = inbox[m] /\ log[j].by = inbox[n]
        BY <2>3, <2>5, <3>1, <4>1 DEF Ordered
      <4> QED BY <1>1, <2>3, <2>4, <3>1, <4>1, <4>2
    <3>2. CASE j = Len(log) + 1
      <4>1. r.by = inbox[taken] /\ taken \in 1..taken /\ UNCHANGED <<inbox, taken>>
        <5>1. r.by \in Tasks /\ stage[r.by] = "working" /\ UNCHANGED natsVars
          BY <1>3, <2>3, <2>5, <3>2
        <5>2. r.by = inbox[taken] /\ taken \in DOMAIN inbox
          BY <5>1, InHand
        <5> QED BY <1>1, <5>1, <5>2 DEF natsVars, serviceVars, Inv, Types
      <4>2. CASE i = Len(log) + 1
        BY <2>3, <3>2, <4>1, <4>2
      <4>3. CASE i \in DOMAIN log
        <5>1. PICK m \in 1..taken : log[i].by = inbox[m]
          BY <2>3, <2>5, <4>3 DEF Ordered
        <5> QED BY <2>3, <2>4, <3>2, <4>1, <4>3, <5>1
      <4> QED BY <2>3, <4>2, <4>3
    <3> QED BY <2>3, <3>1, <3>2
  <2> QED BY <1>0, <2>2, <2>5 DEF Ordered
<1> QED BY <1>2, <1>3, ServedRecords

LEMMA OrderedInvariance ==
  ASSUME ~Remote
  PROVE  ServedSpec => [](Inv /\ Linked /\ Ordered)
BY LinkedInvariance, OrderedInit, OrderedStep, PTL DEF ServedSpec

\* Over a store in the process, as the receipts sample has it, the events of commands
\* are recorded in the order in which the commands arrived, however many permits the
\* pool has. Over a network this is not so: nobody waits for a request that failed.
THEOREM RecordsInOrder ==
  ASSUME ~Remote
  PROVE  ServedSpec => []RecordedInOrder
<1>1. Inv /\ Ordered => RecordedInOrder
  <2> SUFFICES ASSUME Inv, Ordered, NEW i \in DOMAIN log, NEW j \in DOMAIN log, i < j,
                      NEW m \in DOMAIN inbox, NEW n \in DOMAIN inbox,
                      log[i].by = inbox[m], log[j].by = inbox[n]
               PROVE  m <= n
    BY DEF RecordedInOrder
  <2>1. /\ inbox[m] \in Tasks /\ inbox[n] \in Tasks /\ 1..taken \subseteq DOMAIN inbox
        /\ m \in Nat /\ n \in Nat
    BY DEF Inv, Types
  <2>2. i <= j
    BY DEF Ordered
  <2>3. PICK a, b \in 1..taken : a <= b /\ log[i].by = inbox[a] /\ log[j].by = inbox[b]
    BY <2>1, <2>2 DEF Ordered
  <2>4. a = m /\ b = n
    <3>1. a \in DOMAIN inbox /\ b \in DOMAIN inbox BY <2>1, <2>3
    <3> QED BY <2>3, <3>1 DEF Inv, Mailbox
  <2> QED BY <2>3, <2>4
<1> QED BY <1>1, OrderedInvariance, PTL

\* Over a store in the process an answer is final: a command that was answered
\* records nothing any more, and nothing is recorded for a client once the service is
\* down. A remote store may carry out a request after its error was answered.
THEOREM AnswersAreFinal ==
  ASSUME ~Remote
  PROVE  ServedSpec => AnswerIsFinal
<1>1. Inv /\ Linked /\ Ordered /\ [ServedNext]_servedVars =>
        [\A t \in Tasks :
           reply[t] # "none" \/ service = "down" => E!RecordedBy(t)' = E!RecordedBy(t)]_servedVars
  <2> SUFFICES ASSUME Inv, Linked, Ordered, [ServedNext]_servedVars, NEW t \in Tasks,
                      reply[t] # "none" \/ service = "down"
               PROVE  E!RecordedBy(t)' = E!RecordedBy(t)
    OBVIOUS
  <2>1. CASE UNCHANGED log
    BY <2>1 DEF E!RecordedBy
  <2>2. ASSUME NEW r, log' = Append(log, r),
               \/ r.by \notin Tasks
               \/ r.by \in Tasks /\ stage[r.by] = "working"
        PROVE  E!RecordedBy(t)' = E!RecordedBy(t)
    <3>1. r.by # t BY <2>2, InHand
    <3>2. PICK S : log \in Seq(S) BY DEF Ordered
    <3>3. /\ DOMAIN log = 1..Len(log) /\ DOMAIN log' = 1..(Len(log) + 1) /\ Len(log) \in Nat
          /\ log'[Len(log) + 1] = r /\ \A i \in DOMAIN log : log'[i] = log[i]
      BY <2>2, <3>2
    <3> QED BY <3>1, <3>3 DEF E!RecordedBy
  <2> QED BY <2>1, <2>2, ServedRecords
<1> QED BY <1>1, OrderedInvariance, PTL DEF ServedSpec, AnswerIsFinal

-----------------------------------------------------------------------------
(***************************************************************************)
(* The entity service behind it, as its callers find it.                   *)
(***************************************************************************)

\* The same entity service, with what is proved of it.
SP == INSTANCE EntityService_proofs WITH
  Executions <- Tasks, MaxInFlight <- 1, outcome <- ended, Start <- StartState, Amounts <- {}

\* The assumptions of EntityService and its proofs hold of this instance of them.
LEMMA EntityAssumptions ==
  SP!FlagAssumption /\ SP!BoundAssumption /\ SP!OthersAssumption /\ SP!AmountsAssumption
BY StoreAssumption, ServedAssumption DEF SP!FlagAssumption, SP!BoundAssumption,
  SP!OthersAssumption, SP!Others, SP!AmountsAssumption, E!Others

\* Serial and SP are the same specification, replay first.
LEMMA SameReplay ==
  /\ Serial!Readable = SP!Readable
  /\ \A events : Serial!State(events) = SP!State(events) /\ Serial!Replay(events) = SP!Replay(events)
BY DEF Serial!Readable, SP!Readable, Serial!Replay, SP!Replay, Serial!State, SP!State,
  Serial!After, SP!After, Serial!Revision, SP!Revision, Serial!Used, SP!Used,
  Serial!Initial, SP!Initial

LEMMA SameEntityService == Serial!Spec => SP!Spec
<1>1. Serial!Init => SP!Init
  BY DEF Serial!Init, SP!Init, Serial!Initial, SP!Initial
<1>2. [Serial!Next]_(Serial!vars) => [SP!Next]_(SP!vars)
  <2> SUFFICES ASSUME [Serial!Next]_(Serial!vars) PROVE SP!Next \/ UNCHANGED SP!vars
    OBVIOUS
  <2>1. ASSUME NEW x \in Tasks, Serial!Execute(x) PROVE SP!Execute(x)
    BY <2>1 DEF Serial!Execute, SP!Execute, Serial!InFlight, SP!InFlight, Serial!Cardinality, SP!Cardinality
  <2>2. ASSUME NEW x \in Tasks, Serial!Loaded(x) PROVE SP!Loaded(x)
    BY <2>2, SameReplay DEF Serial!Loaded, SP!Loaded, Serial!Dispatch,
      SP!Dispatch, Serial!Finish, SP!Finish
  <2>3. ASSUME NEW x \in Tasks, Serial!Published(x) PROVE SP!Published(x)
    BY <2>3 DEF Serial!Published, SP!Published, Serial!Accepts, SP!Accepts, Serial!Guarded, SP!Guarded, Serial!Record, SP!Record
  <2>4. ASSUME NEW x \in Tasks, Serial!Conflicted(x) PROVE SP!Conflicted(x)
    BY <2>4 DEF Serial!Conflicted, SP!Conflicted, Serial!Accepts, SP!Accepts, Serial!Guarded,
      SP!Guarded, Serial!Finish, SP!Finish
  <2>5. ASSUME NEW x \in Tasks, Serial!PublishFails(x) PROVE SP!PublishFails(x)
    BY <2>5 DEF Serial!PublishFails, SP!PublishFails, Serial!RetryOrFail, SP!RetryOrFail,
      Serial!Accepts, SP!Accepts, Serial!Guarded, SP!Guarded,
      Serial!Record, SP!Record, Serial!Finish, SP!Finish
  <2>6. ASSUME NEW x \in Tasks, Serial!Reloaded(x) PROVE SP!Reloaded(x)
    BY <2>6, SameReplay DEF Serial!Reloaded, SP!Reloaded, Serial!Finish, SP!Finish
  <2>7. ASSUME NEW x \in Tasks, Serial!LoadFails(x) PROVE SP!LoadFails(x)
    BY <2>7 DEF Serial!LoadFails, SP!LoadFails, Serial!Finish, SP!Finish
  <2>8. Serial!PublishElsewhere => SP!PublishElsewhere
    BY DEF Serial!PublishElsewhere, SP!PublishElsewhere, Serial!Others, SP!Others
  <2>9. UNCHANGED Serial!vars => UNCHANGED SP!vars
    BY DEF Serial!vars, SP!vars
  <2>10. ASSUME NEW x \in Tasks, Serial!Arrives(x) PROVE SP!Arrives(x)
    BY <2>10 DEF Serial!Arrives, SP!Arrives, Serial!Accepts, SP!Accepts, Serial!Guarded,
      SP!Guarded, Serial!Record, SP!Record
  <2> QED BY <2>1, <2>2, <2>3, <2>4, <2>5, <2>6, <2>7, <2>8, <2>9, <2>10 DEF Serial!Next, SP!Next
<1> QED BY <1>1, <1>2, PTL DEF Serial!Spec, SP!Spec

\* What EntityService_proofs proves holds of the entity service behind a NatsService.
LEMMA ServesEntity == ServedSpec => SP!Spec
  BY ExecutesOneAtATime, SameEntityService, PTL DEF OneAtATime

\* The entity a command is answered with has its event in it.
THEOREM ServedAnswersShowTheirWrite ==
  ASSUME ~Stale
  PROVE  ServedSpec => []ReadsItsWrite
<1>1. SP!Spec => []SP!ReadsItsWrite
  BY EntityAssumptions, SP!AnswersShowTheirWrite, Zenon
<1>2. SP!ReadsItsWrite => ReadsItsWrite
  BY DEF SP!ReadsItsWrite, ReadsItsWrite, E!ReadsItsWrite, SP!RecordedBy, E!RecordedBy
<1> QED BY <1>1, <1>2, ServesEntity, PTL

\* Commands sent through one service over a store of its own need no guard: every
\* event in the log is the decision of its handler on the events before it, for
\* any domain, whichever timers fire and whichever store calls fail.
Recorded == SP!IsLog(log) /\ SP!AllSerialize

THEOREM ServedCommandsSerialize ==
  ASSUME ~Stale, ~Remote, MaxForeign = 0
  PROVE  ServedSpec => []Recorded
<1>1. SP!Alone
  BY DEF SP!Alone
<1>2. SP!Spec => []SP!AllSerialize
  BY <1>1, EntityAssumptions, SP!CommandsAloneSerialize, Zenon
<1>3. Ordered => SP!IsLog(log)
  BY DEF Ordered, SP!IsLog
<1> QED BY <1>2, <1>3, ServesEntity, OrderedInvariance, PTL DEF Recorded

-----------------------------------------------------------------------------
(***************************************************************************)
(* Folds, item by item: what the community modules compute, as equations.  *)
(* A recursive function over sets is a CHOOSE; a function that satisfies its *)
(* equation is shown to exist, and what it is at 1..k follows for each k.  *)
(***************************************************************************)

\* Induction up to n (EntityService_proofs).
LEMMA Induct ==
  ASSUME NEW n \in Nat, NEW T, 0 \in T, \A k \in 0..(n - 1) : k \in T => k + 1 \in T
  PROVE  \A k \in 0..n : k \in T
BY EntityAssumptions, SP!Induction, Zenon

\* f folds the subsets of S: pick takes an element, step adds it to the rest.
IsFoldOf(f, S, pick, base, step) ==
  \A s \in SUBSET S : f[s] = IF s = {} THEN base ELSE step[pick[s]][f[s \ {pick[s]}]]

\* A function that folds a finite set, element by element, exists.
LEMMA FoldExists ==
  ASSUME NEW S, IsFiniteSet(S), NEW pick, \A s \in SUBSET S : s # {} => pick[s] \in s,
         NEW V, NEW base \in V, NEW step, \A x \in S : \A v \in V : step[x][v] \in V
  PROVE  \E f \in [SUBSET S -> V] : IsFoldOf(f, S, pick, base, step)
<1> DEFINE Small(k) == {s \in SUBSET S : Cardinality(s) <= k}
           Value(f, s) == IF s = {} THEN base ELSE step[pick[s]][f[s \ {pick[s]}]]
           T == {k \in Nat : \E f \in [Small(k) -> V] : \A s \in Small(k) : f[s] = Value(f, s)}
<1>1. Cardinality(S) \in Nat /\ \A s \in SUBSET S : IsFiniteSet(s) /\ Cardinality(s) \in Nat
                                                    /\ Cardinality(s) <= Cardinality(S)
  BY FS_Subset, FS_CardinalityType
<1>2. 0 \in T
  <2>1. \A s \in Small(0) : s = {}
    BY <1>1, FS_EmptySet
  <2> DEFINE f == [s \in Small(0) |-> base]
  <2>2. f \in [Small(0) -> V] /\ \A s \in Small(0) : f[s] = Value(f, s)
    BY <2>1
  <2> QED BY <2>2
<1>3. ASSUME NEW k \in 0..(Cardinality(S) - 1), k \in T PROVE k + 1 \in T
  <2>1. PICK f \in [Small(k) -> V] : \A s \in Small(k) : f[s] = Value(f, s)
    BY <1>3
  <2>2. ASSUME NEW s \in Small(k + 1), s # {}
        PROVE  /\ pick[s] \in S /\ s \ {pick[s]} \in Small(k)
    <3>1. pick[s] \in s
      BY <2>2
    <3>2. IsFiniteSet(s) /\ Cardinality(s) \in Nat /\ Cardinality(s \ {pick[s]}) = Cardinality(s) - 1
      BY <1>1, <3>1, FS_RemoveElement
    <3>3. Cardinality(s) <= k + 1 /\ s \ {pick[s]} \in SUBSET S /\ Cardinality(s \ {pick[s]}) \in Nat
      BY <1>1
    <3>4. Cardinality(s \ {pick[s]}) <= k
      BY <1>1, <3>2, <3>3
    <3> QED BY <3>1, <3>3, <3>4
  <2> DEFINE g == [s \in Small(k + 1) |-> Value(f, s)]
  <2>3. \A s \in Small(k) : s \in Small(k + 1) /\ g[s] = f[s]
    <3>1. \A s \in Small(k) : s \in Small(k + 1)
      BY <1>1
    <3> HIDE DEF Value, Small
    <3> QED BY <2>1, <3>1
  <2>4. \A s \in Small(k + 1) : Value(f, s) \in V /\ Value(g, s) = Value(f, s)
    <3> HIDE DEF g, Small
    <3> QED BY <2>1, <2>2, <2>3
  <2>5. g \in [Small(k + 1) -> V] /\ \A s \in Small(k + 1) : g[s] = Value(g, s)
    <3> HIDE DEF Value, Small
    <3> QED BY <2>4
  <2>6. k + 1 \in Nat
    BY <1>1
  <2> QED
    <3> HIDE DEF g
    <3> QED BY <2>5, <2>6
<1>4. Cardinality(S) \in T
  <2> HIDE DEF T
  <2> QED BY <1>1, <1>2, <1>3, Induct
<1>5. Small(Cardinality(S)) = SUBSET S
  BY <1>1
<1>6. PICK f \in [SUBSET S -> V] : \A s \in SUBSET S : f[s] = Value(f, s)
  <2> HIDE DEF Small, Value
  <2> QED BY <1>4, <1>5
<1> QED BY <1>6 DEF IsFoldOf

\* Prefixes of 1..n, as a fold from the left takes them.
LEMMA Prefixes ==
  ASSUME NEW n \in Nat
  PROVE  /\ IsFiniteSet(1..n)
         /\ \A s \in SUBSET (1..n) : s # {} => R!Max(s) \in s
         /\ \A k \in 1..n : R!Max(1..k) = k /\ (1..k) \ {k} = 1..(k - 1) /\ 1..k # {}
         /\ 1..0 = {} /\ \A k \in 0..n : 1..k \in SUBSET (1..n)
<1>1. IsFiniteSet(1..n)
  BY FS_Interval
<1>2. ASSUME NEW s \in SUBSET (1..n), s # {} PROVE R!Max(s) \in s
  <2>1. \E i \in s : \A j \in s : j <= i
    BY <1>2, EntityAssumptions, SP!LargestExists
  <2>2. PICK i \in s : \A j \in s : j <= i
    BY <2>1
  <2>3. \A j \in s : j \in Int /\ i \in Int
    OBVIOUS
  <2>4. \A j \in s : i >= j
    BY <2>2, <2>3
  <2>5. \E k \in s : \A j \in s : k >= j
    BY <2>4
  <2> QED BY <2>5 DEF R!Max
<1>3. ASSUME NEW k \in 1..n PROVE R!Max(1..k) = k
  <2>1. k \in 1..k /\ \A j \in 1..k : k >= j
    OBVIOUS
  <2>2. \A i \in 1..k : (\A j \in 1..k : i >= j) => i = k
    OBVIOUS
  <2>3. R!Max(1..k) \in 1..k /\ \A j \in 1..k : R!Max(1..k) >= j
    BY <2>1 DEF R!Max
  <2> QED BY <2>2, <2>3
<1> QED BY <1>1, <1>2, <1>3

\* A fold of 1..n that takes the largest element takes it in order.
InTurn(a, n, base, step, value) ==
  a[0] = base /\ (\A i \in 1..n : a[i] = step[i][a[i - 1]]) /\ a[n] = value

LEMMA FoldInOrder ==
  ASSUME NEW n \in Nat, NEW V, NEW base \in V, NEW step, \A i \in 1..n : \A v \in V : step[i][v] \in V,
         NEW f, f[{}] = base, \A k \in 1..n : f[1..(k - 1)] \in V => f[1..k] = step[k][f[1..(k - 1)]]
  PROVE  \E a \in [0..n -> V] : InTurn(a, n, base, step, f[1..n])
<1> DEFINE a == [k \in 0..n |-> f[1..k]]
           T == {k \in 0..n : f[1..k] \in V}
<1>1. f[1..0] = base
  <2>1. 1..0 = {}
    OBVIOUS
  <2> QED BY <2>1
<1>3. \A k \in 0..n : k \in T
  <2>1. 0 \in T
    BY <1>1
  <2>2. ASSUME NEW k \in 0..(n - 1), k \in T PROVE k + 1 \in T
    <3>1. k + 1 \in 1..n /\ (k + 1) - 1 = k /\ k + 1 \in 0..n
      OBVIOUS
    <3>2. f[1..(k + 1)] = step[k + 1][f[1..k]]
      BY <2>2, <3>1
    <3>3. f[1..k] \in V /\ step[k + 1][f[1..k]] \in V
      BY <2>2, <3>1
    <3> QED BY <3>1, <3>2, <3>3
  <2> HIDE DEF T
  <2> QED BY <2>1, <2>2, Induct
<1>4. a \in [0..n -> V]
  BY <1>3
<1>5. a[0] = base /\ \A i \in 1..n : a[i] = step[i][a[i - 1]]
  <2>1. a[0] = base
    BY <1>1
  <2>2. ASSUME NEW i \in 1..n PROVE a[i] = step[i][a[i - 1]]
    <3>1. i - 1 \in 0..n /\ i \in 0..n
      OBVIOUS
    <3>2. a[i - 1] = f[1..(i - 1)] /\ a[i] = f[1..i] /\ f[1..(i - 1)] \in V
      BY <1>3, <3>1
    <3> QED BY <3>2
  <2> HIDE DEF a
  <2> QED BY <2>1, <2>2
<1>6. a[n] = f[1..n]
  OBVIOUS
<1> QED
  <2> HIDE DEF a
  <2> QED BY <1>4, <1>5, <1>6 DEF InTurn

\* The receipt's total, item by item.
Totalling(a, items, n) ==
  a[0] = 0 /\ \A i \in 1..n : a[i] = a[i - 1] + items[i].price

LEMMA TotalEquation ==
  ASSUME NEW n \in Nat, NEW items, DOMAIN items = 1..n, \A i \in 1..n : items[i].price \in Nat
  PROVE  \E a \in [0..n -> Nat] : Totalling(a, items, n) /\ R!calculateTotal(items) = a[n]
<1> DEFINE pick == [s \in SUBSET (1..n) |-> R!Max(s)]
           step == [i \in 1..n |-> [v \in Nat |-> v + items[i].price]]
           Value(g, s) == IF s = {} THEN 0 ELSE g[s \ {R!Max(s)}] + items[R!Max(s)].price
           IsFold(g) == g = [s \in SUBSET DOMAIN items |-> Value(g, s)]
           f == CHOOSE g : IsFold(g)
<1>1. R!calculateTotal(items) = f[1..n]
  BY DEF R!calculateTotal, R!FoldLeft, R!MapThenFoldSet
<1>2. \A s \in SUBSET (1..n) : s # {} => pick[s] \in s
  BY Prefixes
<1>3. \A i \in 1..n : \A v \in Nat : step[i][v] \in Nat /\ step[i][v] = v + items[i].price
  OBVIOUS
<1>4. \A s \in SUBSET (1..n) : pick[s] = R!Max(s)
  OBVIOUS
<1>5. IsFold(f)
  <2>1. IsFiniteSet(1..n)
    BY Prefixes
  <2>2. 0 \in Nat
    OBVIOUS
  <2>3. \E g \in [SUBSET (1..n) -> Nat] : IsFoldOf(g, 1..n, pick, 0, step)
    <3>1. \A i \in 1..n : \A v \in Nat : step[i][v] \in Nat
      BY <1>3
    <3> DEFINE S == 1..n
               zero == 0
               V == Nat
    <3>2. IsFiniteSet(S) /\ (\A s \in SUBSET S : s # {} => pick[s] \in s) /\ zero \in V
          /\ (\A i \in S : \A v \in V : step[i][v] \in V)
      BY <1>2, <2>1, <2>2, <3>1
    <3> HIDE DEF pick, step, S, zero, V
    <3>3. \E g \in [SUBSET S -> V] : IsFoldOf(g, S, pick, zero, step)
      BY <3>2, FoldExists
    <3> QED BY <3>3 DEF S, zero, V
  <2>4. PICK g \in [SUBSET (1..n) -> Nat] : IsFoldOf(g, 1..n, pick, 0, step)
    BY <2>3
  <2>5. ASSUME NEW s \in SUBSET (1..n) PROVE g[s] = Value(g, s)
    <3> HIDE DEF pick, step
    <3>1. CASE s = {} BY <2>4, <3>1 DEF IsFoldOf
    <3>2. CASE s # {}
      <4>1. R!Max(s) \in 1..n /\ pick[s] = R!Max(s) /\ g[s \ {R!Max(s)}] \in Nat
        BY <1>2, <1>4, <3>2
      <4>2. g[s] = step[R!Max(s)][g[s \ {R!Max(s)}]]
        BY <2>4, <3>2, <4>1 DEF IsFoldOf
      <4> QED BY <1>3, <3>2, <4>1, <4>2
    <3> QED BY <3>1, <3>2
  <2>6. IsFold(g)
    <3> HIDE DEF Value
    <3> QED BY <2>5
  <2> QED
    <3> HIDE DEF IsFold
    <3> QED BY <2>6
<1>6. f[{}] = 0 /\ \A k \in 1..n : f[1..k] = f[1..(k - 1)] + items[k].price
  <2>1. \A s \in SUBSET (1..n) : f[s] = Value(f, s)
    <3> HIDE DEF Value, f
    <3> QED BY <1>5
  <2> HIDE DEF f
  <2>2. ASSUME NEW k \in 1..n PROVE f[1..k] = f[1..(k - 1)] + items[k].price
    <3>1. R!Max(1..k) = k /\ (1..k) \ {k} = 1..(k - 1) /\ 1..k # {} /\ 1..k \in SUBSET (1..n)
      BY Prefixes
    <3> QED BY <2>1, <3>1
  <2> QED BY <2>1, <2>2
<1>7. \E a \in [0..n -> Nat] :
        a[0] = 0 /\ (\A i \in 1..n : a[i] = step[i][a[i - 1]]) /\ a[n] = f[1..n]
  <2>1. \A k \in 1..n : f[1..(k - 1)] \in Nat => f[1..k] = step[k][f[1..(k - 1)]]
    <3> HIDE DEF f, step
    <3> QED BY <1>3, <1>6
  <2>2. 0 \in Nat
    OBVIOUS
  <2>3. \A i \in 1..n : \A v \in Nat : step[i][v] \in Nat
    BY <1>3
  <2> DEFINE zero == 0
             V == Nat
  <2>4. /\ zero \in V /\ \A i \in 1..n : \A v \in V : step[i][v] \in V
        /\ f[{}] = zero /\ \A k \in 1..n : f[1..(k - 1)] \in V => f[1..k] = step[k][f[1..(k - 1)]]
    <3> HIDE DEF f, step
    <3> QED BY <1>6, <2>1, <2>2, <2>3
  <2> HIDE DEF f, step, zero, V
  <2>5. \E a \in [0..n -> V] : InTurn(a, n, zero, step, f[1..n])
    BY <2>4, FoldInOrder
  <2> QED BY <2>5 DEF zero, V, InTurn
<1>8. PICK a \in [0..n -> Nat] :
        a[0] = 0 /\ (\A i \in 1..n : a[i] = step[i][a[i - 1]]) /\ a[n] = f[1..n]
  BY <1>7
<1>9. Totalling(a, items, n)
  <2>1. \A i \in 1..n : i - 1 \in 0..n /\ a[i - 1] \in Nat
    OBVIOUS
  <2> HIDE DEF step, f
  <2> QED BY <1>3, <1>8, <2>1 DEF Totalling
<1> HIDE DEF f
<1> QED BY <1>1, <1>8, <1>9

\* The items that stay when those of a name go, item by item.
Filtering(a, items, name, n) ==
  /\ a[0] = <<>>
  /\ \A i \in 1..n : a[i] = IF items[i].name = name THEN a[i - 1] ELSE Append(a[i - 1], items[i])

Filters(items, name, n, I) ==
  \E a \in [0..n -> Seq(I)] : Filtering(a, items, name, n) /\ R!Without(items, name) = a[n]

\* What Without makes is such a sequence's last.
LEMMA WithoutEquation ==
  ASSUME NEW n \in Nat, NEW items, DOMAIN items = 1..n, NEW I, \A i \in 1..n : items[i] \in I, NEW name
  PROVE  Filters(items, name, n, I)
<1> DEFINE pick == [s \in SUBSET (1..n) |-> R!Max(s)]
           step == [i \in 1..n |-> [v \in Seq(I) |-> IF items[i].name = name THEN v ELSE Append(v, items[i])]]
           Value(g, s) == IF s = {} THEN <<>>
                          ELSE IF items[R!Max(s)].name = name THEN g[s \ {R!Max(s)}]
                          ELSE Append(g[s \ {R!Max(s)}], items[R!Max(s)])
           IsFold(g) == g = [s \in SUBSET DOMAIN items |-> Value(g, s)]
           f == CHOOSE g : IsFold(g)
<1>1. R!Without(items, name) = f[1..n]
  BY DEF R!Without, R!FoldLeft, R!MapThenFoldSet
<1>2. \A s \in SUBSET (1..n) : s # {} => pick[s] \in s
  BY Prefixes
<1>3. \A i \in 1..n : \A v \in Seq(I) : step[i][v] \in Seq(I)
             /\ step[i][v] = IF items[i].name = name THEN v ELSE Append(v, items[i])
  OBVIOUS
<1>4. \A s \in SUBSET (1..n) : pick[s] = R!Max(s)
  OBVIOUS
<1>5. IsFold(f)
  <2>1. IsFiniteSet(1..n)
    BY Prefixes
  <2>2. <<>> \in Seq(I)
    OBVIOUS
  <2>3. \E g \in [SUBSET (1..n) -> Seq(I)] : IsFoldOf(g, 1..n, pick, <<>>, step)
    <3>1. \A i \in 1..n : \A v \in Seq(I) : step[i][v] \in Seq(I)
      BY <1>3
    <3> DEFINE S == 1..n
               zero == <<>>
               V == Seq(I)
    <3>2. IsFiniteSet(S) /\ (\A s \in SUBSET S : s # {} => pick[s] \in s) /\ zero \in V
          /\ (\A i \in S : \A v \in V : step[i][v] \in V)
      BY <1>2, <2>1, <2>2, <3>1
    <3> HIDE DEF pick, step, S, zero, V
    <3>3. \E g \in [SUBSET S -> V] : IsFoldOf(g, S, pick, zero, step)
      BY <3>2, FoldExists
    <3> QED BY <3>3 DEF S, zero, V
  <2>4. PICK g \in [SUBSET (1..n) -> Seq(I)] : IsFoldOf(g, 1..n, pick, <<>>, step)
    BY <2>3
  <2>5. ASSUME NEW s \in SUBSET (1..n) PROVE g[s] = Value(g, s)
    <3> HIDE DEF pick, step
    <3>1. CASE s = {} BY <2>4, <3>1 DEF IsFoldOf
    <3>2. CASE s # {}
      <4>1. R!Max(s) \in 1..n /\ pick[s] = R!Max(s) /\ g[s \ {R!Max(s)}] \in Seq(I)
        BY <1>2, <1>4, <3>2
      <4>2. g[s] = step[R!Max(s)][g[s \ {R!Max(s)}]]
        BY <2>4, <3>2, <4>1 DEF IsFoldOf
      <4> QED BY <1>3, <3>2, <4>1, <4>2
    <3> QED BY <3>1, <3>2
  <2>6. IsFold(g)
    <3> HIDE DEF Value
    <3> QED BY <2>5
  <2> QED
    <3> HIDE DEF IsFold
    <3> QED BY <2>6
<1> DEFINE Kept(k, rest) == IF items[k].name = name THEN rest ELSE Append(rest, items[k])
<1>6. f[{}] = <<>> /\ \A k \in 1..n : f[1..k] = Kept(k, f[1..(k - 1)])
  <2>1. \A s \in SUBSET (1..n) : f[s] = Value(f, s)
    <3> HIDE DEF Value, f
    <3> QED BY <1>5
  <2> HIDE DEF f
  <2>2. ASSUME NEW k \in 1..n PROVE f[1..k] = Kept(k, f[1..(k - 1)])
    <3>1. R!Max(1..k) = k /\ (1..k) \ {k} = 1..(k - 1) /\ 1..k # {} /\ 1..k \in SUBSET (1..n)
      BY Prefixes
    <3> QED BY <2>1, <3>1
  <2> QED BY <2>1, <2>2
<1>7. \E a \in [0..n -> Seq(I)] :
        a[0] = <<>> /\ (\A i \in 1..n : a[i] = step[i][a[i - 1]]) /\ a[n] = f[1..n]
  <2>1. \A k \in 1..n : f[1..(k - 1)] \in Seq(I) => f[1..k] = step[k][f[1..(k - 1)]]
    <3> HIDE DEF f, step
    <3> QED BY <1>3, <1>6
  <2>2. <<>> \in Seq(I)
    OBVIOUS
  <2>3. \A i \in 1..n : \A v \in Seq(I) : step[i][v] \in Seq(I)
    BY <1>3
  <2> DEFINE zero == <<>>
             V == Seq(I)
  <2>4. /\ zero \in V /\ \A i \in 1..n : \A v \in V : step[i][v] \in V
        /\ f[{}] = zero /\ \A k \in 1..n : f[1..(k - 1)] \in V => f[1..k] = step[k][f[1..(k - 1)]]
    <3> HIDE DEF f, step
    <3> QED BY <1>6, <2>1, <2>2, <2>3
  <2> HIDE DEF f, step, zero, V
  <2>5. \E a \in [0..n -> V] : InTurn(a, n, zero, step, f[1..n])
    BY <2>4, FoldInOrder
  <2> QED BY <2>5 DEF zero, V, InTurn
<1>8. PICK a \in [0..n -> Seq(I)] :
        a[0] = <<>> /\ (\A i \in 1..n : a[i] = step[i][a[i - 1]]) /\ a[n] = f[1..n]
  BY <1>7
<1>9. Filtering(a, items, name, n)
  <2>1. \A i \in 1..n : i - 1 \in 0..n /\ a[i - 1] \in Seq(I)
    OBVIOUS
  <2> HIDE DEF step, f
  <2> QED BY <1>3, <1>8, <2>1 DEF Filtering
<1> HIDE DEF f
<1> QED BY <1>1, <1>8, <1>9 DEF Filters

-----------------------------------------------------------------------------
(***************************************************************************)
(* The receipts sample: what its builders, handlers and reducers make.     *)
(***************************************************************************)

\* Four registrations of different names.
Four(p, a, q, b, r, c, s, d) ==
  R!Register(R!Register(R!Register(R!Register(R!Nobody, p, a), q, b), r, c), s, d)

Means(table, p, a, q, b, r, c, s, d) ==
  DOMAIN table = {p, q, r, s} /\ table[p] = a /\ table[q] = b /\ table[r] = c /\ table[s] = d

LEMMA FourNames ==
  ASSUME NEW p, NEW q, NEW r, NEW s, p # q, p # r, p # s, q # r, q # s, r # s,
         NEW a, NEW b, NEW c, NEW d
  PROVE  Means(Four(p, a, q, b, r, c, s, d), p, a, q, b, r, c, s, d)
<1> DEFINE t1 == R!Register(R!Nobody, p, a)
           t2 == R!Register(t1, q, b)
           t3 == R!Register(t2, r, c)
<1>1. DOMAIN t1 = {p} /\ t1[p] = a
  BY DEF R!Register, R!Nobody
<1> HIDE DEF t1
<1>2. DOMAIN t2 = {p, q} /\ t2[p] = a /\ t2[q] = b
  BY <1>1 DEF R!Register
<1> HIDE DEF t2
<1>3. DOMAIN t3 = {p, q, r} /\ t3[p] = a /\ t3[q] = b /\ t3[r] = c
  BY <1>2 DEF R!Register
<1> HIDE DEF t3
<1>4. Four(p, a, q, b, r, c, s, d) = R!Register(t3, s, d)
  BY DEF t1, t2, t3, Four
<1> QED BY <1>3, <1>4 DEF R!Register, Means

\* The handlers of the sample, by the names they are registered under.
LEMMA ReceiptHandlers ==
  /\ DOMAIN R!ReceiptDispatcher = {"add-item", "remove-item", "finalize", "void-receipt"}
  /\ R!ReceiptDispatcher["add-item"] =
       [schema |-> R!AddItem,
        decide |-> [receipt \in R!Receipt |-> [c \in R!AddItem |-> R!addItemHandler(receipt, c)]]]
  /\ R!ReceiptDispatcher["remove-item"] =
       [schema |-> R!RemoveItem,
        decide |-> [receipt \in R!Receipt |-> [c \in R!RemoveItem |-> R!removeItemHandler(receipt, c)]]]
  /\ R!ReceiptDispatcher["finalize"] =
       [schema |-> R!Finalize,
        decide |-> [receipt \in R!Receipt |-> [c \in R!Finalize |-> R!finalizeHandler(receipt)]]]
  /\ R!ReceiptDispatcher["void-receipt"] =
       [schema |-> R!VoidReceipt,
        decide |-> [receipt \in R!Receipt |-> [c \in R!VoidReceipt |-> R!voidReceiptHandler(receipt)]]]
<1> DEFINE a == [schema |-> R!AddItem,
                 decide |-> [receipt \in R!Receipt |-> [c \in R!AddItem |-> R!addItemHandler(receipt, c)]]]
           b == [schema |-> R!RemoveItem,
                 decide |-> [receipt \in R!Receipt |-> [c \in R!RemoveItem |-> R!removeItemHandler(receipt, c)]]]
           c1 == [schema |-> R!Finalize,
                 decide |-> [receipt \in R!Receipt |-> [c \in R!Finalize |-> R!finalizeHandler(receipt)]]]
           d == [schema |-> R!VoidReceipt,
                 decide |-> [receipt \in R!Receipt |-> [c \in R!VoidReceipt |-> R!voidReceiptHandler(receipt)]]]
<1>1. R!ReceiptDispatcher =
        Four("add-item", a, "remove-item", b, "finalize", c1, "void-receipt", d)
  BY DEF Four, R!ReceiptDispatcher, R!handler, R!create
<1> HIDE DEF a, b, c1, d
<1>2. /\ DOMAIN R!ReceiptDispatcher = {"add-item", "remove-item", "finalize", "void-receipt"}
      /\ R!ReceiptDispatcher["add-item"] = a /\ R!ReceiptDispatcher["remove-item"] = b
      /\ R!ReceiptDispatcher["finalize"] = c1 /\ R!ReceiptDispatcher["void-receipt"] = d
  <2>1. "add-item" # "remove-item" /\ "add-item" # "finalize" /\ "add-item" # "void-receipt"
        /\ "remove-item" # "finalize" /\ "remove-item" # "void-receipt" /\ "finalize" # "void-receipt"
    OBVIOUS
  <2> DEFINE p == "add-item"
             q == "remove-item"
             r == "finalize"
             s == "void-receipt"
  <2>2. p # q /\ p # r /\ p # s /\ q # r /\ q # s /\ r # s
    BY <2>1
  <2>3. R!ReceiptDispatcher = Four(p, a, q, b, r, c1, s, d)
    BY <1>1
  <2> HIDE DEF p, q, r, s
  <2>4. Means(R!ReceiptDispatcher, p, a, q, b, r, c1, s, d)
    BY <2>2, <2>3, FourNames
  <2> QED BY <2>4 DEF p, q, r, s, Means
<1> QED BY <1>2 DEF a, b, c1, d

\* The reducers of the sample, by the types of their events.
LEMMA ReceiptReducers ==
  /\ R!ReceiptLoader.init = R!NewReceipt
  /\ R!ReceiptLoader.reducers["item-added"] =
       [receipt \in R!Receipt |-> [e \in R!ItemAdded |-> R!itemAddedReducer(receipt, e)]]
  /\ R!ReceiptLoader.reducers["item-removed"] =
       [receipt \in R!Receipt |-> [e \in R!ItemRemoved |-> R!itemRemovedReducer(receipt, e)]]
  /\ R!ReceiptLoader.reducers["receipt-finalized"] =
       [receipt \in R!Receipt |-> [e \in R!ReceiptFinalized |-> R!receiptFinalizedReducer(receipt)]]
  /\ R!ReceiptLoader.reducers["receipt-voided"] =
       [receipt \in R!Receipt |-> [e \in R!ReceiptVoided |-> R!receiptVoidedReducer(receipt)]]
<1> DEFINE a == [receipt \in R!Receipt |-> [e \in R!ItemAdded |-> R!itemAddedReducer(receipt, e)]]
           b == [receipt \in R!Receipt |-> [e \in R!ItemRemoved |-> R!itemRemovedReducer(receipt, e)]]
           c == [receipt \in R!Receipt |-> [e \in R!ReceiptFinalized |-> R!receiptFinalizedReducer(receipt)]]
           d == [receipt \in R!Receipt |-> [e \in R!ReceiptVoided |-> R!receiptVoidedReducer(receipt)]]
           table == Four("item-added", a, "item-removed", b, "receipt-finalized", c, "receipt-voided", d)
<1>1. R!ReceiptLoader.init = R!NewReceipt /\ R!ReceiptLoader.reducers = table
  <2> DEFINE Loader(reducers) == [init |-> R!NewReceipt, initializers |-> R!Nobody, reducers |-> reducers]
  <2>1. \A reducers, event, change :
          R!reducer(Loader(reducers), event, change) = Loader(R!Register(reducers, event, change))
    BY DEF R!reducer
  <2>2. R!fromInitFunction(R!NewReceipt) = Loader(R!Nobody)
    BY DEF R!fromInitFunction
  <2>3. R!ReceiptLoader = R!reducer(R!reducer(R!reducer(R!reducer(R!fromInitFunction(R!NewReceipt),
           "item-added", a), "item-removed", b), "receipt-finalized", c), "receipt-voided", d)
    BY DEF R!ReceiptLoader
  <2> HIDE DEF a, b, c, d, Loader
  <2>4. R!ReceiptLoader = Loader(table)
    BY <2>1, <2>2, <2>3 DEF Four
  <2> HIDE DEF table
  <2> QED BY <2>4 DEF Loader
<1> HIDE DEF a, b, c, d
<1>2. table["item-added"] = a /\ table["item-removed"] = b
      /\ table["receipt-finalized"] = c /\ table["receipt-voided"] = d
  <2> HIDE DEF table
  <2>1. table = Four("item-added", a, "item-removed", b, "receipt-finalized", c, "receipt-voided", d)
    BY DEF table
  <2> DEFINE p == "item-added"
             q == "item-removed"
             r == "receipt-finalized"
             s == "receipt-voided"
  <2>2. p # q /\ p # r /\ p # s /\ q # r /\ q # s /\ r # s
    OBVIOUS
  <2>3. table = Four(p, a, q, b, r, c, s, d)
    BY <2>1
  <2> HIDE DEF p, q, r, s
  <2>4. Means(table, p, a, q, b, r, c, s, d)
    BY <2>2, <2>3, FourNames
  <2> QED BY <2>4 DEF p, q, r, s, Means
<1> HIDE DEF table
<1> QED BY <1>1, <1>2 DEF a, b, c, d

ItemsTotal(receipt) == receipt.total = R!calculateTotal(receipt.items)

\* What the items of a receipt have.
LEMMA ItemsOf ==
  ASSUME NEW items \in Seq(R!ReceiptItem)
  PROVE  /\ Len(items) \in Nat /\ DOMAIN items = 1..Len(items)
         /\ \A i \in 1..Len(items) : items[i] \in R!ReceiptItem /\ items[i].price \in Nat
                                     /\ items[i].price \in Prices /\ items[i].name \in Names
<1>1. Len(items) \in Nat /\ DOMAIN items = 1..Len(items) /\ \A i \in 1..Len(items) : items[i] \in R!ReceiptItem
  OBVIOUS
<1>2. \A item \in R!ReceiptItem : item.name \in Names /\ item.price \in Prices
  BY DEF R!ReceiptItem
<1> QED BY <1>1, <1>2, PricesAssumption

\* What calculateTotal and Without return.
LEMMA TotalIsNat ==
  ASSUME NEW items \in Seq(R!ReceiptItem)
  PROVE  R!calculateTotal(items) \in Nat
<1>1. Len(items) \in Nat /\ DOMAIN items = 1..Len(items) /\ \A i \in 1..Len(items) : items[i].price \in Nat
  BY ItemsOf
<1>2. PICK a \in [0..Len(items) -> Nat] : R!calculateTotal(items) = a[Len(items)]
  BY <1>1, TotalEquation
<1> QED BY <1>1, <1>2

LEMMA WithoutIsItems ==
  ASSUME NEW items \in Seq(R!ReceiptItem), NEW name
  PROVE  R!Without(items, name) \in Seq(R!ReceiptItem)
<1>1. Len(items) \in Nat /\ DOMAIN items = 1..Len(items) /\ \A i \in 1..Len(items) : items[i] \in R!ReceiptItem
  BY ItemsOf
<1> DEFINE I == R!ReceiptItem
           n == Len(items)
<1>2. Filters(items, name, n, I)
  <2>1. n \in Nat /\ DOMAIN items = 1..n /\ \A i \in 1..n : items[i] \in I
    BY <1>1
  <2> HIDE DEF I, n
  <2> QED BY <2>1, WithoutEquation
<1> QED BY <1>1, <1>2 DEF Filters

\* What a handler that does not throw decides, and on what receipt.
ReceiptEvents == R!ItemAdded \cup R!ItemRemoved \cup R!ReceiptFinalized \cup R!ReceiptVoided

LEMMA Decisions ==
  ASSUME NEW receipt \in R!Receipt, NEW c, R!ReceiptValid(c), R!ReceiptDecide(receipt, c) # Rejected
  PROVE  LET e == R!ReceiptDecide(receipt, c) IN
         \/ e \in R!ItemAdded /\ receipt.status = "open"
         \/ e \in R!ItemRemoved /\ receipt.status = "open"
         \/ /\ e \in R!ReceiptFinalized /\ receipt.status = "open"
            /\ e.finalTotal = receipt.total /\ receipt.items # <<>>
         \/ e \in R!ReceiptVoided /\ receipt.status # "voided"
<1> DEFINE e == R!ReceiptDecide(receipt, c)
<1>0. receipt.status \in {"open", "closed", "voided"} /\ receipt.items \in Seq(R!ReceiptItem) /\ receipt.total \in Nat
  BY DEF R!Receipt
<1>1. \/ c.path = "add-item" /\ c \in R!AddItem /\ e = R!addItemHandler(receipt, c)
      \/ c.path = "remove-item" /\ c \in R!RemoveItem /\ e = R!removeItemHandler(receipt, c)
      \/ c.path = "finalize" /\ c \in R!Finalize /\ e = R!finalizeHandler(receipt)
      \/ c.path = "void-receipt" /\ c \in R!VoidReceipt /\ e = R!voidReceiptHandler(receipt)
  <2>1. c.path \in DOMAIN R!ReceiptDispatcher /\ c \in R!ReceiptDispatcher[c.path].schema
    BY DEF R!ReceiptValid, R!accepts
  <2>2. e = R!ReceiptDispatcher[c.path].decide[receipt][c]
    BY DEF R!ReceiptDecide, R!dispatch
  <2> HIDE DEF e
  <2>3. CASE c.path = "add-item" BY <2>1, <2>2, <2>3, ReceiptHandlers
  <2>4. CASE c.path = "remove-item" BY <2>1, <2>2, <2>4, ReceiptHandlers
  <2>5. CASE c.path = "finalize" BY <2>1, <2>2, <2>5, ReceiptHandlers
  <2>6. CASE c.path = "void-receipt" BY <2>1, <2>2, <2>6, ReceiptHandlers
  <2> QED BY <2>1, <2>3, <2>4, <2>5, <2>6, ReceiptHandlers
<1>2. e # Rejected
  OBVIOUS
<1> HIDE DEF e
<1>3. CASE c \in R!AddItem /\ e = R!addItemHandler(receipt, c)
  <2>1. receipt.status = "open" /\ e = [type |-> "item-added", name |-> c.name, price |-> c.price]
    BY <1>2, <1>3 DEF R!addItemHandler, R!IfOpen
  <2> QED BY <1>3, <2>1 DEF R!AddItem, R!ItemAdded, e
<1>4. CASE c \in R!RemoveItem /\ e = R!removeItemHandler(receipt, c)
  <2> DEFINE I == {i \in 1..Len(receipt.items) : receipt.items[i].name = c.name}
             first == IF I # {} THEN R!Min(I) ELSE 0
  <2>1. /\ receipt.status = "open" /\ first # 0
        /\ e = [type |-> "item-removed", name |-> c.name, refundAmount |-> receipt.items[first].price]
    BY <1>2, <1>4 DEF R!removeItemHandler, R!IfOpen, R!SelectInSeq
  <2>2. first \in 1..Len(receipt.items)
    <3>1. I # {} /\ first = R!Min(I)
      BY <2>1
    <3>2. I \in SUBSET Nat
      BY <1>0, ItemsOf
    <3>3. PICK m \in I : \A k \in I : m <= k
      <4> HIDE DEF I, first
      <4> QED BY <3>1, <3>2, EntityAssumptions, SP!Smallest
    <3>4. R!Min(I) \in I
      <4> HIDE DEF I, first
      <4> QED BY <3>3 DEF R!Min
    <3> QED BY <3>1, <3>4
  <2> HIDE DEF first
  <2>3. receipt.items[first].price \in Prices
    BY <1>0, <2>2, ItemsOf
  <2> QED BY <1>4, <2>1, <2>3 DEF R!RemoveItem, R!ItemRemoved, e
<1>5. CASE e = R!finalizeHandler(receipt)
  <2>1. /\ receipt.status = "open" /\ receipt.items # <<>>
        /\ e = [type |-> "receipt-finalized", finalTotal |-> receipt.total, itemCount |-> Len(receipt.items)]
    BY <1>2, <1>5 DEF R!finalizeHandler, R!IfOpen
  <2>2. Len(receipt.items) \in Nat
    BY <1>0, ItemsOf
  <2> QED BY <1>0, <2>1, <2>2 DEF R!ReceiptFinalized, e
<1>6. CASE e = R!voidReceiptHandler(receipt)
  <2>1. receipt.status # "voided" /\ e = [type |-> "receipt-voided", voidedTotal |-> receipt.total]
    BY <1>2, <1>6 DEF R!voidReceiptHandler
  <2> QED BY <1>0, <2>1 DEF R!ReceiptVoided, e
<1> QED BY <1>1, <1>3, <1>4, <1>5, <1>6 DEF e

\* What each reducer makes of a receipt.
LEMMA Reductions ==
  ASSUME NEW receipt \in R!Receipt, NEW e \in ReceiptEvents
  PROVE  LET next == R!ReceiptReduce(receipt, e) IN
         /\ next \in R!Receipt
         /\ next.status = CASE e.type = "receipt-finalized" -> "closed"
                            [] e.type = "receipt-voided" -> "voided"
                            [] OTHER -> receipt.status
         /\ next.items = CASE e.type = "item-added" ->
                                Append(receipt.items, [name |-> e.name, price |-> e.price])
                           [] e.type = "item-removed" -> R!Without(receipt.items, e.name)
                           [] OTHER -> receipt.items
         /\ ItemsTotal(receipt) => ItemsTotal(next)
<1> DEFINE next == R!ReceiptReduce(receipt, e)
<1>0. /\ receipt.status \in {"open", "closed", "voided"} /\ receipt.items \in Seq(R!ReceiptItem) /\ receipt.total \in Nat
      /\ receipt = [status |-> receipt.status, items |-> receipt.items, total |-> receipt.total]
  BY DEF R!Receipt
<1>1. next = R!ReceiptLoader.reducers[e.type][receipt][e]
  BY DEF R!ReceiptReduce
<1> HIDE DEF next
<1>2. CASE e \in R!ItemAdded
  <2> DEFINE items == Append(receipt.items, [name |-> e.name, price |-> e.price])
  <2>0. e.type = "item-added"
    BY <1>2 DEF R!ItemAdded
  <2>1. next = R!itemAddedReducer(receipt, e)
    BY <1>1, <1>2, <2>0, ReceiptReducers
  <2>2. items \in Seq(R!ReceiptItem)
    <3>1. [name |-> e.name, price |-> e.price] \in R!ReceiptItem
      BY <1>2 DEF R!ItemAdded, R!ReceiptItem
    <3> QED BY <1>0, <3>1
  <2>3. next = [status |-> receipt.status, items |-> items, total |-> R!calculateTotal(items)]
    BY <1>0, <2>1 DEF R!itemAddedReducer
  <2> HIDE DEF items
  <2>4. next \in R!Receipt /\ next.status = receipt.status /\ next.items = items /\ ItemsTotal(next)
    BY <1>0, <2>2, <2>3, TotalIsNat DEF R!Receipt, ItemsTotal
  <2> QED BY <2>0, <2>4 DEF next, items
<1>3. CASE e \in R!ItemRemoved
  <2> DEFINE items == R!Without(receipt.items, e.name)
  <2>0. e.type = "item-removed"
    BY <1>3 DEF R!ItemRemoved
  <2>1. next = R!itemRemovedReducer(receipt, e)
    BY <1>1, <1>3, <2>0, ReceiptReducers
  <2>2. items \in Seq(R!ReceiptItem)
    BY <1>0, WithoutIsItems
  <2>3. next = [status |-> receipt.status, items |-> items, total |-> R!calculateTotal(items)]
    BY <1>0, <2>1 DEF R!itemRemovedReducer
  <2> HIDE DEF items
  <2>4. next \in R!Receipt /\ next.status = receipt.status /\ next.items = items /\ ItemsTotal(next)
    BY <1>0, <2>2, <2>3, TotalIsNat DEF R!Receipt, ItemsTotal
  <2> QED BY <2>0, <2>4 DEF next, items
<1>4. CASE e \in R!ReceiptFinalized
  <2>0. e.type = "receipt-finalized"
    BY <1>4 DEF R!ReceiptFinalized
  <2>1. next = R!receiptFinalizedReducer(receipt)
    BY <1>1, <1>4, <2>0, ReceiptReducers
  <2>2. next = [status |-> "closed", items |-> receipt.items, total |-> receipt.total]
    BY <1>0, <2>1 DEF R!receiptFinalizedReducer
  <2> QED BY <1>0, <2>0, <2>2 DEF R!Receipt, ItemsTotal, next
<1>5. CASE e \in R!ReceiptVoided
  <2>0. e.type = "receipt-voided"
    BY <1>5 DEF R!ReceiptVoided
  <2>1. next = R!receiptVoidedReducer(receipt)
    BY <1>1, <1>5, <2>0, ReceiptReducers
  <2>2. next = [status |-> "voided", items |-> receipt.items, total |-> receipt.total]
    BY <1>0, <2>1 DEF R!receiptVoidedReducer
  <2> QED BY <1>0, <2>0, <2>2 DEF R!Receipt, ItemsTotal, next
<1> QED BY <1>2, <1>3, <1>4, <1>5 DEF ReceiptEvents

-----------------------------------------------------------------------------
(***************************************************************************)
(* The receipt after each event of a log of serial decisions.              *)
(***************************************************************************)

\* The receipt after n events.
ReceiptAfter(n) == SP!State(SubSeq(log, 1, n))

\* Event n, and what it was decided on and did.
EventAt(n) ==
  LET before == ReceiptAfter(n - 1)
      e == log[n].event
  IN  /\ e \in ReceiptEvents
      /\ \/ e.type \in {"item-added", "item-removed"} /\ before.status = "open"
         \/ /\ e.type = "receipt-finalized" /\ before.status = "open"
            /\ e.finalTotal = before.total /\ before.items # <<>>
         \/ e.type = "receipt-voided" /\ before.status # "voided"
      /\ ReceiptAfter(n) = R!ReceiptReduce(before, e)

\* In a log of serial decisions every event is such an event.
LEMMA EventOf ==
  ASSUME Recorded, ReceiptDomain(R!Receipt, ReceiptEvents),
         NEW n \in 1..Len(log), ReceiptAfter(n - 1) \in R!Receipt
  PROVE  EventAt(n)
<1> DEFINE before == ReceiptAfter(n - 1)
           e == log[n].event
           c == log[n].command
<1>1. Len(log) \in Nat /\ n \in DOMAIN log /\ n - 1 \in 0..(Len(log) - 1) /\ (n - 1) + 1 = n
  BY DEF Recorded, SP!IsLog
<1>2. /\ SP!Publishes(before, c) /\ e = Decide(before, c)
  BY <1>1 DEF Recorded, SP!AllSerialize, SP!DecidedOn, ReceiptAfter
<1>3. before # Absent
  BY DEF ReceiptDomain
<1>4. R!ReceiptValid(c) /\ e = R!ReceiptDecide(before, c) /\ e # Rejected
  BY <1>2 DEF SP!Publishes, ReceiptDomain
<1>5. \/ e \in R!ItemAdded /\ before.status = "open"
      \/ e \in R!ItemRemoved /\ before.status = "open"
      \/ /\ e \in R!ReceiptFinalized /\ before.status = "open"
         /\ e.finalTotal = before.total /\ before.items # <<>>
      \/ e \in R!ReceiptVoided /\ before.status # "voided"
  <2> DEFINE d == R!ReceiptDecide(before, c)
  <2>1. d # Rejected
    BY <1>4
  <2> HIDE DEF before, c
  <2>2. \/ d \in R!ItemAdded /\ before.status = "open"
        \/ d \in R!ItemRemoved /\ before.status = "open"
        \/ /\ d \in R!ReceiptFinalized /\ before.status = "open"
           /\ d.finalTotal = before.total /\ before.items # <<>>
        \/ d \in R!ReceiptVoided /\ before.status # "voided"
    BY <1>4, <2>1, Decisions DEF before
  <2> HIDE DEF d, e
  <2>3. d = e
    BY <1>4 DEF d
  <2> QED BY <2>2, <2>3
<1>6. ReceiptAfter(n) = SP!After(before, e)
  <2>1. SP!IsLog(log)
    BY DEF Recorded
  <2>2. \A k \in 0..(Len(log) - 1) :
          SP!State(SubSeq(log, 1, k + 1)) = SP!After(SP!State(SubSeq(log, 1, k)), log[k + 1].event)
    BY <2>1, EntityAssumptions, SP!StatesOfPrefixes
  <2>3. SP!State(SubSeq(log, 1, (n - 1) + 1)) =
          SP!After(SP!State(SubSeq(log, 1, n - 1)), log[(n - 1) + 1].event)
    BY <1>1, <2>2
  <2> QED BY <1>1, <2>3 DEF ReceiptAfter
<1>7. e \in ReceiptEvents
  BY <1>5 DEF ReceiptEvents
<1>8. ReceiptAfter(n) = R!ReceiptReduce(before, e)
  <2>1. Reduces(e) /\ Reduce(before, e) = R!ReceiptReduce(before, e)
    BY <1>7 DEF ReceiptDomain
  <2> HIDE DEF before, e
  <2> QED BY <1>3, <1>6, <2>1 DEF SP!After
<1>9. \/ e.type \in {"item-added", "item-removed"} /\ before.status = "open"
      \/ /\ e.type = "receipt-finalized" /\ before.status = "open"
         /\ e.finalTotal = before.total /\ before.items # <<>>
      \/ e.type = "receipt-voided" /\ before.status # "voided"
  <2> HIDE DEF before, e
  <2> QED BY <1>5 DEF R!ItemAdded, R!ItemRemoved, R!ReceiptFinalized, R!ReceiptVoided
<1> QED BY <1>7, <1>8, <1>9 DEF EventAt

\* What the receipt after n events tells of them.
History(n) ==
  /\ ReceiptAfter(n) \in R!Receipt
  /\ ItemsTotal(ReceiptAfter(n))
  /\ \A i \in 1..n : log[i].event.type \in {"receipt-finalized", "receipt-voided"}
                       => ReceiptAfter(n).status # "open"
  /\ \A i \in 1..n : log[i].event.type = "receipt-voided" => ReceiptAfter(n).status = "voided"

\* It does tell that, by induction over the log.
LEMMA HistoryHolds ==
  ASSUME Recorded, ReceiptDomain(R!Receipt, ReceiptEvents)
  PROVE  Len(log) \in Nat /\ DOMAIN log = 1..Len(log) /\ \A n \in 0..Len(log) : History(n)
<1> DEFINE T == {n \in 0..Len(log) : History(n)}
<1>1. Len(log) \in Nat /\ DOMAIN log = 1..Len(log)
  BY DEF Recorded, SP!IsLog
<1>2. 0 \in T
  <2>1. ReceiptAfter(0) = StartState
    BY EntityAssumptions, SP!StatesOfPrefixes DEF Recorded, ReceiptAfter
  <2>2. StartState = R!NewReceipt
    BY ReceiptReducers DEF ReceiptDomain
  <2>3. R!NewReceipt \in R!Receipt /\ R!NewReceipt.items = <<>> /\ R!NewReceipt.total = 0
    BY DEF R!NewReceipt, R!Receipt
  <2>4. R!calculateTotal(<<>>) = 0
    <3>1. \E a \in [0..0 -> Nat] : Totalling(a, <<>>, 0) /\ R!calculateTotal(<<>>) = a[0]
      <4> DEFINE none == <<>>
                 z == 0
      <4>1. z \in Nat /\ DOMAIN none = 1..z /\ \A i \in 1..z : none[i].price \in Nat
        OBVIOUS
      <4> HIDE DEF none, z
      <4>2. \E a \in [0..z -> Nat] : Totalling(a, none, z) /\ R!calculateTotal(none) = a[z]
        BY <4>1, TotalEquation
      <4> QED BY <4>2 DEF none, z
    <3> QED BY <3>1 DEF Totalling
  <2> QED BY <1>1, <2>1, <2>2, <2>3, <2>4 DEF History, ItemsTotal
<1>3. ASSUME NEW k \in 0..(Len(log) - 1), k \in T PROVE k + 1 \in T
  <2> DEFINE before == ReceiptAfter(k)
             after == ReceiptAfter(k + 1)
             e == log[k + 1].event
  <2>1. k + 1 \in 1..Len(log) /\ k + 1 \in 0..Len(log) /\ (k + 1) - 1 = k /\ History(k)
    BY <1>1, <1>3
  <2>2. EventAt(k + 1)
    BY <2>1, EventOf DEF History
  <2>3. /\ e \in ReceiptEvents /\ after = R!ReceiptReduce(before, e)
        /\ \/ e.type \in {"item-added", "item-removed"} /\ before.status = "open"
           \/ e.type = "receipt-finalized" /\ before.status = "open"
           \/ e.type = "receipt-voided" /\ before.status # "voided"
    BY <2>1, <2>2 DEF EventAt
  <2>4. before \in R!Receipt /\ ItemsTotal(before)
    BY <2>1 DEF History
  <2>5. /\ after \in R!Receipt /\ ItemsTotal(after)
        /\ after.status = CASE e.type = "receipt-finalized" -> "closed"
                            [] e.type = "receipt-voided" -> "voided"
                            [] OTHER -> before.status
    <3> HIDE DEF before, after, e
    <3> QED BY <2>3, <2>4, Reductions
  <2>6. e.type = "receipt-finalized" => after.status = "closed" /\ before.status = "open"
    <3> HIDE DEF before, after, e
    <3> QED BY <2>3, <2>5
  <2>7. e.type = "receipt-voided" => after.status = "voided"
    <3> HIDE DEF before, after, e
    <3> QED BY <2>5
  <2>8. e.type \in {"item-added", "item-removed"} => before.status = "open" /\ after.status = "open"
    <3> HIDE DEF before, after, e
    <3> QED BY <2>3, <2>5
  <2>9. e.type \in {"item-added", "item-removed", "receipt-finalized", "receipt-voided"}
    BY <2>3
  <2>10. ASSUME NEW i \in 1..(k + 1)
         PROVE  /\ log[i].event.type \in {"receipt-finalized", "receipt-voided"} => after.status # "open"
                /\ log[i].event.type = "receipt-voided" => after.status = "voided"
    <3>1. CASE i = k + 1
      BY <2>6, <2>7, <3>1
    <3>2. CASE i # k + 1
      <4>1. i \in 1..k
        BY <3>2
      <4>2. /\ log[i].event.type \in {"receipt-finalized", "receipt-voided"} => before.status # "open"
            /\ log[i].event.type = "receipt-voided" => before.status = "voided"
        BY <2>1, <4>1 DEF History
      <4> HIDE DEF before, after, e
      <4> QED BY <2>6, <2>7, <2>8, <2>9, <4>2
    <3> QED BY <3>1, <3>2
  <2> QED BY <2>1, <2>5, <2>10 DEF History
<1>4. \A n \in 0..Len(log) : n \in T
  <2> HIDE DEF T
  <2> QED BY <1>1, <1>2, <1>3, Induct
<1> QED BY <1>1, <1>4

\* So an event after the end of the receipt would have been refused.
LEMMA ClosedInHistory ==
  ASSUME Recorded, ReceiptDomain(R!Receipt, ReceiptEvents)
  PROVE  ClosedIsFinal
<1>1. Len(log) \in Nat /\ DOMAIN log = 1..Len(log) /\ \A n \in 0..Len(log) : History(n)
  BY HistoryHolds
<1>2. ASSUME NEW n \in 1..Len(log)
      PROVE  /\ n - 1 \in 0..Len(log) /\ History(n - 1) /\ EventAt(n)
             /\ \A i \in 1..Len(log) : i < n => i \in 1..(n - 1)
  <2>1. n - 1 \in 0..Len(log) /\ \A i \in 1..Len(log) : i < n => i \in 1..(n - 1)
    BY <1>1
  <2>2. History(n - 1)
    BY <1>1, <2>1
  <2> QED BY <2>1, <2>2, EventOf DEF History
<1>3. ASSUME NEW i \in DOMAIN log, NEW j \in DOMAIN log,
             log[i].event.type \in {"receipt-finalized", "receipt-voided"},
             log[j].event.type \in {"item-added", "item-removed"}
      PROVE  j < i
  <2>1. i # j
    BY <1>3
  <2>2. CASE i < j
    <3>1. i \in 1..(j - 1) /\ History(j - 1) /\ EventAt(j)
      BY <1>1, <1>2, <2>2
    <3>2. ReceiptAfter(j - 1).status # "open"
      BY <1>3, <3>1 DEF History
    <3>3. ReceiptAfter(j - 1).status = "open"
      BY <1>3, <3>1 DEF EventAt
    <3> QED BY <3>2, <3>3
  <2> QED BY <1>1, <2>1, <2>2
<1>4. ASSUME NEW i \in DOMAIN log, log[i].event.type = "receipt-voided"
      PROVE  i = Len(log)
  <2>1. CASE i < Len(log)
    <3>1. i + 1 \in 1..Len(log) /\ (i + 1) - 1 = i /\ i \in 1..i
      BY <1>1, <2>1
    <3>2. History(i) /\ EventAt(i + 1)
      <4>1. History((i + 1) - 1) /\ EventAt(i + 1)
        BY <1>2, <3>1
      <4> QED BY <3>1, <4>1
    <3>3. ReceiptAfter(i).status = "voided"
      BY <1>4, <3>1, <3>2 DEF History
    <3>4. ReceiptAfter(i).status # "voided"
      BY <3>1, <3>2 DEF EventAt
    <3> QED BY <3>3, <3>4
  <2> QED BY <1>1, <2>1
<1> QED BY <1>3, <1>4 DEF ClosedIsFinal, R!ClosedIsFinal, R!Types

-----------------------------------------------------------------------------
(***************************************************************************)
(* Sums, in order and over sets.                                           *)
(***************************************************************************)

\* w[1] + ... + w[n]
Adds(a, w, n) == a[0] = 0 /\ \A i \in 1..n : a[i] = a[i - 1] + w[i]

SumTo(w, n) == CHOOSE v : \E a \in [0..n -> Nat] : Adds(a, w, n) /\ v = a[n]

\* There is such a sequence of sums.
LEMMA SumExists ==
  ASSUME NEW n \in Nat, NEW w, \A i \in 1..n : w[i] \in Nat
  PROVE  \E a \in [0..n -> Nat] : Adds(a, w, n)
<1> DEFINE items == [i \in 1..n |-> [price |-> w[i]]]
<1>1. DOMAIN items = 1..n /\ \A i \in 1..n : items[i].price = w[i] /\ items[i].price \in Nat
  OBVIOUS
<1> HIDE DEF items
<1>2. \E a \in [0..n -> Nat] : Totalling(a, items, n) /\ R!calculateTotal(items) = a[n]
  BY <1>1, TotalEquation
<1> QED BY <1>1, <1>2 DEF Totalling, Adds

\* Sums of what is the same so far are the same so far.
LEMMA SumsAgree ==
  ASSUME NEW n \in Nat, NEW w, NEW v, NEW a, NEW b, Adds(a, w, n), Adds(b, v, n),
         NEW m \in 0..n, \A i \in 1..m : w[i] = v[i]
  PROVE  a[m] = b[m]
<1> DEFINE T == {k \in 0..m : a[k] = b[k]}
<1>1. m \in Nat /\ 0 \in T
  BY DEF Adds
<1>2. ASSUME NEW k \in 0..(m - 1), k \in T PROVE k + 1 \in T
  <2>1. k + 1 \in 1..n /\ k + 1 \in 1..m /\ (k + 1) - 1 = k /\ k + 1 \in 0..m
    OBVIOUS
  <2>2. a[k + 1] = a[k] + w[k + 1] /\ b[k + 1] = b[k] + v[k + 1]
    BY <2>1 DEF Adds
  <2> QED BY <1>2, <2>1, <2>2
<1> HIDE DEF T
<1>3. \A k \in 0..m : k \in T
  BY <1>1, <1>2, Induct
<1>4. m \in T
  BY <1>1, <1>3
<1> QED BY <1>4 DEF T

\* And any such sequence ends with the sum.
LEMMA SumIs ==
  ASSUME NEW n \in Nat, NEW w, \A i \in 1..n : w[i] \in Nat,
         NEW a \in [0..n -> Nat], Adds(a, w, n)
  PROVE  SumTo(w, n) = a[n]
<1> DEFINE IsSum(v) == \E b \in [0..n -> Nat] : Adds(b, w, n) /\ v = b[n]
<1>1. IsSum(a[n])
  OBVIOUS
<1>2. ASSUME NEW v, IsSum(v) PROVE v = a[n]
  <2>1. PICK b \in [0..n -> Nat] : Adds(b, w, n) /\ v = b[n]
    BY <1>2
  <2>2. n \in 0..n /\ \A i \in 1..n : w[i] = w[i]
    OBVIOUS
  <2>3. b[n] = a[n]
    BY <2>1, <2>2, SumsAgree
  <2> QED BY <2>1, <2>3
<1>3. IsSum(CHOOSE v : IsSum(v))
  <2> HIDE DEF IsSum
  <2> QED BY <1>1
<1>4. SumTo(w, n) = CHOOSE v : IsSum(v)
  BY DEF SumTo
<1> HIDE DEF IsSum
<1> QED BY <1>2, <1>3, <1>4

\* The equations of a sum.
LEMMA SumNext ==
  ASSUME NEW n \in Nat, NEW w, \A i \in 1..n : w[i] \in Nat
  PROVE  /\ SumTo(w, 0) = 0
         /\ \A k \in 0..n : SumTo(w, k) \in Nat
         /\ \A k \in 0..(n - 1) : SumTo(w, k + 1) = SumTo(w, k) + w[k + 1]
<1>1. PICK a \in [0..n -> Nat] : Adds(a, w, n)
  BY SumExists
<1>2. ASSUME NEW k \in 0..n PROVE SumTo(w, k) = a[k]
  <2> DEFINE b == [i \in 0..k |-> a[i]]
  <2>1. k \in Nat /\ b \in [0..k -> Nat] /\ b[k] = a[k] /\ \A i \in 1..k : w[i] \in Nat
    OBVIOUS
  <2>2. Adds(b, w, k)
    BY <1>1 DEF Adds
  <2> HIDE DEF b
  <2> QED BY <2>1, <2>2, SumIs
<1>3. \A k \in 0..n : a[k] \in Nat
  BY <1>1
<1>4. a[0] = 0 /\ \A k \in 0..(n - 1) : a[k + 1] = a[k] + w[k + 1]
  <2>1. \A k \in 0..(n - 1) : k + 1 \in 1..n /\ (k + 1) - 1 = k
    OBVIOUS
  <2> QED BY <1>1, <2>1 DEF Adds
<1>5. \A k \in 0..(n - 1) : k \in 0..n /\ k + 1 \in 0..n
  OBVIOUS
<1>6. 0 \in 0..n
  OBVIOUS
<1> QED BY <1>2, <1>3, <1>4, <1>5, <1>6

\* The sum of the same numbers is the same.
LEMMA SameSum ==
  ASSUME NEW n \in Nat, NEW w, NEW v, \A i \in 1..n : w[i] \in Nat /\ v[i] = w[i]
  PROVE  SumTo(w, n) = SumTo(v, n)
<1>1. \A i \in 1..n : v[i] \in Nat /\ w[i] \in Nat /\ w[i] = v[i]
  OBVIOUS
<1>2. PICK a \in [0..n -> Nat] : Adds(a, w, n)
  BY <1>1, SumExists
<1>3. Adds(a, v, n)
  BY <1>1, <1>2 DEF Adds
<1>4. SumTo(w, n) = a[n] /\ SumTo(v, n) = a[n]
  BY <1>1, <1>2, <1>3, SumIs
<1> QED BY <1>4

\* The sum of w over a set of indices.
Over(w, s, n) == [j \in 1..n |-> IF j \in s THEN w[j] ELSE 0]

SumOver(w, s, n) == SumTo(Over(w, s, n), n)

\* The sum over nothing.
LEMMA SumOverNothing ==
  ASSUME NEW n \in Nat, NEW w
  PROVE  SumOver(w, {}, n) = 0
<1> DEFINE v == Over(w, {}, n)
           T == {k \in 0..n : SumTo(v, k) = 0}
<1>1. \A j \in 1..n : v[j] = 0 /\ v[j] \in Nat
  BY DEF Over
<1> HIDE DEF v
<1>2. SumTo(v, 0) = 0 /\ \A k \in 0..(n - 1) : SumTo(v, k + 1) = SumTo(v, k) + v[k + 1]
  BY <1>1, SumNext
<1>3. 0 \in T
  BY <1>2
<1>4. ASSUME NEW k \in 0..(n - 1), k \in T PROVE k + 1 \in T
  <2>1. k + 1 \in 1..n /\ k + 1 \in 0..n
    OBVIOUS
  <2>2. SumTo(v, k + 1) = 0 + 0
    BY <1>1, <1>2, <1>4, <2>1
  <2> QED BY <2>1, <2>2
<1> HIDE DEF T
<1>5. \A k \in 0..n : k \in T
  BY <1>3, <1>4, Induct
<1>6. n \in T
  BY <1>5
<1> QED BY <1>6 DEF T, v, SumOver

\* In any order: each index adds what it weighs.
LEMMA SumOverRemoves ==
  ASSUME NEW n \in Nat, NEW w, NEW s \in SUBSET (1..n), \A j \in s : w[j] \in Nat, NEW x \in s
  PROVE  /\ SumOver(w, s, n) = w[x] + SumOver(w, s \ {x}, n)
         /\ SumOver(w, s \ {x}, n) \in Nat
<1> DEFINE v == Over(w, s, n)
           u == Over(w, s \ {x}, n)
           T == {k \in 0..n : SumTo(v, k) = SumTo(u, k) + (IF k < x THEN 0 ELSE w[x])}
<1>1. /\ \A j \in 1..n : v[j] \in Nat /\ u[j] \in Nat
      /\ \A j \in 1..n : j # x => v[j] = u[j]
      /\ v[x] = w[x] /\ u[x] = 0 /\ w[x] \in Nat /\ x \in 1..n
  BY DEF Over
<1> HIDE DEF v, u
<1>2. SumTo(v, 0) = 0 /\ \A k \in 0..(n - 1) : SumTo(v, k + 1) = SumTo(v, k) + v[k + 1]
  BY <1>1, SumNext
<1>3. SumTo(u, 0) = 0 /\ (\A k \in 0..n : SumTo(u, k) \in Nat)
      /\ \A k \in 0..(n - 1) : SumTo(u, k + 1) = SumTo(u, k) + u[k + 1]
  BY <1>1, SumNext
<1>4. 0 \in T
  BY <1>1, <1>2, <1>3
<1>5. ASSUME NEW k \in 0..(n - 1), k \in T PROVE k + 1 \in T
  <2>1. k + 1 \in 1..n /\ k + 1 \in 0..n /\ k \in 0..n /\ k \in Int /\ x \in Int
    BY <1>1
  <2>2. SumTo(v, k + 1) = SumTo(v, k) + v[k + 1] /\ SumTo(u, k + 1) = SumTo(u, k) + u[k + 1]
    BY <1>2, <1>3
  <2>3. SumTo(v, k) = SumTo(u, k) + (IF k < x THEN 0 ELSE w[x])
    BY <1>5
  <2>4. SumTo(u, k) \in Nat /\ u[k + 1] \in Nat /\ v[k + 1] \in Nat
    BY <1>1, <1>3, <2>1
  <2>5. CASE k + 1 = x
    BY <1>1, <2>1, <2>2, <2>3, <2>4, <2>5
  <2>6. CASE k + 1 # x
    <3>1. v[k + 1] = u[k + 1]
      BY <1>1, <2>1, <2>6
    <3>2. k < x <=> k + 1 < x
      BY <2>1, <2>6
    <3> QED BY <1>1, <2>1, <2>2, <2>3, <2>4, <3>1, <3>2
  <2> QED BY <2>5, <2>6
<1> HIDE DEF T
<1>6. \A k \in 0..n : k \in T
  BY <1>4, <1>5, Induct
<1>7. n \in T /\ ~(n < x)
  BY <1>1, <1>6
<1>8. SumTo(v, n) = SumTo(u, n) + w[x] /\ SumTo(u, n) \in Nat
  BY <1>1, <1>3, <1>7 DEF T
<1>9. SumTo(v, n) = w[x] + SumTo(u, n)
  BY <1>1, <1>8
<1> QED BY <1>8, <1>9 DEF SumOver, v, u

PriceAt(j) == log[j].event.price

\* MapThenSumSet over positions in the log, in whatever order it takes them.
LEMMA SetSum ==
  ASSUME NEW n \in Nat, NEW s \in SUBSET (1..n), \A j \in s : PriceAt(j) \in Nat
  PROVE  R!MapThenSumSet(LAMBDA j : log[j].event.price, s) = SumOver([j \in 1..n |-> PriceAt(j)], s, n)
<1> DEFINE w == [j \in 1..n |-> PriceAt(j)]
           Some(r) == CHOOSE x \in r : TRUE
           Value(g, r) == IF r = {} THEN 0
                          ELSE log[Some(r)].event.price + g[r \ {Some(r)}]
           IsFold(g) == g = [r \in SUBSET s |-> Value(g, r)]
           f == CHOOSE g : IsFold(g)
           sum == [r \in SUBSET s |-> SumOver(w, r, n)]
           T == {k \in 0..Cardinality(s) : \A r \in SUBSET s : Cardinality(r) <= k => f[r] = sum[r]}
<1>1. R!MapThenSumSet(LAMBDA j : log[j].event.price, s) = f[s]
  BY DEF R!MapThenSumSet, R!MapThenFoldSet
<1>2. \A r \in SUBSET s : r # {} => Some(r) \in r /\ w[Some(r)] = log[Some(r)].event.price
  <2>1. \A r : r # {} => Some(r) \in r
    OBVIOUS
  <2> HIDE DEF Some
  <2> QED BY <2>1 DEF PriceAt
<1>3. \A r \in SUBSET s : Value(sum, r) = sum[r]
  <2> SUFFICES ASSUME NEW r \in SUBSET s PROVE Value(sum, r) = sum[r]
    OBVIOUS
  <2>1. CASE r = {}
    BY <2>1, SumOverNothing
  <2>2. CASE r # {}
    <3>1. Some(r) \in r /\ w[Some(r)] = log[Some(r)].event.price
      BY <1>2, <2>2
    <3>2. r \in SUBSET (1..n) /\ \A j \in r : w[j] \in Nat
      OBVIOUS
    <3> DEFINE x == Some(r)
    <3> HIDE DEF w, Some
    <3>3. x \in r
      BY <3>1
    <3> HIDE DEF x
    <3>4. SumOver(w, r, n) = w[x] + SumOver(w, r \ {x}, n)
      BY <3>2, <3>3, SumOverRemoves
    <3>5. r \ {x} \in SUBSET s
      OBVIOUS
    <3>6. sum[r] = w[x] + sum[r \ {x}]
      BY <3>4, <3>5
    <3> HIDE DEF sum
    <3>7. w[x] = log[x].event.price
      BY <3>1 DEF x
    <3> QED BY <2>2, <3>6, <3>7 DEF x
  <2> QED BY <2>1, <2>2
<1>4. IsFold(sum)
  <2> HIDE DEF Value
  <2> QED BY <1>3
<1>5. IsFold(f)
  <2> HIDE DEF IsFold, sum
  <2> QED BY <1>4
<1>6. \A r \in SUBSET s : f[r] = Value(f, r)
  <2> HIDE DEF f, Value
  <2> QED BY <1>5
<1>7. /\ IsFiniteSet(s) /\ Cardinality(s) \in Nat
      /\ \A r \in SUBSET s : IsFiniteSet(r) /\ Cardinality(r) \in Nat /\ Cardinality(r) <= Cardinality(s)
  <2>1. IsFiniteSet(1..n)
    BY FS_Interval
  <2> QED BY <2>1, FS_Subset, FS_CardinalityType
<1> HIDE DEF f, sum
<1>8. 0 \in T
  <2>1. ASSUME NEW r \in SUBSET s, Cardinality(r) <= 0 PROVE f[r] = sum[r]
    <3>1. r = {}
      BY <1>7, <2>1, FS_EmptySet
    <3> QED BY <1>3, <1>6, <3>1
  <2> QED BY <1>7, <2>1
<1>9. ASSUME NEW k \in 0..(Cardinality(s) - 1), k \in T PROVE k + 1 \in T
  <2>0. k + 1 \in 0..Cardinality(s)
    BY <1>7
  <2>1. ASSUME NEW r \in SUBSET s, Cardinality(r) <= k + 1 PROVE f[r] = sum[r]
    <3>1. CASE r = {}
      BY <1>3, <1>6, <3>1
    <3>2. CASE r # {}
      <4>1. Some(r) \in r
        BY <1>2, <3>2
      <4> DEFINE x == Some(r)
                 rest == r \ {x}
      <4>2. Cardinality(rest) = Cardinality(r) - 1
        BY <1>7, <4>1, FS_RemoveElement
      <4>3. rest \in SUBSET s /\ Cardinality(rest) \in Nat
        BY <1>7
      <4>4. Cardinality(rest) <= k
        <5> HIDE DEF rest
        <5> QED BY <1>7, <2>1, <4>2, <4>3
      <4>5. f[rest] = sum[rest]
        BY <1>9, <4>3, <4>4
      <4>6. Value(f, r) = Value(sum, r)
        BY <3>2, <4>5
      <4> HIDE DEF Value
      <4> QED BY <1>3, <1>6, <4>6
    <3> QED BY <3>1, <3>2
  <2> QED BY <2>0, <2>1
<1>10. \A k \in 0..Cardinality(s) : k \in T
  <2> HIDE DEF T
  <2> QED BY <1>7, <1>8, <1>9, Induct
<1>11. f[s] = sum[s]
  <2>1. Cardinality(s) \in T
    BY <1>7, <1>10
  <2> QED BY <1>7, <2>1
<1> QED
  <2>1. sum[s] = SumOver(w, s, n)
    BY DEF sum
  <2> QED BY <1>1, <1>11, <2>1

-----------------------------------------------------------------------------
(***************************************************************************)
(* The final total. For every way of weighing items, those on the receipt  *)
(* weigh what the events weigh that put them there and were not undone: with *)
(* weights of its own for each name, the removal of a name needs no account *)
(* of which items stay. A price is one such weight, a count another.       *)
(***************************************************************************)

\* Weights give every item, by its name and price, a number.
Weights == [Names -> [Prices -> Nat]]

WeightsOf(W, items) == [k \in 1..Len(items) |-> W[items[k].name][items[k].price]]

Weighed(W, items) == SumTo(WeightsOf(W, items), Len(items))

\* Items weigh natural numbers.
LEMMA WeightsTyped ==
  ASSUME NEW W \in Weights, NEW items \in Seq(R!ReceiptItem)
  PROVE  /\ Len(items) \in Nat /\ \A k \in 1..Len(items) : /\ WeightsOf(W, items)[k] \in Nat
                                   /\ WeightsOf(W, items)[k] = W[items[k].name][items[k].price]
         /\ Weighed(W, items) \in Nat
<1>1. Len(items) \in Nat /\ \A k \in 1..Len(items) : items[k].name \in Names /\ items[k].price \in Prices
  BY ItemsOf
<1>2. \A k \in 1..Len(items) : WeightsOf(W, items)[k] = W[items[k].name][items[k].price]
                               /\ WeightsOf(W, items)[k] \in Nat
  BY <1>1 DEF Weights, WeightsOf
<1>3. Len(items) \in 0..Len(items)
  BY <1>1
<1> QED BY <1>1, <1>2, <1>3, SumNext DEF Weighed

\* One more item adds its weight.
LEMMA WeighedAppend ==
  ASSUME NEW W \in Weights, NEW items \in Seq(R!ReceiptItem), NEW item \in R!ReceiptItem
  PROVE  Weighed(W, Append(items, item)) = Weighed(W, items) + W[item.name][item.price]
<1> DEFINE more == Append(items, item)
           n == Len(items)
           w == WeightsOf(W, more)
<1>1. more \in Seq(R!ReceiptItem) /\ Len(more) = n + 1 /\ more[n + 1] = item
      /\ \A k \in 1..n : more[k] = items[k]
  OBVIOUS
<1> HIDE DEF more
<1>2. n \in Nat /\ \A k \in 1..n : WeightsOf(W, items)[k] \in Nat
                   /\ WeightsOf(W, items)[k] = W[items[k].name][items[k].price]
  BY WeightsTyped
<1>3. \A k \in 1..(n + 1) : w[k] \in Nat /\ w[k] = W[more[k].name][more[k].price]
  BY <1>1, WeightsTyped
<1> HIDE DEF w
<1>4. SumTo(w, n + 1) = SumTo(w, n) + w[n + 1]
  <2>1. n + 1 \in Nat /\ n \in 0..((n + 1) - 1)
    BY <1>2
  <2> HIDE DEF n
  <2> QED BY <1>3, <2>1, SumNext
<1>5. SumTo(w, n) = SumTo(WeightsOf(W, items), n)
  <2> DEFINE v == WeightsOf(W, items)
  <2>1. \A k \in 1..n : w[k] \in Nat /\ v[k] = w[k]
    BY <1>1, <1>2, <1>3
  <2> HIDE DEF v, n
  <2> QED BY <1>2, <2>1, SameSum DEF v
<1>6. w[n + 1] = W[item.name][item.price]
  <2>1. n + 1 \in 1..(n + 1)
    BY <1>2
  <2> QED BY <1>1, <1>3, <2>1
<1>7. Weighed(W, more) = SumTo(w, n + 1)
  BY <1>1 DEF Weighed, w
<1> QED BY <1>4, <1>5, <1>6, <1>7 DEF Weighed, more

\* No items weigh nothing.
LEMMA WeighedNothing == \A W : Weighed(W, <<>>) = 0
<1> SUFFICES ASSUME NEW W PROVE Weighed(W, <<>>) = 0
  OBVIOUS
<1> DEFINE w == WeightsOf(W, <<>>)
           z == 0
<1>1. Len(<<>>) = z /\ z \in Nat /\ \A k \in 1..z : w[k] \in Nat
  OBVIOUS
<1>2. SumTo(w, z) = 0
  <2>1. \A k \in 1..0 : w[k] \in Nat
    OBVIOUS
  <2> HIDE DEF w
  <2> QED BY <2>1, SumNext
<1> QED BY <1>1, <1>2 DEF Weighed

\* Taking a name's items away is giving them no weight.
Weightless(W, name) == [W EXCEPT ![name] = [price \in Prices |-> 0]]

\* Shown along the filter, item by item.
LEMMA WeighedWithout ==
  ASSUME NEW W \in Weights, NEW items \in Seq(R!ReceiptItem), NEW name \in Names
  PROVE  /\ Weightless(W, name) \in Weights
         /\ Weighed(W, R!Without(items, name)) = Weighed(Weightless(W, name), items)
<1> DEFINE n == Len(items)
           U == Weightless(W, name)
           w == WeightsOf(U, items)
<1>1. U \in Weights /\ \A m \in Names : \A q \in Prices : U[m][q] = IF m = name THEN 0 ELSE W[m][q]
  BY DEF Weights, Weightless
<1> HIDE DEF U
<1>2. n \in Nat /\ DOMAIN items = 1..n /\ \A i \in 1..n : items[i] \in R!ReceiptItem
      /\ items[i].name \in Names /\ items[i].price \in Prices
  BY ItemsOf
<1>3. PICK a \in [0..n -> Seq(R!ReceiptItem)] : Filtering(a, items, name, n) /\ R!Without(items, name) = a[n]
  <2> DEFINE I == R!ReceiptItem
  <2>1. \A i \in 1..n : items[i] \in I
    BY <1>2
  <2> HIDE DEF I, n
  <2>2. Filters(items, name, n, I)
    BY <1>2, <2>1, WithoutEquation
  <2> QED BY <2>2 DEF Filters, I
<1>4. \A i \in 1..n : w[i] \in Nat /\ w[i] = U[items[i].name][items[i].price]
  BY <1>1, WeightsTyped
<1> HIDE DEF w
<1> DEFINE T == {k \in 0..n : Weighed(W, a[k]) = SumTo(w, k)}
<1>5. SumTo(w, 0) = 0 /\ \A k \in 0..(n - 1) : SumTo(w, k + 1) = SumTo(w, k) + w[k + 1]
  BY <1>2, <1>4, SumNext
<1>6. \A k \in 0..n : SumTo(w, k) \in Nat
  BY <1>2, <1>4, SumNext
<1>7. 0 \in T
  BY <1>2, <1>3, <1>5, WeighedNothing DEF Filtering
<1>8. ASSUME NEW k \in 0..(n - 1), k \in T PROVE k + 1 \in T
  <2>1. k + 1 \in 1..n /\ (k + 1) - 1 = k /\ k \in 0..n /\ k + 1 \in 0..n
    BY <1>2
  <2> DEFINE item == items[k + 1]
  <2>2. item \in R!ReceiptItem /\ item.name \in Names /\ item.price \in Prices
    BY <1>2, <2>1
  <2>3. a[k + 1] = IF item.name = name THEN a[k] ELSE Append(a[k], item)
    BY <1>3, <2>1 DEF Filtering
  <2>4. w[k + 1] = IF item.name = name THEN 0 ELSE W[item.name][item.price]
    BY <1>1, <1>4, <2>1, <2>2
  <2>5. Weighed(W, a[k]) = SumTo(w, k) /\ SumTo(w, k) \in Nat /\ a[k] \in Seq(R!ReceiptItem)
    BY <1>3, <1>6, <1>8, <2>1
  <2> HIDE DEF item
  <2>6. CASE item.name = name
    BY <1>5, <2>1, <2>3, <2>4, <2>5, <2>6
  <2>7. CASE item.name # name
    <3>1. Weighed(W, a[k + 1]) = Weighed(W, a[k]) + W[item.name][item.price]
      BY <2>2, <2>3, <2>5, <2>7, WeighedAppend
    <3> QED BY <1>5, <2>1, <2>4, <2>5, <2>7, <3>1
  <2> QED BY <2>6, <2>7
<1>9. \A k \in 0..n : k \in T
  <2> HIDE DEF T, n
  <2> QED BY <1>2, <1>7, <1>8, Induct
<1>10. n \in T
  BY <1>2, <1>9
<1> QED BY <1>1, <1>3, <1>10 DEF Weighed, w, U

\* What a price weighs is the price, and what anything weighs is one.
ByPrice == [name \in Names |-> [price \in Prices |-> price]]
ByCount == [name \in Names |-> [price \in Prices |-> 1]]

\* The total of items is what they weigh by price.
LEMMA TotalIsWeight ==
  ASSUME NEW items \in Seq(R!ReceiptItem)
  PROVE  ByPrice \in Weights /\ R!calculateTotal(items) = Weighed(ByPrice, items)
<1> DEFINE n == Len(items)
           w == WeightsOf(ByPrice, items)
<1>1. n \in Nat /\ DOMAIN items = 1..n /\ \A i \in 1..n : items[i].price \in Nat
      /\ items[i].name \in Names /\ items[i].price \in Prices
  BY ItemsOf
<1>2. PICK a \in [0..n -> Nat] : Totalling(a, items, n) /\ R!calculateTotal(items) = a[n]
  BY <1>1, TotalEquation
<1>3. ByPrice \in Weights
  BY PricesAssumption DEF ByPrice, Weights
<1>4. \A i \in 1..n : w[i] = items[i].price /\ w[i] \in Nat
  BY <1>1 DEF WeightsOf, ByPrice
<1> HIDE DEF w
<1>5. Adds(a, w, n)
  BY <1>2, <1>4 DEF Adds, Totalling
<1>6. SumTo(w, n) = a[n]
  BY <1>1, <1>4, <1>5, SumIs
<1> QED BY <1>2, <1>3, <1>6 DEF Weighed, w

\* Items weigh something, counted.
LEMMA SomethingCounts ==
  ASSUME NEW items \in Seq(R!ReceiptItem), items # <<>>
  PROVE  ByCount \in Weights /\ Weighed(ByCount, items) # 0
<1> DEFINE n == Len(items)
           w == WeightsOf(ByCount, items)
<1>1. n \in Nat /\ n # 0
  OBVIOUS
<1>2. ByCount \in Weights
  BY DEF ByCount, Weights
<1>3. \A i \in 1..n : w[i] \in Nat /\ w[i] = ByCount[items[i].name][items[i].price]
  BY <1>2, WeightsTyped
<1> HIDE DEF w
<1>4. n \in 1..n /\ n - 1 \in 0..(n - 1) /\ n - 1 \in 0..n /\ (n - 1) + 1 = n
  BY <1>1
<1>5. w[n] = 1
  BY <1>3, <1>4, ItemsOf DEF ByCount
<1>6. (\A k \in 0..n : SumTo(w, k) \in Nat) /\ \A k \in 0..(n - 1) : SumTo(w, k + 1) = SumTo(w, k) + w[k + 1]
  BY <1>1, <1>3, SumNext
<1>7. SumTo(w, n) = SumTo(w, n - 1) + 1 /\ SumTo(w, n - 1) \in Nat
  BY <1>4, <1>5, <1>6
<1>8. SumTo(w, n) # 0
  BY <1>7
<1> QED BY <1>2, <1>8 DEF Weighed, w

\* The item events among the first n that have not been undone by then.
OnIt(n) ==
  {j \in 1..n : /\ log[j].event.type = "item-added"
                /\ \A k \in 1..n : log[k].event.type = "item-removed" /\ j < k
                                     => log[k].event.name # log[j].event.name}

WeightAt(W) == [j \in 1..Len(log) |-> W[log[j].event.name][log[j].event.price]]

\* The items of a receipt weigh what the events that put them there do.
Backed(n) ==
  \A W \in Weights : Weighed(W, ReceiptAfter(n).items) = SumOver(WeightAt(W), OnIt(n), Len(log))

\* What the types of events tell of their fields.
LEMMA EventShapes ==
  ASSUME NEW e \in ReceiptEvents
  PROVE  /\ e.type \in {"item-added", "item-removed", "receipt-finalized", "receipt-voided"}
         /\ e.type = "item-added" => e.name \in Names /\ e.price \in Prices
                                     /\ [name |-> e.name, price |-> e.price] \in R!ReceiptItem
         /\ e.type = "item-removed" => e.name \in Names
BY DEF ReceiptEvents, R!ItemAdded, R!ItemRemoved, R!ReceiptFinalized, R!ReceiptVoided, R!ReceiptItem

\* Each event changes the items and the set of events behind them alike.
LEMMA BackedStep ==
  ASSUME Len(log) \in Nat, NEW n \in 0..(Len(log) - 1), ReceiptAfter(n) \in R!Receipt,
         \A j \in 1..(n + 1) : log[j].event \in ReceiptEvents,
         EventAt(n + 1), Backed(n)
  PROVE  Backed(n + 1)
<1> SUFFICES ASSUME NEW W \in Weights
             PROVE  Weighed(W, ReceiptAfter(n + 1).items) = SumOver(WeightAt(W), OnIt(n + 1), Len(log))
  BY DEF Backed
<1> DEFINE e == log[n + 1].event
           before == ReceiptAfter(n)
           items == before.items
           size == Len(log)
<1>1. n + 1 \in 1..size /\ (n + 1) - 1 = n /\ n \in Nat /\ size \in Nat
  OBVIOUS
<1>2. e \in ReceiptEvents /\ ReceiptAfter(n + 1) = R!ReceiptReduce(before, e)
  BY <1>1 DEF EventAt
<1>3. items \in Seq(R!ReceiptItem)
  BY DEF R!Receipt
<1>4. ReceiptAfter(n + 1).items =
        CASE e.type = "item-added" -> Append(items, [name |-> e.name, price |-> e.price])
          [] e.type = "item-removed" -> R!Without(items, e.name)
          [] OTHER -> items
  <2> HIDE DEF e
  <2> QED BY <1>2, Reductions
<1>5. \A V \in Weights : Weighed(V, items) = SumOver(WeightAt(V), OnIt(n), size)
  BY DEF Backed
<1>6. \A V \in Weights, j \in OnIt(n) :
        j \in 1..n /\ j \in 1..size /\ WeightAt(V)[j] \in Nat
        /\ WeightAt(V)[j] = V[log[j].event.name][log[j].event.price]
  <2> SUFFICES ASSUME NEW V \in Weights, NEW j \in OnIt(n)
               PROVE  j \in 1..n /\ j \in 1..size /\ WeightAt(V)[j] \in Nat
                      /\ WeightAt(V)[j] = V[log[j].event.name][log[j].event.price]
    OBVIOUS
  <2>1. j \in 1..n /\ log[j].event.type = "item-added"
    BY DEF OnIt
  <2>2. j \in 1..(n + 1) /\ j \in 1..size
    BY <1>1, <2>1
  <2>3. log[j].event.name \in Names /\ log[j].event.price \in Prices
    BY <2>1, <2>2, EventShapes
  <2> QED BY <2>1, <2>2, <2>3 DEF WeightAt, Weights
<1>7. CASE e.type = "item-added"
  <2> DEFINE item == [name |-> e.name, price |-> e.price]
             w == WeightAt(W)
  <2>1. /\ item \in R!ReceiptItem /\ item.name \in Names /\ item.price \in Prices
        /\ ReceiptAfter(n + 1).items = Append(items, item)
    BY <1>2, <1>4, <1>7, EventShapes
  <2>2. Weighed(W, ReceiptAfter(n + 1).items) = Weighed(W, items) + W[e.name][e.price]
    <3>1. Weighed(W, Append(items, item)) = Weighed(W, items) + W[item.name][item.price]
      <4> HIDE DEF item, items
      <4> QED BY <1>3, <2>1, WeighedAppend
    <3> QED BY <2>1, <3>1
  <2>3. OnIt(n + 1) = OnIt(n) \cup {n + 1} /\ n + 1 \notin OnIt(n)
    <3>1. \A j \in 1..(n + 1) : j = n + 1 \/ j \in 1..n
      BY <1>1
    <3>2. \A j \in 1..n : j \in 1..(n + 1) /\ j # n + 1
      BY <1>1
    <3>3. n + 1 \in 1..(n + 1) /\ \A k \in 1..n : ~(n + 1 < k)
      BY <1>1
    <3> QED BY <1>7, <3>1, <3>2, <3>3 DEF OnIt
  <2>4. w[n + 1] = W[e.name][e.price] /\ w[n + 1] \in Nat
    BY <1>1, <2>1 DEF WeightAt, Weights
  <2>5. OnIt(n + 1) \in SUBSET (1..size) /\ n + 1 \in OnIt(n + 1) /\ OnIt(n + 1) \ {n + 1} = OnIt(n)
        /\ \A j \in OnIt(n + 1) : w[j] \in Nat
    <3> HIDE DEF w
    <3>1. \A j \in OnIt(n) : j \in 1..size /\ w[j] \in Nat
      BY <1>6 DEF w
    <3> QED BY <1>1, <2>3, <2>4, <3>1
  <2>6. SumOver(w, OnIt(n + 1), size) = w[n + 1] + SumOver(w, OnIt(n), size) /\ SumOver(w, OnIt(n), size) \in Nat
    <3> DEFINE s == OnIt(n + 1)
               x == n + 1
    <3>1. s \in SUBSET (1..size) /\ x \in s /\ s \ {x} = OnIt(n) /\ \A j \in s : w[j] \in Nat
      BY <2>5
    <3> HIDE DEF s, x, w, size
    <3>2. SumOver(w, s, size) = w[x] + SumOver(w, s \ {x}, size) /\ SumOver(w, s \ {x}, size) \in Nat
      BY <1>1, <3>1, SumOverRemoves
    <3> QED BY <3>1, <3>2 DEF s, x
  <2>7. Weighed(W, items) = SumOver(w, OnIt(n), size)
    BY <1>5
  <2>8. SumOver(w, OnIt(n), size) + W[e.name][e.price] = W[e.name][e.price] + SumOver(w, OnIt(n), size)
    <3> HIDE DEF w, e, size
    <3> QED BY <2>4, <2>6
  <2> QED BY <2>2, <2>4, <2>6, <2>7, <2>8
<1>8. CASE e.type = "item-removed"
  <2> DEFINE U == Weightless(W, e.name)
  <2>1. e.name \in Names /\ ReceiptAfter(n + 1).items = R!Without(items, e.name)
    BY <1>2, <1>4, <1>8, EventShapes
  <2>2. U \in Weights /\ Weighed(W, R!Without(items, e.name)) = Weighed(U, items)
    <3> HIDE DEF items, e
    <3> QED BY <1>3, <2>1, WeighedWithout
  <2>3. \A m \in Names : \A q \in Prices : U[m][q] = IF m = e.name THEN 0 ELSE W[m][q]
    BY DEF Weights, Weightless
  <2> HIDE DEF U
  <2>4. Weighed(U, items) = SumOver(WeightAt(U), OnIt(n), size)
    BY <1>5, <2>2
  <2>5. \A j \in 1..size : j \in OnIt(n + 1) <=> j \in OnIt(n) /\ log[j].event.name # e.name
    <3>1. \A j \in 1..(n + 1) : j = n + 1 \/ (j \in 1..n /\ j < n + 1)
      BY <1>1
    <3>2. \A j \in 1..n : j \in 1..(n + 1) /\ j # n + 1
      BY <1>1
    <3>3. n + 1 \in 1..(n + 1)
      BY <1>1
    <3>4. log[n + 1].event.type # "item-added"
      BY <1>8
    <3>5. ASSUME NEW j \in OnIt(n + 1) PROVE j \in OnIt(n) /\ log[j].event.name # e.name
      <4>1. j \in 1..(n + 1) /\ log[j].event.type = "item-added"
            /\ \A k \in 1..(n + 1) : log[k].event.type = "item-removed" /\ j < k
                                     => log[k].event.name # log[j].event.name
        BY <3>5 DEF OnIt
      <4>2. j \in 1..n /\ j < n + 1
        BY <3>1, <3>4, <4>1
      <4> QED BY <1>8, <3>2, <3>3, <4>1, <4>2 DEF OnIt
    <3>6. ASSUME NEW j \in OnIt(n), log[j].event.name # e.name PROVE j \in OnIt(n + 1)
      <4>1. j \in 1..n /\ log[j].event.type = "item-added"
            /\ \A k \in 1..n : log[k].event.type = "item-removed" /\ j < k
                               => log[k].event.name # log[j].event.name
        BY <3>6 DEF OnIt
      <4>2. j \in 1..(n + 1)
        BY <3>2, <4>1
      <4> QED BY <3>1, <3>6, <4>1, <4>2 DEF OnIt
    <3> QED BY <3>5, <3>6
  <2>6. SumOver(WeightAt(U), OnIt(n), size) = SumOver(WeightAt(W), OnIt(n + 1), size)
    <3> DEFINE w == Over(WeightAt(U), OnIt(n), size)
               v == Over(WeightAt(W), OnIt(n + 1), size)
    <3>1. ASSUME NEW i \in 1..size PROVE w[i] \in Nat /\ v[i] = w[i]
      <4>1. w[i] = IF i \in OnIt(n) THEN WeightAt(U)[i] ELSE 0
        BY DEF Over
      <4>2. v[i] = IF i \in OnIt(n + 1) THEN WeightAt(W)[i] ELSE 0
        BY DEF Over
      <4> HIDE DEF w, v
      <4>3. CASE i \in OnIt(n)
        <5>1. WeightAt(U)[i] \in Nat /\ WeightAt(U)[i] = U[log[i].event.name][log[i].event.price]
              /\ WeightAt(W)[i] = W[log[i].event.name][log[i].event.price]
          BY <1>6, <2>2, <4>3
        <5>2. log[i].event.name \in Names /\ log[i].event.price \in Prices
          <6>1. i \in 1..(n + 1) /\ log[i].event.type = "item-added"
            BY <4>3 DEF OnIt
          <6> QED BY <6>1, EventShapes
        <5>3. WeightAt(U)[i] = IF log[i].event.name = e.name THEN 0 ELSE WeightAt(W)[i]
          BY <2>3, <5>1, <5>2
        <5> HIDE DEF e
        <5> QED BY <2>5, <4>1, <4>2, <4>3, <5>1, <5>3
      <4>4. CASE i \notin OnIt(n)
        BY <2>5, <4>1, <4>2, <4>4
      <4> QED BY <4>3, <4>4
    <3> HIDE DEF w, v, size
    <3>2. SumTo(w, size) = SumTo(v, size)
      BY <1>1, <3>1, SameSum
    <3> QED BY <3>2 DEF w, v, SumOver
  <2> QED BY <2>1, <2>2, <2>4, <2>6
<1>9. CASE e.type \notin {"item-added", "item-removed"}
  <2>1. OnIt(n + 1) = OnIt(n)
    <3>1. \A j \in 1..(n + 1) : j = n + 1 \/ j \in 1..n
      BY <1>1
    <3>2. \A j \in 1..n : j \in 1..(n + 1)
      BY <1>1
    <3> QED BY <1>9, <3>1, <3>2 DEF OnIt
  <2>2. ReceiptAfter(n + 1).items = items
    <3> HIDE DEF e, items
    <3> QED BY <1>4, <1>9
  <2> QED BY <1>5, <2>1, <2>2
<1> QED BY <1>7, <1>8, <1>9

\* By induction over the log.
LEMMA BackedHolds ==
  ASSUME Recorded, ReceiptDomain(R!Receipt, ReceiptEvents)
  PROVE  \A n \in 0..Len(log) : Backed(n)
<1>1. Len(log) \in Nat /\ DOMAIN log = 1..Len(log) /\ \A n \in 0..Len(log) : History(n)
  BY HistoryHolds
<1>2. \A n \in 1..Len(log) : n - 1 \in 0..Len(log) /\ EventAt(n) /\ log[n].event \in ReceiptEvents
  <2> SUFFICES ASSUME NEW n \in 1..Len(log)
               PROVE  n - 1 \in 0..Len(log) /\ EventAt(n) /\ log[n].event \in ReceiptEvents
    OBVIOUS
  <2>1. n - 1 \in 0..Len(log)
    BY <1>1
  <2>2. EventAt(n)
    BY <1>1, <2>1, EventOf DEF History
  <2> QED BY <2>1, <2>2 DEF EventAt
<1> DEFINE T == {n \in 0..Len(log) : Backed(n)}
<1>3. 0 \in T
  <2>1. ReceiptAfter(0).items = <<>>
    <3>1. ReceiptAfter(0) = StartState
      BY EntityAssumptions, SP!StatesOfPrefixes DEF Recorded, ReceiptAfter
    <3>2. StartState = R!NewReceipt
      BY ReceiptReducers DEF ReceiptDomain
    <3> QED BY <3>1, <3>2 DEF R!NewReceipt
  <2>2. OnIt(0) = {}
    BY DEF OnIt
  <2>3. Backed(0)
    BY <1>1, <2>1, <2>2, WeighedNothing, SumOverNothing DEF Backed
  <2> QED BY <1>1, <2>3
<1>4. ASSUME NEW n \in 0..(Len(log) - 1), n \in T PROVE n + 1 \in T
  <2>1. n + 1 \in 1..Len(log) /\ n + 1 \in 0..Len(log) /\ n \in 0..Len(log)
        /\ \A j \in 1..(n + 1) : j \in 1..Len(log)
    BY <1>1
  <2>2. /\ ReceiptAfter(n) \in R!Receipt /\ EventAt(n + 1)
        /\ \A j \in 1..(n + 1) : log[j].event \in ReceiptEvents
    BY <1>1, <1>2, <2>1 DEF History
  <2>3. Backed(n)
    BY <1>4
  <2>4. Backed(n + 1)
    BY <1>1, <2>2, <2>3, BackedStep
  <2> QED BY <2>1, <2>4
<1> HIDE DEF T
<1>5. \A n \in 0..Len(log) : n \in T
  BY <1>1, <1>3, <1>4, Induct
<1> QED BY <1>5 DEF T

\* A final total is the total of the items when it was decided on, weighed by price,
\* and weighed by count they show that there were some.
LEMMA FinalTotalInHistory ==
  ASSUME Recorded, ReceiptDomain(R!Receipt, ReceiptEvents)
  PROVE  FinalTotalIsSum
<1>1. Len(log) \in Nat /\ DOMAIN log = 1..Len(log) /\ \A n \in 0..Len(log) : History(n)
  BY HistoryHolds
<1> SUFFICES ASSUME NEW i \in DOMAIN log, log[i].event.type = "receipt-finalized"
             PROVE  LET onIt == {j \in R!Types({"item-added"}) : j < i /\ R!Remains(j, i)}
                    IN  /\ onIt # {}
                        /\ log[i].event.finalTotal = R!MapThenSumSet(LAMBDA j : log[j].event.price, onIt)
  BY DEF FinalTotalIsSum, R!FinalTotalIsSum, R!Types
<1> DEFINE onIt == {j \in R!Types({"item-added"}) : j < i /\ R!Remains(j, i)}
           size == Len(log)
           before == ReceiptAfter(i - 1)
<1>2. i \in 1..size /\ i - 1 \in 0..size /\ \A j \in 1..size : j < i <=> j \in 1..(i - 1)
  BY <1>1
<1>3. History(i - 1) /\ EventAt(i)
  <2>1. History(i - 1)
    BY <1>1, <1>2
  <2> QED BY <1>2, <2>1, EventOf DEF History
<1>4. before \in R!Receipt /\ ItemsTotal(before) /\ before.items \in Seq(R!ReceiptItem)
      /\ log[i].event.finalTotal = before.total /\ before.items # <<>>
  BY <1>3 DEF History, EventAt, R!Receipt
<1>5. onIt = OnIt(i - 1)
  <2>1. \A k \in 1..(i - 1) : k \in 1..size
    BY <1>1, <1>2
  <2>2. \A j : j \in onIt <=> /\ j \in 1..size /\ log[j].event.type = "item-added" /\ j < i
                              /\ \A k \in 1..size : log[k].event.type = "item-removed" /\ j < k /\ k < i
                                                     => log[k].event.name # log[j].event.name
    BY <1>1 DEF R!Types, R!Remains
  <2>3. \A j : j \in OnIt(i - 1) <=> j \in onIt
    BY <1>2, <2>1, <2>2 DEF OnIt
  <2> HIDE DEF onIt
  <2> QED BY <2>3
<1> HIDE DEF onIt
<1>6. \A W \in Weights : Weighed(W, before.items) = SumOver(WeightAt(W), onIt, size)
  BY <1>2, <1>5, BackedHolds DEF Backed
<1>7. onIt # {}
  <2>1. ByCount \in Weights /\ Weighed(ByCount, before.items) # 0
    <3> HIDE DEF before
    <3> QED BY <1>4, SomethingCounts
  <2>2. CASE onIt = {}
    <3>1. SumOver(WeightAt(ByCount), onIt, size) = 0
      BY <1>1, <2>2, SumOverNothing
    <3> QED BY <1>6, <2>1, <3>1
  <2> QED BY <2>2
<1>8. /\ onIt \in SUBSET (1..size)
      /\ \A j \in onIt : log[j].event.price \in Prices /\ log[j].event.name \in Names
                         /\ PriceAt(j) \in Nat
  <2> SUFFICES ASSUME NEW j \in onIt
               PROVE  j \in 1..size /\ log[j].event.price \in Prices /\ log[j].event.name \in Names
                      /\ PriceAt(j) \in Nat
    OBVIOUS
  <2>1. j \in 1..(i - 1) /\ log[j].event.type = "item-added"
    BY <1>5 DEF OnIt
  <2>2. j \in 1..size /\ j - 1 \in 0..size
    BY <1>1, <1>2, <2>1
  <2>3. EventAt(j)
    <3>1. History(j - 1)
      BY <1>1, <2>2
    <3> QED BY <2>2, <3>1, EventOf DEF History
  <2>4. log[j].event \in ReceiptEvents
    BY <2>3 DEF EventAt
  <2> QED BY <2>1, <2>2, <2>4, EventShapes, PricesAssumption DEF PriceAt
<1>9. R!MapThenSumSet(LAMBDA j : log[j].event.price, onIt) = SumOver([j \in 1..size |-> PriceAt(j)], onIt, size)
  <2> HIDE DEF size
  <2> QED BY <1>1, <1>8, SetSum DEF size
<1>10. SumOver(WeightAt(ByPrice), onIt, size) = SumOver([j \in 1..size |-> PriceAt(j)], onIt, size)
  <2> DEFINE w == Over(WeightAt(ByPrice), onIt, size)
             v == Over([j \in 1..size |-> PriceAt(j)], onIt, size)
  <2>1. ASSUME NEW j \in 1..size PROVE w[j] \in Nat /\ v[j] = w[j]
    <3>1. CASE j \in onIt
      BY <1>8, <3>1 DEF Over, WeightAt, ByPrice, PriceAt
    <3>2. CASE j \notin onIt
      BY <3>2 DEF Over
    <3> QED BY <3>1, <3>2
  <2> HIDE DEF w, v
  <2>2. SumTo(w, size) = SumTo(v, size)
    BY <1>1, <2>1, SameSum
  <2> QED BY <2>2 DEF w, v, SumOver
<1>11. ByPrice \in Weights /\ before.total = Weighed(ByPrice, before.items)
  <2>1. ByPrice \in Weights /\ R!calculateTotal(before.items) = Weighed(ByPrice, before.items)
    <3> HIDE DEF before
    <3> QED BY <1>4, TotalIsWeight
  <2> QED BY <1>4, <2>1 DEF ItemsTotal
<1>12. log[i].event.finalTotal = R!MapThenSumSet(LAMBDA j : log[j].event.price, onIt)
  BY <1>4, <1>6, <1>9, <1>10, <1>11
<1> QED BY <1>7, <1>12 DEF onIt

\* No item is added to or removed from a receipt that was closed, and nothing
\* happens to a void one.
THEOREM ClosedStaysFinal ==
  ASSUME ReceiptDomain(R!Receipt, ReceiptEvents), ~Stale, ~Remote, MaxForeign = 0
  PROVE  ServedSpec => []ClosedIsFinal
<1>1. Recorded => ClosedIsFinal
  BY ClosedInHistory
<1> QED BY <1>1, ServedCommandsSerialize, PTL

\* The final total of a receipt is the sum of the items that were on it, of which
\* there was one.
THEOREM FinalTotalsAreSums ==
  ASSUME ReceiptDomain(R!Receipt, ReceiptEvents), ~Stale, ~Remote, MaxForeign = 0
  PROVE  ServedSpec => []FinalTotalIsSum
<1>1. Recorded => FinalTotalIsSum
  BY FinalTotalInHistory
<1> QED BY <1>1, ServedCommandsSerialize, PTL
=============================================================================
