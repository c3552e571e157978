-------------------------- MODULE NatsService_proofs --------------------------
(***************************************************************************)
(* Theorems about NatsService, for any requests, permits and hanging work. *)
(*                                                                         *)
(* Most of them rest on one invariant, that the loop has one command in    *)
(* the pool at a time: the one it took last. The last ones carry over what *)
(* WorkerPool_proofs proves of the pool.                                   *)
(***************************************************************************)
EXTENDS NatsService, TLAPS

\* The variables the argument speaks of have their types.
Types ==
  /\ stage \in [Tasks -> {"idle", "queued", "granted", "working", "done"}]
  /\ outcome \in [Tasks -> {"none", "ok", "error", "timeout", "shutdown"}]
  /\ waiting \in Seq(Tasks)
  /\ isShuttingDown \in BOOLEAN
  /\ inbox \in Seq(Tasks)
  /\ taken \in 0..Len(inbox)
  /\ loop \in {"waiting", "handling", "exited"}
  /\ loading \subseteq Loads
  /\ service \in {"up", "stopping", "joining", "closing", "down"}
  /\ reply \in [Requests -> {"none", "entity", "invalid", "error", "overloaded"}]
  /\ effects \subseteq Tasks

\* A request is delivered once, and one that has not been taken is untouched.
Mailbox ==
  /\ \A i \in DOMAIN inbox : inbox[i] \in sent
  /\ \A i, j \in DOMAIN inbox : inbox[i] = inbox[j] => i = j
  /\ \A i \in DOMAIN inbox : i > taken => stage[inbox[i]] = "idle" /\ reply[inbox[i]] = "none"
  /\ \A t \in Tasks \ sent : stage[t] = "idle" /\ reply[t] = "none"

\* Only the command in hand is in the pool.
Single ==
  /\ \A i \in DOMAIN waiting : stage[waiting[i]] = "queued"
  /\ loop = "handling" => taken > 0 /\ reply[inbox[taken]] = "none"
  /\ \A t \in Tasks :
       stage[t] \in {"queued", "granted", "working"} => loop = "handling" /\ t = inbox[taken]

\* What a reply and an outcome say of the command.
Truthful ==
  \A t \in Tasks :
    /\ stage[t] = "idle" => t \notin effects /\ outcome[t] = "none"
    /\ outcome[t] = "ok" => t \in effects
    /\ outcome[t] # "shutdown"
    /\ stage[t] = "done" => outcome[t] # "none"
    /\ reply[t] = "entity" => t \in effects
    /\ reply[t] = "invalid" => stage[t] = "idle"

\* Every command the loop has done with has been answered.
Answered ==
  \A i \in 1..taken : i < taken \/ loop = "waiting" => reply[inbox[i]] # "none"

\* The pool is shut down after the loop has ended.
Stages ==
  /\ isShuttingDown => service \in {"closing", "down"}
  /\ service \in {"closing", "down"} => loop = "exited"

Inv == Types /\ Mailbox /\ Single /\ Truthful /\ Answered /\ Stages

-----------------------------------------------------------------------------
LEMMA InitInv == Init => Inv
<1> SUFFICES ASSUME Init PROVE Inv
  OBVIOUS
<1> USE DEF Init, Pool!Init
<1>1. inbox = <<>> /\ waiting = <<>> /\ taken = 0 /\ Len(inbox) = 0
  OBVIOUS
<1>2. Types
  <2>1. isShuttingDown \in BOOLEAN BY Zenon
  <2>2. inbox \in Seq(Tasks) /\ waiting \in Seq(Tasks) /\ taken \in 0..Len(inbox) BY <1>1
  <2>3. /\ stage \in [Tasks -> {"idle", "queued", "granted", "working", "done"}]
        /\ outcome \in [Tasks -> {"none", "ok", "error", "timeout", "shutdown"}]
        /\ reply \in [Requests -> {"none", "entity", "invalid", "error", "overloaded"}]
    OBVIOUS
  <2> QED BY <2>1, <2>2, <2>3 DEF Types
<1>3. Mailbox /\ Single /\ Answered
  BY <1>1 DEF Mailbox, Single, Answered, Requests
<1>4. Truthful /\ Stages BY DEF Truthful, Stages, Requests
<1> QED BY <1>2, <1>3, <1>4 DEF Inv

\* What a client does to the service is to send a request.
LEMMA CallInv ==
  ASSUME Inv, \/ \E t \in Tasks : CallExecute(t)
              \/ \E l \in Loads : CallLoad(l)
  PROVE  Inv'
<1>1. ASSUME NEW t \in Tasks, CallExecute(t) PROVE Inv'
  <2> USE <1>1 DEF CallExecute, poolVars
  <2>1. CASE Subscribed
    <3>1. inbox' = Append(inbox, t) /\ sent' = sent \cup {t} /\ t \notin sent
      BY <2>1
    <3>2. /\ Len(inbox') = Len(inbox) + 1 /\ inbox' \in Seq(Tasks)
          /\ \A i \in 1..Len(inbox) : inbox'[i] = inbox[i]
          /\ inbox'[Len(inbox) + 1] = t
          /\ DOMAIN inbox = 1..Len(inbox) /\ DOMAIN inbox' = 1..(Len(inbox) + 1)
          /\ Len(inbox) \in Nat
      BY <3>1 DEF Inv, Types
    <3>3. Types' BY <3>2 DEF Inv, Types
    <3>4. Mailbox' BY <3>1, <3>2 DEF Inv, Types, Mailbox
    <3>5. Single' BY <3>2 DEF Inv, Types, Single
    <3>6. Truthful' /\ Stages' BY DEF Inv, Truthful, Stages
    <3>7. Answered' BY <3>2 DEF Inv, Types, Answered
    <3> QED BY <3>3, <3>4, <3>5, <3>6, <3>7 DEF Inv
  <2>2. CASE ~Subscribed
    BY <2>2 DEF Inv, Types, Mailbox, Single, Truthful, Answered, Stages
  <2> QED BY <2>1, <2>2
<1>2. ASSUME NEW l \in Loads, CallLoad(l) PROVE Inv'
  <2>1. /\ UNCHANGED <<poolVars, inbox, taken, loop, service, effects>>
        /\ sent' = sent \cup {l} /\ loading' \subseteq loading \cup {l}
        /\ \A t \in Tasks : reply'[t] = reply[t]
        /\ reply' \in [Requests -> {"none", "entity", "invalid", "error", "overloaded"}]
    BY <1>2, RequestsAssumption DEF CallLoad, Respond, Inv, Types, Requests
  <2>2. \A i \in DOMAIN inbox : inbox[i] \in Tasks
    BY DEF Inv, Types
  <2>3. Types' BY <2>1 DEF Inv, Types, poolVars
  <2>4. Mailbox' BY <2>1, <2>2 DEF Inv, Mailbox, poolVars
  <2>5. Single' BY <2>1, <2>2 DEF Inv, Types, Single, poolVars
  <2>6. Truthful' /\ Stages' BY <2>1 DEF Inv, Truthful, Stages, poolVars
  <2>7. Answered' BY <2>1, <2>2 DEF Inv, Types, Answered
  <2> QED BY <2>3, <2>4, <2>5, <2>6, <2>7 DEF Inv
<1> QED BY <1>1, <1>2

\* The loop takes a message: it ends, or the message is declined, or it is the
\* one command in the pool. The pool refuses none while the service is up.
LEMMA TakeInv == ASSUME Inv, Take PROVE Inv'
<1> DEFINE m == inbox[taken + 1]
<1>1. /\ loop = "waiting" /\ service = "up" /\ taken' = taken + 1
      /\ UNCHANGED <<inbox, loading, service, effects, sent>>
      /\ taken + 1 \in DOMAIN inbox /\ taken' \in 0..Len(inbox) /\ taken \in Nat
      /\ m \in Tasks /\ stage[m] = "idle" /\ reply[m] = "none" /\ m \in sent
      /\ \A i \in DOMAIN inbox : inbox[i] \in Tasks
      /\ \A i \in DOMAIN inbox : inbox[i] = m => i = taken + 1
      /\ DOMAIN inbox = 1..Len(inbox) /\ Len(inbox) \in Nat
  BY DEF Take, Inv, Types, Mailbox
<1>2. /\ waiting = <<>>
      /\ \A t \in Tasks : stage[t] \in {"idle", "done"}
  <2>1. \A t \in Tasks : stage[t] \in {"idle", "done"}
    BY <1>1 DEF Inv, Types, Single
  <2>2. ASSUME waiting # <<>> PROVE FALSE
    <3>1. 1 \in DOMAIN waiting /\ waiting[1] \in Tasks BY <2>2 DEF Inv, Types
    <3> QED BY <3>1, <2>1 DEF Inv, Single
  <2> QED BY <2>1, <2>2
<1>3. CASE Throw
  <2>1. loop' = "exited" /\ UNCHANGED <<poolVars, reply>> BY <1>3 DEF Throw
  <2>2. Types' BY <1>1, <2>1 DEF Inv, Types, poolVars
  <2>3. Mailbox' /\ Single' /\ Truthful' /\ Stages'
    BY <1>1, <1>2, <2>1 DEF Inv, Types, Mailbox, Single, Truthful, Stages, poolVars
  <2>4. Answered' BY <1>1, <2>1 DEF Inv, Answered
  <2> QED BY <2>2, <2>3, <2>4 DEF Inv
<1>4. CASE Decline
  <2>1. loop' = "waiting" /\ UNCHANGED poolVars /\ reply' = [reply EXCEPT ![m] = "invalid"]
    BY <1>4 DEF Decline, Respond, Message
  <2>2. reply' \in [Requests -> {"none", "entity", "invalid", "error", "overloaded"}]
        /\ reply'[m] = "invalid" /\ \A t \in Tasks : t # m => reply'[t] = reply[t]
    BY <1>1, <2>1 DEF Inv, Types, Requests
  <2>3. Types' BY <1>1, <2>1, <2>2 DEF Inv, Types, poolVars
  <2>4. Mailbox' BY <1>1, <2>1, <2>2 DEF Inv, Types, Mailbox, poolVars
  <2>5. Single' BY <1>1, <1>2, <2>1 DEF Inv, Types, Single, poolVars
  <2>6. Truthful' /\ Stages' BY <1>1, <2>1, <2>2 DEF Inv, Truthful, Stages, poolVars
  <2>7. Answered' BY <1>1, <2>1, <2>2 DEF Inv, Answered
  <2> QED BY <2>3, <2>4, <2>5, <2>6, <2>7 DEF Inv
<1>5. CASE Submit
  <2>1. ~isShuttingDown BY <1>1 DEF Inv, Stages
  <2>2. Pool!Acquire(m) /\ loop' = "handling" /\ UNCHANGED reply
    BY <1>5, <2>1 DEF Submit, Message, Pool!Refuse
  <2>3. /\ UNCHANGED <<isShuttingDown, outcome>>
        /\ \/ stage' = [stage EXCEPT ![m] = "granted"] /\ waiting' = waiting
           \/ stage' = [stage EXCEPT ![m] = "queued"] /\ waiting' = <<m>>
    BY <1>2, <2>2 DEF Pool!Acquire
  <2>4. /\ stage' \in [Tasks -> {"idle", "queued", "granted", "working", "done"}]
        /\ stage'[m] \in {"queued", "granted"}
        /\ \A t \in Tasks : t # m => stage'[t] = stage[t]
        /\ waiting' \in Seq(Tasks)
        /\ \A i \in DOMAIN waiting' : stage'[waiting'[i]] = "queued"
    <3>1. CASE stage' = [stage EXCEPT ![m] = "granted"] /\ waiting' = waiting
      BY <1>1, <1>2, <3>1 DEF Inv, Types
    <3>2. CASE stage' = [stage EXCEPT ![m] = "queued"] /\ waiting' = <<m>>
      <4>1. waiting' \in Seq(Tasks) /\ \A i \in DOMAIN waiting' : waiting'[i] = m
        BY <1>1, <3>2
      <4> QED BY <1>1, <3>2, <4>1 DEF Inv, Types
    <3> QED BY <2>3, <3>1, <3>2
  <2>5. Types' BY <1>1, <2>2, <2>3, <2>4 DEF Inv, Types
  <2>6. Mailbox' BY <1>1, <2>2, <2>4 DEF Inv, Types, Mailbox
  <2>7. Single'
    <3>1. inbox'[taken'] = m /\ taken' > 0 BY <1>1
    <3> QED BY <1>1, <1>2, <2>2, <2>4, <3>1 DEF Single
  <2>8. Truthful' /\ Stages' BY <1>1, <2>2, <2>3, <2>4 DEF Inv, Types, Truthful, Stages
  <2>9. Answered' BY <1>1, <2>2 DEF Inv, Answered
  <2> QED BY <2>5, <2>6, <2>7, <2>8, <2>9 DEF Inv
<1> QED BY <1>3, <1>4, <1>5 DEF Take

\* The command in hand settles. Nothing waits for its permit, and its outcome is
\* "ok" only if it has taken effect.
LEMMA SettleInv == ASSUME Inv, NEW t \in Tasks, CommandSettles(t) PROVE Inv'
<1>1. /\ Pool!Settle(t) /\ stage[t] = "working" /\ t = inbox[taken] /\ loop = "handling"
      /\ UNCHANGED <<inbox, taken, loop, loading, service, reply, sent>>
  BY DEF CommandSettles, Pool!Settle, Inv, Single
<1>2. waiting = <<>>
  <2>1. ASSUME waiting # <<>> PROVE FALSE
    <3>1. 1 \in DOMAIN waiting /\ waiting[1] \in Tasks BY <2>1 DEF Inv, Types
    <3>2. stage[waiting[1]] = "queued" BY <3>1 DEF Inv, Single
    <3> QED BY <1>1, <3>1, <3>2 DEF Inv, Single
  <2> QED BY <2>1
<1>3. /\ stage' = [stage EXCEPT ![t] = "done"] /\ waiting' = waiting
      /\ UNCHANGED isShuttingDown
      /\ \E result \in {"ok", "error", "timeout"} : outcome' = [outcome EXCEPT ![t] = result]
  BY <1>1, <1>2 DEF Pool!Settle, Pool!Release
<1>4. /\ stage' \in [Tasks -> {"idle", "queued", "granted", "working", "done"}]
      /\ outcome' \in [Tasks -> {"none", "ok", "error", "timeout", "shutdown"}]
      /\ stage'[t] = "done" /\ \A u \in Tasks : u # t => stage'[u] = stage[u]
      /\ outcome'[t] \in {"ok", "error", "timeout"}
      /\ \A u \in Tasks : u # t => outcome'[u] = outcome[u]
  BY <1>3 DEF Inv, Types
<1>5. /\ outcome'[t] = "ok" => t \in effects'
      /\ effects \subseteq effects' /\ effects' \subseteq effects \cup {t}
  BY DEF CommandSettles
<1>6. Types' BY <1>1, <1>3, <1>4, <1>5 DEF Inv, Types
<1>7. Mailbox'
  <2>1. \A i \in DOMAIN inbox : i > taken => inbox[i] # t /\ inbox[i] \in Tasks
    BY <1>1 DEF Inv, Types, Mailbox
  <2>2. t \in sent BY <1>1 DEF Inv, Mailbox
  <2> QED BY <1>1, <1>4, <2>1, <2>2 DEF Inv, Mailbox
<1>8. Single' BY <1>1, <1>2, <1>3, <1>4 DEF Inv, Single
<1>9. Truthful'
  <2>1. reply[t] # "invalid" BY <1>1 DEF Inv, Truthful
  <2> QED BY <1>1, <1>4, <1>5, <2>1 DEF Inv, Truthful
<1>10. Answered' /\ Stages' BY <1>1, <1>3 DEF Inv, Answered, Stages
<1> QED BY <1>6, <1>7, <1>8, <1>9, <1>10 DEF Inv

\* handleCommandMessage answers the command in hand, whatever its outcome.
LEMMA ReplyInv == ASSUME Inv, NEW t \in Tasks, Reply(t) PROVE Inv'
<1>1. /\ loop = "handling" /\ stage[t] = "done" /\ t = inbox[taken] /\ Answer(t, outcome[t])
      /\ loop' = "waiting"
      /\ UNCHANGED <<poolVars, inbox, taken, loading, service, effects, sent>>
  BY DEF Reply
<1>2. /\ outcome[t] \in {"ok", "error", "timeout"}
      /\ \E answer \in {"entity", "error", "overloaded"} :
           /\ reply' = [reply EXCEPT ![t] = answer]
           /\ answer = "entity" => t \in effects
  BY <1>1 DEF Inv, Types, Truthful, Answer, Respond
<1>3. /\ reply' \in [Requests -> {"none", "entity", "invalid", "error", "overloaded"}]
      /\ reply'[t] \in {"entity", "error", "overloaded"}
      /\ reply'[t] = "entity" => t \in effects
      /\ \A u \in Tasks : u # t => reply'[u] = reply[u]
  BY <1>2 DEF Inv, Types, Requests
<1>4. taken \in 1..Len(inbox) /\ \A i \in DOMAIN inbox : inbox[i] \in Tasks
  BY <1>1 DEF Inv, Types, Single
<1>5. Types' BY <1>1, <1>3 DEF Inv, Types, poolVars
<1>6. Mailbox'
  <2>1. \A i \in DOMAIN inbox : i > taken => inbox[i] # t
    BY <1>1, <1>4 DEF Inv, Types, Mailbox
  <2>2. t \in sent BY <1>1, <1>4 DEF Inv, Types, Mailbox
  <2> QED BY <1>1, <1>3, <1>4, <2>1, <2>2 DEF Inv, Mailbox, poolVars
<1>7. Single' BY <1>1 DEF Inv, Types, Single, poolVars
<1>8. Truthful' /\ Stages' BY <1>1, <1>3 DEF Inv, Truthful, Stages, poolVars
<1>9. Answered' BY <1>1, <1>3, <1>4 DEF Inv, Types, Answered
<1> QED BY <1>5, <1>6, <1>7, <1>8, <1>9 DEF Inv

\* shutdown comes to the pool when nothing is left in it.
LEMMA JoinedInv == ASSUME Inv, Joined PROVE Inv'
<1>1. /\ loop = "exited" /\ service' = "closing" /\ Pool!Shutdown(Closer)
      /\ UNCHANGED <<inbox, taken, loop, loading, reply, effects, sent>>
  BY DEF Joined
<1>2. waiting = <<>>
  <2>1. ASSUME waiting # <<>> PROVE FALSE
    <3>1. 1 \in DOMAIN waiting /\ waiting[1] \in Tasks BY <2>1 DEF Inv, Types
    <3> QED BY <1>1, <3>1 DEF Inv, Single
  <2> QED BY <2>1
<1>3. {waiting[i] : i \in DOMAIN waiting} = {} BY <1>2
<1>4. stage' = stage /\ outcome' = outcome /\ waiting' = waiting /\ isShuttingDown' = TRUE
  BY <1>1, <1>2, <1>3 DEF Pool!Shutdown, Inv, Types
<1>5. isShuttingDown' \in BOOLEAN BY <1>4, Zenon
<1>6. Types' BY <1>1, <1>4, <1>5 DEF Inv, Types
<1> QED
  BY <1>1, <1>4, <1>6 DEF Inv, Mailbox, Single, Truthful, Answered, Stages

\* The other steps of the service change little.
LEMMA OtherInv ==
  ASSUME Inv,
         \/ \E t \in Tasks : Begin(t) \/ Expire(t)
         \/ \E l \in Loads : LoadSettles(l)
         \/ Leave \/ Shutdown \/ Stopped \/ Closed
  PROVE  Inv'
<1>1. ASSUME NEW t \in Tasks, Begin(t) PROVE Inv'
  <2>1. /\ stage[t] = "granted" /\ stage' = [stage EXCEPT ![t] = "working"]
        /\ UNCHANGED <<isShuttingDown, waiting, outcome, serviceVars>>
    BY <1>1 DEF Begin, Pool!Start
  <2>2. /\ stage' \in [Tasks -> {"idle", "queued", "granted", "working", "done"}]
        /\ stage'[t] = "working" /\ \A u \in Tasks : u # t => stage'[u] = stage[u]
    BY <2>1 DEF Inv, Types
  <2>3. Types' BY <2>1, <2>2 DEF Inv, Types, serviceVars
  <2>4. \A i \in DOMAIN inbox : i > taken => inbox[i] # t /\ inbox[i] \in Tasks
    BY <2>1 DEF Inv, Types, Mailbox
  <2>5. Mailbox' BY <2>1, <2>2, <2>4 DEF Inv, Mailbox, serviceVars
  <2>6. Single'
    <3>1. \A i \in DOMAIN waiting : waiting[i] # t /\ waiting[i] \in Tasks
      BY <2>1 DEF Inv, Types, Single
    <3> QED BY <2>1, <2>2, <3>1 DEF Inv, Single, serviceVars
  <2>7. Truthful' BY <2>1, <2>2 DEF Inv, Truthful, serviceVars
  <2>8. Answered' /\ Stages' BY <2>1 DEF Inv, Answered, Stages, serviceVars
  <2> QED BY <2>3, <2>5, <2>6, <2>7, <2>8 DEF Inv
<1>2. ASSUME NEW t \in Tasks, Expire(t) PROVE Inv'
  BY <1>2 DEF Expire, Pool!Expire, serviceVars, Inv, Types, Mailbox, Single, Truthful, Answered,
     Stages
<1>3. ASSUME NEW l \in Loads, LoadSettles(l) PROVE Inv'
  <2>1. /\ UNCHANGED <<poolVars, inbox, taken, loop, service, effects, sent>>
        /\ loading' = loading \ {l}
        /\ \A t \in Tasks : reply'[t] = reply[t]
        /\ reply' \in [Requests -> {"none", "entity", "invalid", "error", "overloaded"}]
    BY <1>3, RequestsAssumption DEF LoadSettles, Answer, Respond, Inv, Types, Requests
  <2>2. \A i \in DOMAIN inbox : inbox[i] \in Tasks
    BY DEF Inv, Types
  <2>3. Types' BY <2>1 DEF Inv, Types, poolVars
  <2>4. Mailbox' BY <2>1, <2>2 DEF Inv, Mailbox, poolVars
  <2>5. Single' BY <2>1, <2>2 DEF Inv, Types, Single, poolVars
  <2>6. Truthful' /\ Stages' BY <2>1 DEF Inv, Truthful, Stages, poolVars
  <2>7. Answered' BY <2>1, <2>2 DEF Inv, Types, Answered
  <2> QED BY <2>3, <2>4, <2>5, <2>6, <2>7 DEF Inv
<1>4. CASE Leave \/ Shutdown \/ Stopped
  BY <1>4 DEF Leave, Shutdown, Stopped, shutdownSignal, poolVars, Inv, Types, Mailbox, Single, Truthful, Answered,
     Stages
<1>5. CASE Closed
  BY <1>5 DEF Closed, Pool!ShutdownEnds, Pool!ShutdownExpires, poolVars, Inv, Types, Mailbox,
     Single, Truthful, Answered, Stages
<1> QED BY <1>1, <1>2, <1>3, <1>4, <1>5

LEMMA StepInv == Inv /\ [Next]_natsVars => Inv'
<1> SUFFICES ASSUME Inv, [Next]_natsVars PROVE Inv'
  OBVIOUS
<1>1. CASE UNCHANGED natsVars
  BY <1>1 DEF natsVars, poolVars, serviceVars, Inv, Types, Mailbox, Single, Truthful, Answered,
     Stages
<1>2. CASE Next
  BY <1>2, CallInv, TakeInv, SettleInv, ReplyInv, JoinedInv, OtherInv DEF Next, Serve
<1> QED BY <1>1, <1>2

LEMMA Invariance == Spec => []Inv
  BY InitInv, StepInv, PTL DEF Spec

-----------------------------------------------------------------------------
\* Commands run one at a time and in the order they arrived: the loop takes none
\* before it has answered the one before.
THEOREM CommandsRunInOrder == Spec => []InOrder
<1>1. Inv => InOrder
  <2> SUFFICES ASSUME Inv, NEW i \in 1..taken, NEW j \in 1..taken, i < j
               PROVE  /\ reply[inbox[i]] # "none"
                      /\ stage[inbox[i]] \in {"idle", "done"}
    BY DEF InOrder
  <2>1. /\ i \in DOMAIN inbox /\ taken \in DOMAIN inbox /\ i < taken
        /\ inbox[i] \in Tasks
    BY DEF Inv, Types
  <2>2. reply[inbox[i]] # "none" BY <2>1 DEF Inv, Answered
  <2>3. inbox[i] # inbox[taken] BY <2>1 DEF Inv, Mailbox
  <2> QED BY <2>1, <2>2, <2>3 DEF Inv, Types, Single
<1> QED BY <1>1, Invariance, PTL

\* A client that is answered with an entity knows that its command took effect,
\* one whose request was declined that it did not, and no command that has been
\* answered is still at work.
THEOREM RepliesTellTheTruth == Spec => []RepliesTruthful
<1>1. Inv => RepliesTruthful
  BY DEF Inv, Single, Truthful, RepliesTruthful, Pool!Holders
<1> QED BY <1>1, Invariance, PTL

\* The pool is shut down only when it is empty, and so refuses no command that the
\* loop has taken.
THEOREM ShutdownTurnsNobodyAway == Spec => []NobodyTurnedAway
<1>1. Inv => NobodyTurnedAway
  <2> SUFFICES ASSUME Inv PROVE NobodyTurnedAway
    OBVIOUS
  <2>1. \A t \in Tasks : outcome[t] # "shutdown" BY DEF Inv, Truthful
  <2>2. ASSUME isShuttingDown PROVE Pool!Holders = {} /\ waiting = <<>>
    <3>1. loop = "exited" BY <2>2 DEF Inv, Stages
    <3>2. \A t \in Tasks : stage[t] \notin {"queued", "granted", "working"}
      BY <3>1 DEF Inv, Single
    <3>3. ASSUME waiting # <<>> PROVE FALSE
      <4>1. 1 \in DOMAIN waiting /\ waiting[1] \in Tasks BY <3>3 DEF Inv, Types
      <4> QED BY <3>2, <4>1 DEF Inv, Single
    <3> QED BY <3>2, <3>3 DEF Pool!Holders
  <2> QED BY <2>1, <2>2 DEF NobodyTurnedAway
<1> QED BY <1>1, Invariance, PTL

\* Once shutdown has returned, no command takes effect and none is answered.
THEOREM DownIsQuiet == Spec => QuietWhenDown
<1>1. Inv /\ [Next]_natsVars =>
        [service = "down" => UNCHANGED effects /\ \A t \in Tasks : reply'[t] = reply[t]]_natsVars
  <2> SUFFICES ASSUME Inv, Next, service = "down"
               PROVE  UNCHANGED effects /\ \A t \in Tasks : reply'[t] = reply[t]
    BY DEF natsVars
  <2>1. loop = "exited" /\ \A t \in Tasks : stage[t] # "working"
    BY DEF Inv, Single, Stages
  <2>2. ASSUME NEW l \in Loads, CallLoad(l) \/ LoadSettles(l)
        PROVE  UNCHANGED effects /\ \A t \in Tasks : reply'[t] = reply[t]
    BY <2>2, RequestsAssumption
    DEF CallLoad, LoadSettles, Answer, Respond, Inv, Types, Requests
  <2>3. ASSUME NEW t \in Tasks, CallExecute(t) \/ Begin(t) \/ Expire(t)
        PROVE  UNCHANGED <<effects, reply>>
    BY <2>3 DEF CallExecute, Begin, Expire, serviceVars
  <2>4. ASSUME NEW t \in Tasks PROVE ~CommandSettles(t) /\ ~Reply(t)
    BY <2>1 DEF CommandSettles, Pool!Settle, Reply
  <2>5. ~Take /\ (Leave \/ Shutdown \/ Stopped \/ Joined \/ Closed => UNCHANGED <<effects, reply>>)
    BY <2>1 DEF Take, Leave, Shutdown, Stopped, Joined, Closed
  <2> QED BY <2>2, <2>3, <2>4, <2>5 DEF Next, Serve
<1> QED BY <1>1, Invariance, PTL DEF Spec, QuietWhenDown
-----------------------------------------------------------------------------
(***************************************************************************)
(* The service moves its pool as the pool moves by itself, so that what    *)
(* WorkerPool_proofs proves of a pool, whoever calls it, is true of this   *)
(* one.                                                                    *)
(***************************************************************************)
WP == INSTANCE WorkerPool_proofs

\* A step of the service is at most one step of its pool: execute and shutdown are
\* called as WorkerPool has them, and nothing else touches its state.
LEMMA PoolStep == [Next]_natsVars => [WP!Next]_poolVars
<1> SUFFICES ASSUME [Next]_natsVars PROVE WP!Next \/ UNCHANGED poolVars
  OBVIOUS
<1>1. ASSUME Take PROVE WP!Next \/ UNCHANGED poolVars
  <2>1. CASE Throw \/ Decline BY <2>1 DEF Throw, Decline
  <2>2. CASE Submit
    <3>1. Message \in Tasks BY <2>2, RequestsAssumption DEF Submit, ExecuteRequest
    <3>2. WP!Refuse(Message) \/ WP!Acquire(Message)
      BY <2>2 DEF Submit, Pool!Refuse, WP!Refuse, Pool!Acquire, WP!Acquire
    <3> QED BY <3>1, <3>2 DEF WP!Next
  <2> QED BY <1>1, <2>1, <2>2 DEF Take
<1>2. ASSUME NEW t \in Tasks, Begin(t) \/ Expire(t) \/ CommandSettles(t) PROVE WP!Next
  <2>1. Begin(t) => WP!Start(t) BY DEF Begin, Pool!Start, WP!Start
  <2>2. Expire(t) => WP!Expire(t) BY DEF Expire, Pool!Expire, WP!Expire
  <2>3. CommandSettles(t) => WP!Settle(t)
    BY DEF CommandSettles, Pool!Settle, WP!Settle, Pool!Release, WP!Release
  <2> QED BY <1>2, <2>1, <2>2, <2>3 DEF WP!Next
<1>3. ASSUME Joined PROVE WP!Next
  <2>1. WP!Shutdown(Closer)
    BY <1>3 DEF Joined, Pool!Shutdown, WP!Shutdown, Pool!Await, WP!Await
  <2> QED BY <2>1 DEF WP!Next, Shutdowns
<1>4. ASSUME Closed PROVE WP!Next \/ UNCHANGED poolVars
  <2>1. WP!ShutdownEnds(Closer) \/ WP!ShutdownExpires(Closer) \/ UNCHANGED poolVars
    BY <1>4 DEF Closed, Pool!ShutdownEnds, WP!ShutdownEnds, Pool!ShutdownExpires,
      WP!ShutdownExpires
  <2> QED BY <2>1 DEF WP!Next, Shutdowns
<1>5. ASSUME NEW t \in Tasks, CallExecute(t) \/ Reply(t) PROVE UNCHANGED poolVars
  BY <1>5 DEF CallExecute, Reply
<1>6. ASSUME NEW l \in Loads, CallLoad(l) \/ LoadSettles(l) PROVE UNCHANGED poolVars
  BY <1>6 DEF CallLoad, LoadSettles
<1>7. Leave \/ Shutdown \/ Stopped \/ UNCHANGED natsVars => UNCHANGED poolVars
  BY DEF Leave, Shutdown, Stopped, natsVars
<1> QED BY <1>1, <1>2, <1>3, <1>4, <1>5, <1>6, <1>7 DEF Next, Serve

LEMMA PoolMoves == Spec => Pool!Spec /\ WP!Spec
<1>1. Init => Pool!Init /\ WP!Init BY DEF Init, Pool!Init, WP!Init
<1>2. WP!Next => Pool!Next
  BY DEF WP!Next, Pool!Next, WP!Refuse, Pool!Refuse, WP!Acquire, Pool!Acquire, WP!Start,
    Pool!Start, WP!Expire, Pool!Expire, WP!Settle, Pool!Settle, WP!Release, Pool!Release,
    WP!Shutdown, Pool!Shutdown, WP!Await, Pool!Await, WP!ShutdownEnds, Pool!ShutdownEnds,
    WP!ShutdownExpires, Pool!ShutdownExpires
<1>3. [Next]_natsVars => [Pool!Next]_(Pool!poolVars) /\ [WP!Next]_(WP!poolVars)
  BY <1>2, PoolStep DEF poolVars, Pool!poolVars, WP!poolVars
<1> QED BY <1>1, <1>3, PTL DEF Spec, Pool!Spec, WP!Spec

\* The pool of a service behaves as WorkerPool says a pool does, whatever clients
\* send and whenever the service is shut down.
THEOREM DrivesThePool == Spec => Pool!Spec
  BY PoolMoves, PTL

\* Through timers, commands that hang and the shutdown of the service, permits are
\* neither lost nor made, and a shutdown that is not cut short has seen every
\* command it found at work through to its answer.
THEOREM ServiceKeepsThePool ==
  ASSUME IsFiniteSet(Tasks), Concurrency \in Nat \ {0}
  PROVE  Spec => [](Pool!PermitsConserved /\ Pool!ShutdownSeesActivitiesOut)
<1>1. WP!HangingAssumption /\ WP!ConcurrencyAssumption /\ WP!IsFiniteSet(Tasks)
  BY RequestsAssumption
  DEF WP!HangingAssumption, WP!ConcurrencyAssumption, WP!IsFiniteSet, IsFiniteSet
<1>2. WP!Spec => []WP!PermitsConserved
  BY <1>1, WP!ConservesPermits, Zenon
<1>3. WP!Spec => []WP!ShutdownSeesActivitiesOut
  BY <1>1, WP!ShutdownWaitsForActivities, Zenon
<1>4. WP!PermitsConserved /\ WP!ShutdownSeesActivitiesOut
        => Pool!PermitsConserved /\ Pool!ShutdownSeesActivitiesOut
  BY DEF WP!PermitsConserved, Pool!PermitsConserved, WP!ShutdownSeesActivitiesOut,
    Pool!ShutdownSeesActivitiesOut, WP!Holders, Pool!Holders, WP!Cardinality, Pool!Cardinality
<1> QED BY <1>2, <1>3, <1>4, PoolMoves, PTL

\* The variables of a service keep their types, those of its pool included.
THEOREM ServiceTypes ==
  ASSUME IsFiniteSet(Tasks), Concurrency \in Nat \ {0}
  PROVE  Spec => []TypeOK
<1>1. WP!HangingAssumption /\ WP!ConcurrencyAssumption /\ WP!IsFiniteSet(Tasks)
  BY RequestsAssumption
  DEF WP!HangingAssumption, WP!ConcurrencyAssumption, WP!IsFiniteSet, IsFiniteSet
<1>2. WP!Spec => []WP!TypeOK
  BY <1>1, WP!TypeCorrect, Zenon
<1>3. WP!TypeOK => Pool!TypeOK
  BY DEF WP!TypeOK, Pool!TypeOK, WP!Stages, Pool!Stages
<1>4. Init => sent \subseteq Requests
  BY DEF Init
<1>5. sent \subseteq Requests /\ [Next]_natsVars => (sent \subseteq Requests)'
  BY DEF Next, Serve, CallExecute, CallLoad, LoadSettles, Take, Begin, Expire, CommandSettles,
    Reply, Shutdown, Leave, Stopped, Joined, Closed, natsVars, serviceVars, Requests
<1>6. Inv /\ Pool!TypeOK /\ sent \subseteq Requests => TypeOK
  BY DEF Inv, Types, TypeOK
<1> QED BY <1>2, <1>3, <1>4, <1>5, <1>6, PoolMoves, Invariance, PTL DEF Spec
=============================================================================
