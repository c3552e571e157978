-------------------------- MODULE NatsClient_proofs --------------------------
(***************************************************************************)
(* Theorems about NatsClient, for any requests, of which the client makes  *)
(* any part.                                                               *)
(***************************************************************************)
EXTENDS NatsClient, NatsService_proofs

LEMMA Connected == ClientNext => [Next]_natsVars
<1> SUFFICES ASSUME ClientNext PROVE Next \/ UNCHANGED natsVars
  OBVIOUS
<1>1. ASSUME NEW r \in Own, Request(r) PROVE Next \/ UNCHANGED natsVars
  BY <1>1, OwnAssumption DEF Request, Next, ExecuteRequest, LoadRequest
<1>2. ASSUME NEW t \in Tasks, Execute(t) PROVE Next \/ UNCHANGED natsVars
  BY <1>1, <1>2 DEF Execute
<1>3. ASSUME NEW l \in Loads, Load(l) PROVE Next \/ UNCHANGED natsVars
  BY <1>1, <1>3 DEF Load
<1>4. ASSUME NEW r \in Own, Receive(r) \/ GiveUp(r) PROVE UNCHANGED natsVars
  BY <1>4 DEF Receive, GiveUp
<1>5. Close => UNCHANGED natsVars
  BY DEF Close
<1>6. Elsewhere => Next
  BY DEF Elsewhere, Next
<1> QED BY <1>2, <1>3, <1>4, <1>5, <1>6 DEF ClientNext

\* The service behind clients that give up, are closed and lose their requests is
\* the service that NatsService specifies: what is proved of it holds here too.
THEOREM ClientsLeaveTheServiceAlone == ClientSpec => Spec
<1>1. ClientInit => Init
  BY DEF ClientInit
<1>2. [ClientNext]_vars => [Next]_natsVars
  BY Connected DEF vars
<1> QED BY <1>1, <1>2, PTL DEF ClientSpec, Spec

-----------------------------------------------------------------------------
LEMMA ServiceInvariance == ClientSpec => []Inv
  BY ClientsLeaveTheServiceAlone, Invariance, PTL

\* What a call that has settled knows of its request, and one that waits does not.
Knowledge ==
  /\ call \in [Own -> {"idle", "pending"} \cup Settled]
  /\ \A r \in Own \cap sent : call[r] # "idle"
  /\ \A t \in Own \cap Tasks : call[t] = "entity" => t \in effects
  /\ \A t \in Own \cap Tasks : call[t] \in Refusals => t \notin sent

\* No step of the service takes an effect back or makes a request.
LEMMA ServeKeeps ==
  ASSUME Serve
  PROVE  UNCHANGED sent /\ effects \subseteq effects'
<1>1. ASSUME NEW t \in Tasks, Begin(t) \/ Expire(t) \/ CommandSettles(t) \/ Reply(t)
      PROVE  UNCHANGED sent /\ effects \subseteq effects'
  BY <1>1 DEF Begin, Expire, CommandSettles, Reply, serviceVars
<1>2. ASSUME NEW l \in Loads, LoadSettles(l)
      PROVE  UNCHANGED <<sent, effects>>
  BY <1>2 DEF LoadSettles
<1>3. Take \/ Leave \/ Shutdown \/ Stopped \/ Joined \/ Closed => UNCHANGED <<sent, effects>>
  BY DEF Take, Throw, Decline, Submit, Leave, Shutdown, Stopped, Joined, Closed
<1> QED BY <1>1, <1>2, <1>3 DEF Serve

\* A request is sent, by the client or another program.
LEMMA CallKeeps ==
  ASSUME Inv, NEW r \in Requests, IF r \in Tasks THEN CallExecute(r) ELSE CallLoad(r)
  PROVE  r \notin sent /\ sent' = sent \cup {r} /\ UNCHANGED effects
BY DEF CallExecute, CallLoad

LEMMA KnowledgeInit == ClientInit /\ Inv => Knowledge
<1> SUFFICES ASSUME ClientInit PROVE Knowledge
  OBVIOUS
<1>1. sent = {} /\ call = [r \in Own |-> "idle"]
  BY DEF ClientInit, Init
<1> QED BY <1>1 DEF Knowledge, Refusals

LEMMA KnowledgeStep == Inv /\ Knowledge /\ [ClientNext]_vars => Knowledge'
<1> SUFFICES ASSUME Inv, Knowledge, [ClientNext]_vars PROVE Knowledge'
  OBVIOUS
<1> USE DEF Settled, Refusals, NatsFault, mapNatsError, Becomes
<1>0. /\ Own \subseteq Requests
      /\ effects \subseteq Tasks
  BY OwnAssumption DEF ExecuteRequest, LoadRequest, Requests, Inv, Types
<1>1. ASSUME UNCHANGED vars PROVE Knowledge'
  BY <1>1 DEF vars, natsVars, serviceVars, clientVars, Knowledge
<1>2. ASSUME NEW r \in Own, call[r] = "idle", Request(r) PROVE Knowledge'
  <2>0. r \notin sent BY <1>2 DEF Knowledge
  <2>1. CASE closed /\ Becomes(r, mapNatsError("connection")) /\ UNCHANGED natsVars
    BY <1>0, <2>0, <2>1 DEF natsVars, serviceVars, Knowledge
  <2>2. CASE ~closed /\ Becomes(r, "pending") /\ UNCHANGED natsVars
    BY <1>0, <2>0, <2>2 DEF natsVars, serviceVars, Knowledge
  <2>3. CASE /\ IF r \in Tasks THEN CallExecute(r) ELSE CallLoad(r)
             /\ Becomes(r, IF Subscribed THEN "pending" ELSE mapNatsError("no responders"))
    <3>1. sent' = sent \cup {r} /\ UNCHANGED effects
      BY <1>0, <2>3, CallKeeps
    <3>2. /\ call' \in [Own -> {"idle", "pending"} \cup Settled]
          /\ call'[r] = IF Subscribed THEN "pending" ELSE "ServiceError"
          /\ \A u \in Own : u # r => call'[u] = call[u]
      BY <2>3 DEF Knowledge
    <3> QED BY <1>0, <3>1, <3>2 DEF Knowledge
  <2> QED BY <1>2, <2>1, <2>2, <2>3 DEF Request
<1>3. ASSUME NEW t \in Tasks, Execute(t) PROVE Knowledge'
  <2>1. CASE Request(t) BY <1>2, <1>3, <2>1 DEF Execute
  <2>2. CASE \E refusal \in Refusals : Becomes(t, refusal) /\ UNCHANGED natsVars
    BY <1>0, <1>3, <2>2 DEF Execute, natsVars, serviceVars, Knowledge
  <2> QED BY <1>3, <2>1, <2>2 DEF Execute
<1>4. ASSUME NEW l \in Loads, Load(l) PROVE Knowledge'
  BY <1>2, <1>4 DEF Load
<1>5. ASSUME NEW r \in Own, Receive(r) PROVE Knowledge'
  <2>1. /\ call[r] = "pending" /\ reply[r] # "none" /\ UNCHANGED natsVars
        /\ call' = [call EXCEPT ![r] = Outcome(reply[r])]
        /\ Outcome(reply[r]) \in {"entity", "ServiceError"}
        /\ Outcome(reply[r]) = "entity" => reply[r] = "entity"
    BY <1>5 DEF Receive, Outcome, Response
  <2>2. r \in Tasks /\ reply[r] = "entity" => r \in effects
    BY DEF Inv, Truthful
  <2> QED BY <2>1, <2>2 DEF natsVars, serviceVars, Knowledge
<1>6. ASSUME NEW r \in Own, GiveUp(r) PROVE Knowledge'
  BY <1>6 DEF GiveUp, natsVars, serviceVars, Knowledge
<1>7. ASSUME Close PROVE Knowledge'
  BY <1>7 DEF Close, natsVars, serviceVars, Knowledge
<1>8. ASSUME Elsewhere PROVE Knowledge'
  <2>1. CASE Serve
    BY <1>0, <1>8, <2>1, ServeKeeps DEF Elsewhere, clientVars, Knowledge
  <2>2. ASSUME NEW r \in Requests \ Own, IF r \in Tasks THEN CallExecute(r) ELSE CallLoad(r)
        PROVE  Knowledge'
    <3>1. sent' = sent \cup {r} /\ UNCHANGED effects
      BY <2>2, CallKeeps
    <3> QED BY <1>0, <1>8, <3>1 DEF Elsewhere, clientVars, Knowledge
  <2> QED BY <1>8, <2>1, <2>2, RequestsAssumption DEF Elsewhere, Requests
<1> QED BY <1>1, <1>3, <1>4, <1>5, <1>6, <1>7, <1>8 DEF ClientNext

LEMMA KnowledgeInvariance == ClientSpec => [](Inv /\ Knowledge)
  BY ServiceInvariance, KnowledgeInit, KnowledgeStep, PTL DEF ClientSpec

\* A caller that is given an entity knows that its command took effect, one whose
\* command is refused by the client that it never will, whatever is lost, late or
\* shut down.
THEOREM CallersMayConclude == ClientSpec => []CallersConclude
<1>1. Inv /\ Knowledge => CallersConclude
  BY DEF Inv, Types, Mailbox, Truthful, Knowledge, CallersConclude
<1> QED BY <1>1, KnowledgeInvariance, PTL
=============================================================================
