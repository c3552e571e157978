----------------------------- MODULE NatsClient -----------------------------
(***************************************************************************)
(* NatsClient (nats/src/client/client.ts, errors.ts) and the NatsService   *)
(* it calls.                                                               *)
(*                                                                         *)
(* A call checks its command against the service's description, sends one  *)
(* request and waits for a reply until its timer fires; it never repeats a *)
(* request. The service is not told when a caller gives up, so its answer, *)
(* and the command's effect, may come later. Whatever is not an entity is  *)
(* mapped to an error by mapNatsError. One connection carries the calls of *)
(* a client and of the clients its modifiers derive from it; close ends    *)
(* them all. NATS may lose a request; other programs send requests too.    *)
(***************************************************************************)
EXTENDS NatsService

CONSTANT Own      \* requests made through the client

\* JSON.stringify makes a request that the service can read, and its fields are
\* those the service's schemas ask for (ExecuteRequest, LoadRequest).
ASSUME OwnAssumption == Own \subseteq ExecuteRequest \cup LoadRequest

VARIABLES
  call,       \* call[r]: how the call that makes request r has gone so far
  closed      \* close has been called

clientVars == <<call, closed>>
vars == <<natsVars, clientVars>>

\* The error classes of client/errors.ts that a call can end with.
Refusals  == {"UnknownCommandError", "InvalidCommandPayloadError"}
NatsFault == {"TimeoutError", "ServiceUnavailableError", "ServiceError"}

Settled == {"entity"} \cup Refusals \cup NatsFault

ClientTypeOK ==
  /\ TypeOK
  /\ call \in [Own -> {"idle", "pending"} \cup Settled]
  /\ \A r \in Own \cap sent : call[r] # "idle"
  /\ closed \in BOOLEAN

ClientInit ==
  /\ Init
  /\ call = [r \in Own |-> "idle"]
  /\ closed = FALSE

-----------------------------------------------------------------------------
\* mapNatsError looks for words in the message of the error.
mapNatsError(message) ==
  CASE message = "timeout"    -> "TimeoutError"
    [] message = "connection" -> "ServiceUnavailableError"
    [] OTHER                  -> "ServiceError"

Becomes(r, status) == call' = [call EXCEPT ![r] = status]

\* A request reaches the service, or nobody listens on its subject, of which
\* NATS tells the caller at once, or it is lost.
Request(r) ==
  \/ /\ closed
     /\ Becomes(r, mapNatsError("connection"))
     /\ UNCHANGED natsVars
  \/ /\ ~closed
     /\ IF r \in Tasks THEN CallExecute(r) ELSE CallLoad(r)
     /\ Becomes(r, IF Subscribed THEN "pending" ELSE mapNatsError("no responders"))
  \/ /\ ~closed
     /\ Becomes(r, "pending")
     /\ UNCHANGED natsVars

\* execute looks the command up and checks its payload before it sends anything.
Execute(t) ==
  /\ t \in Own
  /\ call[t] = "idle"
  /\ \/ \E refusal \in Refusals : Becomes(t, refusal) /\ UNCHANGED natsVars
     \/ Request(t)
  /\ UNCHANGED closed

\* load
Load(l) ==
  /\ l \in Own
  /\ call[l] = "idle"
  /\ Request(l)
  /\ UNCHANGED closed

\* The answers that the schemas of the responses accept.
Response == {"entity"}

\* Mutant of Outcome: an answer that is no entity is taken for one.
OutcomeUnchecked(answer) == "entity"

\* An answer that carries an entity is what the call resolves with. Any other
\* fails the schema of the response, and the InvalidResponseFormatError that the
\* client throws is mapped like an error of NATS.
Outcome(answer) ==
  IF answer \in Response THEN "entity" ELSE mapNatsError("invalid response format")

\* The reply arrives in time.
Receive(r) ==
  /\ r \in Own
  /\ call[r] = "pending"
  /\ reply[r] # "none"
  /\ Becomes(r, Outcome(reply[r]))
  /\ UNCHANGED <<natsVars, closed>>

\* The request's timer fires.
GiveUp(r) ==
  /\ r \in Own
  /\ call[r] = "pending"
  /\ Becomes(r, mapNatsError("timeout"))
  /\ UNCHANGED <<natsVars, closed>>

\* close: the requests under way fail, and what the service makes of them is
\* not heard of.
Close ==
  /\ ~closed
  /\ closed' = TRUE
  /\ call' = [r \in Own |-> IF call[r] = "pending" THEN mapNatsError("connection") ELSE call[r]]
  /\ UNCHANGED natsVars

\* Another program calls, or the service goes on.
Elsewhere ==
  /\ \/ \E t \in Tasks \ Own : CallExecute(t)
     \/ \E l \in Loads \ Own : CallLoad(l)
     \/ Serve
  /\ UNCHANGED clientVars

ClientNext ==
  \/ \E t \in Tasks : Execute(t)
  \/ \E l \in Loads : Load(l)
  \/ \E r \in Own : Receive(r) \/ GiveUp(r)
  \/ Close
  \/ Elsewhere

ClientSpec == ClientInit /\ [][ClientNext]_vars

\* The service is as fair as alone. Of its clients nothing is assumed, not even
\* that a timer fires.
ClientFairSpec == ClientSpec /\ Fairness

-----------------------------------------------------------------------------
(***************************************************************************)
(* Properties.                                                             *)
(***************************************************************************)

\* What a caller may conclude: from an entity, that its command took effect; from
\* UnknownCommandError and InvalidCommandPayloadError, that it never will. From
\* any other error it may conclude nothing.
CallersConclude ==
  \A t \in Own \cap Tasks :
    /\ call[t] = "entity" => t \in effects
    /\ call[t] \in Refusals => t \notin effects \cup sent
=============================================================================
