----------------------------- MODULE NatsService -----------------------------
(***************************************************************************)
(* One instance of NatsService (nats/src/server/nats-service.ts), the pool *)
(* it runs commands in, and the clients that call it.                      *)
(*                                                                         *)
(* The command endpoint is a loop that takes a message off an iterator,    *)
(* hands it to the pool and awaits the answer before it takes the next;    *)
(* the load endpoint is a callback, and loads run side by side. shutdown   *)
(* raises a signal the loop races its iterator against, unsubscribes, waits*)
(* for the loop and shuts the pool down. NATS itself is external: requests *)
(* are delivered once, in order, to a service that is subscribed. A client *)
(* waits for a reply for five seconds, and does not tell the service when  *)
(* it stops: a request it repeats is another request.                      *)
(***************************************************************************)
EXTENDS Integers, Sequences, FiniteSets

CONSTANTS
  Tasks,        \* execute requests
  Loads,        \* load requests
  Unreadable,   \* the requests among them that may not be JSON
  Invalid,      \* the requests among them that may not satisfy their schema
  Hanging,      \* the execute requests whose command may never settle
  Concurrency,  \* permits of the pool
  Closer        \* the one call of shutdown

ASSUME RequestsAssumption ==
  /\ Tasks \cap Loads = {}
  /\ Unreadable \subseteq Tasks \cup Loads
  /\ Invalid \subseteq Tasks \cup Loads
  /\ Hanging \subseteq Tasks

Shutdowns == {Closer}
Requests == Tasks \cup Loads

\* The requests that the schemas of messages.ts accept.
ExecuteRequest == Tasks \ (Unreadable \cup Invalid)
LoadRequest    == Loads \ (Unreadable \cup Invalid)

VARIABLES
  \* the pool
  isShuttingDown, permits, waiting, activities, timedOut, stage, outcome,
  awaited, closing,
  \* the service
  inbox,        \* execute requests the iterator has been given, in order
  taken,        \* how many of them the loop has taken off it
  loop,         \* "waiting", "handling" or "exited"
  loading,      \* load requests whose callback awaits service.load
  service,      \* "up", then shutdown's "stopping", "joining", "closing", "down"
  reply,        \* reply[r]: what has been sent back to request r
  effects,      \* execute requests whose command has taken effect
  sent          \* requests that clients have made

Pool == INSTANCE WorkerPool

poolVars == <<isShuttingDown, permits, waiting, activities, timedOut, stage,
              outcome, awaited, closing>>
serviceVars == <<inbox, taken, loop, loading, service, reply, effects, sent>>
natsVars == <<poolVars, serviceVars>>

TypeOK ==
  /\ Pool!TypeOK
  /\ inbox \in Seq(Tasks)
  /\ taken \in 0..Len(inbox)
  /\ loop \in {"waiting", "handling", "exited"}
  /\ loading \subseteq Loads
  /\ service \in {"up", "stopping", "joining", "closing", "down"}
  /\ reply \in [Requests -> {"none", "entity", "invalid", "error", "overloaded"}]
  /\ effects \subseteq Tasks
  /\ sent \subseteq Requests

Init ==
  /\ Pool!Init
  /\ inbox = <<>>
  /\ taken = 0
  /\ loop = "waiting"
  /\ loading = {}
  /\ service = "up"
  /\ reply = [r \in Requests |-> "none"]
  /\ effects = {}
  /\ sent = {}

-----------------------------------------------------------------------------
\* message.respond
Respond(r, answer) == reply' = [reply EXCEPT ![r] = answer]

\* handleError, and the answer to a command that succeeded. A request that the
\* pool refused is not answered at all.
Answer(r, result) ==
  \/ result = "ok" /\ Respond(r, "entity")
  \/ result = "error" /\ Respond(r, "error")
  \/ result = "timeout" /\ Respond(r, "overloaded")
  \/ result = "shutdown" /\ UNCHANGED reply

Subscribed == service \in {"up", "stopping"}

\* A client calls execute. Without a subscriber it is told so at once.
CallExecute(t) ==
  /\ t \notin sent
  /\ sent' = sent \cup {t}
  /\ inbox' = IF Subscribed THEN Append(inbox, t) ELSE inbox
  /\ UNCHANGED <<poolVars, taken, loop, loading, service, reply, effects>>

\* A client calls load, and the callback parses the request and awaits
\* service.load; there msg.json() is inside the try.
CallLoad(l) ==
  /\ l \notin sent
  /\ sent' = sent \cup {l}
  /\ \/ ~Subscribed /\ UNCHANGED <<loading, reply>>
     \/ Subscribed /\ l \in Unreadable /\ Respond(l, "error") /\ UNCHANGED loading
     \/ Subscribed /\ l \in Invalid /\ Respond(l, "invalid") /\ UNCHANGED loading
     \/ /\ Subscribed
        /\ l \in LoadRequest
        /\ loading' = loading \cup {l}
        /\ UNCHANGED reply
  /\ UNCHANGED <<poolVars, inbox, taken, loop, service, effects>>

\* service.load settles.
LoadSettles(l) ==
  /\ l \in loading
  /\ loading' = loading \ {l}
  /\ \E result \in {"ok", "error"} : Answer(l, result)
  /\ UNCHANGED <<poolVars, inbox, taken, loop, service, effects, sent>>

-----------------------------------------------------------------------------
\* processCommandIterator takes the next message. One that is not JSON throws
\* past handleCommandMessage and ends the loop.
Message == inbox[taken + 1]

Throw ==
  /\ Message \in Unreadable
  /\ loop' = "exited"
  /\ UNCHANGED <<poolVars, reply>>

\* Mutant of Decline: a request that does not parse is dropped.
DeclineSilently ==
  /\ Message \in Invalid
  /\ loop' = "waiting"
  /\ UNCHANGED <<poolVars, reply>>

Decline ==
  /\ Message \in Invalid
  /\ Respond(Message, "invalid")
  /\ loop' = "waiting"
  /\ UNCHANGED poolVars

Submit ==
  /\ Message \in ExecuteRequest
  /\ Pool!Refuse(Message) \/ Pool!Acquire(Message)
  /\ loop' = "handling"
  /\ UNCHANGED reply

\* Mutant of Take: the answer to the last message is not awaited.
TakeEagerly ==
  /\ loop # "exited"
  /\ service = "up"
  /\ taken < Len(inbox)
  /\ taken' = taken + 1
  /\ Throw \/ Decline \/ Submit
  /\ UNCHANGED <<inbox, loading, service, effects, sent>>

Take ==
  /\ loop = "waiting"
  /\ service = "up"
  /\ taken < Len(inbox)
  /\ taken' = taken + 1
  /\ Throw \/ Decline \/ Submit
  /\ UNCHANGED <<inbox, loading, service, effects, sent>>

\* The pool goes on with a command. A command that ends with an error, or after
\* its timeout, may have taken effect all the same.
Begin(t) == Pool!Start(t) /\ UNCHANGED serviceVars

Expire(t) == Pool!Expire(t) /\ UNCHANGED serviceVars

CommandSettles(t) ==
  /\ Pool!Settle(t)
  /\ \E took \in BOOLEAN :
       /\ outcome'[t] = "ok" => took
       /\ effects' = IF took THEN effects \cup {t} ELSE effects
  /\ UNCHANGED <<inbox, taken, loop, loading, service, reply, sent>>

\* Mutant of Reply: execute's promise is not awaited.
ReplyEarly(t) ==
  /\ loop = "handling"
  /\ t = inbox[taken]
  /\ Answer(t, "ok")
  /\ loop' = "waiting"
  /\ UNCHANGED <<poolVars, inbox, taken, loading, service, effects, sent>>

\* execute's promise has settled: handleCommandMessage answers and returns.
Reply(t) ==
  /\ loop = "handling"
  /\ stage[t] = "done"
  /\ t = inbox[taken]
  /\ Answer(t, outcome[t])
  /\ loop' = "waiting"
  /\ UNCHANGED <<poolVars, inbox, taken, loading, service, effects, sent>>

-----------------------------------------------------------------------------
\* The signal that shutdown triggers, once and for good.
shutdownSignal == service # "up"

\* shutdown: the signal is triggered, and nats.stop() begins to unsubscribe.
Shutdown ==
  /\ ~shutdownSignal
  /\ service' = "stopping"
  /\ UNCHANGED <<poolVars, inbox, taken, loop, loading, reply, effects, sent>>

\* Mutant of Leave: the loop awaits the iterator and not the signal.
LeaveNever == FALSE /\ UNCHANGED natsVars

\* The race is won by the signal, with whatever the iterator still holds.
Leave ==
  /\ loop = "waiting"
  /\ shutdownSignal
  /\ loop' = "exited"
  /\ UNCHANGED <<poolVars, inbox, taken, loading, service, reply, effects, sent>>

Stopped ==
  /\ service = "stopping"
  /\ service' = "joining"
  /\ UNCHANGED <<poolVars, inbox, taken, loop, loading, reply, effects, sent>>

\* Mutant of Joined: the processors of the iterators are not awaited.
JoinedAtOnce ==
  /\ service = "joining"
  /\ service' = "closing"
  /\ Pool!Shutdown(Closer)
  /\ UNCHANGED <<inbox, taken, loop, loading, reply, effects, sent>>

\* Every processor has settled: the pool is shut down.
Joined ==
  /\ service = "joining"
  /\ loop = "exited"
  /\ service' = "closing"
  /\ Pool!Shutdown(Closer)
  /\ UNCHANGED <<inbox, taken, loop, loading, reply, effects, sent>>

Closed ==
  /\ service = "closing"
  /\ \/ closing[Closer] # "waiting" /\ UNCHANGED poolVars
     \/ Pool!ShutdownEnds(Closer)
     \/ Pool!ShutdownExpires(Closer)
  /\ service' = "down"
  /\ UNCHANGED <<inbox, taken, loop, loading, reply, effects, sent>>

\* What the service does once it has been called.
Serve ==
  \/ \E t \in Tasks : Begin(t) \/ Expire(t) \/ CommandSettles(t) \/ Reply(t)
  \/ \E l \in Loads : LoadSettles(l)
  \/ Take \/ Leave
  \/ Shutdown \/ Stopped \/ Joined \/ Closed

Next ==
  \/ \E t \in Tasks : CallExecute(t)
  \/ \E l \in Loads : CallLoad(l)
  \/ Serve

Spec == Init /\ [][Next]_natsVars

\* Continuations run, timers fire, service.load and the commands that do not
\* hang settle; a client need not call, nor shutdown begin.
Fairness ==
  /\ WF_natsVars(Take) /\ WF_natsVars(Leave)
  /\ WF_natsVars(Stopped) /\ WF_natsVars(Joined) /\ WF_natsVars(Closed)
  /\ \A t \in Tasks : WF_natsVars(Begin(t)) /\ WF_natsVars(Reply(t))
  /\ \A t \in Tasks \ Hanging : WF_natsVars(CommandSettles(t))
  /\ \A l \in Loads : WF_natsVars(LoadSettles(l))

FairSpec == Spec /\ Fairness

-----------------------------------------------------------------------------
(***************************************************************************)
(* Properties.                                                             *)
(***************************************************************************)
\* Commands run one at a time and in the order they arrived, however many
\* permits the pool has: a command is not begun before every earlier one has
\* been answered. It is what the entity services behind it rely on when their
\* commands publish unguarded.
InOrder ==
  \A i, j \in 1..taken :
    i < j =>
      /\ reply[inbox[i]] # "none"
      /\ stage[inbox[i]] \in {"idle", "done"}

\* A reply tells the truth about the command: an entity that it took effect, a
\* refusal that it did not; and no reply is sent to a command still at work.
RepliesTruthful ==
  \A t \in Tasks :
    /\ reply[t] = "entity" => t \in effects
    /\ reply[t] = "invalid" => t \notin effects /\ stage[t] = "idle"
    /\ reply[t] # "none" => t \notin Pool!Holders

\* Shutdown turns nobody away whose command has been taken off the iterator: the
\* pool is shut down only when nothing is left in it.
NobodyTurnedAway ==
  /\ isShuttingDown => Pool!Holders = {} /\ waiting = <<>>
  /\ \A t \in Tasks : outcome[t] # "shutdown"

\* Once shutdown has returned no command takes effect and none is answered.
QuietWhenDown ==
  [][service = "down" => UNCHANGED effects /\ \A t \in Tasks : reply'[t] = reply[t]]_natsVars

\* A command that was received is answered in the end, unless the service shuts
\* down, the loop has ended or it is held up by a command that hangs.
ReceivedIsAnswered ==
  \A t \in Tasks :
    (\E i \in DOMAIN inbox : inbox[i] = t) ~>
      \/ reply[t] # "none"
      \/ service # "up"
      \/ loop = "exited"
      \/ Pool!Holders \cap Hanging # {}

\* Shutdown returns, unless the command in hand hangs: the pool's own timeout
\* comes too late to help.
ShutdownReturns ==
  service # "up" ~> service = "down" \/ Pool!Holders \cap Hanging # {}

\* What the comment on ServiceOverloaded says: a request that is answered so has
\* not been processed.
OverloadedIsUnprocessed ==
  \A t \in Tasks : reply[t] = "overloaded" => t \notin effects
=============================================================================
