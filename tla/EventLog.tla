------------------------------ MODULE EventLog ------------------------------
(***************************************************************************)
(* What the EventStore interface (core/src/store/types.ts) promises about  *)
(* one aggregate: a log of change sets that only grows, each appended      *)
(* after the revision its publisher expected and under a greater revision  *)
(* than the one before, and loads that see a prefix of it.                 *)
(*                                                                         *)
(* Nothing here says how: there is no retry, no page and no transaction.   *)
(* DynamoEventStore implements this specification.                         *)
(***************************************************************************)
EXTENDS Integers, Sequences

CONSTANTS
  Calls,      \* publish calls, each made at most once
  Loads,      \* load calls, each made at most once
  Ulid,       \* the revisions change sets can have, natural numbers above 0
  Reliable    \* TRUE: an error reported to a publisher means nothing was written

AnyRevision == -1     \* options.expectedRevision left undefined
Initial     == 0      \* Revision.Initial, below every other revision
Unknown     == -2     \* any revision the aggregate never has

VARIABLES
  log,        \* the change sets, in the order they were committed
  guard,      \* guard[c]: the revision call c expects
  told,       \* told[c]: what the caller of c knows
  answered,   \* answered[c]: the revision the caller of c was given
  view        \* view[l]: what load l returned, and whether it has

vars == <<log, guard, told, answered, view>>

Revisions(l) == {l[i].rev : i \in DOMAIN l}

\* The revision of the aggregate after the change sets of l.
Tip(l) == IF l = <<>> THEN Initial ELSE l[Len(l)].rev

Init ==
  /\ log = <<>>
  /\ guard = [c \in Calls |-> AnyRevision]
  /\ told = [c \in Calls |-> "idle"]
  /\ answered = [c \in Calls |-> Initial]
  /\ view = [l \in Loads |-> [done |-> FALSE, revs |-> {}]]

\* A caller asks for a publish, with or without an expected revision.
Ask(c, e) ==
  /\ told[c] = "idle"
  /\ told' = [told EXCEPT ![c] = "pending"]
  /\ guard' = [guard EXCEPT ![c] = e]
  /\ UNCHANGED <<log, answered, view>>

\* A change set of c becomes part of the aggregate. A write that outlives its
\* call (the caller crashed, or was told of an error) is late but no different.
Write(c, rev) ==
  /\ told[c] # "idle"
  /\ rev > Tip(log)
  /\ guard[c] \in {AnyRevision, Tip(log)}
  /\ Reliable => /\ told[c] \in {"pending", "lost"}
                 /\ \A i \in DOMAIN log : log[i].call # c
  /\ log' = Append(log, [call |-> c, rev |-> rev, expected |-> guard[c]])
  /\ UNCHANGED <<guard, told, answered, view>>

\* The caller is given the revision of a change set of its own.
Accept(c) ==
  /\ told[c] = "pending"
  /\ \E i \in DOMAIN log : /\ log[i].call = c
                           /\ answered' = [answered EXCEPT ![c] = log[i].rev]
  /\ told' = [told EXCEPT ![c] = "ok"]
  /\ UNCHANGED <<log, guard, view>>

\* The caller is told that the publish failed, with a conflict or otherwise.
Refuse(c) ==
  /\ told[c] \in {"idle", "pending"}
  /\ Reliable => \A i \in DOMAIN log : log[i].call # c
  /\ \E error \in {"conflict", "failed"} : told' = [told EXCEPT ![c] = error]
  /\ UNCHANGED <<log, guard, answered, view>>

\* Processes stop, and the callers waiting in them learn nothing.
Lose ==
  /\ \E C \in SUBSET {c \in Calls : told[c] = "pending"} :
       told' = [c \in Calls |-> IF c \in C THEN "lost" ELSE told[c]]
  /\ UNCHANGED <<log, guard, answered, view>>

\* A load returns the first k change sets: perhaps not all, but no gap.
Load(l) ==
  /\ ~view[l].done
  /\ \E k \in 0..Len(log) :
       view' = [view EXCEPT ![l] = [done |-> TRUE,
                                    revs |-> Revisions(SubSeq(log, 1, k))]]
  /\ UNCHANGED <<log, guard, told, answered>>

Next ==
  \/ \E c \in Calls : \/ \E e \in {AnyRevision, Initial, Unknown} \cup Ulid : Ask(c, e)
                      \/ \E rev \in Ulid : Write(c, rev)
                      \/ Accept(c)
                      \/ Refuse(c)
  \/ Lose
  \/ \E l \in Loads : Load(l)

Spec == Init /\ [][Next]_vars
=============================================================================
