------------------------------ MODULE KeySource ------------------------------
(***************************************************************************)
(* DynamoKeySource of cypher/src/rsa/keysource/dynamodb.ts: the RSA key    *)
(* pair of an aggregate is taken from the source's cache, else read from a *)
(* table, else generated, put in the table and cached.                     *)
(*                                                                         *)
(* keyFor(id) is made of id.type twice, so the aggregates of a type share a*)
(* key pair, and a call is for a type. The put is conditional on an        *)
(* attribute, partition_key, that no item has, and so always goes through. *)
(***************************************************************************)
EXTENDS Integers, Sequences, FiniteSets

CONSTANTS
  Calls,        \* calls of the sources, each made at most once
  Sources,      \* key sources, one to a process, over one table
  Aggregates,   \* aggregate ids
  TypeOf,       \* TypeOf[a]: the type of a
  Pairs,        \* key pairs that can be generated
  MaxFaults     \* bound: failed reads and puts, stale reads, and restarts

ASSUME TypeAssumption == DOMAIN TypeOf = Aggregates
ASSUME FaultAssumption == MaxFaults \in Nat

Types == {TypeOf[a] : a \in Aggregates}
Nobody == "no call"

VARIABLES
  puts,      \* puts[k]: the key pairs put for type k, the last in force
  cache,     \* cache[s][k]: the key pairs s has cached for k, one at most
  pc,        \* pc[c]: "idle", "reading", "writing", "done" or "dead"
  source,    \* source[c]: the source called, once it is
  target,    \* target[c]: the aggregate it is called with
  pair,      \* pair[c]: the key pair c has in hand or has returned
  made,      \* key pairs generated so far
  faults,    \* faults so far
  adrift,    \* calls whose put nobody awaits any more, and may still land
  disturbed, \* types with calls that overlapped, a put adrift or a stale read
  crowded    \* crowded[s]: the types for which calls of s overlapped

vars == <<puts, cache, pc, source, target, pair, made, faults, adrift, disturbed, crowded>>

None == {}

TypeOK ==
  /\ puts \in [Types -> Seq(Pairs)]
  /\ cache \in [Sources -> [Types -> SUBSET Pairs]]
  /\ \A s \in Sources, k \in Types : Cardinality(cache[s][k]) <= 1
  /\ pc \in [Calls -> {"idle", "reading", "writing", "done", "dead"}]
  /\ source \in [Calls -> Sources \cup {Nobody}]
  /\ target \in [Calls -> Aggregates \cup {Nobody}]
  /\ pair \in [Calls -> {None} \cup {{k} : k \in Pairs}]
  /\ made \subseteq Pairs
  /\ faults \in 0..MaxFaults
  /\ adrift \subseteq Calls
  /\ disturbed \subseteq Types
  /\ crowded \in [Sources -> SUBSET Types]

Init ==
  /\ puts = [k \in Types |-> <<>>]
  /\ cache = [s \in Sources |-> [k \in Types |-> None]]
  /\ pc = [c \in Calls |-> "idle"]
  /\ source = [c \in Calls |-> Nobody]
  /\ target = [c \in Calls |-> Nobody]
  /\ pair = [c \in Calls |-> None]
  /\ made = {}
  /\ faults = 0
  /\ adrift = {}
  /\ disturbed = {}
  /\ crowded = [s \in Sources |-> {}]

-----------------------------------------------------------------------------
\* Mutant of keyFor: the type is left out.
keyForAll(a) == CHOOSE k \in Types : TRUE

keyFor(a) == TypeOf[a]

\* The key of the pair that c asks for.
Key(c) == keyFor(target[c])

Busy(k) == {c \in Calls : pc[c] \in {"reading", "writing"} /\ Key(c) = k}

\* A call of s for key k begins to read while others may be at it.
Meet(s, k) ==
  /\ disturbed' = IF Busy(k) = {} THEN disturbed ELSE disturbed \cup {k}
  /\ crowded' = IF \E c \in Busy(k) : source[c] = s
                THEN [crowded EXCEPT ![s] = @ \cup {k}] ELSE crowded

\* The pair is returned to the caller.
Return(c, p) ==
  /\ pair' = [pair EXCEPT ![c] = p]
  /\ pc' = [pc EXCEPT ![c] = "done"]

\* cache.set
Remember(c, p) == cache' = [cache EXCEPT ![source[c]][Key(c)] = p]

\* Mutant of Call: the cache is not looked at.
CallUncached(c, s, a) ==
  /\ pc[c] = "idle"
  /\ source' = [source EXCEPT ![c] = s]
  /\ target' = [target EXCEPT ![c] = a]
  /\ pc' = [pc EXCEPT ![c] = "reading"]
  /\ Meet(s, keyFor(a))
  /\ UNCHANGED <<puts, cache, pair, made, faults, adrift>>

\* A source is called: with the pair cached it returns, else it begins to read.
Call(c, s, a) ==
  LET k == keyFor(a) IN
  /\ pc[c] = "idle"
  /\ source' = [source EXCEPT ![c] = s]
  /\ target' = [target EXCEPT ![c] = a]
  /\ \/ /\ cache[s][k] # None
        /\ Return(c, cache[s][k])
        /\ UNCHANGED <<disturbed, crowded>>
     \/ /\ cache[s][k] = None
        /\ pc' = [pc EXCEPT ![c] = "reading"]
        /\ Meet(s, k)
        /\ UNCHANGED pair
  /\ UNCHANGED <<puts, cache, made, faults, adrift>>

\* The read, eventually consistent, answers with the state after n puts.
Fresh(c, n) ==
  \/ n = Len(puts[Key(c)]) /\ UNCHANGED <<faults, disturbed>>
  \/ /\ n < Len(puts[Key(c)])
     /\ faults < MaxFaults
     /\ faults' = faults + 1
     /\ disturbed' = disturbed \cup {Key(c)}

\* Mutant of Read: what is read is not returned but made anew.
ReadAndGenerate(c) ==
  /\ pc[c] = "reading"
  /\ \E p \in Pairs \ made :
       /\ made' = made \cup {p}
       /\ pair' = [pair EXCEPT ![c] = {p}]
  /\ pc' = [pc EXCEPT ![c] = "writing"]
  /\ UNCHANGED <<puts, cache, source, target, faults, adrift, disturbed, crowded>>

\* The read is answered: an item is cached and returned, else a pair is made.
Read(c) ==
  /\ pc[c] = "reading"
  /\ \E n \in 0..Len(puts[Key(c)]) :
       /\ Fresh(c, n)
       /\ \/ /\ n > 0
             /\ Remember(c, {puts[Key(c)][n]})
             /\ Return(c, {puts[Key(c)][n]})
             /\ UNCHANGED made
          \/ /\ n = 0
             /\ \E p \in Pairs \ made :
                  /\ made' = made \cup {p}
                  /\ pair' = [pair EXCEPT ![c] = {p}]
             /\ pc' = [pc EXCEPT ![c] = "writing"]
             /\ UNCHANGED cache
  /\ UNCHANGED <<puts, source, target, adrift, crowded>>

\* The read fails, and with it the call.
ReadFails(c) ==
  /\ pc[c] = "reading"
  /\ faults < MaxFaults
  /\ faults' = faults + 1
  /\ pc' = [pc EXCEPT ![c] = "dead"]
  /\ UNCHANGED <<puts, cache, source, target, pair, made, adrift, disturbed, crowded>>

\* The put of c is made, whatever the table holds.
Put(c) == \E p \in pair[c] : puts' = [puts EXCEPT ![Key(c)] = Append(@, p)]

\* The put goes through or, its error caught, it is not known to have; either way
\* the pair is cached and returned.
Write(c) ==
  /\ pc[c] = "writing"
  /\ \/ Put(c) /\ UNCHANGED <<faults, adrift, disturbed>>
     \/ /\ faults < MaxFaults
        /\ faults' = faults + 1
        /\ adrift' = adrift \cup {c}
        /\ disturbed' = disturbed \cup {Key(c)}
        /\ UNCHANGED puts
  /\ Remember(c, pair[c])
  /\ Return(c, pair[c])
  /\ UNCHANGED <<source, target, made, crowded>>

\* A put that was given up reaches the table after all, if it was ever sent.
Land(c) ==
  /\ c \in adrift
  /\ adrift' = adrift \ {c}
  /\ Put(c)
  /\ UNCHANGED <<cache, pc, source, target, pair, made, faults, disturbed, crowded>>

\* The process of s restarts: its cache is empty and its calls are gone, but not
\* the puts they have sent.
Restart(s) ==
  LET cut == {c \in Calls : source[c] = s /\ pc[c] = "writing"} IN
  /\ faults < MaxFaults
  /\ faults' = faults + 1
  /\ cache' = [cache EXCEPT ![s] = [k \in Types |-> None]]
  /\ pc' = [c \in Calls |-> IF source[c] = s /\ pc[c] \in {"reading", "writing"}
                            THEN "dead" ELSE pc[c]]
  /\ adrift' = adrift \cup cut
  /\ disturbed' = disturbed \cup {Key(c) : c \in cut}
  /\ UNCHANGED <<puts, source, target, pair, made, crowded>>

Next ==
  \/ \E c \in Calls : \/ \E s \in Sources, a \in Aggregates : Call(c, s, a)
                      \/ Read(c) \/ ReadFails(c) \/ Write(c) \/ Land(c)
  \/ \E s \in Sources : Restart(s)

Spec == Init /\ [][Next]_vars

-----------------------------------------------------------------------------
(***************************************************************************)
(* Properties.                                                             *)
(***************************************************************************)
\* The cache shields a source from the others: unless its own calls overlapped, a
\* pair it has cached is never exchanged for another, whatever becomes of the table.
CacheStable ==
  [][\A s \in Sources, k \in Types :
       cache[s][k] # None /\ k \notin crowded[s] =>
         cache'[s][k] \in {cache[s][k], None}]_vars

\* What the condition of the put says: a key pair that has been stored is never
\* replaced by another.
PersistedOnce ==
  \A k \in Types : Len(puts[k]) <= 1
=============================================================================
