-------------------------- MODULE RsaCypher_proofs --------------------------
(***************************************************************************)
(* Theorems about RsaCypher and the key sources it uses, for any calls,    *)
(* sources, aggregates and faults.                                         *)
(***************************************************************************)
EXTENDS RsaCypher, TLAPS

\* A call that has begun has a source and a target.
Begun(c) == pc[c] \in {"reading", "writing", "done", "dead"}

Shapes ==
  /\ puts \in [Types -> Seq(Pairs)]
  /\ cache \in [Sources -> [Types -> SUBSET Pairs]]
  /\ pc \in [Calls -> {"idle", "reading", "writing", "done", "dead"}]
  /\ source \in [Calls -> Sources \cup {Nobody}]
  /\ target \in [Calls -> Aggregates \cup {Nobody}]
  /\ pair \in [Calls -> SUBSET Pairs]
  /\ made \subseteq Pairs
  /\ adrift \subseteq Calls
  /\ disturbed \subseteq Types
  /\ \A c \in Calls : Begun(c) => source[c] \in Sources /\ target[c] \in Aggregates
  /\ \A c \in Calls : pc[c] \in {"writing", "done"} => pair[c] # {}
  /\ \A c \in Calls : pc[c] \in {"idle", "reading"} => pair[c] = {}

\* Wherever a pair is found, it is one for the type k.
Stored(k, p) == \E i \in 1..Len(puts[k]) : puts[k][i] = p
Cached(k, p) == \E s \in Sources : p \in cache[s][k]
InHand(k, p) == \E c \in Calls : Begun(c) /\ Key(c) = k /\ p \in pair[c]
Has(k, p) == Stored(k, p) \/ Cached(k, p) \/ InHand(k, p)

\* A pair belongs to the type it was generated for.
Owned ==
  \A k \in Types, p \in Pairs :
    Has(k, p) => p \in made /\ \A l \in Types : Has(l, p) => l = k

Working(c, k) == pc[c] \in {"reading", "writing"} /\ Key(c) = k

\* An undisturbed type has one pair at most, which is in the table before anyone
\* but its maker sees it, and one call at a time that works on it.
Calm(k) ==
  /\ \A c, d \in Calls : Working(c, k) /\ Working(d, k) => c = d
  /\ Len(puts[k]) <= 1
  /\ \A s \in Sources, p \in Pairs : p \in cache[s][k] => puts[k] = <<p>>
  /\ \A c \in Calls :
       pc[c] = "done" /\ Key(c) = k =>
         \E p \in Pairs : puts[k] = <<p>> /\ pair[c] = {p}
  /\ \A c \in Calls :
       pc[c] = "writing" /\ Key(c) = k =>
         puts[k] = <<>> /\ \E p \in Pairs : pair[c] = {p}

AllCalm == \A k \in Types \ disturbed : Calm(k)

\* A put that may still land is for a type that is disturbed.
Drifting == \A c \in adrift : Begun(c) /\ Key(c) \in disturbed

KeysInv == Shapes /\ Owned /\ AllCalm /\ Drifting

\* What is decrypted has been encrypted.
Sealed ==
  /\ opens \in [Calls -> SUBSET Calls]
  /\ \A c, b \in Calls : opens[c] = {b} => pc[b] = "done"

-----------------------------------------------------------------------------
\* keyFor: the key of an aggregate is a type.
LEMMA KeysAreTypes == \A a \in Aggregates : keyFor(a) \in Types
  BY DEF keyFor, Types

\* cache.set: the cache of a source remembers a pair for one type.
LEMMA Remembered ==
  ASSUME Shapes, NEW c \in Calls, source[c] \in Sources, Key(c) \in Types,
         NEW P \in SUBSET Pairs, Remember(c, P)
  PROVE  /\ cache' \in [Sources -> [Types -> SUBSET Pairs]]
         /\ \A s \in Sources, k \in Types :
              cache'[s][k] = IF s = source[c] /\ k = Key(c) THEN P ELSE cache[s][k]
<1> DEFINE S == source[c]
           K == Key(c)
<1>1. /\ cache \in [Sources -> [Types -> SUBSET Pairs]]
      /\ S \in Sources /\ K \in Types
      /\ cache' = [cache EXCEPT ![S][K] = P]
  BY DEF Shapes, Remember
<1> HIDE DEF S, K
<1>2. /\ cache' \in [Sources -> [Types -> SUBSET Pairs]]
      /\ \A s \in Sources, k \in Types :
           cache'[s][k] = IF s = S /\ k = K THEN P ELSE cache[s][k]
  BY <1>1
<1> QED
  BY <1>2 DEF S, K

\* A step of the source's own code keeps the shapes of its state.
LEMMA ShapesStep == Shapes /\ Drifting /\ Next => Shapes'
<1> SUFFICES ASSUME Shapes, Drifting, Next PROVE Shapes'
  OBVIOUS
<1> USE KeysAreTypes DEF Shapes, Begun, Key, None
<1>1. ASSUME NEW c \in Calls, NEW s \in Sources, NEW a \in Aggregates, Call(c, s, a)
      PROVE  Shapes'
  <2>1. keyFor(a) \in Types
    OBVIOUS
  <2>2. /\ UNCHANGED <<puts, cache, made, adrift>>
        /\ source' = [source EXCEPT ![c] = s]
        /\ target' = [target EXCEPT ![c] = a]
        /\ disturbed' \subseteq Types
    BY <1>1, <2>1 DEF Call, Meet
  <2>3. \/ /\ cache[s][keyFor(a)] # {}
           /\ pair' = [pair EXCEPT ![c] = cache[s][keyFor(a)]]
           /\ pc' = [pc EXCEPT ![c] = "done"]
        \/ /\ pc[c] = "idle"
           /\ pc' = [pc EXCEPT ![c] = "reading"]
           /\ pair' = pair
    BY <1>1 DEF Call, Return
  <2>4. PICK P \in SUBSET Pairs, at \in {"reading", "done"} :
          /\ pair' = [pair EXCEPT ![c] = P]
          /\ pc' = [pc EXCEPT ![c] = at]
          /\ at = "done" => P # {}
          /\ at = "reading" => P = {}
    <3>1. cache[s][keyFor(a)] \in SUBSET Pairs
      BY <2>1
    <3>2. pc[c] = "idle" => pair[c] = {} /\ pair = [pair EXCEPT ![c] = {}]
      OBVIOUS
    <3> QED
      BY <2>3, <3>1, <3>2
  <2> QED
    BY <2>2, <2>4
<1>2. ASSUME NEW c \in Calls, Read(c) PROVE Shapes'
  <2>1. Key(c) \in Types /\ source[c] \in Sources /\ target[c] \in Aggregates
    BY <1>2 DEF Read
  <2>2. UNCHANGED <<puts, source, target, adrift>> /\ disturbed' \subseteq Types
    BY <1>2, <2>1 DEF Read, Fresh
  <2>3. PICK n \in 0..Len(puts[Key(c)]) :
          \/ /\ n > 0
             /\ Remember(c, {puts[Key(c)][n]})
             /\ Return(c, {puts[Key(c)][n]})
             /\ UNCHANGED made
          \/ /\ n = 0
             /\ \E p \in Pairs \ made :
                  /\ made' = made \cup {p}
                  /\ pair' = [pair EXCEPT ![c] = {p}]
             /\ pc' = [pc EXCEPT ![c] = "writing"]
             /\ UNCHANGED cache
    BY <1>2 DEF Read
  <2>4. n > 0 => puts[Key(c)][n] \in Pairs
    BY <2>1
  <2>5. made' \subseteq Pairs /\ cache' \in [Sources -> [Types -> SUBSET Pairs]]
    <3>1. CASE n > 0
      <4>1. {puts[Key(c)][n]} \in SUBSET Pairs
        BY <2>4, <3>1
      <4>2. Remember(c, {puts[Key(c)][n]}) /\ made' = made
        BY <2>3, <3>1
      <4> HIDE DEF Key, Shapes
      <4> QED
        BY <2>1, <4>1, <4>2, Remembered DEF Shapes
    <3>2. CASE n = 0
      BY <2>3, <3>2
    <3> QED
      BY <3>1, <3>2
  <2>6. PICK p \in Pairs, at \in {"writing", "done"} :
          pair' = [pair EXCEPT ![c] = {p}] /\ pc' = [pc EXCEPT ![c] = at]
    BY <2>3, <2>4 DEF Return
  <2>7. /\ pc' \in [Calls -> {"idle", "reading", "writing", "done", "dead"}]
        /\ pair' \in [Calls -> SUBSET Pairs]
        /\ pc'[c] = at /\ pair'[c] = {p}
        /\ \A d \in Calls \ {c} : pc'[d] = pc[d] /\ pair'[d] = pair[d]
    BY <2>6
  <2> QED
    BY <2>1, <2>2, <2>5, <2>7
<1>3. ASSUME NEW c \in Calls, ReadFails(c) PROVE Shapes'
  BY <1>3 DEF ReadFails
<1>4. ASSUME NEW c \in Calls, Write(c) PROVE Shapes'
  <2>1. Key(c) \in Types /\ source[c] \in Sources /\ pair[c] # {}
    BY <1>4 DEF Write
  <2>2. /\ UNCHANGED <<source, target, made>>
        /\ disturbed' \subseteq Types /\ adrift' \subseteq Calls
        /\ cache' = [cache EXCEPT ![source[c]][Key(c)] = pair[c]]
        /\ pair' = [pair EXCEPT ![c] = pair[c]]
        /\ pc' = [pc EXCEPT ![c] = "done"]
    BY <1>4, <2>1 DEF Write, Remember, Return
  <2>3. puts' \in [Types -> Seq(Pairs)]
    <3>1. \A p \in pair[c] : Append(puts[Key(c)], p) \in Seq(Pairs)
      BY <2>1
    <3> QED
      BY <1>4, <2>1, <3>1 DEF Write, Put
  <2> QED
    BY <2>1, <2>2, <2>3
<1>5. ASSUME NEW s \in Sources, Restart(s) PROVE Shapes'
  <2>1. disturbed' \subseteq Types /\ adrift' \subseteq Calls
    BY <1>5 DEF Restart
  <2> QED
    BY <1>5, <2>1 DEF Restart
<1>6. ASSUME NEW c \in Calls, Land(c) PROVE Shapes'
  <2>1. Key(c) \in Types
    BY <1>6 DEF Land, Drifting
  <2>2. puts' \in [Types -> Seq(Pairs)]
    <3>1. \A p \in pair[c] : Append(puts[Key(c)], p) \in Seq(Pairs)
      BY <2>1
    <3> QED
      BY <1>6, <2>1, <3>1 DEF Land, Put
  <2> QED
    BY <1>6, <2>2 DEF Land
<1> QED
  BY <1>1, <1>2, <1>3, <1>4, <1>5, <1>6 DEF Next

\* A step that shows a pair for a new type only if it is the one it made, for one
\* type, leaves every pair with its type.
LEMMA OwnedIf ==
  ASSUME Owned, made \subseteq made',
         NEW K, NEW P,
         \A k \in Types, p \in Pairs :
           Has(k, p)' => \/ Has(k, p)
                         \/ k = K /\ p = P /\ P \notin made /\ P \in made'
  PROVE  Owned'
  BY DEF Owned

\* A put stores a pair that its call has in hand.
LEMMA PutStores ==
  ASSUME Shapes, NEW c \in Calls, Begun(c), Put(c)
  PROVE  \A k \in Types, p \in Pairs : Stored(k, p)' => Stored(k, p) \/ InHand(k, p)
<1>1. Key(c) \in Types
  BY KeysAreTypes DEF Shapes, Key
<1>2. PICK P \in pair[c] : puts' = [puts EXCEPT ![Key(c)] = Append(@, P)]
  BY DEF Put
<1>3. P \in Pairs /\ InHand(Key(c), P)
  BY <1>2 DEF InHand, Shapes
<1>4. \A k \in Types : puts[k] \in Seq(Pairs)
  BY DEF Shapes
<1>5. /\ \A k \in Types \ {Key(c)} : puts'[k] = puts[k]
      /\ puts'[Key(c)] = Append(puts[Key(c)], P)
  BY <1>1, <1>2 DEF Shapes
<1>6. ASSUME NEW p, NEW i \in 1..Len(puts'[Key(c)]), puts'[Key(c)][i] = p
      PROVE  Stored(Key(c), p) \/ p = P
  <2> DEFINE q == puts[Key(c)]
  <2>1. q \in Seq(Pairs)
    BY <1>1, <1>4
  <2>2. i \in 1..Len(Append(q, P)) /\ Append(q, P)[i] = p
    BY <1>5, <1>6
  <2>3. (i \in 1..Len(q) /\ q[i] = p) \/ p = P
    <3> HIDE DEF q
    <3> QED
      BY <1>3, <2>1, <2>2
  <2> QED
    BY <2>3 DEF Stored
<1> SUFFICES ASSUME NEW k \in Types, NEW p \in Pairs, Stored(k, p)'
             PROVE  Stored(k, p) \/ InHand(k, p)
  OBVIOUS
<1>7. CASE k = Key(c)
  <2>1. PICK i \in 1..Len(puts'[k]) : puts'[k][i] = p
    BY DEF Stored
  <2> QED
    BY <1>3, <1>6, <1>7, <2>1
<1>8. CASE k # Key(c)
  BY <1>5, <1>8 DEF Stored
<1> QED
  BY <1>7, <1>8

\* No step of a source shows a pair for another type than its own.
LEMMA OwnedStep == Shapes /\ Owned /\ Drifting /\ Next => Owned'
<1> SUFFICES ASSUME Shapes, Owned, Drifting, Next PROVE Owned'
  OBVIOUS
<1> DEFINE Older == \A k \in Types, p \in Pairs : Has(k, p)' => Has(k, p)
<1>0. Older /\ made' = made => Owned'
  BY OwnedIf
<1> HIDE DEF Older
<1>1. ASSUME NEW c \in Calls, NEW s \in Sources, NEW a \in Aggregates, Call(c, s, a)
      PROVE  Older /\ made' = made
  <2>1. /\ UNCHANGED <<puts, cache, made>>
        /\ pc[c] = "idle" /\ pair[c] = {}
        /\ \A d \in Calls \ {c} : pc'[d] = pc[d] /\ target'[d] = target[d] /\ pair'[d] = pair[d]
        /\ target'[c] = a
        /\ pair'[c] \in {{}, cache[s][keyFor(a)]}
    BY <1>1 DEF Call, Return, Shapes
  <2> QED
    BY <2>1 DEF Older, Has, Stored, Cached, InHand, Begun, Key
<1>2. ASSUME NEW c \in Calls, Read(c) PROVE Owned'
  <2>1. Key(c) \in Types /\ source[c] \in Sources /\ target[c] \in Aggregates
    BY <1>2, KeysAreTypes DEF Read, Key, Shapes, Begun
  <2>2. UNCHANGED <<puts, source, target>>
    BY <1>2 DEF Read
  <2>3. CASE \E p \in Pairs \ made :
               /\ made' = made \cup {p}
               /\ pair' = [pair EXCEPT ![c] = {p}]
               /\ pc' = [pc EXCEPT ![c] = "writing"]
               /\ UNCHANGED cache
    <3>1. PICK P \in Pairs \ made :
               /\ made' = made \cup {P}
               /\ pair' = [pair EXCEPT ![c] = {P}]
               /\ pc' = [pc EXCEPT ![c] = "writing"]
               /\ UNCHANGED cache
      BY <2>3
    <3>2. /\ pair'[c] = {P}
          /\ \A d \in Calls \ {c} : pc'[d] = pc[d] /\ pair'[d] = pair[d]
      BY <3>1 DEF Shapes
    <3>3. \A k \in Types, p \in Pairs : Has(k, p)' => Has(k, p) \/ (k = Key(c) /\ p = P)
      <4>1. \A k \in Types, p \in Pairs : InHand(k, p)' =>
              InHand(k, p) \/ (k = Key(c) /\ p = P)
        BY <2>2, <3>2 DEF InHand, Begun, Key
      <4>2. \A k \in Types, p \in Pairs :
              (Stored(k, p)' <=> Stored(k, p)) /\ (Cached(k, p)' <=> Cached(k, p))
        BY <2>2, <3>1 DEF Stored, Cached
      <4> QED
        BY <4>1, <4>2 DEF Has
    <3> QED
      BY <3>1, <3>3, OwnedIf
  <2>4. CASE \E n \in 1..Len(puts[Key(c)]) :
               /\ Remember(c, {puts[Key(c)][n]})
               /\ Return(c, {puts[Key(c)][n]})
               /\ UNCHANGED made
    <3>1. PICK n \in 1..Len(puts[Key(c)]) :
               /\ Remember(c, {puts[Key(c)][n]})
               /\ Return(c, {puts[Key(c)][n]})
               /\ UNCHANGED made
      BY <2>4
    <3> DEFINE P == puts[Key(c)][n]
    <3>2. Stored(Key(c), P)
      BY DEF Stored
    <3> HIDE DEF P
    <3>3. /\ Remember(c, {P})
          /\ pair'[c] = {P}
          /\ \A d \in Calls \ {c} : pc'[d] = pc[d] /\ pair'[d] = pair[d]
          /\ P \in Pairs
      BY <2>1, <3>1 DEF Return, Shapes, P
    <3>4. \A s \in Sources, k \in Types, p \in Pairs :
            p \in cache'[s][k] => p \in cache[s][k] \/ (k = Key(c) /\ p = P)
      BY <2>1, <3>3, {P} \in SUBSET Pairs, Remembered
    <3>5. \A k \in Types, p \in Pairs : Cached(k, p)' => Cached(k, p) \/ Stored(k, p)
      BY <3>2, <3>4 DEF Cached
    <3>6. \A k \in Types, p \in Pairs : InHand(k, p)' => InHand(k, p) \/ Stored(k, p)
      BY <2>2, <3>2, <3>3 DEF InHand, Begun, Key
    <3>7. \A k \in Types, p \in Pairs : Stored(k, p)' => Stored(k, p)
      BY <2>2 DEF Stored
    <3> QED
      BY <1>0, <3>1, <3>5, <3>6, <3>7 DEF Older, Has
  <2>5. Len(puts[Key(c)]) \in Nat
    BY <2>1 DEF Shapes
  <2>6. PICK n \in 0..Len(puts[Key(c)]) :
          \/ /\ n > 0
             /\ Remember(c, {puts[Key(c)][n]})
             /\ Return(c, {puts[Key(c)][n]})
             /\ UNCHANGED made
          \/ /\ n = 0
             /\ \E p \in Pairs \ made :
                  /\ made' = made \cup {p}
                  /\ pair' = [pair EXCEPT ![c] = {p}]
             /\ pc' = [pc EXCEPT ![c] = "writing"]
             /\ UNCHANGED cache
    BY <1>2 DEF Read
  <2>7. n > 0 => n \in 1..Len(puts[Key(c)])
    BY <2>5
  <2> QED
    BY <2>3, <2>4, <2>6, <2>7
<1>3. ASSUME NEW c \in Calls, ReadFails(c) PROVE Older /\ made' = made
  <2>1. /\ UNCHANGED <<puts, cache, target, pair, made>>
        /\ \A d \in Calls : Begun(d)' => Begun(d)
    BY <1>3 DEF ReadFails, Begun, Shapes
  <2> QED
    BY <2>1 DEF Older, Has, Stored, Cached, InHand, Key
<1>4. ASSUME NEW c \in Calls, Write(c) PROVE Older /\ made' = made
  <2>1. /\ Key(c) \in Types /\ source[c] \in Sources /\ target[c] \in Aggregates
        /\ Begun(c) /\ pair[c] \subseteq Pairs
    BY <1>4, KeysAreTypes DEF Write, Key, Shapes, Begun
  <2>2. \A p \in pair[c] : InHand(Key(c), p)
    BY <2>1 DEF InHand
  <2>3. /\ Remember(c, pair[c])
        /\ UNCHANGED <<target, made>>
        /\ \A d \in Calls : (Begun(d)' => Begun(d)) /\ pair'[d] = pair[d]
    BY <1>4, <2>1 DEF Write, Return, Shapes, Begun
  <2>4. \A s \in Sources, k \in Types, p \in Pairs :
          p \in cache'[s][k] => p \in cache[s][k] \/ (k = Key(c) /\ p \in pair[c])
    BY <2>1, <2>3, Remembered
  <2>5. \A k \in Types, p \in Pairs : Cached(k, p)' => Cached(k, p) \/ InHand(k, p)
    BY <2>2, <2>4 DEF Cached
  <2>6. \A k \in Types, p \in Pairs : InHand(k, p)' => InHand(k, p)
    BY <2>3 DEF InHand, Key
  <2>7. \A k \in Types, p \in Pairs : Stored(k, p)' => Stored(k, p) \/ InHand(k, p)
    <3>1. CASE puts' = puts
      BY <3>1 DEF Stored
    <3>2. CASE Put(c)
      BY <2>1, <3>2, PutStores
    <3> QED
      BY <1>4, <3>1, <3>2 DEF Write
  <2> QED
    BY <2>3, <2>5, <2>6, <2>7 DEF Older, Has
<1>5. ASSUME NEW s \in Sources, Restart(s) PROVE Older /\ made' = made
  <2>1. /\ UNCHANGED <<puts, target, pair, made>>
        /\ \A d \in Calls : Begun(d)' => Begun(d)
        /\ \A t \in Sources, k \in Types : cache'[t][k] \subseteq cache[t][k]
    BY <1>5 DEF Restart, Begun, Shapes, None
  <2> QED
    BY <2>1 DEF Older, Has, Stored, Cached, InHand, Key
<1>6. ASSUME NEW c \in Calls, Land(c) PROVE Older /\ made' = made
  <2>1. /\ Begun(c) /\ Put(c)
        /\ UNCHANGED <<cache, pc, target, pair, made>>
    BY <1>6 DEF Land, Drifting
  <2>2. \A k \in Types, p \in Pairs :
          (Cached(k, p)' <=> Cached(k, p)) /\ (InHand(k, p)' <=> InHand(k, p))
    BY <2>1 DEF Cached, InHand, Begun, Key
  <2> QED
    BY <2>1, <2>2, PutStores DEF Older, Has
<1> QED
  BY <1>0, <1>1, <1>2, <1>3, <1>4, <1>5, <1>6 DEF Next

\* A step of a call leaves the types calm that the call is not for.
LEMMA CalmElsewhere ==
  ASSUME NEW k \in Types, Calm(k), NEW c \in Calls, Key(c)' # k,
         puts'[k] = puts[k],
         \A s \in Sources : cache'[s][k] = cache[s][k],
         \A d \in Calls \ {c} :
           pc'[d] = pc[d] /\ pair'[d] = pair[d] /\ target'[d] = target[d]
  PROVE  Calm(k)'
  BY DEF Calm, Working, Key

\* Every step leaves the types calm that it does not disturb.
LEMMA CalmStep == Shapes /\ AllCalm /\ Drifting /\ Next => AllCalm'
<1> SUFFICES ASSUME Shapes, AllCalm, Drifting, Next, NEW k \in Types, k \notin disturbed'
             PROVE  Calm(k)'
  BY DEF AllCalm, Types
<1>0. k \notin disturbed => Calm(k)
  BY DEF AllCalm
<1>1. ASSUME NEW c \in Calls, NEW s \in Sources, NEW a \in Aggregates, Call(c, s, a)
      PROVE  Calm(k)'
  <2>1. /\ UNCHANGED <<puts, cache>>
        /\ pc[c] = "idle"
        /\ target'[c] = a
        /\ \A d \in Calls \ {c} :
             pc'[d] = pc[d] /\ pair'[d] = pair[d] /\ target'[d] = target[d]
        /\ Key(c)' = keyFor(a)
    BY <1>1 DEF Call, Return, Shapes, Key
  <2>2. CASE keyFor(a) # k
    <3>1. k \notin disturbed
      BY <1>1, <2>2 DEF Call, Meet
    <3> QED
      BY <1>0, <2>1, <2>2, <3>1, CalmElsewhere
  <2>3. CASE /\ keyFor(a) = k
             /\ cache[s][k] # None
             /\ Return(c, cache[s][k])
             /\ UNCHANGED <<disturbed, crowded>>
    <3>1. Calm(k) /\ pair'[c] = cache[s][k] /\ pc'[c] = "done" /\ cache[s][k] \subseteq Pairs
      BY <1>0, <2>3 DEF Return, Shapes
    <3>2. \E p \in Pairs : puts'[k] = <<p>> /\ pair'[c] = {p}
      <4>1. PICK p \in cache[s][k] : TRUE
        BY <2>3 DEF None
      <4>2. puts[k] = <<p>> /\ \A q \in cache[s][k] : puts[k] = <<q>>
        BY <3>1, <4>1 DEF Calm
      <4>3. \A q \in cache[s][k] : q = p
        BY <4>2
      <4> QED
        BY <2>1, <3>1, <4>1, <4>2, <4>3
    <3> QED
      BY <2>1, <3>1, <3>2 DEF Calm, Working, Key
  <2>4. CASE /\ keyFor(a) = k
             /\ pc' = [pc EXCEPT ![c] = "reading"]
             /\ Meet(s, k)
             /\ UNCHANGED pair
    <3>1. k \notin disturbed /\ Busy(k) = {}
      BY <2>4 DEF Meet
    <3>2. \A d \in Calls : ~Working(d, k)
      BY <3>1 DEF Busy, Working
    <3>3. \A d \in Calls : Working(d, k)' => d = c
      BY <2>1, <3>2 DEF Working, Key
    <3>4. pc'[c] = "reading"
      BY <2>4 DEF Shapes
    <3> QED
      BY <1>0, <2>1, <2>4, <3>1, <3>3, <3>4 DEF Calm, Working, Key
  <2> QED
    BY <1>1, <2>2, <2>3, <2>4 DEF Call
<1>2. ASSUME NEW c \in Calls, Read(c) PROVE Calm(k)'
  <2>1. /\ Key(c) \in Types /\ source[c] \in Sources
        /\ pc[c] = "reading" /\ Key(c)' = Key(c)
        /\ UNCHANGED <<puts, target>>
    BY <1>2, KeysAreTypes DEF Read, Key, Shapes, Begun
  <2>2. PICK n \in 0..Len(puts[Key(c)]) :
          /\ Fresh(c, n)
          /\ \/ /\ n > 0
                /\ Remember(c, {puts[Key(c)][n]})
                /\ Return(c, {puts[Key(c)][n]})
                /\ UNCHANGED made
             \/ /\ n = 0
                /\ \E p \in Pairs \ made :
                     /\ made' = made \cup {p}
                     /\ pair' = [pair EXCEPT ![c] = {p}]
                /\ pc' = [pc EXCEPT ![c] = "writing"]
                /\ UNCHANGED cache
    BY <1>2 DEF Read
  <2>3. Calm(k) /\ (k = Key(c) => n = Len(puts[k]))
    BY <1>0, <2>2 DEF Fresh
  <2>4. puts[Key(c)] \in Seq(Pairs)
    BY <2>1 DEF Shapes
  <2>5. CASE n > 0
    <3> DEFINE P == puts[Key(c)][n]
    <3>1. P \in Pairs
      BY <2>4, <2>5
    <3>2. /\ Remember(c, {P})
          /\ pair'[c] = {P} /\ pc'[c] = "done"
          /\ \A d \in Calls \ {c} : pc'[d] = pc[d] /\ pair'[d] = pair[d]
      BY <2>2, <2>5 DEF Return, Shapes
    <3>3. k = Key(c) => puts[k] = <<P>>
      BY <2>3, <2>4, <2>5 DEF Calm
    <3> HIDE DEF P
    <3>4. \A s \in Sources, l \in Types :
            cache'[s][l] = IF s = source[c] /\ l = Key(c) THEN {P} ELSE cache[s][l]
      BY <2>1, <3>1, <3>2, {P} \in SUBSET Pairs, Remembered
    <3>5. CASE k # Key(c)
      BY <2>1, <2>3, <3>2, <3>4, <3>5, CalmElsewhere
    <3>6. CASE k = Key(c)
      <4>1. \A s \in Sources, p \in Pairs : p \in cache'[s][k] => puts'[k] = <<p>>
        BY <2>1, <2>3, <3>3, <3>4, <3>6 DEF Calm
      <4> QED
        BY <2>1, <2>3, <3>1, <3>2, <3>3, <3>6, <4>1 DEF Calm, Working, Key
    <3> QED
      BY <3>5, <3>6
  <2>6. CASE n = 0
    <3>1. PICK P \in Pairs : /\ pair' = [pair EXCEPT ![c] = {P}]
                             /\ pc' = [pc EXCEPT ![c] = "writing"]
                             /\ UNCHANGED cache
      BY <2>2, <2>6
    <3>2. /\ pair'[c] = {P} /\ pc'[c] = "writing"
          /\ \A d \in Calls \ {c} : pc'[d] = pc[d] /\ pair'[d] = pair[d]
      BY <3>1 DEF Shapes
    <3>3. CASE k # Key(c)
      BY <2>1, <2>3, <3>1, <3>2, <3>3, CalmElsewhere
    <3>4. CASE k = Key(c)
      <4>1. puts[k] = <<>>
        BY <2>3, <2>4, <2>6, <3>4
      <4> QED
        BY <2>1, <2>3, <3>1, <3>2, <3>4, <4>1 DEF Calm, Working, Key
    <3> QED
      BY <3>3, <3>4
  <2> QED
    BY <2>5, <2>6
<1>3. ASSUME NEW c \in Calls, ReadFails(c) PROVE Calm(k)'
  <2>1. /\ UNCHANGED <<puts, cache, target, pair, disturbed>>
        /\ pc'[c] = "dead"
        /\ \A d \in Calls \ {c} : pc'[d] = pc[d]
    BY <1>3 DEF ReadFails, Shapes
  <2> QED
    BY <1>0, <2>1 DEF Calm, Working, Key
<1>4. ASSUME NEW c \in Calls, Write(c) PROVE Calm(k)'
  <2>1. /\ Key(c) \in Types /\ source[c] \in Sources
        /\ pc[c] = "writing" /\ Key(c)' = Key(c) /\ pair[c] \subseteq Pairs
        /\ UNCHANGED target
    BY <1>4, KeysAreTypes DEF Write, Key, Shapes, Begun
  <2>2. /\ Remember(c, pair[c])
        /\ pc'[c] = "done"
        /\ \A d \in Calls : pair'[d] = pair[d]
        /\ \A d \in Calls \ {c} : pc'[d] = pc[d]
    BY <1>4 DEF Write, Return, Shapes
  <2>3. \A s \in Sources, l \in Types :
          cache'[s][l] = IF s = source[c] /\ l = Key(c) THEN pair[c] ELSE cache[s][l]
    BY <2>1, <2>2, Remembered
  <2>4. k \notin disturbed /\ (k = Key(c) =>
          \E p \in pair[c] : puts' = [puts EXCEPT ![Key(c)] = Append(@, p)])
    BY <1>4 DEF Write, Put
  <2>5. Calm(k)
    BY <1>0, <2>4
  <2>6. CASE k # Key(c)
    <3>1. puts'[k] = puts[k]
      BY <1>4, <2>6 DEF Write, Put, Shapes
    <3> QED
      BY <2>1, <2>2, <2>3, <2>5, <2>6, <3>1, CalmElsewhere
  <2>7. CASE k = Key(c)
    <3>1. PICK P \in Pairs : pair[c] = {P}
      BY <2>1, <2>5, <2>7 DEF Calm
    <3>2. puts[k] = <<>>
      BY <2>1, <2>5, <2>7 DEF Calm
    <3>3. puts'[k] = <<P>>
      <4>1. puts' = [puts EXCEPT ![k] = Append(@, P)]
        BY <2>4, <2>7, <3>1
      <4> QED
        BY <3>2, <4>1 DEF Shapes
    <3>4. \A s \in Sources, p \in Pairs : p \in cache'[s][k] => puts'[k] = <<p>>
      <4>1. \A s \in Sources, p \in Pairs : p \notin cache[s][k]
        BY <2>5, <3>2 DEF Calm
      <4> QED
        BY <2>3, <2>7, <3>1, <3>3, <4>1
    <3>5. \A d \in Calls : ~(pc[d] = "done" /\ Key(d) = k)
      BY <2>5, <3>2 DEF Calm
    <3>6. \A d \in Calls : Working(d, k) => d = c
      BY <2>1, <2>5, <2>7 DEF Calm, Working
    <3>7. \A d \in Calls : ~Working(d, k)'
      BY <2>1, <2>2, <3>6 DEF Working, Key
    <3>8. \A d \in Calls : (pc[d] = "done" /\ Key(d) = k)' => d = c
      BY <2>1, <2>2, <3>5 DEF Key
    <3>9. Len(puts'[k]) = 1
      BY <3>3
    <3> QED
      BY <2>2, <3>1, <3>3, <3>4, <3>7, <3>8, <3>9 DEF Calm, Working
  <2> QED
    BY <2>6, <2>7
<1>5. ASSUME NEW s \in Sources, Restart(s) PROVE Calm(k)'
  <2>1. /\ UNCHANGED <<puts, target, pair>> /\ disturbed \subseteq disturbed'
        /\ \A d \in Calls : pc'[d] \in {pc[d], "dead"}
        /\ \A t \in Sources : cache'[t][k] \in {cache[t][k], {}}
    BY <1>5 DEF Restart, Shapes, None
  <2> QED
    BY <1>0, <2>1 DEF Calm, Working, Key
<1>6. ASSUME NEW c \in Calls, Land(c) PROVE Calm(k)'
  <2>1. /\ UNCHANGED <<cache, pc, target, pair, disturbed>>
        /\ Key(c) # k /\ Put(c)
    BY <1>6 DEF Land, Drifting
  <2>2. puts'[k] = puts[k]
    BY <2>1 DEF Put, Shapes
  <2> QED
    BY <1>0, <2>1, <2>2 DEF Calm, Working, Key
<1> QED
  BY <1>1, <1>2, <1>3, <1>4, <1>5, <1>6 DEF Next

\* A put goes adrift when its type is disturbed, and nothing calms a type.
LEMMA DriftStep == Shapes /\ Drifting /\ Next => Drifting'
<1> SUFFICES ASSUME Shapes, Drifting, Next PROVE Drifting'
  OBVIOUS
<1>1. ASSUME NEW c \in Calls, NEW s \in Sources, NEW a \in Aggregates, Call(c, s, a)
      PROVE  Drifting'
  <2>1. /\ adrift' = adrift /\ c \notin adrift /\ disturbed \subseteq disturbed'
        /\ \A d \in Calls \ {c} : pc'[d] = pc[d] /\ target'[d] = target[d]
    BY <1>1 DEF Call, Return, Meet, Shapes, Drifting, Begun
  <2> QED
    BY <2>1 DEF Drifting, Begun, Key, Shapes
<1>2. ASSUME NEW c \in Calls, Read(c) \/ ReadFails(c) \/ Write(c) \/ Land(c)
      PROVE  Drifting'
  <2>1. /\ target' = target /\ disturbed \subseteq disturbed'
        /\ adrift' \subseteq adrift \/ (adrift' = adrift \cup {c} /\ Key(c) \in disturbed')
    BY <1>2 DEF Read, Fresh, ReadFails, Write, Land
  <2>2. \A d \in Calls : Begun(d) => Begun(d)'
    BY <1>2 DEF Read, Return, ReadFails, Write, Land, Shapes, Begun
  <2>3. adrift' # adrift => Begun(c)
    BY <1>2 DEF Read, ReadFails, Write, Land, Begun, Drifting
  <2> QED
    BY <2>1, <2>2, <2>3 DEF Drifting, Key, Shapes
<1>3. ASSUME NEW s \in Sources, Restart(s) PROVE Drifting'
  <2>1. /\ target' = target /\ disturbed \subseteq disturbed'
        /\ \A d \in adrift' \ adrift : d \in Calls /\ Begun(d) /\ Key(d) \in disturbed'
    BY <1>3 DEF Restart, Begun
  <2>2. \A d \in Calls : Begun(d) => Begun(d)'
    BY <1>3 DEF Restart, Shapes, Begun
  <2> QED
    BY <2>1, <2>2 DEF Drifting, Key, Shapes
<1> QED
  BY <1>1, <1>2, <1>3 DEF Next

\* What has been encrypted stays encrypted, and only that is decrypted.
LEMMA SealedStep == Shapes /\ Sealed /\ [CypherNext]_cypherVars => Sealed'
<1> SUFFICES ASSUME Shapes, Sealed, [CypherNext]_cypherVars PROVE Sealed'
  OBVIOUS
<1>1. ASSUME NEW c \in Calls, NEW s \in Sources, NEW a \in Aggregates,
             Encrypt(c, s, a) \/ Decrypt(c, s, a)
      PROVE  Sealed'
  <2>1. \A d \in Calls : pc[d] = "done" => pc'[d] = "done"
    BY <1>1 DEF Encrypt, Decrypt, Call, Return, Shapes
  <2>2. \/ opens' = opens
        \/ \E b \in Calls : pc[b] = "done" /\ opens' = [opens EXCEPT ![c] = {b}]
    BY <1>1 DEF Encrypt, Decrypt, Buffers, Encryptions
  <2>3. \A d, b \in Calls : opens'[d] = {b} => opens[d] = {b} \/ pc[b] = "done"
    BY <2>2 DEF Sealed
  <2>4. opens' \in [Calls -> SUBSET Calls]
    BY <2>2 DEF Sealed
  <2> QED
    BY <2>1, <2>3, <2>4 DEF Sealed
<1>2. ASSUME NEW c \in Calls, Read(c) \/ ReadFails(c) \/ Write(c) \/ Land(c), opens' = opens
      PROVE  Sealed'
  <2>1. \A d \in Calls : pc[d] = "done" => pc'[d] = "done"
    BY <1>2 DEF Read, ReadFails, Write, Land, Return, Shapes
  <2> QED
    BY <1>2, <2>1 DEF Sealed
<1>3. ASSUME NEW s \in Sources, Restart(s), opens' = opens PROVE Sealed'
  <2>1. \A d \in Calls : pc[d] = "done" => pc'[d] = "done"
    BY <1>3 DEF Restart
  <2> QED
    BY <1>3, <2>1 DEF Sealed
<1>4. CASE UNCHANGED cypherVars
  BY <1>4 DEF Sealed, cypherVars, vars
<1> QED
  BY <1>1, <1>2, <1>3, <1>4 DEF CypherNext, Source

\* Encryptions and decryptions change the sources by the sources' own steps only.
LEMMA CypherSteps == [CypherNext]_cypherVars => [Next]_vars
  BY DEF CypherNext, Source, Encrypt, Decrypt, Next, cypherVars

\* The invariant of the sources is inductive.
LEMMA KeysStep == KeysInv /\ [Next]_vars => KeysInv'
<1>1. KeysInv /\ Next => KeysInv'
  BY ShapesStep, OwnedStep, CalmStep, DriftStep DEF KeysInv
<1>2. KeysInv /\ UNCHANGED vars => KeysInv'
  BY DEF KeysInv, Shapes, Owned, AllCalm, Calm, Drifting, Has, Stored, Cached, InHand, Working,
         Begun, Key, vars
<1> QED
  BY <1>1, <1>2

\* It holds when no source has been called.
LEMMA KeysInit == Init => KeysInv
<1> SUFFICES ASSUME Init PROVE KeysInv
  OBVIOUS
<1>1. Shapes
  BY DEF Init, Shapes, Begun, None
<1>2. Owned
  BY DEF Init, Owned, Has, Stored, Cached, InHand, Begun, None
<1>3. AllCalm
  BY DEF Init, AllCalm, Calm, Working, None
<1>4. Drifting
  BY DEF Init, Drifting
<1> QED
  BY <1>1, <1>2, <1>3, <1>4 DEF KeysInv

-----------------------------------------------------------------------------
\* Whatever a source does, and whatever fails: a key pair belongs to one type, an
\* undisturbed type has one pair, which its table holds before anyone can use it,
\* and no put of a call that failed or was cut off by a restart may land in it.
THEOREM KeysInvariant == Spec => []KeysInv
  BY KeysInit, KeysStep, PTL DEF Spec

\* The same of the sources that encryptions and decryptions use.
THEOREM CypherInvariant == CypherSpec => [](KeysInv /\ Sealed)
<1>1. CypherInit => KeysInv /\ Sealed
  BY KeysInit DEF CypherInit, Sealed
<1>2. KeysInv /\ Sealed /\ [CypherNext]_cypherVars => (KeysInv /\ Sealed)'
  BY KeysStep, CypherSteps, SealedStep DEF KeysInv
<1> QED
  BY <1>1, <1>2, PTL DEF CypherSpec

\* A buffer made for an aggregate of one type is not opened for one of another, with
\* any calls overlapping and any faults.
THEOREM TypesAreKeptApart == CypherSpec => []TypesKeepApart
<1>1. KeysInv /\ Sealed => TypesKeepApart
  <2> SUFFICES ASSUME KeysInv, Sealed, NEW c \in Calls, NEW b \in Calls, Opens(c, b)
               PROVE  TypeOf[target[c]] = TypeOf[target[b]]
    BY DEF TypesKeepApart
  <2>1. /\ pc[c] = "done" /\ pc[b] = "done"
        /\ pair[c] = pair[b] /\ pair[c] # {} /\ pair[c] \subseteq Pairs
        /\ target[c] \in Aggregates /\ target[b] \in Aggregates
    BY DEF Opens, Sealed, KeysInv, Shapes, Begun
  <2>2. PICK p \in Pairs : p \in pair[c] /\ p \in pair[b]
    BY <2>1
  <2>3. Has(Key(c), p) /\ Has(Key(b), p)
    BY <2>1, <2>2 DEF Has, InHand, Begun
  <2>4. Key(c) \in Types /\ Key(b) \in Types
    BY <2>1, KeysAreTypes DEF Key
  <2>5. Key(c) = Key(b)
    BY <2>3, <2>4 DEF KeysInv, Owned
  <2> QED
    BY <2>5 DEF Key, keyFor
<1> QED
  BY <1>1, CypherInvariant, PTL

\* What was encrypted for an aggregate can be decrypted for it, through any source
\* and after restarts that cut off no put, while its type is undisturbed.
THEOREM StaysDecipherable == CypherSpec => []Decipherable
<1>1. KeysInv /\ Sealed => Decipherable
  <2> SUFFICES ASSUME KeysInv, Sealed, NEW c \in Calls, NEW b \in Calls,
                      pc[c] = "done", opens[c] = {b}, Key(c) = Key(b),
                      Key(b) \notin disturbed
               PROVE  Opens(c, b)
    BY DEF Decipherable
  <2>1. pc[b] = "done" /\ Key(b) \in Types
    BY KeysAreTypes DEF Sealed, KeysInv, Shapes, Begun, Key
  <2>2. Calm(Key(b))
    BY <2>1 DEF KeysInv, AllCalm
  <2>3. PICK p, q \in Pairs : /\ puts[Key(b)] = <<p>> /\ pair[b] = {p}
                              /\ puts[Key(b)] = <<q>> /\ pair[c] = {q}
    BY <2>1, <2>2 DEF Calm
  <2> QED
    BY <2>3 DEF Opens
<1> QED
  BY <1>1, CypherInvariant, PTL

-----------------------------------------------------------------------------
\* The calls of a source that work on a type, unless they have overlapped, are one
\* at most, and none if the source has a pair for the type.
Alone(s, k) ==
  /\ \A c, d \in Calls :
       Working(c, k) /\ source[c] = s /\ Working(d, k) /\ source[d] = s => c = d
  /\ \A c \in Calls : Working(c, k) /\ source[c] = s => cache[s][k] = {}

AllAlone ==
  /\ crowded \in [Sources -> SUBSET Types]
  /\ \A s \in Sources : \A k \in Types \ crowded[s] : Alone(s, k)

\* The step keeps what s has cached for k, or forgets it.
Kept(s, k) == cache'[s][k] \in {cache[s][k], None}

\* A step keeps the calls of a source apart that it does not crowd, and with them
\* what the source has cached.
LEMMA AloneStep ==
  ASSUME Shapes, AllAlone, Next
  PROVE  /\ AllAlone'
         /\ \A s \in Sources, k \in Types :
              cache[s][k] # None /\ k \notin crowded[s] => Kept(s, k)
<1> DEFINE Good(s, k) == /\ k \notin crowded'[s] => Alone(s, k)'
                         /\ cache[s][k] # None /\ k \notin crowded[s] => Kept(s, k)
<1> SUFFICES /\ crowded' \in [Sources -> SUBSET Types]
             /\ \A s \in Sources, k \in Types : Good(s, k)
  BY DEF AllAlone, Types
<1>0. \A s \in Sources, k \in Types : k \notin crowded[s] => Alone(s, k)
  BY DEF AllAlone
<1>1. ASSUME NEW c \in Calls, NEW t \in Sources, NEW a \in Aggregates, Call(c, t, a)
      PROVE  /\ crowded' \in [Sources -> SUBSET Types]
             /\ \A s \in Sources, k \in Types : Good(s, k)
  <2>1. keyFor(a) \in Types
    BY KeysAreTypes
  <2>2. /\ cache' = cache /\ pc[c] = "idle" /\ target'[c] = a /\ source'[c] = t
        /\ pc'[c] = "reading" => cache[t][keyFor(a)] = {}
        /\ \A d \in Calls \ {c} :
             pc'[d] = pc[d] /\ target'[d] = target[d] /\ source'[d] = source[d]
    BY <1>1 DEF Call, Return, Shapes, None
  <2>3. pc'[c] \in {"reading", "done"}
    BY <1>1 DEF Call, Return, Shapes
  <2>4. /\ crowded' \in [Sources -> SUBSET Types]
        /\ \A s \in Sources : crowded[s] \subseteq crowded'[s]
        /\ \/ pc'[c] = "done"
           \/ \A d \in Calls : Working(d, keyFor(a)) /\ source[d] = t =>
                keyFor(a) \in crowded'[t]
    <3>1. CASE crowded' = crowded /\ pc'[c] = "done"
      BY <3>1 DEF AllAlone
    <3>2. CASE Meet(t, keyFor(a))
      <4>1. CASE \E d \in Busy(keyFor(a)) : source[d] = t
        <5>1. crowded' = [crowded EXCEPT ![t] = @ \cup {keyFor(a)}]
          BY <3>2, <4>1 DEF Meet
        <5> QED
          BY <2>1, <5>1 DEF AllAlone
      <4>2. CASE ~\E d \in Busy(keyFor(a)) : source[d] = t
        <5>1. crowded' = crowded
          BY <3>2, <4>2 DEF Meet
        <5>2. \A d \in Calls : ~(Working(d, keyFor(a)) /\ source[d] = t)
          BY <4>2 DEF Busy, Working
        <5> QED
          BY <5>1, <5>2 DEF AllAlone
      <4> QED
        BY <4>1, <4>2
    <3> QED
      BY <1>1, <3>1, <3>2 DEF Call, Return, Shapes
  <2>5. ASSUME NEW s \in Sources, NEW k \in Types, k \notin crowded'[s]
        PROVE  Alone(s, k)'
    <3>1. Alone(s, k)
      BY <1>0, <2>4, <2>5
    <3>2. \A d \in Calls \ {c} : Working(d, k)' /\ source'[d] = s =>
            Working(d, k) /\ source[d] = s
      BY <2>2 DEF Working, Key
    <3>3. Working(c, k)' /\ source'[c] = s =>
            /\ s = t /\ k = keyFor(a) /\ cache[s][k] = {}
            /\ \A d \in Calls : ~(Working(d, k) /\ source[d] = s)
      BY <2>2, <2>3, <2>4, <2>5 DEF Working, Key
    <3> QED
      BY <2>2, <3>1, <3>2, <3>3 DEF Alone
  <2>6. \A s \in Sources, k \in Types : Kept(s, k)
    BY <2>2 DEF Kept
  <2> QED
    BY <2>4, <2>5, <2>6
<1>2. ASSUME NEW c \in Calls, crowded' = crowded, UNCHANGED <<source, target>>,
             pc[c] \in {"reading", "writing"},
             pc'[c] \in {"writing", "done", "dead"},
             pc'[c] = "writing" => cache' = cache,
             \A d \in Calls \ {c} : pc'[d] = pc[d],
             \A s \in Sources, k \in Types :
               (s = source[c] /\ k = Key(c)) \/ cache'[s][k] = cache[s][k]
      PROVE  \A s \in Sources, k \in Types : Good(s, k)
  <2> SUFFICES ASSUME NEW s \in Sources, NEW k \in Types PROVE Good(s, k)
    OBVIOUS
  <2>1. \A d \in Calls : Working(d, k)' => Working(d, k)
    BY <1>2 DEF Working, Key
  <2>2. CASE s = source[c] /\ k = Key(c)
    <3>1. Working(c, k)
      BY <1>2, <2>2 DEF Working
    <3>2. Alone(s, k) => cache[s][k] = {}
      BY <2>2, <3>1 DEF Alone
    <3>3. Alone(s, k) => Alone(s, k)'
      <4>1. CASE cache' = cache
        BY <1>2, <2>1, <4>1 DEF Alone
      <4>2. CASE pc'[c] \in {"done", "dead"}
        <5>1. ~Working(c, k)'
          BY <4>2 DEF Working
        <5> QED
          BY <1>2, <2>1, <2>2, <3>1, <5>1 DEF Alone
      <4> QED
        BY <1>2, <4>1, <4>2
    <3> QED
      BY <1>0, <1>2, <3>2, <3>3 DEF None
  <2>3. CASE cache'[s][k] = cache[s][k]
    BY <1>0, <1>2, <2>1, <2>3 DEF Alone, Kept
  <2> QED
    BY <1>2, <2>2, <2>3
<1>3. ASSUME NEW c \in Calls, Read(c) \/ ReadFails(c) \/ Write(c)
      PROVE  /\ crowded' \in [Sources -> SUBSET Types]
             /\ \A s \in Sources, k \in Types : Good(s, k)
  <2>1. /\ crowded' = crowded /\ UNCHANGED <<source, target>>
        /\ pc[c] \in {"reading", "writing"}
        /\ Key(c) \in Types /\ source[c] \in Sources
    BY <1>3, KeysAreTypes DEF Read, ReadFails, Write, Shapes, Begun, Key
  <2>2. /\ pc'[c] \in {"writing", "done", "dead"}
        /\ \A d \in Calls \ {c} : pc'[d] = pc[d]
    BY <1>3 DEF Read, ReadFails, Write, Return, Shapes
  <2>3. /\ pc'[c] = "writing" => cache' = cache
        /\ cache' = cache \/ \E P \in SUBSET Pairs : Remember(c, P)
    <3>1. CASE Write(c)
      BY <2>1, <3>1 DEF Write, Return, Shapes
    <3>2. CASE Read(c)
      <4>1. puts[Key(c)] \in Seq(Pairs)
        BY <2>1 DEF Shapes
      <4>2. \A n \in 0..Len(puts[Key(c)]) : n > 0 => {puts[Key(c)][n]} \in SUBSET Pairs
        BY <4>1
      <4> QED
        BY <3>2, <4>2 DEF Read, Return, Shapes
    <3>3. CASE ReadFails(c)
      BY <3>3 DEF ReadFails
    <3> QED
      BY <1>3, <3>1, <3>2, <3>3
  <2>4. \A s \in Sources, k \in Types :
          (s = source[c] /\ k = Key(c)) \/ cache'[s][k] = cache[s][k]
    <3>1. CASE cache' = cache
      BY <3>1
    <3>2. ASSUME NEW P \in SUBSET Pairs, Remember(c, P)
          PROVE  \A s \in Sources, k \in Types :
                   (s = source[c] /\ k = Key(c)) \/ cache'[s][k] = cache[s][k]
      BY <2>1, <3>2, Remembered
    <3> QED
      BY <2>3, <3>1, <3>2
  <2>5. crowded' \in [Sources -> SUBSET Types]
    BY <2>1 DEF AllAlone
  <2> HIDE DEF Good
  <2> QED
    BY <1>2, <2>1, <2>2, <2>3, <2>4, <2>5
<1>4. ASSUME NEW t \in Sources, Restart(t)
      PROVE  /\ crowded' \in [Sources -> SUBSET Types]
             /\ \A s \in Sources, k \in Types : Good(s, k)
  <2>1. /\ crowded' = crowded /\ UNCHANGED <<source, target>>
        /\ \A d \in Calls : pc'[d] \in {pc[d], "dead"}
        /\ \A s \in Sources, k \in Types : cache'[s][k] \in {cache[s][k], {}}
    BY <1>4 DEF Restart, Shapes, None
  <2>2. \A d \in Calls, k \in Types : Working(d, k)' => Working(d, k)
    BY <2>1 DEF Working, Key
  <2> QED
    BY <1>0, <2>1, <2>2 DEF Alone, Kept, None, AllAlone
<1>5. ASSUME NEW c \in Calls, Land(c)
      PROVE  /\ crowded' \in [Sources -> SUBSET Types]
             /\ \A s \in Sources, k \in Types : Good(s, k)
  BY <1>0, <1>5 DEF Land, Alone, Working, Key, Kept, AllAlone
<1> HIDE DEF Good
<1> QED
  BY <1>1, <1>3, <1>4, <1>5 DEF Next

\* A pair that a source has cached is never exchanged for another, unless the
\* source's own calls overlapped, whatever other sources and the table do.
THEOREM CachesAreStable == CypherSpec => CacheStable
<1>1. CypherInit => Shapes /\ Drifting /\ AllAlone
  BY KeysInit DEF CypherInit, KeysInv, Init, AllAlone, Alone, Working
<1>2. Shapes /\ Drifting /\ AllAlone /\ [CypherNext]_cypherVars => (Shapes /\ Drifting /\ AllAlone)'
  <2>1. Shapes /\ Drifting /\ AllAlone /\ Next => (Shapes /\ Drifting /\ AllAlone)'
    BY ShapesStep, DriftStep, AloneStep
  <2>2. Shapes /\ Drifting /\ AllAlone /\ UNCHANGED vars => (Shapes /\ Drifting /\ AllAlone)'
    BY DEF Shapes, Drifting, AllAlone, Alone, Working, Begun, Key, vars
  <2> QED
    BY <2>1, <2>2, CypherSteps
<1>3. Shapes /\ Drifting /\ AllAlone /\ [CypherNext]_cypherVars =>
        [\A s \in Sources, k \in Types :
           cache[s][k] # None /\ k \notin crowded[s] =>
             cache'[s][k] \in {cache[s][k], None}]_vars
  BY AloneStep, CypherSteps DEF Kept
<1> QED
  BY <1>1, <1>2, <1>3, PTL DEF CypherSpec, CacheStable
=============================================================================
