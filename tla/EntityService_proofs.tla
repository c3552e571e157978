----------------------- MODULE EntityService_proofs -----------------------
(***************************************************************************)
(* What EntityService guarantees for every domain, every number of         *)
(* executions and every store that keeps to the event log.                 *)
(***************************************************************************)
EXTENDS Account, NaturalsInduction, FiniteSetTheorems, TLAPS

-----------------------------------------------------------------------------
(***************************************************************************)
(* Induction over the naturals. No prover here instantiates a predicate,   *)
(* so it is stated for sets.                                               *)
(***************************************************************************)

\* A set of naturals that is not empty has a smallest one.
LEMMA Smallest ==
  ASSUME NEW T \in SUBSET Nat, T # {}
  PROVE  \E m \in T : \A k \in T : m <= k
<1> DEFINE R == OpToRel(<, Nat)
<1>1. IsWellFoundedOn(R, Nat)
  BY NatLessThanWellFounded, Zenon
<1>2. \A a, b \in Nat : a < b => <<a, b>> \in R
  BY DEF OpToRel
<1> HIDE DEF R
<1>3. PICK m \in T : \A k \in T : ~ (<<k, m>> \in R)
  BY <1>1, WFMin
<1>4. ASSUME NEW k \in T PROVE m <= k
  <2>1. k \in Nat /\ m \in Nat
    OBVIOUS
  <2>2. ~ (k < m)
    BY <1>2, <1>3, <2>1, Zenon
  <2> QED
    BY <2>1, <2>2
<1> QED
  BY <1>4

\* A set that begins at 0 and goes on from each number to the next.
LEMMA Induction ==
  ASSUME NEW n \in Nat, NEW T, 0 \in T, \A k \in 0..(n - 1) : k \in T => k + 1 \in T
  PROVE  \A k \in 0..n : k \in T
<1> DEFINE Bad == {k \in 0..n : k \notin T}
<1>1. SUFFICES ASSUME Bad # {} PROVE FALSE
  OBVIOUS
<1>2. Bad \in SUBSET Nat
  OBVIOUS
<1> HIDE DEF Bad
<1>3. PICK m \in Bad : \A k \in Bad : m <= k
  BY <1>1, <1>2, Smallest
<1> USE DEF Bad
<1>4. m # 0 /\ m \in 1..n
  BY <1>3
<1>5. m - 1 \in 0..(n - 1) /\ m - 1 \notin Bad /\ (m - 1) + 1 = m
  BY <1>3, <1>4
<1>6. m - 1 \in T
  BY <1>5
<1> QED
  BY <1>3, <1>5, <1>6

-----------------------------------------------------------------------------
(***************************************************************************)
(* Histories and their replay: the recursive function in State exists, is  *)
(* the only one of its kind, and may be taken a step at a time.            *)
(***************************************************************************)

\* The states a history goes through.
IsReplay(a, s, n) ==
  a = [i \in 0..n |-> IF i = 0 THEN Start ELSE After(a[i - 1], s[i].event)]

LEMMA ReplayExists ==
  ASSUME NEW s, NEW n \in Nat
  PROVE  \E a : IsReplay(a, s, n)
<1> DEFINE T == {k \in Nat : \E a : IsReplay(a, s, k)}
<1>1. 0 \in T
  <2> DEFINE a == [i \in 0..0 |-> Start]
  <2>1. IsReplay(a, s, 0)
    BY DEF IsReplay
  <2> QED
    BY <2>1
<1>2. ASSUME NEW k \in 0..(n - 1), k \in T PROVE k + 1 \in T
  <2>1. PICK a : IsReplay(a, s, k)
    BY <1>2
  <2> DEFINE next == After(a[k], s[k + 1].event)
             b == [i \in 0..(k + 1) |-> IF i = k + 1 THEN next ELSE a[i]]
  <2>2. \A i \in 0..k : a[i] = IF i = 0 THEN Start ELSE After(a[i - 1], s[i].event)
    <3> HIDE DEF next
    <3> QED  BY <2>1 DEF IsReplay
  <2>3. ASSUME NEW i \in 0..(k + 1)
        PROVE  b[i] = IF i = 0 THEN Start ELSE After(b[i - 1], s[i].event)
    <3>1. CASE i = 0
      <4> HIDE DEF next
      <4> QED  BY <2>2, <3>1
    <3>2. CASE i \in 1..k
      <4>1. b[i] = a[i] /\ b[i - 1] = a[i - 1]
        <5> HIDE DEF next
        <5> QED  BY <3>2
      <4> QED
        BY <2>2, <3>2, <4>1
    <3>3. CASE i = k + 1
      <4>1. b[i] = next /\ b[i - 1] = a[k] /\ i # 0
        <5> HIDE DEF next
        <5> QED  BY <3>3
      <4> QED
        BY <3>3, <4>1
    <3> QED
      BY <3>1, <3>2, <3>3
  <2>4. IsReplay(b, s, k + 1)
    <3> HIDE DEF next
    <3>1. b = [i \in 0..(k + 1) |-> b[i]]
      OBVIOUS
    <3> HIDE DEF b
    <3> QED  BY <2>3, <3>1 DEF IsReplay
  <2> QED
    BY <2>4
<1>3. n \in T
  <2> HIDE DEF T
  <2> QED  BY <1>1, <1>2, Induction
<1> QED
  BY <1>3

\* They are determined by the events.
LEMMA ReplayUnique ==
  ASSUME NEW s, NEW t, NEW m \in Nat, NEW n \in Nat, NEW a, NEW b,
         IsReplay(a, s, m), IsReplay(b, t, n),
         NEW k \in Nat, k <= m, k <= n, \A i \in 1..k : s[i] = t[i]
  PROVE  a[k] = b[k]
<1> DEFINE T == {i \in 0..k : a[i] = b[i]}
<1>1. \A i \in 0..m : a[i] = IF i = 0 THEN Start ELSE After(a[i - 1], s[i].event)
  BY DEF IsReplay
<1>2. \A i \in 0..n : b[i] = IF i = 0 THEN Start ELSE After(b[i - 1], t[i].event)
  BY DEF IsReplay
<1>3. 0 \in T
  BY <1>1, <1>2
<1>4. ASSUME NEW i \in 0..(k - 1), i \in T PROVE i + 1 \in T
  <2>1. i + 1 \in 0..m /\ i + 1 \in 0..n /\ i + 1 \in 1..k /\ i + 1 # 0 /\ (i + 1) - 1 = i
    OBVIOUS
  <2>2. a[i + 1] = After(a[i], s[i + 1].event)
    BY <1>1, <2>1
  <2>3. b[i + 1] = After(b[i], t[i + 1].event)
    BY <1>2, <2>1
  <2> QED
    BY <1>4, <2>1, <2>2, <2>3
<1>5. k \in T
  <2> HIDE DEF T
  <2> QED  BY <1>3, <1>4, Induction
<1> QED
  BY <1>5

LEMMA StateIsReplay ==
  ASSUME NEW s, Len(s) \in Nat
  PROVE  \E a : IsReplay(a, s, Len(s)) /\ State(s) = a[Len(s)]
<1> DEFINE after == CHOOSE a : IsReplay(a, s, Len(s))
<1>1. IsReplay(after, s, Len(s))
  BY ReplayExists
<1>2. State(s) = after[Len(s)]
  BY DEF State, IsReplay
<1> QED
  BY <1>1, <1>2

\* The state of a longer history is what its last event makes of the state of the
\* history before it.
LEMMA StateStart ==
  ASSUME NEW s, Len(s) = 0
  PROVE  State(s) = Start
BY StateIsReplay DEF IsReplay

LEMMA StateNext ==
  ASSUME NEW s, NEW t, NEW n \in Nat, Len(s) = n, Len(t) = n + 1, \A i \in 1..n : t[i] = s[i]
  PROVE  State(t) = After(State(s), t[n + 1].event)
<1>1. PICK a : IsReplay(a, s, n) /\ State(s) = a[n]
  BY StateIsReplay
<1>2. PICK b : IsReplay(b, t, n + 1) /\ State(t) = b[n + 1]
  <2>1. n + 1 \in Nat
    OBVIOUS
  <2> QED
    BY <2>1, StateIsReplay, Zenon
<1>3. a[n] = b[n]
  BY <1>1, <1>2, ReplayUnique
<1>4. b[n + 1] = After(b[n], t[n + 1].event)
  BY <1>2 DEF IsReplay
<1> QED
  BY <1>1, <1>2, <1>3, <1>4

\* A nonempty set of positions has a last one.
LEMMA LargestExists ==
  ASSUME NEW n \in Nat, NEW S, S \subseteq 1..n, S # {}
  PROVE  \E i \in S : \A j \in S : j <= i
<1> DEFINE T == {n - i : i \in S}
<1>1. T \in SUBSET Nat /\ T # {}
  <2>1. PICK i \in S : TRUE
    OBVIOUS
  <2>2. n - i \in T
    OBVIOUS
  <2>3. \A j \in S : n - j \in Nat
    OBVIOUS
  <2> QED
    BY <2>2, <2>3
<1>2. PICK t \in T : \A u \in T : t <= u
  <2> HIDE DEF T
  <2> QED  BY <1>1, Smallest
<1>3. PICK i \in S : t = n - i
  OBVIOUS
<1>4. ASSUME NEW j \in S PROVE j <= i
  <2>1. n - j \in T
    OBVIOUS
  <2>2. n - i <= n - j
    BY <1>2, <1>3, <2>1
  <2> QED
    BY <2>2
<1> QED
  BY <1>4

\* An entity's revision is never beyond the history it was replayed from.
LEMMA RevisionInHistory ==
  ASSUME NEW n \in Nat, NEW events, DOMAIN events = 1..n
  PROVE  Revision(events) \in 0..n
<1> DEFINE used == {i \in DOMAIN events : Used(events, i)}
<1>1. CASE used = {}
  BY <1>1 DEF Revision, Initial
<1>2. CASE used # {}
  <2>1. \E i \in used : \A j \in used : j <= i
    <3>1. used \subseteq 1..n
      OBVIOUS
    <3> HIDE DEF used
    <3> QED  BY <1>2, <3>1, LargestExists
  <2>2. Revision(events) \in used
    BY <1>2, <2>1 DEF Revision
  <2> QED
    BY <2>2
<1> QED
  BY <1>1, <1>2

IsLog(s) == \E S : s \in Seq(S)

\* Appending an event leaves every earlier history as it was.
LEMMA AppendKeepsHistory ==
  ASSUME NEW s, IsLog(s), NEW e
  PROVE  /\ Len(s) \in Nat /\ DOMAIN s = 1..Len(s)
         /\ IsLog(Append(s, e))
         /\ Len(Append(s, e)) = Len(s) + 1
         /\ Append(s, e)[Len(s) + 1] = e
         /\ \A i \in 1..Len(s) : Append(s, e)[i] = s[i]
         /\ \A k \in 0..Len(s) : SubSeq(Append(s, e), 1, k) = SubSeq(s, 1, k)
<1>1. PICK S : s \in Seq(S)
  BY DEF IsLog
<1>2. s \in Seq(S \cup {e}) /\ e \in S \cup {e}
  BY <1>1
<1>3. Append(s, e) \in Seq(S \cup {e})
  BY <1>2
<1>4. IsLog(Append(s, e))
  BY <1>3 DEF IsLog
<1>5. \A k \in 0..Len(s) : SubSeq(Append(s, e), 1, k) = SubSeq(s, 1, k)
  BY <1>2, <1>3
<1> QED
  BY <1>2, <1>4, <1>5

\* A prefix of the log is the history of as many events.
LEMMA PrefixIsHistory ==
  ASSUME NEW s, IsLog(s), NEW k \in 0..Len(s)
  PROVE  /\ Len(SubSeq(s, 1, k)) = k
         /\ DOMAIN SubSeq(s, 1, k) = 1..k
         /\ \A i \in 1..k : SubSeq(s, 1, k)[i] = s[i]
<1>1. PICK S : s \in Seq(S)
  BY DEF IsLog
<1> QED
  BY <1>1

\* The states an aggregate has gone through, event by event.
LEMMA StatesOfPrefixes ==
  ASSUME NEW s, IsLog(s)
  PROVE  /\ State(SubSeq(s, 1, 0)) = Start
         /\ \A n \in 0..(Len(s) - 1) :
              State(SubSeq(s, 1, n + 1)) = After(State(SubSeq(s, 1, n)), s[n + 1].event)
<1>1. Len(s) \in Nat
  BY DEF IsLog
<1>2. State(SubSeq(s, 1, 0)) = Start
  <2>1. Len(SubSeq(s, 1, 0)) = 0
    BY <1>1, PrefixIsHistory
  <2> QED
    BY <2>1, StateStart, Zenon
<1>3. ASSUME NEW n \in 0..(Len(s) - 1)
      PROVE  State(SubSeq(s, 1, n + 1)) = After(State(SubSeq(s, 1, n)), s[n + 1].event)
  <2> DEFINE before == SubSeq(s, 1, n)
             after == SubSeq(s, 1, n + 1)
  <2>1. n \in Nat /\ n \in 0..Len(s) /\ n + 1 \in 0..Len(s)
    BY <1>1
  <2>2. Len(before) = n /\ \A i \in 1..n : before[i] = s[i]
    BY <2>1, PrefixIsHistory
  <2>3. Len(after) = n + 1 /\ \A i \in 1..(n + 1) : after[i] = s[i]
    BY <2>1, PrefixIsHistory
  <2> HIDE DEF before, after
  <2>4. after[n + 1] = s[n + 1] /\ \A i \in 1..n : after[i] = before[i]
    BY <2>1, <2>2, <2>3
  <2>5. State(after) = After(State(before), after[n + 1].event)
    BY <2>1, <2>2, <2>3, <2>4, StateNext
  <2> USE DEF before, after
  <2> QED
    BY <2>4, <2>5
<1> QED
  BY <1>2, <1>3

-----------------------------------------------------------------------------
(***************************************************************************)
(* Types.                                                                  *)
(***************************************************************************)
Typed ==
  /\ TypeOK
  /\ IsLog(log)
  /\ \A x \in Executions : late[x] > 0 => pc[x] # "idle"

\* What a load returns is the replay of the events it has seen.
LEMMA LoadsTyped ==
  ASSUME Typed, NEW x \in Executions, NEW events \in Readable,
         seen' = [seen EXCEPT ![x] = Len(events)]
  PROVE  /\ Len(log) \in Nat
         /\ seen' \in [Executions -> 0..Len(log)]
         /\ seen'[x] = Len(events)
         /\ events = SubSeq(log, 1, seen'[x])
         /\ Replay(events).state = State(events)
         /\ Replay(events).revision \in 0..Len(log)
         /\ Replay(events).revision \in 0..seen'[x]
         /\ \A y \in Executions \ {x} : seen'[y] = seen[y]
<1>1. Len(log) \in Nat
  BY AppendKeepsHistory DEF Typed
<1>2. PICK k \in 0..Len(log) : events = SubSeq(log, 1, k)
  BY <1>1 DEF Readable
<1>3. Len(events) = k /\ DOMAIN events = 1..k
  BY <1>2, PrefixIsHistory DEF Typed
<1>4. Replay(events).revision \in 0..k /\ Replay(events).state = State(events)
  BY <1>3, RevisionInHistory DEF Replay
<1> QED
  BY <1>1, <1>2, <1>3, <1>4 DEF Typed, TypeOK

LEMMA FinishTyped ==
  ASSUME TypeOK, NEW x \in Executions, NEW result \in {"ok"} \cup Errors,
         Finish(x, result)
  PROVE  /\ pc' \in [Executions -> {"idle", "loading", "publishing", "reloading", "done"}]
         /\ outcome' \in [Executions -> {"none", "ok"} \cup Errors]
         /\ pc'[x] = "done" /\ outcome'[x] = result
         /\ \A y \in Executions \ {x} : pc'[y] = pc[y] /\ outcome'[y] = outcome[y]
BY DEF Finish, TypeOK

\* The log grows by one event, whoever publishes it.
LEMMA AppendTyped ==
  ASSUME Typed, NEW by \in Executions \cup {Others}, NEW c, NEW e,
         by \in Executions => c \in Commands,
         log' = Append(log, [by |-> by, command |-> c, event |-> e])
  PROVE  /\ IsLog(log') /\ Len(log) \in Nat /\ Len(log') = Len(log) + 1
         /\ DOMAIN log = 1..Len(log) /\ DOMAIN log' = 1..Len(log')
         /\ log'[Len(log')] = [by |-> by, command |-> c, event |-> e]
         /\ \A i \in DOMAIN log : log'[i] = log[i]
         /\ \A k \in 0..Len(log) : SubSeq(log', 1, k) = SubSeq(log, 1, k)
         /\ \A i \in DOMAIN log' : /\ log'[i].by \in Executions \cup {Others}
                                   /\ log'[i].by \in Executions => log'[i].command \in Commands
<1> DEFINE r == [by |-> by, command |-> c, event |-> e]
<1>1. /\ IsLog(log') /\ Len(log) \in Nat /\ Len(log') = Len(log) + 1
      /\ DOMAIN log = 1..Len(log)
      /\ log'[Len(log) + 1] = r
      /\ \A i \in 1..Len(log) : log'[i] = log[i]
      /\ \A k \in 0..Len(log) : SubSeq(log', 1, k) = SubSeq(log, 1, k)
  <2> HIDE DEF r
  <2> QED  BY AppendKeepsHistory DEF Typed, r
<1>2. DOMAIN log' = 1..Len(log')
  BY <1>1, AppendKeepsHistory
<1> QED
  BY <1>1, <1>2 DEF Typed, TypeOK

LEMMA TypedStep == Typed /\ [Next]_vars => Typed'
<1> SUFFICES ASSUME Typed, [Next]_vars PROVE Typed'
  OBVIOUS
<1>0. Len(log) \in Nat
  BY AppendKeepsHistory DEF Typed
<1>1. ASSUME NEW x \in Executions, Execute(x) PROVE Typed'
  BY <1>1 DEF Typed, TypeOK, Execute
<1>2. ASSUME NEW x \in Executions, Loaded(x) PROVE Typed'
  <2>1. PICK events \in Readable :
          /\ entity' = [entity EXCEPT ![x] = Replay(events)]
          /\ seen' = [seen EXCEPT ![x] = Len(events)]
          /\ Dispatch(x, State(events))
    BY <1>2 DEF Loaded
  <2>2. /\ pc' \in [Executions -> {"idle", "loading", "publishing", "reloading", "done"}]
        /\ outcome' \in [Executions -> {"none", "ok"} \cup Errors]
        /\ pc'[x] # "idle" /\ \A y \in Executions \ {x} : pc'[y] = pc[y]
    BY <2>1, FinishTyped DEF Dispatch, Typed, TypeOK, Errors
  <2>3. /\ seen' \in [Executions -> 0..Len(log)]
        /\ Replay(events).revision \in 0..Len(log)
    BY <2>1, LoadsTyped
  <2>4. DOMAIN entity' = Executions /\ \A y \in Executions : entity'[y].revision \in 0..Len(log)
    BY <2>1, <2>3 DEF Typed, TypeOK
  <2> QED
    BY <1>2, <2>2, <2>3, <2>4 DEF Loaded, Typed, TypeOK
<1>3. ASSUME NEW x \in Executions, Published(x) PROVE Typed'
  <2>1. command[x] \in Commands
    BY <1>3 DEF Published, Typed, TypeOK
  <2>2. log' = Append(log, [by |-> x, command |-> command[x],
                            event |-> Decide(entity[x].state, command[x])])
    BY <1>3 DEF Published, Record
  <2>3. Len(log') = Len(log) + 1 /\ IsLog(log')
        /\ \A i \in DOMAIN log' : /\ log'[i].by \in Executions \cup {Others}
                                  /\ log'[i].by \in Executions => log'[i].command \in Commands
    BY <2>1, <2>2, AppendTyped
  <2> QED
    BY <1>0, <1>3, <2>3 DEF Published, Typed, TypeOK
<1>4. ASSUME NEW x \in Executions, Conflicted(x) PROVE Typed'
  BY <1>4, FinishTyped DEF Conflicted, Typed, TypeOK, Errors
<1>5. ASSUME NEW x \in Executions, PublishFails(x) PROVE Typed'
  <2>1. command[x] \in Commands /\ faults' = faults + 1 /\ faults' \in 0..MaxFaults
    BY <1>5, BoundAssumption DEF PublishFails, Typed, TypeOK
  <2>2. /\ pc' \in [Executions -> {"idle", "loading", "publishing", "reloading", "done"}]
        /\ outcome' \in [Executions -> {"none", "ok"} \cup Errors]
        /\ retried' \subseteq Executions
        /\ pc'[x] # "idle" /\ \A y \in Executions : pc[y] # "idle" <=> pc'[y] # "idle"
    BY <1>5, FinishTyped DEF PublishFails, RetryOrFail, Typed, TypeOK, Errors
  <2>3. /\ late' \in [Executions -> 0..faults']
        /\ \A y \in Executions : late'[y] > 0 => pc'[y] # "idle"
    <3>1. faults \in Nat /\ \A y \in Executions : late[y] \in 0..faults'
      BY <2>1, BoundAssumption DEF Typed, TypeOK
    <3>2. CASE UNCHANGED late
      BY <2>2, <3>1, <3>2 DEF Typed, TypeOK
    <3>3. CASE late' = [late EXCEPT ![x] = @ + 1]
      <4>1. late[x] + 1 \in 0..faults'
        BY <2>1, <3>1 DEF Typed, TypeOK
      <4> QED
        BY <2>2, <3>1, <3>3, <4>1 DEF Typed, TypeOK
    <3> QED
      BY <1>5, <3>2, <3>3 DEF PublishFails
  <2>4. CASE UNCHANGED log
    BY <1>5, <2>1, <2>2, <2>3, <2>4 DEF PublishFails, Typed, TypeOK
  <2>5. CASE log' = Append(log, Record(x))
    <3>1. log' = Append(log, [by |-> x, command |-> command[x],
                              event |-> Decide(entity[x].state, command[x])])
      BY <2>5 DEF Record
    <3>2. Len(log') = Len(log) + 1 /\ IsLog(log')
          /\ \A i \in DOMAIN log' : /\ log'[i].by \in Executions \cup {Others}
                                    /\ log'[i].by \in Executions => log'[i].command \in Commands
      BY <2>1, <3>1, AppendTyped
    <3> QED
      BY <1>0, <1>5, <2>1, <2>2, <2>3, <3>2 DEF PublishFails, Typed, TypeOK
  <2> QED
    BY <1>5, <2>4, <2>5 DEF PublishFails
<1>10. ASSUME NEW x \in Executions, Arrives(x) PROVE Typed'
  <2>1. command[x] \in Commands
    BY <1>10 DEF Arrives, Typed, TypeOK
  <2>2. log' = Append(log, [by |-> x, command |-> command[x],
                            event |-> Decide(entity[x].state, command[x])])
    BY <1>10 DEF Arrives, Record
  <2>3. Len(log') = Len(log) + 1 /\ IsLog(log')
        /\ \A i \in DOMAIN log' : /\ log'[i].by \in Executions \cup {Others}
                                  /\ log'[i].by \in Executions => log'[i].command \in Commands
    BY <2>1, <2>2, AppendTyped
  <2>4. /\ late' \in [Executions -> 0..faults]
        /\ \A y \in Executions : late'[y] > 0 => pc'[y] # "idle"
    BY <1>10, BoundAssumption DEF Arrives, Typed, TypeOK
  <2> QED
    BY <1>0, <1>10, <2>3, <2>4 DEF Arrives, Typed, TypeOK
<1>6. ASSUME NEW x \in Executions, Reloaded(x) PROVE Typed'
  <2>1. PICK events \in Readable :
          /\ seen' = [seen EXCEPT ![x] = Len(events)]
          /\ Finish(x, IF State(events) = Absent THEN "unavailable" ELSE "ok")
    BY <1>6 DEF Reloaded
  <2>2. /\ pc' \in [Executions -> {"idle", "loading", "publishing", "reloading", "done"}]
        /\ outcome' \in [Executions -> {"none", "ok"} \cup Errors]
        /\ pc'[x] # "idle" /\ \A y \in Executions \ {x} : pc'[y] = pc[y]
    BY <2>1, FinishTyped DEF Typed, Errors
  <2>3. seen' \in [Executions -> 0..Len(log)]
    BY <2>1, LoadsTyped
  <2> QED
    BY <1>6, <2>2, <2>3 DEF Reloaded, Typed, TypeOK
<1>7. ASSUME NEW x \in Executions, LoadFails(x) PROVE Typed'
  BY <1>7, FinishTyped, BoundAssumption DEF LoadFails, Typed, TypeOK, Errors
<1>8. ASSUME PublishElsewhere PROVE Typed'
  <2>1. PICK e \in Foreign :
          log' = Append(log, [by |-> Others, command |-> Nothing, event |-> e])
    BY <1>8 DEF PublishElsewhere
  <2>2. Len(log') = Len(log) + 1 /\ IsLog(log')
        /\ \A i \in DOMAIN log' : /\ log'[i].by \in Executions \cup {Others}
                                  /\ log'[i].by \in Executions => log'[i].command \in Commands
    BY <2>1, AppendTyped, OthersAssumption
  <2> QED
    BY <1>0, <1>8, <2>2, BoundAssumption DEF PublishElsewhere, Typed, TypeOK
<1>9. CASE UNCHANGED vars
  BY <1>9 DEF vars, Typed, TypeOK
<1> QED
  BY <1>1, <1>2, <1>3, <1>4, <1>5, <1>6, <1>7, <1>8, <1>9, <1>10 DEF Next

LEMMA TypedInit == Init => Typed
<1> SUFFICES ASSUME Init PROVE Typed
  OBVIOUS
<1>1. log \in Seq({}) /\ DOMAIN log = {} /\ Len(log) = 0
  BY DEF Init
<1>2. IsLog(log)
  BY <1>1 DEF IsLog
<1> QED
  BY <1>1, <1>2, BoundAssumption DEF Init, Typed, TypeOK, Initial

\* Every variable stays within its type; in particular, the revision of a
\* loaded entity is that of an event in the history it was loaded from.
THEOREM TypeCorrect == Spec => []TypeOK
<1>1. Typed => TypeOK
  BY DEF Typed
<1> QED
  BY <1>1, TypedInit, TypedStep, PTL DEF Spec

-----------------------------------------------------------------------------
(***************************************************************************)
(* What an execution has recorded, from its own point of view.             *)
(***************************************************************************)
Blank(x) == late[x] = 0 /\ \A i \in DOMAIN log : log[i].by # x

\* Where an execution is when it has sent nothing that might be recorded.
Fresh(x) ==
  \/ pc[x] \in {"idle", "loading"}
  \/ pc[x] = "reloading" /\ ~triggered[x]
  \/ x \notin retried /\ (pc[x] = "publishing" \/ outcome[x] = "conflict")
  \/ outcome[x] \in {"invalid", "rejected"}

\* The entity of a handler is the replay of some history the aggregate had.
Given(x) ==
  \E k \in 0..Len(log) : /\ entity[x].revision \in 0..k
                         /\ entity[x].state = State(SubSeq(log, 1, k))

\* An event of a guarded command is beyond the revision its handler was given, so
\* that the store accepts no second one.
Once(x) ==
  Guarded(x) => /\ \A i \in DOMAIN log : log[i].by = x => entity[x].revision < i
                /\ \A i, j \in DOMAIN log : log[i].by = x /\ log[j].by = x => i = j

Progress(x) ==
  /\ pc[x] # "done" => outcome[x] = "none"
  /\ Fresh(x) => Blank(x)
  /\ Given(x)
  /\ Once(x)
  /\ triggered[x] => \E i \in DOMAIN log : log[i].by = x
  /\ outcome[x] = "ok" /\ ~Stale =>
       Blank(x) \/ \E i \in DOMAIN log : log[i].by = x /\ i <= seen[x]

\* A step that is none of x's own.
Bystands(x) ==
  /\ pc'[x] = pc[x] /\ outcome'[x] = outcome[x] /\ command'[x] = command[x]
  /\ entity'[x] = entity[x] /\ seen'[x] = seen[x] /\ late'[x] = late[x]
  /\ triggered'[x] = triggered[x] /\ (x \in retried' <=> x \in retried)

AppendedByAnother(x) ==
  \E by \in (Executions \cup {Others}) \ {x} : \E c, e :
    /\ by \in Executions => c \in Commands
    /\ log' = Append(log, [by |-> by, command |-> c, event |-> e])

\* A history that the log begins with remains one.
LEMMA GivenStays ==
  ASSUME Typed, NEW x \in Executions, Given(x), entity'[x] = entity[x],
         UNCHANGED log \/ \E r : log' = Append(log, r)
  PROVE  Given(x)'
<1>1. CASE UNCHANGED log
  BY <1>1 DEF Given
<1>2. CASE \E r : log' = Append(log, r)
  <2>1. PICK r : log' = Append(log, r)
    BY <1>2
  <2>2. /\ Len(log) \in Nat /\ Len(log') = Len(log) + 1
        /\ \A k \in 0..Len(log) : SubSeq(log', 1, k) = SubSeq(log, 1, k)
    BY <2>1, AppendKeepsHistory DEF Typed
  <2>3. PICK k \in 0..Len(log) : /\ entity[x].revision \in 0..k
                                 /\ entity[x].state = State(SubSeq(log, 1, k))
    BY DEF Given
  <2>4. k \in 0..Len(log')
    BY <2>2
  <2> QED
    BY <2>2, <2>3, <2>4 DEF Given
<1> QED
  BY <1>1, <1>2

LEMMA BystanderProgress ==
  ASSUME Typed, NEW x \in Executions, Progress(x), Bystands(x),
         UNCHANGED log \/ AppendedByAnother(x)
  PROVE  Progress(x)'
<1>1. Given(x)'
  BY GivenStays DEF Progress, Bystands, AppendedByAnother
<1>2. CASE UNCHANGED log
  BY <1>1, <1>2 DEF Progress, Bystands, Fresh, Blank, Once, Guarded
<1>3. CASE AppendedByAnother(x)
  <2>1. PICK by \in (Executions \cup {Others}) \ {x} : \E c, e :
          /\ by \in Executions => c \in Commands
          /\ log' = Append(log, [by |-> by, command |-> c, event |-> e])
    BY <1>3 DEF AppendedByAnother
  <2>2. PICK c, e :
          /\ by \in Executions => c \in Commands
          /\ log' = Append(log, [by |-> by, command |-> c, event |-> e])
    BY <2>1
  <2>3. /\ Len(log) \in Nat /\ Len(log') = Len(log) + 1
        /\ DOMAIN log = 1..Len(log) /\ DOMAIN log' = 1..Len(log')
        /\ log'[Len(log')].by # x
        /\ \A i \in DOMAIN log : log'[i] = log[i]
    BY <2>2, AppendTyped
  <2>4. \A i : i \in DOMAIN log' /\ log'[i].by = x <=> i \in DOMAIN log /\ log[i].by = x
    BY <2>3
  <2>5. (Fresh(x)' <=> Fresh(x)) /\ (Guarded(x)' <=> Guarded(x)) /\ (Blank(x)' <=> Blank(x))
    BY <2>4 DEF Bystands, Fresh, Guarded, Blank
  <2>6. Once(x)'
    BY <2>4, <2>5 DEF Progress, Once, Bystands
  <2> QED
    BY <1>1, <2>4, <2>5, <2>6 DEF Progress, Bystands
<1> QED
  BY <1>2, <1>3

\* The store appends an event of x: the one event, if x is guarded.
LEMMA OwnAppend ==
  ASSUME Typed, NEW x \in Executions, Progress(x), pc[x] # "idle", Accepts(x),
         log' = Append(log, Record(x)), UNCHANGED <<entity, command>>
  PROVE  /\ Given(x)' /\ Once(x)'
         /\ Len(log') \in DOMAIN log' /\ log'[Len(log')].by = x
         /\ \A i \in DOMAIN log : i \in DOMAIN log' /\ log'[i] = log[i]
         /\ \A y \in Executions \ {x} : AppendedByAnother(y)
<1>1. command[x] \in Commands
  BY DEF Typed, TypeOK
<1>2. log' = Append(log, [by |-> x, command |-> command[x],
                          event |-> Decide(entity[x].state, command[x])])
  BY DEF Record
<1>3. /\ Len(log) \in Nat /\ Len(log') = Len(log) + 1
      /\ DOMAIN log = 1..Len(log) /\ DOMAIN log' = 1..Len(log')
      /\ log'[Len(log')].by = x
      /\ \A i \in DOMAIN log : log'[i] = log[i]
  BY <1>1, <1>2, AppendTyped
<1>4. Given(x)'
  BY GivenStays DEF Progress
<1>5. Once(x)'
  <2> SUFFICES ASSUME Guarded(x) PROVE Once(x)'
    BY DEF Once, Guarded
  <2>1. entity[x].revision = Len(log)
    BY DEF Accepts
  <2>2. \A i \in DOMAIN log : log[i].by # x
    BY <1>3, <2>1 DEF Progress, Once
  <2>3. \A i \in DOMAIN log' : log'[i].by = x => i = Len(log')
    BY <1>3, <2>2
  <2> QED
    BY <1>3, <2>1, <2>3 DEF Once
<1>6. \A y \in Executions \ {x} : AppendedByAnother(y)
  <2> DEFINE e == Decide(entity[x].state, command[x])
  <2>1. log' = Append(log, [by |-> x, command |-> command[x], event |-> e])
    BY <1>2
  <2> HIDE DEF e
  <2> QED
    BY <1>1, <2>1 DEF AppendedByAnother
<1> QED
  BY <1>3, <1>4, <1>5, <1>6

Inv == Typed /\ \A x \in Executions : Progress(x)

LEMMA ProgressStep == Inv /\ [Next]_vars => \A x \in Executions : Progress(x)'
<1> SUFFICES ASSUME Inv, [Next]_vars PROVE \A x \in Executions : Progress(x)'
  OBVIOUS
<1> USE DEF Inv
<1>1. ASSUME NEW x \in Executions, Execute(x) PROVE \A y \in Executions : Progress(y)'
  <2>1. \A y \in Executions \ {x} : Bystands(y) /\ UNCHANGED log
    BY <1>1 DEF Execute, Typed, TypeOK, Bystands
  <2>2. \A y \in Executions \ {x} : Progress(y)'
    BY <2>1, BystanderProgress
  <2>3. Blank(x) /\ outcome[x] = "none"
    BY <1>1 DEF Execute, Progress, Fresh
  <2>4. Given(x)'
    BY <1>1, GivenStays DEF Execute, Progress
  <2>5. Progress(x)'
    BY <1>1, <2>3, <2>4 DEF Execute, Progress, Blank, Once, Typed, TypeOK
  <2> QED
    BY <2>2, <2>5
<1>2. ASSUME NEW x \in Executions, Loaded(x) PROVE \A y \in Executions : Progress(y)'
  <2>1. PICK events \in Readable :
          /\ entity' = [entity EXCEPT ![x] = Replay(events)]
          /\ seen' = [seen EXCEPT ![x] = Len(events)]
          /\ Dispatch(x, State(events))
    BY <1>2 DEF Loaded
  <2>2. /\ \A y \in Executions \ {x} : pc'[y] = pc[y] /\ outcome'[y] = outcome[y]
        /\ pc'[x] \in {"publishing", "reloading"} => outcome'[x] = outcome[x]
        /\ pc'[x] \in {"publishing", "reloading", "done"}
    BY <2>1, FinishTyped DEF Dispatch, Typed, TypeOK, Errors
  <2>3. \A y \in Executions \ {x} : Bystands(y) /\ UNCHANGED log
    BY <1>2, <2>1, <2>2 DEF Loaded, Bystands, Typed, TypeOK
  <2>4. \A y \in Executions \ {x} : Progress(y)'
    BY <2>3, BystanderProgress
  <2>5. Progress(x)'
    <3>1. UNCHANGED <<log, late, triggered>> /\ outcome[x] = "none" /\ Blank(x)
      BY <1>2 DEF Loaded, Progress, Fresh
    <3>2. Blank(x)' /\ ~triggered[x]
      BY <3>1 DEF Blank, Progress
    <3>3. Given(x)'
      <4>1. /\ seen'[x] \in 0..Len(log)
            /\ entity'[x].revision \in 0..seen'[x]
            /\ entity'[x].state = State(SubSeq(log, 1, seen'[x]))
        BY <2>1, LoadsTyped DEF Typed, TypeOK
      <4> QED
        BY <3>1, <4>1 DEF Given
    <3>4. Once(x)'
      BY <3>2 DEF Blank, Once
    <3> QED
      BY <2>2, <3>1, <3>2, <3>3, <3>4 DEF Progress
  <2> QED
    BY <2>4, <2>5
<1>3. ASSUME NEW x \in Executions, Published(x) PROVE \A y \in Executions : Progress(y)'
  <2>1. /\ log' = Append(log, Record(x)) /\ pc[x] = "publishing" /\ Accepts(x)
        /\ UNCHANGED <<entity, command>>
    BY <1>3 DEF Published
  <2>2. \A y \in Executions \ {x} : Bystands(y)
    BY <1>3 DEF Published, Bystands, Typed, TypeOK
  <2>3. \A y \in Executions \ {x} : Progress(y)'
    BY <2>1, <2>2, OwnAppend, BystanderProgress
  <2>4. /\ pc'[x] = "reloading" /\ outcome'[x] = "none" /\ triggered'[x]
    BY <1>3 DEF Published, Progress, Typed, TypeOK
  <2>5. Progress(x)'
    BY <2>1, <2>4, OwnAppend DEF Progress, Fresh
  <2> QED
    BY <2>3, <2>5
<1>4. ASSUME NEW x \in Executions, Conflicted(x) PROVE \A y \in Executions : Progress(y)'
  <2>1. /\ pc'[x] = "done" /\ outcome'[x] = "conflict" /\ pc[x] = "publishing"
        /\ \A y \in Executions \ {x} : pc'[y] = pc[y] /\ outcome'[y] = outcome[y]
        /\ UNCHANGED <<log, entity, seen, command, late, retried, triggered>>
    BY <1>4, FinishTyped DEF Conflicted, Typed, Errors
  <2>2. \A y \in Executions \ {x} : Progress(y)'
    BY <2>1, BystanderProgress DEF Bystands
  <2>3. Progress(x)'
    BY <2>1, GivenStays DEF Progress, Fresh, Blank, Once, Guarded
  <2> QED
    BY <2>2, <2>3
<1>5. ASSUME NEW x \in Executions, PublishFails(x) PROVE \A y \in Executions : Progress(y)'
  <2>1. /\ pc[x] = "publishing" /\ outcome[x] = "none"
        /\ UNCHANGED <<entity, seen, command, triggered>>
    BY <1>5 DEF PublishFails, Progress
  <2>2. /\ \/ pc'[x] = "publishing" /\ outcome'[x] = "none" /\ x \in retried'
           \/ pc'[x] = "done" /\ outcome'[x] = "failed"
        /\ \A y \in Executions \ {x} : /\ pc'[y] = pc[y] /\ outcome'[y] = outcome[y]
                                       /\ y \in retried' <=> y \in retried
    BY <1>5, <2>1, FinishTyped DEF PublishFails, RetryOrFail, Typed, TypeOK, Errors
  <2>3. ~Fresh(x)'
    BY <2>2 DEF Fresh
  <2>4. \A y \in Executions \ {x} : Bystands(y)
    BY <1>5, <2>1, <2>2 DEF PublishFails, Bystands, Typed, TypeOK
  <2>5. CASE UNCHANGED log
    <3>1. \A y \in Executions \ {x} : Progress(y)'
      BY <2>4, <2>5, BystanderProgress
    <3>2. Progress(x)'
      BY <2>1, <2>2, <2>3, <2>5, GivenStays DEF Progress, Once, Guarded
    <3> QED
      BY <3>1, <3>2
  <2>6. CASE log' = Append(log, Record(x)) /\ Accepts(x)
    <3>1. \A y \in Executions \ {x} : Progress(y)'
      BY <2>1, <2>4, <2>6, OwnAppend, BystanderProgress
    <3>2. Progress(x)'
      BY <2>1, <2>2, <2>3, <2>6, OwnAppend DEF Progress
    <3> QED
      BY <3>1, <3>2
  <2> QED
    BY <1>5, <2>5, <2>6 DEF PublishFails
<1>6. ASSUME NEW x \in Executions, Arrives(x) PROVE \A y \in Executions : Progress(y)'
  <2>1. /\ log' = Append(log, Record(x)) /\ pc[x] # "idle" /\ Accepts(x) /\ ~Blank(x)
        /\ UNCHANGED <<pc, entity, command, seen, outcome, retried, triggered>>
    BY <1>6 DEF Arrives, Blank, Typed
  <2>2. \A y \in Executions \ {x} : Bystands(y)
    BY <1>6 DEF Arrives, Bystands, Typed, TypeOK
  <2>3. \A y \in Executions \ {x} : Progress(y)'
    BY <2>1, <2>2, OwnAppend, BystanderProgress
  <2>4. ~Fresh(x)'
    BY <2>1 DEF Progress, Fresh
  <2>5. Given(x)' /\ Once(x)' /\ \A i \in DOMAIN log : i \in DOMAIN log' /\ log'[i] = log[i]
    BY <2>1, OwnAppend
  <2>6. Progress(x)'
    BY <2>1, <2>4, <2>5 DEF Progress
  <2> QED
    BY <2>3, <2>6
<1>7. ASSUME NEW x \in Executions, Reloaded(x) PROVE \A y \in Executions : Progress(y)'
  <2>1. PICK events \in Readable :
          /\ seen' = [seen EXCEPT ![x] = Len(events)]
          /\ Finish(x, IF State(events) = Absent THEN "unavailable" ELSE "ok")
    BY <1>7 DEF Reloaded
  <2>2. /\ pc'[x] = "done" /\ outcome'[x] \in {"ok", "unavailable"}
        /\ \A y \in Executions \ {x} : pc'[y] = pc[y] /\ outcome'[y] = outcome[y]
        /\ UNCHANGED <<log, entity, command, late, retried, triggered>>
    BY <1>7, <2>1, FinishTyped DEF Reloaded, Typed, Errors
  <2>3. \A y \in Executions \ {x} : Progress(y)'
    BY <2>1, <2>2, LoadsTyped, BystanderProgress DEF Bystands
  <2>4. ~Stale => seen'[x] = Len(log)
    <3>1. Len(log) \in Nat
      BY AppendKeepsHistory DEF Typed
    <3>2. ~Stale => events = SubSeq(log, 1, Len(log))
      BY DEF Readable
    <3>3. Len(SubSeq(log, 1, Len(log))) = Len(log)
      BY <3>1, PrefixIsHistory DEF Typed
    <3>4. seen'[x] = Len(events)
      BY <2>1, LoadsTyped
    <3> QED
      BY <3>2, <3>3, <3>4
  <2>5. DOMAIN log = 1..Len(log) /\ Len(log) \in Nat
    BY AppendKeepsHistory DEF Typed
  <2>6. Blank(x) \/ \E i \in DOMAIN log : log[i].by = x
    BY <1>7 DEF Reloaded, Progress, Fresh
  <2>7. ~Stale => Blank(x) \/ \E i \in DOMAIN log : log[i].by = x /\ i <= seen'[x]
    BY <2>4, <2>5, <2>6
  <2>8. Given(x)' /\ Once(x)' /\ ~Fresh(x)' /\ (Blank(x)' <=> Blank(x))
    BY <2>2, GivenStays DEF Progress, Once, Guarded, Fresh, Blank
  <2>9. Progress(x)'
    BY <2>2, <2>7, <2>8 DEF Progress
  <2> QED
    BY <2>3, <2>9
<1>8. ASSUME NEW x \in Executions, LoadFails(x) PROVE \A y \in Executions : Progress(y)'
  <2>1. /\ pc'[x] = "done" /\ outcome'[x] = "failed"
        /\ \A y \in Executions \ {x} : pc'[y] = pc[y] /\ outcome'[y] = outcome[y]
        /\ UNCHANGED <<log, entity, seen, command, late, retried, triggered>>
    BY <1>8, FinishTyped DEF LoadFails, Typed, Errors
  <2>2. \A y \in Executions \ {x} : Progress(y)'
    BY <2>1, BystanderProgress DEF Bystands
  <2>3. Progress(x)'
    BY <2>1, GivenStays DEF Progress, Fresh, Once, Guarded
  <2> QED
    BY <2>2, <2>3
<1>9. ASSUME PublishElsewhere PROVE \A y \in Executions : Progress(y)'
  <2>1. PICK e \in Foreign :
          log' = Append(log, [by |-> Others, command |-> Nothing, event |-> e])
    BY <1>9 DEF PublishElsewhere
  <2>2. \A y \in Executions : AppendedByAnother(y)
    BY <2>1, OthersAssumption DEF AppendedByAnother
  <2>3. \A y \in Executions : Bystands(y)
    BY <1>9 DEF PublishElsewhere, Bystands
  <2> QED
    BY <2>2, <2>3, BystanderProgress
<1>10. CASE UNCHANGED vars
  BY <1>10, BystanderProgress DEF vars, Bystands
<1> QED
  BY <1>1, <1>2, <1>3, <1>4, <1>5, <1>6, <1>7, <1>8, <1>9, <1>10 DEF Next

LEMMA ProgressInit == Init => \A x \in Executions : Progress(x)
<1> SUFFICES ASSUME Init, NEW x \in Executions PROVE Progress(x)
  OBVIOUS
<1>1. DOMAIN log = {} /\ Len(log) = 0 /\ IsLog(log)
  BY TypedInit DEF Init, Typed
<1>2. State(SubSeq(log, 1, 0)) = Start
  BY <1>1, StatesOfPrefixes
<1>3. Given(x)
  BY <1>1, <1>2 DEF Init, Given, Initial
<1> QED
  BY <1>1, <1>3 DEF Init, Progress, Blank, Once

LEMMA Invariance == Spec => []Inv
<1>1. Init => Inv
  BY TypedInit, ProgressInit DEF Inv
<1>2. Inv /\ [Next]_vars => Inv'
  BY TypedStep, ProgressStep DEF Inv
<1> QED
  BY <1>1, <1>2, PTL DEF Spec

\* However often the store's policy repeats a publish, and whenever the requests it
\* gave up are carried out, a guarded command records one event at most; and what a
\* caller was told about its command is so.
THEOREM AnswersTellWhatWasRecorded == Spec => []RecordsAsAnswered
<1>1. Inv => RecordsAsAnswered
  <2> SUFFICES ASSUME Inv, NEW x \in Executions
               PROVE  /\ pc[x] # "idle" /\ Guarded(x) => Cardinality(RecordedBy(x)) <= 1
                      /\ triggered[x] => RecordedBy(x) # {}
                      /\ outcome[x] \in {"invalid", "rejected"}
                           \/ (outcome[x] = "conflict" /\ x \notin retried)
                           => RecordedBy(x) = {}
    BY DEF RecordsAsAnswered
  <2>1. Progress(x)
    BY DEF Inv
  <2>2. ASSUME Guarded(x) PROVE Cardinality(RecordedBy(x)) <= 1
    <3>1. CASE RecordedBy(x) = {}
      BY <3>1, FS_EmptySet
    <3>2. CASE RecordedBy(x) # {}
      <4>1. PICK i : i \in RecordedBy(x)
        BY <3>2
      <4>2. RecordedBy(x) = {i}
        BY <2>1, <2>2, <4>1 DEF RecordedBy, Progress, Once
      <4>3. Cardinality({i}) = 1
        BY FS_Singleton
      <4> QED
        BY <4>2, <4>3
    <3> QED
      BY <3>1, <3>2
  <2> QED
    BY <2>1, <2>2 DEF RecordedBy, Progress, Fresh, Blank
<1> QED
  BY <1>1, Invariance, PTL

\* Over a store whose loads are current, a successful execution returns an
\* entity with its own event in it.
THEOREM AnswersShowTheirWrite ==
  ASSUME ~Stale
  PROVE  Spec => []ReadsItsWrite
<1>1. Inv => ReadsItsWrite
  BY DEF Inv, Progress, Blank, ReadsItsWrite, RecordedBy
<1> QED
  BY <1>1, Invariance, PTL

-----------------------------------------------------------------------------
(***************************************************************************)
(* What the events in the log were decided on. The heart of it is in       *)
(* OwnJustified: when the aggregate is at the entity's revision, the       *)
(* entity was loaded from the whole log, since no replay reports a         *)
(* revision beyond its history.                                            *)
(***************************************************************************)

\* The store is in the process and written by this service alone, whose executions
\* never overlap, and every load returns all there is.
Alone == MaxInFlight <= 1 /\ ~Stale /\ ~Remote /\ MaxForeign = 0

\* A valid command that the handler turns into an event, given the state.
Publishes(state, c) ==
  /\ state # Absent /\ c \in Commands /\ Valid(c)
  /\ Decide(state, c) \notin {Rejected, Nothing}

\* Event i is the decision of its handler on the first k events.
DecidedOn(k, i) ==
  LET state == State(SubSeq(log, 1, k))
  IN  Publishes(state, log[i].command) /\ log[i].event = Decide(state, log[i].command)

\* Every event is one of another program, or a decision on the history before it:
\* on some of it, or on all of it when the command is guarded or runs alone.
Justified ==
  \A i \in DOMAIN log :
    \/ log[i].by = Others /\ MaxForeign # 0 /\ log[i].event \in Foreign
    \/ /\ log[i].by \in Executions
       /\ \E k \in 0..(i - 1) :
            /\ DecidedOn(k, i)
            /\ Alone \/ (Guarding /\ Guards(log[i].command)) => k = i - 1

\* An execution about to publish, or with a request to publish under way, has a
\* decision on what its handler was given, which is the whole log when it runs alone.
Ready(x) ==
  /\ pc[x] = "publishing" \/ late[x] > 0 => Publishes(entity[x].state, command[x])
  /\ Alone => late[x] = 0
  /\ Alone /\ pc[x] = "publishing" => entity[x].state = State(SubSeq(log, 1, Len(log)))

OneInFlight == MaxInFlight <= 1 => \A x, y \in InFlight : x = y

AppendedBy(by, c, e) == log' = Append(log, [by |-> by, command |-> c, event |-> e])

\* What justifies event e as the next one in the log.
Warranted(by, c, e) ==
  \/ by = Others /\ MaxForeign # 0 /\ e \in Foreign
  \/ /\ by \in Executions /\ c \in Commands
     /\ \E k \in 0..Len(log) :
          LET state == State(SubSeq(log, 1, k))
          IN  /\ Publishes(state, c) /\ e = Decide(state, c)
              /\ Alone \/ (Guarding /\ Guards(c)) => k = Len(log)

LEMMA AppendJustified ==
  ASSUME Inv, Justified, NEW by \in Executions \cup {Others}, NEW c, NEW e,
         AppendedBy(by, c, e), Warranted(by, c, e)
  PROVE  Justified'
<1>1. /\ Len(log) \in Nat /\ Len(log') = Len(log) + 1
      /\ DOMAIN log = 1..Len(log) /\ DOMAIN log' = 1..Len(log')
      /\ log'[Len(log')] = [by |-> by, command |-> c, event |-> e]
      /\ \A i \in DOMAIN log : log'[i] = log[i]
      /\ \A k \in 0..Len(log) : SubSeq(log', 1, k) = SubSeq(log, 1, k)
  <2>1. by \in Executions => c \in Commands
    BY OthersAssumption DEF Warranted
  <2>2. log' = Append(log, [by |-> by, command |-> c, event |-> e])
    BY DEF AppendedBy
  <2> QED
    BY <2>1, <2>2, AppendTyped DEF Inv
<1> SUFFICES ASSUME NEW i \in DOMAIN log'
             PROVE  \/ log'[i].by = Others /\ MaxForeign # 0 /\ log'[i].event \in Foreign
                    \/ /\ log'[i].by \in Executions
                       /\ \E k \in 0..(i - 1) :
                            /\ DecidedOn(k, i)'
                            /\ Alone \/ (Guarding /\ Guards(log'[i].command)) => k = i - 1
  BY DEF Justified
<1>2. CASE i \in DOMAIN log
  <2>1. log'[i] = log[i] /\ \A k \in 0..(i - 1) : k \in 0..Len(log)
    BY <1>1, <1>2
  <2>2. \A k \in 0..(i - 1) : SubSeq(log', 1, k) = SubSeq(log, 1, k)
    BY <1>1, <2>1
  <2>3. \A k \in 0..(i - 1) : DecidedOn(k, i)' <=> DecidedOn(k, i)
    BY <2>1, <2>2 DEF DecidedOn
  <2> QED
    BY <1>2, <2>1, <2>3 DEF Justified
<1>3. CASE i = Len(log')
  <2>1. /\ i - 1 = Len(log)
        /\ log'[i].by = by /\ log'[i].command = c /\ log'[i].event = e
    BY <1>1, <1>3
  <2>2. CASE by = Others
    BY <2>1, <2>2, OthersAssumption DEF Warranted
  <2>3. CASE by \in Executions
    <3>1. PICK k \in 0..Len(log) :
            LET state == State(SubSeq(log, 1, k))
            IN  /\ Publishes(state, c) /\ e = Decide(state, c)
                /\ Alone \/ (Guarding /\ Guards(c)) => k = Len(log)
      BY <2>3, OthersAssumption DEF Warranted
    <3>2. SubSeq(log', 1, k) = SubSeq(log, 1, k)
      BY <1>1
    <3>3. DecidedOn(k, i)'
      BY <2>1, <3>1, <3>2 DEF DecidedOn
    <3> QED
      BY <2>1, <2>3, <3>1, <3>3
  <2> QED
    BY <2>2, <2>3
<1> QED
  BY <1>1, <1>2, <1>3

\* The event of an execution is a decision on what its handler was given.
LEMMA OwnJustified ==
  ASSUME Inv, Justified, NEW x \in Executions, Ready(x),
         pc[x] = "publishing" \/ late[x] > 0, Accepts(x), log' = Append(log, Record(x))
  PROVE  Justified'
<1> DEFINE e == Decide(entity[x].state, command[x])
<1>1. Len(log) \in Nat /\ late[x] \in Nat
  BY AppendKeepsHistory, BoundAssumption DEF Inv, Typed, TypeOK
<1>2. Publishes(entity[x].state, command[x]) /\ e = Decide(entity[x].state, command[x])
  BY DEF Ready
<1>3. \E k \in 0..Len(log) :
        /\ entity[x].state = State(SubSeq(log, 1, k))
        /\ Alone \/ (Guarding /\ Guards(command[x])) => k = Len(log)
  <2>1. CASE Alone
    <3>1. Len(log) \in 0..Len(log) /\ entity[x].state = State(SubSeq(log, 1, Len(log)))
      BY <1>1, <2>1 DEF Ready
    <3> QED
      BY <3>1
  <2>2. CASE ~Alone
    <3>1. PICK k \in 0..Len(log) : /\ entity[x].revision \in 0..k
                                   /\ entity[x].state = State(SubSeq(log, 1, k))
      BY DEF Inv, Progress, Given
    <3>2. Guarding /\ Guards(command[x]) => k = Len(log)
      BY <1>1, <3>1 DEF Accepts, Guarded
    <3> QED
      BY <2>2, <3>1, <3>2
  <2> QED
    BY <2>1, <2>2
<1>4. AppendedBy(x, command[x], e) /\ command[x] \in Commands
  BY <1>2 DEF Record, AppendedBy, Publishes
<1> QED
  <2> HIDE DEF e
  <2>1. Warranted(x, command[x], e)
    BY <1>2, <1>3, <1>4 DEF Warranted
  <2> QED  BY <1>4, <2>1, AppendJustified

LEMMA JustifiedStep ==
  ASSUME Inv, Justified, \A x \in Executions : Ready(x), [Next]_vars
  PROVE  Justified'
<1>1. CASE UNCHANGED log
  BY <1>1 DEF Justified, DecidedOn
<1>2. ASSUME NEW x \in Executions, Published(x) PROVE Justified'
  BY <1>2, OwnJustified DEF Published
<1>3. ASSUME NEW x \in Executions, PublishFails(x) PROVE Justified'
  BY <1>1, <1>3, OwnJustified DEF PublishFails
<1>5. ASSUME NEW x \in Executions, Arrives(x) PROVE Justified'
  BY <1>5, OwnJustified DEF Arrives
<1>4. ASSUME PublishElsewhere PROVE Justified'
  <2>1. PICK e \in Foreign : AppendedBy(Others, Nothing, e)
    BY <1>4 DEF PublishElsewhere, AppendedBy
  <2>2. Warranted(Others, Nothing, e)
    BY <1>4 DEF PublishElsewhere, Inv, Typed, TypeOK, Warranted
  <2> QED
    BY <2>1, <2>2, AppendJustified
<1> QED
  BY <1>1, <1>2, <1>3, <1>4, <1>5
  DEF Next, vars, Execute, Loaded, Conflicted, Reloaded, LoadFails

-----------------------------------------------------------------------------
LEMMA OneInFlightStep ==
  ASSUME Typed, OneInFlight, [Next]_vars
  PROVE  OneInFlight'
<1> SUFFICES ASSUME MaxInFlight <= 1 PROVE \A x, y \in InFlight' : x = y
  BY DEF OneInFlight
<1>1. \A x, y \in InFlight : x = y
  BY DEF OneInFlight
<1>2. CASE \A x \in Executions : pc'[x] \notin {"idle", "done"} => pc[x] \notin {"idle", "done"}
  BY <1>1, <1>2 DEF InFlight
<1>3. ASSUME NEW x \in Executions, Execute(x) PROVE \A y, z \in InFlight' : y = z
  <2>1. InFlight = {}
    <3>1. SUFFICES ASSUME NEW y \in InFlight PROVE FALSE
      OBVIOUS
    <3>2. InFlight = {y}
      BY <1>1, <3>1
    <3>3. Cardinality(InFlight) = 1
      BY <3>2, FS_Singleton
    <3> QED
      BY <1>3, <3>3, BoundAssumption DEF Execute
  <2>2. InFlight' \subseteq {x}
    BY <1>3, <2>1 DEF Execute, InFlight, Typed, TypeOK
  <2> QED
    BY <2>2
<1>4. ASSUME NEW x \in Executions,
             \/ Loaded(x) \/ Published(x) \/ Conflicted(x) \/ PublishFails(x)
             \/ Reloaded(x) \/ LoadFails(x)
      PROVE  \A y, z \in InFlight' : y = z
  <2>1. pc[x] \notin {"idle", "done"}
    BY <1>4 DEF Loaded, Published, Conflicted, PublishFails, Reloaded, LoadFails
  <2>2. \A y \in Executions \ {x} : pc'[y] = pc[y]
    BY <1>4 DEF Loaded, Dispatch, Published, Conflicted, PublishFails, Reloaded, LoadFails,
      RetryOrFail, Finish, Typed, TypeOK
  <2> QED
    BY <1>2, <2>1, <2>2
<1>5. CASE PublishElsewhere \/ (\E x \in Executions : Arrives(x)) \/ UNCHANGED vars
  BY <1>2, <1>5 DEF PublishElsewhere, Arrives, vars
<1> QED
  BY <1>3, <1>4, <1>5 DEF Next

\* A step of another execution leaves an execution ready: when it runs alone there
\* is no such step.
LEMMA BystanderReady ==
  ASSUME NEW x \in Executions, Ready(x), Bystands(x),
         pc[x] = "publishing" /\ Alone => UNCHANGED log
  PROVE  Ready(x)'
BY DEF Ready, Publishes, Alone, Bystands

LEMMA ReadyStep ==
  ASSUME Inv, OneInFlight, \A x \in Executions : Ready(x), [Next]_vars
  PROVE  \A x \in Executions : Ready(x)'
<1> USE DEF Inv, Typed
<1>0. \A x, y \in Executions :
        Alone /\ pc[x] = "publishing" /\ pc[y] \notin {"idle", "done"} => x = y
  BY DEF OneInFlight, InFlight, Alone
<1>00. \A x \in Executions : late[x] \in Nat /\ (pc[x] \in {"idle", "loading"} => late[x] = 0)
  BY BoundAssumption DEF TypeOK, Progress, Fresh, Blank
<1>1. ASSUME NEW x \in Executions, Execute(x) PROVE \A y \in Executions : Ready(y)'
  <2>1. \A y \in Executions \ {x} : Bystands(y) /\ UNCHANGED log
    BY <1>1 DEF Execute, TypeOK, Bystands
  <2>2. pc'[x] = "loading" /\ late'[x] = 0
    BY <1>1, <1>00 DEF Execute, TypeOK
  <2>3. \A y \in Executions \ {x} : Ready(y)'
    BY <2>1, BystanderReady
  <2> QED
    BY <2>2, <2>3 DEF Ready
<1>2. ASSUME NEW x \in Executions, Loaded(x) PROVE \A y \in Executions : Ready(y)'
  <2>1. PICK events \in Readable :
          /\ entity' = [entity EXCEPT ![x] = Replay(events)]
          /\ seen' = [seen EXCEPT ![x] = Len(events)]
          /\ Dispatch(x, State(events))
    BY <1>2 DEF Loaded
  <2>2. entity'[x].state = State(events)
    BY <2>1, LoadsTyped DEF TypeOK
  <2>3. \A y \in Executions \ {x} : Bystands(y) /\ UNCHANGED log
    BY <1>2, <2>1 DEF Loaded, Dispatch, Finish, Bystands, TypeOK
  <2>4. pc'[x] = "publishing" => Publishes(State(events), command[x])
    <3>1. command[x] \in Commands
      BY <1>2 DEF Loaded, TypeOK
    <3> QED
      BY <2>1, <3>1 DEF Dispatch, Finish, TypeOK, Publishes
  <2>5. Alone => events = SubSeq(log, 1, Len(log))
    BY DEF Alone, Readable
  <2>6. UNCHANGED <<log, command, late>> /\ late[x] = 0
    BY <1>00, <1>2 DEF Loaded
  <2>7. \A y \in Executions \ {x} : Ready(y)'
    BY <2>3, BystanderReady
  <2>8. Ready(x)'
    <3>1. late'[x] = 0 /\ ~(late'[x] > 0)
      BY <2>6
    <3>2. pc'[x] = "publishing" => Publishes(entity'[x].state, command'[x])
      BY <2>2, <2>4, <2>6
    <3>3. Alone => entity'[x].state = State(SubSeq(log', 1, Len(log')))
      BY <2>2, <2>5, <2>6
    <3> QED
      BY <3>1, <3>2, <3>3 DEF Ready, Publishes, Alone
  <2> QED
    BY <2>7, <2>8
<1>3. ASSUME NEW x \in Executions, Published(x) \/ Conflicted(x)
      PROVE  \A y \in Executions : Ready(y)'
  <2>1. /\ pc[x] = "publishing" /\ pc'[x] # "publishing"
        /\ \A y \in Executions \ {x} : Bystands(y)
        /\ UNCHANGED <<entity, command, late>>
    BY <1>3 DEF Published, Conflicted, Finish, Bystands, TypeOK
  <2>2. \A y \in Executions \ {x} : Ready(y)'
    BY <1>0, <2>1, BystanderReady
  <2> QED
    BY <2>1, <2>2 DEF Ready, Publishes, Alone
<1>4. ASSUME NEW x \in Executions, PublishFails(x) PROVE \A y \in Executions : Ready(y)'
  <2>1. /\ ~Alone /\ pc[x] = "publishing" /\ UNCHANGED <<entity, command>>
        /\ \A y \in Executions \ {x} : Bystands(y)
    BY <1>4 DEF PublishFails, RetryOrFail, Finish, Bystands, Alone, TypeOK
  <2>2. \A y \in Executions \ {x} : Ready(y)'
    BY <2>1, BystanderReady
  <2> QED
    BY <2>1, <2>2 DEF Ready, Publishes, Alone
<1>5. ASSUME NEW x \in Executions, Arrives(x) PROVE \A y \in Executions : Ready(y)'
  <2>1. /\ late[x] > 0 /\ UNCHANGED <<entity, command>>
        /\ \A y \in Executions \ {x} : Bystands(y)
    BY <1>5 DEF Arrives, Bystands, TypeOK
  <2>2. ~Alone
    BY <1>00, <2>1 DEF Ready
  <2>3. \A y \in Executions \ {x} : Ready(y)'
    BY <2>1, <2>2, BystanderReady
  <2> QED
    BY <2>1, <2>2, <2>3 DEF Ready, Publishes, Alone
<1>6. ASSUME NEW x \in Executions, Reloaded(x) \/ LoadFails(x)
      PROVE  \A y \in Executions : Ready(y)'
  <2>1. /\ pc'[x] # "publishing" /\ UNCHANGED <<log, command, entity, late>>
        /\ \A y \in Executions \ {x} : Bystands(y)
    BY <1>6, LoadsTyped DEF Reloaded, LoadFails, Finish, Bystands, TypeOK
  <2>2. \A y \in Executions \ {x} : Ready(y)'
    BY <2>1, BystanderReady
  <2> QED
    BY <2>1, <2>2 DEF Ready, Publishes, Alone
<1>7. CASE PublishElsewhere
  <2>1. ~Alone /\ \A y \in Executions : Bystands(y)
    BY <1>7 DEF PublishElsewhere, Alone, Bystands, TypeOK
  <2> QED
    BY <2>1, BystanderReady
<1>8. CASE UNCHANGED vars
  BY <1>8, BystanderReady DEF vars, Bystands
<1> QED
  BY <1>1, <1>2, <1>3, <1>4, <1>5, <1>6, <1>7, <1>8 DEF Next

DecisionInv == Inv /\ Justified /\ OneInFlight /\ \A x \in Executions : Ready(x)

LEMMA DecisionInvariance == Spec => []DecisionInv
<1>1. Init => Justified /\ OneInFlight /\ \A x \in Executions : Ready(x)
  BY DEF Init, Justified, OneInFlight, InFlight, Ready
<1>2. DecisionInv /\ Inv' /\ [Next]_vars => DecisionInv'
  BY JustifiedStep, OneInFlightStep, ReadyStep DEF DecisionInv, Inv
<1> QED
  BY <1>1, <1>2, Invariance, PTL DEF Spec, DecisionInv

\* Over a store that heeds expectedRevision, the events of guarded commands are
\* those of a serial execution, whatever the domain, however many executions
\* interleave, and with loads as stale as the store may make them.
THEOREM GuardedCommandsSerialize ==
  ASSUME Guarding
  PROVE  Spec => []Serializable
<1>1. DecisionInv => Serializable
  BY OthersAssumption DEF DecisionInv, Justified, Serializable, DecidedOn
<1> QED
  BY <1>1, DecisionInvariance, PTL

\* An execution that has the store to itself needs no guard: every event in the
\* log is its handler's decision on the events before it.
AllSerialize == \A i \in DOMAIN log : log[i].by \in Executions /\ DecidedOn(i - 1, i)

THEOREM CommandsAloneSerialize ==
  ASSUME Alone
  PROVE  Spec => []AllSerialize
<1>1. DecisionInv => AllSerialize
  BY DEF DecisionInv, Justified, AllSerialize, Alone
<1> QED
  BY <1>1, DecisionInvariance, PTL

-----------------------------------------------------------------------------
(***************************************************************************)
(* The account of the effects sample.                                      *)
(***************************************************************************)

\* What the builders make of the sample's handlers and reducers.
LEMMA AccountHandlers ==
  /\ DOMAIN AccountDispatcher = {"add", "deduct"}
  /\ AccountDispatcher["add"] = [schema |-> Amount, decide |-> addHandler]
  /\ AccountDispatcher["deduct"] = [schema |-> Amount, decide |-> deductHandler]
<1>1. Register(create, "add", [schema |-> Amount, decide |-> addHandler])
        = [n \in {"add"} |-> [schema |-> Amount, decide |-> addHandler]]
  BY DEF Register, create, Nobody
<1> QED
  BY <1>1 DEF AccountDispatcher, handler, Register

LEMMA AccountReducers ==
  /\ AccountLoader.reducers["added"] = [total \in Int |-> [amount \in Int |-> total + amount]]
  /\ AccountLoader.reducers["deducted"] = [total \in Int |-> [amount \in Int |-> total - amount]]
BY DEF AccountLoader, withReducers, reducer, fromInitFunction, Register, Nobody

LEMMA AccountDecisions ==
  ASSUME NEW total \in Nat, NEW c, AccountValid(c), AccountDecide(total, c) # Rejected
  PROVE  /\ AccountDecide(total, c) \in AccountEvents
         /\ AccountDecide(total, c).type = "deducted" =>
              AccountGuards(c) /\ AccountDecide(total, c).amount <= total
<1>1. total \in Int
  OBVIOUS
<1>2. \/ c.path = "add" /\ c.amount \in Amount /\ AccountDecide(total, c) = addHandler[total][c.amount]
      \/ c.path = "deduct" /\ c.amount \in Amount /\ AccountDecide(total, c) = deductHandler[total][c.amount]
  BY AccountHandlers DEF AccountValid, accepts, AccountDecide, dispatch
<1>3. CASE c.path = "add"
  <2>1. AccountDecide(total, c) = [type |-> "added", amount |-> c.amount] /\ c.amount \in Amount
    BY <1>1, <1>2, <1>3 DEF addHandler
  <2> QED
    BY <2>1 DEF AccountEvents
<1>4. CASE c.path = "deduct"
  <2>1. c.amount \in Amount /\ c.amount \in Int
    BY <1>2, <1>4, AmountsAssumption DEF Amount
  <2>2. AccountDecide(total, c) = IF total - c.amount < 0 THEN Rejected
                                  ELSE [type |-> "deducted", amount |-> c.amount]
    BY <1>1, <1>2, <1>4, <2>1 DEF deductHandler
  <2>3. AccountDecide(total, c) = [type |-> "deducted", amount |-> c.amount] /\ ~(total - c.amount < 0)
    BY <2>2
  <2> QED
    BY <1>4, <2>1, <2>3 DEF AccountEvents, AccountGuards
<1> QED
  BY <1>2, <1>3, <1>4

LEMMA AccountAfter ==
  ASSUME AccountDomain(Nat), NEW total \in Nat, NEW e \in AccountEvents,
         e.type = "deducted" => e.amount <= total
  PROVE  After(total, e) \in Nat
<1>1. e.type \in {"added", "deducted"} /\ e.amount \in Amount
  BY DEF AccountEvents
<1>2. e.amount \in Int /\ e.amount >= 1 /\ total \in Int
  <2>1. \A a \in Amount : a \in Int /\ a >= 1
    BY AmountsAssumption DEF Amount
  <2> QED
    BY <1>1, <2>1
<1>3. After(total, e) = AccountLoader.reducers[e.type][total][e.amount]
  BY DEF AccountDomain, After, Changed
<1>4. CASE e.type = "added"
  <2>1. After(total, e) = total + e.amount
    BY <1>2, <1>3, <1>4, AccountReducers
  <2> QED
    BY <1>2, <2>1
<1>5. CASE e.type = "deducted"
  <2>1. After(total, e) = total - e.amount
    BY <1>2, <1>3, <1>5, AccountReducers
  <2> QED
    BY <1>2, <1>5, <2>1
<1> QED
  BY <1>1, <1>4, <1>5

Balance(n) == State(SubSeq(log, 1, n))

\* However executions interleave, and with loads as stale as the store may make
\* them, no history of an account has a negative total: it suffices that deductions
\* are guarded, since additions only add.
THEOREM BalancesStayPositive ==
  ASSUME AccountDomain(Nat), Guarding
  PROVE  Spec => []BalanceNeverNegative
<1>1. ASSUME DecisionInv PROVE BalanceNeverNegative
  <2> DEFINE Total == Nat \cup {Absent}
             T == {m \in 0..Len(log) : \A k \in 0..m : Balance(k) \in Total}
  <2>1. IsLog(log) /\ Len(log) \in Nat /\ DOMAIN log = 1..Len(log)
    BY <1>1, AppendKeepsHistory DEF DecisionInv, Inv, Typed
  <2>2. /\ Balance(0) = Start
        /\ \A n \in 0..(Len(log) - 1) : Balance(n + 1) = After(Balance(n), log[n + 1].event)
    BY <2>1, StatesOfPrefixes DEF Balance
  <2>3. 0 \in T
    BY <2>1, <2>2 DEF AccountDomain
  <2>4. ASSUME NEW n \in 0..(Len(log) - 1), n \in T PROVE n + 1 \in T
    <3> DEFINE e == log[n + 1].event
               c == log[n + 1].command
    <3>1. n + 1 \in DOMAIN log /\ (n + 1) - 1 = n /\ n \in 0..n
      BY <2>1
    <3>2. Balance(n) \in Total /\ \A k \in 0..n : Balance(k) \in Total
      BY <2>4, <3>1
    <3>3. Balance(n + 1) = After(Balance(n), e)
      BY <2>2
    <3>4. CASE e \in Foreign
      BY <3>2, <3>3, <3>4 DEF AccountDomain, After
    <3>5. ASSUME NEW k \in 0..n, DecidedOn(k, n + 1), Guards(c) => k = n
          PROVE  Balance(n + 1) \in Total
      <4>1. /\ Publishes(Balance(k), c) /\ e = Decide(Balance(k), c)
        BY <3>5 DEF DecidedOn, Balance
      <4>2. Balance(k) \in Nat
        BY <3>2, <4>1 DEF Publishes
      <4>3. AccountValid(c) /\ (Guards(c) <=> AccountGuards(c)) /\ e = AccountDecide(Balance(k), c)
        BY <4>1, <4>2 DEF Publishes, AccountDomain
      <4>4. e # Rejected
        BY <4>1 DEF Publishes
      <4>5. e \in AccountEvents /\ (e.type = "deducted" => AccountGuards(c) /\ e.amount <= Balance(k))
        BY <4>2, <4>3, <4>4, AccountDecisions
      <4>6. e.type = "deducted" => e.amount <= Balance(n)
        BY <3>5, <4>3, <4>5
      <4>7. CASE Balance(n) = Absent
        BY <3>3, <4>5, <4>7 DEF AccountDomain, After
      <4>8. CASE Balance(n) \in Nat
        BY <3>3, <4>5, <4>6, <4>8, AccountAfter
      <4> QED
        BY <3>2, <4>7, <4>8
    <3>6. Balance(n + 1) \in Total
      BY <1>1, <3>1, <3>4, <3>5 DEF DecisionInv, Justified
    <3> QED
      BY <2>1, <3>2, <3>6
  <2>5. \A n \in 0..Len(log) : n \in T
    <3> HIDE DEF T
    <3> QED  BY <2>1, <2>3, <2>4, Induction
  <2>6. ASSUME NEW n \in 0..Len(log) PROVE Balance(n) = Absent \/ Balance(n) >= 0
    <3>1. n \in 0..n /\ n \in T
      BY <2>1, <2>5
    <3> QED
      BY <3>1
  <2> QED
    BY <2>6 DEF BalanceNeverNegative, Balance
<1> QED
  BY <1>1, DecisionInvariance, PTL
=============================================================================
