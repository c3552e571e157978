------------------------- MODULE MCDynamoEventStore -------------------------
(***************************************************************************)
(* Instances of DynamoEventStore, and of the names of its partitions, small*)
(* enough for TLC.                                                         *)
(***************************************************************************)
EXTENDS AggregateId, TLC

CONSTANTS p1, p2, c1, c2, c3, l1, letter

\* One call in each of two processes.
ProcessEach == [c \in Calls |-> IF c = c1 THEN p1 ELSE p2]
\* A process of its own for every call.
OwnProcess  == [c \in Calls |-> c]

Ulid4 == 1..4

\* Strings of at most three symbols; a key may be empty, as nothing refuses it
\* before the decoder.
UpTo(n)   == UNION {[1..k -> Symbols] : k \in 0..n}
Strings3  == UpTo(3)

\* Calls that differ in nothing but their name and their process.
AllSymmetry == Permutations(Calls)
=============================================================================
