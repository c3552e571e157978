---------------------------- MODULE AggregateId ----------------------------
(***************************************************************************)
(* The strings that name aggregates (core/src/types/core.ts):              *)
(* DynamoEventStore keeps the events of an aggregate in the partition of   *)
(* its encoded id and looks for them there, whose log is that of           *)
(* DynamoEventStore. A string is a sequence of symbols.                    *)
(***************************************************************************)
EXTENDS DynamoEventStore

CONSTANTS
  Symbols,
  Dot,      \* the separator, one of them
  Types,    \* the types there are, with or without dots
  Keys,     \* the keys there are
  Refused   \* an error of the decoder

ASSUME StringsAssumption == Dot \in Symbols /\ Types \cup Keys \subseteq Seq(Symbols)

AggregateIds == [type : Types, key : Keys]

DotFree(s) == \A i \in DOMAIN s : s[i] # Dot

\* Mutant of encode: type and key are joined with nothing in between.
encodeJoined(a) == a.type \o a.key

encode(a) == a.type \o <<Dot>> \o a.key

\* aggregate.split("."): the type is what comes before the first dot, and the key
\* the rest, which may have dots of its own. The schema takes the one type it was
\* made for, and a key of at least one symbol.
decoder(type, s) ==
  IF \E i \in DOMAIN s :
       s[i] = Dot /\ DotFree(SubSeq(s, 1, i - 1)) /\ SubSeq(s, 1, i - 1) = type /\ i < Len(s)
  THEN [type |-> type, key |-> SubSeq(s, Len(type) + 2, Len(s))]
  ELSE Refused

-----------------------------------------------------------------------------
\* Pairs of aggregates, their types free of dots, that share a partition.
Confused ==
  {p \in AggregateIds \X AggregateIds :
     /\ p[1] # p[2] /\ DotFree(p[1].type) /\ DotFree(p[2].type)
     /\ encode(p[1]) = encode(p[2])}

\* Aggregates that do not come back from the name of their partition; those whose
\* type has a dot are to be refused, never taken for another.
Misread ==
  {a \in AggregateIds :
     a.key # <<>> /\ decoder(a.type, encode(a)) # IF DotFree(a.type) THEN a ELSE Refused}

\* Of a store that holds anything: no two aggregates share a partition, and each is
\* known by its partition's name, keys with dots in them included, as long as types
\* have none. This is about the names alone, not about what is in the log.
IdsKeptApart == log # <<>> => Confused = {} /\ Misread = {}
=============================================================================
