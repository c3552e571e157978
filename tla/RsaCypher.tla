------------------------------ MODULE RsaCypher ------------------------------
(***************************************************************************)
(* RSACypher of cypher/src/rsa/cypher.ts: payloads are encrypted with the  *)
(* public key of the pair that a key source has for their aggregate, and   *)
(* decrypted with the private one of the pair it has when they are read.   *)
(*                                                                         *)
(* Every call of a source is made by an encryption or a decryption. Either *)
(* awaits its key pair and settles in the same step. A buffer stands for   *)
(* the encryption that made it. That of a payload which the padding has no *)
(* room for fails once its key pair is there; like that of a buffer nobody *)
(* opens, it leaves nothing but the key pair.                              *)
(***************************************************************************)
EXTENDS KeySource

VARIABLE opens     \* opens[c]: the buffers c is given: one to decrypt, none to encrypt

cypherVars == <<vars, opens>>

CypherTypeOK ==
  /\ TypeOK
  /\ opens \in [Calls -> {{}} \cup {{b} : b \in Calls}]
  /\ \A c \in Calls : opens[c] # {} => pc[c] # "idle"

CypherInit ==
  /\ Init
  /\ opens = [c \in Calls |-> {}]

-----------------------------------------------------------------------------
\* The calls that encrypt, or are yet to be made.
Encryptions == {c \in Calls : opens[c] = {}}

\* The encryptions that have returned a buffer.
Buffers == {c \in Encryptions : pc[c] = "done"}

\* encrypt
Encrypt(c, s, a) ==
  /\ Call(c, s, a)
  /\ UNCHANGED opens

\* decrypt, of a buffer and for the aggregate the caller believes it to be of.
Decrypt(c, s, a) ==
  /\ Call(c, s, a)
  /\ \E b \in Buffers : opens' = [opens EXCEPT ![c] = {b}]

\* The source goes on.
Source ==
  /\ \/ \E c \in Calls : Read(c) \/ ReadFails(c) \/ Write(c) \/ Land(c)
     \/ \E s \in Sources : Restart(s)
  /\ UNCHANGED opens

CypherNext ==
  \/ \E c \in Calls, s \in Sources, a \in Aggregates : Encrypt(c, s, a) \/ Decrypt(c, s, a)
  \/ Source

CypherSpec == CypherInit /\ [][CypherNext]_cypherVars

\* The decryption c has turned buffer b into its payload.
Opens(c, b) == pc[c] = "done" /\ opens[c] = {b} /\ pair[c] = pair[b]

-----------------------------------------------------------------------------
(***************************************************************************)
(* Properties.                                                             *)
(***************************************************************************)
\* What was encrypted for an aggregate can be decrypted for it, through any
\* source and after restarts, as long as no calls for its type overlapped, no put
\* failed or was cut off by a restart, and no read was stale.
Decipherable ==
  \A c, b \in Calls :
    pc[c] = "done" /\ opens[c] = {b} /\ Key(c) = Key(b) /\ Key(b) \notin disturbed =>
      Opens(c, b)

\* What was encrypted for an aggregate of one type is not decrypted for one of
\* another, however calls overlap.
TypesKeepApart ==
  \A c, b \in Calls : Opens(c, b) => TypeOf[target[c]] = TypeOf[target[b]]
=============================================================================
