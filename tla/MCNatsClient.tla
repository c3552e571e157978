---------------------------- MODULE MCNatsClient ----------------------------
(***************************************************************************)
(* Instances of NatsClient small enough for TLC: two commands of a client, *)
(* of which one may hang, a malformed one and one that is not JSON of      *)
(* other programs, and a load.                                             *)
(***************************************************************************)
EXTENDS NatsClient

CONSTANTS t1, t2, t3, l1
=============================================================================
