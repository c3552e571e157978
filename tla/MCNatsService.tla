---------------------------- MODULE MCNatsService ----------------------------
(***************************************************************************)
(* Instances of NatsService small enough for TLC: four commands, of which  *)
(* one may hang, one is malformed and one is not JSON, and a load.         *)
(***************************************************************************)
EXTENDS NatsService

CONSTANTS t1, t2, t3, t4, l1
=============================================================================
