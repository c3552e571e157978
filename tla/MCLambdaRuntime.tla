--------------------------- MODULE MCLambdaRuntime ---------------------------
(***************************************************************************)
(* An instance of LambdaRuntime for TLC: one invocation whose handler may  *)
(* hang, one whose handler may throw, and two whose handler does neither.  *)
(***************************************************************************)
EXTENDS LambdaRuntime

CONSTANTS i1, i2, i3, i4
=============================================================================
