----------------------------- MODULE MCPiiLambda ----------------------------
(* Two objects, one of them malformed, in batches of one or two records that  *)
(* two invocations read at the same time.                                     *)
EXTENDS PiiLambda
=============================================================================
