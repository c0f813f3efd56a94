-------------------------- MODULE MCCircuitBreaker --------------------------
(* The breaker on a small instance: three workers, so that two can trip     *)
(* while a third succeeds or asks.                                          *)
EXTENDS CircuitBreaker, TLC

Symmetry == Permutations(Workers)
=============================================================================
