-------------------------- MODULE MCWriteAheadLog ---------------------------
(* The write-ahead log on three events with every fault: enough for a torn  *)
(* line with a record before it and one behind it.                          *)
EXTENDS WriteAheadLog, TLC

Symmetry == Permutations(Events)
=============================================================================
