----------------------------- MODULE MCLogQueue -----------------------------
(* The logging queue on small instances.                                    *)
EXTENDS LogQueue, TLC

Symmetry == Permutations(Events) \cup Permutations(Workers)
=============================================================================
