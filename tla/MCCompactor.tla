----------------------------- MODULE MCCompactor ----------------------------
(* Three objects in one hour and two in the next, either of which is enough  *)
(* for a Parquet object, pages of two keys, and two runs that look one hour  *)
(* back.                                                                     *)
EXTENDS Compactor, TLC

TwoHours == [o \in Objects |-> IF o <= 3 THEN 0 ELSE 1]
Symmetry == Permutations(Runners)
=============================================================================
