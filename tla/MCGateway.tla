------------------------------ MODULE MCGateway -----------------------------
(* Two requests on any way through the handler, with a reader of the         *)
(* counters beside them and a live feed that keeps one event.                *)
EXTENDS Gateway, TLC

Symmetric == Permutations(Requests)
=============================================================================
