------------------------- MODULE MCStreamInterceptor ------------------------
(* Every body of seven cells over two sensitive characters and a plain      *)
(* one, in both modes and under every division into chunks of one to three. *)
(* The window of six drops a cell of the longest body, and holds two values *)
(* of different length: a shorter one may take a longer one apart.          *)
EXTENDS StreamInterceptor
=============================================================================
