----------------------------- MODULE MCExplorer -----------------------------
(* Three rows, one of them harmless; one search text, found in two of them;    *)
(* and pages of one row or of two.                                            *)
EXTENDS Explorer

RowActions == (1 :> "allow") @@ (2 :> "block_input") @@ (3 :> "block_input")
RowTags == (1 :> "SAFE") @@ (2 :> "SAFE") @@ (3 :> "CRITICAL")
Found == "user-a" :> {1, 3}
=============================================================================
