----------------------------- MODULE MCDashboard ----------------------------
(* One event, in the Parquet object and among the live ones, two tabs, and    *)
(* room for a second refresh if the guard let one begin.                      *)
EXTENDS Dashboard
=============================================================================
