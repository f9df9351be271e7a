------------------------------ MODULE MCBulkRuns ------------------------------
(* The family of one apply run, for TLC: no definition but the instance's.   *)
EXTENDS BulkRuns
=============================================================================
