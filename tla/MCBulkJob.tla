------------------------------ MODULE MCBulkJob ------------------------------
(* Small instances of BulkJob for TLC. *)
EXTENDS BulkJob
=============================================================================
