--------------------------- MODULE MCApprovalDesk ---------------------------
(* Small instances of ApprovalDesk for TLC. *)
EXTENDS ApprovalDesk

MCDesks == DOMAIN Handlers
=============================================================================
