----------------------------- MODULE MCMessaging -----------------------------
(* Small instances of Messaging for TLC. *)
EXTENDS Messaging

\* The default rules let more messages through than those of the organization, and
\* give up earlier.
MCDailyCap == [org |-> 1, default |-> 2]
MCMonthlyCap == [org |-> 2, default |-> 2]
MCMaxRetries == [org |-> 2, default |-> 1]
=============================================================================
