--------------------------- MODULE MCSavingsLedger ---------------------------
(* Small instances of SavingsLedger for TLC. *)
EXTENDS SavingsLedger, TLC

CONSTANTS a1, a2, m1

\* a1 has a minimum balance, a2 follows its member's loans and is locked by
\* them.
MCMinBalance == (a1 :> 1) @@ (a2 :> 0)
MCOneHolder  == (a1 :> m1) @@ (a2 :> m1)

LedgerTypes   == {"deposit", "withdrawal", "transfer"}
LinkTypes     == {"interest", "closure", "transfer"}

Symmetry == Permutations(Sessions)
=============================================================================
