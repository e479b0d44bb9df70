-------------------------- MODULE MCCollectionPosting --------------------------
(* Small instances of CollectionPosting for TLC. *)
EXTENDS CollectionPosting, TLC

\* Each entry pays the weekly savings of 1 and 1 more.
MCPayment == [k \in Keys |-> 2]

Symmetry == Permutations(Requests)
=============================================================================
