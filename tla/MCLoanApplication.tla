-------------------------- MODULE MCLoanApplication --------------------------
(* Small instances of LoanApplication for TLC. *)
EXTENDS LoanApplication, TLC

CONSTANTS a1, a2, a3, a4, m1

MCOneApplicant == [a \in Applications |-> m1]

ToApproval  == OfficerStages \cup {"approve"}

Symmetry == Permutations(Requests)
BothSymmetry == Permutations(Requests) \cup Permutations({a1, a2, a3})
=============================================================================
