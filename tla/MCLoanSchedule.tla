--------------------------- MODULE MCLoanSchedule ---------------------------
(* Small instances of LoanSchedule for TLC. *)
EXTENDS LoanSchedule, TLC

CONSTANTS a1, a2, a3, a4

MCLoanOf == [x \in Reschedules |-> a1]

Symmetry ==
  Permutations(Requests) \cup Permutations({a2, a3, a4}) \cup Permutations(Reschedules)
    \cup Permutations(Days)
=============================================================================
