------------------------------ MODULE FileLadder ------------------------------
(***************************************************************************)
(* What the desks promise: the life of one file (a claim, an exit, a task, *)
(* a voucher, ...) as the transition tables of packages/shared and the     *)
(* demo stores give it, where a decision is one indivisible step.  A file  *)
(* that is not strict may do anything.                                     *)
(***************************************************************************)

(* Tables of packages/shared: the statuses a file may go to from each. *)

REVIEW_FLOW ==
  [submitted |-> {"bm_review", "rejected"}, bm_review |-> {"am_review", "rejected"},
   am_review |-> {"ho_review", "rejected"}, ho_review |-> {"approved", "rejected"},
   approved |-> {"paid"}, paid |-> {}, rejected |-> {}]

WELFARE_FLOW ==
  [submitted |-> {"bm_review", "rejected"},
   bm_review |-> {"am_review", "approved", "rejected"},
   am_review |-> {"approved", "rejected"},
   approved |-> {"disbursed"}, disbursed |-> {}, rejected |-> {}]

DIVIDEND_FLOW ==
  [computed |-> {"agm_approved"}, agm_approved |-> {"posted"},
   posted |-> {"paid"}, paid |-> {}]

AGM_FLOW ==
  [draft |-> {"notice_issued"}, notice_issued |-> {"held"},
   held |-> {"minutes_approved"}, minutes_approved |-> {}]

EXIT_FLOW ==
  [requested |-> {"computed", "rejected"}, computed |-> {"approved", "rejected"},
   approved |-> {"settled"}, settled |-> {}, rejected |-> {}]

PROJECT_FLOW ==
  [proposed |-> {"active", "closed"}, active |-> {"suspended", "closed"},
   suspended |-> {"active", "closed"}, closed |-> {}]

ACTIVITY_FLOW ==
  [planned |-> {"done", "cancelled"}, done |-> {}, cancelled |-> {}]

CASE_FLOW ==
  [open |-> {"in_progress", "referred", "closed"},
   in_progress |-> {"referred", "closed"}, referred |-> {"closed"}, closed |-> {}]

canTransitionComplaint ==
  [open |-> {"in_progress", "escalated", "resolved", "rejected"},
   in_progress |-> {"escalated", "resolved", "rejected"},
   escalated |-> {"in_progress", "escalated", "resolved", "rejected"},
   resolved |-> {}, rejected |-> {}]

CORRECTION_FLOW ==
  [submitted |-> {"in_review", "rejected"}, in_review |-> {"approved", "rejected"},
   approved |-> {"applied"}, rejected |-> {}, applied |-> {}]

LIFECYCLE_TRANSITIONS ==
  [pending |-> {"active", "dropout"},
   active |-> {"dormant", "dropout", "transferred", "deceased"},
   dormant |-> {"active", "dropout", "deceased"},
   dropout |-> {}, transferred |-> {"active"}, deceased |-> {}]

TASK_TRANSITIONS ==
  [todo |-> {"in_progress", "blocked"}, in_progress |-> {"done", "blocked"},
   blocked |-> {"in_progress"}, done |-> {"verified", "in_progress"}, verified |-> {}]

canTransitionFinding ==
  [open |-> {"responded", "closed"}, responded |-> {"in_followup", "closed"},
   in_followup |-> {"closed"}, closed |-> {}]

(* Decisions of the demo stores, where there is no shared table. *)

\* One member's line of a dividend distribution.
DividendPayments == [unpaid |-> {"paid"}, paid |-> {}]

BranchOpenings ==
  [proposed |-> {"director_approved", "rejected"},
   director_approved |-> {"checklist_done"}, checklist_done |-> {"activated"},
   activated |-> {}, rejected |-> {}]

Handovers ==
  [draft |-> {"submitted"}, submitted |-> {"confirmed", "rejected"},
   confirmed |-> {}, rejected |-> {}]

Vouchers == [draft |-> {"checked"}, checked |-> {"approved"}, approved |-> {}]

Requisitions ==
  [requested |-> {"approved", "rejected"}, approved |-> {"disbursed"},
   disbursed |-> {"received"}, received |-> {}, rejected |-> {}]

Vacancies == [requested |-> {"approved", "rejected"}, approved |-> {}, rejected |-> {}]

LeaveRequests == [pending |-> {"approved", "rejected"}, approved |-> {}, rejected |-> {}]

Movements ==
  [proposed |-> {"approved", "rejected"}, approved |-> {"effective"},
   effective |-> {}, rejected |-> {}]

PayrollRuns == [draft |-> {"approved"}, approved |-> {"paid"}, paid |-> {}]

Ladder ==
  [claim |-> REVIEW_FLOW, death_claim |-> REVIEW_FLOW,
   welfare |-> WELFARE_FLOW, large_welfare |-> WELFARE_FLOW,
   dividend |-> DIVIDEND_FLOW, dividend_payment |-> DividendPayments,
   branch_opening |-> BranchOpenings,
   agm |-> AGM_FLOW, exit |-> EXIT_FLOW, project |-> PROJECT_FLOW,
   activity |-> ACTIVITY_FLOW, case |-> CASE_FLOW,
   complaint |-> canTransitionComplaint, correction |-> CORRECTION_FLOW,
   lifecycle |-> LIFECYCLE_TRANSITIONS, task |-> TASK_TRANSITIONS,
   finding |-> canTransitionFinding, handover |-> Handovers,
   voucher |-> Vouchers, requisition |-> Requisitions, vacancy |-> Vacancies,
   leave |-> LeaveRequests, movement |-> Movements, payroll |-> PayrollRuns]

AllDesks == DOMAIN Ladder

\* A new file has the default of its column: the status no decision leads to.
First(d) ==
  {s \in DOMAIN Ladder[d] : \A t \in DOMAIN Ladder[d] : s \notin Ladder[d][t]}

\* No decision leads on from a final status.
Final(d) == {s \in DOMAIN Ladder[d] : Ladder[d][s] = {}}

CONSTANT Desks  \* the desks files are at (a subset of AllDesks)

VARIABLES
  desk,    \* where the file is, for good
  status,  \* the status column of its row
  strict   \* whether the file has to keep to the ladder

vars == <<desk, status, strict>>

Init ==
  /\ desk \in Desks
  /\ status \in First(desk)
  /\ strict \in BOOLEAN

Move ==
  /\ strict => status' \in Ladder[desk][status]
  /\ status' \in DOMAIN Ladder[desk]
  /\ UNCHANGED <<desk, strict>>

Spec == Init /\ [][Move]_vars
=============================================================================
