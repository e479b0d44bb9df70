----------------------------- MODULE ApprovalDesk -----------------------------
(***************************************************************************)
(* The desks where a file (a claim, a request, a task, a voucher, ...) is  *)
(* decided step by step: the decision handlers of insurance-welfare-live,  *)
(* coop-governance-live, programs-live, mis-ops-live, privacy-live,        *)
(* members, work, collection, accounting, hr and org, over their flow      *)
(* triggers.                                                               *)
(*                                                                         *)
(* The handlers have one shape.  They read the row and compare its status, *)
(* or put the comparison into the WHERE clause of the update, or compare   *)
(* nothing; they write the new status, which a trigger may refuse; and     *)
(* some write a consequence in a query of its own, before the status or    *)
(* after it: a ledger or journal row, a member's or an employee's field.   *)
(* Every query is a transaction of its own: what a handler read may be old *)
(* when it writes, and a restart may fall between two of its queries.      *)
(*                                                                         *)
(* The journals of dividends and exits go to a table that no migration     *)
(* creates.  When the database answers that it does not know the table or  *)
(* its columns, or has no schema cache for the moment, the handlers go on  *)
(* as if they had written them.                                            *)
(*                                                                         *)
(* One file at one desk is followed.  Left out are numbers given to files, *)
(* notes, what a handler writes after the consequence (the policy of a     *)
(* paid claim), the corrections of bank accounts, which have no column,    *)
(* and the amounts: a desk whose decisions depend on one is two desks      *)
(* here, a welfare request within the branch manager's limit and one above *)
(* it.                                                                     *)
(***************************************************************************)
EXTENDS Integers, FiniteSets

CONSTANTS
  Desks,      \* the desks files are at
  Requests,   \* requests the API serves at the same time
  Lines,      \* the members' lines of a dividend distribution
  NoRequest,  \* an idle slot
  MaxLosses,  \* bound on the requests and consequences that are lost half way
  MaxEffects  \* bound on the consequences written for the file

VARIABLES
  desk,     \* the desk of the file
  alone,    \* whether its requests come one at a time
  status,   \* the status column
  unpaid,   \* lines of the distribution without paid_at
  effects,  \* how often the consequence of a decision has been written
  skipped,  \* whether a handler has gone on without the consequence
  lost,     \* requests and consequences lost half way
  req       \* the request in each slot

vars == <<desk, alone, status, unpaid, effects, skipped, lost, req>>

-----------------------------------------------------------------------------
(* Decisions *)

\* A decision has the statuses it is for, the status it writes, where its handler
\* compares the one with the other, and when it writes the consequence.

\* The handler reads the row; its update has no condition on the status.
Checked(from, to) ==
  [from |-> from, to |-> to, compares |-> "read", effect |-> "none"]

\* The handler reads nothing; the update has the condition.
Conditional(from, to) ==
  [from |-> {from}, to |-> to, compares |-> "where", effect |-> "none"]

\* The handler compares nothing.
Unchecked(to) ==
  [from |-> {}, to |-> to, compares |-> "never", effect |-> "none"]

WithEffect(d, place) ==
  [from |-> d.from, to |-> d.to, compares |-> d.compares, effect |-> place]

-----------------------------------------------------------------------------
(* The handlers of each desk *)

\* Variant in which a paid claim may be paid.
ClaimsPaidAgain ==
  {Checked({"submitted"}, "bm_review"), Checked({"bm_review"}, "am_review"),
   Checked({"am_review"}, "ho_review"), Checked({"ho_review"}, "approved"),
   Checked({"submitted", "bm_review", "am_review", "ho_review"}, "rejected"),
   WithEffect(Checked({"approved", "paid"}, "paid"), "after")}

\* Variant that writes the ledger before the status.
ClaimsLedgerFirst ==
  {Checked({"submitted"}, "bm_review"), Checked({"bm_review"}, "am_review"),
   Checked({"am_review"}, "ho_review"), Checked({"ho_review"}, "approved"),
   Checked({"submitted", "bm_review", "am_review", "ho_review"}, "rejected"),
   WithEffect(Checked({"approved"}, "paid"), "before")}

Claims ==
  {Checked({"submitted"}, "bm_review"), Checked({"bm_review"}, "am_review"),
   Checked({"am_review"}, "ho_review"), Checked({"ho_review"}, "approved"),
   Checked({"submitted", "bm_review", "am_review", "ho_review"}, "rejected"),
   WithEffect(Checked({"approved"}, "paid"), "after")}

\* Variant that forgets the ledger.
WelfareUnposted(levels, approves) ==
  levels \cup
  {Checked({"submitted"}, "bm_review"), Checked({approves}, "approved"),
   Checked({"submitted", "bm_review", "am_review"}, "rejected"),
   Checked({"approved"}, "disbursed")}

\* welfareNextLevel sends a request within the limit to its approval and one
\* above it to the area manager first.
Welfare(levels, approves) ==
  levels \cup
  {Checked({"submitted"}, "bm_review"), Checked({approves}, "approved"),
   Checked({"submitted", "bm_review", "am_review"}, "rejected"),
   WithEffect(Checked({"approved"}, "disbursed"), "after")}

SmallWelfare == Welfare({}, "bm_review")
LargeWelfare == Welfare({Checked({"bm_review"}, "am_review")}, "am_review")

\* The payment of a line of a posted distribution marks the line and then moves the
\* distribution on, whose update is for posted ones only and reads no error.
Dividends ==
  {Checked({"computed"}, "agm_approved"),
   WithEffect(Checked({"agm_approved"}, "posted"), "before")}
  \cup {WithEffect(Checked({"posted", "paid"}, "paid"), line) : line \in Lines}

\* The line as a file of its own: its journal, then paid_at.
DividendPayments == {WithEffect(Checked({"unpaid"}, "paid"), "before")}

Meetings ==
  {Unchecked("notice_issued"), Unchecked("held"), Unchecked("minutes_approved")}

\* Variant that writes the journal after the status.
ExitsJournalLast ==
  {Checked({"requested"}, "computed"), Checked({"computed"}, "approved"),
   Checked({"requested", "computed"}, "rejected"),
   WithEffect(Checked({"approved"}, "settled"), "after")}

Exits ==
  {Checked({"requested"}, "computed"), Checked({"computed"}, "approved"),
   Checked({"requested", "computed"}, "rejected"),
   WithEffect(Checked({"approved"}, "settled"), "before")}

Projects ==
  {Checked({"proposed", "suspended"}, "active"), Checked({"active"}, "suspended"),
   Checked({"proposed", "active", "suspended"}, "closed")}

Activities == {Checked({"planned"}, "done"), Checked({"planned"}, "cancelled")}

Cases ==
  {Checked({"open"}, "in_progress"), Checked({"open", "in_progress"}, "referred"),
   Checked({"open", "in_progress", "referred"}, "closed")}

Complaints ==
  LET undecided == {"open", "in_progress", "escalated"} IN
  {Checked({"open", "escalated"}, "in_progress"), Checked(undecided, "escalated"),
   Checked(undecided, "resolved"), Checked(undecided, "rejected")}

Corrections ==
  {Checked({"submitted"}, "in_review"), Checked({"in_review"}, "approved"),
   Checked({"submitted", "in_review"}, "rejected"),
   WithEffect(Checked({"approved"}, "applied"), "before")}

\* Each change of a member's status is followed by a row of its history.
Lifecycles ==
  {WithEffect(Checked({"pending", "dormant", "transferred"}, "active"), "after"),
   WithEffect(Checked({"pending", "active", "dormant"}, "dropout"), "after"),
   WithEffect(Checked({"active"}, "dormant"), "after"), WithEffect(Checked({"active"}, "transferred"), "after"),
   WithEffect(Checked({"active", "dormant"}, "deceased"), "after")}

Tasks ==
  {Unchecked(s) : s \in {"todo", "in_progress", "blocked", "done", "verified"}}

Findings ==
  {Unchecked("responded"), Unchecked("in_followup"), Unchecked("closed")}

CashHandovers ==
  {Checked({"draft"}, "submitted"), Checked({"submitted"}, "confirmed"),
   Checked({"submitted"}, "rejected")}

\* Variant that approves from draft, which the trigger refuses.
transitionVoucherUnchecked ==
  {Conditional("draft", "checked"), Conditional("draft", "approved")}

transitionVoucher ==
  {Conditional("draft", "checked"), Conditional("checked", "approved")}

Requisitions ==
  {Conditional("requested", "approved"), Conditional("requested", "rejected"),
   Conditional("approved", "disbursed"), Conditional("disbursed", "received")}

Vacancies ==
  {Conditional("requested", "approved"), Conditional("requested", "rejected")}

Leaves == {Conditional("pending", "approved"), Conditional("pending", "rejected")}

\* An approved movement is applied to the employee, then becomes effective.
MovementDecisions ==
  {Conditional("proposed", "approved"), Conditional("proposed", "rejected")}
MovementApply == WithEffect(Checked({"approved"}, "effective"), "before")

\* The last decision makes the branch active.
BranchOpenings ==
  {Conditional("proposed", "director_approved"), Conditional("proposed", "rejected"),
   Conditional("director_approved", "checklist_done"),
   WithEffect(Conditional("checklist_done", "activated"), "after")}

PayrollDecisions == {Unchecked("approved"), Unchecked("paid")}

Handlers ==
  [claim |-> Claims, death_claim |-> Claims, welfare |-> SmallWelfare,
   large_welfare |-> LargeWelfare, dividend |-> Dividends,
   dividend_payment |-> DividendPayments, branch_opening |-> BranchOpenings,
   agm |-> Meetings, exit |-> Exits,
   project |-> Projects, activity |-> Activities, case |-> Cases,
   complaint |-> Complaints, correction |-> Corrections,
   lifecycle |-> Lifecycles, task |-> Tasks, finding |-> Findings,
   handover |-> CashHandovers, voucher |-> transitionVoucher,
   requisition |-> Requisitions, vacancy |-> Vacancies, leave |-> Leaves,
   movement |-> MovementDecisions \cup {MovementApply},
   payroll |-> PayrollDecisions]

Request ==
  [at : {"effect", "update"}, decision : UNION {Handlers[k] : k \in Desks}]

ASSUME DeskConstants ==
  /\ Desks \subseteq DOMAIN Handlers
  /\ IsFiniteSet(Requests)
  /\ NoRequest \notin Request
  /\ Lines \cap {"none", "before", "after"} = {}
  /\ MaxLosses \in Nat /\ MaxEffects \in Nat

-----------------------------------------------------------------------------
(* Triggers that run inside the update and may refuse it *)

\* Where each allows a status to go.
\* Variant in which a rejected claim may be approved.
fn_claim_flow_lenient ==
  [submitted |-> {"bm_review", "rejected"}, bm_review |-> {"am_review", "rejected"},
   am_review |-> {"ho_review", "rejected"}, ho_review |-> {"approved", "rejected"},
   approved |-> {"paid"}, paid |-> {}, rejected |-> {"approved"}]

fn_claim_flow ==
  [submitted |-> {"bm_review", "rejected"}, bm_review |-> {"am_review", "rejected"},
   am_review |-> {"ho_review", "rejected"}, ho_review |-> {"approved", "rejected"},
   approved |-> {"paid"}, paid |-> {}, rejected |-> {}]

\* The documents of a death claim are read into a variable of another type,
\* which fails: it leaves submitted only by a rejection.
DeathClaimFlow == [fn_claim_flow EXCEPT !.submitted = {"rejected"}]

fn_dividend_flow ==
  [computed |-> {"agm_approved"}, agm_approved |-> {"posted"},
   posted |-> {"paid"}, paid |-> {}]

fn_agm_flow ==
  [draft |-> {"notice_issued"}, notice_issued |-> {"held"},
   held |-> {"minutes_approved"}, minutes_approved |-> {}]

fn_exit_flow ==
  [requested |-> {"computed", "rejected"}, computed |-> {"approved", "rejected"},
   approved |-> {"settled"}, settled |-> {}, rejected |-> {}]

fn_activity_flow == [planned |-> {"done", "cancelled"}, done |-> {}, cancelled |-> {}]

fn_work_task_transition_guard ==
  [todo |-> {"in_progress", "blocked"}, in_progress |-> {"done", "blocked"},
   blocked |-> {"in_progress"}, done |-> {"verified", "in_progress"}, verified |-> {}]

fn_voucher_transition == [draft |-> {"checked"}, checked |-> {"approved"}, approved |-> {}]

fn_finding_closed_guard ==
  LET some == {"open", "responded", "in_followup", "closed"} IN
  [open |-> some, responded |-> some, in_followup |-> some, closed |-> {}]

FlowFromOld ==
  [claim |-> fn_claim_flow, death_claim |-> DeathClaimFlow,
   dividend |-> fn_dividend_flow, agm |-> fn_agm_flow, exit |-> fn_exit_flow, activity |-> fn_activity_flow,
   task |-> fn_work_task_transition_guard, voucher |-> fn_voucher_transition,
   finding |-> fn_finding_closed_guard]

\* These three look up the new status instead of the old one.
fn_project_flow ==
  [proposed |-> {"active", "closed"}, active |-> {"suspended", "closed"},
   suspended |-> {"active", "closed"}, closed |-> {}]

fn_case_flow ==
  [open |-> {"in_progress", "referred", "closed"},
   in_progress |-> {"referred", "closed"}, referred |-> {"closed"}, closed |-> {}]

fn_complaint_flow ==
  [open |-> {"in_progress", "escalated", "resolved", "rejected"},
   in_progress |-> {"escalated", "resolved", "rejected"},
   escalated |-> {"in_progress", "escalated", "resolved", "rejected"},
   resolved |-> {}, rejected |-> {}]

FlowFromNew ==
  [project |-> fn_project_flow, case |-> fn_case_flow, complaint |-> fn_complaint_flow]

Accepted(old, new) ==
  \/ new = old
  \/ /\ desk \in DOMAIN FlowFromOld => new \in FlowFromOld[desk][old]
     /\ desk \in DOMAIN FlowFromNew => new \in FlowFromNew[desk][new]

-----------------------------------------------------------------------------
(* The life of a request *)

Busy(r) == req[r] # NoRequest

At(r, place) == Busy(r) /\ req[r].at = place

Goes(r, place, d) == req' = [req EXCEPT ![r] = [at |-> place, decision |-> d]]

Ends(r) == req' = [req EXCEPT ![r] = NoRequest]

\* Room for the consequences that may still be written.
RoomForEffect ==
  effects + Cardinality({r \in Requests : Busy(r)}) < MaxEffects

\* A request whose handler refuses the status it reads, or the line, does nothing.
Begin(r, d) ==
  /\ d \in Handlers[desk]
  /\ ~Busy(r)
  /\ alone => \A s \in Requests : ~Busy(s)
  /\ d.compares = "read" => status \in d.from
  /\ d.effect \in Lines => d.effect \in unpaid
  /\ d.effect \in {"before", "after"} => RoomForEffect
  /\ Goes(r, IF d.effect \in Lines \cup {"before"} THEN "effect" ELSE "update", d)
  /\ UNCHANGED <<desk, alone, status, unpaid, effects, skipped, lost>>

\* Desks whose consequence is a row of coop_journals.
Journalled == {"dividend", "dividend_payment", "exit"}

\* Applying a movement does not read whether the employee was updated.
Unread == Journalled \cup {"movement"}

\* Any answer about the schema cache is taken for that of a database without the
\* optional table, and is no error.
pushJournal ==
  \/ effects' = effects + 1 /\ UNCHANGED skipped
  \/ desk \in Unread /\ skipped' = TRUE /\ UNCHANGED effects

WriteEffect(r) ==
  /\ At(r, "effect")
  /\ req[r].decision.effect \notin Lines
  /\ pushJournal
  /\ IF req[r].decision.effect = "before"
     THEN Goes(r, "update", req[r].decision) ELSE Ends(r)
  /\ UNCHANGED <<desk, alone, status, unpaid, lost>>

MarkPaid(r) ==
  /\ At(r, "effect")
  /\ req[r].decision.effect \in Lines
  /\ unpaid' = unpaid \ {req[r].decision.effect}
  /\ Goes(r, "update", req[r].decision)
  /\ UNCHANGED <<desk, alone, status, effects, skipped, lost>>

\* The update applies to the row as it is now; one that no row matches, or
\* that a trigger refuses, is an error.
Update(r) ==
  LET d == req[r].decision IN
  /\ At(r, "update")
  /\ IF /\ d.compares = "where" => status \in d.from
        /\ Accepted(status, d.to)
     THEN /\ status' = d.to
          /\ IF d.effect = "after" THEN Goes(r, "effect", d) ELSE Ends(r)
     ELSE Ends(r) /\ UNCHANGED status
  /\ UNCHANGED <<desk, alone, unpaid, effects, skipped, lost>>

\* The server restarts or the database fails.
Lose(r) ==
  /\ Busy(r)
  /\ lost < MaxLosses
  /\ lost' = lost + 1
  /\ Ends(r)
  /\ UNCHANGED <<desk, alone, status, unpaid, effects, skipped>>

\* Desks whose triggers or WHERE clauses refuse a decision that was overtaken, and
\* the lines of a dividend, which know one decision only.
Guarded ==
  {"claim", "death_claim", "dividend", "dividend_payment", "branch_opening", "agm",
   "exit", "project", "activity", "case", "complaint", "task", "voucher",
   "requisition", "vacancy", "leave", "movement"}

\* The others compare when they read, if at all: payroll runs and findings do not.
Strict == desk \in Guarded \/ (alone /\ desk \notin {"payroll", "finding"})

Promised == INSTANCE FileLadder WITH strict <- Strict

\* Computing a distribution does not read whether its lines were stored.
Init ==
  /\ desk \in Desks
  /\ alone \in BOOLEAN
  /\ status \in Promised!First(desk)
  /\ effects = 0
  /\ skipped = FALSE
  /\ \/ lost = 0 /\ unpaid = IF desk = "dividend" THEN Lines ELSE {}
     \/ lost = 1 /\ lost <= MaxLosses /\ desk = "dividend" /\ unpaid = {}
  /\ req = [r \in Requests |-> NoRequest]

Serve(r) == WriteEffect(r) \/ MarkPaid(r) \/ Update(r)

Next ==
  \/ \E r \in Requests, d \in Handlers[desk] : Begin(r, d)
  \/ \E r \in Requests : Serve(r) \/ Lose(r)

Spec == Init /\ [][Next]_vars

\* The server goes on with the requests it has accepted, and the staff do not
\* forget the file: while the ladder leads on, they go on deciding it.
Decide ==
  \E r \in Requests, d \in Handlers[desk] :
    d.to \in Promised!Ladder[desk][status] /\ Begin(r, d)

Fairness ==
  /\ \A r \in Requests : WF_vars(Serve(r))
  /\ SF_vars(Decide)

FairSpec == Spec /\ Fairness

-----------------------------------------------------------------------------
(* Properties *)

TypeOK ==
  /\ desk \in Desks
  /\ alone \in BOOLEAN
  /\ status \in DOMAIN Promised!Ladder[desk]
  /\ unpaid \subseteq Lines
  /\ effects \in Nat
  /\ skipped \in BOOLEAN
  /\ lost \in 0..MaxLosses
  /\ req \in [Requests -> [at : {"effect", "update"}, decision : Handlers[desk]]
                           \cup {NoRequest}]

\* The desks keep the ladder of the shared tables and the demo stores: those
\* with a guard in the database whatever requests overtake each other, the
\* others as long as requests come one at a time.
KeepsLadder == Promised!Spec

\* The statuses in which the consequence has been written, for the desks that
\* write one consequence per file.
Settling ==
  [claim |-> {"paid"}, death_claim |-> {"paid"}, welfare |-> {"disbursed"},
   large_welfare |-> {"disbursed"}, dividend |-> {"posted", "paid"},
   dividend_payment |-> {"paid"}, branch_opening |-> {"activated"},
   exit |-> {"settled"}, correction |-> {"applied"}, movement |-> {"effective"}]

Settles == desk \in DOMAIN Settling

Settled == Settles /\ status \in Settling[desk]

\* A dividend, its payment, an exit, a correction or a movement that is marked as
\* done has its journal, or its member's or employee's field, even if the server went
\* down between the two queries, unless a handler has gone on without it.
DoneIsWritten ==
  desk \in {"dividend", "dividend_payment", "exit", "correction", "movement"} /\ Settled
    => effects > 0 \/ skipped

\* Money never leaves a fund for a claim or welfare request that is not (or is
\* no longer) marked as paid.
LedgerIsBacked ==
  desk \in {"claim", "death_claim", "welfare", "large_welfare"} /\ Strict /\ effects > 0
    => Settled

\* A file is settled no more often than requests overlap or are lost: once, if
\* they come one at a time and none is lost.
SettledOnce ==
  Settles /\ Strict
    => effects <= lost + IF alone THEN 1 ELSE Cardinality(Requests)

\* When no request is under way and none was lost, status and consequence agree.
BooksAgree ==
  Settles /\ Strict /\ lost = 0 /\ ~skipped /\ (\A r \in Requests : ~Busy(r))
    => (Settled <=> effects > 0)

\* Desks whose ladder has no way back (as those of tasks and members have) and
\* whose triggers let every file through.
Closing ==
  {"claim", "welfare", "large_welfare", "dividend", "dividend_payment",
   "branch_opening", "agm", "exit", "activity", "correction", "handover", "voucher",
   "requisition", "vacancy", "leave", "movement"}

\* A distribution with no line left to pay can be moved on by nobody: when the
\* requests that marked its lines are lost before they move it, it stays posted.
Stranded == desk = "dividend" /\ unpaid = {} /\ lost > 0

\* A file that the staff go on with is closed, though requests are lost and,
\* at the guarded desks, overtake each other; all but a stranded distribution.
Closes ==
  desk \in Closing /\ Strict ~> status \in Promised!Final(desk) \/ Stranded

=============================================================================
