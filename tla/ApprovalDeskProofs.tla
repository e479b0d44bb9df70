------------------------- MODULE ApprovalDeskProofs -------------------------
(***************************************************************************)
(* What holds at the desks for every set of requests and every number of   *)
(* losses and consequences: the types, the refinement of FileLadder, and   *)
(* the order of a consequence and its status.                              *)
(*                                                                         *)
(* The statements about single desks (the lemmas of the first part) are    *)
(* checked desk by desk against the tables.  The invariant then says what  *)
(* the handlers that compare when they read may rely on: at a desk that is *)
(* served one request at a time, the status is still the one they read.    *)
(***************************************************************************)
EXTENDS ApprovalDesk, FiniteSetTheorems, TLAPS

-----------------------------------------------------------------------------
(* The desks, against the tables *)

\* Every decision leads to a status of its ladder.
LEMMA DecisionsStay ==
  ASSUME NEW k \in DOMAIN Handlers, NEW d \in Handlers[k]
  PROVE  /\ k \in DOMAIN Promised!Ladder
         /\ d.to \in DOMAIN Promised!Ladder[k]
<1> USE DEF Handlers, Promised!Ladder, Checked, Conditional, Unchecked, WithEffect
<1>1. CASE k \in {"claim", "death_claim"}
  BY <1>1 DEF Claims, Promised!REVIEW_FLOW
<1>2. CASE k = "welfare"
  BY <1>2 DEF SmallWelfare, Welfare, Promised!WELFARE_FLOW
<1>3. CASE k = "large_welfare"
  BY <1>3 DEF LargeWelfare, Welfare, Promised!WELFARE_FLOW
<1>4. CASE k = "agm"
  BY <1>4 DEF Meetings, Promised!AGM_FLOW
<1>5. CASE k = "exit"
  BY <1>5 DEF Exits, Promised!EXIT_FLOW
<1>6. CASE k = "project"
  BY <1>6 DEF Projects, Promised!PROJECT_FLOW
<1>7. CASE k = "activity"
  BY <1>7 DEF Activities, Promised!ACTIVITY_FLOW
<1>8. CASE k = "case"
  BY <1>8 DEF Cases, Promised!CASE_FLOW
<1>9. CASE k = "complaint"
  BY <1>9 DEF Complaints, Promised!canTransitionComplaint
<1>10. CASE k = "correction"
  BY <1>10 DEF Corrections, Promised!CORRECTION_FLOW
<1>11. CASE k = "lifecycle"
  BY <1>11 DEF Lifecycles, Promised!LIFECYCLE_TRANSITIONS
<1>12. CASE k = "task"
  BY <1>12 DEF Tasks, Promised!TASK_TRANSITIONS
<1>13. CASE k = "finding"
  BY <1>13 DEF Findings, Promised!canTransitionFinding
<1>14. CASE k = "handover"
  BY <1>14 DEF CashHandovers, Promised!Handovers
<1>15. CASE k = "voucher"
  BY <1>15 DEF transitionVoucher, Promised!Vouchers
<1>16. CASE k = "requisition"
  BY <1>16 DEF Requisitions, Promised!Requisitions
<1>17. CASE k = "vacancy"
  BY <1>17 DEF Vacancies, Promised!Vacancies
<1>18. CASE k = "leave"
  BY <1>18 DEF Leaves, Promised!LeaveRequests
<1>19. CASE k = "movement"
  BY <1>19 DEF MovementDecisions, MovementApply, Promised!Movements
<1>20. CASE k = "payroll"
  BY <1>20 DEF PayrollDecisions, Promised!PayrollRuns
<1>21. CASE k = "dividend"
  BY <1>21 DEF Dividends, Promised!DIVIDEND_FLOW
<1>22. CASE k = "dividend_payment"
  BY <1>22 DEF DividendPayments, Promised!DividendPayments
<1>23. CASE k = "branch_opening"
  BY <1>23 DEF BranchOpenings, Promised!BranchOpenings
<1> QED
  BY <1>1, <1>2, <1>3, <1>4, <1>5, <1>6, <1>7, <1>8, <1>9, <1>10, <1>11, <1>12,
     <1>13, <1>14, <1>15, <1>16, <1>17, <1>18, <1>19, <1>20, <1>21, <1>22, <1>23

\* Where a trigger looks the old status up, what it allows is on the ladder.
LEMMA TriggersAllowLadder ==
  ASSUME NEW k \in {"claim", "death_claim", "dividend", "agm", "exit", "activity",
                   "task", "voucher"},
         NEW s \in DOMAIN Promised!Ladder[k]
  PROVE  k \in DOMAIN FlowFromOld /\ FlowFromOld[k][s] \subseteq Promised!Ladder[k][s]
<1> USE DEF FlowFromOld, Promised!Ladder
<1>1. CASE k = "claim"
  BY <1>1 DEF fn_claim_flow, Promised!REVIEW_FLOW
<1>2. CASE k = "death_claim"
  BY <1>2 DEF DeathClaimFlow, fn_claim_flow, Promised!REVIEW_FLOW
<1>3. CASE k = "agm"
  BY <1>3 DEF fn_agm_flow, Promised!AGM_FLOW
<1>4. CASE k = "exit"
  BY <1>4 DEF fn_exit_flow, Promised!EXIT_FLOW
<1>5. CASE k = "activity"
  BY <1>5 DEF fn_activity_flow, Promised!ACTIVITY_FLOW
<1>6. CASE k = "task"
  BY <1>6 DEF fn_work_task_transition_guard, Promised!TASK_TRANSITIONS
<1>7. CASE k = "voucher"
  BY <1>7 DEF fn_voucher_transition, Promised!Vouchers
<1>8. CASE k = "dividend"
  BY <1>8 DEF fn_dividend_flow, Promised!DIVIDEND_FLOW
<1> QED
  BY <1>1, <1>2, <1>3, <1>4, <1>5, <1>6, <1>7, <1>8

\* Where the update has the condition, it is that of the ladder; applying a
\* movement is the exception.
LEMMA ConditionsAreLadder ==
  ASSUME NEW k \in {"requisition", "vacancy", "leave", "movement", "branch_opening"},
         NEW d \in Handlers[k]
  PROVE  \/ /\ d.compares = "where"
            /\ \A s \in d.from : d.to \in Promised!Ladder[k][s]
         \/ /\ k = "movement" /\ d = MovementApply
<1> USE DEF Handlers, Promised!Ladder, Conditional
<1>1. CASE k = "requisition"
  BY <1>1 DEF Requisitions, Promised!Requisitions
<1>2. CASE k = "vacancy"
  BY <1>2 DEF Vacancies, Promised!Vacancies
<1>3. CASE k = "leave"
  BY <1>3 DEF Leaves, Promised!LeaveRequests
<1>4. CASE k = "movement"
  BY <1>4 DEF MovementDecisions, Promised!Movements
<1>5. CASE k = "branch_opening"
  BY <1>5 DEF BranchOpenings, WithEffect, Promised!BranchOpenings
<1> QED
  BY <1>1, <1>2, <1>3, <1>4, <1>5

\* Desks without a guard in the database, whose handlers compare when they read.
Reading == {"welfare", "large_welfare", "correction", "lifecycle", "handover"}

LEMMA ComparisonsAreLadder ==
  ASSUME NEW k \in Reading, NEW d \in Handlers[k]
  PROVE  /\ d.compares = "read"
         /\ \A s \in d.from : s \in DOMAIN Promised!Ladder[k] => d.to \in Promised!Ladder[k][s]
<1> USE DEF Reading, Handlers, Promised!Ladder, Checked, WithEffect
<1>1. CASE k = "welfare"
  BY <1>1 DEF SmallWelfare, Welfare, Promised!WELFARE_FLOW
<1>2. CASE k = "large_welfare"
  BY <1>2 DEF LargeWelfare, Welfare, Promised!WELFARE_FLOW
<1>3. CASE k = "correction"
  BY <1>3 DEF Corrections, Promised!CORRECTION_FLOW
<1>4. CASE k = "lifecycle"
  BY <1>4 DEF Lifecycles, Promised!LIFECYCLE_TRANSITIONS
<1>5. CASE k = "handover"
  BY <1>5 DEF CashHandovers, Promised!Handovers
<1> QED
  BY <1>1, <1>2, <1>3, <1>4, <1>5

\* The triggers that look the new status up let only an escalation through.
LEMMA MirrorsAllowEscalation ==
  ASSUME NEW k \in {"project", "case", "complaint"}, NEW d \in Handlers[k],
         d.to \in FlowFromNew[k][d.to]
  PROVE  k = "complaint" /\ d.to = "escalated"
<1> USE DEF Handlers, FlowFromNew, Checked
<1>1. CASE k = "project"
  BY <1>1 DEF Projects, fn_project_flow
<1>2. CASE k = "case"
  BY <1>2 DEF Cases, fn_case_flow
<1>3. CASE k = "complaint"
  BY <1>3 DEF Complaints, fn_complaint_flow
<1> QED
  BY <1>1, <1>2, <1>3

\* No other decision of these three desks changes their first status.
LEMMA MirrorsBegin ==
  /\ Promised!First("project") = {"proposed"}
  /\ Promised!First("case") = {"open"}
  /\ Promised!First("complaint") = {"open"}
<1> USE DEF Promised!First, Promised!Ladder
<1>1. Promised!First("project") = {"proposed"}
  BY DEF Promised!PROJECT_FLOW
<1>2. Promised!First("case") = {"open"}
  BY DEF Promised!CASE_FLOW
<1>3. Promised!First("complaint") = {"open"}
  BY DEF Promised!canTransitionComplaint
<1> QED
  BY <1>1, <1>2, <1>3

\* Every desk is guarded, compares when it reads, or is one of the two that may do
\* anything.
LEMMA DesksAreSorted ==
  DOMAIN Handlers = Guarded \cup Reading \cup {"payroll", "finding"}
BY DEF Handlers, Guarded, Reading

\* Where a handler may write a consequence; only that of a dividend marks a line.
Writes == {"before", "after"}

LEMMA LinesAreDividends ==
  ASSUME NEW k \in DOMAIN Handlers, NEW d \in Handlers[k]
  PROVE  /\ d.effect \in {"none"} \cup Writes \cup Lines
         /\ d.effect \in Lines
              => k = "dividend" /\ d.effect \notin {"none"} \cup Writes
<1> USE DEF Handlers, Writes, Checked, Conditional, Unchecked, WithEffect
<1>1. CASE k \in {"claim", "death_claim"}
  BY <1>1, DeskConstants DEF Claims
<1>2. CASE k \in {"welfare", "large_welfare"}
  BY <1>2, DeskConstants DEF SmallWelfare, LargeWelfare, Welfare
<1>3. CASE k \in {"agm", "task", "finding", "payroll"}
  BY <1>3, DeskConstants DEF Meetings, Tasks, Findings, PayrollDecisions
<1>4. CASE k \in {"exit", "project", "activity", "case"}
  BY <1>4, DeskConstants DEF Exits, Projects, Activities, Cases
<1>5. CASE k \in {"complaint", "correction", "lifecycle"}
  BY <1>5, DeskConstants DEF Complaints, Corrections, Lifecycles
<1>6. CASE k \in {"handover", "voucher", "requisition"}
  BY <1>6, DeskConstants DEF CashHandovers, transitionVoucher, Requisitions
<1>7. CASE k \in {"vacancy", "leave", "movement"}
  BY <1>7, DeskConstants DEF Vacancies, Leaves, MovementDecisions, MovementApply
<1>8. CASE k \in {"dividend_payment", "branch_opening"}
  BY <1>8, DeskConstants DEF DividendPayments, BranchOpenings
<1>9. CASE k = "dividend"
  BY <1>9, DeskConstants DEF Dividends
<1> QED
  BY <1>1, <1>2, <1>3, <1>4, <1>5, <1>6, <1>7, <1>8, <1>9

\* Desks that write the consequence before the status, and those that write it
\* after.
Before == {"dividend", "dividend_payment", "exit", "correction", "movement"}
After == {"claim", "death_claim", "welfare", "large_welfare", "branch_opening"}

\* A decision that settles a file writes the consequence first; a dividend is posted
\* before it is paid.
LEMMA SettledBefore ==
  ASSUME NEW k \in Before, NEW d \in Handlers[k], d.to \in Settling[k]
  PROVE  d.effect = "before" \/ (k = "dividend" /\ d.to = "paid")
<1> USE DEF Before, Handlers, Settling, Checked, Conditional, WithEffect
<1>1. CASE k = "exit"
  BY <1>1 DEF Exits
<1>2. CASE k = "correction"
  BY <1>2 DEF Corrections
<1>3. CASE k = "movement"
  BY <1>3 DEF MovementDecisions, MovementApply
<1>4. CASE k = "dividend"
  BY <1>4 DEF Dividends
<1>5. CASE k = "dividend_payment"
  BY <1>5 DEF DividendPayments
<1> QED
  BY <1>1, <1>2, <1>3, <1>4, <1>5

\* Such a desk settles a file with its consequence only, and for good.
LEMMA SettledAfter ==
  ASSUME NEW k \in After
  PROVE  /\ \A d \in Handlers[k] :
              d.effect # "none" => d.effect = "after" /\ d.to \in Settling[k]
         /\ \A s \in Settling[k] : Promised!Ladder[k][s] = {}
<1> USE DEF After, Handlers, Settling, Checked, Conditional, WithEffect, Promised!Ladder
<1>1. CASE k \in {"claim", "death_claim"}
  BY <1>1 DEF Claims, Promised!REVIEW_FLOW
<1>2. CASE k = "welfare"
  BY <1>2 DEF SmallWelfare, Welfare, Promised!WELFARE_FLOW
<1>3. CASE k = "large_welfare"
  BY <1>3 DEF LargeWelfare, Welfare, Promised!WELFARE_FLOW
<1>4. CASE k = "branch_opening"
  BY <1>4 DEF BranchOpenings, Promised!BranchOpenings
<1> QED
  BY <1>1, <1>2, <1>3, <1>4

LEMMA BeforeBegins ==
  ASSUME NEW k \in Before
  PROVE  Settling[k] \cap Promised!First(k) = {}
<1> USE DEF Before, Settling, Promised!Ladder, Promised!First
<1>1. CASE k = "exit"
  BY <1>1 DEF Promised!EXIT_FLOW
<1>2. CASE k = "correction"
  BY <1>2 DEF Promised!CORRECTION_FLOW
<1>3. CASE k = "movement"
  BY <1>3 DEF Promised!Movements
<1>4. CASE k = "dividend"
  BY <1>4 DEF Promised!DIVIDEND_FLOW
<1>5. CASE k = "dividend_payment"
  BY <1>5 DEF Promised!DividendPayments
<1> QED
  BY <1>1, <1>2, <1>3, <1>4, <1>5

-----------------------------------------------------------------------------
(* The inductive invariant *)

\* The request has compared, and has not yet written, the status.
Waiting(r) ==
  \/ At(r, "update")
  \/ At(r, "effect") /\ req[r].decision.effect \in Lines \cup {"before"}

OneAtATime ==
  alone => \A r, s \in Requests : Busy(r) /\ Busy(s) => r = s

\* What a request served alone has read still holds.
StillRead ==
  alone /\ desk \in Reading
    => \A r \in Requests : Waiting(r) => status \in req[r].decision.from

\* A movement is applied once it is approved, a dividend paid once it is posted, and
\* nothing else leads on from there.
Applying ==
  \A r \in Requests : Waiting(r) =>
    /\ desk = "movement" /\ req[r].decision = MovementApply => status \in {"approved", "effective"}
    /\ desk = "dividend" /\ req[r].decision.to = "paid" => status \in {"posted", "paid"}

\* Projects, cases and complaints stay where their triggers let them be.
Mirrored ==
  /\ desk = "project" => status = "proposed"
  /\ desk = "case" => status = "open"
  /\ desk = "complaint" => status \in {"open", "escalated"}

\* A status that comes after its consequence is written when that is, as far as the
\* code can tell.
WrittenFirst ==
  \A r \in Requests :
    At(r, "update") /\ req[r].decision.effect = "before" => effects > 0 \/ skipped

\* A consequence that comes after its status is written when that is.
SettledFirst ==
  desk \in After /\ Strict => \A r \in Requests : At(r, "effect") => Settled

\* It stands beside no other status.
Backed == desk \in After /\ Strict /\ effects > 0 => Settled

IInv ==
  /\ TypeOK
  /\ OneAtATime /\ StillRead /\ Applying /\ Mirrored
  /\ WrittenFirst /\ DoneIsWritten
  /\ SettledFirst /\ Backed

\* The update of a file that has to keep to the ladder keeps to it.
LEMMA UpdatesKeepLadder ==
  ASSUME IInv, Strict, NEW r \in Requests, At(r, "update"),
         req[r].decision.compares = "where" => status \in req[r].decision.from,
         Accepted(status, req[r].decision.to)
  PROVE  \/ req[r].decision.to = status
         \/ req[r].decision.to \in Promised!Ladder[desk][status]
<1> DEFINE d == req[r].decision
<1>1. d \in Handlers[desk] /\ desk \in DOMAIN Handlers
      /\ status \in DOMAIN Promised!Ladder[desk]
  BY DeskConstants DEF IInv, TypeOK, At, Busy
<1>2. CASE desk \in {"claim", "death_claim", "dividend", "agm", "exit", "activity",
                   "task", "voucher"}
  BY <1>1, <1>2, TriggersAllowLadder DEF Accepted
<1>3. CASE desk \in {"project", "case", "complaint"}
  <2>1. desk \in DOMAIN FlowFromNew
    BY <1>3 DEF FlowFromNew
  <2>2. CASE d.to # status
    <3>1. d.to \in FlowFromNew[desk][d.to]
      BY <2>1, <2>2 DEF Accepted
    <3>2. desk = "complaint" /\ d.to = "escalated"
      BY <1>1, <1>3, <3>1, MirrorsAllowEscalation
    <3>3. status \in {"open", "escalated"}
      BY <3>2 DEF IInv, Mirrored
    <3> QED
      BY <3>2, <3>3 DEF Promised!Ladder, Promised!canTransitionComplaint
  <2> QED
    BY <2>2
<1>4. CASE desk \in {"requisition", "vacancy", "leave", "movement", "branch_opening"}
  <2>1. CASE d.compares = "where" /\ \A s \in d.from : d.to \in Promised!Ladder[desk][s]
    BY <2>1
  <2>2. CASE desk = "movement" /\ d = MovementApply
    <3>1. status \in {"approved", "effective"} /\ d.to = "effective"
      BY <2>2 DEF IInv, Applying, Waiting, MovementApply, WithEffect, Checked
    <3> QED
      BY <2>2, <3>1 DEF Promised!Ladder, Promised!Movements
  <2> QED
    BY <1>1, <1>4, <2>1, <2>2, ConditionsAreLadder
<1>5. CASE desk \in Reading
  <2>1. alone
    BY <1>5 DEF Strict, Guarded, Reading
  <2>2. status \in d.from
    BY <1>5, <2>1 DEF IInv, StillRead, Waiting
  <2> QED
    BY <1>1, <1>5, <2>2, ComparisonsAreLadder
<1>6. CASE desk = "dividend_payment"
  <2>1. d.to = "paid"
    BY <1>1, <1>6 DEF Handlers, DividendPayments, Checked, WithEffect
  <2> QED
    BY <1>1, <1>6, <2>1 DEF Promised!Ladder, Promised!DividendPayments
<1>7. desk \notin {"payroll", "finding"}
  BY DEF Strict, Guarded
<1> QED
  BY <1>1, <1>2, <1>3, <1>4, <1>5, <1>6, <1>7, DesksAreSorted DEF Guarded

LEMMA Initially == Init => IInv
<1> SUFFICES ASSUME Init PROVE IInv
  OBVIOUS
<1> USE DEF Init
<1>1. desk \in DOMAIN Handlers /\ desk \in DOMAIN Promised!Ladder
  BY DeskConstants DEF Handlers, Promised!Ladder
<1>2. TypeOK
  <2>1. lost \in 0..MaxLosses /\ unpaid \subseteq Lines
    BY DeskConstants
  <2>2. status \in DOMAIN Promised!Ladder[desk]
    BY <1>1 DEF Promised!First
  <2> QED
    BY <2>1, <2>2 DEF TypeOK
<1>3. \A r \in Requests : ~Busy(r)
  BY DEF Busy
<1>4. OneAtATime /\ StillRead /\ Applying /\ WrittenFirst /\ SettledFirst
  BY <1>3 DEF OneAtATime, StillRead, Applying, WrittenFirst, SettledFirst, Waiting, At
<1>5. Mirrored
  BY MirrorsBegin DEF Mirrored
<1>6. DoneIsWritten
  BY BeforeBegins DEF DoneIsWritten, Before, Settled, Settles, Settling
<1>7. Backed
  BY DEF Backed
<1> QED
  BY <1>2, <1>4, <1>5, <1>6, <1>7 DEF IInv

-----------------------------------------------------------------------------
(* The steps *)

\* What the update of a request does to the file.
LEMMA UpdateOutcome ==
  ASSUME IInv, NEW r \in Requests, Update(r)
  PROVE  LET d == req[r].decision IN
         \/ UNCHANGED status /\ Ends(r)
         \/ /\ d.compares = "where" => status \in d.from
            /\ Accepted(status, d.to)
            /\ status' = d.to
            /\ IF d.effect = "after" THEN Goes(r, "effect", d) ELSE Ends(r)
BY DEF Update

\* Another request stays as it is; the one that took the step is where it went.
LEMMA OthersStay ==
  ASSUME TypeOK, NEW r \in Requests, NEW q \in Requests, q # r,
         Ends(r) \/ \E place, d : Goes(r, place, d)
  PROVE  req'[q] = req[q]
BY DEF TypeOK, Ends, Goes

LEMMA EndsIdle ==
  ASSUME TypeOK, NEW r \in Requests, Ends(r)
  PROVE  req'[r] = NoRequest
BY DEF TypeOK, Ends

LEMMA GoesOn ==
  ASSUME TypeOK, NEW r \in Requests, NEW place \in {"effect", "update"},
         NEW d \in Handlers[desk], Goes(r, place, d)
  PROVE  /\ req'[r] = [at |-> place, decision |-> d]
         /\ req'[r] # NoRequest
<1>1. d \in UNION {Handlers[k] : k \in Desks}
  BY DEF TypeOK
<1>2. [at |-> place, decision |-> d] # NoRequest
  BY <1>1, DeskConstants DEF Request
<1> QED
  BY <1>2 DEF TypeOK, Goes

\* A request that begins: only it has changed, and it has compared.
LEMMA BeginKeeps ==
  ASSUME IInv, NEW r \in Requests, NEW d \in Handlers[desk], Begin(r, d)
  PROVE  IInv'
<1>1. PICK place \in {"effect", "update"} :
        /\ Goes(r, place, d)
        /\ place = "effect" <=> d.effect \in Lines \cup {"before"}
  BY DEF Begin
<1>2. UNCHANGED <<desk, alone, status, unpaid, effects, skipped, lost>> /\ TypeOK
  BY DEF Begin, IInv
<1>3. req'[r] = [at |-> place, decision |-> d] /\ req'[r] # NoRequest
  BY <1>1, <1>2, GoesOn
<1>4. \A q \in Requests : q # r => req'[q] = req[q]
  BY <1>1, <1>2, OthersStay
<1>5. TypeOK'
  BY <1>1, <1>2 DEF TypeOK, Goes
<1>6. OneAtATime'
  BY <1>2, <1>3, <1>4 DEF Begin, OneAtATime, Busy
<1>7. StillRead'
  <2> SUFFICES ASSUME alone, desk \in Reading, NEW q \in Requests, Waiting(q)'
               PROVE  status \in req'[q].decision.from
    BY <1>2 DEF StillRead
  <2>1. q = r
    BY <1>4 DEF Begin, Waiting, At, Busy
  <2>2. desk \in DOMAIN Handlers
    BY <1>2, DeskConstants DEF TypeOK
  <2>3. status \in d.from
    BY <2>2, ComparisonsAreLadder DEF Begin
  <2> QED
    BY <1>3, <2>1, <2>3
<1>8. Applying'
  <2> SUFFICES ASSUME NEW q \in Requests, Waiting(q)'
               PROVE  /\ desk = "movement" /\ req'[q].decision = MovementApply
                           => status \in {"approved", "effective"}
                      /\ desk = "dividend" /\ req'[q].decision.to = "paid"
                           => status \in {"posted", "paid"}
    BY <1>2 DEF Applying
  <2>1. CASE q = r
    <3>1. desk = "movement" /\ d = MovementApply => status \in {"approved", "effective"}
      BY DEF Begin, MovementApply, WithEffect, Checked
    <3>2. desk = "dividend" /\ d.to = "paid" => status \in {"posted", "paid"}
      BY DEF Begin, Handlers, Dividends, WithEffect, Checked
    <3> QED
      BY <1>3, <2>1, <3>1, <3>2
  <2>2. CASE q # r
    BY <1>4, <2>2 DEF IInv, Applying, Waiting, At, Busy
  <2> QED
    BY <2>1, <2>2
<1>9. WrittenFirst'
  <2> SUFFICES ASSUME NEW q \in Requests, At(q, "update")',
                      req'[q].decision.effect = "before"
               PROVE  effects > 0 \/ skipped
    BY <1>2 DEF WrittenFirst
  <2>1. q # r
    BY <1>1, <1>3 DEF At
  <2> QED
    BY <1>4, <2>1 DEF IInv, WrittenFirst, At, Busy
<1>10. SettledFirst'
  <2> SUFFICES ASSUME desk \in After, Strict, NEW q \in Requests, At(q, "effect")'
               PROVE  Settled
    BY <1>2 DEF SettledFirst, Strict, Settled, Settles
  <2>1. q # r
    <3>1. d.effect \notin Lines \cup {"before"}
      BY SettledAfter, DeskConstants
    <3> QED
      BY <1>1, <1>3, <3>1 DEF At
  <2> QED
    BY <1>4, <2>1 DEF IInv, SettledFirst, At, Busy
<1>11. Mirrored' /\ DoneIsWritten' /\ Backed'
  BY <1>2 DEF IInv, Mirrored, DoneIsWritten, Backed, Strict, Settled, Settles
<1> QED
  BY <1>5, <1>6, <1>7, <1>8, <1>9, <1>10, <1>11 DEF IInv

\* A request that is lost: it is gone, and nothing else has changed.
LEMMA LoseKeeps ==
  ASSUME IInv, NEW r \in Requests, Lose(r)
  PROVE  IInv'
<1>1. UNCHANGED <<desk, alone, status, unpaid, effects, skipped>> /\ TypeOK /\ Ends(r)
  BY DEF Lose, IInv
<1>2. \A q \in Requests : Busy(q)' => q # r /\ req'[q] = req[q] /\ Busy(q)
  BY <1>1, EndsIdle, OthersStay DEF Busy
<1>3. TypeOK'
  BY <1>1, DeskConstants DEF TypeOK, Ends, Lose
<1>4. OneAtATime' /\ StillRead' /\ Applying'
  BY <1>1, <1>2 DEF IInv, OneAtATime, StillRead, Applying, Waiting, At, Busy
<1>5. WrittenFirst' /\ SettledFirst'
  BY <1>1, <1>2 DEF IInv, WrittenFirst, SettledFirst, At, Busy, Strict, Settled, Settles
<1>6. Mirrored' /\ DoneIsWritten' /\ Backed'
  BY <1>1 DEF IInv, Mirrored, DoneIsWritten, Backed, Strict, Settled, Settles
<1> QED
  BY <1>3, <1>4, <1>5, <1>6 DEF IInv

\* A line that is marked: the request goes on to the distribution.
LEMMA MarkPaidKeeps ==
  ASSUME IInv, NEW r \in Requests, MarkPaid(r)
  PROVE  IInv'
<1> DEFINE d == req[r].decision
<1>1. UNCHANGED <<desk, alone, status, effects, skipped, lost>> /\ TypeOK
      /\ At(r, "effect") /\ d.effect \in Lines /\ Goes(r, "update", d)
      /\ unpaid' \subseteq unpaid
  BY DEF MarkPaid, IInv
<1>2. d \in Handlers[desk] /\ desk \in DOMAIN Handlers
  BY <1>1, DeskConstants DEF TypeOK, At, Busy
<1>3. desk = "dividend" /\ d.effect # "before"
  BY <1>1, <1>2, LinesAreDividends DEF Writes
<1>4. /\ req'[r] = [at |-> "update", decision |-> d] /\ req'[r] # NoRequest
      /\ \A q \in Requests : q # r => req'[q] = req[q]
  BY <1>1, <1>2, GoesOn, OthersStay
<1>5. TypeOK'
  BY <1>1, <1>2 DEF TypeOK, Goes
<1>6. OneAtATime'
  BY <1>1, <1>4 DEF IInv, OneAtATime, At, Busy
<1>7. Applying'
  <2>1. \A q \in Requests : Waiting(q)' => Waiting(q) /\ req'[q].decision = req[q].decision
    BY <1>1, <1>4 DEF Waiting, At, Busy
  <2> QED
    BY <1>1, <2>1 DEF IInv, Applying
<1>8. StillRead' /\ Mirrored'
  BY <1>1, <1>3 DEF IInv, StillRead, Reading, Mirrored
<1>9. WrittenFirst' /\ DoneIsWritten'
  BY <1>1, <1>3, <1>4 DEF IInv, WrittenFirst, DoneIsWritten, At, Busy, Settled, Settles
<1>10. SettledFirst' /\ Backed'
  BY <1>1, <1>3 DEF SettledFirst, Backed, After
<1> QED
  BY <1>5, <1>6, <1>7, <1>8, <1>9, <1>10 DEF IInv

\* A consequence that is written: before its status, or when the file is settled.
LEMMA WriteEffectKeeps ==
  ASSUME IInv, NEW r \in Requests, WriteEffect(r)
  PROVE  IInv'
<1> DEFINE d == req[r].decision
<1>1. UNCHANGED <<desk, alone, status, unpaid, lost>> /\ TypeOK /\ At(r, "effect")
      /\ effects \in Nat /\ skipped \in BOOLEAN
  BY DEF WriteEffect, IInv, TypeOK
<1>0. \/ effects' = effects + 1 /\ UNCHANGED skipped
      \/ UNCHANGED effects /\ skipped' = TRUE
  BY DEF WriteEffect, pushJournal
<1>2. d \in Handlers[desk]
  BY <1>1 DEF TypeOK, At, Busy
<1>3. \/ Ends(r)
      \/ d.effect = "before" /\ Goes(r, "update", d)
  BY DEF WriteEffect
<1>4. \A q \in Requests : q # r => req'[q] = req[q]
  BY <1>1, <1>3, OthersStay
<1>5. \/ req'[r] = NoRequest
      \/ d.effect = "before" /\ req'[r] = [at |-> "update", decision |-> d]
  BY <1>1, <1>2, <1>3, EndsIdle, GoesOn
<1>6. TypeOK'
  <2>1. effects' \in Nat
    BY <1>0, <1>1
  <2>2. skipped' \in BOOLEAN
    BY <1>0, <1>1, Zenon
  <2>3. req' \in [Requests -> [at : {"effect", "update"}, decision : Handlers[desk]]
                             \cup {NoRequest}]
    <3>1. CASE Ends(r)
      BY <1>1, <3>1 DEF TypeOK, Ends
    <3>2. CASE Goes(r, "update", d)
      BY <1>1, <1>2, <3>2 DEF TypeOK, Goes
    <3> QED
      BY <1>3, <3>1, <3>2
  <2> QED
    BY <1>1, <2>1, <2>2, <2>3 DEF TypeOK
<1>7. OneAtATime'
  BY <1>1, <1>4, <1>5 DEF IInv, OneAtATime, At, Busy
<1>8. \A q \in Requests : Waiting(q)' => Waiting(q) /\ req'[q].decision = req[q].decision
  <2> SUFFICES ASSUME NEW q \in Requests, Waiting(q)'
               PROVE  Waiting(q) /\ req'[q].decision = req[q].decision
    OBVIOUS
  <2>1. CASE q = r
    BY <1>1, <1>5, <2>1 DEF Waiting, At, Busy
  <2>2. CASE q # r
    BY <1>4, <2>2 DEF Waiting, At, Busy
  <2> QED
    BY <2>1, <2>2
<1>9. StillRead' /\ Applying'
  BY <1>1, <1>8 DEF IInv, StillRead, Applying
<1>10. WrittenFirst' /\ DoneIsWritten'
  BY <1>0, <1>1 DEF WrittenFirst, DoneIsWritten, At, Busy, Settled, Settles
<1>11. SettledFirst'
  BY <1>1, <1>4, <1>5 DEF IInv, SettledFirst, At, Busy, Strict, Settled, Settles
<1>12. Backed'
  <2>1. desk \in After /\ Strict => Settled
    BY <1>1 DEF IInv, SettledFirst
  <2> QED
    BY <1>0, <1>1, <2>1 DEF Backed, After, Strict, Settled, Settles
<1>13. Mirrored'
  BY <1>1 DEF IInv, Mirrored
<1> QED
  BY <1>6, <1>7, <1>9, <1>10, <1>11, <1>12, <1>13 DEF IInv

\* An update that no row matched or a trigger refused: the request is gone.
LEMMA RefusalKeeps ==
  ASSUME IInv, NEW r \in Requests, Update(r), Ends(r), UNCHANGED status
  PROVE  IInv'
<1>1. UNCHANGED <<desk, alone, status, unpaid, effects, skipped, lost>> /\ TypeOK
  BY DEF Update, IInv
<1>2. \A q \in Requests : Busy(q)' => q # r /\ req'[q] = req[q] /\ Busy(q)
  BY <1>1, EndsIdle, OthersStay DEF Busy
<1>3. TypeOK'
  BY <1>1 DEF TypeOK, Ends
<1>4. OneAtATime' /\ StillRead' /\ Applying'
  BY <1>1, <1>2 DEF IInv, OneAtATime, StillRead, Applying, Waiting, At, Busy
<1>5. WrittenFirst' /\ SettledFirst'
  BY <1>1, <1>2 DEF IInv, WrittenFirst, SettledFirst, At, Busy, Strict, Settled, Settles
<1>6. Mirrored' /\ DoneIsWritten' /\ Backed'
  BY <1>1 DEF IInv, Mirrored, DoneIsWritten, Backed, Strict, Settled, Settles
<1> QED
  BY <1>3, <1>4, <1>5, <1>6 DEF IInv

\* An update that is carried out.
LEMMA UpdateKeeps ==
  ASSUME IInv, NEW r \in Requests, Update(r)
  PROVE  IInv'
<1> DEFINE d == req[r].decision
<1>1. CASE UNCHANGED status /\ Ends(r)
  BY <1>1, RefusalKeeps
<1>2. CASE /\ d.compares = "where" => status \in d.from
           /\ Accepted(status, d.to)
           /\ status' = d.to
           /\ IF d.effect = "after" THEN Goes(r, "effect", d) ELSE Ends(r)
  <2>1. UNCHANGED <<desk, alone, unpaid, effects, skipped, lost>> /\ TypeOK /\ At(r, "update")
    BY DEF Update, IInv
  <2>2. d \in Handlers[desk] /\ desk \in DOMAIN Handlers
    BY <2>1, DeskConstants DEF TypeOK, At, Busy
  <2>3. \A q \in Requests : q # r => req'[q] = req[q]
    BY <1>2, <2>1, OthersStay
  <2>4. \/ req'[r] = NoRequest
        \/ d.effect = "after" /\ req'[r] = [at |-> "effect", decision |-> d]
    BY <1>2, <2>1, <2>2, EndsIdle, GoesOn
  <2>5. TypeOK'
    <3>1. status' \in DOMAIN Promised!Ladder[desk]
      BY <1>2, <2>2, DecisionsStay
    <3> QED
      BY <1>2, <2>1, <2>2, <3>1 DEF TypeOK, Ends, Goes
  <2>6. OneAtATime'
    BY <2>1, <2>3, <2>4 DEF IInv, OneAtATime, At, Busy
  \* Requests that wait are others, and waited before.
  <2>7. \A q \in Requests : Waiting(q)' => q # r /\ req'[q] = req[q] /\ Waiting(q)
    BY <2>3, <2>4, DeskConstants DEF Waiting, At, Busy
  <2>8. StillRead'
    BY <2>1, <2>7 DEF IInv, OneAtATime, StillRead, Waiting, At
  <2>9. Applying'
    <3>1. ASSUME desk = "movement", NEW q \in Requests, Waiting(q),
                 req[q].decision = MovementApply
          PROVE  d.to \in {"approved", "effective"}
      <4>1. status \in {"approved", "effective"}
        BY <3>1 DEF IInv, Applying
      <4>2. CASE d = MovementApply
        BY <4>2 DEF MovementApply, WithEffect, Checked
      <4>3. CASE d \in MovementDecisions
        BY <1>2, <4>1, <4>3 DEF MovementDecisions, Conditional
      <4> QED
        BY <2>2, <3>1, <4>2, <4>3 DEF Handlers
    <3>2. ASSUME desk = "dividend", NEW q \in Requests, Waiting(q),
                 req[q].decision.to = "paid"
          PROVE  d.to \in {"posted", "paid"}
      <4>1. status \in {"posted", "paid"}
        BY <3>2 DEF IInv, Applying
      <4>2. d.to = status \/ d.to \in fn_dividend_flow[status]
        BY <1>2, <3>2 DEF Accepted, FlowFromOld
      <4> QED
        BY <4>1, <4>2 DEF fn_dividend_flow
    <3> QED
      BY <1>2, <2>1, <2>7, <3>1, <3>2 DEF Applying
  <2>10. Mirrored'
    <3> SUFFICES ASSUME desk \in {"project", "case", "complaint"}, d.to # status
                 PROVE  desk = "complaint" /\ d.to = "escalated"
      BY <1>2, <2>1 DEF IInv, Mirrored
    <3>1. d.to \in FlowFromNew[desk][d.to]
      BY <1>2 DEF Accepted, FlowFromNew
    <3> QED
      BY <2>2, <3>1, MirrorsAllowEscalation
  <2>11. WrittenFirst'
    BY <2>1, <2>3, <2>4 DEF IInv, WrittenFirst, At, Busy
  <2>12. DoneIsWritten'
    <3> SUFFICES ASSUME desk \in Before, d.to \in Settling[desk]
                 PROVE  effects > 0 \/ skipped
      BY <1>2, <2>1 DEF DoneIsWritten, Before, Settled
    <3>1. CASE d.effect = "before"
      BY <2>1, <3>1 DEF IInv, WrittenFirst
    <3>2. CASE desk = "dividend" /\ d.to = "paid"
      <4>1. status \in Settling["dividend"]
        BY <2>1, <3>2 DEF IInv, Applying, Waiting, Settling
      <4> QED
        BY <3>2, <4>1 DEF IInv, DoneIsWritten, Before, Settled, Settles, Settling
    <3> QED
      BY <2>2, <3>1, <3>2, SettledBefore
  <2>13. ASSUME desk \in After, Strict, Settled
         PROVE  Settled'
    <3>1. d.to = status
      <4>1. d.to = status \/ d.to \in Promised!Ladder[desk][status]
        BY <1>2, <2>1, <2>13, UpdatesKeepLadder
      <4> QED
        BY <2>13, <4>1, SettledAfter DEF Settled
    <3> QED
      BY <1>2, <2>1, <2>13, <3>1 DEF Settled, Settles
  <2>14. SettledFirst'
    <3> SUFFICES ASSUME desk \in After, Strict, NEW q \in Requests, At(q, "effect")'
                 PROVE  Settled'
      BY <2>1 DEF SettledFirst, Strict
    <3>1. CASE q = r
      <4>1. d.to \in Settling[desk]
        BY <2>2, <2>4, <3>1, SettledAfter DEF At, Busy
      <4> QED
        BY <1>2, <2>1, <4>1 DEF Settled, Settles, Settling, After
    <3>2. CASE q # r
      <4>1. Settled
        BY <2>3, <3>2 DEF IInv, SettledFirst, At, Busy
      <4> QED
        BY <2>13, <4>1
    <3> QED
      BY <3>1, <3>2
  <2>15. Backed'
    BY <2>1, <2>13 DEF IInv, Backed, After, Strict
  <2> QED
    BY <2>5, <2>6, <2>8, <2>9, <2>10, <2>11, <2>12, <2>14, <2>15 DEF IInv
<1> QED
  BY <1>1, <1>2, UpdateOutcome

LEMMA StepsKeep == IInv /\ [Next]_vars => IInv'
<1> SUFFICES ASSUME IInv, [Next]_vars PROVE IInv'
  OBVIOUS
<1>1. ASSUME NEW r \in Requests, NEW d \in Handlers[desk], Begin(r, d) PROVE IInv'
  BY <1>1, BeginKeeps
<1>2. ASSUME NEW r \in Requests, Serve(r) PROVE IInv'
  BY <1>2, WriteEffectKeeps, MarkPaidKeeps, UpdateKeeps DEF Serve
<1>3. ASSUME NEW r \in Requests, Lose(r) PROVE IInv'
  BY <1>3, LoseKeeps
<1>4. CASE UNCHANGED vars
  BY <1>4 DEF vars, IInv, TypeOK, OneAtATime, StillRead, Applying, Mirrored, WrittenFirst,
              DoneIsWritten, SettledFirst, Backed, Waiting, At, Busy, Strict,
              Settled, Settles
<1> QED
  BY <1>1, <1>2, <1>3, <1>4 DEF Next

LEMMA Invariance == Spec => []IInv
BY Initially, StepsKeep, PTL DEF Spec

-----------------------------------------------------------------------------
(* Theorems *)

\* Whatever is decided, a file keeps a status of its desk and a request the decision
\* of a handler of that desk.
THEOREM TypeCorrect == Spec => []TypeOK
<1>1. IInv => TypeOK
  BY DEF IInv
<1> QED
  BY <1>1, Invariance, PTL

\* A dividend, a payment, an exit, a correction or a movement that is marked as done has
\* its consequence, whatever is lost between the two queries, where the code reads
\* whether it was written.
THEOREM DoneStaysWritten == Spec => []DoneIsWritten
<1>1. IInv => DoneIsWritten
  BY DEF IInv
<1> QED
  BY <1>1, Invariance, PTL

\* The ledger row of a claim or of a welfare request stands only beside the status
\* that pays for it: always for claims, for welfare if its requests come one at a time.
THEOREM LedgerStaysBacked == Spec => []LedgerIsBacked
<1>1. IInv => LedgerIsBacked
  BY DEF IInv, Backed, LedgerIsBacked, After
<1> QED
  BY <1>1, Invariance, PTL

LEMMA FilesBegin == Init => Promised!Init
<1> SUFFICES ASSUME Init PROVE Promised!Init
  OBVIOUS
<1>1. Strict \in BOOLEAN
  BY DEF Init, Strict
<1> QED
  BY <1>1 DEF Init, Promised!Init

LEMMA StepsMove == IInv /\ [Next]_vars => [Promised!Move]_(Promised!vars)
<1> SUFFICES ASSUME IInv, [Next]_vars
             PROVE  Promised!Move \/ UNCHANGED Promised!vars
  OBVIOUS
<1>1. ASSUME NEW r \in Requests, Update(r)
      PROVE  Promised!Move \/ UNCHANGED Promised!vars
  <2> DEFINE d == req[r].decision
  <2>1. UNCHANGED <<desk, alone>>
    BY <1>1 DEF Update
  <2>2. UNCHANGED <<desk, Strict>>
    BY <2>1 DEF Strict
  <2>3. CASE UNCHANGED status
    BY <2>2, <2>3 DEF Promised!vars
  <2>4. CASE /\ d.compares = "where" => status \in d.from
             /\ Accepted(status, d.to)
             /\ status' = d.to
             /\ d.to # status
    <3>1. d \in Handlers[desk] /\ desk \in DOMAIN Handlers /\ At(r, "update")
      BY <1>1, DeskConstants DEF IInv, TypeOK, Update, At, Busy
    <3>2. d.to \in DOMAIN Promised!Ladder[desk]
      BY <3>1, DecisionsStay
    <3>3. Strict => d.to \in Promised!Ladder[desk][status]
      BY <2>4, <3>1, UpdatesKeepLadder
    <3> QED
      BY <2>2, <2>4, <3>2, <3>3 DEF Promised!Move
  <2> QED
    BY <1>1, <2>3, <2>4, UpdateOutcome
<1>2. CASE UNCHANGED <<desk, alone, status>>
  BY <1>2 DEF Promised!vars, Strict
<1> QED
  BY <1>1, <1>2 DEF Next, Serve, Begin, WriteEffect, MarkPaid, Lose, vars

\* Every desk keeps the ladder that the shared tables and the demo stores promise: the
\* guarded ones whatever requests overtake each other and are lost, the others as long
\* as requests come one at a time.
THEOREM LadderKept == Spec => KeepsLadder
<1>1. Spec => [][Promised!Move]_(Promised!vars)
  BY Invariance, StepsMove, PTL DEF Spec
<1>2. Spec => Promised!Init
  BY FilesBegin, PTL DEF Spec
<1> QED
  BY <1>1, <1>2 DEF KeepsLadder, Promised!Spec

-----------------------------------------------------------------------------
(* How often a file is settled *)

\* Where a consequence is written, and what may follow.
LEMMA Consequences ==
  ASSUME NEW k \in Before \cup After, NEW d \in Handlers[k], d.effect \in Writes
  PROVE  /\ d.effect = IF k \in Before THEN "before" ELSE "after"
         /\ d.compares \in {"read", "where"}
         /\ d.to \in Settling[k] /\ d.from \cap Settling[k] = {}
<1> USE DEF Before, After, Handlers, Settling, Writes, Checked, Conditional, WithEffect
<1>1. CASE k \in {"claim", "death_claim"}
  BY <1>1 DEF Claims
<1>2. CASE k = "welfare"
  BY <1>2 DEF SmallWelfare, Welfare
<1>3. CASE k = "large_welfare"
  BY <1>3 DEF LargeWelfare, Welfare
<1>4. CASE k = "branch_opening"
  BY <1>4 DEF BranchOpenings
<1>5. CASE k = "exit"
  BY <1>5 DEF Exits
<1>6. CASE k = "correction"
  BY <1>6 DEF Corrections
<1>7. CASE k = "movement"
  BY <1>7 DEF MovementDecisions, MovementApply
<1>8. CASE k = "dividend"
  BY <1>8, DeskConstants DEF Dividends
<1>9. CASE k = "dividend_payment"
  BY <1>9 DEF DividendPayments
<1> QED
  BY <1>1, <1>2, <1>3, <1>4, <1>5, <1>6, <1>7, <1>8, <1>9

\* After the consequence there is no way but to the status that settles the file, and
\* the trigger lets it through.
LEMMA OnlyWayOn ==
  ASSUME NEW k \in Before, NEW d \in Handlers[k], d.effect = "before"
  PROVE  /\ d.compares = "read"
         /\ \A s \in d.from : /\ Promised!Ladder[k][s] \subseteq Settling[k]
                              /\ k \in DOMAIN FlowFromOld => d.to \in FlowFromOld[k][s]
                              /\ k \notin DOMAIN FlowFromNew
<1> USE DEF Before, Handlers, Settling, Checked, Conditional, WithEffect, Promised!Ladder,
            FlowFromOld, FlowFromNew
<1>1. CASE k = "exit"
  BY <1>1 DEF Exits, Promised!EXIT_FLOW, fn_exit_flow
<1>2. CASE k = "correction"
  BY <1>2 DEF Corrections, Promised!CORRECTION_FLOW
<1>3. CASE k = "movement"
  BY <1>3 DEF MovementDecisions, MovementApply, Promised!Movements
<1>4. CASE k = "dividend"
  BY <1>4, DeskConstants DEF Dividends, Promised!DIVIDEND_FLOW, fn_dividend_flow
<1>5. CASE k = "dividend_payment"
  BY <1>5 DEF DividendPayments, Promised!DividendPayments
<1> QED
  BY <1>1, <1>2, <1>3, <1>4, <1>5

\* A settled file stays settled on its ladder.
LEMMA SettledForGood ==
  ASSUME NEW k \in Before \cup After, NEW s \in Settling[k]
  PROVE  Promised!Ladder[k][s] \subseteq Settling[k]
<1>1. CASE k \in After
  BY <1>1, SettledAfter
<1> USE DEF Before, Settling, Promised!Ladder
<1>2. CASE k = "exit"
  BY <1>2 DEF Promised!EXIT_FLOW
<1>3. CASE k = "correction"
  BY <1>3 DEF Promised!CORRECTION_FLOW
<1>4. CASE k = "movement"
  BY <1>4 DEF Promised!Movements
<1>5. CASE k = "dividend"
  BY <1>5 DEF Promised!DIVIDEND_FLOW
<1>6. CASE k = "dividend_payment"
  BY <1>6 DEF Promised!DividendPayments
<1> QED
  BY <1>1, <1>2, <1>3, <1>4, <1>5, <1>6

\* A decision that settles the file of a desk that writes afterwards does write.
LEMMA SettlersWrite ==
  ASSUME NEW k \in After, NEW d \in Handlers[k], d.to \in Settling[k]
  PROVE  d.effect = "after"
<1> USE DEF After, Handlers, Settling, Checked, Conditional, WithEffect
<1>1. CASE k \in {"claim", "death_claim"}
  BY <1>1 DEF Claims
<1>2. CASE k = "welfare"
  BY <1>2 DEF SmallWelfare, Welfare
<1>3. CASE k = "large_welfare"
  BY <1>3 DEF LargeWelfare, Welfare
<1>4. CASE k = "branch_opening"
  BY <1>4 DEF BranchOpenings
<1> QED
  BY <1>1, <1>2, <1>3, <1>4

LEMMA AfterBegins ==
  ASSUME NEW k \in After
  PROVE  Settling[k] \cap Promised!First(k) = {}
<1> USE DEF After, Settling, Promised!Ladder, Promised!First
<1>1. CASE k \in {"claim", "death_claim"}
  BY <1>1 DEF Promised!REVIEW_FLOW
<1>2. CASE k \in {"welfare", "large_welfare"}
  BY <1>2 DEF Promised!WELFARE_FLOW
<1>3. CASE k = "branch_opening"
  BY <1>3 DEF Promised!BranchOpenings
<1> QED
  BY <1>1, <1>2, <1>3

LEMMA SettlingDesks == DOMAIN Settling = Before \cup After
BY DEF Settling, Before, After

\* Requests that may still write the consequence of a settled file, and requests
\* that have written it and not yet the status.
MayWrite ==
  {r \in Requests :
     \/ At(r, "effect") /\ req[r].decision.effect \notin Lines
     \/ At(r, "update") /\ req[r].decision.effect = "after" /\ req[r].decision.compares = "read"}

HasWritten == {r \in Requests : At(r, "update") /\ req[r].decision.effect = "before"}

\* How many requests may be under way.
Room == IF alone THEN 1 ELSE Cardinality(Requests)

EffectsAreMeant ==
  \A r \in Requests : At(r, "effect") => req[r].decision.effect \in Writes \cup Lines

\* Once it is settled, only the requests under way write another consequence; before
\* that, each one is that of a request under way or a lost one.
SettlesOnce ==
  /\ Settled => effects + Cardinality(MayWrite) <= lost + Room
  /\ ~Settled => effects <= lost + Cardinality(HasWritten)

\* A request that writes first finds the status it has read, or a settled file.
OnTheWay ==
  desk \in Before =>
    \A r \in Requests :
      Waiting(r) /\ req[r].decision.effect = "before"
        => status \in req[r].decision.from \/ Settled

\* A status that is written first is followed by its consequence, if nothing is lost.
WillBeWritten ==
  desk \in After /\ Settled => effects > 0 \/ lost > 0 \/ \E r \in Requests : At(r, "effect")

SettleInv ==
  /\ EffectsAreMeant
  /\ Settles /\ Strict => SettlesOnce /\ OnTheWay /\ WillBeWritten

LEMMA Slots ==
  ASSUME NEW S \in SUBSET Requests
  PROVE  /\ IsFiniteSet(S) /\ Cardinality(S) \in Nat
         /\ Cardinality(Requests) \in Nat /\ Cardinality(S) <= Cardinality(Requests)
         /\ \A T \in SUBSET S : Cardinality(T) <= Cardinality(S) /\ Cardinality(T) \in Nat
         /\ \A r \in S : Cardinality(S \ {r}) = Cardinality(S) - 1
BY DeskConstants, FS_Subset, FS_CardinalityType, FS_RemoveElement

\* No more requests than there is room for are under way.
LEMMA RoomForBusy ==
  ASSUME OneAtATime, alone \in BOOLEAN, NEW S \in SUBSET {r \in Requests : Busy(r)}
  PROVE  Cardinality(S) <= Room /\ Room \in Nat
<1>1. S \in SUBSET Requests
  OBVIOUS
<1>2. CASE alone
  <2>1. CASE S = {}
    BY <1>2, <2>1, FS_EmptySet DEF Room
  <2>2. ASSUME NEW r \in S PROVE Cardinality(S) = 1
    <3>1. S = {r}
      BY <1>2, <2>2 DEF OneAtATime
    <3> QED
      BY <3>1, FS_Singleton
  <2> QED
    BY <1>2, <2>1, <2>2 DEF Room
<1>3. CASE ~alone
  BY <1>1, <1>3, Slots DEF Room
<1> QED
  BY <1>2, <1>3

LEMMA RoomForBoth ==
  ASSUME OneAtATime, alone \in BOOLEAN
  PROVE  /\ Cardinality(MayWrite) \in Nat /\ Cardinality(HasWritten) \in Nat /\ Room \in Nat
         /\ Cardinality(MayWrite) + Cardinality(HasWritten) <= Room
<1>1. /\ MayWrite \in SUBSET Requests /\ HasWritten \in SUBSET Requests
      /\ MayWrite \cup HasWritten \in SUBSET {r \in Requests : Busy(r)}
      /\ MayWrite \cap HasWritten = {}
  BY DEF MayWrite, HasWritten, At
<1>2. /\ IsFiniteSet(MayWrite) /\ IsFiniteSet(HasWritten)
      /\ Cardinality(MayWrite) \in Nat /\ Cardinality(HasWritten) \in Nat
  BY <1>1, Slots
<1>3. Cardinality(MayWrite \cup HasWritten) <= Room /\ Room \in Nat
  BY <1>1, RoomForBusy
<1>4. Cardinality(MayWrite \cup HasWritten)
        = Cardinality(MayWrite) + Cardinality(HasWritten) - Cardinality(MayWrite \cap HasWritten)
  BY <1>2, FS_Union
<1>5. Cardinality(MayWrite \cap HasWritten) = 0
  BY <1>1, FS_EmptySet
<1> QED
  BY <1>2, <1>3, <1>4, <1>5

\* A step that writes neither the status nor the consequence.
LEMMA CountsStay ==
  ASSUME IInv, SettlesOnce, UNCHANGED <<desk, alone, status, effects>>,
         lost' \in Nat, lost' >= lost, NEW r \in Requests,
         Settled => MayWrite' \subseteq MayWrite,
         ~Settled => \/ HasWritten \subseteq HasWritten'
                     \/ lost' = lost + 1 /\ HasWritten \ {r} \subseteq HasWritten'
  PROVE  SettlesOnce'
<1>1. effects \in Nat /\ lost \in Nat /\ Room' = Room /\ Settled' = Settled
  BY DeskConstants DEF IInv, TypeOK, Room, Settled, Settles
<1>2. /\ MayWrite \in SUBSET Requests /\ MayWrite' \in SUBSET Requests
      /\ HasWritten \in SUBSET Requests /\ HasWritten' \in SUBSET Requests
  BY DEF MayWrite, HasWritten
<1>3. Room \in Nat
  BY RoomForBoth DEF IInv, TypeOK
<1>4. ASSUME Settled PROVE effects' + Cardinality(MayWrite') <= lost' + Room'
  <2>1. Cardinality(MayWrite') <= Cardinality(MayWrite)
        /\ Cardinality(MayWrite') \in Nat /\ Cardinality(MayWrite) \in Nat
    BY <1>2, <1>4, Slots
  <2> QED
    BY <1>1, <1>3, <1>4, <2>1 DEF SettlesOnce
<1>5. ASSUME ~Settled PROVE effects' <= lost' + Cardinality(HasWritten')
  <2>1. Cardinality(HasWritten) \in Nat /\ Cardinality(HasWritten') \in Nat
        /\ effects <= lost + Cardinality(HasWritten)
    BY <1>2, <1>5, Slots DEF SettlesOnce
  <2>2. CASE HasWritten \subseteq HasWritten'
    <3>1. Cardinality(HasWritten) <= Cardinality(HasWritten')
      BY <1>2, <2>2, Slots
    <3> QED
      BY <1>1, <2>1, <3>1
  <2>3. CASE lost' = lost + 1 /\ HasWritten \ {r} \subseteq HasWritten'
    <3>1. /\ Cardinality(HasWritten \ {r}) <= Cardinality(HasWritten')
          /\ Cardinality(HasWritten \ {r}) \in Nat
      BY <1>2, <2>3, Slots
    <3>2. Cardinality(HasWritten \ {r}) >= Cardinality(HasWritten) - 1
      <4>1. CASE r \in HasWritten
        BY <1>2, <2>1, <3>1, <4>1, Slots
      <4>2. CASE r \notin HasWritten
        <5>1. HasWritten \ {r} = HasWritten
          BY <4>2
        <5> QED
          BY <2>1, <5>1
      <4> QED
        BY <4>1, <4>2
    <3> QED
      BY <1>1, <2>1, <2>3, <3>1, <3>2
  <2> QED
    BY <1>5, <2>2, <2>3
<1> QED
  BY <1>1, <1>4, <1>5 DEF SettlesOnce

\* What a busy request is about.
LEMMA BusyDecides ==
  ASSUME IInv, NEW r \in Requests, Busy(r)
  PROVE  req[r].decision \in Handlers[desk] /\ desk \in DOMAIN Handlers
BY DeskConstants DEF IInv, TypeOK, Busy

LEMMA BeginSettles ==
  ASSUME IInv, SettleInv, NEW r \in Requests, NEW d \in Handlers[desk], Begin(r, d)
  PROVE  SettleInv'
<1>1. PICK place \in {"effect", "update"} :
        /\ Goes(r, place, d)
        /\ place = "effect" <=> d.effect \in Lines \cup {"before"}
  BY DEF Begin
<1>2. UNCHANGED <<desk, alone, status, unpaid, effects, skipped, lost>> /\ TypeOK /\ ~Busy(r)
      /\ lost \in Nat
  BY DeskConstants DEF Begin, IInv, TypeOK
<1>3. /\ req'[r] = [at |-> place, decision |-> d] /\ req'[r] # NoRequest
      /\ \A q \in Requests : q # r => req'[q] = req[q]
  BY <1>1, <1>2, GoesOn, OthersStay
<1>4. EffectsAreMeant'
  BY <1>1, <1>3 DEF SettleInv, EffectsAreMeant, Writes, At, Busy
<1>5. ASSUME Settles, Strict
      PROVE  SettlesOnce' /\ OnTheWay' /\ WillBeWritten'
  <2>1. desk \in Before \cup After /\ SettlesOnce /\ OnTheWay /\ WillBeWritten
    BY <1>5, SettlingDesks DEF SettleInv, Settles
  <2>2. d.effect \in Writes /\ d.compares = "read" => ~Settled
    BY <2>1, Consequences DEF Begin, Settled
  <2>3. d.effect = "before" => desk \in Before /\ d.compares = "read"
    BY <2>1, Consequences, OnlyWayOn DEF Writes
  <2>4. r \in MayWrite' => d.effect \in Writes /\ d.compares = "read"
    BY <1>1, <1>3, <2>3 DEF MayWrite, Writes, At
  <2>5. \A q \in Requests : q # r => (q \in MayWrite' <=> q \in MayWrite)
    BY <1>3 DEF MayWrite, At, Busy
  <2>6. Settled => MayWrite' \subseteq MayWrite
    BY <2>2, <2>4, <2>5 DEF MayWrite
  <2>7. HasWritten \subseteq HasWritten'
    BY <1>2, <1>3 DEF HasWritten, At, Busy
  <2>8. SettlesOnce'
    BY <1>2, <2>1, <2>6, <2>7, CountsStay
  <2>9. OnTheWay'
    <3> SUFFICES ASSUME desk \in Before, NEW q \in Requests, Waiting(q)',
                        req'[q].decision.effect = "before"
                 PROVE  status \in req'[q].decision.from \/ Settled
      BY <1>2 DEF OnTheWay, Settled, Settles
    <3>1. CASE q = r
      BY <1>3, <2>3, <3>1 DEF Begin
    <3>2. CASE q # r
      BY <1>3, <2>1, <3>2 DEF OnTheWay, Waiting, At, Busy
    <3> QED
      BY <3>1, <3>2
  <2>10. WillBeWritten'
    <3>1. \A q \in Requests : At(q, "effect") => At(q, "effect")'
      BY <1>2, <1>3 DEF At, Busy
    <3> QED
      BY <1>2, <2>1, <3>1 DEF WillBeWritten, Settled, Settles
  <2> QED
    BY <2>8, <2>9, <2>10
<1> QED
  BY <1>2, <1>4, <1>5 DEF SettleInv, Settles, Strict

LEMMA LoseSettles ==
  ASSUME IInv, SettleInv, NEW r \in Requests, Lose(r)
  PROVE  SettleInv'
<1>1. /\ UNCHANGED <<desk, alone, status, unpaid, effects, skipped>> /\ TypeOK /\ Ends(r)
      /\ lost' = lost + 1 /\ lost \in Nat
  BY DeskConstants DEF Lose, IInv, TypeOK
<1>2. /\ \A q \in Requests : Busy(q)' => q # r /\ req'[q] = req[q] /\ Busy(q)
      /\ \A q \in Requests : q # r => req'[q] = req[q]
  BY <1>1, EndsIdle, OthersStay DEF Busy
<1>3. EffectsAreMeant'
  BY <1>2 DEF SettleInv, EffectsAreMeant, At
<1>4. MayWrite' \subseteq MayWrite /\ HasWritten \ {r} \subseteq HasWritten'
  BY <1>2 DEF MayWrite, HasWritten, At, Busy
<1>5. ASSUME Settles, Strict
      PROVE  SettlesOnce' /\ OnTheWay' /\ WillBeWritten'
  <2>1. SettlesOnce /\ OnTheWay /\ WillBeWritten
    BY <1>5 DEF SettleInv
  <2>2. SettlesOnce'
    BY <1>1, <1>4, <2>1, CountsStay
  <2>3. OnTheWay'
    BY <1>1, <1>2, <2>1 DEF OnTheWay, Waiting, At, Settled, Settles
  <2>4. WillBeWritten'
    BY <1>1 DEF WillBeWritten
  <2> QED
    BY <2>2, <2>3, <2>4
<1> QED
  BY <1>1, <1>3, <1>5 DEF SettleInv, Settles, Strict

\* Marking a line is no consequence of the distribution.
LEMMA MarkPaidSettles ==
  ASSUME IInv, SettleInv, NEW r \in Requests, MarkPaid(r)
  PROVE  SettleInv'
<1> DEFINE d == req[r].decision
<1>1. /\ UNCHANGED <<desk, alone, status, effects, lost>> /\ TypeOK /\ lost \in Nat
      /\ At(r, "effect") /\ Busy(r) /\ d.effect \in Lines /\ Goes(r, "update", d)
  BY DeskConstants DEF MarkPaid, IInv, TypeOK, At
<1>2. d \in Handlers[desk] /\ d.effect \notin Writes
  BY <1>1, BusyDecides, LinesAreDividends
<1>3. /\ req'[r] = [at |-> "update", decision |-> d]
      /\ \A q \in Requests : q # r => req'[q] = req[q]
  BY <1>1, <1>2, GoesOn, OthersStay
<1>4. EffectsAreMeant'
  BY <1>3 DEF SettleInv, EffectsAreMeant, At, Busy
<1>5. MayWrite' \subseteq MayWrite /\ HasWritten \subseteq HasWritten'
  <2>1. r \notin MayWrite' /\ r \notin HasWritten
    BY <1>1, <1>2, <1>3 DEF MayWrite, HasWritten, Writes, At
  <2> QED
    BY <1>3, <2>1 DEF MayWrite, HasWritten, At, Busy
<1>6. ASSUME Settles, Strict
      PROVE  SettlesOnce' /\ OnTheWay' /\ WillBeWritten'
  <2>1. SettlesOnce /\ OnTheWay
    BY <1>6 DEF SettleInv
  <2>2. SettlesOnce'
    BY <1>1, <1>5, <2>1, CountsStay
  <2>3. OnTheWay'
    <3>1. \A q \in Requests : Waiting(q)' => Waiting(q) /\ req'[q].decision = req[q].decision
      BY <1>1, <1>3 DEF Waiting, At, Busy
    <3> QED
      BY <1>1, <2>1, <3>1 DEF OnTheWay, Settled, Settles
  <2>4. WillBeWritten'
    <3>1. desk \notin After
      BY <1>1, <1>2, BusyDecides, LinesAreDividends DEF After
    <3> QED
      BY <1>1, <3>1 DEF WillBeWritten
  <2> QED
    BY <2>2, <2>3, <2>4
<1> QED
  BY <1>1, <1>4, <1>6 DEF SettleInv, Settles, Strict

LEMMA WriteEffectSettles ==
  ASSUME IInv, SettleInv, NEW r \in Requests, WriteEffect(r)
  PROVE  SettleInv'
<1> DEFINE d == req[r].decision
<1>1. /\ UNCHANGED <<desk, alone, status, unpaid, lost>> /\ TypeOK /\ d.effect \notin Lines
      /\ At(r, "effect") /\ Busy(r) /\ effects \in Nat /\ lost \in Nat
      /\ effects' \in {effects, effects + 1}
  BY DeskConstants DEF WriteEffect, pushJournal, IInv, TypeOK, At
<1>2. d \in Handlers[desk] /\ d.effect \in Writes
  BY <1>1, BusyDecides DEF SettleInv, EffectsAreMeant
<1>3. /\ \A q \in Requests : q # r => req'[q] = req[q]
      /\ \/ req'[r] = NoRequest /\ d.effect # "before"
         \/ /\ d.effect = "before" /\ req'[r] # NoRequest
            /\ req'[r] = [at |-> "update", decision |-> d]
  BY <1>1, <1>2, EndsIdle, GoesOn, OthersStay DEF WriteEffect
<1>4. EffectsAreMeant'
  BY <1>3 DEF SettleInv, EffectsAreMeant, At, Busy
<1>5. r \in MayWrite /\ MayWrite' \subseteq MayWrite \ {r} /\ r \notin HasWritten
  <2>1. r \in MayWrite /\ r \notin MayWrite' /\ r \notin HasWritten
    BY <1>1, <1>3 DEF MayWrite, HasWritten, At, Busy
  <2> QED
    BY <1>3, <2>1 DEF MayWrite, At, Busy
<1>6. ASSUME Settles, Strict
      PROVE  SettlesOnce' /\ OnTheWay' /\ WillBeWritten'
  <2>1. desk \in Before \cup After /\ SettlesOnce /\ OnTheWay /\ WillBeWritten
    BY <1>6, SettlingDesks DEF SettleInv, Settles
  <2>2. Settled' = Settled /\ Room' = Room /\ Room \in Nat
    BY <1>1, RoomForBoth DEF Settled, Settles, Room, IInv, TypeOK
  <2>3. MayWrite \in SUBSET Requests /\ HasWritten \in SUBSET Requests /\ HasWritten' \in SUBSET Requests
    BY DEF MayWrite, HasWritten
  <2>4. ASSUME Settled PROVE effects' + Cardinality(MayWrite') <= lost' + Room'
    <3>1. /\ Cardinality(MayWrite \ {r}) = Cardinality(MayWrite) - 1
          /\ Cardinality(MayWrite) \in Nat
          /\ Cardinality(MayWrite') \in Nat /\ Cardinality(MayWrite') <= Cardinality(MayWrite \ {r})
      BY <1>5, <2>3, Slots
    <3>2. effects + Cardinality(MayWrite) <= lost + Room
      BY <2>1, <2>4 DEF SettlesOnce
    <3> QED
      BY <1>1, <2>2, <3>1, <3>2
  <2>5. ASSUME ~Settled PROVE effects' <= lost' + Cardinality(HasWritten')
    <3>1. desk \in Before
      BY <1>1, <1>6, <2>1, <2>5 DEF IInv, SettledFirst
    <3>2. d.effect = "before"
      BY <1>2, <3>1, Consequences
    <3>3. r \in HasWritten' /\ HasWritten \subseteq HasWritten' \ {r}
      BY <1>3, <1>5, <3>2 DEF HasWritten, At, Busy
    <3>4. /\ Cardinality(HasWritten' \ {r}) = Cardinality(HasWritten') - 1
          /\ Cardinality(HasWritten') \in Nat /\ Cardinality(HasWritten) \in Nat
          /\ Cardinality(HasWritten) <= Cardinality(HasWritten' \ {r})
      <4>1. HasWritten' \ {r} \in SUBSET Requests
        BY <2>3
      <4> QED
        BY <2>3, <3>3, <4>1, Slots
    <3>5. effects <= lost + Cardinality(HasWritten)
      BY <2>1, <2>5 DEF SettlesOnce
    <3> QED
      BY <1>1, <3>4, <3>5
  <2>6. OnTheWay'
    <3>1. \A q \in Requests : Waiting(q)' => Waiting(q) /\ req'[q].decision = req[q].decision
      BY <1>1, <1>3 DEF Waiting, At, Busy
    <3> QED
      BY <1>1, <2>1, <2>2, <3>1 DEF OnTheWay
  <2>7. WillBeWritten'
    <3> SUFFICES ASSUME desk \in After PROVE effects' > 0
      BY <1>1 DEF WillBeWritten
    <3>1. desk \notin Unread
      BY DEF Unread, Journalled, After
    <3> QED
      BY <1>1, <3>1 DEF WriteEffect, pushJournal
  <2> QED
    BY <2>2, <2>4, <2>5, <2>6, <2>7 DEF SettlesOnce
<1> QED
  BY <1>1, <1>4, <1>6 DEF SettleInv, Settles, Strict

\* An update of a file that has its consequence written, or is settled.
LEMMA UpdateSettles ==
  ASSUME IInv, SettleInv, NEW r \in Requests, Update(r)
  PROVE  SettleInv'
<1> DEFINE d == req[r].decision
           Matches == (d.compares = "where" => status \in d.from) /\ Accepted(status, d.to)
<1>1. /\ UNCHANGED <<desk, alone, unpaid, effects, skipped, lost>> /\ TypeOK
      /\ At(r, "update") /\ Busy(r) /\ effects \in Nat /\ lost \in Nat
  BY DeskConstants DEF Update, IInv, TypeOK, At
<1>2. d \in Handlers[desk] /\ desk \in DOMAIN Handlers
  BY <1>1, BusyDecides
<1>3. /\ Matches => status' = d.to
      /\ ~Matches => status' = status
      /\ IF Matches /\ d.effect = "after" THEN Goes(r, "effect", d) ELSE Ends(r)
  BY DEF Update
<1>4. /\ \A q \in Requests : q # r => req'[q] = req[q]
      /\ IF Matches /\ d.effect = "after"
         THEN req'[r] = [at |-> "effect", decision |-> d] /\ req'[r] # NoRequest
         ELSE req'[r] = NoRequest
  BY <1>1, <1>2, <1>3, EndsIdle, GoesOn, OthersStay
<1> HIDE DEF Matches
<1>5. EffectsAreMeant'
  BY <1>4 DEF SettleInv, EffectsAreMeant, Writes, At, Busy
<1>6. ASSUME Settles, Strict
      PROVE  SettlesOnce' /\ OnTheWay' /\ WillBeWritten'
  <2>1. desk \in Before \cup After /\ SettlesOnce /\ OnTheWay /\ WillBeWritten
    BY <1>6, SettlingDesks DEF SettleInv, Settles
  <2>2. /\ Settled <=> status \in Settling[desk]
        /\ Settled' <=> status' \in Settling[desk]
        /\ Room' = Room
    BY <1>1, <1>6 DEF Settled, Settles, Room
  <2>3. status' = status \/ status' \in Promised!Ladder[desk][status]
    BY <1>1, <1>3, <1>6, UpdatesKeepLadder DEF Matches
  <2>4. Settled => Settled'
    BY <2>1, <2>2, <2>3, SettledForGood
  <2>5. \A q \in Requests : q # r =>
          /\ q \in MayWrite' <=> q \in MayWrite
          /\ q \in HasWritten' <=> q \in HasWritten
    BY <1>4 DEF MayWrite, HasWritten, At, Busy
  \* The request may write in future what it could write before.
  <2>6. Settled \/ desk \in Before => MayWrite' \subseteq MayWrite
    <3> SUFFICES ASSUME Settled \/ desk \in Before, r \in MayWrite' PROVE r \in MayWrite
      BY <2>5 DEF MayWrite
    <3>1. Matches /\ d.effect = "after"
      BY <1>4 DEF MayWrite, At, Busy
    <3>2. desk \notin Before
      BY <1>2, <3>1, Consequences DEF Writes
    <3>3. d.compares = "read"
      BY <1>2, <2>1, <2>2, <3>1, <3>2, Consequences DEF Matches, Writes
    <3> QED
      BY <1>1, <3>1, <3>3 DEF MayWrite
  \* A request that has written its consequence settles the file.
  <2>7. r \in HasWritten => Settled'
    <3> SUFFICES ASSUME d.effect = "before", ~Settled PROVE Settled'
      BY <2>4 DEF HasWritten
    <3>1. desk \in Before /\ d.compares = "read" /\ d.to \in Settling[desk]
      BY <1>2, <2>1, Consequences, OnlyWayOn DEF Writes
    <3>2. status \in d.from
      BY <1>1, <2>1, <3>1 DEF OnTheWay, Waiting
    <3>3. Matches
      BY <1>2, <3>1, <3>2, OnlyWayOn DEF Matches, Accepted
    <3> QED
      BY <1>3, <2>2, <3>1, <3>3
  <2>8. SettlesOnce'
    <3>1. /\ Cardinality(MayWrite) \in Nat /\ Cardinality(HasWritten) \in Nat /\ Room \in Nat
          /\ Cardinality(MayWrite) + Cardinality(HasWritten) <= Room
      BY <1>1, RoomForBoth DEF IInv, TypeOK
    <3>2. /\ Cardinality(MayWrite') \in Nat /\ Cardinality(HasWritten') \in Nat
          /\ Cardinality(MayWrite') + Cardinality(HasWritten') <= Room
      <4>1. TypeOK' /\ OneAtATime'
        BY UpdateKeeps DEF IInv
      <4>2. /\ MayWrite' \in SUBSET Requests /\ HasWritten' \in SUBSET Requests
            /\ MayWrite' \cup HasWritten' \in SUBSET {q \in Requests : Busy(q)'}
            /\ MayWrite' \cap HasWritten' = {}
        BY DEF MayWrite, HasWritten, At
      <4>3. (OneAtATime /\ alone \in BOOLEAN =>
               /\ Cardinality(MayWrite) \in Nat /\ Cardinality(HasWritten) \in Nat
               /\ Cardinality(MayWrite) + Cardinality(HasWritten) <= Room)'
        BY RoomForBoth, PTL
      <4> QED
        BY <2>2, <4>1, <4>3 DEF TypeOK
    <3>3. Settled => effects + Cardinality(MayWrite) <= lost + Room
      BY <2>1 DEF SettlesOnce
    <3>4. ~Settled => effects <= lost + Cardinality(HasWritten)
      BY <2>1 DEF SettlesOnce
    <3>5. MayWrite \in SUBSET Requests /\ HasWritten' \in SUBSET Requests
      BY DEF MayWrite, HasWritten
    <3>6. MayWrite' \subseteq MayWrite => Cardinality(MayWrite') <= Cardinality(MayWrite)
      BY <3>5, Slots
    <3>7. desk \in After /\ ~Settled => effects = 0
      BY <1>1, <1>6 DEF IInv, Backed, After
    <3>8. ASSUME Settled' PROVE effects' + Cardinality(MayWrite') <= lost' + Room'
      BY <1>1, <2>1, <2>2, <2>6, <3>1, <3>2, <3>3, <3>4, <3>6, <3>7
    <3>9. ASSUME ~Settled' PROVE effects' <= lost' + Cardinality(HasWritten')
      <4>1. HasWritten \subseteq HasWritten'
        BY <2>5, <2>7, <3>9 DEF HasWritten
      <4>2. Cardinality(HasWritten) <= Cardinality(HasWritten')
        BY <3>5, <4>1, Slots
      <4> QED
        BY <1>1, <2>4, <3>1, <3>2, <3>4, <3>9, <4>2
    <3> QED
      BY <3>8, <3>9 DEF SettlesOnce
  <2>9. OnTheWay'
    <3> SUFFICES ASSUME desk \in Before, NEW q \in Requests, Waiting(q)',
                        req'[q].decision.effect = "before"
                 PROVE  status' \in req'[q].decision.from \/ Settled'
      BY <1>1 DEF OnTheWay
    <3>1. q # r /\ req'[q] = req[q] /\ Waiting(q) /\ Busy(q)
      BY <1>4 DEF Waiting, At, Busy
    <3>2. status \in req[q].decision.from \/ Settled
      BY <2>1, <3>1 DEF OnTheWay
    <3>3. req[q].decision \in Handlers[desk]
      BY <3>1, BusyDecides
    <3>4. ASSUME status \in req[q].decision.from, status' # status
          PROVE  Settled'
      BY <2>2, <2>3, <3>1, <3>3, <3>4, OnlyWayOn
    <3> QED
      BY <2>4, <3>1, <3>2, <3>4
  <2>10. WillBeWritten'
    <3> SUFFICES ASSUME desk \in After, Settled'
                 PROVE  effects > 0 \/ lost > 0 \/ \E q \in Requests : At(q, "effect")'
      BY <1>1 DEF WillBeWritten
    <3>1. CASE Settled
      <4>1. \A q \in Requests : At(q, "effect") => At(q, "effect")'
        BY <1>1, <1>4 DEF At, Busy
      <4> QED
        BY <2>1, <3>1, <4>1 DEF WillBeWritten
    <3>2. CASE ~Settled
      <4>1. Matches /\ d.to \in Settling[desk]
        BY <1>3, <2>2, <3>2
      <4>2. d.effect = "after"
        BY <1>2, <4>1, SettlersWrite
      <4> QED
        BY <1>4, <4>1, <4>2 DEF At, Busy
    <3> QED
      BY <3>1, <3>2
  <2> QED
    BY <2>8, <2>9, <2>10
<1> QED
  BY <1>1, <1>5, <1>6 DEF SettleInv, Settles, Strict

LEMMA StepsSettle == IInv /\ SettleInv /\ [Next]_vars => SettleInv'
<1> SUFFICES ASSUME IInv, SettleInv, [Next]_vars PROVE SettleInv'
  OBVIOUS
<1>1. ASSUME NEW r \in Requests, NEW d \in Handlers[desk], Begin(r, d) PROVE SettleInv'
  BY <1>1, BeginSettles
<1>2. ASSUME NEW r \in Requests, Serve(r) \/ Lose(r) PROVE SettleInv'
  BY <1>2, WriteEffectSettles, MarkPaidSettles, UpdateSettles, LoseSettles DEF Serve
<1>3. CASE UNCHANGED vars
  BY <1>3 DEF vars, SettleInv, EffectsAreMeant, SettlesOnce, OnTheWay, WillBeWritten, MayWrite,
              HasWritten, Room, Waiting, At, Busy, Strict, Settled, Settles
<1> QED
  BY <1>1, <1>2, <1>3 DEF Next

LEMMA SettlesFromStart == Init => SettleInv
<1> SUFFICES ASSUME Init PROVE SettleInv
  OBVIOUS
<1>1. \A r \in Requests : ~Busy(r)
  BY DEF Init, Busy
<1>2. effects = 0 /\ lost \in Nat
  BY DEF Init
<1>3. EffectsAreMeant /\ OnTheWay
  BY <1>1 DEF EffectsAreMeant, OnTheWay, Waiting, At
<1>4. ~Settled
  BY BeforeBegins, AfterBegins, SettlingDesks DEF Init, Settled, Settles
<1>5. Cardinality(HasWritten) = 0
  <2>1. HasWritten = {}
    BY <1>1 DEF HasWritten, At
  <2> QED
    BY <2>1, FS_EmptySet
<1> QED
  BY <1>2, <1>3, <1>4, <1>5 DEF SettleInv, SettlesOnce, WillBeWritten

\* A file is settled no more often than requests overlap or are lost, at every desk that
\* keeps to its ladder.
THEOREM SettlesNoOftener == Spec => []SettledOnce
<1>1. IInv /\ SettleInv => SettledOnce
  <2> SUFFICES ASSUME IInv, SettleInv, Settles, Strict PROVE effects <= lost + Room
    BY DEF SettledOnce, Room
  <2>1. /\ Cardinality(MayWrite) \in Nat /\ Cardinality(HasWritten) \in Nat /\ Room \in Nat
        /\ Cardinality(MayWrite) + Cardinality(HasWritten) <= Room
        /\ effects \in Nat /\ lost \in Nat
    BY RoomForBoth, DeskConstants DEF IInv, TypeOK
  <2> QED
    BY <2>1 DEF SettleInv, SettlesOnce
<1> QED
  BY <1>1, Initially, StepsKeep, SettlesFromStart, StepsSettle, PTL DEF Spec

\* Once no request is under way and if none was lost, a file is settled exactly if its
\* consequence was written.
THEOREM BooksStayInAgreement == Spec => []BooksAgree
<1>1. IInv /\ SettleInv => BooksAgree
  <2> SUFFICES ASSUME IInv, SettleInv, Settles, Strict, lost = 0, ~skipped,
                      \A r \in Requests : ~Busy(r)
               PROVE  Settled <=> effects > 0
    BY DEF BooksAgree
  <2>1. effects \in Nat
    BY DEF IInv, TypeOK
  <2>2. ASSUME Settled PROVE effects > 0
    <3>1. CASE desk \in Before
      BY <2>2, <3>1 DEF IInv, DoneIsWritten, Before
    <3>2. CASE desk \in After
      BY <2>2, <3>2 DEF SettleInv, WillBeWritten, At
    <3> QED
      BY <3>1, <3>2, SettlingDesks DEF Settles
  <2>3. ASSUME ~Settled PROVE effects = 0
    <3>1. HasWritten = {}
      BY DEF HasWritten, At
    <3>2. Cardinality(HasWritten) = 0
      BY <3>1, FS_EmptySet
    <3> QED
      BY <2>1, <2>3, <3>2 DEF SettleInv, SettlesOnce
  <2> QED
    BY <2>2, <2>3
<1> QED
  BY <1>1, Initially, StepsKeep, SettlesFromStart, StepsSettle, PTL DEF Spec
=============================================================================
