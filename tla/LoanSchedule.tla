----------------------------- MODULE LoanSchedule -----------------------------
(***************************************************************************)
(* From an approved application to its repayment schedule, and the one     *)
(* reschedule it may have: PATCH /disbursements/:applicationId and POST    *)
(* /disbursements/:applicationId/execute of loans.routes.ts, POST          *)
(* /settlement/reschedule and /settlement/reschedules/:id/decision of      *)
(* collection.routes.ts, over the tables and triggers of migrations 0012,  *)
(* 0016, 0018 and 0022.                                                    *)
(*                                                                         *)
(* Paying out is a chain of queries: the cash of the day is summed, the    *)
(* record is looked up and written, the old schedule is deleted, the new   *)
(* one inserted, the application marked.  Rescheduling moves the rows one  *)
(* by one before it writes the decision.  Other requests run in between, a *)
(* restart may fall between any two queries, and a query may fail: of the  *)
(* queries whose error nobody reads, the request goes on as if they had    *)
(* found, or done, nothing.                                                *)
(*                                                                         *)
(* Every loan is one unit of cash, repaid in weekly installments; none is  *)
(* paid yet, payments are CollectionPosting's.  Of the dates a schedule    *)
(* has, the model keeps the day it was computed for and the week in which  *)
(* each row is due.                                                        *)
(***************************************************************************)
EXTENDS Integers, FiniteSets

CONSTANTS
  Applications,  \* approved applications of one branch
  PaidOut,       \* those that were paid out before
  Days,          \* disbursement dates
  CashLimit,     \* branch_cash_limits.cash_limit, in loans
  SentLimits,    \* limits clients send instead of it
  Rows,          \* number of installments
  Reschedules,   \* reschedule requests that may be made
  LoanOf,        \* the application of each
  Requests,      \* requests the API serves at the same time
  NoRequest,     \* an idle slot
  None,          \* no record, no schedule
  MaxLosses,     \* bound on the requests lost and the errors not read
  Shift,         \* shift_installments of every request
  MaxWeek        \* bound on the weeks rows are moved to

Modes == {"cash", "transfer"}

Record ==
  [status : {"pending", "completed"}, checks : {"open", "done"},
   mode : Modes \cup {"none"}, day : Days \cup {None}]

Schedule == [day : Days, due : [1..Rows -> 1..MaxWeek]]

\* Requests: the query each is at, and what it has read or is going to write.
Preparation ==
  [at : {"prepare"}, app : Applications, found : BOOLEAN, checks : {"open", "done"}]

Execution ==
  [at : {"existing", "write", "delete", "insert", "mark"}, app : Applications,
   found : BOOLEAN, mode : Modes, day : Days]

Asking == [at : {"ask"}, ask : Reschedules]

Ruling ==
  [at : {"move"}, ask : Reschedules, row : 1..Rows, read : [1..Rows -> 1..MaxWeek]] \cup
  [at : {"rule"}, ask : Reschedules, to : {"approved", "rejected"}]

Request == Preparation \cup Execution \cup Asking \cup Ruling

ASSUME ScheduleConstants ==
  /\ IsFiniteSet(Applications) /\ PaidOut \subseteq Applications
  /\ IsFiniteSet(Requests) /\ Requests # {}
  /\ CashLimit \in Nat /\ SentLimits \subseteq Nat
  /\ Rows \in Nat \ {0} /\ Shift \in 1..Rows /\ MaxWeek \in Nat /\ MaxWeek >= Rows
  /\ MaxLosses \in Nat
  /\ LoanOf \in [Reschedules -> Applications]
  /\ NoRequest \notin Request
  /\ None \notin Record \cup Schedule \cup Days

VARIABLES
  app,         \* loan_applications.status
  record,      \* loan_disbursements: the row of each application
  schedule,    \* loan_repayment_schedule: the rows of each application
  reschedule,  \* loan_reschedules.status, "none" before the request is made
  lost,        \* requests lost half way
  unread,      \* queries that failed and whose error was not read
  req          \* the request in each slot

vars == <<app, record, schedule, reschedule, lost, unread, req>>

TypeOK ==
  /\ app \in [Applications -> {"approved", "disbursed"}]
  /\ record \in [Applications -> Record \cup {None}]
  /\ schedule \in [Applications -> Schedule \cup {None}]
  /\ reschedule \in [Reschedules -> {"none", "pending", "approved", "rejected"}]
  /\ lost \in 0..MaxLosses /\ unread \in 0..MaxLosses
  /\ req \in [Requests -> Request \cup {NoRequest}]

Weekly == [i \in 1..Rows |-> i]

\* Payouts of an earlier day; they too have stayed approved.
Init ==
  \E day \in Days :
    /\ app = [a \in Applications |-> "approved"]
    /\ record = [a \in Applications |->
         IF a \in PaidOut
         THEN [status |-> "completed", checks |-> "done", mode |-> "transfer", day |-> day]
         ELSE None]
    /\ schedule = [a \in Applications |->
         IF a \in PaidOut THEN [day |-> day, due |-> Weekly] ELSE None]
    /\ reschedule = [x \in Reschedules |-> "none"]
    /\ lost = 0 /\ unread = 0
    /\ req = [r \in Requests |-> NoRequest]

-----------------------------------------------------------------------------
(* Requests and what they read *)

Busy(r) == req[r] # NoRequest

At(r, place) == Busy(r) /\ req[r].at = place

Becomes(r, q) == req' = [req EXCEPT ![r] = q]

Starts(r, q) == ~Busy(r) /\ Becomes(r, q)

Goes(r, place) == Becomes(r, [req[r] EXCEPT !.at = place])

Ends(r) == Becomes(r, NoRequest)

\* A query whose error is not read: it is answered, or taken to find nothing.
Answered(ok) ==
  IF ok THEN UNCHANGED unread
  ELSE lost + unread < MaxLosses /\ unread' = unread + 1

Completed(a) == record[a] # None /\ record[a].status = "completed"

\* Payouts in cash on a day, those of the applications in A.
CashOut(A, day) ==
  Cardinality({a \in A : Completed(a) /\ record[a].mode = "cash" /\ record[a].day = day})

\* enforce_loan_status_transition refuses every change to disbursed.
MayBecome(a, status) ==
  status = app[a] \/ status \notin {"draft", "disbursed", "closed"}

-----------------------------------------------------------------------------
(* PATCH /disbursements/:applicationId *)

\* The checks sent are merged into those found; the result may be complete.
Prepare(r, a, checks, ok) ==
  /\ app[a] = "approved"
  /\ Starts(r, [at |-> "prepare", app |-> a, found |-> ok /\ record[a] # None, checks |-> checks])
  /\ Answered(ok)
  /\ UNCHANGED <<app, record, schedule, reschedule, lost>>

\* A second insert for the application violates its unique key, and a completed
\* record keeps its checks: enforce_disbursement_completion.
SavePreparation(r) ==
  LET q == req[r] IN
  /\ At(r, "prepare")
  /\ \/ /\ ~q.found /\ record[q.app] = None
        /\ record' = [record EXCEPT ![q.app] =
             [status |-> "pending", checks |-> q.checks, mode |-> "none", day |-> None]]
     \/ /\ q.found /\ (Completed(q.app) => q.checks = "done")
        /\ record' = [record EXCEPT ![q.app].checks = q.checks]
     \/ /\ IF q.found THEN Completed(q.app) /\ q.checks = "open" ELSE record[q.app] # None
        /\ UNCHANGED record
  /\ Ends(r)
  /\ UNCHANGED <<app, schedule, reschedule, lost, unread>>

-----------------------------------------------------------------------------
(* POST /disbursements/:applicationId/execute *)

\* Variant without the branch's cash limit.
ExecuteUnlimited(r, a, mode, day, limit, ok) ==
  /\ app[a] = "approved"
  /\ Starts(r, [at |-> "existing", app |-> a, found |-> FALSE, mode |-> mode, day |-> day])
  /\ Answered(ok)
  /\ UNCHANGED <<app, record, schedule, reschedule, lost>>

\* All checks are sent as done. Cash is paid within the limit of the branch, or
\* the one the client sends; a sum that is not answered is zero.
Execute(r, a, mode, day, limit, ok) ==
  /\ app[a] = "approved"
  /\ mode = "cash" => (IF ok THEN CashOut(Applications \ {a}, day) ELSE 0) + 1 <= limit
  /\ Starts(r, [at |-> "existing", app |-> a, found |-> FALSE, mode |-> mode, day |-> day])
  /\ Answered(ok)
  /\ UNCHANGED <<app, record, schedule, reschedule, lost>>

\* A completed record is a conflict.
FindRecord(r, ok) ==
  LET a == req[r].app IN
  /\ At(r, "existing")
  /\ IF ok /\ Completed(a) THEN Ends(r)
     ELSE Becomes(r, [req[r] EXCEPT !.at = "write", !.found = ok /\ record[a] # None])
  /\ Answered(ok)
  /\ UNCHANGED <<app, record, schedule, reschedule, lost>>

\* Variant that takes the payout of an overlapping execution for its own.
WriteShared(r) ==
  LET q == req[r] IN
  /\ At(r, "write")
  /\ IF Completed(q.app) THEN Goes(r, "delete") /\ UNCHANGED record
     ELSE IF q.found \/ record[q.app] # None THEN Ends(r) /\ UNCHANGED record
     ELSE /\ record' = [record EXCEPT ![q.app] =
               [status |-> "completed", checks |-> "done", mode |-> q.mode, day |-> q.day]]
          /\ Goes(r, "delete")
  /\ UNCHANGED <<app, schedule, reschedule, lost, unread>>

\* Variant in which a second record replaces the first (an upsert).
WriteOver(r) ==
  LET q == req[r] IN
  /\ At(r, "write")
  /\ IF q.found THEN Ends(r) /\ UNCHANGED record
     ELSE /\ record' = [record EXCEPT ![q.app] =
               [status |-> "completed", checks |-> "done", mode |-> q.mode, day |-> q.day]]
          /\ Goes(r, "delete")
  /\ UNCHANGED <<app, schedule, reschedule, lost, unread>>

\* The record is inserted as completed. One that was prepared before is updated
\* in vain: enforce_disbursement_authorization asks for a preparer and a loan
\* number, which this API never writes.
WriteRecord(r) ==
  LET q == req[r] IN
  /\ At(r, "write")
  /\ IF q.found \/ record[q.app] # None THEN Ends(r) /\ UNCHANGED record
     ELSE /\ record' = [record EXCEPT ![q.app] =
               [status |-> "completed", checks |-> "done", mode |-> q.mode, day |-> q.day]]
          /\ Goes(r, "delete")
  /\ UNCHANGED <<app, schedule, reschedule, lost, unread>>

DeleteSchedule(r, ok) ==
  /\ At(r, "delete")
  /\ schedule' = IF ok THEN [schedule EXCEPT ![req[r].app] = None] ELSE schedule
  /\ Goes(r, "insert")
  /\ Answered(ok)
  /\ UNCHANGED <<app, record, reschedule, lost>>

\* Variant that goes on without the rows.
InsertForgets(r) ==
  /\ At(r, "insert")
  /\ Goes(r, "mark")
  /\ UNCHANGED <<app, record, schedule, reschedule, lost, unread>>

\* All rows in one insert; rows that are there already violate the unique key.
InsertSchedule(r) ==
  LET a == req[r].app IN
  /\ At(r, "insert")
  /\ IF schedule[a] = None
     THEN /\ schedule' = [schedule EXCEPT ![a] =
               [day |-> req[r].day, due |-> Weekly]]
          /\ Goes(r, "mark")
     ELSE Ends(r) /\ UNCHANGED schedule
  /\ UNCHANGED <<app, record, reschedule, lost, unread>>

MarkDisbursed(r) ==
  LET a == req[r].app IN
  /\ At(r, "mark")
  /\ app' = [app EXCEPT ![a] = IF MayBecome(a, "disbursed") THEN "disbursed" ELSE @]
  /\ Ends(r)
  /\ UNCHANGED <<record, schedule, reschedule, lost, unread>>

-----------------------------------------------------------------------------
(* POST /settlement/reschedule and POST /settlement/reschedules/:id/decision *)

Rescheduled(a) == {x \in Reschedules : LoanOf[x] = a /\ reschedule[x] = "approved"}

\* Requests are not refused because another is pending, nor when the query for
\* the one that is approved finds two: that too is an error.
AskReschedule(r, x, ok) ==
  /\ reschedule[x] = "none"
  /\ \A s \in Requests : req[s] # [at |-> "ask", ask |-> x]
  /\ ok => Cardinality(Rescheduled(LoanOf[x])) # 1
  /\ Starts(r, [at |-> "ask", ask |-> x])
  /\ Answered(ok)
  /\ UNCHANGED <<app, record, schedule, reschedule, lost>>

SaveAsk(r) ==
  /\ At(r, "ask")
  /\ reschedule' = [reschedule EXCEPT ![req[r].ask] = "pending"]
  /\ Ends(r)
  /\ UNCHANGED <<app, record, schedule, lost, unread>>

\* Variant that decides before it moves the rows.
RuleFirst(r, x, to, ok) ==
  /\ reschedule[x] = "pending"
  /\ Starts(r, [at |-> "rule", ask |-> x, to |-> to])
  /\ Answered(ok)
  /\ UNCHANGED <<app, record, schedule, reschedule, lost>>

\* An approval reads the rows and goes on to move the first of them; those that
\* a loan without schedule does not have are not moved.
Rule(r, x, to, ok) ==
  LET a == LoanOf[x] IN
  /\ reschedule[x] = "pending"
  /\ IF to = "approved" /\ ok /\ schedule[a] # None
     THEN /\ \A i \in 1..Rows : schedule[a].due[i] + Shift <= MaxWeek
          /\ Starts(r, [at |-> "move", ask |-> x, row |-> 1, read |-> schedule[a].due])
     ELSE Starts(r, [at |-> "rule", ask |-> x, to |-> to])
  /\ Answered(ok)
  /\ UNCHANGED <<app, record, schedule, reschedule, lost>>

\* Each row in a query of its own, by its rank: the first by a week, the second
\* by two.
MoveRow(r, ok) ==
  LET q == req[r] IN
  /\ At(r, "move")
  /\ schedule' = IF ok THEN [schedule EXCEPT ![LoanOf[q.ask]].due[q.row] = q.read[q.row] + q.row]
                 ELSE schedule
  /\ Becomes(r, IF q.row < Shift THEN [q EXCEPT !.row = @ + 1]
                ELSE [at |-> "rule", ask |-> q.ask, to |-> "approved"])
  /\ Answered(ok)
  /\ UNCHANGED <<app, record, reschedule, lost>>

\* Whether the trigger lets a ruling pass: from pending to approved it always fails,
\* by a column its table does not have.  Over a rejection that was saved meanwhile
\* it has nothing to do.
fn_apply_reschedule(x, to) == ~(to = "approved" /\ reschedule[x] = "pending")

\* A ruling that is refused leaves the rows moved and the request pending.
SaveRuling(r) ==
  LET q == req[r] IN
  /\ At(r, "rule")
  /\ reschedule' = IF fn_apply_reschedule(q.ask, q.to)
                   THEN [reschedule EXCEPT ![q.ask] = q.to] ELSE reschedule
  /\ Ends(r)
  /\ UNCHANGED <<app, record, schedule, lost, unread>>

-----------------------------------------------------------------------------
(* The server restarts or the database fails. *)
Lose(r) ==
  /\ Busy(r)
  /\ lost + unread < MaxLosses
  /\ lost' = lost + 1
  /\ Ends(r)
  /\ UNCHANGED <<app, record, schedule, reschedule, unread>>

Serve(r) ==
  \/ SavePreparation(r)
  \/ WriteRecord(r) \/ InsertSchedule(r) \/ MarkDisbursed(r)
  \/ SaveAsk(r) \/ SaveRuling(r)

Next ==
  \E r \in Requests :
    \/ \E ok \in BOOLEAN :
         \/ \E a \in Applications, checks \in {"open", "done"} : Prepare(r, a, checks, ok)
         \/ \E a \in Applications, mode \in Modes, day \in Days,
              limit \in {CashLimit} \cup SentLimits : Execute(r, a, mode, day, limit, ok)
         \/ FindRecord(r, ok)
         \/ DeleteSchedule(r, ok)
         \/ \E x \in Reschedules : AskReschedule(r, x, ok)
         \/ \E x \in Reschedules, to \in {"approved", "rejected"} : Rule(r, x, to, ok)
         \/ MoveRow(r, ok)
    \/ Serve(r)
    \/ Lose(r)

Spec == Init /\ [][Next]_vars

-----------------------------------------------------------------------------
(* Properties *)

\* A loan is paid out once: whatever is prepared or executed later, a completed
\* record keeps its mode and its day.
CompletedForGood ==
  [][\A a \in Applications : Completed(a) => record'[a] = record[a]]_vars

\* The installments that are collected are those of the payout: they were
\* computed for its day, and there are none for a loan that was not paid out.
ScheduleMatches ==
  \A a \in Applications :
    schedule[a] # None => Completed(a) /\ schedule[a].day = record[a].day

\* Payouts that sum the day's cash at the same time may exceed the branch's limit
\* together, each by the others: by less than the number of requests, and by one
\* for each sum that failed and was taken for zero, never more.
CashBounded ==
  SentLimits = {} =>
    \A day \in Days :
      CashOut(Applications, day) < CashLimit + Cardinality(Requests) + unread

\* The execution that has written the record of a, and not yet its schedule.
Paying(a) ==
  \E r \in Requests :
    Busy(r) /\ req[r].at \in {"delete", "insert"} /\ req[r].app = a

\* A payout has its schedule, unless its request was lost half way or is on its
\* way: the conflict of a second execution never leaves a loan without one.
PaidHasSchedule ==
  lost = 0 => \A a \in Applications : Completed(a) /\ ~Paying(a) => schedule[a] # None

\* An approved reschedule has moved the rows it speaks of, though requests are
\* lost between the rows or overlap on the same loan: rows first, then the ruling.
\* Only a move whose error was not read leaves a row behind.
ApprovedIsMoved ==
  unread = 0 =>
    \A x \in Reschedules :
      reschedule[x] = "approved" /\ LoanOf[x] \in PaidOut
        => \A i \in 1..Shift : schedule[LoanOf[x]].due[i] > i
=============================================================================
