------------------------------ MODULE Messaging ------------------------------
(***************************************************************************)
(* Sending SMS in comms-live.routes.ts: POST /send (sendMessageLive) and   *)
(* POST /deliveries/retry-due, over message_deliveries and the spend       *)
(* counters of migration 0052.                                             *)
(*                                                                         *)
(* A message is dispatched to the provider before its row is written, and  *)
(* the counters are read and written back after it.  A retry reads the     *)
(* rows that are due and claims none of them.  Requests overlap, unless    *)
(* they come one at a time, and may be lost between two queries.  Counters *)
(* that cannot be read are taken for zero, rules that cannot be read for   *)
(* DEFAULT_COMM_RULES, and a provider that does not answer for one that    *)
(* has refused the message, though it may have taken it.                   *)
(*                                                                         *)
(* Every message is one part and costs one unit; what the provider does    *)
(* and which rows are due is left open.  The other channels cost nothing.  *)
(***************************************************************************)
EXTENDS Integers, FiniteSets, Functions

CONSTANTS
  Messages,    \* messages that may be sent
  LastDay,     \* the days of one month the model covers, from 1
  DailyCap,    \* daily_cost_cap, in messages, one at least, by rules: those of the
               \* organization and the default ones
  MonthlyCap,  \* monthly_cost_cap, by rules
  MaxRetries,  \* max_retries, by rules
  Requests,    \* requests the API serves at the same time
  NoRequest,   \* an idle slot
  None,        \* no row
  MaxLosses    \* bound on the requests, readings and answers of the provider that are lost

Days == 1..LastDay

Rules == {"org", "default"}

\* "blocked" stands for opted_out, outside_window, cap_blocked and for the failure to
\* find a template: the message has not been given to the provider and never will.
Row == [status : {"blocked", "sent", "retrying", "failed"}, attempts : Nat]

Spend == [daily : Nat, monthly : Nat]

\* A retry has the rows it read, todo, and the attempts each of them had; a send
\* has its message only.  Both keep the rules they follow and what they are going to
\* write.
Request ==
  [kind : {"send", "retry"}, rules : Rules, at : {"cap", "dispatch", "record", "read", "bump"},
   todo : SUBSET Messages, attempts : [Messages -> Nat], message : Messages,
   day : Days, outcome : Row, spent : Spend]

ASSUME MessagingConstants ==
  /\ IsFiniteSet(Messages) /\ IsFiniteSet(Requests)
  /\ LastDay \in Nat \ {0}
  /\ DailyCap \in [Rules -> Nat \ {0}]
  /\ MonthlyCap \in [Rules -> Nat] /\ MaxRetries \in [Rules -> Nat]
  /\ MaxLosses \in Nat
  /\ NoRequest \notin Request
  /\ None \notin Row \cup Spend

VARIABLES
  alone,      \* whether requests come one at a time
  today,      \* the date
  rows,       \* message_deliveries: the row of each message
  spend,      \* comm_spend: the row of each day
  delivered,  \* how often the provider has taken each message
  sends,      \* messages it has taken from POST /send, by day
  lost,       \* requests lost half way, readings of the rules and counters, and
              \* answers of the provider
  req         \* the request in each slot

vars == <<alone, today, rows, spend, delivered, sends, lost, req>>

TypeOK ==
  /\ alone \in BOOLEAN
  /\ today \in Days
  /\ rows \in [Messages -> Row \cup {None}]
  /\ spend \in [Days -> Spend \cup {None}]
  /\ delivered \in [Messages -> Nat]
  /\ sends \in [Days -> Nat]
  /\ lost \in 0..MaxLosses
  /\ req \in [Requests -> Request \cup {NoRequest}]

Init ==
  /\ alone \in BOOLEAN
  /\ today = 1
  /\ rows = [m \in Messages |-> None]
  /\ spend = [d \in Days |-> None]
  /\ delivered = [m \in Messages |-> 0]
  /\ sends = [d \in Days |-> 0]
  /\ lost = 0
  /\ req = [r \in Requests |-> NoRequest]

-----------------------------------------------------------------------------
Busy(r) == req[r] # NoRequest

At(r, place) == Busy(r) /\ req[r].at = place

Becomes(r, q) == req' = [req EXCEPT ![r] = q]

Ends(r) == Becomes(r, NoRequest)

Starts(r, q) ==
  /\ ~Busy(r)
  /\ alone => \A s \in Requests : ~Busy(s)
  /\ Becomes(r, q)

Nothing == [daily |-> 0, monthly |-> 0]

\* A day without a row has spent nothing, in its month as well.
spendFor(d) == IF spend[d] = None THEN Nothing ELSE spend[d]

\* The counters as a request reads them: nothing, if the query fails.
Read(d, ok) == IF ok THEN spendFor(d) ELSE Nothing

\* A query or the provider has answered, or the answer is lost.
Answered(ok) ==
  IF ok THEN UNCHANGED lost
  ELSE lost < MaxLosses /\ lost' = lost + 1

\* loadRules: the default ones, if the query fails.
loadRules(ok) == IF ok THEN "org" ELSE "default"

nextRetryAt(attempt, rules) == attempt <= MaxRetries[rules]

\* What is written after attempt number n.
Outcome(accepted, n, rules) ==
  [status |-> IF accepted THEN "sent"
              ELSE IF nextRetryAt(n, rules) THEN "retrying" ELSE "failed",
   attempts |-> n]

Midnight ==
  /\ today < LastDay
  /\ today' = today + 1
  /\ UNCHANGED <<alone, rows, spend, delivered, sends, lost, req>>

-----------------------------------------------------------------------------
(* POST /send *)

\* The recipient may have opted out, the hour may be outside the window, the
\* template may be missing.
Send(r, m, verdict, ok) ==
  /\ rows[m] = None
  /\ \A s \in Requests : Busy(s) => req[s].message # m
  /\ Starts(r, [kind |-> "send", rules |-> loadRules(ok),
                at |-> IF verdict = "queued" THEN "cap" ELSE "record",
                todo |-> {m}, attempts |-> [n \in Messages |-> 0], message |-> m,
                day |-> today, spent |-> Nothing,
                outcome |-> [status |-> "blocked", attempts |-> 1]])
  /\ Answered(ok)
  /\ UNCHANGED <<alone, today, rows, spend, delivered, sends>>

assertWithinCaps(s, rules) ==
  s.daily + 1 <= DailyCap[rules] /\ s.monthly + 1 <= MonthlyCap[rules]

\* Variant that looks at the monthly cap only.
CheckCapsMonthly(r, ok) ==
  /\ At(r, "cap")
  /\ Becomes(r, IF Read(req[r].day, ok).monthly + 1 <= MonthlyCap[req[r].rules]
                THEN [req[r] EXCEPT !.at = "dispatch"]
                ELSE [req[r] EXCEPT !.at = "record", !.outcome.status = "blocked"])
  /\ Answered(ok)
  /\ UNCHANGED <<alone, today, rows, spend, delivered, sends>>

\* Variant that leaves the status a send begins with.
CheckCapsQueued(r, ok) ==
  /\ At(r, "cap")
  /\ Becomes(r, IF assertWithinCaps(Read(req[r].day, ok), req[r].rules)
                THEN [req[r] EXCEPT !.at = "dispatch"]
                ELSE [req[r] EXCEPT !.at = "record", !.outcome.status = "queued"])
  /\ Answered(ok)
  /\ UNCHANGED <<alone, today, rows, spend, delivered, sends>>

CheckCaps(r, ok) ==
  /\ At(r, "cap")
  /\ Becomes(r, IF assertWithinCaps(Read(req[r].day, ok), req[r].rules)
                THEN [req[r] EXCEPT !.at = "dispatch"]
                ELSE [req[r] EXCEPT !.at = "record", !.outcome.status = "blocked"])
  /\ Answered(ok)
  /\ UNCHANGED <<alone, today, rows, spend, delivered, sends>>

-----------------------------------------------------------------------------
(* POST /deliveries/retry-due *)

Retrying == {m \in Messages : rows[m] # None /\ rows[m].status = "retrying"}

\* What a retry knows of a row it has not sent yet: no outcome, no day, no counters.
Fresh == [day |-> 1, spent |-> Nothing, outcome |-> [status |-> "failed", attempts |-> 0]]

\* The rows whose time has come, none of which is claimed.
Retry(r, due, ok) ==
  /\ due \subseteq Retrying
  /\ \E m \in due :
       Starts(r, [kind |-> "retry", rules |-> loadRules(ok), at |-> "dispatch",
                  todo |-> due, message |-> m,
                  attempts |-> [n \in Messages |-> IF n \in due THEN rows[n].attempts ELSE 0],
                  day |-> Fresh.day, spent |-> Fresh.spent, outcome |-> Fresh.outcome])
  /\ Answered(ok)
  /\ UNCHANGED <<alone, today, rows, spend, delivered, sends>>

-----------------------------------------------------------------------------
(* Steps of both *)

\* Variant that counts no attempt.
DispatchUncounted(r, taken, ok) ==
  LET q == req[r] IN
  /\ At(r, "dispatch")
  /\ ok => taken
  /\ Becomes(r, [q EXCEPT !.at = "record",
                          !.outcome = Outcome(ok, q.attempts[q.message], q.rules)])
  /\ delivered' = IF taken THEN [delivered EXCEPT ![q.message] = @ + 1] ELSE delivered
  /\ sends' = IF taken /\ q.kind = "send" THEN [sends EXCEPT ![q.day] = @ + 1] ELSE sends
  /\ Answered(taken => ok)
  /\ UNCHANGED <<alone, today, rows, spend>>

\* The provider takes the message or not.  HttpSmsGatewayProvider.send returns
\* ok: false for a refusal and for an answer that never came.  A retry asks for no
\* cap.
Dispatch(r, taken, ok) ==
  LET q == req[r] IN
  /\ At(r, "dispatch")
  /\ ok => taken
  /\ Becomes(r, [q EXCEPT !.at = "record",
                          !.outcome = Outcome(ok, q.attempts[q.message] + 1, q.rules)])
  /\ delivered' = IF taken THEN [delivered EXCEPT ![q.message] = @ + 1] ELSE delivered
  /\ sends' = IF taken /\ q.kind = "send" THEN [sends EXCEPT ![q.day] = @ + 1] ELSE sends
  /\ Answered(taken => ok)
  /\ UNCHANGED <<alone, today, rows, spend>>

\* On to the next row that was read, if there is one; nothing is kept of the last.
GoesOn(r, q) ==
  IF q.todo = {q.message} THEN Ends(r)
  ELSE \E m \in q.todo \ {q.message} :
         Becomes(r, [q EXCEPT !.at = "dispatch", !.todo = @ \ {q.message}, !.message = m,
                              !.attempts[q.message] = 0, !.day = Fresh.day,
                              !.spent = Fresh.spent, !.outcome = Fresh.outcome])

\* Variant that keeps the row as it is while it is sent again.
RecordNew(r) ==
  LET q == req[r] IN
  /\ At(r, "record")
  /\ rows' = IF rows[q.message] = None THEN [rows EXCEPT ![q.message] = q.outcome] ELSE rows
  /\ IF q.outcome.status = "sent" THEN Becomes(r, [q EXCEPT !.at = "read"]) ELSE GoesOn(r, q)
  /\ UNCHANGED <<alone, today, spend, delivered, sends, lost>>

\* The row is inserted by a send and overwritten by a retry, whatever it is now.
Record(r) ==
  LET q == req[r] IN
  /\ At(r, "record")
  /\ rows' = [rows EXCEPT ![q.message] = q.outcome]
  /\ IF q.outcome.status = "sent" THEN Becomes(r, [q EXCEPT !.at = "read"]) ELSE GoesOn(r, q)
  /\ UNCHANGED <<alone, today, spend, delivered, sends, lost>>

\* bumpSpend reads the counters of the day the send began, or of the retry's today.
ReadSpend(r, ok) ==
  LET d == IF req[r].kind = "send" THEN req[r].day ELSE today IN
  /\ At(r, "read")
  /\ Becomes(r, [req[r] EXCEPT !.at = "bump", !.day = d, !.spent = Read(d, ok)])
  /\ Answered(ok)
  /\ UNCHANGED <<alone, today, rows, spend, delivered, sends>>

\* Variant that adds to the row and to what was read.
WriteSpendTwice(r) ==
  LET q == req[r] IN
  /\ At(r, "bump")
  /\ spend' = [spend EXCEPT ![q.day] =
       [daily |-> spendFor(q.day).daily + q.spent.daily + 1,
        monthly |-> spendFor(q.day).monthly + q.spent.monthly + 1]]
  /\ GoesOn(r, q)
  /\ UNCHANGED <<alone, today, rows, delivered, sends, lost>>

WriteSpend(r) ==
  LET q == req[r] IN
  /\ At(r, "bump")
  /\ spend' = [spend EXCEPT ![q.day] =
       [daily |-> q.spent.daily + 1, monthly |-> q.spent.monthly + 1]]
  /\ GoesOn(r, q)
  /\ UNCHANGED <<alone, today, rows, delivered, sends, lost>>

\* The server restarts or a query fails.
Lose(r) ==
  /\ Busy(r)
  /\ lost < MaxLosses
  /\ lost' = lost + 1
  /\ Ends(r)
  /\ UNCHANGED <<alone, today, rows, spend, delivered, sends>>

-----------------------------------------------------------------------------
Serve(r) ==
  \/ \E ok \in BOOLEAN : CheckCaps(r, ok) \/ ReadSpend(r, ok)
  \/ \E taken, ok \in BOOLEAN : Dispatch(r, taken, ok)
  \/ Record(r) \/ WriteSpend(r)

RetryDue ==
  \E r \in Requests, due \in SUBSET Messages, ok \in BOOLEAN : Retry(r, due, ok)

Next ==
  \/ Midnight
  \/ \E r \in Requests, m \in Messages,
       verdict \in {"queued", "blocked"}, ok \in BOOLEAN :
       Send(r, m, verdict, ok)
  \/ RetryDue
  \/ \E r \in Requests : Serve(r) \/ Lose(r)

Spec == Init /\ [][Next]_vars

\* The server goes on with what it has accepted; the staff retry what is due, again
\* and again.
Fairness ==
  /\ \A r \in Requests : WF_vars(Serve(r))
  /\ SF_vars(RetryDue)

FairSpec == Spec /\ Fairness

-----------------------------------------------------------------------------
(* Properties *)

Deliveries == SumFunction(delivered)

Recorded == SumFunction([d \in Days |-> spendFor(d).daily])

Quiet == \A r \in Requests : ~Busy(r)

\* The counters never claim more than the provider has taken, and exactly that once
\* requests that came one at a time are done, if neither a request, nor a reading, nor
\* an answer of the provider was lost.
SpendAgrees ==
  /\ Recorded <= Deliveries
  /\ alone /\ Quiet /\ lost = 0 => Recorded = Deliveries

\* One at a time, the messages the provider takes on a day stay within the
\* organization's cap.  A loss starts the count again at most: counters that were
\* read as zero are written back as one, rules that were not read let a message of
\* more through, and so does an answer that never came.
CapBounded == alone => \A d \in Days : sends[d] <= DailyCap["org"] * (1 + lost)

\* One at a time, a member gets a message once, and once more for each request that
\* was lost before it wrote the row and each answer of the provider that was lost.
DeliveredOnce == alone => \A m \in Messages : delivered[m] <= 1 + lost

\* Retries end: every message is sent or given up for good, though overlapping
\* retries overwrite each other's outcome and number of attempts.
RetriesEnd == \A m \in Messages : <>[](m \notin Retrying)
=============================================================================
