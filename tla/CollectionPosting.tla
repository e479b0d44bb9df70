--------------------------- MODULE CollectionPosting ---------------------------
(***************************************************************************)
(* Collection entries from the officer's phone to the books: the outbox of *)
(* the web client (offline.ts), POST /collection/sync and postEntry of the *)
(* API, and the reversal of a wrong entry.                                 *)
(*                                                                         *)
(* The model follows the entries of one member, who has one running loan   *)
(* with a stored schedule and one savings account with a weekly amount.    *)
(* An entry is known by its idempotency key.  postEntry looks the key up   *)
(* first and inserts the row that holds it last; in between it writes the  *)
(* schedule, the savings ledger, the journal and the loan passbook, each   *)
(* by a query of its own and in no common transaction.  Every query is a   *)
(* step here.                                                              *)
(*                                                                         *)
(* Money is counted in whole units.  Left out are the receipt number, the  *)
(* date rules, the fraud flags and the part of a payment that becomes an   *)
(* advance: no step of this module reads them again.                       *)
(***************************************************************************)
EXTENDS Integers, FiniteSets, Functions

CONSTANTS
  Keys,           \* idempotency keys, numbered in the order of capture
  Payment,        \* the amount the member pays with each entry
  Requests,       \* requests to /collection/sync that may be under way
  Managers,       \* branch managers who reverse entries
  Installments,   \* number of installments on the schedule; 0 without a loan
  Due,            \* total of one installment
  OverdueUpTo,    \* installments up to this one are due before the meeting
  SavingsDue,     \* weekly amount of the savings account; 0 without one
  SavingsFirst,   \* allocation_order is savings_first, not overdue_first
  NoEntry,        \* a key with no row in collection_entries
  MaxFaults       \* bound on the number of failures

ASSUME CollectionConstants ==
  /\ IsFiniteSet(Keys) /\ IsFiniteSet(Requests)
  /\ Keys \subseteq Nat
  /\ Payment \in [Keys -> Nat \ {0}]
  /\ Installments \in Nat /\ Due \in Nat /\ OverdueUpTo \in Nat
  /\ SavingsDue \in Nat /\ SavingsFirst \in BOOLEAN
  /\ Installments > 0 \/ SavingsDue > 0
  /\ MaxFaults \in Nat

VARIABLES
  outbox,    \* client: status of each entry in the outbox ("none": not captured)
  pc,        \* request: the query of postEntry it is at
  batch,     \* request: entries of the call not answered yet
  result,    \* request: results[] collected for the reply
  plan,      \* request: allocation of the entry it is posting
  todo,      \* request: installments of the plan not written yet
  seen,      \* request: paid_amount or balance_after it has read
  online,    \* request: whether the client still waits for the reply
  paid,      \* loan_repayment_schedule.paid_amount
  deposits,  \* rows in savings_transactions that refer to the key
  booked,    \* credits on account 1200, Loan Portfolio
  passbook,  \* balance_after of the newest row of loan_passbook_entries
  entries,   \* collection_entries by key: the stored allocation
  reversed,  \* keys with a row in collection_reversals
  deleted,   \* keys whose entry has deleted_at set
  mgr,       \* manager: the query of the reversal and its entry
  faults     \* failures so far

client == <<outbox>>
work   == <<batch, result, plan, todo, seen, online>>
books  == <<paid, deposits, booked, passbook>>
rows   == <<entries, reversed, deleted>>
vars   == <<outbox, pc, work, books, rows, mgr, faults>>

Schedule == 1..Installments

\* An allocation: whether the entry refers to a loan, the amount for each
\* installment, their sum, the installment in currentApplied (0: null) and the
\* savings deposit.
Plan == [app : BOOLEAN, loan : [Schedule -> Nat], credit : Nat, current : Nat,
         savings : Nat]

ASSUME EntryOrNot == NoEntry \notin Plan

NoPlan == [app |-> FALSE, loan |-> [i \in Schedule |-> 0], credit |-> 0,
           current |-> 0, savings |-> 0]

Steps == {"idle", "key", "sheet", "read", "write", "deposit", "journal",
          "prior", "line", "entry", "scan", "reply"}

TypeOK ==
  /\ outbox \in [Keys -> {"none", "queued", "posted", "failed"}]
  /\ pc \in [Requests -> Steps]
  /\ batch \in [Requests -> SUBSET Keys]
  /\ result \in [Requests -> [Keys -> {"none", "posted", "duplicate", "failed"}]]
  /\ plan \in [Requests -> Plan]
  /\ todo \in [Requests -> SUBSET Schedule]
  /\ seen \in [Requests -> Nat]
  /\ online \in [Requests -> BOOLEAN]
  /\ paid \in [Schedule -> 0..Due]
  /\ deposits \in [Keys -> Nat]
  /\ booked \in Nat
  /\ passbook \in Nat
  /\ entries \in [Keys -> Plan \cup {NoEntry}]
  /\ reversed \subseteq Keys
  /\ deleted \subseteq Keys
  /\ mgr \in [Managers -> [at : {"idle", "existing", "insert", "delete"},
                           key : Keys \cup {0}]]
  /\ faults \in 0..MaxFaults

Resting == [at |-> "idle", key |-> 0]

NoResults == [k \in Keys |-> "none"]

Init ==
  /\ outbox = [k \in Keys |-> "none"]
  /\ pc = [r \in Requests |-> "idle"]
  /\ batch = [r \in Requests |-> {}]
  /\ result = [r \in Requests |-> NoResults]
  /\ plan = [r \in Requests |-> NoPlan]
  /\ todo = [r \in Requests |-> {}]
  /\ seen = [r \in Requests |-> 0]
  /\ online = [r \in Requests |-> FALSE]
  /\ paid = [i \in Schedule |-> 0]
  /\ deposits = [k \in Keys |-> 0]
  /\ booked = 0
  /\ passbook = 0
  /\ entries = [k \in Keys |-> NoEntry]
  /\ reversed = {}
  /\ deleted = {}
  /\ mgr = [m \in Managers |-> Resting]
  /\ faults = 0

-----------------------------------------------------------------------------
(* allocateCollectionPayment *)

Lower(x, y) == IF x <= y THEN x ELSE y

\* The installment that is current on the sheet when p is paid: the first
\* unpaid one that is not overdue.
IsCurrent(p, i) ==
  /\ i > OverdueUpTo
  /\ p[i] < Due
  /\ \A j \in Schedule : OverdueUpTo < j /\ j < i => p[j] = Due

\* The open amount of a bucket of the sheet; later installments have none.
Claim(p, i) == IF i <= OverdueUpTo \/ IsCurrent(p, i) THEN Due - p[i] ELSE 0

\* What is left of a payment after each installment in turn, overdue ones
\* and then the current one, has taken its claim; savings is the weekly amount.
Remainders(p, savings, payment) ==
  LET start == payment - (IF SavingsFirst THEN Lower(savings, payment) ELSE 0)
  IN  {left \in [0..Installments -> 0..start] :
         /\ left[0] = start
         /\ \A i \in Schedule :
              left[i] = left[i - 1] - Lower(Claim(p, i), left[i - 1])}

\* The allocation of a payment against the schedule p of a loan, if there is
\* one, with the remainders it is computed from.
Allocation(app, p, savings, payment, left) ==
  LET share == [i \in Schedule |-> left[i - 1] - left[i]]
      current == {i \in Schedule : IsCurrent(p, i) /\ share[i] > 0}
  IN  [app     |-> app,
       loan    |-> share,
       credit  |-> left[0] - left[Installments],
       current |-> IF current = {} THEN 0 ELSE CHOOSE i \in current : TRUE,
       savings |-> Lower(savings, IF SavingsFirst THEN payment ELSE left[Installments])]

-----------------------------------------------------------------------------
(* The client: CollectionSheetPage and the outbox *)

\* queueEntry for a new uuid.
Capture(k) ==
  /\ outbox[k] = "none"
  /\ \A j \in Keys : j < k => outbox[j] # "none"
  /\ outbox' = [outbox EXCEPT ![k] = "queued"]
  /\ UNCHANGED <<pc, work, books, rows, mgr, faults>>

\* syncOutbox: after a capture, on the online event or by hand, in any tab.
\* It sends the queued entries only.
Sync(r) ==
  LET queued == {k \in Keys : outbox[k] = "queued"} IN
  /\ pc[r] = "idle"
  /\ queued # {}
  /\ pc' = [pc EXCEPT ![r] = "key"]
  /\ batch' = [batch EXCEPT ![r] = queued]
  /\ result' = [result EXCEPT ![r] = NoResults]
  /\ online' = [online EXCEPT ![r] = TRUE]
  /\ UNCHANGED <<outbox, plan, todo, seen, books, rows, mgr, faults>>

\* Variant that keeps a failed entry queued for the next attempt.
ApplyKeepsFailed(r, k) ==
  /\ pc[r] = "reply" /\ online[r]
  /\ result[r][k] # "none"
  /\ result' = [result EXCEPT ![r][k] = "none"]
  /\ outbox' = [outbox EXCEPT ![k] =
                  IF result[r][k] = "failed" THEN "queued" ELSE "posted"]
  /\ UNCHANGED <<pc, batch, plan, todo, seen, online, books, rows, mgr, faults>>

\* updateOutboxEntry for one result of the reply; posted and duplicate are
\* treated alike.
ApplyResult(r, k) ==
  /\ pc[r] = "reply" /\ online[r]
  /\ result[r][k] # "none"
  /\ result' = [result EXCEPT ![r][k] = "none"]
  /\ outbox' = [outbox EXCEPT ![k] =
                  IF result[r][k] = "failed" THEN "failed" ELSE "posted"]
  /\ UNCHANGED <<pc, batch, plan, todo, seen, online, books, rows, mgr, faults>>

\* The reply is used up, or nobody waits for it.
EndSync(r) ==
  /\ pc[r] = "reply"
  /\ online[r] => result[r] = NoResults
  /\ pc' = [pc EXCEPT ![r] = "idle"]
  /\ result' = [result EXCEPT ![r] = NoResults]
  /\ UNCHANGED <<outbox, batch, plan, todo, seen, online, books, rows, mgr,
                 faults>>

-----------------------------------------------------------------------------
Fault == faults < MaxFaults /\ faults' = faults + 1

-----------------------------------------------------------------------------
(* postEntry, for one entry after the other of the batch *)

\* Entry k is the one request r is posting.
At(r, step, k) ==
  /\ pc[r] = step
  /\ k \in batch[r]
  /\ \A j \in batch[r] : k <= j

Goto(r, step) == pc' = [pc EXCEPT ![r] = step]

\* The result of entry k is recorded and the loop of /sync goes on.
Finish(r, k, res) ==
  /\ result' = [result EXCEPT ![r][k] = res]
  /\ batch' = [batch EXCEPT ![r] = @ \ {k}]
  /\ Goto(r, IF batch[r] = {k} THEN "reply" ELSE "key")
  /\ plan' = [plan EXCEPT ![r] = NoPlan]
  /\ todo' = [todo EXCEPT ![r] = {}]
  /\ seen' = [seen EXCEPT ![r] = 0]
  /\ UNCHANGED online

\* Variant that looks up only entries that are not deleted.
FindKeyLive(r, k) ==
  /\ At(r, "key", k)
  /\ IF entries[k] # NoEntry /\ k \notin deleted
     THEN Finish(r, k, "duplicate")
     ELSE Goto(r, "sheet") /\ UNCHANGED work
  /\ UNCHANGED <<outbox, books, rows, mgr, faults>>

\* Same key => same stored reply. Deleted entries are found as well. The error
\* of the lookup is not read: when it fails there seems to be no entry.
FindKey(r, k) ==
  /\ At(r, "key", k)
  /\ \/ entries[k] # NoEntry /\ Finish(r, k, "duplicate") /\ UNCHANGED faults
     \/ entries[k] = NoEntry /\ Goto(r, "sheet") /\ UNCHANGED <<work, faults>>
     \/ Fault /\ Goto(r, "sheet") /\ UNCHANGED work
  /\ UNCHANGED <<outbox, books, rows, mgr>>

\* buildSheetRowForMember and the allocation computed from it. It reads the
\* loan, its schedule and the savings account, and the error of none of them:
\* what cannot be read does not seem to be there. A member with neither loan
\* nor savings is not on the sheet.
ReadSheet(r, k) ==
  /\ At(r, "sheet", k)
  /\ \E unread \in SUBSET {"loan", "schedule", "savings"} :
       LET app     == Installments > 0 /\ "loan" \notin unread
           known   == IF app /\ "schedule" \notin unread
                      THEN paid ELSE [i \in Schedule |-> Due]
           savings == IF "savings" \in unread THEN 0 ELSE SavingsDue
       IN  /\ IF unread = {} THEN UNCHANGED faults ELSE Fault
           /\ IF app \/ savings > 0
              THEN \E left \in Remainders(known, savings, Payment[k]) :
                     LET a == Allocation(app, known, savings, Payment[k], left)
                         touched == {i \in Schedule : a.loan[i] > 0}
                     IN  /\ plan' = [plan EXCEPT ![r] = a]
                         /\ todo' = [todo EXCEPT ![r] = touched]
                         /\ Goto(r, IF touched = {} THEN "deposit" ELSE "read")
                         /\ UNCHANGED <<batch, result, seen, online>>
              ELSE Finish(r, k, "failed")
  /\ UNCHANGED <<outbox, books, rows, mgr>>

\* The next installment of the plan: read it, refuse an amount it no longer
\* owes.
ReadInstallment(r, k) ==
  /\ At(r, "read", k)
  /\ \E i \in todo[r] :
       /\ \A j \in todo[r] : i <= j
       /\ IF paid[i] + plan[r].loan[i] > Due
          THEN Finish(r, k, "failed")
          ELSE /\ Goto(r, "write")
               /\ seen' = [seen EXCEPT ![r] = paid[i]]
               /\ UNCHANGED <<batch, result, plan, todo, online>>
  /\ UNCHANGED <<outbox, books, rows, mgr, faults>>

\* The update writes the sum of what was read, not an increment.
WriteInstallment(r, k) ==
  /\ At(r, "write", k)
  /\ \E i \in todo[r] :
       /\ \A j \in todo[r] : i <= j
       /\ paid' = [paid EXCEPT ![i] = Lower(seen[r] + plan[r].loan[i], Due)]
       /\ todo' = [todo EXCEPT ![r] = @ \ {i}]
       /\ Goto(r, IF todo[r] = {i} THEN "deposit" ELSE "read")
  /\ seen' = [seen EXCEPT ![r] = 0]
  /\ UNCHANGED <<outbox, batch, result, plan, online, deposits, booked,
                 passbook, rows, mgr, faults>>

\* Variant that forgets the journal.
DepositNoJournal(r, k) ==
  /\ At(r, "deposit", k)
  /\ deposits' = [deposits EXCEPT ![k] =
                    IF plan[r].savings > 0 THEN @ + 1 ELSE @]
  /\ Goto(r, "entry")
  /\ UNCHANGED <<outbox, work, paid, booked, passbook, rows, mgr, faults>>

\* rpc post_savings_transaction, and the receipt number.
Deposit(r, k) ==
  /\ At(r, "deposit", k)
  /\ deposits' = [deposits EXCEPT ![k] =
                    IF plan[r].savings > 0 THEN @ + 1 ELSE @]
  /\ Goto(r, "journal")
  /\ UNCHANGED <<outbox, work, paid, booked, passbook, rows, mgr, faults>>

\* Variant that books the loan part only when there is no savings part.
JournalSavings(r, k) ==
  /\ At(r, "journal", k)
  /\ booked' = IF plan[r].savings > 0 THEN booked ELSE booked + plan[r].credit
  /\ Goto(r, IF plan[r].credit > 0 THEN "prior" ELSE "entry")
  /\ UNCHANGED <<outbox, work, paid, deposits, passbook, rows, mgr, faults>>

\* The journal entry and its lines.
Journal(r, k) ==
  /\ At(r, "journal", k)
  /\ booked' = booked + plan[r].credit
  /\ Goto(r, IF plan[r].credit > 0 THEN "prior" ELSE "entry")
  /\ UNCHANGED <<outbox, work, paid, deposits, passbook, rows, mgr, faults>>

\* The error is not read: a balance that cannot be read is zero.
ReadPassbook(r, k) ==
  /\ At(r, "prior", k)
  /\ \/ seen' = [seen EXCEPT ![r] = passbook] /\ UNCHANGED faults
     \/ seen' = [seen EXCEPT ![r] = 0] /\ Fault
  /\ Goto(r, "line")
  /\ UNCHANGED <<outbox, batch, result, plan, todo, online, books, rows, mgr>>

\* The error of this insert is not read either: the line may be missing.
WritePassbook(r, k) ==
  /\ At(r, "line", k)
  /\ \/ passbook' = seen[r] + plan[r].credit /\ UNCHANGED faults
     \/ UNCHANGED passbook /\ Fault
  /\ seen' = [seen EXCEPT ![r] = 0]
  /\ Goto(r, "entry")
  /\ UNCHANGED <<outbox, batch, result, plan, todo, online, paid, deposits,
                 booked, rows, mgr>>

\* enforce_collection_allocation_order. The key currentApplied is always in
\* the JSON, and paid_amount already contains the amount that is added here.
\* An entry without a loan passes.
GuardAdmits(a) ==
  a.app =>
    /\ a.current # 0
    /\ paid[a.current] + a.loan[a.current] <= Due

\* Variant that does not look at the error of the insert.
InsertEntryUnread(r, k) ==
  /\ At(r, "entry", k)
  /\ IF GuardAdmits(plan[r])
     THEN /\ entries' = [entries EXCEPT ![k] = plan[r]]
          /\ Goto(r, "scan")
          /\ UNCHANGED work
     ELSE /\ Finish(r, k, "posted")
          /\ UNCHANGED entries
  /\ UNCHANGED <<outbox, books, reversed, deleted, mgr, faults>>

\* The insert, refused by the trigger or by the unique key.
InsertEntry(r, k) ==
  /\ At(r, "entry", k)
  /\ IF entries[k] = NoEntry /\ GuardAdmits(plan[r])
     THEN /\ entries' = [entries EXCEPT ![k] = plan[r]]
          /\ Goto(r, "scan")
          /\ UNCHANGED work
     ELSE /\ Finish(r, k, "failed")
          /\ UNCHANGED entries
  /\ UNCHANGED <<outbox, books, reversed, deleted, mgr, faults>>

\* The fraud scan, which reads no error, and the answer.
Answer(r, k) ==
  /\ At(r, "scan", k)
  /\ Finish(r, k, "posted")
  /\ UNCHANGED <<outbox, books, rows, mgr, faults>>

Serve(r, k) ==
  \/ FindKey(r, k) \/ ReadSheet(r, k)
  \/ ReadInstallment(r, k) \/ WriteInstallment(r, k)
  \/ Deposit(r, k) \/ Journal(r, k) \/ ReadPassbook(r, k) \/ WritePassbook(r, k)
  \/ InsertEntry(r, k) \/ Answer(r, k)

-----------------------------------------------------------------------------
(* Failures *)

Serving(r) == pc[r] \notin {"idle", "reply"}

\* A query whose error is read fails, or the answer to the one before is lost:
\* postEntry throws, /sync goes on with the next entry. Steps done stay done.
QueryFails(r, k) ==
  /\ Serving(r) /\ At(r, pc[r], k)
  /\ pc[r] \notin {"key", "line"}
  /\ Fault
  /\ Finish(r, k, "failed")
  /\ UNCHANGED <<outbox, books, rows, mgr>>

\* The phone loses the connection; the server does not notice.
Disconnect(r) ==
  /\ pc[r] # "idle" /\ online[r]
  /\ Fault
  /\ online' = [online EXCEPT ![r] = FALSE]
  /\ UNCHANGED <<outbox, pc, batch, result, plan, todo, seen, books, rows, mgr>>

\* The server restarts in the middle of a request.
Crash(r) ==
  /\ Serving(r)
  /\ Fault
  /\ pc' = [pc EXCEPT ![r] = "idle"]
  /\ batch' = [batch EXCEPT ![r] = {}]
  /\ result' = [result EXCEPT ![r] = NoResults]
  /\ plan' = [plan EXCEPT ![r] = NoPlan]
  /\ todo' = [todo EXCEPT ![r] = {}]
  /\ seen' = [seen EXCEPT ![r] = 0]
  /\ online' = [online EXCEPT ![r] = FALSE]
  /\ UNCHANGED <<outbox, books, rows, mgr>>

-----------------------------------------------------------------------------
(* POST /collection/entries/:id/reverse *)

Turn(m, at, k) == mgr' = [mgr EXCEPT ![m] = [at |-> at, key |-> k]]

\* Variant that hides the entry before it inserts the reversal.
FindEntryDeletes(m, k) ==
  /\ mgr[m].at = "idle"
  /\ entries[k] # NoEntry /\ k \notin deleted
  /\ deleted' = deleted \cup {k}
  /\ Turn(m, "existing", k)
  /\ UNCHANGED <<outbox, pc, work, books, entries, reversed, faults>>

\* The entry is read; it must not be deleted.
FindEntry(m, k) ==
  /\ mgr[m].at = "idle"
  /\ entries[k] # NoEntry /\ k \notin deleted
  /\ Turn(m, "existing", k)
  /\ UNCHANGED <<outbox, pc, work, books, rows, faults>>

\* "This entry has already been reversed" ends the request, unless the lookup
\* fails, whose error is not read.
FindReversal(m, k) ==
  /\ mgr[m] = [at |-> "existing", key |-> k]
  /\ \/ k \in reversed /\ Turn(m, "idle", 0) /\ UNCHANGED faults
     \/ k \notin reversed /\ Turn(m, "insert", k) /\ UNCHANGED faults
     \/ Turn(m, "insert", k) /\ Fault
  /\ UNCHANGED <<outbox, pc, work, books, rows>>

\* Variant without greatest(..., 0).
InsertReversalUnclamped(m, k) ==
  /\ mgr[m] = [at |-> "insert", key |-> k]
  /\ IF k \in reversed
     THEN Turn(m, "idle", 0) /\ UNCHANGED <<paid, reversed>>
     ELSE /\ Turn(m, "delete", k)
          /\ reversed' = reversed \cup {k}
          /\ paid' = [i \in Schedule |-> paid[i] - entries[k].loan[i]]
  /\ UNCHANGED <<outbox, pc, work, deposits, booked, passbook, entries, deleted,
                 faults>>

\* The insert and its trigger, which takes back the installments and posts a
\* withdrawal for the savings. Journal and passbook are left as they are.
\* A second row for the entry is refused.
InsertReversal(m, k) ==
  LET applied == entries[k].loan IN
  /\ mgr[m] = [at |-> "insert", key |-> k]
  /\ IF k \in reversed
     THEN Turn(m, "idle", 0) /\ UNCHANGED <<paid, reversed>>
     ELSE /\ Turn(m, "delete", k)
          /\ reversed' = reversed \cup {k}
          /\ paid' = [i \in Schedule |->
                        IF paid[i] >= applied[i] THEN paid[i] - applied[i]
                                                 ELSE 0]
  /\ UNCHANGED <<outbox, pc, work, deposits, booked, passbook, entries, deleted,
                 faults>>

DeleteEntry(m, k) ==
  /\ mgr[m] = [at |-> "delete", key |-> k]
  /\ deleted' = deleted \cup {k}
  /\ Turn(m, "idle", 0)
  /\ UNCHANGED <<outbox, pc, work, books, entries, reversed, faults>>

ReversalLost(m) ==
  /\ mgr[m].at # "idle"
  /\ Fault
  /\ Turn(m, "idle", 0)
  /\ UNCHANGED <<outbox, pc, work, books, rows>>

-----------------------------------------------------------------------------
Next ==
  \/ \E k \in Keys : Capture(k)
  \/ \E r \in Requests : Sync(r) \/ EndSync(r) \/ Disconnect(r) \/ Crash(r)
  \/ \E r \in Requests, k \in Keys :
       ApplyResult(r, k) \/ Serve(r, k) \/ QueryFails(r, k)
  \/ \E m \in Managers, k \in Keys :
       \/ FindEntry(m, k) \/ FindReversal(m, k)
       \/ InsertReversal(m, k) \/ DeleteEntry(m, k)
  \/ \E m \in Managers : ReversalLost(m)

Spec == Init /\ [][Next]_vars

-----------------------------------------------------------------------------
(* Properties *)

\* What the phone shows as posted is on the server, whichever requests,
\* retries and lost replies led there.
PostedIsStored == \A k \in Keys : outbox[k] = "posted" => entries[k] # NoEntry

\* An entry the reports count has its money in the books: the savings part
\* was deposited, and the loan parts of all entries were credited to the loan
\* portfolio before.
EntriesAreBacked ==
  /\ \A k \in Keys : entries[k] # NoEntry /\ entries[k].savings > 0
                       => deposits[k] > 0
  /\ LET stored == {k \in Keys : entries[k] # NoEntry}
     IN  SumFunction([k \in stored |-> entries[k].credit]) <= booked

\* Concurrent entries lose lines of the loan passbook but never add money to
\* it that the journal does not have.
PassbookCovered == passbook <= booked

\* Request r is between the lookup of key k and its answer.
Posting(r, k) == Serving(r) /\ pc[r] # "key" /\ At(r, pc[r], k)

\* An entry is settled when its row is stored and no request that looked the
\* key up before is still posting it.
Settled(k) == entries[k] # NoEntry /\ \A r \in Requests : ~Posting(r, k)

\* A settled entry stays so, a reversal included, unless a query fails: only a
\* lookup that fails unread takes it for new. Nothing is deposited or booked
\* for settled entries, and their rows never change.
SettledForGood ==
  [][/\ \A k \in Keys : Settled(k) => /\ faults' = faults => Settled(k)'
                                      /\ deposits'[k] = deposits[k]
                                      /\ entries'[k] = entries[k]
     /\ (\A k \in Keys : Settled(k)) =>
          /\ booked' = booked
          /\ \A i \in Schedule : paid'[i] <= paid[i]]_vars

\* An entry may be deposited again, but no more often than flushes overlap and
\* failures happen: an entry the server refuses after its deposit is not sent
\* again.
DepositsBounded == \A k \in Keys : deposits[k] <= Cardinality(Requests) + faults

\* An entry disappears from the reports only after its reversal has taken the
\* money back.
DeletedIsReversed == deleted \subseteq reversed

-----------------------------------------------------------------------------
(* What comments of the code say, and the code does not keep *)

\* An entry leaves the queue only when the server holds it: a failed one is
\* kept for the next attempt.
FailedStaysQueued ==
  \A k \in Keys : outbox[k] \in {"none", "queued"} \/ entries[k] # NoEntry

\* A retry never posts an entry twice.
PostsOnce == \A k \in Keys : deposits[k] <= 1
=============================================================================
