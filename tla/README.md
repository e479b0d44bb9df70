# Verification of samiti-manager

samiti-manager is an Express API over a Postgres (Supabase) database, with a React client that works
offline, for cooperatives and micro-finance institutions: savings, loans, weekly collection in the
field, accounting and some fifteen registers around them. This directory holds TLA+ models of the parts
where money moves and files are decided, the TLC configurations that check them on small instances, and proofs checked by
TLAPS for instances of every size.

Run the checks in this directory: `tlc -config SavingsLedger_ledger.cfg MCSavingsLedger` for a run (every
`.cfg` is named after its module), `tlapm SavingsLedgerProofs.tla` for a proof. `PROJECT.json` lists the
runs, the source lines of each definition, the hazards, the theorems, and for each checked property a
mutated definition that breaks it.

Paths below are relative to `src/`; `0010:65` is line 65 of the migration with that number.

## 1. The system

One API process serves all requests. Most handlers run **in no database transaction**: every query they
await commits for itself, other requests run between two of them, and a request that dies leaves what it
has done so far. What is atomic is a single statement with its triggers, and a database function called by
`rpc`. This decides the shape of every model: *an action is what one statement or one function section
does*, never what a whole handler does.

### 1.1 Components

| Component | State | Operations | Talks to |
|---|---|---|---|
| Savings ledger (0010) | `savings_accounts.balance/status`, `savings_transactions`, unique keys | `post_savings_transaction`, `mark_dormant_savings_accounts`, trigger on `loans` | called by all parts that move savings |
| Savings routes (`savings.routes.ts`, 0011) | products, accounts | open account, post, statement, integrity report, interest and dividend runs | savings ledger |
| Interest run and job (`savings-interest-job.ts`) | `lastRunKey` in memory | hourly tick, weekly, monthly, yearly posting | savings ledger |
| Shares and dividends (0011) | `share_*`, `dividend_*` | declare, pay | savings or accounting |
| Loan applications (`loans.routes.ts`, 0012, 0014) | `loan_applications.status`, `loan_application_steps`, policies | submit, record a stage, decide | triggers on status and overlap |
| Loan disbursement (0016, 0018) | `loan_disbursements`, schedule, plans, overrides | plan, execute | loan status, collection (schedule) |
| Collection (`collection.routes.ts`, `collection-engine.ts`, 0020, 0058, `offline.ts`) | outbox on the phone; `collection_entries`, schedule, journal, loan passbook, `collection_reversals` | capture, sync, post, reverse | savings ledger, loan schedule, accounting |
| Cash handover (0020) | `cash_handovers` | draft, submit, confirm, reject | collection entries |
| Settlement (0022) | closures, reschedules, write-offs | request, decide, execute | loan status, schedule, journal |
| Accounting (0028, 0030) | journal, vouchers, cash book, petty cash, period closes | post, approve, close | all parts that book |
| Delinquency (0024, 0026) | follow-ups, proposals, legal notices | classify, adjust savings, propose | schedule, savings |
| Members, samity, organization, users | registers | create, approve, transfer | - |
| HR, payroll, work (0032-0038) | vacancies, leave, movements, payroll runs, tasks, findings | decide, apply | accounting, staff rows |
| Insurance, welfare, governance, programs (0040-0046) | claims, requests, dividends, exits, projects, cases | decide, pay | fund ledger, `coop_journals` |
| Communication (0052) | `message_deliveries`, `comm_spend` | send, retry-due | the SMS provider |
| Documents and bulk jobs (0054) | `bulk_jobs`, `bulk_job_items`, documents | create, tick | members, documents |
| MIS (0048, 0050) | complaints, schedules, reports | decide, generate | read all parts |
| Security, privacy, audit; auth and middleware; RLS | logs, consents, policies | - | every request |
| Demo stores (`*-store.ts`) | in memory | the same API, synchronous | - |
| Web client pages; scripts and status worker | forms | - | API |

`PROJECT.json` lists them all (28) with their sources and status.

### 1.2 What is hard here

* **Chains of queries without a transaction**: collection posting (ten queries), disbursement (five),
  loan stages and decisions (four), reversal (four), petty cash, dividends.
* **Read, then overwrite**: balances, `paid_amount`, passbook lines, statuses are often written as values
  computed from an earlier read rather than as increments or conditional updates.
* **Retries**: the phone sends again what it has no answer for; two tabs flush the same outbox.
* **Locks and their gaps**: `post_savings_transaction` locks its own account and nothing else it reads.
* **Triggers as the last defence**: they see other rows as they are committed at that moment, and their
  refusal is sometimes not read by the handler (`loans.routes.ts:573`).
* **Errors nobody reads**: of many queries only `data` is used, and a failed one counts as zero rows, zero
  taka, the default or done (`loans.routes.ts:606, 893, 979`, `collection.routes.ts:459`, `comms-live.routes.ts:54, 69`,
  `documents-live.routes.ts:628`).
* **Answers that never come**: the SMS provider may have taken what the server believes refused
  (`communication.ts:140`).
* **A status and its consequence in two queries**: a journal, a fund ledger row, an employee's post are
  written before or after the status that speaks of them.
* **Work without a claim**: retries of messages take what they read, and so does the next request.

### 1.3 What makes each part correct

* Savings: concurrent postings are serializable, the several rows of a loan's activation included; no posting works on an
  old balance; the minimum balance holds against concurrency; the passbook adds up and the integrity report agrees with it;
  transactions end.
* Loan applications: no stage is skipped; every decision has its row; rejections are final; limits hold;
  an application that the staff go on with is decided.
* Collection: what the phone shows as posted is stored; what is stored is backed by deposits and bookings;
  a settled entry is not posted again, and no entry more often than requests overlap and fail; a deleted entry was
  reversed; an entry stays queued until the server holds it (the code does not do that).
* Disbursement and reschedule: one payout, whose schedule is the one of its day; a bounded excess over the
  branch cash limit; an approved reschedule has moved its rows.
* The desks (claims, exits, tasks, vouchers, ...): a status moves along the ladder everybody relies on;
  status and consequence agree; nothing is settled twice; a file that the staff go on with is closed.
* Bulk jobs: a finished job has been done (by the code as migrated it has not).
* Messages: counters that do not invent spending; the organization's daily cap; one delivery; retries end.

## 2. What is modelled

Seven specifications, each with an `MC` module that gives small instances; all but `BulkJob` have a proof module. Two more
are abstract specifications that some of them are shown to implement: `SavingsBook` and `FileLadder`. `SumLemmas` holds
the facts about sums that three of the proof modules share.

Two conventions hold throughout. A query whose error the handler reads may fail like a restart may: the rest of the request
does not happen (`Crash`, `Lost`, `Lose`, `QueryFails`). A query whose error it does *not* read has the outcome the handler
then takes for the answer: nothing found, a default, zero; a history variable or a counter (`misread`, `unread`, `skipped`,
`faults`, `lost`) remembers that it happened, and the properties say what it costs.

### 2.1 Savings ledger: `SavingsRows`, `SavingsBook`, `SavingsLedger`

`SavingsRows` has the arithmetic of rows: the delta a posting has on its account, the effect of a row
on any account, the unique keys, and `recompute_balance` of the integrity report (0011:115). `SavingsBook`
is the **abstract specification**: a serial book in which a posting is one step, made against the balances
of the moment, and the deposits of a loan's activation are one step together. `SavingsLedger` is what the database does:

| Action | Code |
|---|---|
| `Begin(s, c)` | 0010:58-91: `SELECT ... FOR UPDATE` on the account, the destination of a transfer read *without* a lock, reversal, loan lock, minimum balance; `v_balance` is computed here (`after`). A call of any type in `Strays` may name a destination (`savings.ts:81`, `savings.routes.ts:275`); the row keeps it (0010:97) |
| `Commit(s)` | 0010:93-111: insert of the row, absolute update of the own balance, relative update of a transfer's destination; waits for the row of any destination, which the foreign key locks |
| `Fail(s)` | a unique index refuses the row (0010:22-26), or the database ends a deadlocked transaction |
| `Crash(s)` | lost connection, timeout, restart: the transaction is rolled back |
| `OpenAccount` | POST `/accounts` (`savings.routes.ts:379`); the opening balance is written to the account and never to the ledger |
| `StartLink`, `LinkPost`, `LinkCommit` | the trigger of 0010:132-155 on `loans` finds all linked accounts of the member (one for each product, 0009:47), posts to one after the other under its row lock, and shows the loan, the rows and the balances together. The table `loans` is written from outside this repository |
| `LinkFail`, `LinkCrash` | a linked account was closed, stays below its minimum, or is in a deadlock; a lost connection: the activation and all its rows are undone |
| `CloseLoan` | the loan ends |
| `MarkDormant` | 0010:119; `Sleepers` are the accounts whose product has a dormancy rule |

A call that a check refuses changes nothing and is no step. `Begin` and `Commit` are two steps because
the function's statements between the lock and the writes read rows that are not locked; statements of one
function that touch only locked rows are not split further, since no other session can tell.

Two places of the code write balances *beside* the function: the reversal trigger of collection
(0058:72) and the savings adjustment of a loan in arrears (`delinquency-live.routes.ts:588-607`). The
module describes accounts that `post_savings_transaction` alone moves; with either writer `PassbookAddsUp`
and `KeepsMinimum` would not hold, and the second one can lose a concurrent posting. Together they are
a hazard without a property.

### 2.2 Loan applications: `LoanApplication`

A slot of `req` is a request being served: its application, its input (a stage or a decision), the
query it is at and the status it is about to write. Other requests run between any two actions.

| Action | Code (`loans.routes.ts` unless noted) |
|---|---|
| `Apply`, `Submit` | 289-366: the member's active applications are counted, against the policy's maximum or, if that cannot be read, the default of two; then the row is inserted |
| `BeginStep` | 493-530: the status is read and the stage checked against it |
| `CheckExisting`, `RecordStep` | 532-561: "already done" is looked up, then the row is inserted |
| `Reread` | 561-571: the done officer stages are counted (none, if the query fails: its error is not read); exactly one or exactly three lead to an update |
| `Advance` | 571-579: the update, subject to `Transition`; a refusal is not read |
| `BeginDecision`, `RecordDecision` | 582-631: status and limit are checked, the decision row is inserted. The error of the policy's read is not read (606): `read = FALSE` compares with the default of 100000.00 (611), `OverDefault`, and puts the application in `misread` |
| `CheckDecision`, `CommitDecision` | 633-648: the update locks its row and its triggers read other applications as committed now; then it commits |
| `Transition`, `OverlapAllows` | the triggers of 0012:154 and 0014:150 |
| `Lost` | the rest of a request does not happen |

`Failures` and `Misreads` say whether an instance has lost requests and failing reads.

The columns the code names are taken to exist: `loan_application_steps.branch_id` is written by
the routes and is in no migration.

### 2.3 Collection: `CollectionPosting`

One member, one running loan with a stored schedule, one savings account with a weekly amount. `pc[r]` is
the query of `postEntry` request `r` is at; `plan`, `todo`, `seen` are its local variables.

| Action | Code |
|---|---|
| `Capture`, `Sync`, `ApplyResult`, `EndSync` | `CollectionSheetPage.tsx:125`, `offline.ts:107-158` |
| `FindKey` | `collection.routes.ts:458-464`: the idempotency lookup, which finds deleted rows too. When it fails nobody reads the error, and the entry is taken for a new one |
| `ReadSheet` | 477-511: the sheet is read and the payment allocated (`Remainders`, `Allocation` are `allocateCollectionPayment`); a loan, a schedule or a savings account that cannot be read does not seem to be there |
| `ReadInstallment`, `WriteInstallment` | 513-535, once per installment: read `paid_amount`, refuse too much, write the *sum of what was read* |
| `Deposit`, `Journal` | 537-587 |
| `ReadPassbook`, `WritePassbook` | 589-610: `balance_after` is read and written by two queries, the error of neither is read: the balance may be taken for zero, the line may be missing |
| `InsertEntry`, `Answer` | 612-640: the row that holds the key is written last; `GuardAdmits` is the order trigger 0020:77-115 |
| `Finish`, `QueryFails` | `/sync` 762-781: an entry that throws is answered as failed, the loop goes on |
| `Disconnect`, `Crash` | the client loses the reply; the server restarts |
| `FindEntry`, `FindReversal`, `InsertReversal`, `DeleteEntry`, `ReversalLost` | 1338-1379 with the trigger 0058:29-78; a lookup of the reversal that fails finds none |

`Remainders` is a function over the installments rather than a loop, so that the allocation can be proved
about. Left out: receipt numbers, date rules, fraud flags, the advance part of a payment (no step reads them
again) and the `proportional` order. `loan_applications.samity_id`, which the sheet selects, is in no
migration; the model assumes a database that has it.

### 2.4 Payout, schedule and reschedule: `LoanSchedule`

Several approved applications of one branch, some paid out before. Every loan is one unit of cash; of a schedule's dates
the model keeps the day it was computed for and the week each row is due in. A query whose error the code does not read has
a parameter `ok`: with `FALSE` it finds, or does, nothing, and `unread` counts it. Reads whose failure changes
amounts only are left out: a product that cannot be read gives a monthly schedule without interest (921-929), a cash limit
that cannot be read is zero, which is stricter.

| Action | Code |
|---|---|
| `Prepare`, `SavePreparation` | `loans.routes.ts:796-840`: the record is read, the checks merged, then inserted or updated under its unique key and `enforce_disbursement_completion` |
| `Execute` | 862-946: the status is checked, the cash of the day summed (893-909), the rows computed |
| `FindRecord`, `WriteRecord` | 966-975: a completed record is a conflict; a prepared one cannot be completed, because `enforce_disbursement_authorization` (0018) asks for fields the API never writes |
| `DeleteSchedule`, `InsertSchedule`, `MarkDisbursed` | 977-1009: the delete's error is unread, the insert meets a unique key, and the trigger 0012:164 refuses the new status |
| `AskReschedule`, `SaveAsk` | `collection.routes.ts:1128-1160` |
| `Rule`, `MoveRow`, `SaveRuling` | 1192-1247: each row moved by its own query, then the ruling, which `fn_apply_reschedule` (0022:98-121) may refuse |
| `Lose` | the rest of a request does not happen |

### 2.5 The desks: `FileLadder`, `ApprovalDesk`

Eleven route files share one pattern: a file with a status column is decided step by step, over a flow trigger. Twenty-four
of these desks are modelled by what makes them differ: a set of decisions, each with the statuses it is for, the status it
writes, where the handler compares the two (`Checked`: in the row it read; `Conditional`: in the WHERE clause; `Unchecked`:
nowhere) and whether a consequence is written before or after the status; and a trigger as a transition table, looked up by
the old status (`FlowFromOld`) or, in three triggers, by the new one (`FlowFromNew`).

| Desks | Decisions | Code | Trigger |
|---|---|---|---|
| `claim`, `death_claim` | `Claims`; fund ledger after `paid` | `insurance-welfare-live.routes.ts` 266-331 | 0040:61 |
| `welfare`, `large_welfare` | `SmallWelfare`, `LargeWelfare`; fund ledger after `disbursed` | same, from 625 | none |
| `dividend`, `dividend_payment` | `Dividends`, `DividendPayments`; journal first | `coop-governance-live.routes.ts` | 0042:43 |
| `agm`, `exit` | `Meetings`, `Exits`; journal before `settled` | same | 0042:87, 0042:133 |
| `project`, `activity`, `case` | `Projects`, `Activities`, `Cases` | `programs-live.routes.ts` | 0044:189, 0044:214, 0046:89 |
| `complaint` | `Complaints` | `mis-ops-live.routes.ts` | 0050:39 |
| `correction`, `lifecycle` | `Corrections` (member field before `applied`), `Lifecycles` (history row after) | `privacy-live.routes.ts:235`, `members.routes.ts:450` | none |
| `task`, `finding` | `Tasks`, `Findings`: unchecked | `work.routes.ts:161, 714` | 0036:44, 0038:112 |
| `handover` | `CashHandovers` | `collection.routes.ts:972-1033` | none |
| `voucher`, `requisition` | `transitionVoucher`, `Requisitions`: conditional | `accounting.routes.ts:352, 1034` | 0028:103 |
| `vacancy`, `leave`, `movement`, `payroll` | conditional; a movement is applied before `effective`; payroll unchecked | `hr.routes.ts:416, 763, 925, 1238` | none |
| `branch_opening` | `BranchOpenings`: conditional; the branch becomes active last | `org.routes.ts:402` | none |

The actions are the queries of a request: `Begin(r, d)` reads and compares, `Update(r)` writes the status over the trigger,
`WriteEffect(r)` writes the consequence, `Lose(r)` is a restart. The desks in `Unread` may go on without their consequence,
and `skipped` remembers it: `pushJournal` takes any answer about the schema cache for that of a database without the optional
table `coop_journals` (`coop-governance-live.routes.ts:53-76`; no migration creates the table), and the employee update of a
movement has an error nobody reads (`hr.routes.ts:976`). `alone` says whether the requests for the file come one at a time;
it is fixed at the start, so that every property is checked for both.

A dividend distribution becomes `paid` by nothing but the payment of one of its lines (261-287): the handler refuses a line that
has been paid, marks the line (`MarkPaid`, `unpaid`), and only then moves the distribution on, with an error nobody reads.
`Lines` are the members' lines; computing the distribution does not read whether they were stored (199), so `Init` also has a
distribution without any. The journal and the mark of a line are looked at by themselves at the desk `dividend_payment`.

`FileLadder` is the **abstract specification**: the transition tables of `packages/shared` (`REVIEW_FLOW`,
`TASK_TRANSITIONS`, ...) and, where there is none, the decisions of the demo stores; a decision is one indivisible step.
`KeepsLadder` is the refinement `Promised!Spec` with `strict <- Strict`: desks guarded by a trigger or a WHERE clause keep the
ladder whatever overtakes, the others (handovers, welfare, corrections, lifecycles) while requests come one at a time,
payroll runs and findings not at all.

### 2.6 Bulk jobs: `BulkJob`

| Action | Code (`documents-live.routes.ts`) |
|---|---|
| `Create`, `InsertItems` | 584-609: the job, then its items |
| `Tick`, `LoadItems` | 624-630: the job, then its items, ordered by a column `bulk_job_items` does not have (`ItemColumns` are those of 0054:78-87), with an error nobody reads |
| `Start` | 687-689: marked as running |
| `RunItem` | 692-705: `runBulkItemLive`, then the item's result |
| `Finish` | 706-715: the counters and the status, computed from what this tick read |
| `Lose` | the rest of a request does not happen |

`/comms/bulk/:id/tick` is the same worker. Because the read of the items always fails, a tick has nothing to run: it ends the
job as done with all its items pending, and `RunItem` is never taken. The module is kept small and says just that
(`jobs_ticks` in section 3); what overlapping ticks would do to counters and documents is a question about a worker that
has never run on the migrated schema. With `created_at` among the columns, `FinishedIsDone` holds of the same instance.

### 2.7 Messages: `Messaging`

| Action | Code (`comms-live.routes.ts`) |
|---|---|
| `Send` | 343-369: opt-out, window, template; `loadRules` (51-65): rules that cannot be read are `DEFAULT_COMM_RULES`, for this send |
| `CheckCaps` | 370-398 with `spendFor` 67-71 and `assertWithinCaps`: what cannot be read is zero |
| `Retry` | 496-511: the rules, then the due rows are read, none is claimed |
| `Dispatch` | 399-411, 513 with `HttpSmsGatewayProvider.send` (`communication.ts:127-142`): the provider, before the row is written. It takes the message or not (`taken`); an answer that never comes is `ok: false`, like a refusal |
| `Record` | the row is inserted by a send, overwritten by a retry (525-542) |
| `ReadSpend`, `WriteSpend` | `bumpSpend` 73-80: read and written back by two queries |
| `Midnight`, `Lose` | the date changes; the rest of a request does not happen |

`delivered` and `sends` count what the provider took, whatever the server believes; `lost` counts requests, readings and
answers. The caps and the number of retries are functions of the rules, those of the organization and the default ones.

## 3. What the runs check

Distinct states in parentheses. Every passing run exhausts its instance; symmetry is used over interchangeable
requests, sessions and applications and never in a run with a liveness property.

| Run | Properties | What it shows |
|---|---|---|
| savings_ledger (691 000) | TypeOK, PassbookAddsUp, ReportAgrees, Serial, KeepsMinimum | two sessions post deposits (with and without a destination), withdrawals, transfers and reversals on two accounts: every interleaving, crash and deadlock is a serial book whose lines add up |
| savings_products (61 800) | Serial, TransactionsEnd | the same refinement with a trigger that deposits to two linked accounts, interest keys, closures, the loan lock and dormancy; every transaction ends |
| loan_chain (272 000) | ChainComplete, DecisionsOnRecord, RejectedForGood | three requests with every input on one application, any of them lost half way or with a read that fails unread |
| loan_limits (3 844 000) | WithinLimit, OverlapBounded | four applications of a member, all above the limit and one above the default too, carried to approval by two requests whose policy reads may fail |
| loan_progress (934) | EachDecided | requests served one at a time: an application within the limit is decided |
| schedule_payout (4 434 000) | ApprovedIsMoved, ScheduleMatches, CashBounded, PaidHasSchedule, CompletedForGood | three applications prepared and paid out on two days, a fourth rescheduled, by two overlapping requests with one loss or unread error anywhere |
| desk_ladders (168 000) | DoneIsWritten, LedgerIsBacked, SettledOnce, BooksAgree, KeepsLadder, Closes | a file at each of 24 desks, three requests that overlap or come one at a time, two losses, consequences that are passed over |
| messaging_retries (1 503 000) | TypeOK, SpendAgrees, CapBounded, DeliveredOnce, RetriesEnd | two messages over two days, retried up to twice, two requests that overlap or come one at a time, one loss of a request, a reading or an answer |
| collection_books (2 438 000) | TypeOK, PostedIsStored, EntriesAreBacked, PassbookCovered, DeletedIsReversed, DepositsBounded, SettledForGood | two entries with a loan and savings part, two overlapping requests, one manager, one failure anywhere, unread errors included |

Type invariants of `LoanApplication`, `LoanSchedule` and `ApprovalDesk`, and `FreshRead`, are in no run: they are proved for
every instance (section 4).

### Bounds

* *Savings*: two accounts and two sessions are enough for every conflict of two postings, for a transfer in
  each direction, a deadlock, and a transfer beside a closure; three rows let a posting, its reversal and a
  third posting follow each other. One amount next to an opening balance of 2 and a minimum of 1 makes the
  minimum bite after one withdrawal. Deposits stand for all types that may carry a stray destination: a withdrawal that does
  differs by its sign only, and the proofs take any set of types. Two linked accounts make the trigger hold one row lock
  while it asks for the next, in either order. `MaxRows` is the only bound inside an action (`Commit`, `StartLink`,
  `LinkCommit`); a transaction that meets it is rolled back, as by a failing insert.
* *Loans*: three requests are needed to record the three officer stages at once; `MaxRows = 2` allows the
  duplicate stage row that the code allows. Four applications with `MaxOverlapping = 1` give room for two
  concurrent approvals beyond the limit's check. Three of them are between the limit and the default, which a misread policy
  lets through, one is above both.
* *Schedule*: three applications and a limit of one make the limit bite, and two requests and one unread sum exceed
  it by as much as `CashBounded` allows. Two days let two executions of one application compute two different schedules.
  Three rows of which two are shifted leave one that is not; two rulings on the one reschedule may overlap. (With two reschedule
  requests, one day was checked too, with 2.2 million states; the proofs take any number of both.) With `MaxWeek = 5` rows
  move once in full and again after a partial move; a second full move of the same rows is beyond the bound, and adds
  no step of another kind. `MaxLosses = 1` puts one failure at any query.
* *Desks*: three requests let two overtake a third; two losses may fall between any two queries, and are what it takes to mark both
  lines of a distribution and move it on by neither. `MaxEffects = 8` bounds
  the consequences of a member's lifecycle, which has a cycle; the other desks do not reach it under `Strict`.
* *Bulk jobs*: one request at a time and two members: the disagreement needs no overlap.
* *Messages*: two days, two messages, a daily cap of one (two by the default rules) and a monthly cap of two make both caps matter;
  `MaxRetries` is two by the organization's rules, so that a retry may leave a message to be retried again and two overlapping
  retries may hold different numbers of attempts, and one by the default rules. Three messages were run once, before answers
  could be lost and with one retry (24.5 million states), and gave the same results.
* *Collection*: one installment of 3 with payments of 2 makes the second payment exceed what is owed;
  `SavingsFirst` gives each entry both parts. Two requests are two tabs; a third only repeats their roles.
  `MaxFaults` bounds failures: one failure may hit any query of any request or manager, whether its error is read or not.

The proofs below have no such bounds.

### Fairness

* `SavingsLedger`: strong fairness of `Commit` and `LinkPost` (the database executes an open transaction and hands row locks on in
  the order of the requests, so one that can go on again and again does), weak fairness of `LinkCommit`, `Fail` and `LinkFail`
  (deadlock detection and constraint errors). `Begin` is not fair: nobody has to post.
* `LoanApplication`: weak fairness of `Serve`: the server goes on with what it has accepted. Strong fairness
  of `BeginStep` and of approvals is an assumption about the *staff*, not about the code: they do not give
  up on an application. `EachDecided` asks whether the code then lets them finish.
* `ApprovalDesk`: weak fairness of `Serve`; strong fairness of `Decide`, a decision the ladder asks for: again the staff,
  who go on until the file is closed. `Closes` asks whether handlers and triggers let them. It leaves out tasks and
  lifecycles, whose ladders have a way back, the desks whose trigger holds files back, and distributions that are `Stranded`
  (below).
* `Messaging`: weak fairness of `Serve`, strong fairness of `RetryDue`, the button the staff press again; nothing says
  that the provider ever accepts. `Send` is not fair.
* `CollectionPosting`, `BulkJob` and `LoanSchedule` have no liveness property. A flush of the outbox follows a capture, the `online`
  event or a click, never a timer, and `DocsPage.tsx:422` offers the tick of a pending job only: nothing in the code makes either
  happen again. Nothing obliges the staff to pay out or reschedule, and an execution that was lost cannot be completed.

### What the properties had to leave room for

Some properties are weaker than one would wish, because the code does less. Each is stated as sharply as it holds:

* `ReportAgrees` is stated account by account, and excuses an account that is named as destination by a row other than a
  transfer, has a transfer to itself, or has a row that reverses or is reversed (`ReadsRight`): `recompute_balance` reads each of
  these differently than they were posted. Such a row excuses its accounts only.
* `WithinLimit` excuses `misread`: an application above the organization's limit whose policy could not be read. It is never
  above the default.
* `CashBounded`: the limit plus less than the number of requests plus the sums nobody answered.
* `PaidHasSchedule` holds while no request is lost: after a loss a payout can stay without schedule for ever.
* `ApprovedIsMoved` says nothing of *how often* the rows were moved, and needs that no move failed unread.
* `SettledOnce`, `DepositsBounded`, `DeliveredOnce`: one per overlapping request and per failure, since none claims its work.
  `DeliveredOnce` is about requests one at a time; a lost answer of the provider is a failure there.
* `SettledForGood`: an entry stays settled until a query fails. A lookup that fails unread takes the entry for a new one, and
  deposits and books it again; the insert is then refused by the unique key and answered as failed.
* `DoneIsWritten` and `BooksAgree` excuse `skipped`: a journal that was passed over, a movement whose update failed.
* `LedgerIsBacked` speaks of claims and welfare. Of branches the like would be false: `PATCH /org/branches/:id`
  (`org.routes.ts:275`) makes a branch active without an opening.
* `Closes` excuses `Stranded`: a distribution with no line left to pay, after a loss.
* `CapBounded` holds day by day, for sends, one at a time, once more for each loss: of a request, of a counter, of an answer, or of
  the rules, whose default takes the place of the organization's cap. Retries ask for no cap.
* `SpendAgrees`: never too much, whatever is lost; exact only where nothing was.

### Disagreements between the code and what it says

Three runs are expected to end in a violation; the findings in `PROJECT.json` quote the lines they refute.

| Run | Property | What happens |
|---|---|---|
| collection_twice | PostsOnce | a request dies after the deposit and before the insert of the key; the retry deposits again |
| collection_queue | FailedStaysQueued | one query fails; the entry is answered as failed, leaves the queue (`offline.ts:139-140`) and is never sent again, though `offline.ts:8` keeps failed entries for the next attempt |
| jobs_ticks | FinishedIsDone | the first tick ends the job as done and has run none of its items; `documents.test.ts:171` says that a tick processes all of them |

The second is not repaired by keeping failed entries queued: where the order trigger refuses the insert (below), the deposit
has been made before, and each new attempt would deposit again. `DepositsBounded` holds because failed entries are *not* sent
again, and its mutant keeps them.

The following were read in the code while modelling. They have no run; where the part is modelled, the model contains them.

* Savings: a transfer's destination is checked without a lock and credited although another session has closed it
  (0010:65, 108). The same row can be reversed twice (0010:72; the demo store refuses it, `savings-store.ts:324-326`).
  `recompute_balance` leaves reversed originals out and counts their reversals (0011:120-135), so
  `ReportAgrees` excuses them. It counts a deposit or withdrawal that was sent with a destination for that account as well (130),
  whose balance never moved. The opening balance is in no row, so the report
  differs by it. A transfer to the same account is not refused in 0010. Locked savings leave by a
  transfer (0010:84-86). The report of POST `/reconciliation/run` counts adjustments as money in and leaves
  incoming transfers out (`savings.routes.ts:657`). A manual interest run ends at the first account whose
  interest is 0.00 (350). The weekly job's early return stands inside its loop (`savings-interest-job.ts:61`),
  and its run key is set before the work (27).
* Loans: with a policy that cannot be read the branch manager's limit is 100000.00 (606-611), and a member may have two active
  applications (327-332). A rejection that read `bm_review` before an approval committed turns the approved application into a
  rejected one (602; 0012:179). When two stages are recorded before either request counts, no request sees exactly one, and the
  application stays `submitted` for ever (570). A stage can be recorded twice (532-540); a decision row stays when the update is
  refused or overtaken (620); the count of active applications races (321); `am_review` is never reached (571, 612).
* Payout: no application ever becomes `disbursed`: the trigger refuses it from `approved` (0012:164), and the handler raises
  at its last query (1007). The retry then meets the conflict at 971, although the comment at 977-978 calls the execute
  idempotent on retry. A prepared record can never be completed (0018).
* Reschedule: every approval of a pending request raises, by a column `total` that `loan_installments` does not have
  (0014:42-54, used at 0022:110), after the handler has moved the rows; a retry moves them again. Only an approval
  that overtook a rejection is stored. The first row is moved by one week, the second by two, so that dates
  collide; the demo store shifts all alike (`collection-store.ts:928-943`). A second pending request for the loan is
  accepted, which the demo store refuses.
* Desks: the triggers of projects, cases and complaints look up `new.status`, so that nearly every change raises, although their
  comments say they mirror the shared tables (0044:188, 0046:88, 0050:36-38). A death claim cannot leave `submitted` but by
  rejection (0040:75-83). The journals of dividends and exits are dropped in silence where `coop_journals` or one of its columns
  is missing (`coop-governance-live.routes.ts:53-76`). A distribution stays `posted` for ever when the request that pays its last
  line is lost before line 280 and no other payment got there, or when its lines were never stored (199). A payroll run can be
  paid as a draft (`hr.routes.ts:1238-1253`; the demo store refuses it, `hr-payroll-store.ts:235`). Corrections of a bank account
  write nothing. The order number of a movement decision and the policy of a paid claim are written by queries whose error is
  unread.
* Bulk jobs: a job left `running` by a lost tick is not offered for another one (`DocsPage.tsx:422`). `sms_batch` would always fail,
  with the text that another pipeline handles it (674), though `/comms/bulk` is the same worker.
* Messages: `monthly_cost` starts at 0 every day, so the monthly cap never binds across days; a retry looks at neither
  cap nor opt-out. A message whose answer is lost is sent again (`communication.ts:140`). One failed read of the rules sends by
  the default cap of 500 (54), and a change of the rules then stores the defaults over the organization's own (90-118).
* Collection: an entry may be allocated against a schedule that could not be read, as if nothing were due (477-511). The order
  trigger refuses an allocation without a current part, and one that fills the current installment, after the money was written
  (0020:77-115); a concurrent payment can be lost from the schedule (525); the journal is not taken back by a reversal (0058);
  expected cash counts deleted entries (0020:142); a second tab can mark a stored entry as failed.
* Write-off and accounting, which are not modelled: `fn_apply_write_off` (0058:86-115) sets a status that
  `enforce_loan_status_transition` refuses, so every approval raises; voucher numbers are a count plus one
  (`accounting.routes.ts:105-111`); petty cash loses updates (949).

## 4. What is proved

TLAPS checks six proof modules, and `SumLemmas`, to the last leaf, for every value of the constants that the named
assumptions (`RowConstants`, `LedgerConstants`, `LoanConstants`, `ScheduleConstants`, `DeskConstants`,
`MessagingConstants`, `CollectionConstants`, `EntryOrNot`) allow. They say what kind of thing a constant is;
those that are summed or counted over (sessions, requests, the entries of a phone) are finite. Each argument is an inductive
invariant `IInv`: it holds initially, every action keeps it, and it implies what is wanted. Every safety property of a
passing run is the subject of a theorem.

**Sums** (`SumLemmas`). Passbooks, journals and counters are compared by `SumFunctionOnSet` of the community modules, a fold in an
order nobody fixes. The module proves that it is the sum one expects: `SumRecursion`, `SumTakeOut` (any element may be taken out
first), `SumAdd`, `SumSame`, `SumChange` (one value changes), `SumAtMost`, `SumZero`, `SumNat`. The inductions behind them are
inductions over a *set of numbers* (`AllNumbers`): the set of those n for which the fact holds has no least counterexample. That
form needs no theorem with an operator as its parameter.

**Savings** (`SavingsLedgerProofs`). `IInv` is `TypeOK`, `FreshRead`, and
* `LockExclusive`: two open transactions, of requests or of activations, hold different accounts. Without it `FreshRead` is not
  inductive: another commit could overwrite the locked account.
* `ChecksStand`: what `Begin` checked about the *locked* account still holds, and a destination is opened.
  Only facts about the locked row stand, which is exactly why a closed destination can be credited.
* `LinksStand`: an activation has one row for each account it has come to, computed from a balance nobody else has moved since.
* `UnopenedEmpty`: accounts not opened have no money, so opening is a plain step.

Theorems: `TypeCorrect` (balances never negative), `ReadsStayFresh`, `MinimumKept`, and **`Serializable`**: `Spec => BookSpec`,
the ledger implements the serial book. `Commit` maps to `Post`, `LinkCommit` to `LinkLoan`, every other action to a step of the
book or to a stutter; the core is that `FreshRead` makes the absolute update equal to the book's increment, and that `Waits` keeps
a destination's owner from overwriting the credit.

The passbook is proved from the serial book: since each step of the ledger is one of the book, only the book's steps
have to be looked at. `PassbookInv` adds to `IInv`
* `RowsSound`: a row reverses an *earlier* one and names opened accounts only, so that what a row moves is fixed when it is
  inserted (`MovedStable`) and an account that opens has not moved,
* `BooksAddUp`: the balance is the opening balance plus what *all* rows moved. `PassbookAddsUp`, which speaks of the balances
  the lines show, is not inductive without the balance the next line will start from.

Theorems: **`PassbookCorrect`**, `BalanceMovesByRows` (an action property: no step changes a balance but by the rows it inserts)
and `ReportCorrect`: where all rows of an account read as they were posted (`ReadsRight`), `recompute_balance` is what they moved
(`ReportIsMoved`).

`NobodyIsStuck` is the safety half of `TransactionsEnd`: of any open transactions that wait only for one another, requests and
activations alike, one can go on, is refused or is in a deadlock that the database finds. They are finitely many, so transactions
that all wait have a smallest set in which all wait for one of the set, and in a smallest one each is also waited for. It is about
the guards (`MayCommit`, `MayFail`, `MayPostNext`, ...), since `ENABLED` cannot be reasoned about.

**Loans** (`LoanApplicationProofs`). `IInv` adds to `TypeOK`, `ChainComplete`, `WithinLimit`
* `StatusReached`: only six statuses occur (in particular `am_review` never),
* `RequestsStand`: what a request established stays true until it writes: stage rows are never deleted, an approval on its way is
  within the limit or excused by a misread policy (`Excused`), a decision whose triggers have run still may be made,
* `LockExclusive`, `SubmittedOnce`: one update per row, one submission per application.

`OneStageAtATime` says that each change of a status is one move of the chain: the trigger that judges it runs before the
commit, and `TriggersStand` (what it allowed it would still allow) is inductive because the row stays locked in between and
only unlocked rows are advanced. The chain has the move from approved to rejected: the code allows it.

`NobodyIsStranded` is the safety half of `EachDecided`, under the same premise that requests come one at a time, none is lost and
no read fails: the count of the stages moves the status at one and at three only, so an application that had stages and was still
submitted, or had all three and was under review, would have no request left that moves it. `StageInv` says what led to each
status while a request has recorded its stage and not moved the status yet. With overlapping or lost requests it is false (section
3).

Theorems: `TypeCorrect`, `ChainKept`, `LimitKept`, `OneStageAtATime`, `NobodyIsStranded`, `RejectionsStand`,
`DecisionsStayOnRecord` (a decision past its insert has its row, `RecordInv`), and `OverlapStaysBounded`, whose inductive bound
counts the approved applications of a member together with the approvals whose triggers have run (`OverlapInv`): each request that
passes the check found room for one, so the total stays below the limit plus the number of requests.

**Payout and schedule** (`LoanScheduleProofs`). `IInv` adds to the properties
* `RequestsAreFine`: what each request holds: a payer's record is completed with its day, a mover has read rows that are
  due no earlier than their week, and has moved those before its row (unless an error was not read),
* `OnePays`: one execution between record and mark for each application; the unique key of the record gives it, and
  with it that a conflict never leaves a payout without its schedule,
* `ChecksDone`, `Rises`, `PaidOutStays`: completed records keep their checks, rows are never due before their week, and
  the loans paid out earlier keep their rows,
* `CashWithin`: the cash paid on a day *together with* the executions that have summed it and may still pay stays below the
  limit plus the requests plus the unread sums; `CashBounded` alone is not inductive.

Theorems: `TypeCorrect`, `ScheduleStaysMatched`, `PaidStaysScheduled`, `CashStaysBounded`, `ApprovedStaysMoved`,
`CompletedStands`.

**Desks** (`ApprovalDeskProofs`). `IInv` adds to `TypeOK` and `DoneIsWritten`
* `OneAtATime`, `StillRead`: at desks that compare what they read, and only while requests come alone, the status read still
  holds; it is what makes their updates steps of the ladder,
* `Applying`: a movement about to become effective is approved or effective, a dividend about to be paid is posted,
* `Mirrored`: the three mirrored triggers keep their files near the first status, so that they too keep the ladder,
* `WrittenFirst`, `SettledFirst`: the order of status and consequence, for each request on its way, unless it was skipped,
* `Backed`: at the desks that write the consequence after the status, branch openings included, there is none before. For the four
  desks with a fund it is `LedgerIsBacked`.

The payment of a dividend's line moves the distribution on but writes no consequence for it; `LinesAreDividends` keeps such
decisions apart from all other desks.

`SettleInv` then counts consequences. Once a file is settled, those written and the requests that may still write one
(`MayWrite`) are within the requests there is room for, plus the losses; before that, each one belongs to a request past it
and before the update (`HasWritten`), which `OnTheWay` brings to the status; at the desks that write afterwards
somebody is about to write (`WillBeWritten`).

Theorems: `TypeCorrect`, `DoneStaysWritten`, `LedgerStaysBacked`, `SettlesNoOftener`, `BooksStayInAgreement`, and
**`LadderKept`**: `Spec => KeepsLadder`, every desk implements `FileLadder`: `Update` maps to `Move`, every other action to a
stutter.

**Messages** (`MessagingProofs`). `IInv` is `TypeOK`, `Shaped` (a send has its own message, a retry the one it is at) and, while
requests come one at a time,
* `Served`: what the one request relies on (`Fits`): nobody else writes its rows, the organization's cap leaves room for it or a
  loss accounts for it, the counters it has read cover what was sent before,
* `Once`: a message still to be sent has been taken for losses only, lost answers among them, unless it has just been accepted,
* `Capped`: the counters cover the sends of a day but for losses and one send under way (`Covered`); a loss of any kind is charged
  a whole cap (`Charge`), which leaves room for the one send that default rules or an empty counter let through. `CapBounded` is
  not inductive without it: the check compares the counters with the cap, never the sends.

`SpendAgrees` needs more, `SpendInv`, because a counter may be read as zero and written back: what is recorded goes down, and a
request that read it earlier writes the higher value again. Adding up the counters and what is on its way is not inductive.
`NeverOver` therefore says that there is a count `h` of the *readings* of each day, at or above its counter *and* above what any
request is about to write, whose sum, with the messages accepted and not yet read for (`Transits`), is within the deliveries; a
message that was taken and whose answer was lost only adds to the deliveries. `Exact` says for requests that come one at a time
and without losses that recorded and not yet credited messages are the deliveries, and that what was read is still the counter.

Theorems: `TypeCorrect`, `CapStaysBounded`, `DeliveredStaysOnce`, **`SpendStaysTrue`**.

**Collection** (`CollectionPostingProofs`). `IInv` is `TypeOK` with
* `AnswersTrue`: a result "posted" or "duplicate", in a reply or on the phone, is about a stored row,
* `ReversalsSound`: a manager about to delete has stored the reversal,
* `DepositsMade`: a request past the deposit has made it, and so has every stored entry.

`BooksInv` adds the sums. The deposit, the journal and the passbook line of an entry are written before its row, so that none
of the properties is inductive by itself:
* `CreditsBooked`: the journal has the loan parts of the stored entries *and* of those that requests have booked and are about to
  store (`AllUnstored`). A loss only takes from that; a retry books again before it stores,
* `LinesBooked`: the passbook *and any balance that was read from it*, each together with what is booked and not yet added
  (`AllUnlined`), is within the journal. The second part is what an overlapping request overwrites the passbook with.

`AllocationSound` is about `allocateCollectionPayment` alone, for any payment, any paid amounts, whatever part of the sheet could
be read, and both orders: the remainders after each installment are determined, the loan parts add up to the credit the journal is
given (a telescoping sum), credit and savings are within the payment, no installment gets more than it owes, and a later one gets
something only when the claims of the earlier ones are met.

How often an entry is deposited is counted by what may still come. A request has a chance (`Chances`) to deposit an entry that it
has taken and not deposited yet, and another when the entry is in the queue and no reply on its way will take it out.
`DepositsWithin` says that the deposits of an entry together with the chances of all requests stay within the number of requests
plus the failures: a deposit uses up a chance, a reply that is applied takes chances away, and only a failure (a lost connection,
a crash) gives one. `DepositsBounded` alone is not inductive, and the argument needs that a failed entry leaves the queue.

Theorems: `TypeCorrect` (no installment is paid beyond its total or below zero, which needs that allocations are bounded by
claims), `PostedStays`, `DeletedWasReversed`, **`EntriesStayBacked`**, **`PassbookStaysCovered`**, `DepositsStayBounded`,
`AllocationSound`, and `SettledStays`: once an entry is stored and nobody is posting it, no request deposits or books for it again
and its row stays, until a query fails.

**What the proofs found in the models.** The formula of `recompute_balance` was a CASE whose guards overlapped: TLA+ does not say
which branch is taken, and no proof went through. It is an IF now, in the order of the SQL. Sums that passed an operator to a
community module are sums of a function, which can be reasoned about. The refinement of a loan's activation needed the serial book
to take all its deposits in one step: one `Post` for each row is not what another session can see. The entries and requests of
`CollectionPosting` and the sessions of `SavingsLedger` are assumed finite.

**Only model-checked.** Liveness (`TransactionsEnd`, `EachDecided`, `Closes`, `RetriesEnd`): fairness and
`ENABLED` are beyond the prover; of `TransactionsEnd` and `EachDecided`, `NobodyIsStuck` and `NobodyIsStranded` are
what can be proved. And `PostsOnce`, `FailedStaysQueued` and `FinishedIsDone`, which are false.

## 5. What is not modelled

The repository has some 81 000 lines, most of them forms, validation schemas, seeds, reports and registers that insert and select
single rows. The models cover the chains of queries that change state together; what is left is mostly code of which a run would
only restate the code:

* *Interest run and job*: one loop over calls of the ledger that is modelled; its errors are in dates and rounding.
* *Early closure and write-off*: closure is a quotation over amounts. A write-off's approval always raises (section 3): a
  model would show a desk that never moves.
* *Delinquency*: classification is arithmetic over the schedule; its workflows write the status without any check.
* *Savings adjustments and the reversal trigger*: direct writers of balances beside the ledger: a hazard without a property,
  since nothing protects the balance from them.
* *Writers beside a modelled part*: `PATCH /org/branches/:id` (`org.routes.ts:275`) sets any status of a branch, and
  `PUT /comms/rules` (`comms-live.routes.ts:90-118`) replaces the organization's rules: the models cover the opening's own path and
  rules that stay.
* *A worker that runs its items*: with the column that `documents-live.routes.ts:628` asks for, overlapping ticks would run the same
  items and overwrite each other's counters. On the migrated schema no tick gets that far.
* *Accounting*: voucher numbers, cash book, petty cash, bank reconciliation and period closes.
* *Members, samity, organization, MIS, documents, security*: apart from the desks above, registers and read models.
* *Middleware, authentication, row level security*: decide *who* may call; the models start behind them and let any
  staff member send any input.
* *Demo stores*: synchronous, in one process; they are the reference of `FileLadder` and of what live handlers mean to do.
* *Web pages, scripts, status worker, shell*: forms and I/O.

## 6. Plan

1. *Composition*: `LoanSchedule`'s rows are `CollectionPosting`'s installments; a reschedule that moves rows while a payment is
   posted is not yet in one model.
2. *Period close* (`accounting.routes.ts:1362-1405` with the guards of 0030) beside postings under way.
3. The allocation engine with the `proportional` order, compared with a reference definition.
4. *Bulk jobs*, once a migration gives `bulk_job_items` its column: overlapping ticks, their documents and counters.
5. *Proofs*: the safety halves of `Closes` and `RetriesEnd`, in the manner of `NobodyIsStuck`: whenever the
   property still asks for something, some request can be served or some input is accepted.
