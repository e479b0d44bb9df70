------------------------ MODULE CollectionPostingProofs ------------------------
(***************************************************************************)
(* Proofs about CollectionPosting, for any entries, payments, schedule,    *)
(* number of overlapping requests and managers, and number of failures.    *)
(***************************************************************************)
EXTENDS CollectionPosting, SumLemmas, TLAPS

Stored(k) == entries[k] # NoEntry

\* A positive answer is given for stored entries only.
AnswersTrue ==
  /\ \A r \in Requests, k \in Keys :
       result[r][k] \in {"posted", "duplicate"} => Stored(k)
  /\ \A r \in Requests, k \in Keys : At(r, "scan", k) => Stored(k)
  /\ PostedIsStored

\* A reversal under way is about a stored entry, and it hides the entry only
\* when the reversal is there.
ReversalsSound ==
  /\ \A m \in Managers :
       /\ mgr[m].at # "idle" => mgr[m].key \in Keys /\ Stored(mgr[m].key)
       /\ mgr[m].at = "delete" => mgr[m].key \in reversed
  /\ DeletedIsReversed

\* Once a request is past the deposit, there is one.
Deposited(r, k) == plan[r].savings > 0 => deposits[k] > 0

DepositsMade ==
  /\ \A r \in Requests, k \in Keys :
       /\ pc[r] \in {"journal", "prior", "line", "entry"}
       /\ At(r, pc[r], k)
       => Deposited(r, k)
  /\ \A k \in Keys : Stored(k) /\ entries[k].savings > 0 => deposits[k] > 0

IInv == TypeOK /\ AnswersTrue /\ ReversalsSound /\ DepositsMade

-----------------------------------------------------------------------------
(* Small facts *)

LEMMA LowerNat == \A x, y \in Nat : /\ Lower(x, y) \in Nat
                                    /\ Lower(x, y) <= x /\ Lower(x, y) <= y
BY DEF Lower

\* The entry a request is at is the only one.
LEMMA OneAtATime ==
  ASSUME TypeOK, NEW r \in Requests, NEW s, NEW t, NEW j \in Keys, NEW k \in Keys,
         At(r, s, j), At(r, t, k)
  PROVE  j = k /\ s = t
BY CollectionConstants DEF CollectionConstants, TypeOK, At

LEMMA NoPlanType == NoPlan \in Plan
BY DEF NoPlan, Plan

\* An allocation against a schedule in its bounds is an allocation.
LEMMA AllocationType ==
  ASSUME NEW app \in BOOLEAN, NEW p \in [Schedule -> 0..Due], NEW savings \in Nat,
         NEW payment \in Nat, NEW left \in Remainders(p, savings, payment)
  PROVE  Allocation(app, p, savings, payment, left) \in Plan
<1> DEFINE start == payment - (IF SavingsFirst THEN Lower(savings, payment) ELSE 0)
           share == [i \in Schedule |-> left[i - 1] - left[i]]
           current == {i \in Schedule : IsCurrent(p, i) /\ share[i] > 0}
<1>1. /\ Installments \in Nat /\ Due \in Nat /\ SavingsFirst \in BOOLEAN
  BY CollectionConstants DEF CollectionConstants
<1>2. start \in Nat
  <2>1. Lower(savings, payment) \in Nat /\ Lower(savings, payment) <= payment
    BY LowerNat
  <2>2. CASE SavingsFirst
    BY <2>1, <2>2
  <2>3. CASE ~SavingsFirst
    BY <2>3
  <2>4. QED BY <2>2, <2>3
<1>3. /\ left \in [0..Installments -> 0..start]
      /\ left[0] = start
      /\ \A i \in Schedule : left[i] = left[i - 1] - Lower(Claim(p, i), left[i - 1])
  BY DEF Remainders
<1>4. \A i \in Schedule : share[i] \in Nat
  <2> TAKE i \in Schedule
  <2>1. /\ i \in 0..Installments /\ i - 1 \in 0..Installments
        /\ left[i - 1] \in Nat /\ left[i] \in Nat
    BY <1>1, <1>2, <1>3 DEF Schedule
  <2>2. Claim(p, i) \in Nat
    BY <1>1 DEF Claim
  <2>3. left[i] = left[i - 1] - Lower(Claim(p, i), left[i - 1])
    BY <1>3
  <2>4. Lower(Claim(p, i), left[i - 1]) \in Nat
    BY <2>1, <2>2, LowerNat
  <2>5. share[i] = left[i - 1] - left[i]
    OBVIOUS
  <2> HIDE DEF share
  <2>6. QED BY <2>1, <2>3, <2>4, <2>5
<1>5. share \in [Schedule -> Nat]
  BY <1>4
<1>6. left[0] - left[Installments] \in Nat
  BY <1>1, <1>2, <1>3
<1>7. (IF current = {} THEN 0 ELSE CHOOSE i \in current : TRUE) \in Nat
  <2>1. current \subseteq Nat
    BY DEF Schedule
  <2> HIDE DEF current
  <2>2. QED BY <2>1
<1>8. Lower(savings, IF SavingsFirst THEN payment ELSE left[Installments]) \in Nat
  <2>1. left[Installments] \in Nat
    BY <1>1, <1>2, <1>3
  <2>2. CASE SavingsFirst
    BY <2>1, <2>2, LowerNat
  <2>3. CASE ~SavingsFirst
    BY <2>1, <2>3, LowerNat
  <2>4. QED BY <2>2, <2>3
<1> DEFINE own == IF current = {} THEN 0 ELSE CHOOSE i \in current : TRUE
           saved == Lower(savings, IF SavingsFirst THEN payment
                                                   ELSE left[Installments])
<1>9. Allocation(app, p, savings, payment, left) =
        [app |-> app, loan |-> share, credit |-> left[0] - left[Installments],
         current |-> own, savings |-> saved]
  BY DEF Allocation
<1>10. share \in [Schedule -> Nat] /\ own \in Nat /\ saved \in Nat
  BY <1>5, <1>7, <1>8
<1> HIDE DEF share, own, saved
<1>11. QED BY <1>6, <1>9, <1>10 DEF Plan

-----------------------------------------------------------------------------
(* Types *)

\* The fields of the requests, the books and the rows, so that a step proves
\* only what it changes.
WorkType ==
  /\ pc \in [Requests -> Steps]
  /\ batch \in [Requests -> SUBSET Keys]
  /\ result \in [Requests -> [Keys -> {"none", "posted", "duplicate", "failed"}]]
  /\ plan \in [Requests -> Plan]
  /\ todo \in [Requests -> SUBSET Schedule]
  /\ seen \in [Requests -> Nat]
  /\ online \in [Requests -> BOOLEAN]

BooksType ==
  /\ paid \in [Schedule -> 0..Due]
  /\ deposits \in [Keys -> Nat]
  /\ booked \in Nat
  /\ passbook \in Nat

RowsType ==
  /\ entries \in [Keys -> Plan \cup {NoEntry}]
  /\ reversed \subseteq Keys
  /\ deleted \subseteq Keys

OtherType ==
  /\ outbox \in [Keys -> {"none", "queued", "posted", "failed"}]
  /\ mgr \in [Managers -> [at : {"idle", "existing", "insert", "delete"},
                           key : Keys \cup {0}]]
  /\ faults \in 0..MaxFaults

LEMMA TypeParts == TypeOK <=> WorkType /\ BooksType /\ RowsType /\ OtherType
BY DEF TypeOK, WorkType, BooksType, RowsType, OtherType

LEMMA FinishType ==
  ASSUME WorkType, NEW r \in Requests, NEW k \in Keys,
         NEW res \in {"posted", "duplicate", "failed"}, Finish(r, k, res)
  PROVE  WorkType'
BY NoPlanType DEF WorkType, Finish, Goto, Steps

LEMMA FaultType ==
  TypeOK /\ (Fault \/ UNCHANGED faults) => faults' \in 0..MaxFaults
BY CollectionConstants DEF TypeOK, Fault, CollectionConstants

\* The sheet is one that postEntry takes for the member's: of a loan and a
\* schedule and weekly savings that may not have been read.
Plans(r, app, known, savings, payment, left) ==
  LET a == Allocation(app, known, savings, payment, left)
  IN  /\ plan' = [plan EXCEPT ![r] = a]
      /\ todo' = [todo EXCEPT ![r] = {i \in Schedule : a.loan[i] > 0}]

LEMMA SheetStep ==
  ASSUME TypeOK, NEW r \in Requests, NEW k \in Keys, ReadSheet(r, k)
  PROVE  /\ At(r, "sheet", k)
         /\ UNCHANGED <<outbox, books, rows, mgr>>
         /\ Fault \/ UNCHANGED faults
         /\ \/ Finish(r, k, "failed")
            \/ /\ \E app \in BOOLEAN, known \in [Schedule -> 0..Due], savings \in Nat :
                    \E left \in Remainders(known, savings, Payment[k]) :
                      Plans(r, app, known, savings, Payment[k], left)
               /\ Goto(r, "deposit") \/ Goto(r, "read")
               /\ UNCHANGED <<batch, result, seen, online>>
<1>1. PICK unread \in SUBSET {"loan", "schedule", "savings"} :
        LET app     == Installments > 0 /\ "loan" \notin unread
            known   == IF app /\ "schedule" \notin unread
                       THEN paid ELSE [i \in Schedule |-> Due]
            savings == IF "savings" \in unread THEN 0 ELSE SavingsDue
        IN  /\ IF unread = {} THEN UNCHANGED faults ELSE Fault
            /\ IF app \/ savings > 0
               THEN \E left \in Remainders(known, savings, Payment[k]) :
                      LET a == Allocation(app, known, savings, Payment[k], left)
                          touched == {i \in Schedule : a.loan[i] > 0}
                      IN  /\ plan' = [plan EXCEPT ![r] = a]
                          /\ todo' = [todo EXCEPT ![r] = touched]
                          /\ Goto(r, IF touched = {} THEN "deposit" ELSE "read")
                          /\ UNCHANGED <<batch, result, seen, online>>
               ELSE Finish(r, k, "failed")
  BY DEF ReadSheet
<1> DEFINE app     == Installments > 0 /\ "loan" \notin unread
           known   == IF app /\ "schedule" \notin unread
                      THEN paid ELSE [i \in Schedule |-> Due]
           savings == IF "savings" \in unread THEN 0 ELSE SavingsDue
<1>2. /\ Fault \/ UNCHANGED faults
      /\ IF app \/ savings > 0
         THEN \E left \in Remainders(known, savings, Payment[k]) :
                /\ Plans(r, app, known, savings, Payment[k], left)
                /\ Goto(r, "deposit") \/ Goto(r, "read")
                /\ UNCHANGED <<batch, result, seen, online>>
         ELSE Finish(r, k, "failed")
  BY <1>1 DEF Plans
<1>3. known \in [Schedule -> 0..Due] /\ savings \in Nat /\ app \in BOOLEAN
  BY CollectionConstants DEF TypeOK, CollectionConstants
<1> HIDE DEF app, known, savings
<1>4. At(r, "sheet", k) /\ UNCHANGED <<outbox, books, rows, mgr>>
  BY DEF ReadSheet
<1>5. CASE app \/ savings > 0
  BY <1>2, <1>3, <1>4, <1>5
<1>6. CASE ~(app \/ savings > 0)
  BY <1>2, <1>4, <1>6
<1>7. QED BY <1>5, <1>6

LEMMA ServeType ==
  ASSUME TypeOK, NEW r \in Requests, NEW k \in Keys, Serve(r, k)
  PROVE  TypeOK'
<1>0. WorkType /\ BooksType /\ RowsType /\ OtherType
  BY TypeParts
<1> SUFFICES WorkType' /\ BooksType' /\ RowsType' /\ OtherType'
  BY DEF TypeOK, WorkType, BooksType, RowsType, OtherType
<1>1. CASE FindKey(r, k)
  <2>1. WorkType'
    <3>1. CASE Finish(r, k, "duplicate")
      BY <1>0, <3>1, FinishType
    <3>2. CASE Goto(r, "sheet") /\ UNCHANGED work
      BY <1>0, <3>2 DEF WorkType, Goto, work, Steps
    <3>3. QED BY <1>1, <3>1, <3>2 DEF FindKey
  <2>2. faults' \in 0..MaxFaults
    BY <1>1, FaultType DEF FindKey
  <2>3. QED BY <1>0, <1>1, <2>1, <2>2 DEF FindKey, BooksType, RowsType, OtherType,
               books, rows
<1>2. CASE ReadSheet(r, k)
  <2>1. WorkType'
    <3>1. CASE Finish(r, k, "failed")
      BY <1>0, <3>1, FinishType
    <3>2. ASSUME NEW app \in BOOLEAN, NEW known \in [Schedule -> 0..Due],
                 NEW savings \in Nat,
                 NEW left \in Remainders(known, savings, Payment[k]),
                 Plans(r, app, known, savings, Payment[k], left),
                 Goto(r, "deposit") \/ Goto(r, "read"),
                 UNCHANGED <<batch, result, seen, online>>
          PROVE  WorkType'
      <4> DEFINE a == Allocation(app, known, savings, Payment[k], left)
                 touched == {i \in Schedule : a.loan[i] > 0}
      <4>1. a \in Plan
        BY AllocationType, CollectionConstants DEF CollectionConstants
      <4>2. /\ plan' = [plan EXCEPT ![r] = a]
            /\ todo' = [todo EXCEPT ![r] = touched] /\ touched \subseteq Schedule
        BY <3>2 DEF Plans
      <4> HIDE DEF a, touched
      <4>3. QED BY <1>0, <3>2, <4>1, <4>2 DEF WorkType, Goto, Steps
    <3>3. QED BY <1>2, <3>1, <3>2, SheetStep
  <2>2. /\ UNCHANGED <<outbox, books, rows, mgr>> /\ faults' \in 0..MaxFaults
    BY <1>2, SheetStep, FaultType
  <2>3. QED BY <1>0, <2>1, <2>2 DEF BooksType, RowsType, OtherType, books, rows
<1>3. CASE ReadInstallment(r, k)
  <2>1. PICK i \in todo[r] :
          IF paid[i] + plan[r].loan[i] > Due
          THEN Finish(r, k, "failed")
          ELSE /\ Goto(r, "write")
               /\ seen' = [seen EXCEPT ![r] = paid[i]]
               /\ UNCHANGED <<batch, result, plan, todo, online>>
    BY <1>3 DEF ReadInstallment
  <2>2. WorkType'
    <3>1. CASE paid[i] + plan[r].loan[i] > Due
      BY <1>0, <2>1, <3>1, FinishType
    <3>2. CASE ~(paid[i] + plan[r].loan[i] > Due)
      <4>1. i \in Schedule /\ paid[i] \in Nat
        BY <1>0, CollectionConstants DEF WorkType, BooksType,
           CollectionConstants
      <4>2. QED BY <1>0, <2>1, <3>2, <4>1 DEF WorkType, Goto, Steps
    <3>3. QED BY <3>1, <3>2
  <2>3. QED BY <1>0, <1>3, <2>2 DEF ReadInstallment, BooksType, RowsType,
               OtherType, books, rows
<1>4. CASE WriteInstallment(r, k)
  <2>1. PICK i \in todo[r] :
          /\ paid' = [paid EXCEPT ![i] = Lower(seen[r] + plan[r].loan[i], Due)]
          /\ todo' = [todo EXCEPT ![r] = @ \ {i}]
          /\ Goto(r, IF todo[r] = {i} THEN "deposit" ELSE "read")
    BY <1>4 DEF WriteInstallment
  <2>2. i \in Schedule /\ seen[r] + plan[r].loan[i] \in Nat /\ Due \in Nat
    BY <1>0, CollectionConstants DEF WorkType, Plan, CollectionConstants
  <2>3. Lower(seen[r] + plan[r].loan[i], Due) \in 0..Due
    BY <2>2, LowerNat
  <2>4. paid' \in [Schedule -> 0..Due]
    BY <1>0, <2>1, <2>2, <2>3 DEF BooksType
  <2>5. WorkType'
    BY <1>0, <1>4, <2>1 DEF WriteInstallment, WorkType, Goto, Steps
  <2>6. QED BY <1>0, <1>4, <2>4, <2>5 DEF WriteInstallment, BooksType, RowsType,
               OtherType, rows
<1>5. CASE Deposit(r, k)
  BY <1>0, <1>5 DEF Deposit, WorkType, BooksType, RowsType, OtherType, Goto,
     Steps, work, rows
<1>6. CASE Journal(r, k)
  <2>1. plan[r].credit \in Nat
    BY <1>0 DEF WorkType, Plan
  <2>2. QED BY <1>0, <1>6, <2>1 DEF Journal, WorkType, BooksType, RowsType,
               OtherType, Goto, Steps, work, rows
<1>7. CASE ReadPassbook(r, k)
  <2>1. faults' \in 0..MaxFaults
    BY <1>7, FaultType DEF ReadPassbook
  <2>2. /\ UNCHANGED <<outbox, batch, result, plan, todo, online, books, rows, mgr>>
        /\ pc' = [pc EXCEPT ![r] = "line"]
        /\ \E x \in {0, passbook} : seen' = [seen EXCEPT ![r] = x]
    BY <1>7 DEF ReadPassbook, Goto
  <2>3. WorkType'
    BY <1>0, <2>2 DEF WorkType, BooksType, Steps
  <2>4. QED BY <1>0, <2>1, <2>2, <2>3 DEF BooksType, RowsType, OtherType, books,
               rows
<1>8. CASE WritePassbook(r, k)
  <2>1. plan[r].credit \in Nat
    BY <1>0 DEF WorkType, Plan
  <2>2. faults' \in 0..MaxFaults
    BY <1>8, FaultType DEF WritePassbook
  <2>3. passbook' \in Nat
    BY <1>0, <1>8, <2>1 DEF WritePassbook, WorkType, BooksType
  <2>4. WorkType'
    BY <1>0, <1>8 DEF WritePassbook, WorkType, Goto, Steps
  <2>5. QED BY <1>0, <1>8, <2>2, <2>3, <2>4 DEF WritePassbook, BooksType,
               RowsType, OtherType, rows
<1>9. CASE InsertEntry(r, k)
  <2>1. CASE entries[k] = NoEntry /\ GuardAdmits(plan[r])
    <3>1. plan[r] \in Plan
      BY <1>0 DEF WorkType
    <3>2. /\ entries' = [entries EXCEPT ![k] = plan[r]]
          /\ pc' = [pc EXCEPT ![r] = "scan"]
          /\ UNCHANGED <<work, outbox, books, reversed, deleted, mgr, faults>>
      BY <1>9, <2>1 DEF InsertEntry, Goto
    <3>3. RowsType'
      BY <1>0, <3>1, <3>2 DEF RowsType
    <3>4. WorkType'
      BY <1>0, <3>2 DEF WorkType, Steps, work
    <3>5. QED BY <1>0, <3>2, <3>3, <3>4 DEF BooksType, OtherType, books
  <2>2. CASE ~(entries[k] = NoEntry /\ GuardAdmits(plan[r]))
    <3>1. Finish(r, k, "failed") /\ UNCHANGED entries
      BY <1>9, <2>2 DEF InsertEntry
    <3>2. QED BY <1>0, <1>9, <3>1, FinishType DEF InsertEntry, BooksType,
                 RowsType, OtherType, books
  <2>3. QED BY <2>1, <2>2
<1>10. CASE Answer(r, k)
  BY <1>0, <1>10, FinishType DEF Answer, BooksType, RowsType, OtherType, books,
     rows
<1>11. QED BY <1>1, <1>2, <1>3, <1>4, <1>5, <1>6, <1>7, <1>8, <1>9, <1>10
           DEF Serve

LEMMA ClientType ==
  ASSUME TypeOK, NEW r \in Requests,
         Sync(r) \/ EndSync(r) \/ Disconnect(r) \/ Crash(r)
  PROVE  TypeOK'
<1>0. MaxFaults \in Nat
  BY CollectionConstants DEF CollectionConstants
<1>1. CASE Sync(r)
  BY <1>1 DEF Sync, TypeOK, Steps, NoResults, books, rows
<1>2. CASE EndSync(r)
  BY <1>2 DEF EndSync, TypeOK, Steps, NoResults, books, rows
<1>3. CASE Disconnect(r)
  BY <1>0, <1>3 DEF Disconnect, Fault, TypeOK, books, rows
<1>4. CASE Crash(r)
  BY <1>0, <1>4, NoPlanType DEF Crash, Fault, TypeOK, Steps, NoResults, books, rows
<1>5. QED BY <1>1, <1>2, <1>3, <1>4

LEMMA EntryType ==
  ASSUME TypeOK, NEW k \in Keys,
         \/ Capture(k)
         \/ \E r \in Requests : ApplyResult(r, k) \/ QueryFails(r, k)
  PROVE  TypeOK'
<1>0. WorkType /\ BooksType /\ RowsType /\ OtherType
  BY TypeParts
<1> SUFFICES WorkType' /\ BooksType' /\ RowsType' /\ OtherType'
  BY DEF TypeOK, WorkType, BooksType, RowsType, OtherType
<1>1. CASE Capture(k)
  <2>1. OtherType'
    BY <1>0, <1>1 DEF Capture, OtherType
  <2>2. QED BY <1>0, <1>1, <2>1 DEF Capture, WorkType, BooksType, RowsType,
               work, books, rows
<1>2. ASSUME NEW r \in Requests, ApplyResult(r, k)
      PROVE  WorkType' /\ BooksType' /\ RowsType' /\ OtherType'
  <2>1. result' = [result EXCEPT ![r] = [result[r] EXCEPT ![k] = "none"]]
    BY <1>2 DEF ApplyResult
  <2>2. WorkType'
    BY <1>0, <1>2, <2>1 DEF ApplyResult, WorkType
  <2>3. OtherType'
    BY <1>0, <1>2 DEF ApplyResult, OtherType
  <2>4. QED BY <1>0, <1>2, <2>2, <2>3 DEF ApplyResult, BooksType, RowsType,
               books, rows
<1>3. ASSUME NEW r \in Requests, QueryFails(r, k)
      PROVE  WorkType' /\ BooksType' /\ RowsType' /\ OtherType'
  <2>1. WorkType'
    BY <1>0, <1>3, FinishType DEF QueryFails
  <2>2. faults' \in 0..MaxFaults
    BY <1>0, <1>3, CollectionConstants DEF QueryFails, Fault, OtherType,
       CollectionConstants
  <2>3. QED BY <1>0, <1>3, <2>1, <2>2 DEF QueryFails, BooksType, RowsType,
               OtherType, books, rows
<1>4. QED BY <1>1, <1>2, <1>3

LEMMA TurnType ==
  ASSUME OtherType, NEW m \in Managers, NEW k \in Keys \cup {0},
         NEW at \in {"idle", "existing", "insert", "delete"}, Turn(m, at, k)
  PROVE  mgr' \in [Managers -> [at : {"idle", "existing", "insert", "delete"},
                                key : Keys \cup {0}]]
BY DEF OtherType, Turn

LEMMA ReversalType ==
  ASSUME TypeOK, ReversalsSound, NEW m \in Managers, NEW k \in Keys,
         \/ FindEntry(m, k) \/ FindReversal(m, k)
         \/ InsertReversal(m, k) \/ DeleteEntry(m, k)
  PROVE  TypeOK'
<1>0. WorkType /\ BooksType /\ RowsType /\ OtherType
  BY TypeParts
<1> SUFFICES WorkType' /\ BooksType' /\ RowsType' /\ OtherType'
  BY DEF TypeOK, WorkType, BooksType, RowsType, OtherType
<1>1. /\ UNCHANGED outbox /\ faults' \in 0..MaxFaults
      /\ UNCHANGED <<pc, work>>
  BY FaultType DEF FindEntry, FindReversal, InsertReversal, DeleteEntry
<1>2. \E at \in {"idle", "existing", "insert", "delete"}, j \in Keys \cup {0} :
        Turn(m, at, j)
  BY DEF FindEntry, FindReversal, InsertReversal, DeleteEntry
<1>3. OtherType'
  BY <1>0, <1>1, <1>2, TurnType DEF OtherType
<1>4. WorkType'
  BY <1>0, <1>1 DEF WorkType, work
<1>5. BooksType'
  <2>1. CASE InsertReversal(m, k) /\ k \notin reversed
    <3>1. k \in Keys /\ entries[k] \in Plan
      BY <1>0, <2>1 DEF InsertReversal, ReversalsSound, Stored, RowsType
    <3>2. \A i \in Schedule : entries[k].loan[i] \in Nat
      BY <3>1 DEF Plan
    <3>3. paid' = [i \in Schedule |->
                     IF paid[i] >= entries[k].loan[i]
                     THEN paid[i] - entries[k].loan[i] ELSE 0]
      BY <2>1 DEF InsertReversal
    <3>4. paid' \in [Schedule -> 0..Due]
      <4>1. Due \in Nat /\ \A i \in Schedule : paid[i] \in 0..Due
        BY <1>0, CollectionConstants DEF BooksType, CollectionConstants
      <4>2. \A i \in Schedule : (IF paid[i] >= entries[k].loan[i]
                     THEN paid[i] - entries[k].loan[i] ELSE 0) \in 0..Due
        BY <3>2, <4>1
      <4>3. QED BY <3>3, <4>2
    <3>5. QED BY <1>0, <2>1, <3>4 DEF InsertReversal, BooksType
  <2>2. CASE ~(InsertReversal(m, k) /\ k \notin reversed)
    <3>1. UNCHANGED books
      BY <2>2 DEF FindEntry, FindReversal, InsertReversal, DeleteEntry, books
    <3>2. QED BY <1>0, <3>1 DEF BooksType, books
  <2>3. QED BY <2>1, <2>2
<1>6. RowsType'
  <2>1. entries' = entries
    BY DEF FindEntry, FindReversal, InsertReversal, DeleteEntry, rows
  <2>2. reversed' \in {reversed, reversed \cup {k}}
        /\ deleted' \in {deleted, deleted \cup {k}}
    BY DEF FindEntry, FindReversal, InsertReversal, DeleteEntry, rows
  <2>3. QED BY <1>0, <2>1, <2>2 DEF RowsType
<1>7. QED BY <1>3, <1>4, <1>5, <1>6

LEMMA LostType ==
  ASSUME TypeOK, NEW m \in Managers, ReversalLost(m)
  PROVE  TypeOK'
<1>0. WorkType /\ BooksType /\ RowsType /\ OtherType
  BY TypeParts
<1> SUFFICES WorkType' /\ BooksType' /\ RowsType' /\ OtherType'
  BY DEF TypeOK, WorkType, BooksType, RowsType, OtherType
<1>1. faults' \in 0..MaxFaults
  BY <1>0, CollectionConstants DEF ReversalLost, Fault, OtherType,
     CollectionConstants
<1>2. OtherType'
  BY <1>0, <1>1, TurnType DEF ReversalLost, OtherType
<1>3. QED BY <1>0, <1>2 DEF ReversalLost, WorkType, BooksType, RowsType, work,
             books, rows

LEMMA StepType ==
  ASSUME TypeOK, ReversalsSound, [Next]_vars
  PROVE  TypeOK'
<1>1. CASE UNCHANGED vars
  BY <1>1 DEF TypeOK, vars, work, books, rows
<1>2. CASE Next
  BY <1>2, EntryType, ClientType, ServeType, ReversalType, LostType DEF Next
<1>3. QED BY <1>1, <1>2

-----------------------------------------------------------------------------
(* What a step of postEntry may do *)

\* Finish moves request r on, and no other.
LEMMA FinishMoves ==
  ASSUME TypeOK, NEW r \in Requests, NEW k \in Keys, NEW res, Finish(r, k, res)
  PROVE  /\ pc'[r] \in {"key", "reply"}
         /\ result'[r] = [result[r] EXCEPT ![k] = res]
         /\ \A q \in Requests \ {r} : /\ pc'[q] = pc[q] /\ batch'[q] = batch[q]
                                      /\ plan'[q] = plan[q]
                                      /\ result'[q] = result[q]
BY DEF TypeOK, Finish, Goto

\* A step of postEntry other than its last two is one of this shape: it works
\* on the entry request r is at, and either finishes it as failed or as a
\* duplicate of a stored one, or goes on with it: past the lookup of its key
\* when there is none, or when the lookup fails.
GoesOn(r, k) ==
  /\ batch' = batch /\ result' = result
  /\ \A q \in Requests \ {r} : pc'[q] = pc[q] /\ plan'[q] = plan[q]
  /\ pc'[r] \notin {"key", "scan"}
  /\ pc[r] = "key" /\ faults' = faults => ~Stored(k)

EndsEntry(r, k) ==
  \E res \in {"failed", "duplicate"} : /\ Finish(r, k, res)
                                       /\ res = "duplicate" => Stored(k)

LEMMA EarlySteps ==
  ASSUME TypeOK, NEW r \in Requests, NEW k \in Keys,
         \/ FindKey(r, k) \/ ReadSheet(r, k) \/ ReadInstallment(r, k)
         \/ WriteInstallment(r, k) \/ Deposit(r, k) \/ Journal(r, k)
         \/ ReadPassbook(r, k) \/ WritePassbook(r, k)
  PROVE  /\ UNCHANGED <<outbox, rows, mgr>>
         /\ At(r, pc[r], k) /\ Serving(r)
         /\ GoesOn(r, k) \/ EndsEntry(r, k)
<1>0. pc \in [Requests -> Steps] /\ plan \in [Requests -> Plan]
  BY DEF TypeOK
<1>1. CASE FindKey(r, k)
  <2>1. /\ UNCHANGED <<outbox, rows, mgr>>
        /\ At(r, pc[r], k) /\ Serving(r)
    BY <1>1 DEF FindKey, At, Serving
  <2>2. CASE Stored(k) /\ Finish(r, k, "duplicate")
    BY <2>1, <2>2 DEF EndsEntry
  <2>3. CASE (~Stored(k) \/ faults' # faults) /\ Goto(r, "sheet") /\ UNCHANGED work
    BY <1>0, <2>1, <2>3 DEF GoesOn, Goto, work
  <2>4. faults \in Nat
    BY CollectionConstants DEF TypeOK, CollectionConstants
  <2>5. QED BY <1>1, <2>2, <2>3, <2>4 DEF FindKey, Stored, Fault
<1>2. CASE ReadSheet(r, k)
  <2>1. At(r, "sheet", k) /\ UNCHANGED <<outbox, rows, mgr>>
    BY <1>2, SheetStep
  <2>2. CASE Finish(r, k, "failed")
    BY <2>1, <2>2 DEF EndsEntry, At, Serving
  <2>3. CASE /\ \E a : plan' = [plan EXCEPT ![r] = a]
             /\ Goto(r, "deposit") \/ Goto(r, "read")
             /\ UNCHANGED <<batch, result>>
    BY <1>0, <2>1, <2>3 DEF GoesOn, Goto, At, Serving
  <2>4. QED BY <1>2, <2>2, <2>3, SheetStep DEF Plans
<1>3. CASE ReadInstallment(r, k)
  <2>1. PICK i \in todo[r] :
          IF paid[i] + plan[r].loan[i] > Due
          THEN Finish(r, k, "failed")
          ELSE /\ Goto(r, "write")
               /\ seen' = [seen EXCEPT ![r] = paid[i]]
               /\ UNCHANGED <<batch, result, plan, todo, online>>
    BY <1>3 DEF ReadInstallment
  <2>2. CASE paid[i] + plan[r].loan[i] > Due
    BY <1>3, <2>1, <2>2 DEF ReadInstallment, EndsEntry, At, Serving, Serving
  <2>3. CASE ~(paid[i] + plan[r].loan[i] > Due)
    BY <1>0, <1>3, <2>1, <2>3 DEF ReadInstallment, GoesOn, Goto, At, Serving
  <2>4. QED BY <2>2, <2>3
<1>4. CASE WriteInstallment(r, k)
  BY <1>0, <1>4 DEF WriteInstallment, GoesOn, Goto, At, Serving
<1>5. CASE Deposit(r, k)
  BY <1>0, <1>5 DEF Deposit, GoesOn, Goto, At, Serving, work
<1>6. CASE Journal(r, k)
  BY <1>0, <1>6 DEF Journal, GoesOn, Goto, At, Serving, work
<1>7. CASE ReadPassbook(r, k)
  BY <1>0, <1>7 DEF ReadPassbook, GoesOn, Goto, At, Serving
<1>8. CASE WritePassbook(r, k)
  BY <1>0, <1>8 DEF WritePassbook, GoesOn, Goto, At, Serving
<1>9. QED BY <1>1, <1>2, <1>3, <1>4, <1>5, <1>6, <1>7, <1>8

\* The insert stores an entry only where there was none.
LEMMA InsertStep ==
  ASSUME TypeOK, NEW r \in Requests, NEW k \in Keys, InsertEntry(r, k)
  PROVE  /\ At(r, "entry", k)
         /\ \/ /\ ~Stored(k)
               /\ entries' = [entries EXCEPT ![k] = plan[r]] /\ Stored(k)'
               /\ pc' = [pc EXCEPT ![r] = "scan"]
               /\ UNCHANGED work
            \/ entries' = entries /\ Finish(r, k, "failed")
<1>1. CASE entries[k] = NoEntry /\ GuardAdmits(plan[r])
  <2>1. plan[r] \in Plan /\ entries \in [Keys -> Plan \cup {NoEntry}]
    BY DEF TypeOK
  <2>2. plan[r] # NoEntry
    BY <2>1, EntryOrNot DEF EntryOrNot
  <2>3. QED BY <1>1, <2>1, <2>2 DEF InsertEntry, Goto, Stored
<1>2. CASE ~(entries[k] = NoEntry /\ GuardAdmits(plan[r]))
  BY <1>2 DEF InsertEntry
<1>3. QED BY <1>1, <1>2

\* An entry once stored is never rewritten and never disappears.
LEMMA EntriesStay ==
  ASSUME TypeOK, [Next]_vars, NEW k \in Keys, Stored(k)
  PROVE  entries'[k] = entries[k] /\ Stored(k)'
<1>1. CASE \E r \in Requests, j \in Keys : InsertEntry(r, j)
  <2>1. PICK r \in Requests, j \in Keys : InsertEntry(r, j)
    BY <1>1
  <2>2. \/ entries' = entries
        \/ ~Stored(j) /\ entries' = [entries EXCEPT ![j] = plan[r]]
    BY <2>1, InsertStep
  <2>3. QED BY <2>2 DEF Stored, TypeOK
<1>2. CASE ~\E r \in Requests, j \in Keys : InsertEntry(r, j)
  <2>1. entries' = entries
    BY <1>2, EarlySteps DEF Next, Serve, Capture, Sync, EndSync, Disconnect,
       Crash, ApplyResult, Answer, QueryFails, FindEntry, FindReversal,
       InsertReversal, DeleteEntry, ReversalLost, rows, vars
  <2>2. QED BY <2>1 DEF Stored
<1>3. QED BY <1>1, <1>2

-----------------------------------------------------------------------------
(* Positive answers are true *)

LEMMA FinishAnswers ==
  ASSUME TypeOK, AnswersTrue, NEW r \in Requests, NEW k \in Keys,
         NEW res \in {"posted", "duplicate", "failed"}, Finish(r, k, res),
         res # "failed" => Stored(k), UNCHANGED <<outbox, entries>>
  PROVE  AnswersTrue'
<1>1. ASSUME NEW q \in Requests, NEW j \in Keys,
             result'[q][j] \in {"posted", "duplicate"}
      PROVE  Stored(j)'
  <2>0. /\ result[r] \in [Keys -> {"none", "posted", "duplicate", "failed"}]
        /\ result'[r] = [result[r] EXCEPT ![k] = res]
        /\ q # r => result'[q] = result[q]
    BY FinishMoves DEF TypeOK
  <2>1. CASE q = r /\ j = k
    <3>1. result'[r][k] = res
      BY <2>0
    <3>2. QED BY <1>1, <2>1, <3>1 DEF Stored
  <2>2. CASE ~(q = r /\ j = k)
    <3>1. result'[q][j] = result[q][j]
      BY <2>0, <2>2
    <3>2. QED BY <1>1, <3>1 DEF AnswersTrue, Stored
  <2>3. QED BY <2>1, <2>2
<1>2. ASSUME NEW q \in Requests, NEW j \in Keys, At(q, "scan", j)'
      PROVE  Stored(j)'
  <2>1. q # r
    BY <1>2, FinishMoves DEF At
  <2>2. At(q, "scan", j)
    BY <1>2, <2>1, FinishMoves DEF At
  <2>3. QED BY <2>2 DEF AnswersTrue, Stored
<1>3. PostedIsStored'
  BY DEF AnswersTrue, PostedIsStored
<1>4. QED BY <1>1, <1>2, <1>3 DEF AnswersTrue

LEMMA ServeAnswers ==
  ASSUME TypeOK, AnswersTrue, NEW r \in Requests, NEW k \in Keys, Serve(r, k)
  PROVE  AnswersTrue'
<1>1. CASE \/ FindKey(r, k) \/ ReadSheet(r, k) \/ ReadInstallment(r, k)
           \/ WriteInstallment(r, k) \/ Deposit(r, k) \/ Journal(r, k)
           \/ ReadPassbook(r, k) \/ WritePassbook(r, k)
  <2>1. UNCHANGED <<outbox, entries>> /\ (GoesOn(r, k) \/ EndsEntry(r, k))
    BY <1>1, EarlySteps DEF rows
  <2>2. CASE GoesOn(r, k)
    <3>1. \A q \in Requests, j \in Keys : At(q, "scan", j)' => At(q, "scan", j)
      BY <2>2 DEF GoesOn, At
    <3>2. QED BY <2>1, <2>2, <3>1 DEF GoesOn, AnswersTrue, PostedIsStored,
                 Stored
  <2>3. CASE EndsEntry(r, k)
    BY <2>1, <2>3, FinishAnswers DEF EndsEntry
  <2>4. QED BY <2>1, <2>2, <2>3
<1>2. CASE InsertEntry(r, k)
  <2>1. outbox' = outbox
    BY <1>2 DEF InsertEntry
  <2>2. CASE /\ ~Stored(k) /\ Stored(k)'
             /\ entries' = [entries EXCEPT ![k] = plan[r]]
             /\ pc' = [pc EXCEPT ![r] = "scan"]
             /\ UNCHANGED work
    <3>1. \A j \in Keys : Stored(j) => Stored(j)'
      BY <2>2 DEF Stored, TypeOK
    <3>2. ASSUME NEW q \in Requests, NEW j \in Keys, At(q, "scan", j)'
          PROVE  Stored(j)'
      <4>1. CASE q = r
        <5>1. j \in batch[r] /\ \A i \in batch[r] : j <= i
          BY <1>2, <2>2, <3>2, <4>1 DEF At, work
        <5>2. k \in batch[r] /\ \A i \in batch[r] : k <= i
          BY <1>2 DEF InsertEntry, At
        <5>3. j = k
          BY <5>1, <5>2, CollectionConstants DEF CollectionConstants
        <5>4. QED BY <2>2, <5>3
      <4>2. CASE q # r
        <5>1. At(q, "scan", j)
          BY <2>2, <3>2, <4>2 DEF At, work, TypeOK
        <5>2. QED BY <3>1, <5>1 DEF AnswersTrue
      <4>3. QED BY <4>1, <4>2
    <3>3. result' = result
      BY <2>2 DEF work
    <3>4. QED BY <2>1, <3>1, <3>2, <3>3 DEF AnswersTrue, PostedIsStored, Stored
  <2>3. CASE entries' = entries /\ Finish(r, k, "failed")
    BY <2>1, <2>3, FinishAnswers
  <2>4. QED BY <1>2, <2>2, <2>3, InsertStep
<1>3. CASE Answer(r, k)
  <2>1. Stored(k)
    BY <1>3 DEF Answer, AnswersTrue
  <2>2. QED BY <1>3, <2>1, FinishAnswers DEF Answer, rows
<1>4. QED BY <1>1, <1>2, <1>3 DEF Serve

LEMMA ClientAnswers ==
  ASSUME TypeOK, AnswersTrue, NEW r \in Requests,
         Sync(r) \/ EndSync(r) \/ Disconnect(r) \/ Crash(r)
  PROVE  AnswersTrue'
<1>1. UNCHANGED <<outbox, entries>>
  BY DEF Sync, EndSync, Disconnect, Crash, rows
<1>2. result' = result \/ result' = [result EXCEPT ![r] = NoResults]
  BY DEF Sync, EndSync, Disconnect, Crash
<1>3. \A q \in Requests, j \in Keys :
        result'[q][j] = "none" \/ result'[q][j] = result[q][j]
  <2>1. result \in [Requests -> [Keys -> {"none", "posted", "duplicate",
                                         "failed"}]]
    BY DEF TypeOK
  <2>2. \A q \in Requests : result'[q] = NoResults \/ result'[q] = result[q]
    BY <1>2, <2>1
  <2>3. \A j \in Keys : NoResults[j] = "none"
    BY DEF NoResults
  <2>4. QED BY <2>2, <2>3
<1>4. \A q \in Requests, j \in Keys : At(q, "scan", j)' => At(q, "scan", j)
  <2> TAKE q \in Requests, j \in Keys
  <2>1. CASE Disconnect(r)
    BY <2>1 DEF Disconnect, At
  <2>2. CASE Sync(r) \/ EndSync(r) \/ Crash(r)
    <3>1. pc'[r] # "scan"
      BY <2>2 DEF Sync, EndSync, Crash, TypeOK
    <3>2. q # r => pc'[q] = pc[q] /\ batch'[q] = batch[q]
      BY <2>2 DEF Sync, EndSync, Crash, TypeOK
    <3>3. QED BY <3>1, <3>2 DEF At
  <2>3. QED BY <2>1, <2>2
<1>5. QED BY <1>1, <1>3, <1>4 DEF AnswersTrue, PostedIsStored, Stored

LEMMA EntryAnswers ==
  ASSUME TypeOK, AnswersTrue, NEW k \in Keys,
         \/ Capture(k)
         \/ \E r \in Requests : ApplyResult(r, k) \/ QueryFails(r, k)
  PROVE  AnswersTrue'
<1>1. CASE Capture(k)
  BY <1>1 DEF Capture, AnswersTrue, PostedIsStored, Stored, At, TypeOK, work,
     rows
<1>2. ASSUME NEW r \in Requests, ApplyResult(r, k) PROVE AnswersTrue'
  <2>1. result' = [result EXCEPT ![r] = [result[r] EXCEPT ![k] = "none"]]
    BY <1>2 DEF ApplyResult
  <2>2. \A q \in Requests, j \in Keys :
          result'[q][j] = "none" \/ result'[q][j] = result[q][j]
    BY <2>1 DEF TypeOK
  <2>3. outbox'[k] = "posted" => Stored(k)
    BY <1>2 DEF ApplyResult, AnswersTrue, TypeOK
  <2>4. PostedIsStored'
    BY <1>2, <2>3 DEF ApplyResult, AnswersTrue, PostedIsStored, Stored, TypeOK,
       rows
  <2>5. UNCHANGED <<pc, batch, entries>>
    BY <1>2 DEF ApplyResult, rows
  <2>6. QED BY <2>2, <2>4, <2>5 DEF AnswersTrue, Stored, At
<1>3. ASSUME NEW r \in Requests, QueryFails(r, k) PROVE AnswersTrue'
  BY <1>3, FinishAnswers DEF QueryFails, rows
<1>4. QED BY <1>1, <1>2, <1>3

LEMMA AnswersStep ==
  ASSUME TypeOK, AnswersTrue, [Next]_vars
  PROVE  AnswersTrue'
<1>1. CASE UNCHANGED <<outbox, pc, batch, result, entries>>
  BY <1>1 DEF AnswersTrue, PostedIsStored, Stored, At
<1>2. CASE Next
  <2>1. CASE \E m \in Managers, k \in Keys :
               \/ FindEntry(m, k) \/ FindReversal(m, k)
               \/ InsertReversal(m, k) \/ DeleteEntry(m, k)
               \/ ReversalLost(m)
    BY <1>1, <2>1 DEF FindEntry, FindReversal, InsertReversal, DeleteEntry,
       ReversalLost, work, rows
  <2>2. CASE \E m \in Managers : ReversalLost(m)
    BY <1>1, <2>2 DEF ReversalLost, work, rows
  <2>3. QED BY <1>2, <2>1, <2>2, ServeAnswers, ClientAnswers, EntryAnswers
            DEF Next
<1>3. QED BY <1>1, <1>2 DEF vars, work, rows

-----------------------------------------------------------------------------
(* Reversals *)

LEMMA ReversalsStep ==
  ASSUME TypeOK, ReversalsSound, [Next]_vars
  PROVE  ReversalsSound'
<1>1. \A k \in Keys : Stored(k) => Stored(k)'
  BY EntriesStay
<1>2. CASE UNCHANGED <<mgr, reversed, deleted>>
  BY <1>1, <1>2 DEF ReversalsSound, DeletedIsReversed
<1>3. ASSUME NEW m \in Managers, NEW k \in Keys,
             \/ FindEntry(m, k) \/ FindReversal(m, k)
             \/ InsertReversal(m, k) \/ DeleteEntry(m, k)
      PROVE  ReversalsSound'
  <2>1. mgr \in [Managers -> [at : {"idle", "existing", "insert", "delete"},
                              key : Keys \cup {0}]]
    BY DEF TypeOK
  <2>2. \A n \in Managers \ {m} : mgr'[n] = mgr[n]
    BY <1>3, <2>1 DEF FindEntry, FindReversal, InsertReversal, DeleteEntry, Turn
  <2>3. \/ mgr'[m] = Resting
        \/ /\ Stored(k) /\ mgr'[m].key = k
           /\ mgr'[m].at = "delete" => k \in reversed'
    BY <1>3, <2>1 DEF FindEntry, FindReversal, InsertReversal, DeleteEntry, Turn,
       Resting, ReversalsSound, Stored
  <2>4. reversed \subseteq reversed' /\ deleted' \subseteq reversed'
    BY <1>3 DEF FindEntry, FindReversal, InsertReversal, DeleteEntry,
       ReversalsSound, DeletedIsReversed, rows
  <2>5. ASSUME NEW n \in Managers
        PROVE  /\ mgr'[n].at # "idle" => mgr'[n].key \in Keys
                                         /\ entries'[mgr'[n].key] # NoEntry
               /\ mgr'[n].at = "delete" => mgr'[n].key \in reversed'
    <3>1. CASE n = m
      BY <1>1, <2>3, <3>1 DEF Resting, Stored
    <3>2. CASE n # m
      BY <1>1, <2>2, <2>4, <3>2 DEF ReversalsSound, Stored
    <3>3. QED BY <3>1, <3>2
  <2>6. QED BY <2>4, <2>5 DEF ReversalsSound, DeletedIsReversed, Stored
<1>4. ASSUME NEW m \in Managers, ReversalLost(m) PROVE ReversalsSound'
  <2>1. \A n \in Managers : mgr'[n] = Resting \/ mgr'[n] = mgr[n]
    BY <1>4 DEF ReversalLost, Turn, Resting, TypeOK
  <2>2. UNCHANGED rows
    BY <1>4 DEF ReversalLost
  <2>3. QED BY <2>1, <2>2 DEF ReversalsSound, DeletedIsReversed, Resting, rows,
               Stored
<1>5. CASE Next /\ ~UNCHANGED <<mgr, reversed, deleted>>
  <2>1. \/ \E m \in Managers : ReversalLost(m)
        \/ \E m \in Managers, k \in Keys :
             \/ FindEntry(m, k) \/ FindReversal(m, k)
             \/ InsertReversal(m, k) \/ DeleteEntry(m, k)
    BY <1>5, EarlySteps DEF Next, Serve, Capture, Sync, EndSync, Disconnect,
       Crash, ApplyResult, InsertEntry, Answer, QueryFails, rows
  <2>2. QED BY <1>3, <1>4, <2>1
<1>6. QED BY <1>2, <1>3, <1>4, <1>5 DEF vars, rows

-----------------------------------------------------------------------------
(* Deposits *)

\* Past the deposit.
Later == {"journal", "prior", "line", "entry"}

\* A step keeps the deposits it finds.
LEMMA DepositsStay ==
  ASSUME TypeOK, [Next]_vars, NEW k \in Keys
  PROVE  deposits[k] <= deposits'[k]
<1>1. deposits \in [Keys -> Nat]
  BY DEF TypeOK
<1>2. CASE \E r \in Requests, j \in Keys : Deposit(r, j)
  BY <1>1, <1>2 DEF Deposit
<1>3. CASE ~\E r \in Requests, j \in Keys : Deposit(r, j)
  <2>1. ASSUME NEW r \in Requests, NEW j \in Keys, Serve(r, j)
        PROVE  deposits' = deposits
    <3>1. CASE ReadSheet(r, j)
      BY <3>1, SheetStep DEF books
    <3>2. QED BY <1>3, <2>1, <3>1 DEF Serve, FindKey, ReadInstallment,
                 WriteInstallment, Journal, ReadPassbook, WritePassbook,
                 InsertEntry, Answer, books
  <2>2. deposits' = deposits
    BY <2>1 DEF Next, Capture, Sync, EndSync, Disconnect, Crash, ApplyResult,
       QueryFails, FindEntry, FindReversal, InsertReversal, DeleteEntry,
       ReversalLost, books, vars
  <2>3. QED BY <1>1, <2>2
<1>4. QED BY <1>2, <1>3

\* A request is past the deposit because it was before, or because it has
\* just made the deposit of its plan.
LEMMA EnterLater ==
  ASSUME TypeOK, [Next]_vars, NEW q \in Requests, pc'[q] \in Later
  PROVE  /\ batch'[q] = batch[q] /\ plan'[q] = plan[q]
         /\ pc[q] \in Later \/ \E k \in Keys : Deposit(q, k)
<1>0. /\ pc \in [Requests -> Steps] /\ plan \in [Requests -> Plan]
      /\ batch \in [Requests -> SUBSET Keys]
  BY DEF TypeOK
<1>1. CASE UNCHANGED <<pc, batch, plan>>
  BY <1>1
<1>2. ASSUME NEW r \in Requests, Sync(r) \/ EndSync(r) \/ Disconnect(r) \/ Crash(r)
      PROVE  UNCHANGED <<pc, batch, plan>>
             \/ (pc'[r] \notin Later /\ \A j \in Requests \ {r} :
                   pc'[j] = pc[j] /\ batch'[j] = batch[j] /\ plan'[j] = plan[j])
  BY <1>0, <1>2 DEF Sync, EndSync, Disconnect, Crash, Later
<1>3. ASSUME NEW r \in Requests, NEW k \in Keys, NEW res, Finish(r, k, res)
      PROVE  pc'[r] \notin Later /\ \A j \in Requests \ {r} :
                   pc'[j] = pc[j] /\ batch'[j] = batch[j] /\ plan'[j] = plan[j]
  BY <1>3, FinishMoves DEF Later
<1>4. ASSUME NEW r \in Requests, NEW k \in Keys, Serve(r, k)
      PROVE  /\ batch'[q] = batch[q] /\ plan'[q] = plan[q]
             /\ pc[q] \in Later \/ Deposit(q, k)
  <2>1. CASE \E res : Finish(r, k, res)
    BY <1>3, <2>1
  <2>2. CASE InsertEntry(r, k)
    <3>1. \/ pc' = [pc EXCEPT ![r] = "scan"] /\ UNCHANGED work
          \/ Finish(r, k, "failed")
      BY <2>2, InsertStep
    <3>2. CASE pc' = [pc EXCEPT ![r] = "scan"] /\ UNCHANGED work
      BY <1>0, <3>2 DEF work, Later
    <3>3. QED BY <2>1, <3>1, <3>2
  <2>3. CASE GoesOn(r, k) /\ q # r
    BY <1>0, <2>3 DEF GoesOn
  <2>4. CASE GoesOn(r, k) /\ q = r
    <3>1. CASE Deposit(r, k)
      BY <2>4, <3>1 DEF Deposit, work
    <3>2. CASE Journal(r, k) \/ ReadPassbook(r, k) \/ WritePassbook(r, k)
      BY <2>4, <3>2 DEF Journal, ReadPassbook, WritePassbook, At, Later, work
    <3>3. CASE FindKey(r, k)
      BY <1>0, <2>1, <2>4, <3>3 DEF FindKey, Goto, Later
    <3>4. CASE ReadSheet(r, k)
      <4>1. Finish(r, k, "failed") \/ Goto(r, "deposit") \/ Goto(r, "read")
        BY <3>4, SheetStep
      <4>2. CASE Goto(r, "deposit") \/ Goto(r, "read")
        BY <1>0, <2>4, <4>2 DEF Goto, Later
      <4>3. QED BY <2>1, <4>1, <4>2
    <3>5. CASE ReadInstallment(r, k)
      <4>1. Goto(r, "write") \/ Finish(r, k, "failed")
        BY <3>5 DEF ReadInstallment
      <4>2. CASE Goto(r, "write")
        BY <1>0, <2>4, <4>2 DEF Goto, Later
      <4>3. QED BY <2>1, <4>1, <4>2
    <3>6. CASE WriteInstallment(r, k)
      BY <1>0, <2>4, <3>6 DEF WriteInstallment, Goto, Later
    <3>7. CASE InsertEntry(r, k)
      BY <2>2, <3>7
    <3>8. CASE Answer(r, k)
      BY <2>1, <3>8 DEF Answer
    <3>9. QED BY <1>4, <3>1, <3>2, <3>3, <3>4, <3>5, <3>6, <3>7, <3>8 DEF Serve
  <2>5. CASE Answer(r, k)
    BY <2>1, <2>5 DEF Answer
  <2>6. CASE EndsEntry(r, k)
    BY <2>1, <2>6 DEF EndsEntry
  <2>7. QED BY <1>4, <2>2, <2>3, <2>4, <2>5, <2>6, EarlySteps DEF Serve
<1>5. ASSUME NEW r \in Requests, NEW k \in Keys, QueryFails(r, k)
      PROVE  UNCHANGED <<pc[q], batch[q], plan[q]>>
  BY <1>3, <1>5 DEF QueryFails
<1>6. CASE Next
  <2>1. CASE \E r \in Requests : Sync(r) \/ EndSync(r) \/ Disconnect(r) \/ Crash(r)
    BY <1>2, <2>1
  <2>2. CASE \E r \in Requests, k \in Keys : Serve(r, k)
    BY <1>4, <2>2
  <2>3. CASE \E r \in Requests, k \in Keys : QueryFails(r, k)
    BY <1>5, <2>3
  <2>4. CASE \/ \E k \in Keys : Capture(k)
             \/ \E r \in Requests, k \in Keys : ApplyResult(r, k)
             \/ \E m \in Managers, k \in Keys :
                  \/ FindEntry(m, k) \/ FindReversal(m, k)
                  \/ InsertReversal(m, k) \/ DeleteEntry(m, k)
             \/ \E m \in Managers : ReversalLost(m)
    <3>1. UNCHANGED <<pc, batch, plan>>
      BY <2>4 DEF Capture, ApplyResult, FindEntry, FindReversal, InsertReversal,
         DeleteEntry, ReversalLost, work
    <3>2. QED BY <1>1, <3>1
  <2>5. QED BY <1>6, <2>1, <2>2, <2>3, <2>4 DEF Next
<1>7. QED BY <1>1, <1>6 DEF vars, work

\* An entry appears only by the insert of the request that is at it.
LEMMA EntryAppears ==
  ASSUME TypeOK, [Next]_vars, NEW k \in Keys, ~Stored(k), Stored(k)'
  PROVE  \E r \in Requests : At(r, "entry", k) /\ entries'[k] = plan[r]
<1>1. entries' # entries
  BY DEF Stored
<1>2. PICK r \in Requests, j \in Keys : InsertEntry(r, j)
  BY <1>1, EarlySteps DEF Next, Serve, Capture, Sync, EndSync, Disconnect,
     Crash, ApplyResult, Answer, QueryFails, FindEntry, FindReversal,
     InsertReversal, DeleteEntry, ReversalLost, rows, vars
<1>3. entries' = [entries EXCEPT ![j] = plan[r]] /\ At(r, "entry", j)
  BY <1>1, <1>2, InsertStep
<1>4. j = k
  BY <1>3 DEF Stored, TypeOK
<1>5. QED BY <1>3, <1>4 DEF TypeOK

LEMMA DepositsStep ==
  ASSUME TypeOK, TypeOK', DepositsMade, [Next]_vars
  PROVE  DepositsMade'
<1>1. \A k \in Keys : /\ deposits[k] \in Nat /\ deposits'[k] \in Nat
                      /\ deposits[k] <= deposits'[k]
  BY DepositsStay DEF TypeOK
<1>2. \A r \in Requests, k \in Keys : Deposited(r, k) /\ plan'[r] = plan[r]
                                        => Deposited(r, k)'
  BY <1>1 DEF Deposited
<1>3. ASSUME NEW r \in Requests, NEW k \in Keys, pc'[r] \in Later,
             k \in batch'[r], \A j \in batch'[r] : k <= j
      PROVE  Deposited(r, k)'
  <2>1. /\ batch'[r] = batch[r] /\ plan'[r] = plan[r]
        /\ pc[r] \in Later \/ \E j \in Keys : Deposit(r, j)
    BY <1>3, EnterLater
  <2>2. At(r, pc[r], k)
    BY <1>3, <2>1 DEF At
  <2>3. CASE pc[r] \in Later
    BY <1>2, <2>1, <2>2, <2>3 DEF DepositsMade, Later
  <2>4. ASSUME NEW j \in Keys, Deposit(r, j) PROVE Deposited(r, k)'
    <3>1. j = k
      BY <2>2, <2>4, OneAtATime DEF Deposit
    <3>2. plan[r].savings > 0 => deposits'[k] = deposits[k] + 1
      BY <2>4, <3>1 DEF Deposit, TypeOK
    <3>3. QED BY <1>1, <2>1, <3>2 DEF Deposited
  <2>5. QED BY <2>1, <2>3, <2>4
<1>4. ASSUME NEW k \in Keys, Stored(k)', entries'[k].savings > 0
      PROVE  deposits'[k] > 0
  <2>1. CASE Stored(k)
    <3>1. deposits[k] > 0
      BY <1>4, <2>1, EntriesStay DEF DepositsMade
    <3>2. QED BY <1>1, <3>1
  <2>2. CASE ~Stored(k)
    <3>1. PICK r \in Requests : At(r, "entry", k) /\ entries'[k] = plan[r]
      BY <1>4, <2>2, EntryAppears
    <3>2. Deposited(r, k)
      BY <3>1 DEF DepositsMade, At
    <3>3. deposits[k] > 0
      BY <1>4, <3>1, <3>2 DEF Deposited
    <3>4. QED BY <1>1, <3>3
  <2>3. QED BY <2>1, <2>2
<1>5. QED BY <1>3, <1>4 DEF DepositsMade, Later, At

-----------------------------------------------------------------------------
(* The theorems *)

LEMMA InitHolds == ASSUME Init PROVE IInv
<1>1. TypeOK
  BY NoPlanType, CollectionConstants DEF Init, TypeOK, Steps, NoResults, Resting,
     CollectionConstants
<1>2. AnswersTrue /\ ReversalsSound /\ DepositsMade
  BY DEF Init, AnswersTrue, PostedIsStored, ReversalsSound, DeletedIsReversed,
     DepositsMade, Resting, NoResults, Stored, At
<1>3. QED BY <1>1, <1>2 DEF IInv

LEMMA StepHolds == IInv /\ [Next]_vars => IInv'
<1> SUFFICES ASSUME IInv, [Next]_vars PROVE IInv'
  OBVIOUS
<1>1. TypeOK'
  BY StepType DEF IInv
<1>2. QED BY <1>1, AnswersStep, ReversalsStep, DepositsStep DEF IInv

\* The inductive invariant holds.
THEOREM Inductive == Spec => []IInv
<1>1. Init => IInv
  BY InitHolds
<1>2. QED BY <1>1, StepHolds, PTL DEF Spec

\* Every reachable state has the types of the module.
THEOREM TypeCorrect == Spec => []TypeOK
<1>1. IInv => TypeOK
  BY DEF IInv
<1>2. QED BY <1>1, Inductive, PTL

\* What the phone shows as posted is on the server.
THEOREM PostedStays == Spec => []PostedIsStored
<1>1. IInv => PostedIsStored
  BY DEF IInv, AnswersTrue
<1>2. QED BY <1>1, Inductive, PTL

\* No entry is hidden from the reports before its reversal is there.
THEOREM DeletedWasReversed == Spec => []DeletedIsReversed
<1>1. IInv => DeletedIsReversed
  BY DEF IInv, ReversalsSound
<1>2. QED BY <1>1, Inductive, PTL

-----------------------------------------------------------------------------
(* Settled entries *)

\* Nobody begins to post an entry that is stored, unless a query fails.
LEMMA PostingBegins ==
  ASSUME TypeOK, [Next]_vars, NEW r \in Requests, NEW k \in Keys,
         Posting(r, k)', Stored(k), faults' = faults
  PROVE  Posting(r, k)
<1>0. /\ pc \in [Requests -> Steps] /\ batch \in [Requests -> SUBSET Keys]
      /\ pc'[r] \notin {"idle", "key", "reply"}
      /\ k \in batch'[r] /\ \A j \in batch'[r] : k <= j
  BY DEF TypeOK, Posting, Serving, At
<1>1. CASE pc'[r] = pc[r] /\ batch'[r] = batch[r]
  BY <1>0, <1>1 DEF Posting, Serving, At
<1>2. ASSUME NEW q \in Requests, Sync(q) \/ EndSync(q) \/ Disconnect(q) \/ Crash(q)
      PROVE  Posting(r, k)
  <2>1. pc'[r] = pc[r] /\ batch'[r] = batch[r]
    BY <1>0, <1>2 DEF Sync, EndSync, Disconnect, Crash
  <2>2. QED BY <1>1, <2>1
<1>3. ASSUME NEW q \in Requests, NEW j \in Keys, NEW res, Finish(q, j, res)
      PROVE  Posting(r, k)
  BY <1>0, <1>1, <1>3, FinishMoves
<1>4. ASSUME NEW q \in Requests, NEW j \in Keys, Serve(q, j)
      PROVE  Posting(r, k)
  <2>1. CASE \E res : Finish(q, j, res)
    BY <1>3, <2>1
  <2>2. CASE At(q, pc[q], j) /\ Serving(q) /\ GoesOn(q, j)
    <3>1. CASE q = r
      <4>1. At(q, pc[q], k)
        BY <1>0, <2>2, <3>1 DEF At, GoesOn
      <4>2. j = k
        BY <2>2, <4>1, OneAtATime
      <4>3. pc[r] # "key"
        BY <2>2, <3>1, <4>2 DEF GoesOn
      <4>4. QED BY <2>2, <3>1, <4>1, <4>3 DEF Posting
    <3>2. CASE q # r
      BY <1>1, <2>2, <3>2 DEF GoesOn
    <3>3. QED BY <3>1, <3>2
  <2>3. CASE InsertEntry(q, j)
    <3>1. CASE pc' = [pc EXCEPT ![q] = "scan"] /\ UNCHANGED work
      <4>1. CASE q = r
        <5>1. At(q, "entry", j) /\ At(q, "entry", k)
          BY <1>0, <2>3, <3>1, <4>1 DEF InsertEntry, At, work
        <5>2. QED BY <4>1, <5>1 DEF Posting, Serving, At
      <4>2. CASE q # r
        BY <1>0, <1>1, <3>1, <4>2 DEF work
      <4>3. QED BY <4>1, <4>2
    <3>2. QED BY <2>1, <2>3, <3>1, InsertStep
  <2>4. CASE Answer(q, j)
    BY <2>1, <2>4 DEF Answer
  <2>5. QED BY <1>4, <2>1, <2>2, <2>3, <2>4, EarlySteps DEF Serve, EndsEntry
<1>5. CASE Next
  <2>1. CASE \E q \in Requests, j \in Keys : QueryFails(q, j)
    BY <1>3, <2>1 DEF QueryFails
  <2>2. CASE \/ \E j \in Keys : Capture(j)
             \/ \E q \in Requests, j \in Keys : ApplyResult(q, j)
             \/ \E m \in Managers, j \in Keys :
                  \/ FindEntry(m, j) \/ FindReversal(m, j)
                  \/ InsertReversal(m, j) \/ DeleteEntry(m, j)
             \/ \E m \in Managers : ReversalLost(m)
    <3>1. UNCHANGED <<pc, batch>>
      BY <2>2 DEF Capture, ApplyResult, FindEntry, FindReversal, InsertReversal,
         DeleteEntry, ReversalLost, work
    <3>2. QED BY <1>1, <3>1
  <2>3. QED BY <1>2, <1>4, <1>5, <2>1, <2>2 DEF Next
<1>6. QED BY <1>1, <1>5 DEF vars, work

\* The books change by five actions only, and then as said here.
LEMMA BooksChange ==
  ASSUME TypeOK, ReversalsSound, [Next]_vars
  PROVE  \/ UNCHANGED books
         \/ \E r \in Requests, k \in Keys : WriteInstallment(r, k)
         \/ \E r \in Requests, k \in Keys : Deposit(r, k)
         \/ \E r \in Requests, k \in Keys : Journal(r, k)
         \/ \E r \in Requests, k \in Keys : WritePassbook(r, k)
         \/ /\ UNCHANGED <<deposits, booked>>
            /\ \A i \in Schedule : paid'[i] <= paid[i]
<1>1. ASSUME NEW m \in Managers, NEW k \in Keys, InsertReversal(m, k)
      PROVE  /\ UNCHANGED <<deposits, booked>>
             /\ \A i \in Schedule : paid'[i] <= paid[i]
  <2>1. \A i \in Schedule : paid[i] \in Nat
    BY CollectionConstants DEF TypeOK, CollectionConstants
  <2>2. CASE k \in reversed
    BY <1>1, <2>1, <2>2 DEF InsertReversal
  <2>3. CASE k \notin reversed
    <3>1. entries[k] \in Plan
      BY <1>1 DEF InsertReversal, ReversalsSound, Stored, TypeOK
    <3>2. \A i \in Schedule : entries[k].loan[i] \in Nat
      BY <3>1 DEF Plan
    <3>3. \A i \in Schedule : paid'[i] = IF paid[i] >= entries[k].loan[i]
                                         THEN paid[i] - entries[k].loan[i]
                                         ELSE 0
      BY <1>1, <2>3 DEF InsertReversal
    <3>4. QED BY <1>1, <2>1, <3>2, <3>3 DEF InsertReversal
  <2>4. QED BY <2>2, <2>3
<1>2. ASSUME NEW r \in Requests, NEW k \in Keys,
             \/ FindKey(r, k) \/ ReadSheet(r, k) \/ ReadInstallment(r, k)
             \/ ReadPassbook(r, k) \/ InsertEntry(r, k) \/ Answer(r, k)
      PROVE  UNCHANGED books
  BY <1>2 DEF FindKey, ReadSheet, ReadInstallment, ReadPassbook, InsertEntry,
     Answer
<1>3. CASE \E r \in Requests, k \in Keys : Serve(r, k)
  BY <1>2, <1>3 DEF Serve
<1>4. CASE \/ \E k \in Keys : Capture(k)
           \/ \E r \in Requests : Sync(r) \/ EndSync(r) \/ Disconnect(r) \/ Crash(r)
           \/ \E r \in Requests, k \in Keys : ApplyResult(r, k) \/ QueryFails(r, k)
  BY <1>4 DEF Capture, Sync, EndSync, Disconnect, Crash, ApplyResult, QueryFails
<1>5. CASE \/ \E m \in Managers, k \in Keys :
                FindEntry(m, k) \/ FindReversal(m, k) \/ DeleteEntry(m, k)
           \/ \E m \in Managers : ReversalLost(m)
  BY <1>5 DEF FindEntry, FindReversal, DeleteEntry, ReversalLost
<1>6. CASE Next
  BY <1>1, <1>3, <1>4, <1>5, <1>6 DEF Next
<1>7. QED BY <1>6 DEF vars, books

LEMMA SettledStep ==
  ASSUME IInv, [Next]_vars
  PROVE  /\ \A k \in Keys : Settled(k) => /\ faults' = faults => Settled(k)'
                                          /\ deposits'[k] = deposits[k]
                                          /\ entries'[k] = entries[k]
         /\ (\A k \in Keys : Settled(k)) =>
              /\ booked' = booked
              /\ \A i \in Schedule : paid'[i] <= paid[i]
<1>1. \A r \in Requests, k \in Keys, step \in Steps \ {"idle", "key", "reply"} :
        At(r, step, k) => Posting(r, k)
  BY DEF Posting, Serving, At
<1>2. ASSUME NEW k \in Keys, Settled(k)
      PROVE  /\ faults' = faults => Settled(k)'
             /\ deposits'[k] = deposits[k] /\ entries'[k] = entries[k]
  <2>1. Stored(k)
    BY <1>2 DEF Settled, Stored
  <2>2. entries'[k] = entries[k] /\ Stored(k)'
    BY <2>1, EntriesStay DEF IInv
  <2>3. faults' = faults => \A r \in Requests : ~Posting(r, k)'
    BY <1>2, <2>1, PostingBegins DEF IInv, Settled
  <2>4. faults' = faults => Settled(k)'
    BY <2>2, <2>3 DEF Settled, Stored
  <2>5. ASSUME NEW r \in Requests, NEW j \in Keys, Deposit(r, j)
        PROVE  deposits'[k] = deposits[k]
    <3>1. j # k
      BY <1>1, <1>2, <2>5 DEF Deposit, Settled, Steps
    <3>2. QED BY <2>5, <3>1 DEF Deposit, IInv, TypeOK
  <2>6. deposits'[k] = deposits[k]
    <3>1. \/ UNCHANGED deposits
          \/ \E r \in Requests, j \in Keys : Deposit(r, j)
      BY BooksChange DEF IInv, WriteInstallment, Journal, WritePassbook, books
    <3>2. QED BY <2>5, <3>1
  <2>7. QED BY <2>2, <2>4, <2>6
<1>3. ASSUME \A k \in Keys : Settled(k)
      PROVE  booked' = booked /\ \A i \in Schedule : paid'[i] <= paid[i]
  <2>1. \A i \in Schedule : paid[i] <= paid[i]
    BY CollectionConstants DEF IInv, TypeOK, CollectionConstants
  <2>2. \A r \in Requests, k \in Keys : ~WriteInstallment(r, k)
                                        /\ ~Journal(r, k)
    BY <1>1, <1>3 DEF Settled, WriteInstallment, Journal, Steps
  <2>3. QED BY <2>1, <2>2, BooksChange DEF IInv, Deposit, WritePassbook, books
<1>4. QED BY <1>2, <1>3

\* A settled entry is never rewritten, and stays settled until a query fails;
\* as long as it does, retries deposit and book nothing more.
THEOREM SettledStays == Spec => SettledForGood
<1>1. IInv /\ [Next]_vars =>
        [/\ \A k \in Keys : Settled(k) => /\ faults' = faults => Settled(k)'
                                          /\ deposits'[k] = deposits[k]
                                          /\ entries'[k] = entries[k]
         /\ (\A k \in Keys : Settled(k)) =>
              /\ booked' = booked
              /\ \A i \in Schedule : paid'[i] <= paid[i]]_vars
  BY SettledStep
<1>2. QED BY <1>1, Inductive, PTL DEF Spec, SettledForGood

-----------------------------------------------------------------------------
(* Money in the books *)

\* What a request has booked for an entry that is not stored yet, and of that
\* what its line of the passbook does not have yet.
Unstored(r) == IF pc[r] \in {"prior", "line", "entry"} THEN plan[r].credit ELSE 0

Unlined(r) == IF pc[r] \in {"prior", "line"} THEN plan[r].credit ELSE 0

AllUnstored == SumFunction([r \in Requests |-> Unstored(r)])

AllUnlined == SumFunction([r \in Requests |-> Unlined(r)])

StoredKeys == {k \in Keys : entries[k] # NoEntry}

Credits == SumFunction([k \in StoredKeys |-> entries[k].credit])

\* The journal has the loan parts of the stored entries and, besides, of those
\* requests are about to store.
CreditsBooked == Credits + AllUnstored <= booked

\* Neither the passbook nor a balance a request has read from it takes up what
\* requests have booked and not added to it.
LinesBooked ==
  /\ passbook + AllUnlined <= booked
  /\ \A r \in Requests : pc[r] = "line" => seen[r] + AllUnlined <= booked

BooksInv == IInv /\ CreditsBooked /\ LinesBooked

TotalsTyped == AllUnstored \in Nat /\ AllUnlined \in Nat /\ Credits \in Nat

LEMMA CollectionFinite ==
  IsFiniteSet(Keys) /\ IsFiniteSet(Requests) /\ IsFiniteSet(StoredKeys)
BY CollectionConstants, FS_Subset DEF CollectionConstants, StoredKeys

LEMMA CreditsAreCounts ==
  ASSUME TypeOK
  PROVE  /\ \A r \in Requests : plan[r].credit \in Nat
         /\ \A k \in StoredKeys : entries[k].credit \in Nat
         /\ \A r \in Requests : Unstored(r) \in Nat /\ Unlined(r) \in Nat
<1>1. \A r \in Requests : plan[r].credit \in Nat
  BY DEF TypeOK, Plan
<1>2. \A k \in StoredKeys : entries[k].credit \in Nat
  BY DEF TypeOK, Plan, StoredKeys
<1> QED
  BY <1>1, <1>2 DEF Unstored, Unlined

LEMMA TotalsType == TypeOK => TotalsTyped
<1> SUFFICES ASSUME TypeOK PROVE TotalsTyped
  OBVIOUS
<1> DEFINE f == [r \in Requests |-> Unstored(r)]
           g == [r \in Requests |-> Unlined(r)]
           c == [k \in StoredKeys |-> entries[k].credit]
<1>1. /\ \A r \in Requests : f[r] \in Nat
      /\ \A r \in Requests : g[r] \in Nat
      /\ \A k \in StoredKeys : c[k] \in Nat
  BY CreditsAreCounts
<1>2. /\ AllUnstored = SumFunctionOnSet(f, Requests)
      /\ AllUnlined = SumFunctionOnSet(g, Requests)
      /\ Credits = SumFunctionOnSet(c, StoredKeys)
  BY DEF AllUnstored, AllUnlined, Credits, SumFunction
<1> HIDE DEF f, g, c
<1>3. /\ SumFunctionOnSet(f, Requests) \in Nat
      /\ SumFunctionOnSet(g, Requests) \in Nat
      /\ SumFunctionOnSet(c, StoredKeys) \in Nat
  BY <1>1, CollectionFinite, SumNat
<1> QED
  BY <1>2, <1>3 DEF TotalsTyped

\* Only request r works on.
OnlyMoves(r) ==
  \A q \in Requests \ {r} : pc'[q] = pc[q] /\ plan'[q] = plan[q] /\ seen'[q] = seen[q]

LEMMA MoveTotals ==
  ASSUME TypeOK, TypeOK', NEW r \in Requests, OnlyMoves(r)
  PROVE  /\ AllUnstored' = AllUnstored - Unstored(r) + Unstored(r)'
         /\ AllUnlined' = AllUnlined - Unlined(r) + Unlined(r)'
<1> DEFINE f == [q \in Requests |-> Unstored(q)]
           g == [q \in Requests |-> Unlined(q)]
<1>1. \A q \in Requests : Unstored(q) \in Int /\ Unlined(q) \in Int
  BY CreditsAreCounts
<1>2. Unstored(r)' \in Int /\ Unlined(r)' \in Int
  BY DEF TypeOK, Plan, Unstored, Unlined
<1>3. \A q \in Requests \ {r} : Unstored(q)' = Unstored(q) /\ Unlined(q)' = Unlined(q)
  BY DEF OnlyMoves, Unstored, Unlined
<1>4. /\ \A q \in Requests : f[q] \in Int
      /\ \A q \in Requests \ {r} : f'[q] = f[q]
      /\ f'[r] \in Int
  BY <1>1, <1>2, <1>3
<1>5. /\ \A q \in Requests : g[q] \in Int
      /\ \A q \in Requests \ {r} : g'[q] = g[q]
      /\ g'[r] \in Int
  BY <1>1, <1>2, <1>3
<1>6. /\ f[r] = Unstored(r) /\ f'[r] = Unstored(r)'
      /\ g[r] = Unlined(r) /\ g'[r] = Unlined(r)'
  OBVIOUS
<1>7. /\ AllUnstored = SumFunctionOnSet(f, Requests)
      /\ AllUnstored' = SumFunctionOnSet(f', Requests)
      /\ AllUnlined = SumFunctionOnSet(g, Requests)
      /\ AllUnlined' = SumFunctionOnSet(g', Requests)
  BY DEF AllUnstored, AllUnlined, SumFunction
<1> HIDE DEF f, g
<1>8. SumFunctionOnSet(f', Requests) = SumFunctionOnSet(f, Requests) - f[r] + f'[r]
  BY <1>4, CollectionFinite, SumChange
<1>9. SumFunctionOnSet(g', Requests) = SumFunctionOnSet(g, Requests) - g[r] + g'[r]
  BY <1>5, CollectionFinite, SumChange
<1> QED
  BY <1>6, <1>7, <1>8, <1>9

NewRow(k, a) == entries' = [entries EXCEPT ![k] = a]

\* A new row adds its own credit.
LEMMA StoreTotals ==
  ASSUME TypeOK, NEW k \in Keys, ~Stored(k), NEW a \in Plan, NewRow(k, a)
  PROVE  Credits' = Credits + a.credit
<1> DEFINE c == [j \in StoredKeys |-> entries[j].credit]
           later == StoredKeys \cup {k}
           d == [j \in later |-> entries'[j].credit]
<1>1. /\ a # NoEntry /\ a.credit \in Nat
      /\ entries'[k] = a /\ \A j \in Keys \ {k} : entries'[j] = entries[j]
  BY EntryOrNot DEF EntryOrNot, TypeOK, Plan, NewRow
<1>2. StoredKeys' = later /\ k \notin StoredKeys
  BY <1>1 DEF StoredKeys, Stored
<1>3. /\ \A j \in StoredKeys : c[j] \in Int /\ d[j] = c[j]
      /\ d[k] = a.credit
  BY <1>1, <1>2, CreditsAreCounts DEF StoredKeys
<1>4. Credits = SumFunctionOnSet(c, StoredKeys)
  BY DEF Credits, SumFunction
<1>5. Credits' = SumFunctionOnSet(d, later)
  BY <1>2 DEF Credits, SumFunction
<1> HIDE DEF c, d
<1>6. SumFunctionOnSet(c, StoredKeys) = SumFunctionOnSet(d, StoredKeys)
  BY <1>3, CollectionFinite, SumSame
<1>7. SumFunctionOnSet(d, later) = SumFunctionOnSet(d, StoredKeys) + d[k]
  <2>1. d[k] \in Int /\ \A j \in StoredKeys : d[j] \in Int
    BY <1>1, <1>3
  <2> QED
    BY <1>2, <2>1, CollectionFinite, SumAdd
<1> QED
  BY <1>3, <1>4, <1>5, <1>6, <1>7

\* A step of a request that leaves journal, passbook and rows alone, and after
\* which it has nothing booked for an entry under way.
Rests(r) ==
  /\ UNCHANGED <<booked, passbook, entries>>
  /\ pc'[r] \notin {"prior", "line", "entry"}

\* The four steps that matter to the money in the books, as others see them.
Credit(r) ==
  /\ UNCHANGED <<plan, passbook, entries>>
  /\ pc[r] = "journal" /\ booked' = booked + plan[r].credit
  /\ pc'[r] = IF plan[r].credit > 0 THEN "prior" ELSE "entry"

LooksUp(r) ==
  /\ UNCHANGED <<plan, booked, passbook, entries>>
  /\ pc[r] = "prior" /\ pc'[r] = "line" /\ seen'[r] \in {0, passbook}

AddsLine(r) ==
  /\ UNCHANGED <<plan, booked, entries>>
  /\ pc[r] = "line" /\ pc'[r] = "entry"
  /\ passbook' \in {passbook, seen[r] + plan[r].credit}

Stores(r) ==
  /\ UNCHANGED <<plan, booked, passbook>>
  /\ pc[r] = "entry" /\ pc'[r] = "scan"
  /\ \E k \in Keys : ~Stored(k) /\ entries' = [entries EXCEPT ![k] = plan[r]]

Kinds(r) ==
  OnlyMoves(r) /\ (Rests(r) \/ Credit(r) \/ LooksUp(r) \/ AddsLine(r) \/ Stores(r))

LEMMA FinishRests ==
  ASSUME TypeOK, NEW r \in Requests, NEW k \in Keys, NEW res, Finish(r, k, res),
         UNCHANGED <<booked, passbook, entries>>
  PROVE  Kinds(r)
<1>1. \A q \in Requests \ {r} : pc'[q] = pc[q] /\ plan'[q] = plan[q]
  BY FinishMoves
<1>2. \A q \in Requests \ {r} : seen'[q] = seen[q]
  BY DEF Finish, TypeOK
<1>3. pc'[r] \notin {"prior", "line", "entry"}
  BY FinishMoves
<1> QED
  BY <1>1, <1>2, <1>3 DEF Kinds, OnlyMoves, Rests

LEMMA ServeKind ==
  ASSUME TypeOK, NEW r \in Requests, NEW k \in Keys, Serve(r, k)
  PROVE  Kinds(r)
<1>0. /\ pc \in [Requests -> Steps] /\ plan \in [Requests -> Plan]
      /\ seen \in [Requests -> Nat]
  BY DEF TypeOK
<1>1. CASE FindKey(r, k)
  <2>1. UNCHANGED <<booked, passbook, entries>>
    BY <1>1 DEF FindKey, books, rows
  <2>2. CASE Finish(r, k, "duplicate")
    BY <2>1, <2>2, FinishRests
  <2>3. CASE Goto(r, "sheet") /\ UNCHANGED work
    BY <1>0, <2>1, <2>3 DEF Goto, work, Kinds, OnlyMoves, Rests
  <2> QED
    BY <1>1, <2>2, <2>3 DEF FindKey
<1>2. CASE ReadSheet(r, k)
  <2>1. UNCHANGED <<booked, passbook, entries>>
    BY <1>2, SheetStep DEF books, rows
  <2>2. CASE Finish(r, k, "failed")
    BY <2>1, <2>2, FinishRests
  <2>3. CASE /\ UNCHANGED seen /\ \E a : plan' = [plan EXCEPT ![r] = a]
             /\ Goto(r, "deposit") \/ Goto(r, "read")
    BY <1>0, <2>1, <2>3 DEF Goto, Kinds, OnlyMoves, Rests
  <2> QED
    BY <1>2, <2>2, <2>3, SheetStep DEF Plans
<1>3. CASE ReadInstallment(r, k)
  <2>1. UNCHANGED <<booked, passbook, entries>>
    BY <1>3 DEF ReadInstallment, books, rows
  <2>2. CASE Finish(r, k, "failed")
    BY <2>1, <2>2, FinishRests
  <2>3. CASE /\ Goto(r, "write") /\ UNCHANGED plan
             /\ \E x : seen' = [seen EXCEPT ![r] = x]
    BY <1>0, <2>1, <2>3 DEF Goto, Kinds, OnlyMoves, Rests
  <2> QED
    BY <1>3, <2>2, <2>3 DEF ReadInstallment
<1>4. CASE WriteInstallment(r, k)
  <2>1. /\ UNCHANGED <<plan, booked, passbook, entries>>
        /\ seen' = [seen EXCEPT ![r] = 0]
        /\ Goto(r, "deposit") \/ Goto(r, "read")
    BY <1>4 DEF WriteInstallment, rows
  <2> QED
    BY <1>0, <2>1 DEF Goto, Kinds, OnlyMoves, Rests
<1>5. CASE Deposit(r, k)
  BY <1>0, <1>5 DEF Deposit, Goto, work, rows, Kinds, OnlyMoves, Rests
<1>6. CASE Journal(r, k)
  BY <1>0, <1>6 DEF Journal, At, Goto, work, rows, Kinds, OnlyMoves, Credit
<1>7. CASE ReadPassbook(r, k)
  BY <1>0, <1>7 DEF ReadPassbook, At, Goto, books, rows, Kinds, OnlyMoves, LooksUp
<1>8. CASE WritePassbook(r, k)
  BY <1>0, <1>8 DEF WritePassbook, At, Goto, rows, Kinds, OnlyMoves, AddsLine
<1>9. CASE InsertEntry(r, k)
  <2>1. UNCHANGED <<booked, passbook>> /\ pc[r] = "entry"
    BY <1>9 DEF InsertEntry, At, books
  <2>2. CASE /\ ~Stored(k) /\ entries' = [entries EXCEPT ![k] = plan[r]]
             /\ pc' = [pc EXCEPT ![r] = "scan"] /\ UNCHANGED work
    BY <1>0, <2>1, <2>2 DEF work, Kinds, OnlyMoves, Stores
  <2>3. CASE entries' = entries /\ Finish(r, k, "failed")
    BY <2>1, <2>3, FinishRests
  <2> QED
    BY <1>9, <2>2, <2>3, InsertStep
<1>10. CASE Answer(r, k)
  BY <1>10, FinishRests DEF Answer, books, rows
<1> QED
  BY <1>1, <1>2, <1>3, <1>4, <1>5, <1>6, <1>7, <1>8, <1>9, <1>10 DEF Serve

\* Every step is one of these of some request, or leaves all of this alone.
LEMMA StepKinds ==
  ASSUME TypeOK, [Next]_vars
  PROVE  \/ UNCHANGED <<pc, plan, seen, booked, passbook, entries>>
         \/ \E r \in Requests : Kinds(r)
<1>0. /\ pc \in [Requests -> Steps] /\ plan \in [Requests -> Plan]
      /\ seen \in [Requests -> Nat]
  BY DEF TypeOK
<1>1. ASSUME NEW r \in Requests, Sync(r) \/ EndSync(r) \/ Disconnect(r) \/ Crash(r)
      PROVE  UNCHANGED <<pc, plan, seen, booked, passbook, entries>> \/ Kinds(r)
  <2>1. UNCHANGED <<booked, passbook, entries>>
    BY <1>1 DEF Sync, EndSync, Disconnect, Crash, books, rows
  <2>2. CASE Sync(r) \/ EndSync(r)
    BY <1>0, <2>1, <2>2 DEF Sync, EndSync, Kinds, OnlyMoves, Rests
  <2>3. CASE Disconnect(r)
    BY <2>1, <2>3 DEF Disconnect
  <2>4. CASE Crash(r)
    BY <1>0, <2>1, <2>4 DEF Crash, Kinds, OnlyMoves, Rests
  <2> QED
    BY <1>1, <2>2, <2>3, <2>4
<1>2. ASSUME NEW r \in Requests, NEW k \in Keys, QueryFails(r, k)
      PROVE  Kinds(r)
  BY <1>2, FinishRests DEF QueryFails, books, rows
<1>3. CASE \/ \E k \in Keys : Capture(k)
           \/ \E r \in Requests, k \in Keys : ApplyResult(r, k)
           \/ \E m \in Managers, k \in Keys :
                \/ FindEntry(m, k) \/ FindReversal(m, k)
                \/ InsertReversal(m, k) \/ DeleteEntry(m, k)
           \/ \E m \in Managers : ReversalLost(m)
  BY <1>3 DEF Capture, ApplyResult, FindEntry, FindReversal, InsertReversal, DeleteEntry,
              ReversalLost, work, books, rows
<1>4. CASE UNCHANGED vars
  BY <1>4 DEF vars, work, books, rows
<1> QED
  BY <1>1, <1>2, <1>3, <1>4, ServeKind DEF Next

LEMMA LessFits == \A a, b, d, n \in Nat : a + b <= n /\ d <= b => a + d <= n
OBVIOUS

LEMMA BooksStep ==
  ASSUME TypeOK, TypeOK', NEW r \in Requests, Kinds(r), CreditsBooked, LinesBooked
  PROVE  CreditsBooked' /\ LinesBooked'
<1> DEFINE c == plan[r].credit
<1>1. /\ OnlyMoves(r)
      /\ c \in Nat /\ booked \in Nat /\ passbook \in Nat
      /\ seen \in [Requests -> Nat]
      /\ Unstored(r) \in Nat /\ Unlined(r) \in Nat
      /\ AllUnstored \in Nat /\ AllUnlined \in Nat /\ Credits \in Nat
      /\ AllUnstored' \in Nat /\ AllUnlined' \in Nat
  <2>1. TotalsTyped /\ TotalsTyped'
    BY TotalsType, PTL
  <2> QED
    BY <2>1, CreditsAreCounts DEF Kinds, TypeOK, TotalsTyped
<1>2. /\ AllUnstored' = AllUnstored - Unstored(r) + Unstored(r)'
      /\ AllUnlined' = AllUnlined - Unlined(r) + Unlined(r)'
  BY <1>1, MoveTotals
<1>3. /\ Credits + AllUnstored <= booked
      /\ passbook + AllUnlined <= booked
      /\ \A q \in Requests : pc[q] = "line" => seen[q] + AllUnlined <= booked
  BY DEF CreditsBooked, LinesBooked
<1>4. ASSUME NEW d \in Nat, AllUnlined' <= AllUnlined + d, booked' = booked + d
      PROVE  \A q \in Requests : q # r /\ pc'[q] = "line" => seen'[q] + AllUnlined' <= booked'
  <2> SUFFICES ASSUME NEW q \in Requests, q # r, pc'[q] = "line"
               PROVE  seen'[q] + AllUnlined' <= booked'
    OBVIOUS
  <2>1. pc[q] = "line" /\ seen'[q] = seen[q] /\ seen[q] \in Nat
    BY <1>1 DEF OnlyMoves
  <2>2. seen[q] + AllUnlined <= booked
    BY <1>3, <2>1
  <2> QED
    BY <1>1, <1>4, <2>1, <2>2
<1> HIDE DEF c
<1>5. CASE Rests(r)
  <2>1. /\ UNCHANGED <<booked, passbook, Credits>> /\ pc'[r] # "line"
        /\ Unstored(r)' = 0 /\ Unlined(r)' = 0
    BY <1>5 DEF Rests, Unstored, Unlined, Credits, StoredKeys
  <2>2. AllUnstored' <= AllUnstored /\ AllUnlined' <= AllUnlined
    BY <1>1, <1>2, <2>1
  <2>3. \A q \in Requests : q # r /\ pc'[q] = "line" => seen'[q] + AllUnlined' <= booked'
    <3>1. AllUnlined' <= AllUnlined + 0 /\ booked' = booked + 0
      BY <1>1, <2>1, <2>2
    <3> QED
      BY <1>4, <3>1
  <2>4. Credits' + AllUnstored' <= booked' /\ passbook' + AllUnlined' <= booked'
    <3>1. Credits' = Credits /\ booked' = booked /\ passbook' = passbook
      BY <2>1
    <3>2. /\ Credits + AllUnstored <= booked /\ passbook + AllUnlined <= booked
          /\ Credits \in Nat /\ booked \in Nat /\ passbook \in Nat
          /\ AllUnstored \in Nat /\ AllUnstored' \in Nat /\ AllUnstored' <= AllUnstored
          /\ AllUnlined \in Nat /\ AllUnlined' \in Nat /\ AllUnlined' <= AllUnlined
      BY <1>1, <1>3, <2>2
    <3>3. Credits + AllUnstored' <= booked /\ passbook + AllUnlined' <= booked
      BY <3>2, LessFits
    <3> QED
      BY <3>1, <3>3
  <2> QED
    BY <2>1, <2>3, <2>4 DEF CreditsBooked, LinesBooked
<1>6. CASE Credit(r)
  <2>1. /\ UNCHANGED <<passbook, Credits>> /\ pc'[r] # "line" /\ booked' = booked + c
        /\ Unstored(r) = 0 /\ Unlined(r) = 0
    BY <1>6 DEF Credit, Unstored, Unlined, Credits, StoredKeys, c
  <2>2. Unstored(r)' = c /\ Unlined(r)' = c
    BY <1>1, <1>6 DEF Credit, Unstored, Unlined, c
  <2>3. AllUnstored' = AllUnstored + c /\ AllUnlined' = AllUnlined + c
    BY <1>1, <1>2, <2>1, <2>2
  <2>4. \A q \in Requests : q # r /\ pc'[q] = "line" => seen'[q] + AllUnlined' <= booked'
    BY <1>1, <1>4, <2>1, <2>3
  <2>5. Credits' + AllUnstored' <= booked' /\ passbook' + AllUnlined' <= booked'
    BY <1>1, <1>3, <2>1, <2>3
  <2> QED
    BY <2>1, <2>4, <2>5 DEF CreditsBooked, LinesBooked
<1>7. CASE LooksUp(r)
  <2>1. /\ UNCHANGED <<booked, passbook, Credits>> /\ seen'[r] \in {0, passbook}
        /\ Unstored(r)' = Unstored(r) /\ Unlined(r)' = Unlined(r)
    BY <1>7 DEF LooksUp, Unstored, Unlined, Credits, StoredKeys
  <2>2. AllUnstored' = AllUnstored /\ AllUnlined' = AllUnlined
    BY <1>1, <1>2, <2>1
  <2>3. \A q \in Requests : q # r /\ pc'[q] = "line" => seen'[q] + AllUnlined' <= booked'
    <3>1. AllUnlined' <= AllUnlined + 0 /\ booked' = booked + 0
      BY <1>1, <2>1, <2>2
    <3> QED
      BY <1>4, <3>1
  <2>4. Credits' + AllUnstored' <= booked' /\ passbook' + AllUnlined' <= booked'
    BY <1>1, <1>3, <2>1, <2>2
  <2>5. seen'[r] + AllUnlined' <= booked'
    <3>1. /\ seen'[r] \in Nat /\ seen'[r] <= passbook /\ passbook' = passbook
          /\ booked' = booked
      BY <1>1, <2>1
    <3>2. passbook + AllUnlined' <= booked
      BY <2>4, <3>1
    <3>3. QED BY <1>1, <2>2, <3>1, <3>2, LessFits
  <2> QED
    BY <2>3, <2>4, <2>5 DEF CreditsBooked, LinesBooked
<1>8. CASE AddsLine(r)
  <2>1. /\ UNCHANGED <<booked, Credits>> /\ pc'[r] # "line"
        /\ passbook' \in {passbook, seen[r] + c}
        /\ pc[r] = "line" /\ Unstored(r)' = Unstored(r)
        /\ Unlined(r) = c /\ Unlined(r)' = 0
    BY <1>8 DEF AddsLine, Unstored, Unlined, Credits, StoredKeys, c
  <2>2. AllUnstored' = AllUnstored /\ AllUnlined' = AllUnlined - c
    BY <1>1, <1>2, <2>1
  <2>3. \A q \in Requests : q # r /\ pc'[q] = "line" => seen'[q] + AllUnlined' <= booked'
    <3>1. AllUnlined' <= AllUnlined + 0 /\ booked' = booked + 0
      BY <1>1, <2>1, <2>2
    <3> QED
      BY <1>4, <3>1
  <2>4. seen[r] + AllUnlined <= booked /\ seen[r] \in Nat
    BY <1>1, <1>3, <2>1
  <2>5. Credits' + AllUnstored' <= booked' /\ passbook' + AllUnlined' <= booked'
    <3>1. CASE passbook' = passbook
      BY <1>1, <1>3, <2>1, <2>2, <3>1
    <3>2. CASE passbook' = seen[r] + c
      BY <1>1, <1>3, <2>1, <2>2, <2>4, <3>2
    <3>3. QED BY <2>1, <3>1, <3>2
  <2> QED
    BY <2>1, <2>3, <2>5 DEF CreditsBooked, LinesBooked
<1>9. CASE Stores(r)
  <2>1. /\ UNCHANGED <<booked, passbook>> /\ pc'[r] # "line"
        /\ Unstored(r) = c /\ Unstored(r)' = 0
        /\ Unlined(r) = 0 /\ Unlined(r)' = 0
    BY <1>9 DEF Stores, Unstored, Unlined, c
  <2>2. Credits' = Credits + c
    <3>1. PICK k \in Keys : ~Stored(k) /\ entries' = [entries EXCEPT ![k] = plan[r]]
      BY <1>9 DEF Stores
    <3>2. plan[r] \in Plan
      BY DEF TypeOK
    <3> QED
      BY <3>1, <3>2, StoreTotals DEF NewRow, c
  <2>3. AllUnstored' = AllUnstored - c /\ AllUnlined' = AllUnlined
    BY <1>1, <1>2, <2>1
  <2>4. \A q \in Requests : q # r /\ pc'[q] = "line" => seen'[q] + AllUnlined' <= booked'
    <3>1. AllUnlined' <= AllUnlined + 0 /\ booked' = booked + 0
      BY <1>1, <2>1, <2>3
    <3> QED
      BY <1>4, <3>1
  <2>5. Credits' + AllUnstored' <= booked' /\ passbook' + AllUnlined' <= booked'
    BY <1>1, <1>3, <2>1, <2>2, <2>3
  <2> QED
    BY <2>1, <2>4, <2>5 DEF CreditsBooked, LinesBooked
<1> QED
  BY <1>5, <1>6, <1>7, <1>8, <1>9 DEF Kinds

LEMMA BooksInitially == Init => BooksInv
<1> SUFFICES ASSUME Init PROVE BooksInv
  OBVIOUS
<1> DEFINE f == [r \in Requests |-> Unstored(r)]
           g == [r \in Requests |-> Unlined(r)]
           c == [k \in StoredKeys |-> entries[k].credit]
<1>1. /\ \A r \in Requests : f[r] = 0
      /\ \A r \in Requests : g[r] = 0
      /\ \A k \in StoredKeys : c[k] = 0
      /\ \A r \in Requests : pc[r] # "line"
  BY DEF Init, Unstored, Unlined, StoredKeys
<1>2. /\ AllUnstored = SumFunctionOnSet(f, Requests)
      /\ AllUnlined = SumFunctionOnSet(g, Requests)
      /\ Credits = SumFunctionOnSet(c, StoredKeys)
  BY DEF AllUnstored, AllUnlined, Credits, SumFunction
<1> HIDE DEF f, g, c
<1>3. AllUnstored = 0 /\ AllUnlined = 0 /\ Credits = 0
  BY <1>1, <1>2, CollectionFinite, SumZero
<1> QED
  BY <1>1, <1>3, InitHolds DEF BooksInv, CreditsBooked, LinesBooked, Init

LEMMA BooksKeep == BooksInv /\ [Next]_vars => BooksInv'
<1> SUFFICES ASSUME BooksInv, [Next]_vars PROVE BooksInv'
  OBVIOUS
<1>1. IInv /\ IInv' /\ TypeOK /\ TypeOK' /\ CreditsBooked /\ LinesBooked
  BY StepHolds DEF BooksInv, IInv
<1>2. CASE UNCHANGED <<pc, plan, seen, booked, passbook, entries>>
  <2>1. UNCHANGED <<AllUnstored, AllUnlined, Credits>>
    BY <1>2 DEF AllUnstored, AllUnlined, Credits, Unstored, Unlined, StoredKeys
  <2> QED
    BY <1>1, <1>2, <2>1 DEF BooksInv, CreditsBooked, LinesBooked
<1>3. ASSUME NEW r \in Requests, Kinds(r) PROVE BooksInv'
  BY <1>1, <1>3, BooksStep DEF BooksInv
<1> QED
  BY <1>1, <1>2, <1>3, StepKinds

LEMMA BooksHold == Spec => []BooksInv
BY BooksInitially, BooksKeep, PTL DEF Spec

\* Whatever overlaps, fails or is retried, every stored entry has its deposit, and the
\* journal has the loan parts of all stored entries at once: no entry is stored on
\* money that another one booked.
THEOREM EntriesStayBacked == Spec => []EntriesAreBacked
<1>1. BooksInv => EntriesAreBacked
  <2> SUFFICES ASSUME BooksInv PROVE EntriesAreBacked
    OBVIOUS
  <2>1. AllUnstored \in Nat /\ Credits \in Nat /\ booked \in Nat
    BY TotalsType DEF BooksInv, IInv, TotalsTyped, TypeOK
  <2>2. Credits <= booked
    BY <2>1 DEF BooksInv, CreditsBooked
  <2>3. SumFunction([k \in StoredKeys |-> entries[k].credit]) <= booked
    BY <2>2 DEF Credits
  <2>4. \A k \in Keys : entries[k] # NoEntry /\ entries[k].savings > 0 => deposits[k] > 0
    BY DEF BooksInv, IInv, DepositsMade, Stored
  <2> QED
    BY <2>3, <2>4, Zenon DEF EntriesAreBacked, StoredKeys
<1> QED
  BY <1>1, BooksHold, PTL

\* However many requests read and overwrite the balance of the loan passbook, it never
\* shows more than the journal has.
THEOREM PassbookStaysCovered == Spec => []PassbookCovered
<1>1. BooksInv => PassbookCovered
  <2> SUFFICES ASSUME BooksInv PROVE PassbookCovered
    OBVIOUS
  <2>1. AllUnlined \in Nat /\ passbook \in Nat /\ booked \in Nat
    BY TotalsType DEF BooksInv, IInv, TotalsTyped, TypeOK
  <2> QED
    BY <2>1 DEF BooksInv, LinesBooked, PassbookCovered
<1> QED
  BY <1>1, BooksHold, PTL

-----------------------------------------------------------------------------
(* How often an entry can be deposited *)

\* Request r will still deposit entry k: it has not answered it and is not past
\* the deposit.
Past == {"journal", "prior", "line", "entry", "scan"}

Ahead(r, k) ==
  /\ k \in batch[r]
  /\ ~(pc[r] \in Past /\ \A j \in batch[r] : k <= j)

\* Entry k can be sent again by request r: it is in the queue, and there is no reply
\* to r on its way that takes it out.
InQueue(k) == outbox[k] \in {"none", "queued"}

Waits(r, k) == online[r] /\ (k \in batch[r] \/ result[r][k] # "none")

SentAgain(r, k) == InQueue(k) /\ ~Waits(r, k)

\* The deposits of entry k that request r may still make when nothing more fails.
Chances(r, k) == (IF Ahead(r, k) THEN 1 ELSE 0) + (IF SentAgain(r, k) THEN 1 ELSE 0)

AllChances(k) == SumFunction([r \in Requests |-> Chances(r, k)])

DepositsWithin ==
  \A k \in Keys : deposits[k] + AllChances(k) <= Cardinality(Requests) + faults

\* A request that is not posting has nothing left to post, and no results when
\* it has ended.
AtRest ==
  \A r \in Requests :
    /\ pc[r] \in {"idle", "reply"} => batch[r] = {}
    /\ pc[r] = "idle" => result[r] = NoResults

LEMMA ChancesAreCounts ==
  \A r, k : /\ Chances(r, k) \in {0, 1, 2} /\ Chances(r, k)' \in {0, 1, 2}
BY DEF Chances

\* The other requests are left alone.
OnlyActs(r) ==
  \A q \in Requests \ {r} : /\ pc'[q] = pc[q] /\ batch'[q] = batch[q]
                            /\ result'[q] = result[q] /\ online'[q] = online[q]

\* What a step of postEntry does to the chances: it goes on, deposits, or ends
\* the entry it is at.
Continues(r) ==
  /\ UNCHANGED <<deposits, batch, result, online>>
  /\ pc[r] \in Past => pc'[r] \in Past
  /\ pc'[r] \notin {"idle", "reply"}

Deposits(r, j) ==
  /\ UNCHANGED <<batch, result, online>>
  /\ pc[r] = "deposit" /\ pc'[r] = "journal"
  /\ deposits'[j] <= deposits[j] + 1
  /\ \A k \in Keys \ {j} : deposits'[k] = deposits[k]

Ends(r, j) ==
  /\ UNCHANGED <<deposits, online>>
  /\ batch'[r] = batch[r] \ {j}
  /\ result'[r][j] # "none"
  /\ \A k \in Keys \ {j} : result'[r][k] = result[r][k]
  /\ pc'[r] = IF batch[r] = {j} THEN "reply" ELSE "key"

LEMMA FinishEnds ==
  ASSUME TypeOK, NEW r \in Requests, NEW j \in Keys,
         NEW res \in {"posted", "duplicate", "failed"}, Finish(r, j, res),
         UNCHANGED deposits
  PROVE  OnlyActs(r) /\ Ends(r, j)
BY DEF TypeOK, Finish, Goto, OnlyActs, Ends

LEMMA FaultCounts ==
  ASSUME TypeOK, Fault \/ UNCHANGED faults
  PROVE  faults \in Nat /\ faults' \in Nat /\ faults <= faults'
BY CollectionConstants DEF TypeOK, Fault, CollectionConstants

LEMMA ServeActs ==
  ASSUME TypeOK, NEW r \in Requests, NEW j \in Keys, Serve(r, j) \/ QueryFails(r, j)
  PROVE  /\ UNCHANGED outbox
         /\ Fault \/ UNCHANGED faults
         /\ At(r, pc[r], j) /\ Serving(r)
         /\ OnlyActs(r)
         /\ Continues(r) \/ Deposits(r, j) \/ Ends(r, j)
<1>0. pc \in [Requests -> Steps]
  BY DEF TypeOK
<1>1. CASE FindKey(r, j)
  <2>1. CASE Finish(r, j, "duplicate")
    BY <1>1, <2>1, FinishEnds DEF FindKey, At, Serving, books
  <2>2. CASE Goto(r, "sheet") /\ UNCHANGED work
    BY <1>0, <1>1, <2>2 DEF FindKey, At, Serving, Goto, work, books, OnlyActs, Continues,
       Past
  <2> QED
    BY <1>1, <2>1, <2>2 DEF FindKey
<1>2. CASE ReadSheet(r, j)
  <2>1. /\ At(r, "sheet", j) /\ UNCHANGED <<outbox, books, rows, mgr>>
        /\ Fault \/ UNCHANGED faults
    BY <1>2, SheetStep
  <2>2. CASE Finish(r, j, "failed")
    BY <2>1, <2>2, FinishEnds DEF At, Serving, books
  <2>3. CASE /\ Goto(r, "deposit") \/ Goto(r, "read")
             /\ UNCHANGED <<batch, result, seen, online>>
    BY <1>0, <2>1, <2>3 DEF At, Serving, Goto, books, OnlyActs, Continues, Past
  <2> QED
    BY <1>2, <2>2, <2>3, SheetStep
<1>3. CASE ReadInstallment(r, j)
  <2>1. CASE Finish(r, j, "failed")
    BY <1>3, <2>1, FinishEnds DEF ReadInstallment, At, Serving, books
  <2>2. CASE Goto(r, "write") /\ UNCHANGED <<batch, result, plan, todo, online>>
    BY <1>0, <1>3, <2>2 DEF ReadInstallment, At, Serving, Goto, books, OnlyActs,
       Continues, Past
  <2>3. \/ Finish(r, j, "failed")
        \/ Goto(r, "write") /\ UNCHANGED <<batch, result, plan, todo, online>>
    <3>1. PICK i \in todo[r] :
            IF paid[i] + plan[r].loan[i] > Due
            THEN Finish(r, j, "failed")
            ELSE /\ Goto(r, "write")
                 /\ seen' = [seen EXCEPT ![r] = paid[i]]
                 /\ UNCHANGED <<batch, result, plan, todo, online>>
      BY <1>3 DEF ReadInstallment
    <3> QED
      BY <3>1
  <2> QED
    BY <2>1, <2>2, <2>3
<1>4. CASE WriteInstallment(r, j)
  <2>1. Goto(r, "deposit") \/ Goto(r, "read")
    BY <1>4 DEF WriteInstallment
  <2> QED
    BY <1>0, <1>4, <2>1 DEF WriteInstallment, At, Serving, Goto, OnlyActs, Continues, Past
<1>5. CASE Deposit(r, j)
  <2>1. /\ deposits \in [Keys -> Nat]
        /\ deposits' = [deposits EXCEPT ![j] =
                          IF plan[r].savings > 0 THEN @ + 1 ELSE @]
    BY <1>5 DEF Deposit, TypeOK
  <2>2. /\ deposits'[j] <= deposits[j] + 1
        /\ \A k \in Keys \ {j} : deposits'[k] = deposits[k]
    <3>1. CASE plan[r].savings > 0
      BY <2>1, <3>1
    <3>2. CASE ~(plan[r].savings > 0)
      BY <2>1, <3>2
    <3> QED
      BY <3>1, <3>2
  <2> QED
    BY <1>0, <1>5, <2>2 DEF Deposit, At, Serving, Goto, work, OnlyActs, Deposits
<1>6. CASE Journal(r, j)
  BY <1>0, <1>6 DEF Journal, At, Serving, Goto, work, OnlyActs, Continues, Past
<1>7. CASE ReadPassbook(r, j)
  BY <1>0, <1>7 DEF ReadPassbook, At, Serving, Goto, books, OnlyActs, Continues, Past
<1>8. CASE WritePassbook(r, j)
  BY <1>0, <1>8 DEF WritePassbook, At, Serving, Goto, OnlyActs, Continues, Past
<1>9. CASE InsertEntry(r, j)
  <2>1. CASE Finish(r, j, "failed")
    BY <1>9, <2>1, FinishEnds DEF InsertEntry, At, Serving, books
  <2>2. CASE pc' = [pc EXCEPT ![r] = "scan"] /\ UNCHANGED work
    BY <1>0, <1>9, <2>2 DEF InsertEntry, At, Serving, work, books, OnlyActs, Continues,
       Past
  <2> QED
    BY <1>9, <2>1, <2>2, InsertStep
<1>10. CASE Answer(r, j)
  BY <1>10, FinishEnds DEF Answer, At, Serving, books
<1>11. CASE QueryFails(r, j)
  BY <1>11, FinishEnds DEF QueryFails, books
<1> QED
  BY <1>1, <1>2, <1>3, <1>4, <1>5, <1>6, <1>7, <1>8, <1>9, <1>10, <1>11 DEF Serve

LEMMA RestStep ==
  ASSUME TypeOK, AtRest, [Next]_vars
  PROVE  AtRest'
<1>1. ASSUME NEW r \in Requests, NEW j \in Keys, Serve(r, j) \/ QueryFails(r, j)
      PROVE  AtRest'
  <2>1. pc'[r] \in {"idle", "reply"} => batch'[r] = {} /\ pc'[r] # "idle"
    <3>1. CASE Continues(r) \/ Deposits(r, j)
      BY <3>1 DEF Continues, Deposits
    <3>2. CASE Ends(r, j)
      BY <3>2 DEF Ends
    <3> QED
      BY <1>1, <3>1, <3>2, ServeActs
  <2>2. OnlyActs(r)
    BY <1>1, ServeActs
  <2> QED
    BY <2>1, <2>2 DEF AtRest, OnlyActs
<1>2. ASSUME NEW r \in Requests, Sync(r) \/ EndSync(r) \/ Disconnect(r) \/ Crash(r)
      PROVE  AtRest'
  BY <1>2 DEF AtRest, TypeOK, Sync, EndSync, Disconnect, Crash
<1>3. ASSUME NEW r \in Requests, NEW j \in Keys, ApplyResult(r, j) PROVE AtRest'
  BY <1>3 DEF AtRest, TypeOK, ApplyResult
<1>4. CASE UNCHANGED <<pc, batch, result>>
  BY <1>4 DEF AtRest
<1> QED
  BY <1>1, <1>2, <1>3, <1>4 DEF Next, Capture, FindEntry, FindReversal, InsertReversal,
     DeleteEntry, ReversalLost, work, vars

\* Never more chances than before.
Keeps(r, k) == Chances(r, k)' <= Chances(r, k)

LEMMA KeepsWhen ==
  ASSUME NEW r, NEW k, Ahead(r, k)' => Ahead(r, k), SentAgain(r, k)' => SentAgain(r, k)
  PROVE  Keeps(r, k)
BY DEF Keeps, Chances

LEMMA OthersKeep ==
  ASSUME NEW r \in Requests, OnlyActs(r), NEW k \in Keys, InQueue(k)' => InQueue(k)
  PROVE  \A q \in Requests \ {r} : Keeps(q, k)
<1> SUFFICES ASSUME NEW q \in Requests \ {r} PROVE Keeps(q, k)
  OBVIOUS
<1>1. Ahead(q, k)' <=> Ahead(q, k)
  BY DEF OnlyActs, Ahead
<1>2. SentAgain(q, k)' => SentAgain(q, k)
  BY DEF OnlyActs, SentAgain, Waits
<1> QED
  BY <1>1, <1>2, KeepsWhen

\* What each step spends and gains: no request gains a chance for an entry except
\* by a failure, and no entry is deposited but for a chance.
Balanced(r, k) ==
  deposits'[k] + Chances(r, k)' + faults <= deposits[k] + Chances(r, k) + faults'

LEMMA ServeBalanced ==
  ASSUME TypeOK, NEW r \in Requests, NEW j \in Keys, Serve(r, j) \/ QueryFails(r, j),
         NEW k \in Keys
  PROVE  (\A q \in Requests \ {r} : Keeps(q, k)) /\ Balanced(r, k)
<1>1. /\ UNCHANGED outbox /\ At(r, pc[r], j) /\ OnlyActs(r)
      /\ Continues(r) \/ Deposits(r, j) \/ Ends(r, j)
  BY ServeActs
<1>2. faults \in Nat /\ faults' \in Nat /\ faults <= faults'
  BY ServeActs, FaultCounts
<1>3. \A q \in Requests \ {r} : Keeps(q, k)
  BY <1>1, OthersKeep DEF InQueue
<1>4. deposits[k] \in Nat
  BY DEF TypeOK
<1>5. Chances(r, k) \in {0, 1, 2} /\ Chances(r, k)' \in {0, 1, 2}
  BY ChancesAreCounts
<1>6. CASE deposits'[k] = deposits[k] /\ Keeps(r, k)
  BY <1>2, <1>3, <1>4, <1>5, <1>6 DEF Balanced, Keeps
<1>7. CASE Continues(r)
  <2>1. Ahead(r, k)' => Ahead(r, k)
    BY <1>7 DEF Continues, Ahead
  <2>2. SentAgain(r, k)' => SentAgain(r, k)
    BY <1>1, <1>7 DEF Continues, SentAgain, InQueue, Waits
  <2> QED
    BY <1>3, <1>6, <1>7, <2>1, <2>2, KeepsWhen DEF Continues
<1>8. CASE Deposits(r, j)
  <2>1. SentAgain(r, k)' <=> SentAgain(r, k)
    BY <1>1, <1>8 DEF Deposits, SentAgain, InQueue, Waits
  <2>2. CASE k = j
    <3>1. Ahead(r, k) /\ ~Ahead(r, k)'
      BY <1>1, <1>8, <2>2 DEF Deposits, Ahead, At, Past
    <3>2. Chances(r, k)' + 1 <= Chances(r, k)
      BY <2>1, <3>1 DEF Chances
    <3>3. deposits'[k] <= deposits[k] + 1 /\ deposits'[k] \in Nat
      <4>1. TypeOK'
        BY ServeType, <1>8, EntryType
      <4> QED
        BY <1>8, <2>2, <4>1 DEF Deposits, TypeOK
    <3> QED
      BY <1>2, <1>3, <1>4, <1>5, <3>2, <3>3 DEF Balanced
  <2>3. CASE k # j
    <3>1. Ahead(r, k)' => Ahead(r, k)
      BY <1>8 DEF Deposits, Ahead, Past
    <3> QED
      BY <1>3, <1>6, <1>8, <2>1, <2>3, <3>1, KeepsWhen DEF Deposits
  <2> QED
    BY <2>2, <2>3
<1>9. CASE Ends(r, j)
  <2>1. Ahead(r, k)' => Ahead(r, k)
    <3>1. CASE k = j
      BY <1>9, <3>1 DEF Ends, Ahead
    <3>2. CASE k # j
      <4>1. k \in batch[r] => ~(\A i \in batch[r] : k <= i)
        BY <1>1, <3>2, CollectionConstants DEF At, CollectionConstants
      <4> QED
        BY <1>9, <4>1 DEF Ends, Ahead
    <3> QED
      BY <3>1, <3>2
  <2>2. SentAgain(r, k)' => SentAgain(r, k)
    BY <1>1, <1>9 DEF Ends, SentAgain, InQueue, Waits, At
  <2> QED
    BY <1>3, <1>6, <1>9, <2>1, <2>2, KeepsWhen DEF Ends
<1> QED
  BY <1>1, <1>7, <1>8, <1>9

LEMMA ClientBalanced ==
  ASSUME TypeOK, AtRest, NEW r \in Requests,
         \/ Sync(r) \/ EndSync(r) \/ Disconnect(r) \/ Crash(r)
         \/ \E j \in Keys : ApplyResult(r, j),
         NEW k \in Keys
  PROVE  (\A q \in Requests \ {r} : Keeps(q, k)) /\ Balanced(r, k)
<1>1. OnlyActs(r) /\ UNCHANGED deposits /\ (Fault \/ UNCHANGED faults)
  BY DEF TypeOK, Sync, EndSync, Disconnect, Crash, ApplyResult, OnlyActs, books
<1>2. InQueue(k)' => InQueue(k)
  BY DEF TypeOK, Sync, EndSync, Disconnect, Crash, ApplyResult, InQueue
<1>3. \A q \in Requests \ {r} : Keeps(q, k)
  BY <1>1, <1>2, OthersKeep
<1>4. faults \in Nat /\ faults' \in Nat /\ faults <= faults' /\ deposits[k] \in Nat
  BY <1>1, FaultCounts DEF TypeOK
<1>5. Chances(r, k) \in {0, 1, 2} /\ Chances(r, k)' \in {0, 1, 2}
  BY ChancesAreCounts
<1>6. CASE Keeps(r, k)
  BY <1>1, <1>3, <1>4, <1>5, <1>6 DEF Balanced, Keeps
<1>7. CASE Sync(r)
  <2>1. ~Ahead(r, k) /\ ~Waits(r, k)
    BY <1>7 DEF Sync, AtRest, Ahead, Waits, NoResults
  <2>2. (InQueue(k) <=> InQueue(k)') /\ (Ahead(r, k)' => InQueue(k))
    BY <1>7 DEF Sync, Ahead, InQueue, TypeOK
  <2>3. Ahead(r, k)' => Waits(r, k)'
    BY <1>7 DEF Sync, Ahead, Waits, TypeOK
  <2> QED
    BY <1>6, <2>1, <2>2, <2>3 DEF Keeps, Chances, SentAgain
<1>8. CASE EndSync(r)
  <2>1. Ahead(r, k)' => Ahead(r, k)
    BY <1>8 DEF EndSync, AtRest, Ahead
  <2>2. SentAgain(r, k)' => SentAgain(r, k)
    BY <1>8 DEF EndSync, SentAgain, InQueue, Waits, NoResults
  <2> QED
    BY <1>6, <2>1, <2>2, KeepsWhen
<1>9. CASE Disconnect(r) \/ Crash(r)
  <2>1. Ahead(r, k)' => Ahead(r, k)
    BY <1>9 DEF Disconnect, Crash, Ahead, TypeOK
  <2>2. Chances(r, k)' <= Chances(r, k) + 1
    BY <2>1 DEF Chances
  <2>3. faults' = faults + 1
    BY <1>9 DEF Disconnect, Crash, Fault
  <2> QED
    BY <1>1, <1>3, <1>4, <1>5, <2>2, <2>3 DEF Balanced
<1>10. ASSUME NEW j \in Keys, ApplyResult(r, j)
       PROVE  Keeps(r, k)
  <2>1. Ahead(r, k)' => Ahead(r, k)
    BY <1>10 DEF ApplyResult, Ahead
  <2>2. SentAgain(r, k)' => SentAgain(r, k)
    <3>1. CASE k = j
      BY <1>10, <3>1 DEF ApplyResult, SentAgain, InQueue, TypeOK
    <3>2. CASE k # j
      BY <1>10, <3>2 DEF ApplyResult, SentAgain, InQueue, Waits, TypeOK
    <3> QED
      BY <3>1, <3>2
  <2> QED
    BY <2>1, <2>2, KeepsWhen
<1> QED
  BY <1>6, <1>7, <1>8, <1>9, <1>10

LEMMA RestBalanced ==
  ASSUME TypeOK, NEW k \in Keys,
         \/ \E j \in Keys : Capture(j)
         \/ \E m \in Managers, j \in Keys :
              \/ FindEntry(m, j) \/ FindReversal(m, j)
              \/ InsertReversal(m, j) \/ DeleteEntry(m, j)
         \/ \E m \in Managers : ReversalLost(m)
         \/ UNCHANGED vars
  PROVE  /\ deposits'[k] = deposits[k] /\ faults <= faults'
         /\ \A q \in Requests : Keeps(q, k)
<1>1. /\ UNCHANGED <<pc, batch, result, online, deposits>>
      /\ Fault \/ UNCHANGED faults
      /\ InQueue(k)' <=> InQueue(k)
  <2>1. CASE \E j \in Keys : Capture(j)
    BY <2>1 DEF Capture, TypeOK, InQueue, work, books
  <2>2. CASE \E m \in Managers : ReversalLost(m)
    BY <2>2 DEF ReversalLost, InQueue, work, books
  <2>3. ASSUME NEW m \in Managers, NEW j \in Keys,
               \/ FindEntry(m, j) \/ FindReversal(m, j)
               \/ InsertReversal(m, j) \/ DeleteEntry(m, j)
        PROVE  /\ UNCHANGED <<pc, batch, result, online, deposits>>
               /\ Fault \/ UNCHANGED faults
               /\ InQueue(k)' <=> InQueue(k)
    BY <2>3 DEF FindEntry, FindReversal, InsertReversal, DeleteEntry, InQueue, work, books
  <2>4. CASE UNCHANGED vars
    BY <2>4 DEF InQueue, work, books, vars
  <2> QED
    BY <2>1, <2>2, <2>3, <2>4
<1>2. \A q \in Requests : Keeps(q, k)
  <2> SUFFICES ASSUME NEW q \in Requests PROVE Keeps(q, k)
    OBVIOUS
  <2>1. (Ahead(q, k)' => Ahead(q, k)) /\ (SentAgain(q, k)' => SentAgain(q, k))
    BY <1>1 DEF Ahead, SentAgain, Waits
  <2> QED
    BY <2>1, KeepsWhen
<1> QED
  BY <1>1, <1>2, FaultCounts

\* The chances of all requests together.
LEMMA ChancesTotal ==
  ASSUME NEW k
  PROVE  AllChances(k) \in Nat /\ AllChances(k)' \in Nat
<1> DEFINE f == [r \in Requests |-> Chances(r, k)]
<1>1. \A r \in Requests : f[r] \in Nat /\ f'[r] \in Nat
  BY ChancesAreCounts
<1>2. /\ AllChances(k) = SumFunctionOnSet(f, Requests)
      /\ AllChances(k)' = SumFunctionOnSet(f', Requests)
  BY DEF AllChances, SumFunction
<1> HIDE DEF f
<1> QED
  BY <1>1, <1>2, CollectionFinite, SumNat

LEMMA TotalKept ==
  ASSUME NEW k, \A q \in Requests : Keeps(q, k)
  PROVE  AllChances(k)' <= AllChances(k)
<1> DEFINE f == [r \in Requests |-> Chances(r, k)]
<1>1. \A r \in Requests : f[r] \in Int /\ f'[r] \in Int /\ f'[r] <= f[r]
  BY ChancesAreCounts DEF Keeps
<1>2. /\ AllChances(k) = SumFunctionOnSet(f, Requests)
      /\ AllChances(k)' = SumFunctionOnSet(f', Requests)
  BY DEF AllChances, SumFunction
<1> HIDE DEF f
<1> QED
  BY <1>1, <1>2, CollectionFinite, SumAtMost

LEMMA TotalChanged ==
  ASSUME NEW k, NEW r \in Requests, \A q \in Requests \ {r} : Keeps(q, k)
  PROVE  AllChances(k)' <= AllChances(k) - Chances(r, k) + Chances(r, k)'
<1> DEFINE f == [q \in Requests |-> Chances(q, k)]
           g == [q \in Requests |-> IF q = r THEN f'[r] ELSE f[q]]
<1>1. /\ \A q \in Requests : f[q] \in Int /\ f'[q] \in Int
      /\ f[r] = Chances(r, k) /\ f'[r] = Chances(r, k)'
  BY ChancesAreCounts
<1>2. \A q \in Requests \ {r} : f'[q] <= f[q]
  BY DEF Keeps
<1>3. /\ AllChances(k) = SumFunctionOnSet(f, Requests)
      /\ AllChances(k)' = SumFunctionOnSet(f', Requests)
  BY DEF AllChances, SumFunction
<1> HIDE DEF f
<1>4. /\ \A q \in Requests : g[q] \in Int /\ f'[q] <= g[q]
      /\ \A q \in Requests \ {r} : g[q] = f[q]
      /\ g[r] = f'[r]
  BY <1>1, <1>2
<1> HIDE DEF g
<1>5. SumFunctionOnSet(f', Requests) <= SumFunctionOnSet(g, Requests)
  BY <1>1, <1>4, CollectionFinite, SumAtMost
<1>6. SumFunctionOnSet(g, Requests) = SumFunctionOnSet(f, Requests) - f[r] + g[r]
  BY <1>1, <1>4, CollectionFinite, SumChange
<1> QED
  BY <1>1, <1>3, <1>4, <1>5, <1>6

LEMMA WithinStep ==
  ASSUME TypeOK, AtRest, DepositsWithin, [Next]_vars, TypeOK'
  PROVE  DepositsWithin'
<1> SUFFICES ASSUME NEW k \in Keys
             PROVE  (deposits[k] + AllChances(k))' <= Cardinality(Requests) + faults'
  BY DEF DepositsWithin
<1>1. /\ deposits[k] + AllChances(k) <= Cardinality(Requests) + faults
      /\ deposits[k] \in Nat /\ deposits'[k] \in Nat /\ faults \in Nat /\ faults' \in Nat
      /\ Cardinality(Requests) \in Nat
      /\ AllChances(k) \in Nat /\ AllChances(k)' \in Nat
  BY CollectionConstants, FS_CardinalityType, ChancesTotal
     DEF DepositsWithin, TypeOK, CollectionConstants
<1>2. ASSUME deposits'[k] = deposits[k], faults <= faults',
             \A q \in Requests : Keeps(q, k)
      PROVE  (deposits[k] + AllChances(k))' <= Cardinality(Requests) + faults'
  BY <1>1, <1>2, TotalKept
<1>3. ASSUME NEW r \in Requests, \A q \in Requests \ {r} : Keeps(q, k), Balanced(r, k)
      PROVE  (deposits[k] + AllChances(k))' <= Cardinality(Requests) + faults'
  <2>1. Chances(r, k) \in Int /\ Chances(r, k)' \in Int
    BY ChancesAreCounts
  <2>2. AllChances(k)' <= AllChances(k) - Chances(r, k) + Chances(r, k)'
    BY <1>3, TotalChanged
  <2> QED
    BY <1>1, <1>3, <2>1, <2>2 DEF Balanced
<1>4. CASE \/ \E j \in Keys : Capture(j)
           \/ \E m \in Managers, j \in Keys :
                \/ FindEntry(m, j) \/ FindReversal(m, j)
                \/ InsertReversal(m, j) \/ DeleteEntry(m, j)
           \/ \E m \in Managers : ReversalLost(m)
           \/ UNCHANGED vars
  BY <1>2, <1>4, RestBalanced
<1>5. ASSUME NEW r \in Requests,
             \/ Sync(r) \/ EndSync(r) \/ Disconnect(r) \/ Crash(r)
             \/ \E j \in Keys : ApplyResult(r, j)
      PROVE  (deposits[k] + AllChances(k))' <= Cardinality(Requests) + faults'
  BY <1>3, <1>5, ClientBalanced
<1>6. ASSUME NEW r \in Requests, NEW j \in Keys, Serve(r, j) \/ QueryFails(r, j)
      PROVE  (deposits[k] + AllChances(k))' <= Cardinality(Requests) + faults'
  BY <1>3, <1>6, ServeBalanced
<1> QED
  BY <1>4, <1>5, <1>6 DEF Next

LEMMA WithinInitially == Init => AtRest /\ DepositsWithin
<1> SUFFICES ASSUME Init PROVE AtRest /\ DepositsWithin
  OBVIOUS
<1>1. AtRest
  BY DEF Init, AtRest
<1>2. ASSUME NEW k \in Keys
      PROVE  deposits[k] + AllChances(k) <= Cardinality(Requests) + faults
  <2> DEFINE f == [r \in Requests |-> Chances(r, k)]
  <2>1. \A r \in Requests : f[r] = 1
    BY DEF Init, Chances, Ahead, SentAgain, InQueue, Waits
  <2>2. AllChances(k) = SumFunctionOnSet(f, Requests)
    BY DEF AllChances, SumFunction
  <2> HIDE DEF f
  <2>3. AllChances(k) = Cardinality(Requests) /\ Cardinality(Requests) \in Nat
    BY <2>1, <2>2, CollectionFinite, SumOnes, FS_CardinalityType
  <2>4. deposits[k] = 0 /\ faults = 0
    BY DEF Init
  <2> QED
    BY <2>3, <2>4
<1> QED
  BY <1>1, <1>2 DEF DepositsWithin

\* However flushes overlap and whatever fails, an entry is deposited at most once for
\* each request that may be under way, and once more for each failure.
THEOREM DepositsStayBounded == Spec => []DepositsBounded
<1> DEFINE Inv == TypeOK /\ AtRest /\ DepositsWithin
<1>1. Init => AtRest /\ DepositsWithin
  BY WithinInitially
<1>2. TypeOK /\ TypeOK' /\ AtRest /\ DepositsWithin /\ [Next]_vars
        => AtRest' /\ DepositsWithin'
  BY RestStep, WithinStep
<1>3. TypeOK /\ DepositsWithin => DepositsBounded
  <2> SUFFICES ASSUME TypeOK, DepositsWithin, NEW k \in Keys
               PROVE  deposits[k] <= Cardinality(Requests) + faults
    BY DEF DepositsBounded
  <2>1. deposits[k] \in Nat /\ faults \in Nat /\ AllChances(k) \in Nat
    BY CollectionConstants, ChancesTotal DEF TypeOK, CollectionConstants
  <2>2. Cardinality(Requests) \in Nat
    BY CollectionConstants, FS_CardinalityType DEF CollectionConstants
  <2> QED
    BY <2>1, <2>2 DEF DepositsWithin
<1> QED
  BY <1>1, <1>2, <1>3, TypeCorrect, PTL DEF Spec

-----------------------------------------------------------------------------
(* What allocateCollectionPayment computes *)

\* What is there for the loan.
Start(savings, payment) ==
  payment - (IF SavingsFirst THEN Lower(savings, payment) ELSE 0)

\* The remainders up to installment n.
Falls(p, start, left, n) ==
  /\ left \in [0..n -> 0..start] /\ left[0] = start
  /\ \A i \in 1..n : left[i] = left[i - 1] - Lower(Claim(p, i), left[i - 1])

LEMMA LoanConstants ==
  Installments \in Nat /\ Due \in Nat /\ SavingsFirst \in BOOLEAN
BY CollectionConstants DEF CollectionConstants

LEMMA StartType == \A savings, payment \in Nat : Start(savings, payment) \in Nat
<1> TAKE savings \in Nat, payment \in Nat
<1>1. Lower(savings, payment) \in Nat /\ Lower(savings, payment) <= payment
  BY LowerNat
<1>2. CASE SavingsFirst
  BY <1>1, <1>2 DEF Start
<1>3. CASE ~SavingsFirst
  BY <1>3 DEF Start
<1> QED
  BY <1>2, <1>3

LEMMA RemaindersFall ==
  \A p, savings, payment, left :
    left \in Remainders(p, savings, payment)
      <=> Falls(p, Start(savings, payment), left, Installments)
BY DEF Remainders, Falls, Start, Schedule

\* An installment claims at most what it owes.
LEMMA ClaimsOwed ==
  ASSUME NEW p \in [Schedule -> 0..Due], NEW i \in Schedule
  PROVE  p[i] \in Nat /\ Claim(p, i) \in Nat /\ p[i] + Claim(p, i) <= Due
BY LoanConstants DEF Claim

LEMMA FallsType ==
  ASSUME NEW p \in [Schedule -> 0..Due], NEW start \in Nat, NEW n \in Nat, n <= Installments,
         NEW left, Falls(p, start, left, n), NEW i \in 1..n
  PROVE  /\ i \in Schedule /\ i - 1 \in 0..n /\ i \in 0..n
         /\ left[i] \in Nat /\ left[i - 1] \in Nat
         /\ left[i - 1] - left[i] = Lower(Claim(p, i), left[i - 1])
         /\ left[i] <= left[i - 1]
<1>1. i \in Schedule /\ i - 1 \in 0..n /\ i \in 0..n
  BY LoanConstants DEF Schedule
<1>2. left[i] \in Nat /\ left[i - 1] \in Nat
  BY <1>1 DEF Falls
<1>3. left[i] = left[i - 1] - Lower(Claim(p, i), left[i - 1])
  BY DEF Falls
<1>4. Lower(Claim(p, i), left[i - 1]) \in Nat
  BY <1>1, <1>2, ClaimsOwed, LowerNat
<1> QED
  BY <1>1, <1>2, <1>3, <1>4

\* They can be computed, one after the other, for every payment.
LEMMA RemaindersExist ==
  ASSUME NEW p \in [Schedule -> 0..Due], NEW start \in Nat
  PROVE  \E left : Falls(p, start, left, Installments)
<1> DEFINE N == {n \in Nat : n <= Installments => \E left : Falls(p, start, left, n)}
<1>1. 0 \in N
  <2> DEFINE left == [i \in 0..0 |-> start]
  <2>1. Falls(p, start, left, 0)
    BY DEF Falls
  <2> QED
    BY <2>1
<1>2. ASSUME NEW n \in Nat, n \in N PROVE n + 1 \in N
  <2> SUFFICES ASSUME n + 1 <= Installments
               PROVE  \E left : Falls(p, start, left, n + 1)
    OBVIOUS
  <2>1. n <= Installments
    BY LoanConstants
  <2>2. PICK left : Falls(p, start, left, n)
    BY <1>2, <2>1
  <2> DEFINE rest == left[n] - Lower(Claim(p, n + 1), left[n])
             more == [i \in 0..(n + 1) |-> IF i <= n THEN left[i] ELSE rest]
  <2>3. left[n] \in 0..start /\ left[0] = start
    BY <2>2 DEF Falls
  <2>4. Claim(p, n + 1) \in Nat
    <3>1. n + 1 \in Schedule
      BY LoanConstants DEF Schedule
    <3> QED
      BY <3>1, ClaimsOwed
  <2>5. rest \in 0..start
    <3>1. left[n] \in Nat
      BY <2>3
    <3>2. Lower(Claim(p, n + 1), left[n]) \in Nat /\ Lower(Claim(p, n + 1), left[n]) <= left[n]
      BY <2>4, <3>1, LowerNat
    <3> QED
      BY <2>3, <3>2
  <2> HIDE DEF rest
  <2>6. more \in [0..(n + 1) -> 0..start] /\ more[0] = start
    <3>1. \A i \in 0..(n + 1) : i <= n => left[i] \in 0..start
      BY <2>2 DEF Falls
    <3> QED
      BY <2>3, <2>5, <3>1
  <2>7. ASSUME NEW i \in 1..(n + 1)
        PROVE  more[i] = more[i - 1] - Lower(Claim(p, i), more[i - 1])
    <3>1. CASE i <= n
      <4>1. i \in 1..n /\ i - 1 \in 0..(n + 1) /\ i - 1 <= n /\ i \in 0..(n + 1)
        BY <3>1
      <4>2. more[i] = left[i] /\ more[i - 1] = left[i - 1]
        BY <3>1, <4>1
      <4> QED
        BY <2>2, <4>1, <4>2 DEF Falls
    <3>2. CASE i = n + 1
      <4>1. more[i] = rest /\ more[i - 1] = left[n]
        BY <3>2
      <4> QED
        BY <3>2, <4>1 DEF rest
    <3> QED
      BY <3>1, <3>2
  <2> QED
    BY <2>6, <2>7 DEF Falls
<1> HIDE DEF N
<1>3. \A n \in Nat : n \in N
  BY <1>1, <1>2, AllNumbers
<1> QED
  BY <1>3, LoanConstants DEF N

\* There is one way to compute them.
LEMMA RemaindersUnique ==
  ASSUME NEW p \in [Schedule -> 0..Due], NEW start \in Nat,
         NEW left, Falls(p, start, left, Installments),
         NEW other, Falls(p, start, other, Installments)
  PROVE  left = other
<1> DEFINE N == {n \in Nat : n <= Installments => left[n] = other[n]}
<1>1. 0 \in N
  BY DEF Falls
<1>2. ASSUME NEW n \in Nat, n \in N PROVE n + 1 \in N
  <2> SUFFICES ASSUME n + 1 <= Installments PROVE left[n + 1] = other[n + 1]
    OBVIOUS
  <2>1. n + 1 \in 1..Installments /\ (n + 1) - 1 = n /\ left[n] = other[n]
    BY <1>2, LoanConstants
  <2> QED
    BY <2>1 DEF Falls
<1> HIDE DEF N
<1>3. \A n \in Nat : n \in N
  BY <1>1, <1>2, AllNumbers
<1>4. \A n \in 0..Installments : left[n] = other[n]
  BY <1>3, LoanConstants DEF N
<1>5. left \in [0..Installments -> 0..start] /\ other \in [0..Installments -> 0..start]
  BY DEF Falls
<1> DEFINE D == 0..Installments
           R == 0..start
<1>6. (\A n \in D : left[n] = other[n]) /\ left \in [D -> R] /\ other \in [D -> R]
  BY <1>4, <1>5
<1> HIDE DEF D, R
<1> QED
  BY <1>6

\* They do not grow.
LEMMA RemaindersShrink ==
  ASSUME NEW p \in [Schedule -> 0..Due], NEW start \in Nat,
         NEW left, Falls(p, start, left, Installments), NEW i \in 0..Installments
  PROVE  \A j \in 0..Installments : i <= j => left[j] <= left[i]
<1> DEFINE N == {n \in Nat : i + n <= Installments => left[i + n] <= left[i]}
<1>1. 0 \in N
  BY DEF Falls
<1>2. ASSUME NEW n \in Nat, n \in N PROVE n + 1 \in N
  <2> SUFFICES ASSUME i + (n + 1) <= Installments PROVE left[i + (n + 1)] <= left[i]
    OBVIOUS
  <2> DEFINE j == i + (n + 1)
  <2>1. j \in 1..Installments /\ j - 1 = i + n /\ i + n <= Installments
    BY LoanConstants
  <2>2. left[j] <= left[j - 1] /\ left[j] \in Nat /\ left[j - 1] \in Nat
    BY <2>1, FallsType, LoanConstants
  <2>3. left[i + n] <= left[i] /\ left[i] \in Nat
    BY <1>2, <2>1 DEF Falls
  <2> QED
    BY <2>1, <2>2, <2>3
<1> HIDE DEF N
<1>3. \A n \in Nat : n \in N
  BY <1>1, <1>2, AllNumbers
<1> QED
  <2> SUFFICES ASSUME NEW j \in 0..Installments, i <= j PROVE left[j] <= left[i]
    OBVIOUS
  <2>1. j - i \in Nat /\ i + (j - i) = j
    BY LoanConstants
  <2> QED
    BY <1>3, <2>1, LoanConstants DEF N

\* What the first n installments take is what the payment has lost.
LEMMA SharesAddUp ==
  ASSUME NEW p \in [Schedule -> 0..Due], NEW start \in Nat,
         NEW left, Falls(p, start, left, Installments),
         NEW share, \A i \in Schedule : share[i] = left[i - 1] - left[i]
  PROVE  SumFunctionOnSet(share, Schedule) = left[0] - left[Installments]
<1>1. ASSUME NEW i \in Schedule
      PROVE  share[i] = left[i - 1] - left[i] /\ share[i] \in Int
  <2>1. i \in 1..Installments /\ Installments \in Nat /\ Installments <= Installments
    BY LoanConstants DEF Schedule
  <2>2. left[i] \in Nat /\ left[i - 1] \in Nat
    BY <2>1, FallsType
  <2> QED
    BY <2>2
<1> DEFINE N == {n \in Nat : n <= Installments =>
                               SumFunctionOnSet(share, 1..n) = left[0] - left[n]}
<1>2. 0 \in N
  <2>1. SumFunctionOnSet(share, {}) = 0
    BY FS_EmptySet, SumZero
  <2>2. 1..0 = {} /\ left[0] - left[0] = 0
    BY DEF Falls
  <2>3. SumFunctionOnSet(share, 1..0) = left[0] - left[0]
    BY <2>1, <2>2, Zenon
  <2> QED
    BY <2>3
<1>3. ASSUME NEW n \in Nat, n \in N PROVE n + 1 \in N
  <2> SUFFICES ASSUME n + 1 <= Installments
               PROVE  SumFunctionOnSet(share, 1..(n + 1)) = left[0] - left[n + 1]
    OBVIOUS
  <2>1. /\ SumFunctionOnSet(share, 1..n) = left[0] - left[n]
        /\ n + 1 \in Schedule /\ (n + 1) - 1 = n
        /\ \A i \in 1..n : i \in Schedule
        /\ left[0] \in Nat /\ left[n] \in Nat /\ left[n + 1] \in Nat
    <3>1. SumFunctionOnSet(share, 1..n) = left[0] - left[n]
      BY <1>3, LoanConstants
    <3>2. /\ n + 1 \in Schedule /\ (n + 1) - 1 = n
          /\ \A i \in 1..n : i \in Schedule
          /\ 0 \in 0..Installments /\ n \in 0..Installments /\ n + 1 \in 0..Installments
      BY LoanConstants DEF Schedule
    <3>3. left[0] \in Nat /\ left[n] \in Nat /\ left[n + 1] \in Nat
      BY <3>2 DEF Falls
    <3> QED
      BY <3>1, <3>2, <3>3
  <2>2. 1..(n + 1) = (1..n) \cup {n + 1} /\ n + 1 \notin 1..n
    OBVIOUS
  <2>3. SumFunctionOnSet(share, (1..n) \cup {n + 1})
          = SumFunctionOnSet(share, 1..n) + share[n + 1]
    <3>1. IsFiniteSet(1..n)
      BY FS_Interval
    <3>2. share[n + 1] \in Int /\ \A i \in 1..n : share[i] \in Int
      BY <1>1, <2>1
    <3> QED
      BY <2>2, <3>1, <3>2, SumAdd
  <2>4. share[n + 1] = left[n] - left[n + 1]
    BY <1>1, <2>1
  <2>5. SumFunctionOnSet(share, (1..n) \cup {n + 1}) = left[0] - left[n + 1]
    BY <2>1, <2>3, <2>4
  <2> QED
    BY <2>2, <2>5, Zenon
<1> HIDE DEF N
<1>4. \A n \in Nat : n \in N
  BY <1>2, <1>3, AllNumbers
<1> QED
  BY <1>4, LoanConstants DEF N, Schedule

\* A payment is allocated in one way, whatever part of the sheet was read.  The loan
\* parts add up to what the journal is given; together with the savings they are no
\* more than the payment; no installment gets more than it owes, and none gets
\* anything before the claims of all earlier ones are met.
THEOREM AllocationSound ==
  ASSUME NEW app \in BOOLEAN, NEW p \in [Schedule -> 0..Due], NEW savings \in Nat,
         NEW payment \in Nat
  PROVE  \E left :
           /\ Remainders(p, savings, payment) = {left}
           /\ LET a == Allocation(app, p, savings, payment, left) IN
              /\ a.credit = SumFunction(a.loan)
              /\ a.credit + a.savings <= payment
              /\ \A i \in Schedule : p[i] + a.loan[i] <= Due
              /\ \A i, j \in Schedule : i < j /\ a.loan[j] > 0 => a.loan[i] = Claim(p, i)
<1> DEFINE start == Start(savings, payment)
<1>1. start \in Nat /\ Installments \in Nat /\ SavingsFirst \in BOOLEAN
  BY LoanConstants, StartType
<1> HIDE DEF start
<1>2. PICK left : Falls(p, start, left, Installments)
  BY <1>1, RemaindersExist
<1>3. Remainders(p, savings, payment) = {left}
  <2>1. \A other : Falls(p, start, other, Installments) => other = left
    BY <1>1, <1>2, RemaindersUnique
  <2> QED
    BY <1>2, <2>1, RemaindersFall DEF start
<1> DEFINE a == Allocation(app, p, savings, payment, left)
           share == [i \in Schedule |-> left[i - 1] - left[i]]
<1>4. /\ a.loan = share /\ a.credit = left[0] - left[Installments]
      /\ a.savings = Lower(savings, IF SavingsFirst THEN payment ELSE left[Installments])
  BY DEF Allocation
<1>5. ASSUME NEW i \in Schedule
      PROVE  /\ share[i] = Lower(Claim(p, i), left[i - 1])
             /\ left[i - 1] \in Nat /\ Claim(p, i) \in Nat /\ p[i] \in Nat
             /\ p[i] + Claim(p, i) <= Due
             /\ left[i] \in Nat /\ share[i] = left[i - 1] - left[i]
             /\ i \in 0..Installments /\ i - 1 \in 0..Installments /\ Due \in Nat
  <2>1. i \in 1..Installments /\ Installments <= Installments /\ Due \in Nat
    BY <1>1, LoanConstants DEF Schedule
  <2>2. /\ i - 1 \in 0..Installments /\ i \in 0..Installments
        /\ left[i] \in Nat /\ left[i - 1] \in Nat
        /\ left[i - 1] - left[i] = Lower(Claim(p, i), left[i - 1])
    BY <1>1, <1>2, <2>1, FallsType
  <2>3. p[i] \in Nat /\ Claim(p, i) \in Nat /\ p[i] + Claim(p, i) <= Due
    BY ClaimsOwed
  <2>4. share[i] = left[i - 1] - left[i]
    OBVIOUS
  <2> HIDE DEF share
  <2> QED
    BY <2>1, <2>2, <2>3, <2>4
<1> HIDE DEF a
<1>6. a.credit = SumFunction(a.loan)
  <2>1. SumFunction(share) = SumFunctionOnSet(share, Schedule)
    BY DEF SumFunction
  <2> HIDE DEF share
  <2>2. SumFunctionOnSet(share, Schedule) = left[0] - left[Installments]
    BY <1>1, <1>2, <1>5, SharesAddUp
  <2> QED
    BY <1>4, <2>1, <2>2
<1> HIDE DEF share
<1>7. a.credit + a.savings <= payment
  <2>1. left[0] = start /\ left[Installments] \in Nat
    BY <1>1, <1>2 DEF Falls
  <2>2. CASE SavingsFirst
    <3>1. start = payment - Lower(savings, payment) /\ a.savings = Lower(savings, payment)
      BY <1>4, <2>2 DEF start, Start
    <3>2. Lower(savings, payment) \in Nat
      BY <1>1, LowerNat
    <3> QED
      BY <1>1, <1>4, <2>1, <3>1, <3>2
  <2>3. CASE ~SavingsFirst
    <3>1. start = payment /\ a.savings = Lower(savings, left[Installments])
      BY <1>4, <2>3 DEF start, Start
    <3>2. /\ Lower(savings, left[Installments]) \in Nat
          /\ Lower(savings, left[Installments]) <= left[Installments]
      BY <1>1, <2>1, LowerNat
    <3> QED
      BY <1>1, <1>4, <2>1, <3>1, <3>2
  <2> QED
    BY <1>1, <2>2, <2>3
<1>8. \A i \in Schedule : p[i] + a.loan[i] <= Due
  <2> SUFFICES ASSUME NEW i \in Schedule PROVE p[i] + share[i] <= Due
    BY <1>4
  <2>1. share[i] \in Nat /\ share[i] <= Claim(p, i)
    BY <1>5, LowerNat
  <2> QED
    BY <1>5, <2>1
<1>9. \A i, j \in Schedule : i < j /\ a.loan[j] > 0 => a.loan[i] = Claim(p, i)
  <2> SUFFICES ASSUME NEW i \in Schedule, NEW j \in Schedule, i < j, share[j] > 0
               PROVE  share[i] = Claim(p, i)
    BY <1>4
  <2>1. left[j - 1] > 0
    <3>1. /\ share[j] = Lower(Claim(p, j), left[j - 1])
          /\ left[j - 1] \in Nat /\ Claim(p, j) \in Nat
      BY <1>5
    <3>2. share[j] <= left[j - 1] /\ share[j] \in Nat
      BY <3>1, LowerNat
    <3> QED
      BY <3>1, <3>2
  <2>2. left[j - 1] <= left[i]
    <3>1. i <= j - 1 /\ i \in 0..Installments /\ j - 1 \in 0..Installments
      BY <1>5 DEF Schedule
    <3> QED
      BY <1>1, <1>2, <3>1, RemaindersShrink
  <2>3. share[i] < left[i - 1]
    BY <1>5, <2>1, <2>2
  <2> QED
    BY <1>5, <2>3 DEF Lower
<1> QED
  BY <1>3, <1>6, <1>7, <1>8, <1>9 DEF a
=============================================================================
