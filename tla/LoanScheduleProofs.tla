--------------------------- MODULE LoanScheduleProofs ---------------------------
(***************************************************************************)
(* What holds of payouts and reschedules for any applications, requests,   *)
(* limits, schedules and losses.                                           *)
(*                                                                         *)
(* The record of a payout is unique and final, and everything else follows *)
(* from it: one request at a time is between the record and its schedule,  *)
(* so no other deletes or inserts the rows; rows are only moved later, so  *)
(* what a ruling has moved stays moved; and a request that has summed the  *)
(* day's cash adds to it once at most.                                     *)
(***************************************************************************)
EXTENDS LoanSchedule, FiniteSetTheorems, TLAPS

-----------------------------------------------------------------------------
(* The inductive invariant *)

PaysAt == {"delete", "insert"}

Pays(r) == Busy(r) /\ req[r].at \in PaysAt

\* The first rows of a schedule have been moved.
Moved(s) == \A i \in 1..Shift : s.due[i] > i

\* A preparation that found a record relies on it.
FoundIsThere(q, rec) == q.at = "prepare" /\ q.found => rec[q.app] # None

\* Between the record and its schedule: the one is written, the other is not.
PaysOnce(q, rec, sch) ==
  q.at \in PaysAt =>
    /\ rec[q.app] # None /\ rec[q.app].status = "completed" /\ rec[q.app].day = q.day
    /\ sch[q.app] = None

\* A ruling that moves rows of a schedule, and has moved those before: unless a
\* failure was not read, u times.
MovesRows(q, sch, u) ==
  q.at = "move" =>
    /\ sch[LoanOf[q.ask]] # None
    /\ q.row <= Shift
    /\ \A i \in 1..Rows : q.read[i] >= i /\ q.read[i] + Shift <= MaxWeek
    /\ u = 0 => \A i \in 1..Rows : i < q.row => sch[LoanOf[q.ask]].due[i] > i

\* An approval of a loan that was paid out has moved the rows.
RulesMoved(q, sch, u) ==
  q.at = "rule" /\ q.to = "approved" /\ LoanOf[q.ask] \in PaidOut /\ u = 0
    => Moved(sch[LoanOf[q.ask]])

Fine(q, rec, sch, u) ==
  /\ FoundIsThere(q, rec) /\ PaysOnce(q, rec, sch)
  /\ MovesRows(q, sch, u) /\ RulesMoved(q, sch, u)

RequestsAreFine == \A r \in Requests : Busy(r) => Fine(req[r], record, schedule, unread)

OnePays ==
  \A r, s \in Requests : Pays(r) /\ Pays(s) /\ req[r].app = req[s].app => r = s

ChecksDone == \A a \in Applications : Completed(a) => record[a].checks = "done"

\* Rows are due in their week or later, and the loans paid out before keep theirs.
Rises == \A a \in Applications : schedule[a] # None => \A i \in 1..Rows : schedule[a].due[i] >= i

PaidOutStays == \A a \in PaidOut : schedule[a] # None

\* Requests that have summed the cash of a day and may still add to it.
Summed(day) ==
  {r \in Requests :
    /\ Busy(r) /\ req[r].at \in {"existing", "write"}
    /\ req[r].mode = "cash" /\ req[r].day = day /\ ~Completed(req[r].app)}

CashWithin ==
  SentLimits = {} =>
    \A day \in Days :
      CashOut(Applications, day) + Cardinality(Summed(day))
        < CashLimit + Cardinality(Requests) + unread

IInv ==
  /\ TypeOK
  /\ RequestsAreFine /\ OnePays
  /\ ChecksDone /\ Rises /\ PaidOutStays
  /\ ScheduleMatches /\ PaidHasSchedule
  /\ ApprovedIsMoved
  /\ CashWithin

-----------------------------------------------------------------------------
(* Requests *)

LEMMA RequestIsSome ==
  ASSUME NEW q \in Request
  PROVE  q # NoRequest
BY ScheduleConstants

LEMMA KindsOfRequest ==
  ASSUME NEW q \in Request
  PROVE  /\ q.at = "prepare" => q \in Preparation
         /\ q.at \in {"existing", "write", "delete", "insert", "mark"} => q \in Execution
         /\ q.at = "ask" => q \in Asking
         /\ q.at \in {"move", "rule"} => q \in Ruling
         /\ q.at = "move" =>
              q.ask \in Reschedules /\ q.row \in 1..Rows /\ q.read \in [1..Rows -> 1..MaxWeek]
         /\ q.at = "rule" =>
              q.ask \in Reschedules /\ q.to \in {"approved", "rejected"}
BY DEF Request, Preparation, Execution, Asking, Ruling

LEMMA BusyRequest ==
  ASSUME TypeOK, NEW r \in Requests, Busy(r)
  PROVE  req[r] \in Request
BY DEF TypeOK, Busy

LEMMA RequestBecomes ==
  ASSUME TypeOK, NEW r \in Requests, NEW q, Becomes(r, q)
  PROVE  req'[r] = q /\ \A s \in Requests : s # r => req'[s] = req[s]
BY DEF TypeOK, Becomes

LEMMA ScheduleIsSome ==
  /\ \A s \in Schedule : s # None
  /\ \A s \in Record : s # None
  /\ \A a \in Applications : TypeOK /\ schedule[a] # None => schedule[a] \in Schedule
  /\ \A a \in Applications : TypeOK /\ record[a] # None => record[a] \in Record
BY ScheduleConstants DEF TypeOK

\* Records are never removed, and completed ones never changed.
RecordsStay(rec, rec2) ==
  \A a \in Applications :
    rec[a] # None =>
      rec2[a] # None /\ (rec[a].status = "completed" => rec2[a] = rec[a])

\* Schedules are never removed, and no row falls below its week or back to it.
RowsRise(sch, sch2) ==
  \A a \in Applications :
    sch[a] # None =>
      /\ sch2[a] # None
      /\ \A i \in 1..Rows :
           /\ sch[a].due[i] >= i => sch2[a].due[i] >= i
           /\ sch[a].due[i] > i => sch2[a].due[i] > i

\* Errors that were not read are never taken back.
ErrorsStay == unread \in Nat /\ unread' \in Nat /\ unread' >= unread

LEMMA AnswersCount ==
  ASSUME TypeOK, NEW ok \in BOOLEAN, Answered(ok)
  PROVE  ErrorsStay /\ unread' \in 0..MaxLosses /\ (~ok => unread' = unread + 1)
BY ScheduleConstants DEF TypeOK, Answered, ErrorsStay

LEMMA NoErrorStays ==
  ASSUME TypeOK, unread' = unread
  PROVE  ErrorsStay
BY ScheduleConstants DEF TypeOK, ErrorsStay

LEMMA FineStays ==
  ASSUME NEW q \in Request, NEW rec, NEW rec2, NEW sch, NEW sch2,
         NEW u, NEW u2, u2 = 0 => u = 0,
         RecordsStay(rec, rec2), RowsRise(sch, sch2), Fine(q, rec, sch, u),
         \A a \in PaidOut : sch[a] # None,
         q.at \in PaysAt => sch2[q.app] = sch[q.app]
  PROVE  Fine(q, rec2, sch2, u2)
<1>1. FoundIsThere(q, rec2)
  BY KindsOfRequest DEF Fine, FoundIsThere, RecordsStay, Preparation
<1>2. PaysOnce(q, rec2, sch2)
  <2> SUFFICES ASSUME q.at \in PaysAt PROVE PaysOnce(q, rec2, sch2)
    BY DEF PaysOnce
  <2>1. q.app \in Applications
    BY KindsOfRequest DEF PaysAt, Execution
  <2> QED
    BY <2>1 DEF Fine, PaysOnce, RecordsStay
<1>3. MovesRows(q, sch2, u2)
  <2> SUFFICES ASSUME q.at = "move" PROVE MovesRows(q, sch2, u2)
    BY DEF MovesRows
  <2>1. LoanOf[q.ask] \in Applications
    BY KindsOfRequest, ScheduleConstants
  <2> QED
    BY <2>1 DEF Fine, MovesRows, RowsRise
<1>4. RulesMoved(q, sch2, u2)
  <2> SUFFICES ASSUME q.at = "rule", q.to = "approved", LoanOf[q.ask] \in PaidOut, u2 = 0
               PROVE  Moved(sch2[LoanOf[q.ask]])
    BY DEF RulesMoved
  <2>1. LoanOf[q.ask] \in Applications /\ sch[LoanOf[q.ask]] # None
    BY ScheduleConstants
  <2>2. Moved(sch[LoanOf[q.ask]])
    BY DEF Fine, RulesMoved
  <2>3. 1..Shift \subseteq 1..Rows
    BY ScheduleConstants
  <2> QED
    BY <2>1, <2>2, <2>3 DEF Moved, RowsRise
<1> QED
  BY <1>1, <1>2, <1>3, <1>4 DEF Fine

\* A step of one request leaves the others as they have to be.
LEMMA StepRequests ==
  ASSUME IInv, NEW r \in Requests, NEW q \in Request \cup {NoRequest}, Becomes(r, q),
         RecordsStay(record, record'), RowsRise(schedule, schedule'), ErrorsStay,
         q # NoRequest => Fine(q, record', schedule', unread'),
         \A s \in Requests :
           s # r /\ Pays(s) => schedule'[req[s].app] = schedule[req[s].app],
         q # NoRequest /\ q.at \in PaysAt =>
           \A s \in Requests : s # r /\ Pays(s) => req[s].app # q.app
  PROVE  RequestsAreFine' /\ OnePays'
<1>0. TypeOK
  BY DEF IInv
<1>1. req'[r] = q /\ \A s \in Requests : s # r => req'[s] = req[s]
  BY <1>0, RequestBecomes
<1>2. RequestsAreFine'
  <2> SUFFICES ASSUME NEW s \in Requests, req'[s] # NoRequest
               PROVE  Fine(req'[s], record', schedule', unread')
    BY DEF RequestsAreFine, Busy
  <2>1. CASE s = r
    BY <1>1, <2>1
  <2>2. CASE s # r
    <3>1. req'[s] = req[s] /\ Busy(s) /\ req[s] \in Request
      BY <1>0, <1>1, <2>2, BusyRequest DEF Busy
    <3>2. Fine(req[s], record, schedule, unread)
      BY <3>1 DEF IInv, RequestsAreFine
    <3>3. req[s].at \in PaysAt => schedule'[req[s].app] = schedule[req[s].app]
      BY <2>2, <3>1 DEF Pays
    <3>4. \A a \in PaidOut : schedule[a] # None
      BY DEF IInv, PaidOutStays
    <3> QED
      BY <3>1, <3>2, <3>3, <3>4, FineStays DEF ErrorsStay
  <2> QED
    BY <2>1, <2>2
<1>3. OnePays'
  <2>1. \A s \in Requests : s # r => (Pays(s)' <=> Pays(s))
    BY <1>1 DEF Pays, Busy
  <2>2. Pays(r)' <=> q # NoRequest /\ q.at \in PaysAt
    BY <1>1 DEF Pays, Busy
  <2> QED
    BY <1>1, <2>1, <2>2 DEF IInv, OnePays
<1> QED
  BY <1>2, <1>3

-----------------------------------------------------------------------------
(* Cash *)

Cash(A, day) ==
  {a \in A : Completed(a) /\ record[a].mode = "cash" /\ record[a].day = day}

LEMMA CashSizes ==
  ASSUME NEW A \in SUBSET Applications, NEW day
  PROVE  /\ CashOut(A, day) = Cardinality(Cash(A, day))
         /\ IsFiniteSet(Cash(A, day)) /\ CashOut(A, day) \in Nat
<1>1. Cash(A, day) \in SUBSET Applications
  BY DEF Cash
<1> QED
  BY <1>1, FS_Subset, FS_CardinalityType, ScheduleConstants DEF CashOut, Cash

LEMMA SummedSizes ==
  ASSUME NEW day
  PROVE  /\ IsFiniteSet(Summed(day)) /\ Cardinality(Summed(day)) \in Nat
         /\ IsFiniteSet(Requests) /\ Cardinality(Requests) \in Nat
         /\ Cardinality(Summed(day)) <= Cardinality(Requests)
<1>1. Summed(day) \in SUBSET Requests
  BY DEF Summed
<1> QED
  BY <1>1, FS_Subset, FS_CardinalityType, ScheduleConstants

\* A step after which no more cash is out: no other request has summed the day's, or
\* there was room for one when it did, or its sum failed and was not read.
LEMMA CashStays ==
  ASSUME IInv, ErrorsStay,
         \A day \in Days : CashOut(Applications, day)' = CashOut(Applications, day),
         NEW r \in Requests,
         \A day \in Days :
           \/ Summed(day)' \subseteq Summed(day)
           \/ SentLimits = {} => CashOut(Applications, day) + 1 <= CashLimit
           \/ Summed(day)' \subseteq Summed(day) \cup {r} /\ unread' = unread + 1
  PROVE  CashWithin'
<1> SUFFICES ASSUME SentLimits = {}, NEW day \in Days
             PROVE  CashOut(Applications, day)' + Cardinality(Summed(day)')
                      < CashLimit + Cardinality(Requests) + unread'
  BY DEF CashWithin
<1>1. CashOut(Applications, day) \in Nat /\ Cardinality(Summed(day)) \in Nat
      /\ CashLimit \in Nat /\ Cardinality(Requests) \in Nat
      /\ unread \in Nat /\ unread' \in Nat /\ unread' >= unread
  BY CashSizes, SummedSizes, ScheduleConstants DEF ErrorsStay
<1>2. CashOut(Applications, day) + Cardinality(Summed(day))
        < CashLimit + Cardinality(Requests) + unread
  BY DEF IInv, CashWithin
<1>3. CASE Summed(day)' \subseteq Summed(day)
  <2>1. Cardinality(Summed(day)') <= Cardinality(Summed(day)) /\ Cardinality(Summed(day)') \in Nat
    BY <1>3, SummedSizes, FS_Subset, FS_CardinalityType
  <2> QED
    BY <1>1, <1>2, <2>1
<1>4. CASE CashOut(Applications, day) + 1 <= CashLimit
  <2>1. Summed(day)' \in SUBSET Requests
    BY DEF Summed
  <2>2. Cardinality(Summed(day)') <= Cardinality(Requests) /\ Cardinality(Summed(day)') \in Nat
    BY <2>1, ScheduleConstants, FS_Subset, FS_CardinalityType
  <2> QED
    BY <1>1, <1>4, <2>2
<1>5. CASE Summed(day)' \subseteq Summed(day) \cup {r} /\ unread' = unread + 1
  <2>1. /\ IsFiniteSet(Summed(day) \cup {r})
        /\ Cardinality(Summed(day) \cup {r}) <= Cardinality(Summed(day)) + 1
        /\ Cardinality(Summed(day) \cup {r}) \in Nat
    <3>1. IsFiniteSet(Summed(day)) /\ Cardinality(Summed(day)) \in Nat
      BY SummedSizes
    <3>2. IsFiniteSet(Summed(day) \cup {r})
      BY <3>1, FS_AddElement
    <3>3. CASE r \in Summed(day)
      <4>1. Summed(day) \cup {r} = Summed(day)
        BY <3>3
      <4> QED
        BY <3>1, <4>1
    <3>4. CASE r \notin Summed(day)
      <4>1. Cardinality(Summed(day) \cup {r}) = Cardinality(Summed(day)) + 1
        BY <3>1, <3>4, FS_AddElement
      <4> QED
        BY <3>1, <3>2, <4>1
    <3> QED
      BY <3>3, <3>4
  <2>2. Cardinality(Summed(day)') <= Cardinality(Summed(day) \cup {r})
        /\ Cardinality(Summed(day)') \in Nat
    BY <1>5, <2>1, FS_Subset, FS_CardinalityType
  <2> QED
    BY <1>1, <1>2, <1>5, <2>1, <2>2
<1> QED
  BY <1>3, <1>4, <1>5

\* The record is as completed as before, and the request does not go on to sum.
LEMMA StepCash ==
  ASSUME IInv, NEW r \in Requests, NEW q \in Request \cup {NoRequest}, Becomes(r, q),
         RecordsStay(record, record'), ErrorsStay,
         \A a \in Applications : Completed(a)' => Completed(a),
         q # NoRequest /\ q.at \in {"existing", "write"} =>
           /\ Busy(r) /\ req[r].at \in {"existing", "write"}
           /\ req[r].mode = q.mode /\ req[r].day = q.day /\ req[r].app = q.app
  PROVE  CashWithin'
<1>0. TypeOK
  BY DEF IInv
<1>1. req'[r] = q /\ \A s \in Requests : s # r => req'[s] = req[s]
  BY <1>0, RequestBecomes
<1>2. \A a \in Applications : Completed(a) => Completed(a)' /\ record'[a] = record[a]
  BY DEF RecordsStay, Completed
<1>3. \A day \in Days : CashOut(Applications, day)' = CashOut(Applications, day)
  <2> SUFFICES ASSUME NEW day \in Days
               PROVE  CashOut(Applications, day)' = CashOut(Applications, day)
    OBVIOUS
  <2>1. Cash(Applications, day)' = Cash(Applications, day)
    BY <1>2 DEF Cash
  <2> QED
    BY <2>1 DEF CashOut, Cash
<1>4. \A s \in Requests : Busy(s) /\ req[s].at \in {"existing", "write"} => req[s].app \in Applications
  BY <1>0, BusyRequest, KindsOfRequest DEF Execution
<1>5. \A day \in Days : Summed(day)' \subseteq Summed(day)
  BY <1>1, <1>2, <1>4 DEF Summed, Busy
<1> QED
  BY <1>3, <1>5, CashStays

-----------------------------------------------------------------------------
(* Tables *)

TablesAreFine ==
  ChecksDone /\ Rises /\ PaidOutStays /\ ScheduleMatches /\ PaidHasSchedule

\* A step that leaves records and schedules alone, and does not end a payout silently.
LEMMA StepTables ==
  ASSUME IInv, NEW r \in Requests, NEW q, Becomes(r, q),
         record' = record, schedule' = schedule, lost' = lost \/ lost' > 0,
         Pays(r) => lost' > 0
  PROVE  TablesAreFine'
<1>1. ChecksDone' /\ Rises' /\ PaidOutStays' /\ ScheduleMatches'
  BY DEF IInv, ChecksDone, Rises, PaidOutStays, ScheduleMatches, Completed
<1>2. PaidHasSchedule'
  <2> SUFFICES ASSUME lost' = 0, NEW a \in Applications, Completed(a), ~Paying(a)'
               PROVE  schedule[a] # None
    BY DEF PaidHasSchedule, Completed
  <2>1. \A s \in Requests : s # r => req'[s] = req[s]
    BY RequestBecomes DEF IInv
  <2>2. ~Paying(a)
    BY <2>1 DEF Paying, Pays, PaysAt, Busy
  <2> QED
    BY <2>2 DEF IInv, PaidHasSchedule
<1> QED
  BY <1>1, <1>2 DEF TablesAreFine

LEMMA NothingRises ==
  /\ record' = record => RecordsStay(record, record')
  /\ schedule' = schedule => RowsRise(schedule, schedule')
BY DEF RecordsStay, RowsRise

\* A request that only reads, or writes another table, or is lost.
LEMMA QuietStep ==
  ASSUME IInv, NEW r \in Requests, NEW q \in Request \cup {NoRequest}, Becomes(r, q),
         record' = record, schedule' = schedule, lost' = lost \/ lost' > 0, ErrorsStay,
         Pays(r) => lost' > 0,
         q # NoRequest => Fine(q, record, schedule, unread') /\ q.at \notin PaysAt
  PROVE  RequestsAreFine' /\ OnePays' /\ TablesAreFine'
BY StepRequests, StepTables, NothingRises

LEMMA QuietCash ==
  ASSUME IInv, NEW r \in Requests, NEW q \in Request \cup {NoRequest}, Becomes(r, q),
         record' = record, ErrorsStay,
         q # NoRequest /\ q.at \in {"existing", "write"} =>
           /\ Busy(r) /\ req[r].at \in {"existing", "write"}
           /\ req[r].mode = q.mode /\ req[r].day = q.day /\ req[r].app = q.app
  PROVE  CashWithin'
<1>1. \A a \in Applications : Completed(a)' => Completed(a)
  BY DEF Completed
<1> QED
  BY <1>1, StepCash, NothingRises

LEMMA ApprovedStays ==
  ASSUME IInv, reschedule' = reschedule, RowsRise(schedule, schedule'), ErrorsStay
  PROVE  ApprovedIsMoved'
<1> SUFFICES ASSUME unread' = 0,
                    NEW x \in Reschedules, reschedule[x] = "approved", LoanOf[x] \in PaidOut,
                    NEW i \in 1..Shift
             PROVE  schedule'[LoanOf[x]].due[i] > i
  BY DEF ApprovedIsMoved
<1>1. LoanOf[x] \in Applications /\ schedule[LoanOf[x]] # None /\ i \in 1..Rows
  BY ScheduleConstants DEF IInv, PaidOutStays
<1>2. schedule[LoanOf[x]].due[i] > i
  BY DEF IInv, ApprovedIsMoved, ErrorsStay
<1> QED
  BY <1>1, <1>2 DEF RowsRise

-----------------------------------------------------------------------------
(* The beginning *)

LEMMA Initially == Init => IInv
<1> SUFFICES ASSUME Init PROVE IInv
  OBVIOUS
<1>0. PICK day \in Days :
        /\ app = [a \in Applications |-> "approved"]
        /\ record = [a \in Applications |->
             IF a \in PaidOut
             THEN [status |-> "completed", checks |-> "done", mode |-> "transfer", day |-> day]
             ELSE None]
        /\ schedule = [a \in Applications |->
             IF a \in PaidOut THEN [day |-> day, due |-> Weekly] ELSE None]
        /\ reschedule = [x \in Reschedules |-> "none"]
        /\ lost = 0 /\ unread = 0
        /\ req = [r \in Requests |-> NoRequest]
  BY DEF Init
<1>1. \A r \in Requests : ~Busy(r)
  BY <1>0 DEF Busy
<1>2. Weekly \in [1..Rows -> 1..MaxWeek] /\ \A i \in 1..Rows : Weekly[i] = i
  BY ScheduleConstants DEF Weekly
<1>3. /\ [status |-> "completed", checks |-> "done", mode |-> "transfer", day |-> day] \in Record
      /\ [day |-> day, due |-> Weekly] \in Schedule
  BY <1>2 DEF Record, Schedule, Modes
<1>4. TypeOK
  BY <1>0, <1>3, ScheduleConstants DEF TypeOK
<1>5. /\ \A a \in PaidOut : a \in Applications /\ Completed(a) /\ record[a].checks = "done"
           /\ record[a].mode = "transfer" /\ record[a].day = day
           /\ schedule[a] # None /\ schedule[a].day = day /\ schedule[a].due = Weekly
      /\ \A a \in Applications \ PaidOut : record[a] = None /\ schedule[a] = None
  BY <1>0, <1>3, ScheduleIsSome, ScheduleConstants DEF Completed
<1>6. RequestsAreFine /\ OnePays
  BY <1>1 DEF RequestsAreFine, OnePays, Pays
<1>7. ChecksDone /\ Rises /\ PaidOutStays /\ ScheduleMatches /\ PaidHasSchedule
  <2>0. PaidOutStays
    BY <1>5 DEF PaidOutStays
  <2>1. Rises
    <3> SUFFICES ASSUME NEW a \in Applications, schedule[a] # None, NEW i \in 1..Rows
                 PROVE  schedule[a].due[i] >= i
      BY DEF Rises
    <3>1. schedule[a].due = Weekly
      BY <1>5
    <3>2. schedule[a].due[i] = i /\ i \in Int
      BY <1>2, <3>1, ScheduleConstants
    <3> QED
      BY <3>2
  <2>2. \A a \in Applications : Completed(a) <=> a \in PaidOut
    BY <1>5 DEF Completed
  <2>3. ChecksDone /\ PaidHasSchedule
    BY <1>5, <2>2 DEF ChecksDone, PaidHasSchedule
  <2>4. ScheduleMatches
    BY <1>5, <2>2 DEF ScheduleMatches
  <2> QED
    BY <2>0, <2>1, <2>3, <2>4
<1>8. ApprovedIsMoved
  BY <1>0 DEF ApprovedIsMoved
<1>9. CashWithin
  <2> SUFFICES ASSUME NEW d \in Days
               PROVE  CashOut(Applications, d) + Cardinality(Summed(d))
                        < CashLimit + Cardinality(Requests) + unread
    BY DEF CashWithin
  <2>1. Cash(Applications, d) = {} /\ Summed(d) = {}
    BY <1>1, <1>5 DEF Cash, Summed, Completed
  <2>2. CashOut(Applications, d) = 0 /\ Cardinality(Summed(d)) = 0
    BY <2>1, CashSizes, FS_EmptySet
  <2>3. Cardinality(Requests) \in Nat /\ Cardinality(Requests) # 0
    BY ScheduleConstants, SummedSizes, FS_EmptySet
  <2> QED
    BY <1>0, <2>2, <2>3, ScheduleConstants
<1> QED
  BY <1>4, <1>6, <1>7, <1>8, <1>9 DEF IInv

-----------------------------------------------------------------------------
(* The steps *)

\* What every step leaves as the step itself says.
LEMMA Assembled ==
  ASSUME TypeOK', RequestsAreFine', OnePays', TablesAreFine', ApprovedIsMoved', CashWithin'
  PROVE  IInv'
BY DEF IInv, TablesAreFine

LEMMA PrepareKeeps ==
  ASSUME IInv, NEW r \in Requests, NEW ok \in BOOLEAN, NEW a \in Applications, NEW checks \in {"open", "done"},
         Prepare(r, a, checks, ok)
  PROVE  IInv'
<1>u. ErrorsStay /\ unread' \in 0..MaxLosses /\ (~ok => unread' = unread + 1)
  BY AnswersCount DEF IInv, Prepare
<1>1. PICK q \in Preparation :
        /\ Becomes(r, q) /\ q.at = "prepare" /\ q.app = a /\ (q.found => record[a] # None)
  <2> DEFINE found == ok /\ record[a] # None
             q == [at |-> "prepare", app |-> a, found |-> found, checks |-> checks]
  <2>1. q.at = "prepare" /\ q.app = a /\ (q.found => found)
    OBVIOUS
  <2>2. found \in BOOLEAN
    OBVIOUS
  <2>3. Becomes(r, q)
    BY DEF Prepare, Starts
  <2> HIDE DEF found
  <2>4. q \in Preparation
    BY <2>2 DEF Preparation
  <2> QED
    BY <2>1, <2>3, <2>4 DEF found
<1>2. UNCHANGED <<app, record, schedule, reschedule, lost>> /\ ~Busy(r) /\ q \in Request
  BY DEF Prepare, Starts, Request
<1>3. Fine(q, record, schedule, unread')
  BY <1>1 DEF Fine, FoundIsThere, PaysOnce, PaysAt, MovesRows, RulesMoved
<1>4. TypeOK'
  BY <1>u, <1>1, <1>2 DEF IInv, TypeOK, Becomes
<1>5. RequestsAreFine' /\ OnePays' /\ TablesAreFine'
  BY <1>u, <1>1, <1>2, <1>3, QuietStep DEF Pays, PaysAt
<1>6. CashWithin' /\ ApprovedIsMoved'
  BY <1>u, <1>1, <1>2, QuietCash, ApprovedStays, NothingRises
<1> QED
  BY <1>4, <1>5, <1>6, Assembled

LEMMA SavePreparationKeeps ==
  ASSUME IInv, NEW r \in Requests, SavePreparation(r)
  PROVE  IInv'
<1>u. ErrorsStay /\ unread' \in 0..MaxLosses
  BY NoErrorStays DEF IInv, TypeOK, SavePreparation
<1> DEFINE q == req[r]
<1>0. /\ TypeOK /\ Busy(r) /\ q.at = "prepare" /\ q \in Preparation /\ q.app \in Applications
      /\ q.checks \in {"open", "done"} /\ Becomes(r, NoRequest)
      /\ UNCHANGED <<app, schedule, reschedule, lost, unread>>
  BY BusyRequest, KindsOfRequest DEF IInv, SavePreparation, At, Ends, Preparation
<1>1. q.found => record[q.app] # None /\ record[q.app] \in Record
  BY <1>0, ScheduleIsSome DEF IInv, RequestsAreFine, Fine, FoundIsThere
<1>2. record' \in [Applications -> Record \cup {None}] /\ RecordsStay(record, record')
      /\ \A a \in Applications :
           Completed(a)' => Completed(a)
  <2>1. CASE /\ ~q.found /\ record[q.app] = None
             /\ record' = [record EXCEPT ![q.app] =
                  [status |-> "pending", checks |-> q.checks, mode |-> "none", day |-> None]]
    <3>1. [status |-> "pending", checks |-> q.checks, mode |-> "none", day |-> None] \in Record
      BY <1>0 DEF Record
    <3> QED
      BY <1>0, <2>1, <3>1, ScheduleIsSome DEF TypeOK, RecordsStay, Completed
  <2>2. CASE /\ q.found /\ (Completed(q.app) => q.checks = "done")
             /\ record' = [record EXCEPT ![q.app].checks = q.checks]
    <3>1. /\ record'[q.app] = [record[q.app] EXCEPT !.checks = q.checks]
          /\ record'[q.app] \in Record /\ record'[q.app].status = record[q.app].status
      BY <1>0, <1>1, <2>2 DEF TypeOK, Record
    <3>2. Completed(q.app) => record'[q.app] = record[q.app]
      BY <1>0, <1>1, <2>2, <3>1 DEF IInv, ChecksDone, Record
    <3>3. \A a \in Applications : a # q.app => record'[a] = record[a]
      BY <1>0, <2>2 DEF TypeOK
    <3>4. record' \in [Applications -> Record \cup {None}]
      BY <1>0, <2>2, <3>1, <3>3 DEF TypeOK
    <3> QED
      BY <1>1, <2>2, <3>1, <3>2, <3>3, <3>4, ScheduleIsSome DEF RecordsStay, Completed
  <2>3. CASE record' = record
    BY <1>0, <2>3 DEF TypeOK, RecordsStay, Completed
  <2> QED
    BY <2>1, <2>2, <2>3 DEF SavePreparation
<1>3. TypeOK'
  BY <1>u, <1>0, <1>2 DEF TypeOK, Becomes
<1>4. RequestsAreFine' /\ OnePays'
  BY <1>u, <1>0, <1>2, StepRequests, NothingRises
<1>5. CashWithin'
  BY <1>u, <1>0, <1>2, StepCash
<1>6. ApprovedIsMoved'
  BY <1>u, <1>0, ApprovedStays, NothingRises
<1>7. TablesAreFine'
  <2>1. \A a \in Applications : (Completed(a)' <=> Completed(a)) /\ (Completed(a) => record'[a] = record[a])
    BY <1>2 DEF RecordsStay, Completed
  <2>2. ChecksDone' /\ Rises' /\ PaidOutStays' /\ ScheduleMatches'
    BY <1>0, <2>1 DEF IInv, ChecksDone, Rises, PaidOutStays, ScheduleMatches
  <2>3. \A a \in Applications : Paying(a) => Paying(a)'
    BY <1>0, RequestBecomes DEF Paying, Busy
  <2>4. PaidHasSchedule'
    BY <1>0, <2>1, <2>3 DEF IInv, PaidHasSchedule
  <2> QED
    BY <2>2, <2>4 DEF TablesAreFine
<1> QED
  BY <1>3, <1>4, <1>5, <1>6, <1>7, Assembled

LEMMA ExecuteKeeps ==
  ASSUME IInv, NEW r \in Requests, NEW ok \in BOOLEAN, NEW a \in Applications,
         NEW mode \in Modes, NEW day \in Days, NEW limit \in {CashLimit} \cup SentLimits,
         Execute(r, a, mode, day, limit, ok)
  PROVE  IInv'
<1>u. ErrorsStay /\ unread' \in 0..MaxLosses /\ (~ok => unread' = unread + 1)
  BY AnswersCount DEF IInv, Execute
<1>1. PICK q \in Execution :
        /\ Becomes(r, q) /\ q.at = "existing" /\ q.app = a /\ q.mode = mode /\ q.day = day
  <2> DEFINE q == [at |-> "existing", app |-> a, found |-> FALSE, mode |-> mode, day |-> day]
  <2>1. q \in Execution /\ q.at = "existing" /\ q.app = a /\ q.mode = mode /\ q.day = day
    BY DEF Execution
  <2>2. Becomes(r, q)
    BY DEF Execute, Starts
  <2> QED
    BY <2>1, <2>2
<1>2. UNCHANGED <<app, record, schedule, reschedule, lost>> /\ ~Busy(r) /\ q \in Request /\ TypeOK
  BY DEF Execute, Starts, Request, IInv
<1>3. Fine(q, record, schedule, unread')
  BY <1>1 DEF Fine, FoundIsThere, PaysOnce, PaysAt, MovesRows, RulesMoved
<1>4. TypeOK'
  BY <1>u, <1>1, <1>2 DEF TypeOK, Becomes
<1>5. RequestsAreFine' /\ OnePays' /\ TablesAreFine'
  BY <1>u, <1>1, <1>2, <1>3, QuietStep DEF Pays, PaysAt
<1>6. ApprovedIsMoved'
  BY <1>u, <1>2, ApprovedStays, NothingRises
<1>7. CashWithin'
  <2>1. \A d \in Days : CashOut(Applications, d)' = CashOut(Applications, d)
    BY <1>2 DEF CashOut, Completed
  <2>2. req'[r] = q /\ \A s \in Requests : s # r => req'[s] = req[s]
    BY <1>1, <1>2, RequestBecomes
  <2>3. \A d \in Days, s \in Requests : s \in Summed(d)' =>
          s \in Summed(d) \/ (s = r /\ mode = "cash" /\ d = day /\ ~Completed(a))
    BY <1>1, <1>2, <2>2 DEF Summed, Busy, Completed
  <2>4. ok /\ SentLimits = {} /\ mode = "cash" /\ ~Completed(a)
          => CashOut(Applications, day) + 1 <= CashLimit
    <3> SUFFICES ASSUME ok, SentLimits = {}, mode = "cash", ~Completed(a)
                 PROVE  CashOut(Applications, day) + 1 <= CashLimit
      OBVIOUS
    <3>1. CashOut(Applications \ {a}, day) + 1 <= CashLimit
      BY DEF Execute
    <3>2. Cash(Applications \ {a}, day) = Cash(Applications, day)
      BY DEF Cash
    <3> QED
      BY <3>1, <3>2, CashSizes
  <2>5. \A d \in Days :
          \/ Summed(d)' \subseteq Summed(d)
          \/ SentLimits = {} => CashOut(Applications, d) + 1 <= CashLimit
          \/ Summed(d)' \subseteq Summed(d) \cup {r} /\ unread' = unread + 1
    <3>a. \A d \in Days : Summed(d)' \subseteq Summed(d) \cup {r}
      <4> SUFFICES ASSUME NEW d \in Days, NEW s \in Requests, s \in Summed(d)'
                   PROVE  s \in Summed(d) \cup {r}
        BY DEF Summed
      <4> QED
        BY <2>3
    <3> SUFFICES ASSUME NEW d \in Days, ~(Summed(d)' \subseteq Summed(d)), SentLimits = {}, ok
                 PROVE  CashOut(Applications, d) + 1 <= CashLimit
      BY <1>u, <3>a
    <3>1. PICK s \in Summed(d)' : s \notin Summed(d)
      OBVIOUS
    <3>2. s \in Requests
      BY DEF Summed
    <3>3. mode = "cash" /\ d = day /\ ~Completed(a)
      BY <2>3, <3>1, <3>2
    <3> QED
      BY <2>4, <3>3
  <2> QED
    BY <1>u, <2>1, <2>5, CashStays
<1> QED
  BY <1>4, <1>5, <1>6, <1>7, Assembled

LEMMA FindRecordKeeps ==
  ASSUME IInv, NEW r \in Requests, NEW ok \in BOOLEAN, FindRecord(r, ok)
  PROVE  IInv'
<1>u. ErrorsStay /\ unread' \in 0..MaxLosses /\ (~ok => unread' = unread + 1)
  BY AnswersCount DEF IInv, FindRecord
<1> DEFINE p == req[r]
<1>1. /\ UNCHANGED <<app, record, schedule, reschedule, lost>> /\ TypeOK
      /\ Busy(r) /\ p.at = "existing" /\ p \in Execution
  BY BusyRequest, KindsOfRequest DEF FindRecord, At, IInv
<1>2. PICK q \in Execution \cup {NoRequest} :
        /\ Becomes(r, q)
        /\ q # NoRequest =>
             q.at = "write" /\ q.app = p.app /\ q.mode = p.mode /\ q.day = p.day
  <2>1. CASE Ends(r)
    BY <2>1 DEF Ends
  <2>2. CASE Becomes(r, [p EXCEPT !.at = "write", !.found = ok /\ record[p.app] # None])
    <3> DEFINE found == ok /\ record[p.app] # None
               q == [p EXCEPT !.at = "write", !.found = found]
    <3>1. found \in BOOLEAN
      OBVIOUS
    <3> HIDE DEF found
    <3>2. q \in Execution /\ q.at = "write" /\ q.app = p.app /\ q.mode = p.mode /\ q.day = p.day
      BY <1>1, <3>1 DEF Execution
    <3> QED
      BY <2>2, <3>2 DEF found
  <2> QED
    BY <2>1, <2>2 DEF FindRecord
<1>3. q \in Request \cup {NoRequest}
  BY DEF Request
<1>4. q # NoRequest => Fine(q, record, schedule, unread') /\ q.at \notin PaysAt
  BY <1>2 DEF Fine, FoundIsThere, PaysOnce, PaysAt, MovesRows, RulesMoved
<1>5. TypeOK'
  BY <1>u, <1>1, <1>2, <1>3 DEF TypeOK, Becomes
<1>6. RequestsAreFine' /\ OnePays' /\ TablesAreFine'
  BY <1>u, <1>1, <1>2, <1>3, <1>4, QuietStep DEF Pays, PaysAt
<1>7. CashWithin' /\ ApprovedIsMoved'
  BY <1>u, <1>1, <1>2, <1>3, QuietCash, ApprovedStays, NothingRises
<1> QED
  BY <1>5, <1>6, <1>7, Assembled

\* The requests that are between the record and its schedule, but for r.
LEMMA PayingStays ==
  ASSUME TypeOK, NEW r \in Requests, NEW q, Becomes(r, q)
  PROVE  /\ \A b : Paying(b) /\ (Pays(r) => req[r].app # b) => Paying(b)'
         /\ \A b : q # NoRequest /\ q.at \in PaysAt /\ q.app = b => Paying(b)'
<1>1. req'[r] = q /\ \A s \in Requests : s # r => req'[s] = req[s]
  BY RequestBecomes
<1>2. ASSUME NEW b, Paying(b), Pays(r) => req[r].app # b
      PROVE  Paying(b)'
  <2>1. PICK s \in Requests : Busy(s) /\ req[s].at \in {"delete", "insert"} /\ req[s].app = b
    BY <1>2 DEF Paying
  <2>2. s # r
    BY <1>2, <2>1 DEF Pays, PaysAt
  <2> QED
    BY <1>1, <2>1, <2>2 DEF Paying, Busy
<1>3. ASSUME NEW b, q # NoRequest, q.at \in PaysAt, q.app = b
      PROVE  Paying(b)'
  BY <1>1, <1>3 DEF Paying, Busy, PaysAt
<1> QED
  BY <1>2, <1>3

LEMMA WriteRecordKeeps ==
  ASSUME IInv, NEW r \in Requests, WriteRecord(r)
  PROVE  IInv'
<1>u. ErrorsStay /\ unread' \in 0..MaxLosses
  BY NoErrorStays DEF IInv, TypeOK, WriteRecord
<1> DEFINE p == req[r]
<1>0. PICK a \in Applications : a = p.app
  BY BusyRequest, KindsOfRequest DEF WriteRecord, At, IInv, Execution
<1>1. /\ UNCHANGED <<app, schedule, reschedule, lost, unread>> /\ TypeOK
      /\ Busy(r) /\ p.at = "write" /\ p \in Execution /\ p.app = a
      /\ p.mode \in Modes /\ p.day \in Days
  BY <1>0, BusyRequest, KindsOfRequest DEF WriteRecord, At, IInv, Execution
<1>2. ApprovedIsMoved'
  BY <1>u, <1>1, ApprovedStays, NothingRises
<1>3. CASE Ends(r) /\ record' = record
  <2>1. TypeOK'
    BY <1>1, <1>3 DEF TypeOK, Ends, Becomes
  <2>2. RequestsAreFine' /\ OnePays' /\ TablesAreFine'
    BY <1>u, <1>1, <1>3, QuietStep DEF Ends, Pays, PaysAt
  <2>3. CashWithin'
    BY <1>u, <1>3, QuietCash DEF Ends
  <2> QED
    BY <1>2, <2>1, <2>2, <2>3, Assembled
<1>4. CASE record[a] = None /\ Goes(r, "delete")
           /\ record' = [record EXCEPT ![a] =
                [status |-> "completed", checks |-> "done", mode |-> p.mode, day |-> p.day]]
  <2>1. PICK q \in Execution :
          Becomes(r, q) /\ q.at = "delete" /\ q.app = a /\ q.day = p.day
    <3> DEFINE q == [p EXCEPT !.at = "delete"]
    <3>1. q \in Execution /\ q.at = "delete" /\ q.app = a /\ q.day = p.day
      BY <1>1 DEF Execution
    <3>2. Becomes(r, q)
      BY <1>4 DEF Goes
    <3> QED
      BY <3>1, <3>2
  <2>2. q \in Request /\ q # NoRequest
    BY RequestIsSome DEF Request
  <2>3. /\ record'[a] = [status |-> "completed", checks |-> "done", mode |-> p.mode, day |-> p.day]
        /\ record'[a] \in Record /\ record'[a] # None
        /\ record'[a].status = "completed" /\ record'[a].checks = "done"
        /\ record'[a].mode = p.mode /\ record'[a].day = p.day
        /\ \A b \in Applications : b # a => record'[b] = record[b]
        /\ record' \in [Applications -> Record \cup {None}]
    <3>1. [status |-> "completed", checks |-> "done", mode |-> p.mode, day |-> p.day] \in Record
      BY <1>1 DEF Record
    <3> QED
      BY <1>1, <1>4, <3>1, ScheduleIsSome DEF TypeOK
  <2>4. /\ RecordsStay(record, record') /\ RowsRise(schedule, schedule')
        /\ Completed(a)' /\ ~Completed(a)
        /\ \A b \in Applications : b # a => (Completed(b)' <=> Completed(b))
    BY <1>1, <1>4, <2>3, NothingRises DEF RecordsStay, Completed
  <2>5. schedule[a] = None
    BY <1>1, <2>4 DEF IInv, ScheduleMatches
  <2>6. Fine(q, record', schedule', unread')
    BY <1>1, <2>1, <2>3, <2>5 DEF Fine, FoundIsThere, PaysOnce, PaysAt, MovesRows, RulesMoved
  <2>7. \A s \in Requests : Pays(s) => req[s].app # a
    BY <1>4 DEF IInv, RequestsAreFine, Fine, PaysOnce, Pays
  <2>8. RequestsAreFine' /\ OnePays'
    BY <1>u, <1>1, <2>1, <2>2, <2>4, <2>6, <2>7, StepRequests
  <2>9. TypeOK'
    BY <1>1, <2>1, <2>2, <2>3 DEF TypeOK, Becomes
  <2>10. TablesAreFine'
    <3>1. ChecksDone' /\ Rises' /\ PaidOutStays' /\ ScheduleMatches'
      BY <1>1, <2>3, <2>4, <2>5 DEF IInv, ChecksDone, Rises, PaidOutStays, ScheduleMatches
    <3>2. PaidHasSchedule'
      <4> SUFFICES ASSUME lost' = 0, NEW b \in Applications, Completed(b)', ~Paying(b)'
                   PROVE  schedule'[b] # None
        BY DEF PaidHasSchedule
      <4>1. Paying(a)'
        BY <1>1, <2>1, <2>2, PayingStays DEF PaysAt
      <4>2. b # a /\ Completed(b)
        BY <2>4, <4>1
      <4>3. ~Paying(b)
        BY <1>1, <2>1, PayingStays DEF Pays, PaysAt
      <4> QED
        BY <1>1, <4>2, <4>3 DEF IInv, PaidHasSchedule
    <3> QED
      BY <3>1, <3>2 DEF TablesAreFine
  <2>11. CashWithin'
    <3> SUFFICES ASSUME SentLimits = {}, NEW d \in Days
                 PROVE  CashOut(Applications, d)' + Cardinality(Summed(d)')
                          < CashLimit + Cardinality(Requests) + unread
      BY <1>1 DEF CashWithin
    <3>1. /\ CashOut(Applications, d) + Cardinality(Summed(d))
               < CashLimit + Cardinality(Requests) + unread
          /\ unread \in Nat
      BY <1>1, ScheduleConstants DEF IInv, CashWithin, TypeOK
    <3>2. req'[r] = q /\ \A s \in Requests : s # r => req'[s] = req[s]
      BY <1>1, <2>1, RequestBecomes
    <3>3. \A s \in Requests : Busy(s) /\ req[s].at \in {"existing", "write"} => req[s].app \in Applications
      BY <1>1, BusyRequest, KindsOfRequest DEF Execution
    <3>4. Summed(d)' \subseteq Summed(d) \ {r}
      <4> SUFFICES ASSUME NEW s \in Requests, s \in Summed(d)' PROVE s \in Summed(d) \ {r}
        BY DEF Summed
      <4>1. s # r
        BY <2>1, <3>2 DEF Summed
      <4>2. Busy(s) /\ req[s].at \in {"existing", "write"} /\ req[s].mode = "cash" /\ req[s].day = d
        BY <3>2, <4>1 DEF Summed, Busy
      <4>3. PICK b \in Applications : b = req[s].app
        BY <3>3, <4>2
      <4>4. ~(Completed(b)')
        BY <3>2, <4>1, <4>3 DEF Summed, Completed
      <4>5. ~Completed(b)
        BY <2>4, <4>4
      <4> QED
        BY <4>1, <4>2, <4>3, <4>5 DEF Summed
    <3>5. /\ Cardinality(Summed(d)') \in Nat /\ Cardinality(Summed(d)') <= Cardinality(Summed(d) \ {r})
          /\ Cardinality(Summed(d) \ {r}) \in Nat
      BY <3>4, SummedSizes, FS_Subset, FS_CardinalityType
    <3>6. /\ CashOut(Applications, d) = Cardinality(Cash(Applications, d))
          /\ IsFiniteSet(Cash(Applications, d)) /\ CashOut(Applications, d) \in Nat
      BY CashSizes
    <3>7. CashOut(Applications, d)' = Cardinality(Cash(Applications, d)')
      BY DEF CashOut, Cash
    <3>8. CASE p.mode = "cash" /\ p.day = d
      <4>1. Cash(Applications, d)' = Cash(Applications, d) \cup {a} /\ a \notin Cash(Applications, d)
        BY <1>1, <2>3, <2>4, <3>8 DEF Cash
      <4>2. CashOut(Applications, d)' = CashOut(Applications, d) + 1
        BY <3>6, <3>7, <4>1, FS_AddElement
      <4>3. r \in Summed(d)
        BY <1>1, <2>4, <3>8 DEF Summed
      <4>4. Cardinality(Summed(d) \ {r}) = Cardinality(Summed(d)) - 1
        BY <4>3, SummedSizes, FS_RemoveElement
      <4> QED
        BY <3>1, <3>5, <3>6, <4>2, <4>4, SummedSizes, ScheduleConstants
    <3>9. CASE ~(p.mode = "cash" /\ p.day = d)
      <4>1. Cash(Applications, d)' = Cash(Applications, d)
        BY <2>3, <2>4, <3>9 DEF Cash
      <4>2. Cardinality(Summed(d) \ {r}) <= Cardinality(Summed(d))
        BY SummedSizes, FS_Subset
      <4> QED
        BY <3>1, <3>5, <3>6, <3>7, <4>1, <4>2, SummedSizes, ScheduleConstants
    <3> QED
      BY <3>8, <3>9
  <2> QED
    BY <1>2, <2>8, <2>9, <2>10, <2>11, Assembled
<1> QED
  BY <1>0, <1>3, <1>4 DEF WriteRecord

LEMMA DeleteScheduleKeeps ==
  ASSUME IInv, NEW r \in Requests, NEW ok \in BOOLEAN, DeleteSchedule(r, ok)
  PROVE  IInv'
<1>u. ErrorsStay /\ unread' \in 0..MaxLosses /\ (~ok => unread' = unread + 1)
  BY AnswersCount DEF IInv, DeleteSchedule
<1> DEFINE p == req[r]
           a == p.app
<1>1. /\ UNCHANGED <<app, record, reschedule, lost>> /\ TypeOK
      /\ Pays(r) /\ Busy(r) /\ p.at = "delete" /\ p \in Execution /\ a \in Applications
  BY BusyRequest, KindsOfRequest DEF DeleteSchedule, At, IInv, Execution, Pays, PaysAt
<1>2. Fine(p, record, schedule, unread)
  BY <1>1 DEF IInv, RequestsAreFine
<1>3. schedule[a] = None
  BY <1>1, <1>2 DEF Fine, PaysOnce, PaysAt
<1>4. schedule' = schedule
  BY <1>1, <1>3 DEF TypeOK, DeleteSchedule
<1>5. PICK q \in Execution : Becomes(r, q) /\ q.at = "insert" /\ q.app = a /\ q.day = p.day
  <2> DEFINE q == [p EXCEPT !.at = "insert"]
  <2>1. q \in Execution /\ q.at = "insert" /\ q.app = a /\ q.day = p.day
    BY <1>1 DEF Execution
  <2>2. Becomes(r, q)
    BY DEF DeleteSchedule, Goes
  <2> QED
    BY <2>1, <2>2
<1>6. q \in Request /\ q # NoRequest
  BY RequestIsSome DEF Request
<1>7. Fine(q, record, schedule, unread')
  BY <1>1, <1>2, <1>5 DEF Fine, FoundIsThere, PaysOnce, PaysAt, MovesRows, RulesMoved
<1>8. TypeOK'
  BY <1>u, <1>1, <1>4, <1>5, <1>6 DEF TypeOK, Becomes
<1>9. \A s \in Requests : s # r /\ Pays(s) => req[s].app # a
  BY <1>1 DEF IInv, OnePays
<1>10. RequestsAreFine' /\ OnePays'
  BY <1>u, <1>1, <1>4, <1>5, <1>6, <1>7, <1>9, StepRequests, NothingRises
<1>11. TablesAreFine'
  <2>1. ChecksDone' /\ Rises' /\ PaidOutStays' /\ ScheduleMatches'
    BY <1>1, <1>4 DEF IInv, ChecksDone, Rises, PaidOutStays, ScheduleMatches, Completed
  <2>2. \A b : Paying(b) => Paying(b)'
    BY <1>1, <1>5, <1>6, PayingStays DEF PaysAt
  <2>3. PaidHasSchedule'
    BY <1>1, <1>4, <2>2 DEF IInv, PaidHasSchedule, Completed
  <2> QED
    BY <2>1, <2>3 DEF TablesAreFine
<1>12. CashWithin' /\ ApprovedIsMoved'
  BY <1>u, <1>1, <1>4, <1>5, <1>6, QuietCash, ApprovedStays, NothingRises
<1> QED
  BY <1>8, <1>10, <1>11, <1>12, Assembled

LEMMA InsertScheduleKeeps ==
  ASSUME IInv, NEW r \in Requests, InsertSchedule(r)
  PROVE  IInv'
<1>u. ErrorsStay /\ unread' \in 0..MaxLosses
  BY NoErrorStays DEF IInv, TypeOK, InsertSchedule
<1> DEFINE p == req[r]
           a == p.app
<1>1. /\ UNCHANGED <<app, record, reschedule, lost, unread>> /\ TypeOK
      /\ Pays(r) /\ Busy(r) /\ p.at = "insert" /\ p \in Execution /\ a \in Applications
      /\ p.day \in Days
  BY BusyRequest, KindsOfRequest DEF InsertSchedule, At, IInv, Execution, Pays, PaysAt
<1>2. Fine(p, record, schedule, unread)
  BY <1>1 DEF IInv, RequestsAreFine
<1>3. schedule[a] = None /\ Completed(a) /\ record[a].day = p.day
  BY <1>1, <1>2 DEF Fine, PaysOnce, PaysAt, Completed
<1>4. schedule' = [schedule EXCEPT ![a] = [day |-> p.day, due |-> Weekly]] /\ Goes(r, "mark")
  BY <1>3 DEF InsertSchedule
<1>5. Weekly \in [1..Rows -> 1..MaxWeek] /\ \A i \in 1..Rows : Weekly[i] = i /\ i \in Int
  BY ScheduleConstants DEF Weekly
<1>6. /\ schedule'[a] \in Schedule /\ schedule'[a] # None
      /\ schedule'[a].day = p.day /\ schedule'[a].due = Weekly
      /\ \A b \in Applications : b # a => schedule'[b] = schedule[b]
      /\ schedule' \in [Applications -> Schedule \cup {None}]
  <2>1. [day |-> p.day, due |-> Weekly] \in Schedule
    BY <1>1, <1>5 DEF Schedule
  <2> QED
    BY <1>1, <1>4, <2>1, ScheduleIsSome DEF TypeOK
<1>7. PICK q \in Execution : Becomes(r, q) /\ q.at = "mark"
  <2> DEFINE q == [p EXCEPT !.at = "mark"]
  <2>1. q \in Execution /\ q.at = "mark"
    BY <1>1 DEF Execution
  <2>2. Becomes(r, q)
    BY <1>4 DEF Goes
  <2> QED
    BY <2>1, <2>2
<1>8. q \in Request /\ q # NoRequest
  BY RequestIsSome DEF Request
<1>9. Fine(q, record', schedule', unread')
  BY <1>7 DEF Fine, FoundIsThere, PaysOnce, PaysAt, MovesRows, RulesMoved
<1>10. TypeOK'
  BY <1>u, <1>1, <1>6, <1>7, <1>8 DEF TypeOK, Becomes
<1>11. RowsRise(schedule, schedule') /\ RecordsStay(record, record')
  BY <1>1, <1>3, <1>6, NothingRises DEF RowsRise
<1>12. \A s \in Requests : s # r /\ Pays(s) => schedule'[req[s].app] = schedule[req[s].app]
  <2> SUFFICES ASSUME NEW s \in Requests, s # r, Pays(s)
               PROVE  schedule'[req[s].app] = schedule[req[s].app]
    OBVIOUS
  <2>1. req[s].app # a
    BY <1>1 DEF IInv, OnePays
  <2>2. req[s].app \in Applications
    BY <1>1, BusyRequest, KindsOfRequest DEF Pays, PaysAt, Execution
  <2> QED
    BY <1>6, <2>1, <2>2
<1>13. RequestsAreFine' /\ OnePays'
  BY <1>u, <1>7, <1>8, <1>9, <1>11, <1>12, StepRequests DEF PaysAt
<1>14. TablesAreFine'
  <2>1. ChecksDone' /\ PaidOutStays' /\ ScheduleMatches'
    BY <1>1, <1>3, <1>6, ScheduleConstants
    DEF IInv, ChecksDone, PaidOutStays, ScheduleMatches, Completed
  <2>2. Rises'
    <3> SUFFICES ASSUME NEW b \in Applications, schedule'[b] # None, NEW i \in 1..Rows
                 PROVE  schedule'[b].due[i] >= i
      BY DEF Rises
    <3>1. CASE b = a
      <4>1. schedule'[b].due[i] = i /\ i \in Int
        BY <1>5, <1>6, <3>1
      <4> QED
        BY <4>1
    <3>2. CASE b # a
      BY <1>6, <3>2 DEF IInv, Rises
    <3> QED
      BY <3>1, <3>2
  <2>3. \A b : Paying(b) /\ b # a => Paying(b)'
    BY <1>1, <1>7, PayingStays
  <2>4. PaidHasSchedule'
    BY <1>1, <1>6, <2>3 DEF IInv, PaidHasSchedule, Completed
  <2> QED
    BY <2>1, <2>2, <2>4 DEF TablesAreFine
<1>15. CashWithin' /\ ApprovedIsMoved'
  BY <1>u, <1>1, <1>7, <1>8, <1>11, QuietCash, ApprovedStays
<1> QED
  BY <1>10, <1>13, <1>14, <1>15, Assembled

LEMMA MarkDisbursedKeeps ==
  ASSUME IInv, NEW r \in Requests, MarkDisbursed(r)
  PROVE  IInv'
<1>u. ErrorsStay /\ unread' \in 0..MaxLosses
  BY NoErrorStays DEF IInv, TypeOK, MarkDisbursed
<1>1. /\ UNCHANGED <<record, schedule, reschedule, lost, unread>> /\ TypeOK
      /\ Busy(r) /\ req[r].at = "mark" /\ Becomes(r, NoRequest)
  BY DEF MarkDisbursed, At, Ends, IInv
<1>2. app' \in [Applications -> {"approved", "disbursed"}]
  BY <1>1 DEF MarkDisbursed, TypeOK
<1>3. TypeOK'
  BY <1>u, <1>1, <1>2 DEF TypeOK, Becomes
<1>4. RequestsAreFine' /\ OnePays' /\ TablesAreFine'
  BY <1>u, <1>1, QuietStep DEF Pays, PaysAt
<1>5. CashWithin' /\ ApprovedIsMoved'
  BY <1>u, <1>1, QuietCash, ApprovedStays, NothingRises
<1> QED
  BY <1>3, <1>4, <1>5, Assembled

LEMMA AskRescheduleKeeps ==
  ASSUME IInv, NEW r \in Requests, NEW ok \in BOOLEAN, NEW x \in Reschedules, AskReschedule(r, x, ok)
  PROVE  IInv'
<1>u. ErrorsStay /\ unread' \in 0..MaxLosses /\ (~ok => unread' = unread + 1)
  BY AnswersCount DEF IInv, AskReschedule
<1>1. PICK q \in Asking : Becomes(r, q) /\ q.at = "ask"
  <2> DEFINE q == [at |-> "ask", ask |-> x]
  <2>1. q \in Asking /\ q.at = "ask"
    BY DEF Asking
  <2>2. Becomes(r, q)
    BY DEF AskReschedule, Starts
  <2> QED
    BY <2>1, <2>2
<1>2. UNCHANGED <<app, record, schedule, reschedule, lost>> /\ ~Busy(r) /\ q \in Request /\ TypeOK
  BY DEF AskReschedule, Starts, Request, IInv
<1>3. Fine(q, record, schedule, unread')
  BY <1>1 DEF Fine, FoundIsThere, PaysOnce, PaysAt, MovesRows, RulesMoved
<1>4. TypeOK'
  BY <1>u, <1>1, <1>2 DEF TypeOK, Becomes
<1>5. RequestsAreFine' /\ OnePays' /\ TablesAreFine'
  BY <1>u, <1>1, <1>2, <1>3, QuietStep DEF Pays, PaysAt
<1>6. CashWithin' /\ ApprovedIsMoved'
  BY <1>u, <1>1, <1>2, QuietCash, ApprovedStays, NothingRises
<1> QED
  BY <1>4, <1>5, <1>6, Assembled

LEMMA SaveAskKeeps ==
  ASSUME IInv, NEW r \in Requests, SaveAsk(r)
  PROVE  IInv'
<1>u. ErrorsStay /\ unread' \in 0..MaxLosses
  BY NoErrorStays DEF IInv, TypeOK, SaveAsk
<1>1. /\ UNCHANGED <<app, record, schedule, lost, unread>> /\ TypeOK
      /\ Busy(r) /\ req[r].at = "ask" /\ Becomes(r, NoRequest)
      /\ reschedule' = [reschedule EXCEPT ![req[r].ask] = "pending"]
  BY DEF SaveAsk, At, Ends, IInv
<1>2. reschedule' \in [Reschedules -> {"none", "pending", "approved", "rejected"}]
  BY <1>1 DEF TypeOK
<1>3. TypeOK'
  BY <1>u, <1>1, <1>2 DEF TypeOK, Becomes
<1>4. RequestsAreFine' /\ OnePays' /\ TablesAreFine'
  BY <1>u, <1>1, QuietStep DEF Pays, PaysAt
<1>5. CashWithin'
  BY <1>u, <1>1, QuietCash
<1>6. \A x \in Reschedules : reschedule'[x] = "approved" => reschedule[x] = "approved"
  BY <1>1 DEF TypeOK
<1>7. ApprovedIsMoved'
  BY <1>u, <1>1, <1>6 DEF IInv, ApprovedIsMoved
<1> QED
  BY <1>3, <1>4, <1>5, <1>7, Assembled

LEMMA RuleKeeps ==
  ASSUME IInv, NEW r \in Requests, NEW ok \in BOOLEAN, NEW x \in Reschedules, NEW to \in {"approved", "rejected"},
         Rule(r, x, to, ok)
  PROVE  IInv'
<1>u. ErrorsStay /\ unread' \in 0..MaxLosses /\ (~ok => unread' = unread + 1)
  BY AnswersCount DEF IInv, Rule
<1>0. PICK a \in Applications : a = LoanOf[x]
  BY ScheduleConstants
<1>1. UNCHANGED <<app, record, schedule, reschedule, lost>> /\ ~Busy(r) /\ TypeOK
  BY DEF Rule, Starts, IInv
<1>2. PICK q \in Ruling :
        /\ Becomes(r, q)
        /\ \/ /\ q.at = "move" /\ q.ask = x /\ q.row = 1
              /\ schedule[a] # None /\ q.read = schedule[a].due
              /\ \A i \in 1..Rows : schedule[a].due[i] + Shift <= MaxWeek
           \/ q.at = "rule" /\ q.ask = x /\ (q.to = "approved" /\ ok => schedule[a] = None)
  <2>1. CASE to = "approved" /\ ok /\ schedule[a] # None
    <3> DEFINE q == [at |-> "move", ask |-> x, row |-> 1, read |-> schedule[a].due]
    <3>1. schedule[a].due \in [1..Rows -> 1..MaxWeek]
      BY <1>1, <2>1, ScheduleIsSome DEF Schedule
    <3>2. 1 \in 1..Rows
      BY ScheduleConstants
    <3>3. q \in Ruling
      BY <3>1, <3>2 DEF Ruling
    <3>4. Becomes(r, q) /\ \A i \in 1..Rows : schedule[a].due[i] + Shift <= MaxWeek
      BY <1>0, <2>1 DEF Rule, Starts
    <3> QED
      BY <2>1, <3>3, <3>4
  <2>2. CASE ~(to = "approved" /\ ok /\ schedule[a] # None)
    <3> DEFINE q == [at |-> "rule", ask |-> x, to |-> to]
    <3>1. q \in Ruling
      BY DEF Ruling
    <3>2. Becomes(r, q)
      BY <1>0, <2>2 DEF Rule, Starts
    <3> QED
      BY <2>2, <3>1, <3>2
  <2> QED
    BY <2>1, <2>2
<1>3. q \in Request
  BY DEF Request
<1>4. MovesRows(q, schedule, unread')
  <2> SUFFICES ASSUME q.at = "move" PROVE MovesRows(q, schedule, unread')
    BY DEF MovesRows
  <2>1. q.row = 1 /\ LoanOf[q.ask] = a /\ schedule[a] # None /\ q.read = schedule[a].due
        /\ \A i \in 1..Rows : schedule[a].due[i] + Shift <= MaxWeek
    BY <1>0, <1>2
  <2>2. \A i \in 1..Rows : schedule[a].due[i] >= i
    BY <2>1 DEF IInv, Rises
  <2>3. 1 <= Shift /\ \A i \in 1..Rows : ~(i < 1)
    BY ScheduleConstants
  <2> QED
    BY <2>1, <2>2, <2>3 DEF MovesRows
<1>5. RulesMoved(q, schedule, unread')
  <2>1. unread' = 0 => ok
    BY <1>u DEF ErrorsStay
  <2> QED
    BY <1>0, <1>2, <2>1 DEF RulesMoved, IInv, PaidOutStays
<1>6. Fine(q, record, schedule, unread') /\ q.at \notin PaysAt
  BY <1>2, <1>4, <1>5 DEF Fine, FoundIsThere, PaysOnce, PaysAt
<1>7. TypeOK'
  BY <1>u, <1>1, <1>2, <1>3 DEF TypeOK, Becomes
<1>8. RequestsAreFine' /\ OnePays' /\ TablesAreFine'
  BY <1>u, <1>1, <1>2, <1>3, <1>6, QuietStep DEF Pays
<1>9. CashWithin' /\ ApprovedIsMoved'
  BY <1>u, <1>1, <1>2, <1>3, QuietCash, ApprovedStays, NothingRises
<1> QED
  BY <1>7, <1>8, <1>9, Assembled

LEMMA MoveRowKeeps ==
  ASSUME IInv, NEW r \in Requests, NEW ok \in BOOLEAN, MoveRow(r, ok)
  PROVE  IInv'
<1>u. ErrorsStay /\ unread' \in 0..MaxLosses /\ (~ok => unread' = unread + 1)
  BY AnswersCount DEF IInv, MoveRow
<1> DEFINE p == req[r]
<1>0. /\ UNCHANGED <<app, record, reschedule, lost>> /\ TypeOK
      /\ Busy(r) /\ p.at = "move" /\ p \in Request /\ p \in Ruling
      /\ p.ask \in Reschedules /\ p.row \in 1..Rows /\ p.read \in [1..Rows -> 1..MaxWeek]
  BY BusyRequest, KindsOfRequest DEF MoveRow, At, IInv
<1>1. PICK a \in Applications : a = LoanOf[p.ask]
  BY <1>0, ScheduleConstants
<1>2. PICK k \in 1..Rows : k = p.row
  BY <1>0
<1>3. PICK w \in 1..MaxWeek : w = p.read[k] + k /\ w > k
  <2>1. Fine(p, record, schedule, unread)
    BY <1>0 DEF IInv, RequestsAreFine
  <2>2. k <= Shift /\ p.read[k] >= k /\ p.read[k] + Shift <= MaxWeek
    BY <1>0, <1>2, <2>1 DEF Fine, MovesRows
  <2>3. p.read[k] \in Int /\ k \in Int /\ k >= 1 /\ Shift \in Int /\ MaxWeek \in Int
    BY <1>0, ScheduleConstants
  <2> QED
    BY <2>2, <2>3
<1>4. /\ schedule[a] # None /\ schedule[a] \in Schedule /\ k <= Shift
      /\ \A i \in 1..Rows : p.read[i] >= i /\ p.read[i] + Shift <= MaxWeek
      /\ unread = 0 => \A i \in 1..Rows : i < k => schedule[a].due[i] > i
  BY <1>0, <1>1, <1>2, ScheduleIsSome DEF IInv, RequestsAreFine, Fine, MovesRows
<1>5. schedule' = IF ok THEN [schedule EXCEPT ![a].due[k] = w] ELSE schedule
  BY <1>1, <1>2, <1>3 DEF MoveRow
<1>6. /\ schedule'[a] \in Schedule /\ schedule'[a] # None /\ schedule'[a].day = schedule[a].day
      /\ schedule'[a].due[k] \in {w, schedule[a].due[k]}
      /\ ok => schedule'[a].due[k] = w
      /\ \A i \in 1..Rows : i # k => schedule'[a].due[i] = schedule[a].due[i]
      /\ \A b \in Applications : b # a => schedule'[b] = schedule[b]
      /\ schedule' \in [Applications -> Schedule \cup {None}]
  <2> DEFINE sch == [schedule[a] EXCEPT !.due[k] = w]
  <2>1. /\ sch \in Schedule /\ sch.day = schedule[a].day /\ sch.due[k] = w
        /\ \A i \in 1..Rows : i # k => sch.due[i] = schedule[a].due[i]
    BY <1>4 DEF Schedule
  <2>2. schedule' = IF ok THEN [schedule EXCEPT ![a] = sch] ELSE schedule
    BY <1>5
  <2> HIDE DEF sch
  <2>3. CASE ok
    BY <1>0, <2>1, <2>2, <2>3, ScheduleIsSome DEF TypeOK
  <2>4. CASE ~ok
    BY <1>0, <1>4, <2>2, <2>4 DEF TypeOK
  <2> QED
    BY <2>3, <2>4
<1>7. RowsRise(schedule, schedule') /\ RecordsStay(record, record')
  <2>1. \A i \in 1..Rows : schedule'[a].due[i] >= i \/ schedule'[a].due[i] = schedule[a].due[i]
    BY <1>3, <1>6
  <2>2. \A i \in 1..Rows : schedule'[a].due[i] > i \/ schedule'[a].due[i] = schedule[a].due[i]
    BY <1>3, <1>6
  <2> QED
    BY <1>0, <1>6, <2>1, <2>2, NothingRises DEF RowsRise
<1>8. PICK q \in Ruling :
        /\ Becomes(r, q)
        /\ \/ q.at = "move" /\ q.ask = p.ask /\ q.row = k + 1 /\ k < Shift /\ q.read = p.read
           \/ q.at = "rule" /\ q.ask = p.ask /\ k = Shift
  <2>1. CASE k < Shift
    <3> DEFINE q == [p EXCEPT !.row = k + 1]
    <3>1. k + 1 \in 1..Rows
      BY <2>1, ScheduleConstants
    <3>2. p \in [at : {"move"}, ask : Reschedules, row : 1..Rows, read : [1..Rows -> 1..MaxWeek]]
      BY <1>0 DEF Ruling
    <3>3. /\ q \in [at : {"move"}, ask : Reschedules, row : 1..Rows, read : [1..Rows -> 1..MaxWeek]]
          /\ q.at = "move" /\ q.ask = p.ask /\ q.row = k + 1 /\ q.read = p.read
      BY <3>1, <3>2
    <3>4. Becomes(r, q)
      BY <1>2, <2>1, <3>2 DEF MoveRow
    <3> QED
      BY <2>1, <3>3, <3>4 DEF Ruling
  <2>2. CASE ~(k < Shift)
    <3> DEFINE q == [at |-> "rule", ask |-> p.ask, to |-> "approved"]
    <3>1. q \in Ruling /\ q.at = "rule" /\ q.ask = p.ask
      BY <1>0 DEF Ruling
    <3>2. Becomes(r, q)
      BY <1>2, <2>2 DEF MoveRow
    <3>3. k = Shift
      BY <1>4, <2>2, ScheduleConstants
    <3> QED
      BY <3>1, <3>2, <3>3
  <2> QED
    BY <2>1, <2>2
<1>9. q \in Request /\ q # NoRequest /\ q.at \notin PaysAt
  BY <1>8, RequestIsSome DEF Request, PaysAt
<1>10. unread' = 0 => \A i \in 1..Rows : i <= k => schedule'[a].due[i] > i
  <2> SUFFICES ASSUME unread' = 0, NEW i \in 1..Rows, i <= k PROVE schedule'[a].due[i] > i
    OBVIOUS
  <2>0. unread = 0 /\ ok
    BY <1>u DEF ErrorsStay
  <2>1. CASE i = k
    BY <1>3, <1>6, <2>0, <2>1
  <2>2. CASE i # k
    <3>1. i < k
      BY <2>2
    <3> QED
      BY <1>4, <1>6, <2>0, <2>2, <3>1
  <2> QED
    BY <2>1, <2>2
<1>11. MovesRows(q, schedule', unread')
  <2> SUFFICES ASSUME q.at = "move" PROVE MovesRows(q, schedule', unread')
    BY DEF MovesRows
  <2>1. LoanOf[q.ask] = a /\ q.row = k + 1 /\ k < Shift /\ q.read = p.read
    BY <1>1, <1>8
  <2>2. q.row <= Shift /\ \A i \in 1..Rows : i < q.row => i <= k
    BY <2>1, ScheduleConstants
  <2> QED
    BY <1>4, <1>6, <1>10, <2>1, <2>2 DEF MovesRows
<1>12. RulesMoved(q, schedule', unread')
  <2> SUFFICES ASSUME q.at = "rule", unread' = 0 PROVE Moved(schedule'[a])
    BY <1>1, <1>8 DEF RulesMoved
  <2>1. k = Shift
    BY <1>8
  <2>2. \A i \in 1..Shift : i \in 1..Rows /\ i <= k
    BY <2>1, ScheduleConstants
  <2> QED
    BY <1>10, <2>2 DEF Moved
<1>13. Fine(q, record', schedule', unread')
  BY <1>8, <1>11, <1>12 DEF Fine, FoundIsThere, PaysOnce, PaysAt
<1>14. \A s \in Requests : s # r /\ Pays(s) => schedule'[req[s].app] = schedule[req[s].app]
  <2> SUFFICES ASSUME NEW s \in Requests, Pays(s)
               PROVE  schedule'[req[s].app] = schedule[req[s].app]
    OBVIOUS
  <2>1. req[s].app \in Applications
    BY <1>0, BusyRequest, KindsOfRequest DEF Pays, PaysAt, Execution
  <2>2. schedule[req[s].app] = None
    BY DEF IInv, RequestsAreFine, Fine, PaysOnce, Pays
  <2> QED
    BY <1>4, <1>6, <2>1, <2>2
<1>15. RequestsAreFine' /\ OnePays'
  BY <1>u, <1>7, <1>8, <1>9, <1>13, <1>14, StepRequests
<1>16. TypeOK'
  BY <1>u, <1>0, <1>6, <1>8, <1>9 DEF TypeOK, Becomes
<1>17. TablesAreFine'
  <2>1. ChecksDone' /\ PaidOutStays' /\ ScheduleMatches'
    BY <1>0, <1>4, <1>6, ScheduleConstants
    DEF IInv, ChecksDone, PaidOutStays, ScheduleMatches, Completed
  <2>2. Rises'
    <3> SUFFICES ASSUME NEW b \in Applications, schedule'[b] # None, NEW i \in 1..Rows
                 PROVE  schedule'[b].due[i] >= i
      BY DEF Rises
    <3>1. schedule[b] # None
      BY <1>4, <1>6
    <3>2. schedule[b].due[i] >= i
      BY <3>1 DEF IInv, Rises
    <3> QED
      BY <1>7, <3>1, <3>2 DEF RowsRise
  <2>3. \A b : Paying(b) => Paying(b)'
    BY <1>0, <1>8, PayingStays DEF Pays, PaysAt
  <2>4. PaidHasSchedule'
    BY <1>0, <1>6, <2>3 DEF IInv, PaidHasSchedule, Completed
  <2> QED
    BY <2>1, <2>2, <2>4 DEF TablesAreFine
<1>18. CashWithin' /\ ApprovedIsMoved'
  BY <1>u, <1>0, <1>7, <1>8, <1>9, QuietCash, ApprovedStays
<1> QED
  BY <1>15, <1>16, <1>17, <1>18, Assembled

LEMMA SaveRulingKeeps ==
  ASSUME IInv, NEW r \in Requests, SaveRuling(r)
  PROVE  IInv'
<1> DEFINE p == req[r]
<1>u. ErrorsStay /\ unread' \in 0..MaxLosses
  BY NoErrorStays DEF IInv, TypeOK, SaveRuling, fn_apply_reschedule
<1>1. /\ UNCHANGED <<app, record, schedule, lost, unread>> /\ TypeOK
      /\ Busy(r) /\ p.at = "rule" /\ Becomes(r, NoRequest)
      /\ p.ask \in Reschedules /\ p.to \in {"approved", "rejected"}
      /\ \/ reschedule' = reschedule
         \/ reschedule' = [reschedule EXCEPT ![p.ask] = p.to]
  BY BusyRequest, KindsOfRequest DEF SaveRuling, fn_apply_reschedule, At, Ends, IInv
<1>2. Fine(p, record, schedule, unread)
  BY <1>1 DEF IInv, RequestsAreFine
<1>3. TypeOK'
  BY <1>u, <1>1 DEF TypeOK, Becomes
<1>4. RequestsAreFine' /\ OnePays' /\ TablesAreFine'
  BY <1>u, <1>1, QuietStep DEF Pays, PaysAt
<1>5. CashWithin'
  BY <1>u, <1>1, QuietCash
<1>6. ApprovedIsMoved'
  <2> SUFFICES ASSUME unread = 0,
                      NEW x \in Reschedules, reschedule'[x] = "approved", LoanOf[x] \in PaidOut
               PROVE  \A i \in 1..Shift : schedule[LoanOf[x]].due[i] > i
    BY <1>1 DEF ApprovedIsMoved
  <2>1. CASE reschedule[x] = "approved"
    BY <2>1 DEF IInv, ApprovedIsMoved
  <2>2. CASE reschedule[x] # "approved"
    <3>1. x = p.ask /\ p.to = "approved"
      BY <1>1, <2>2 DEF TypeOK
    <3> QED
      BY <1>1, <1>2, <3>1 DEF Fine, RulesMoved, Moved
  <2> QED
    BY <2>1, <2>2
<1> QED
  BY <1>3, <1>4, <1>5, <1>6, Assembled

LEMMA LoseKeeps ==
  ASSUME IInv, NEW r \in Requests, Lose(r)
  PROVE  IInv'
<1>u. ErrorsStay /\ unread' \in 0..MaxLosses
  BY NoErrorStays DEF IInv, TypeOK, Lose
<1>1. /\ UNCHANGED <<app, record, schedule, reschedule, unread>> /\ TypeOK
      /\ lost + unread < MaxLosses /\ lost' = lost + 1 /\ Becomes(r, NoRequest)
  BY DEF Lose, Ends, IInv
<1>2. lost' \in 0..MaxLosses /\ lost' > 0
  BY <1>1, ScheduleConstants DEF TypeOK
<1>3. TypeOK'
  BY <1>u, <1>1, <1>2 DEF TypeOK, Becomes
<1>4. RequestsAreFine' /\ OnePays' /\ TablesAreFine'
  BY <1>u, <1>1, <1>2, QuietStep
<1>5. CashWithin' /\ ApprovedIsMoved'
  BY <1>u, <1>1, QuietCash, ApprovedStays, NothingRises
<1> QED
  BY <1>3, <1>4, <1>5, Assembled

LEMMA StepsKeep == IInv /\ [Next]_vars => IInv'
<1> SUFFICES ASSUME IInv, [Next]_vars PROVE IInv'
  OBVIOUS
<1>1. ASSUME NEW r \in Requests, NEW ok \in BOOLEAN,
             NEW a \in Applications, NEW checks \in {"open", "done"}, Prepare(r, a, checks, ok)
      PROVE  IInv'
  BY <1>1, PrepareKeeps
<1>2. ASSUME NEW r \in Requests, NEW ok \in BOOLEAN,
             NEW a \in Applications, NEW mode \in Modes, NEW day \in Days,
             NEW limit \in {CashLimit} \cup SentLimits, Execute(r, a, mode, day, limit, ok)
      PROVE  IInv'
  BY <1>2, ExecuteKeeps
<1>3. ASSUME NEW r \in Requests, NEW ok \in BOOLEAN,
             NEW x \in Reschedules, AskReschedule(r, x, ok)
      PROVE  IInv'
  BY <1>3, AskRescheduleKeeps
<1>4. ASSUME NEW r \in Requests, NEW ok \in BOOLEAN,
             NEW x \in Reschedules, NEW to \in {"approved", "rejected"}, Rule(r, x, to, ok)
      PROVE  IInv'
  BY <1>4, RuleKeeps
<1>5. ASSUME NEW r \in Requests, NEW ok \in BOOLEAN,
             FindRecord(r, ok) \/ DeleteSchedule(r, ok) \/ MoveRow(r, ok)
      PROVE  IInv'
  BY <1>5, FindRecordKeeps, DeleteScheduleKeeps, MoveRowKeeps
<1>6. ASSUME NEW r \in Requests, Serve(r) \/ Lose(r)
      PROVE  IInv'
  BY <1>6, SavePreparationKeeps, WriteRecordKeeps, InsertScheduleKeeps, MarkDisbursedKeeps,
     SaveAskKeeps, SaveRulingKeeps, LoseKeeps
  DEF Serve
<1>7. CASE UNCHANGED vars
  <2>1. TypeOK' /\ RequestsAreFine' /\ OnePays'
    BY <1>7 DEF vars, IInv, TypeOK, RequestsAreFine, OnePays, Pays, Busy
  <2>2. TablesAreFine'
    BY <1>7 DEF vars, IInv, TablesAreFine, ChecksDone, Rises, PaidOutStays, ScheduleMatches,
      PaidHasSchedule, Paying, Busy, Completed
  <2>3. ApprovedIsMoved' /\ CashWithin'
    BY <1>7 DEF vars, IInv, ApprovedIsMoved, CashWithin, CashOut, Summed, Busy, Completed
  <2> QED
    BY <2>1, <2>2, <2>3, Assembled
<1> QED
  BY <1>1, <1>2, <1>3, <1>4, <1>5, <1>6, <1>7 DEF Next

LEMMA Invariance == Spec => []IInv
BY Initially, StepsKeep, PTL DEF Spec

-----------------------------------------------------------------------------
(* Theorems *)

\* Tables and requests keep their types, whatever overlaps or is lost.
THEOREM TypeCorrect == Spec => []TypeOK
<1>1. IInv => TypeOK
  BY DEF IInv
<1> QED
  BY <1>1, Invariance, PTL

\* The rows of the schedule table are those of the payout on record.
THEOREM ScheduleStaysMatched == Spec => []ScheduleMatches
<1>1. IInv => ScheduleMatches
  BY DEF IInv
<1> QED
  BY <1>1, Invariance, PTL

\* A payout has its schedule, unless its request is on its way or one was lost.
THEOREM PaidStaysScheduled == Spec => []PaidHasSchedule
<1>1. IInv => PaidHasSchedule
  BY DEF IInv
<1> QED
  BY <1>1, Invariance, PTL

\* The cash of a day exceeds the limit by less than one loan per request served at
\* the same time.
THEOREM CashStaysBounded == Spec => []CashBounded
<1>1. IInv => CashBounded
  <2> SUFFICES ASSUME IInv, SentLimits = {}, NEW day \in Days
               PROVE  CashOut(Applications, day) < CashLimit + Cardinality(Requests) + unread
    BY DEF CashBounded
  <2>1. CashOut(Applications, day) + Cardinality(Summed(day))
          < CashLimit + Cardinality(Requests) + unread
    BY DEF IInv, CashWithin
  <2>2. unread \in Nat
    BY ScheduleConstants DEF IInv, TypeOK
  <2> QED
    BY <2>1, <2>2, CashSizes, SummedSizes, ScheduleConstants
<1> QED
  BY <1>1, Invariance, PTL

\* An approved reschedule has moved every row it speaks of, for any number of rows.
THEOREM ApprovedStaysMoved == Spec => []ApprovedIsMoved
<1>1. IInv => ApprovedIsMoved
  BY DEF IInv
<1> QED
  BY <1>1, Invariance, PTL

\* No step changes the record of a completed payout.
THEOREM CompletedStands == Spec => CompletedForGood
<1>1. IInv /\ [Next]_vars => [\A a \in Applications : Completed(a) => record'[a] = record[a]]_vars
  <2> SUFFICES ASSUME IInv, Next, NEW a \in Applications, Completed(a)
               PROVE  record'[a] = record[a]
    OBVIOUS
  <2>1. ASSUME NEW r \in Requests, SavePreparation(r)
        PROVE  record'[a] = record[a]
    <3> DEFINE q == req[r]
    <3>1. q.app \in Applications /\ TypeOK
      BY <2>1, BusyRequest, KindsOfRequest DEF SavePreparation, At, IInv, Preparation
    <3>2. record[a] \in Record /\ record[a].checks = "done"
      BY <3>1, ScheduleIsSome DEF IInv, ChecksDone, Completed
    <3>3. CASE ~q.found /\ record[q.app] = None
      <4>1. a # q.app
        BY <3>3 DEF Completed
      <4> QED
        BY <2>1, <3>1, <3>3, <4>1 DEF SavePreparation, TypeOK
    <3>4. CASE /\ q.found /\ (Completed(q.app) => q.checks = "done")
               /\ record' = [record EXCEPT ![q.app].checks = q.checks]
      BY <3>1, <3>2, <3>4 DEF TypeOK, Record
    <3> QED
      BY <2>1, <3>3, <3>4 DEF SavePreparation
  <2>2. ASSUME NEW r \in Requests, WriteRecord(r)
        PROVE  record'[a] = record[a]
    BY <2>2 DEF WriteRecord, IInv, TypeOK, Completed
  <2>3. CASE UNCHANGED record
    BY <2>3
  <2>4. ASSUME NEW r \in Requests, Serve(r) \/ Lose(r)
        PROVE  record'[a] = record[a]
    BY <2>1, <2>2, <2>3, <2>4
    DEF Serve, InsertSchedule, MarkDisbursed, SaveAsk, SaveRuling, Lose
  <2>5. CASE \E r \in Requests : Serve(r) \/ Lose(r)
    BY <2>4, <2>5
  <2>6. CASE ~\E r \in Requests : Serve(r) \/ Lose(r)
    <3>1. ASSUME NEW r \in Requests, NEW ok \in BOOLEAN,
                 FindRecord(r, ok) \/ DeleteSchedule(r, ok) \/ MoveRow(r, ok)
          PROVE  UNCHANGED record
      BY <3>1 DEF FindRecord, DeleteSchedule, MoveRow
    <3>2. ASSUME NEW r \in Requests, NEW ok \in BOOLEAN, NEW b \in Applications,
                 NEW checks \in {"open", "done"}, Prepare(r, b, checks, ok)
          PROVE  UNCHANGED record
      BY <3>2 DEF Prepare
    <3>3. ASSUME NEW r \in Requests, NEW ok \in BOOLEAN, NEW b \in Applications,
                 NEW mode \in Modes, NEW day \in Days,
                 NEW limit \in {CashLimit} \cup SentLimits, Execute(r, b, mode, day, limit, ok)
          PROVE  UNCHANGED record
      BY <3>3 DEF Execute
    <3>4. ASSUME NEW r \in Requests, NEW ok \in BOOLEAN, NEW x \in Reschedules,
                 \/ AskReschedule(r, x, ok)
                 \/ \E to \in {"approved", "rejected"} : Rule(r, x, to, ok)
          PROVE  UNCHANGED record
      BY <3>4 DEF AskReschedule, Rule
    <3> QED
      BY <2>3, <2>6, <3>1, <3>2, <3>3, <3>4 DEF Next
  <2> QED
    BY <2>5, <2>6
<1> QED
  BY <1>1, Invariance, PTL DEF Spec, CompletedForGood
=============================================================================
