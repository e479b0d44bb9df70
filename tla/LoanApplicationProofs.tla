------------------------ MODULE LoanApplicationProofs ------------------------
(***************************************************************************)
(* Proofs about LoanApplication, for any applications, members, limits and *)
(* number of concurrent requests.                                          *)
(***************************************************************************)
EXTENDS LoanApplication, FiniteSetTheorems, TLAPS

\* Steps look at the tables one by one.
USE DEF data

\* The statuses an application really takes.
Reached == {"none", "submitted", "officer_review", "bm_review", "approved",
            "rejected"}

StatusReached == \A a \in Applications : status[a] \in Reached

\* A limit that was read lets the application pass, or the default in its place.
Excused(a) == a \in OverLimit => a \in misread /\ a \notin OverDefault

\* What a request has established stays true until it writes: its
\* application exists, the stages it counted are on record, an approval is
\* within the limit that was read, and a decision whose triggers have run still
\* may be made.
Stands(q) ==
  /\ q.input = "apply" => status[q.app] = "none" /\ q.next = "submitted"
  /\ q.input # "apply" => status[q.app] # "none"
  /\ q.input \in OfficerStages /\ q.at = "update" =>
       q.next \in {"officer_review", "bm_review"}
  /\ q.input \in OfficerStages /\ q.at = "update" /\ q.next = "bm_review" =>
       DoneOfficer(q.app) = OfficerStages
  /\ q.input = "approve" => q.next = "approved" /\ Excused(q.app)
  /\ q.input = "reject" => q.next = "rejected"
  /\ q.input \in Decisions => DoneOfficer(q.app) = OfficerStages
  /\ q.at = "commit" /\ status[q.app] = "rejected" => q.next = "rejected"

RequestsStand == \A r \in Requests : Busy(r) => Stands(req[r])

\* A row is locked by one update, and an application is submitted once.
LockExclusive ==
  \A r, p \in Requests :
    At(r, "commit") /\ At(p, "commit") /\ req[r].app = req[p].app => r = p

SubmittedOnce ==
  \A r, p \in Requests :
    Busy(r) /\ Busy(p) /\ req[r].app = req[p].app
      /\ req[r].input = "apply" /\ req[p].input = "apply" => r = p

IInv == /\ TypeOK /\ StatusReached /\ RequestsStand /\ LockExclusive
        /\ SubmittedOnce /\ ChainComplete /\ WithinLimit

-----------------------------------------------------------------------------
(* The shapes of the steps *)

LEMMA InitInv == Init => IInv
<1> SUFFICES ASSUME Init PROVE IInv
  OBVIOUS
<1>1. TypeOK /\ \A r \in Requests : ~Busy(r)
  BY DEF Init, TypeOK, Busy, Statuses
<1>2. StatusReached /\ ChainComplete /\ WithinLimit
  BY LoanConstants DEF LoanConstants, Init, StatusReached, Reached,
     ChainComplete, WithinLimit
<1>3. RequestsStand /\ LockExclusive /\ SubmittedOnce
  BY <1>1 DEF RequestsStand, LockExclusive, SubmittedOnce, At, Busy
<1>4. QED BY <1>1, <1>2, <1>3 DEF IInv

\* Rows are inserted, never deleted: stages that are done stay done, and a
\* policy that was not read stays so.
Grows ==
  /\ steps' \in [Applications -> [AllInputs -> Nat]]
  /\ \A a \in Applications :
       DoneOfficer(a) = OfficerStages => DoneOfficer(a)' = OfficerStages
  /\ misread \subseteq misread' /\ misread' \subseteq Applications

LEMMA Still == IInv /\ UNCHANGED <<steps, misread>> => Grows
  BY DEF IInv, TypeOK, Grows, DoneOfficer

LEMMA Recorded ==
  ASSUME IInv, NEW a \in Applications, NEW i \in AllInputs,
         steps' = [steps EXCEPT ![a][i] = @ + 1], UNCHANGED misread
  PROVE  Grows
<1>1. steps \in [Applications -> [AllInputs -> Nat]]
  BY DEF IInv, TypeOK
<1>2. /\ steps' \in [Applications -> [AllInputs -> Nat]]
      /\ \A b \in Applications, j \in AllInputs : steps'[b][j] >= steps[b][j]
  BY <1>1
<1>3. \A b \in Applications, j \in AllInputs : steps[b][j] > 0 => steps'[b][j] > 0
  <2> SUFFICES ASSUME NEW b \in Applications, NEW j \in AllInputs, steps[b][j] > 0
               PROVE  steps'[b][j] > 0
    OBVIOUS
  <2>1. steps[b][j] \in Nat /\ steps'[b][j] \in Nat /\ steps'[b][j] >= steps[b][j]
    BY <1>1, <1>2
  <2> QED BY <2>1
<1>4. OfficerStages \subseteq AllInputs
  BY DEF AllInputs
<1>5. QED BY <1>2, <1>3, <1>4 DEF Grows, DoneOfficer, IInv, TypeOK

LEMMA OfficersStages == IsFiniteSet(OfficerStages) /\ Cardinality(OfficerStages) = 3
<1>1. /\ IsFiniteSet({"officer_visit"})
      /\ Cardinality({"officer_visit"}) = 1
  BY FS_Singleton
<1>2. /\ IsFiniteSet({"officer_visit", "household_check"})
      /\ Cardinality({"officer_visit", "household_check"}) = 2
  <2>1. {"officer_visit", "household_check"} = {"officer_visit"} \cup {"household_check"}
    OBVIOUS
  <2>2. "household_check" \notin {"officer_visit"}
    OBVIOUS
  <2>3. /\ IsFiniteSet({"officer_visit"} \cup {"household_check"})
        /\ Cardinality({"officer_visit"} \cup {"household_check"}) = 2
    BY <1>1, <2>2, FS_AddElement
  <2> QED BY <2>1, <2>3
<1>3. OfficerStages = {"officer_visit", "household_check"} \cup {"guarantor"}
  BY DEF OfficerStages
<1> QED BY <1>2, <1>3, FS_AddElement

LEMMA ThreeStages ==
  ASSUME NEW a \in Applications, Cardinality(DoneOfficer(a)) = 3
  PROVE  DoneOfficer(a) = OfficerStages
<1>1. DoneOfficer(a) \subseteq OfficerStages
  BY DEF DoneOfficer
<1> QED BY <1>1, OfficersStages, FS_Subset

\* A request that ends and writes no status.
LEMMA EndInv ==
  ASSUME IInv, NEW r \in Requests, Ends(r), UNCHANGED status, Grows
  PROVE  IInv'
<1>1. /\ req' \in [Requests -> Request \cup {NoRequest}]
      /\ req'[r] = NoRequest
      /\ \A p \in Requests : p # r => req'[p] = req[p]
  BY DEF IInv, TypeOK, Ends
<1>2. TypeOK'
  BY <1>1 DEF IInv, TypeOK, Grows
<1>3. RequestsStand'
  <2> SUFFICES ASSUME NEW p \in Requests, Busy(p)'
               PROVE  Stands(req[p])'
    BY DEF RequestsStand
  <2>1. p # r /\ req'[p] = req[p]
    BY <1>1 DEF Busy
  <2>2. req[p] \in Request /\ Stands(req[p])
    BY <2>1 DEF IInv, TypeOK, RequestsStand, Busy
  <2>3. req[p].app \in Applications
    BY <2>2 DEF Request
  <2> QED BY <2>1, <2>2, <2>3 DEF Stands, Grows, Excused
<1>4. LockExclusive' /\ SubmittedOnce'
  BY <1>1 DEF IInv, LockExclusive, SubmittedOnce, Busy, At
<1>5. StatusReached' /\ ChainComplete' /\ WithinLimit'
  BY DEF IInv, StatusReached, ChainComplete, WithinLimit, Grows
<1>6. QED BY <1>2, <1>3, <1>4, <1>5 DEF IInv

\* A request that starts or goes on and writes no status. What it stands for,
\* and that it does not share a lock or a submission, is left to the caller.
LEMMA MoveInv ==
  ASSUME IInv, NEW r \in Requests, NEW q \in Request,
         req' = [req EXCEPT ![r] = q], UNCHANGED status, Grows,
         InHandler(q), Stands(q) \/ Stands(q)',
         q.at = "commit" => ~Locked(q.app),
         q.input = "apply" =>
           \A p \in Requests : p # r /\ Busy(p) /\ req[p].app = q.app
                                 => req[p].input # "apply"
  PROVE  IInv'
<1>1. /\ req'[r] = q
      /\ \A p \in Requests : p # r => req'[p] = req[p]
      /\ q # NoRequest
  BY LoanConstants DEF LoanConstants, IInv, TypeOK
<1>2. TypeOK'
  BY <1>1 DEF IInv, TypeOK, Grows
<1>3. RequestsStand'
  <2> SUFFICES ASSUME NEW p \in Requests, Busy(p)'
               PROVE  Stands(req[p])'
    BY DEF RequestsStand
  <2>1. req'[p] \in Request /\ (Stands(req'[p]) \/ Stands(req[p])')
    BY <1>1 DEF IInv, TypeOK, RequestsStand, Busy
  <2>2. req'[p].app \in Applications
    BY <2>1 DEF Request
  <2>3. CASE Stands(req'[p])
    BY <2>2, <2>3 DEF Stands, Grows, Excused
  <2> QED BY <2>1, <2>3
<1>4. LockExclusive'
  BY <1>1 DEF IInv, LockExclusive, Busy, At, Locked
<1>5. SubmittedOnce'
  BY <1>1 DEF IInv, SubmittedOnce, Busy
<1>6. StatusReached' /\ ChainComplete' /\ WithinLimit'
  BY DEF IInv, StatusReached, ChainComplete, WithinLimit, Grows
<1>7. QED BY <1>2, <1>3, <1>4, <1>5, <1>6 DEF IInv

\* A request that goes on keeps its application and its input.
LEMMA GoesInv ==
  ASSUME IInv, NEW r \in Requests, Busy(r), UNCHANGED data,
         NEW place \in {"existing", "insert", "reread", "update", "commit"},
         NEW next \in {"none", "submitted", "officer_review", "bm_review",
                       "approved", "rejected"},
         Goes(r, place, next),
         req[r].input # "apply",
         LET q == [app |-> req[r].app, input |-> req[r].input,
                   at |-> place, next |-> next]
         IN  InHandler(q) /\ Stands(q) /\ (place = "commit" => ~Locked(q.app))
  PROVE  IInv'
<1> DEFINE q == [app |-> req[r].app, input |-> req[r].input,
                 at |-> place, next |-> next]
<1>1. q \in Request
  BY DEF IInv, TypeOK, Busy, Request
<1>2. req' = [req EXCEPT ![r] = q]
  BY DEF Goes, Waiting
<1> QED BY <1>1, <1>2, MoveInv, Still

\* What an open request is.
LEMMA BusyRequest ==
  ASSUME IInv, NEW r \in Requests, Busy(r)
  PROVE  req[r] \in Request /\ InHandler(req[r]) /\ Stands(req[r])
  BY DEF IInv, TypeOK, RequestsStand, Busy

-----------------------------------------------------------------------------
(* Steps that only read *)

LEMMA ApplyInv ==
  ASSUME IInv, NEW r \in Requests, NEW a \in Applications, Apply(r, a)
  PROVE  IInv'
<1> DEFINE q == [app |-> a, input |-> "apply", at |-> "insert",
                 next |-> "submitted"]
<1>1. q \in Request /\ InHandler(q)
  BY DEF Request, InHandler, OfficerStages, ReviewStages, Decisions
<1>2. Stands(q)
  BY DEF Stands, Apply, OfficerStages, Decisions
<1>3. \A p \in Requests : p # r /\ Busy(p) /\ req[p].app = q.app
                            => req[p].input # "apply"
  BY DEF Apply, Serving
<1>4. req' = [req EXCEPT ![r] = q] /\ UNCHANGED data
  BY DEF Apply, Starts, Waiting
<1>5. q.at # "commit"
  OBVIOUS
<1> QED BY <1>1, <1>2, <1>3, <1>4, <1>5, MoveInv, Still

LEMMA BeginStepInv ==
  ASSUME IInv, NEW r \in Requests, NEW a \in Applications,
         NEW i \in AllInputs, BeginStep(r, a, i)
  PROVE  IInv'
<1> DEFINE q == [app |-> a, input |-> i, at |-> "existing", next |-> "none"]
<1>1. i \in OfficerStages \cup ReviewStages
  BY DEF BeginStep, AllInputs
<1>2. q \in Request /\ InHandler(q) /\ q.at # "commit" /\ q.input # "apply"
  BY <1>1 DEF Request, InHandler, AllInputs, OfficerStages, ReviewStages, Decisions
<1>3. Stands(q)
  BY <1>1 DEF Stands, BeginStep, OfficerStages, ReviewStages, Decisions
<1>4. req' = [req EXCEPT ![r] = q] /\ UNCHANGED data
  BY DEF BeginStep, Starts, Waiting
<1> QED BY <1>2, <1>3, <1>4, MoveInv, Still

\* A decision starts on an application that has its stages.
LEMMA BeginDecisionInv ==
  ASSUME IInv, NEW r \in Requests, NEW a \in Applications,
         NEW d \in Decisions, NEW read \in BOOLEAN, BeginDecision(r, a, d, read)
  PROVE  IInv'
<1> DEFINE q == [app |-> a, input |-> d, at |-> "insert",
                 next |-> IF d = "approve" THEN "approved" ELSE "rejected"]
<1>1. q \in Request /\ InHandler(q) /\ q.at # "commit" /\ q.input # "apply"
  BY DEF Request, InHandler, AllInputs, OfficerStages, ReviewStages, Decisions
<1>2. status[a] = "bm_review"
  BY DEF BeginDecision, IInv, StatusReached, Reached
<1>3. DoneOfficer(a) = OfficerStages
  BY <1>2 DEF IInv, ChainComplete
<1>4. /\ req' = [req EXCEPT ![r] = q] /\ UNCHANGED <<status, steps>>
      /\ misread' = IF read THEN misread ELSE misread \cup {a}
  BY DEF BeginDecision, Starts, Waiting
<1>5. Grows
  BY <1>4 DEF Grows, DoneOfficer, IInv, TypeOK
<1>6. d = "approve" => Excused(a)'
  <2> SUFFICES ASSUME d = "approve", a \in OverLimit
               PROVE  a \in misread' /\ a \notin OverDefault
    BY DEF Excused
  <2>1. WithinPolicy(a, read)
    BY <1>2 DEF BeginDecision
  <2> QED BY <2>1, <1>4 DEF WithinPolicy
<1>7. Stands(q)'
  BY <1>2, <1>3, <1>4, <1>6 DEF Stands, DoneOfficer, OfficerStages, Decisions
<1> QED BY <1>1, <1>4, <1>5, <1>7, MoveInv

LEMMA CheckExistingInv ==
  ASSUME IInv, NEW r \in Requests, CheckExisting(r)
  PROVE  IInv'
<1>1. CASE Ends(r)
  BY <1>1, EndInv, Still DEF CheckExisting
<1>2. CASE Goes(r, "insert", "none")
  <2>1. /\ Busy(r) /\ req[r].at = "existing" /\ UNCHANGED data
    BY DEF CheckExisting, At
  <2>2. req[r] \in Request /\ InHandler(req[r]) /\ Stands(req[r])
    BY <2>1, BusyRequest
  <2>3. req[r].input \in OfficerStages \cup ReviewStages
    BY <2>1, <2>2 DEF InHandler, Request, AllInputs
  <2> DEFINE q == [app |-> req[r].app, input |-> req[r].input,
                   at |-> "insert", next |-> "none"]
  <2>4. InHandler(q) /\ Stands(q)
    BY <2>2, <2>3 DEF InHandler, Stands, OfficerStages, ReviewStages, Decisions
  <2>5. req[r].input # "apply"
    BY <2>3 DEF OfficerStages, ReviewStages
  <2> QED BY <1>2, <2>1, <2>4, <2>5, GoesInv
<1> QED BY <1>1, <1>2 DEF CheckExisting

LEMMA RereadInv ==
  ASSUME IInv, NEW r \in Requests, Reread(r)
  PROVE  IInv'
<1>1. /\ Busy(r) /\ req[r].at = "reread" /\ UNCHANGED data
  BY DEF Reread, At
<1>2. req[r] \in Request /\ InHandler(req[r]) /\ Stands(req[r])
  BY <1>1, BusyRequest
<1>3. req[r].input \in OfficerStages
  BY <1>1, <1>2 DEF InHandler, Request, AllInputs, OfficerStages, ReviewStages,
     Decisions
<1>4. ASSUME NEW next \in {"officer_review", "bm_review"}, Goes(r, "update", next),
             next = "bm_review" => DoneOfficer(req[r].app) = OfficerStages
      PROVE  IInv'
  <2> DEFINE q == [app |-> req[r].app, input |-> req[r].input,
                   at |-> "update", next |-> next]
  <2>1. InHandler(q)
    BY <1>3 DEF InHandler, OfficerStages, ReviewStages, Decisions
  <2>2. Stands(q)
    BY <1>2, <1>3, <1>4 DEF Stands, OfficerStages, Decisions
  <2>3. req[r].input # "apply"
    BY <1>3 DEF OfficerStages
  <2> QED BY <1>1, <1>4, <2>1, <2>2, <2>3, GoesInv
<1>5. Cardinality(DoneOfficer(req[r].app)) = 3
        => DoneOfficer(req[r].app) = OfficerStages
  BY <1>2, ThreeStages DEF Request
<1>6. CASE Ends(r)
  BY <1>1, <1>6, EndInv, Still
<1> QED BY <1>4, <1>5, <1>6 DEF Reread

LEMMA RecordStepInv ==
  ASSUME IInv, NEW r \in Requests, RecordStep(r)
  PROVE  IInv'
<1>1. /\ Busy(r) /\ req[r].at = "insert" /\ req[r].input # "apply"
      /\ req[r].input \notin Decisions /\ UNCHANGED status
  BY DEF RecordStep, At
<1>2. req[r] \in Request /\ Stands(req[r])
  BY <1>1, BusyRequest
<1>0. Grows
  BY <1>1, <1>2, Recorded DEF RecordStep, Request
<1>3. CASE req[r].input \in OfficerStages
  <2> DEFINE q == [app |-> req[r].app, input |-> req[r].input,
                   at |-> "reread", next |-> "none"]
  <2>1. q \in Request /\ InHandler(q) /\ q.at # "commit" /\ q.input # "apply"
    BY <1>2, <1>3 DEF Request, InHandler, OfficerStages, ReviewStages, Decisions
  <2>2. Stands(q)
    BY <1>2, <1>3 DEF Stands, OfficerStages, Decisions
  <2>3. req' = [req EXCEPT ![r] = q]
    BY <1>3 DEF RecordStep, Goes, Waiting
  <2> QED BY <1>1, <1>0, <2>1, <2>2, <2>3, MoveInv
<1>4. CASE req[r].input \notin OfficerStages
  BY <1>1, <1>0, <1>4, EndInv DEF RecordStep
<1> QED BY <1>3, <1>4

LEMMA RecordDecisionInv ==
  ASSUME IInv, NEW r \in Requests, RecordDecision(r)
  PROVE  IInv'
<1>1. /\ Busy(r) /\ req[r].input \in Decisions /\ UNCHANGED status
  BY DEF RecordDecision, At
<1>2. req[r] \in Request /\ Stands(req[r])
  BY <1>1, BusyRequest
<1>3. Grows
  BY <1>1, <1>2, Recorded DEF RecordDecision, Request, AllInputs
<1> DEFINE q == [app |-> req[r].app, input |-> req[r].input,
                 at |-> "update", next |-> req[r].next]
<1>4. q \in Request /\ InHandler(q) /\ q.at # "commit" /\ q.input # "apply"
  BY <1>1, <1>2 DEF Request, InHandler, OfficerStages, ReviewStages, Decisions
<1>5. Stands(q)
  BY <1>1, <1>2 DEF Stands, OfficerStages, Decisions
<1>6. req' = [req EXCEPT ![r] = q]
  BY DEF RecordDecision, Goes, Waiting
<1> QED BY <1>1, <1>3, <1>4, <1>5, <1>6, MoveInv

\* A decision locks its row only if the status it found there allows it.
LEMMA CheckDecisionInv ==
  ASSUME IInv, NEW r \in Requests, CheckDecision(r)
  PROVE  IInv'
<1>1. /\ Busy(r) /\ req[r].input \in Decisions /\ ~Locked(req[r].app)
      /\ UNCHANGED data
  BY DEF CheckDecision, At
<1>2. req[r] \in Request /\ Stands(req[r])
  BY <1>1, BusyRequest
<1>3. CASE Ends(r)
  BY <1>1, <1>3, EndInv, Still
<1>4. CASE Transition(req[r].app, req[r].next) /\ Goes(r, "commit", req[r].next)
  <2> DEFINE q == [app |-> req[r].app, input |-> req[r].input,
                   at |-> "commit", next |-> req[r].next]
  <2>1. q \in Request /\ InHandler(q) /\ q.input # "apply"
    BY <1>1, <1>2 DEF Request, InHandler, OfficerStages, ReviewStages, Decisions
  <2>2. status[q.app] = "rejected" => q.next = "rejected"
    BY <1>4 DEF Transition
  <2>3. Stands(q)
    BY <1>1, <1>2, <2>2 DEF Stands, OfficerStages, Decisions
  <2>4. req' = [req EXCEPT ![r] = q]
    BY <1>4 DEF Goes, Waiting
  <2> QED BY <1>1, <2>1, <2>3, <2>4, MoveInv, Still
<1> QED BY <1>3, <1>4 DEF CheckDecision

-----------------------------------------------------------------------------
(* Steps that write the status *)

\* The request that ends sets the status of its application, whose row is not
\* locked by another request.
LEMMA WriteInv ==
  ASSUME IInv, NEW r \in Requests, Busy(r), NEW new \in Reached \ {"none"},
         status' = [status EXCEPT ![req[r].app] = new],
         Ends(r), UNCHANGED <<steps, misread>>,
         \A p \in Requests : p # r /\ At(p, "commit") => req[p].app # req[r].app,
         \A p \in Requests : p # r /\ Busy(p) /\ req[p].input = "apply"
                               => req[p].app # req[r].app,
         new \notin {"submitted", "officer_review"}
           => DoneOfficer(req[r].app) = OfficerStages,
         new = "approved" => Excused(req[r].app)
  PROVE  IInv'
<1>1. /\ req' \in [Requests -> Request \cup {NoRequest}]
      /\ req'[r] = NoRequest
      /\ \A p \in Requests : p # r => req'[p] = req[p]
  BY DEF IInv, TypeOK, Ends
<1>2. req[r].app \in Applications
  BY BusyRequest DEF Request
<1>3. /\ status' \in [Applications -> Statuses]
      /\ status'[req[r].app] = new
      /\ \A a \in Applications : a # req[r].app => status'[a] = status[a]
  BY <1>2 DEF IInv, TypeOK, Reached, Statuses
<1>4. TypeOK'
  BY <1>1, <1>3 DEF IInv, TypeOK
<1>5. RequestsStand'
  <2> SUFFICES ASSUME NEW p \in Requests, Busy(p)'
               PROVE  Stands(req[p])'
    BY DEF RequestsStand
  <2>1. p # r /\ req'[p] = req[p] /\ Busy(p)
    BY <1>1 DEF Busy
  <2>2. req[p] \in Request /\ InHandler(req[p]) /\ Stands(req[p])
    BY <2>1, BusyRequest
  <2>3. CASE req[p].app # req[r].app
    <3>1. status'[req[p].app] = status[req[p].app]
      BY <2>2, <2>3, <1>3 DEF Request
    <3> QED BY <2>1, <2>2, <3>1 DEF Stands, Excused, DoneOfficer
  <2>4. CASE req[p].app = req[r].app
    <3>1. req[p].input # "apply" /\ req[p].at # "commit" /\ new # "none"
      BY <2>1, <2>4 DEF At
    <3> QED BY <2>1, <2>2, <2>4, <3>1, <1>3 DEF Stands, Excused, DoneOfficer
  <2> QED BY <2>3, <2>4
<1>6. LockExclusive' /\ SubmittedOnce'
  BY <1>1 DEF IInv, LockExclusive, SubmittedOnce, Busy, At
<1>7. StatusReached' /\ WithinLimit'
  BY <1>2, <1>3, LoanConstants DEF LoanConstants, IInv, StatusReached, WithinLimit,
     Excused
<1>8. ChainComplete'
  BY <1>3 DEF IInv, ChainComplete, DoneOfficer, Reached
<1> QED BY <1>4, <1>5, <1>6, <1>7, <1>8 DEF IInv

LEMMA SubmitInv ==
  ASSUME IInv, NEW r \in Requests, Submit(r)
  PROVE  IInv'
<1>1. Busy(r) /\ req[r].input = "apply" /\ Ends(r) /\ UNCHANGED <<steps, misread>>
  BY DEF Submit, At
<1>2. status' = [status EXCEPT ![req[r].app] = "submitted"]
  BY DEF Submit
<1>3. status[req[r].app] = "none"
  BY <1>1, BusyRequest DEF Stands
<1>4. \A p \in Requests : p # r /\ At(p, "commit") => req[p].app # req[r].app
  <2> SUFFICES ASSUME NEW p \in Requests, p # r, At(p, "commit"),
                      req[p].app = req[r].app
               PROVE  FALSE
    OBVIOUS
  <2>1. Busy(p) /\ InHandler(req[p]) /\ Stands(req[p]) /\ req[p].at = "commit"
    BY BusyRequest DEF At
  <2> QED BY <1>3, <2>1 DEF Stands, InHandler
<1>5. \A p \in Requests : p # r /\ Busy(p) /\ req[p].input = "apply"
                            => req[p].app # req[r].app
  BY <1>1 DEF IInv, SubmittedOnce
<1>6. "submitted" \in Reached \ {"none"}
  BY DEF Reached
<1> QED BY <1>1, <1>2, <1>4, <1>5, <1>6, WriteInv

\* No submission is under way for an application that other requests serve.
LEMMA NotSubmitting ==
  ASSUME IInv, NEW r \in Requests, Busy(r), req[r].input # "apply"
  PROVE  \A p \in Requests : p # r /\ Busy(p) /\ req[p].input = "apply"
                               => req[p].app # req[r].app
<1> SUFFICES ASSUME NEW p \in Requests, Busy(p), req[p].input = "apply",
                    req[p].app = req[r].app
             PROVE  FALSE
  OBVIOUS
<1>1. Stands(req[p]) /\ Stands(req[r])
  BY BusyRequest
<1> QED BY <1>1 DEF Stands

LEMMA AdvanceInv ==
  ASSUME IInv, NEW r \in Requests, Advance(r)
  PROVE  IInv'
<1>1. /\ Busy(r) /\ req[r].at = "update" /\ req[r].input \in OfficerStages
      /\ req[r].input # "apply"
      /\ ~Locked(req[r].app) /\ Ends(r) /\ UNCHANGED <<steps, misread>>
  BY DEF Advance, At, OfficerStages
<1>2. req[r] \in Request /\ Stands(req[r])
  BY <1>1, BusyRequest
<1>3. CASE UNCHANGED status
  BY <1>1, <1>3, EndInv, Still
<1>4. CASE status' = [status EXCEPT ![req[r].app] = req[r].next]
  <2> DEFINE new == req[r].next
  <2>1. /\ new \in {"officer_review", "bm_review"}
        /\ new = "bm_review" => DoneOfficer(req[r].app) = OfficerStages
    BY <1>1, <1>2 DEF Stands
  <2>2. \A p \in Requests : p # r /\ At(p, "commit") => req[p].app # req[r].app
    BY <1>1 DEF Locked
  <2>3. /\ new \in Reached \ {"none"}
        /\ new \notin {"submitted", "officer_review"}
             => DoneOfficer(req[r].app) = OfficerStages
        /\ new = "approved" => Excused(req[r].app)
    BY <2>1 DEF Reached
  <2>4. status' = [status EXCEPT ![req[r].app] = new]
    BY <1>4
  <2> HIDE DEF new
  <2> QED BY <1>1, <2>2, <2>3, <2>4, NotSubmitting, WriteInv
<1> QED BY <1>3, <1>4 DEF Advance

LEMMA CommitDecisionInv ==
  ASSUME IInv, NEW r \in Requests, CommitDecision(r)
  PROVE  IInv'
<1>1. /\ Busy(r) /\ At(r, "commit") /\ req[r].at = "commit"
      /\ Ends(r) /\ UNCHANGED <<steps, misread>>
  BY DEF CommitDecision, At
<1>2. req[r] \in Request /\ InHandler(req[r]) /\ Stands(req[r])
  BY <1>1, BusyRequest
<1>3. req[r].input \in Decisions
  BY <1>1, <1>2 DEF InHandler, Request, AllInputs, OfficerStages, ReviewStages
<1> DEFINE new == req[r].next
<1>4. /\ new \in {"approved", "rejected"}
      /\ DoneOfficer(req[r].app) = OfficerStages
      /\ new = "approved" => Excused(req[r].app)
      /\ req[r].input # "apply"
  BY <1>2, <1>3 DEF Stands, Decisions
<1>5. new \in Reached \ {"none"}
  BY <1>4 DEF Reached
<1>6. status' = [status EXCEPT ![req[r].app] = new]
  BY DEF CommitDecision
<1>7. \A p \in Requests : p # r /\ At(p, "commit") => req[p].app # req[r].app
  BY <1>1 DEF IInv, LockExclusive
<1> HIDE DEF new
<1> QED BY <1>1, <1>4, <1>5, <1>6, <1>7, NotSubmitting, WriteInv

-----------------------------------------------------------------------------
(* The theorems *)

LEMMA NextInv == IInv /\ [Next]_vars => IInv'
<1> SUFFICES ASSUME IInv, [Next]_vars PROVE IInv'
  OBVIOUS
<1>1. ASSUME NEW r \in Requests, Serve(r) PROVE IInv'
  BY <1>1, SubmitInv, CheckExistingInv, RecordStepInv, RereadInv, AdvanceInv,
     RecordDecisionInv, CheckDecisionInv, CommitDecisionInv DEF Serve
<1>2. ASSUME NEW r \in Requests, Lost(r) PROVE IInv'
  BY <1>2, EndInv, Still DEF Lost
<1>3. CASE UNCHANGED vars
  BY <1>3 DEF vars, IInv, TypeOK, StatusReached, RequestsStand, Stands, Excused,
     LockExclusive, SubmittedOnce, ChainComplete, WithinLimit, Busy, At, DoneOfficer
<1> QED BY <1>1, <1>2, <1>3, ApplyInv, BeginStepInv, BeginDecisionInv DEF Next

\* The state keeps its type, and every request is at a query of its handler.
THEOREM TypeCorrect == Spec => []TypeOK
<1>1. IInv => TypeOK
  BY DEF IInv
<1> QED BY <1>1, InitInv, NextInv, PTL DEF Spec

\* With any number of concurrent requests, and requests lost anywhere, no
\* application reaches the branch manager or a decision without the three
\* officer stages on record.
THEOREM ChainKept == Spec => []ChainComplete
<1>1. IInv => ChainComplete
  BY DEF IInv
<1> QED BY <1>1, InitInv, NextInv, PTL DEF Spec

\* With any number of concurrent requests, requests lost anywhere and policies
\* that cannot be read, an application above the branch manager's limit is
\* approved only where the default took the limit's place, and never above it.
THEOREM LimitKept == Spec => []WithinLimit
<1>1. IInv => WithinLimit
  BY DEF IInv
<1> QED BY <1>1, InitInv, NextInv, PTL DEF Spec

\* A late approval never revives a rejected application.
THEOREM RejectionsStand == Spec => RejectedForGood
<1>1. ASSUME IInv, [Next]_vars
      PROVE  [\A a \in Applications :
                status[a] = "rejected" => status'[a] = "rejected"]_vars
  <2> SUFFICES ASSUME Next, NEW a \in Applications, status[a] = "rejected"
               PROVE  status'[a] = "rejected"
    BY <1>1
  <2>1. ASSUME NEW r \in Requests, Submit(r) PROVE status'[a] = "rejected"
    <3>1. Busy(r) /\ req[r].input = "apply"
      BY <2>1 DEF Submit, At
    <3>2. req[r] \in Request /\ status[req[r].app] = "none"
      BY <1>1, <3>1, BusyRequest DEF Stands
    <3> QED BY <2>1, <3>2, <1>1 DEF Submit, IInv, TypeOK
  <2>2. ASSUME NEW r \in Requests, Advance(r) PROVE status'[a] = "rejected"
    <3>1. Busy(r) /\ req[r].input \in OfficerStages /\ req[r].at = "update"
      BY <2>2 DEF Advance, At
    <3>2. req[r].next \in {"officer_review", "bm_review"}
      BY <1>1, <3>1, BusyRequest DEF Stands
    <3>3. req[r].app = a => ~Transition(a, req[r].next)
      BY <3>2 DEF Transition
    <3> QED BY <2>2, <3>3, <1>1 DEF Advance, IInv, TypeOK
  <2>3. ASSUME NEW r \in Requests, CommitDecision(r) PROVE status'[a] = "rejected"
    <3>1. Busy(r) /\ req[r].at = "commit"
      BY <2>3 DEF CommitDecision, At
    <3>2. req[r].app = a => req[r].next = "rejected"
      BY <1>1, <3>1, BusyRequest DEF Stands
    <3> QED BY <2>3, <3>2, <1>1 DEF CommitDecision, IInv, TypeOK
  <2>4. ASSUME UNCHANGED status PROVE status'[a] = "rejected"
    BY <2>4
  <2> QED BY <2>1, <2>2, <2>3, <2>4 DEF Next, Serve, Apply, BeginStep,
             BeginDecision, CheckExisting, RecordStep, Reread, RecordDecision,
             CheckDecision, Lost
<1> QED BY <1>1, InitInv, NextInv, PTL DEF Spec, RejectedForGood

-----------------------------------------------------------------------------
(* The limit on overlapping loans *)

\* Requests that are about to approve one more application of the member.
Approving(m) ==
  {r \in Requests : /\ At(r, "commit") /\ req[r].next = "approved"
                    /\ Applicant[req[r].app] = m
                    /\ status[req[r].app] # "approved"}

\* Each of them has found room for one more.
OverlapInv ==
  \A m \in Members :
    Cardinality(Approved(m)) + Cardinality(Approving(m))
      < MaxOverlapping + Cardinality(Requests)

LEMMA Sizes ==
  ASSUME NEW S \in SUBSET Applications, NEW R \in SUBSET Requests
  PROVE  /\ IsFiniteSet(S) /\ Cardinality(S) \in Nat
         /\ IsFiniteSet(R) /\ Cardinality(R) \in Nat
         /\ Cardinality(R) <= Cardinality(Requests)
         /\ Cardinality(Requests) \in Nat
  BY LoanConstants, FS_Subset, FS_CardinalityType DEF LoanConstants

LEMMA SubsetsOf ==
  ASSUME NEW m
  PROVE  /\ Approved(m) \in SUBSET Applications
         /\ Approving(m) \in SUBSET Requests
  BY DEF Approved, Approving

LEMMA SubsetsOfPrimed ==
  ASSUME NEW m
  PROVE  /\ Approved(m)' \in SUBSET Applications
         /\ Approving(m)' \in SUBSET Requests
  BY DEF Approved, Approving

LEMMA InitOverlap == Init => OverlapInv
<1> SUFFICES ASSUME Init, NEW m \in Members
             PROVE  Cardinality(Approved(m)) + Cardinality(Approving(m))
                      < MaxOverlapping + Cardinality(Requests)
  BY DEF OverlapInv
<1>1. Approved(m) = {} /\ Approving(m) = {}
  BY DEF Init, Approved, Approving, At, Busy
<1>2. Cardinality(Requests) \in Nat \ {0}
  BY LoanConstants, FS_EmptySet, FS_CardinalityType DEF LoanConstants
<1> QED BY <1>1, <1>2, FS_EmptySet, LoanConstants DEF LoanConstants

\* Fewer approved applications and fewer approvals under way.
LEMMA Shrinks ==
  ASSUME OverlapInv, NEW m \in Members,
         Approved(m)' \subseteq Approved(m),
         Approving(m)' \subseteq Approving(m)
  PROVE  (Cardinality(Approved(m)) + Cardinality(Approving(m))
            < MaxOverlapping + Cardinality(Requests))'
<1>1. Cardinality(Approved(m)') <= Cardinality(Approved(m))
  BY SubsetsOf, Sizes, FS_Subset
<1>2. Cardinality(Approving(m)') <= Cardinality(Approving(m))
  BY SubsetsOf, Sizes, FS_Subset
<1>3. /\ Cardinality(Approved(m)') \in Nat /\ Cardinality(Approving(m)') \in Nat
      /\ Cardinality(Approved(m)) \in Nat /\ Cardinality(Approving(m)) \in Nat
      /\ Cardinality(Requests) \in Nat /\ MaxOverlapping \in Nat
  BY SubsetsOf, SubsetsOfPrimed, Sizes, LoanConstants DEF LoanConstants
<1> QED BY <1>1, <1>2, <1>3 DEF OverlapInv

\* The trigger has counted fewer than the limit, and no more requests than
\* there are can be approving beside this one.
LEMMA CheckOverlap ==
  ASSUME IInv, OverlapInv, NEW r \in Requests, CheckDecision(r),
         NEW m \in Members
  PROVE  (Cardinality(Approved(m)) + Cardinality(Approving(m))
            < MaxOverlapping + Cardinality(Requests))'
<1> DEFINE a == req[r].app
<1>1. /\ UNCHANGED status
      /\ \A p \in Requests : p # r => req'[p] = req[p]
  BY DEF CheckDecision, Goes, Waiting, Ends, IInv, TypeOK
<1>2. Busy(r) /\ a \in Applications
  BY BusyRequest DEF CheckDecision, At, Request
<1>3. Approved(m)' = Approved(m)
  BY <1>1 DEF Approved
<1>4. CASE r \notin Approving(m)'
  <2>1. Approving(m)' \subseteq Approving(m)
    BY <1>1, <1>4 DEF Approving, At, Busy
  <2> QED BY <1>3, <2>1, Shrinks
<1>5. CASE r \in Approving(m)'
  <2>1. /\ Busy(r)' /\ req'[r].next = "approved" /\ status[req'[r].app] # "approved"
        /\ Applicant[req'[r].app] = m
    BY <1>1, <1>5 DEF Approving, At
  <2>2. req'[r] = [app |-> a, input |-> req[r].input, at |-> "commit",
                   next |-> req[r].next]
        /\ OverlapAllows(a, req[r].next)
    BY <2>1 DEF CheckDecision, Goes, Waiting, Ends, Busy, IInv, TypeOK
  <2>3. Applicant[a] = m /\ status[a] # "approved" /\ req[r].next = "approved"
    BY <2>1, <2>2
  <2>4. Cardinality(Others(a, {"approved", "disbursed"})) < MaxOverlapping
    BY <2>2, <2>3 DEF OverlapAllows
  <2>5. Approved(m) \subseteq Others(a, {"approved", "disbursed"})
    BY <2>3 DEF Approved, Others
  <2>6. Others(a, {"approved", "disbursed"}) \in SUBSET Applications
    BY DEF Others
  <2>7. Cardinality(Approved(m)) <= Cardinality(Others(a, {"approved", "disbursed"}))
    BY <2>5, <2>6, Sizes, FS_Subset
  <2>8. /\ Cardinality(Approving(m)') <= Cardinality(Requests)
        /\ Cardinality(Approving(m)') \in Nat /\ Cardinality(Requests) \in Nat
        /\ Cardinality(Approved(m)) \in Nat
        /\ Cardinality(Others(a, {"approved", "disbursed"})) \in Nat
        /\ MaxOverlapping \in Nat
    BY <2>6, SubsetsOf, SubsetsOfPrimed, Sizes, LoanConstants DEF LoanConstants
  <2> QED BY <1>3, <2>4, <2>7, <2>8
<1> QED BY <1>4, <1>5

\* An approval that commits turns from one of the second set into one of the
\* first.
LEMMA CommitOverlap ==
  ASSUME IInv, OverlapInv, NEW r \in Requests, CommitDecision(r),
         NEW m \in Members
  PROVE  (Cardinality(Approved(m)) + Cardinality(Approving(m))
            < MaxOverlapping + Cardinality(Requests))'
<1> DEFINE a == req[r].app
<1>1. At(r, "commit") /\ Busy(r) /\ a \in Applications
  BY BusyRequest DEF CommitDecision, At, Request
<1>2. /\ req'[r] = NoRequest
      /\ \A p \in Requests : p # r => req'[p] = req[p]
      /\ status'[a] = req[r].next
      /\ \A b \in Applications : b # a => status'[b] = status[b]
  BY <1>1 DEF CommitDecision, Ends, IInv, TypeOK
<1>3. Approving(m)' \subseteq Approving(m) \ {r}
  <2> SUFFICES ASSUME NEW p \in Requests, p \in Approving(m)'
               PROVE  p \in Approving(m) /\ p # r
    BY DEF Approving
  <2>1. p # r /\ req'[p] = req[p]
    BY <1>2 DEF Approving, At, Busy
  <2>2. At(p, "commit") /\ req[p].app # a /\ req[p].app \in Applications
    BY <2>1, <1>1, BusyRequest DEF Approving, At, Busy, IInv, LockExclusive, Request
  <2> QED BY <2>1, <2>2, <1>2 DEF Approving, At, Busy
<1>4. Approved(m)' \subseteq Approved(m) \cup {a}
  BY <1>2 DEF Approved
<1>5. CASE r \in Approving(m)
  <2>1. /\ IsFiniteSet(Approved(m)) /\ IsFiniteSet(Approving(m))
        /\ Cardinality(Approved(m)) \in Nat /\ Cardinality(Approving(m)) \in Nat
        /\ Cardinality(Requests) \in Nat /\ MaxOverlapping \in Nat
        /\ Cardinality(Approved(m)') \in Nat /\ Cardinality(Approving(m)') \in Nat
    BY SubsetsOf, SubsetsOfPrimed, Sizes, LoanConstants DEF LoanConstants
  <2>2. /\ IsFiniteSet(Approved(m) \cup {a})
        /\ Cardinality(Approved(m) \cup {a}) <= Cardinality(Approved(m)) + 1
    <3>1. /\ IsFiniteSet(Approved(m) \cup {a})
          /\ Cardinality(Approved(m) \cup {a}) =
               IF a \in Approved(m) THEN Cardinality(Approved(m))
                                    ELSE Cardinality(Approved(m)) + 1
      BY <2>1, FS_AddElement
    <3> QED BY <2>1, <3>1
  <2>3. Cardinality(Approved(m)') <= Cardinality(Approved(m) \cup {a})
    BY <1>4, <2>2, FS_Subset
  <2>4. /\ IsFiniteSet(Approving(m) \ {r})
        /\ Cardinality(Approving(m) \ {r}) = Cardinality(Approving(m)) - 1
    BY <1>5, <2>1, FS_RemoveElement
  <2>5. Cardinality(Approving(m)') <= Cardinality(Approving(m) \ {r})
    BY <1>3, <2>4, FS_Subset
  <2>6. Cardinality(Approved(m) \cup {a}) \in Nat
    BY <2>2, FS_CardinalityType
  <2> QED BY <2>1, <2>2, <2>3, <2>4, <2>5, <2>6 DEF OverlapInv
<1>6. CASE r \notin Approving(m)
  <2>1. a \in Approved(m)' => a \in Approved(m)
    BY <1>1, <1>2, <1>6 DEF Approved, Approving
  <2> QED BY <1>3, <1>4, <2>1, Shrinks
<1> QED BY <1>5, <1>6

LEMMA NextOverlap == IInv /\ OverlapInv /\ [Next]_vars => OverlapInv'
<1> SUFFICES ASSUME IInv, OverlapInv, [Next]_vars, NEW m \in Members
             PROVE  (Cardinality(Approved(m)) + Cardinality(Approving(m))
                       < MaxOverlapping + Cardinality(Requests))'
  BY DEF OverlapInv
<1>1. ASSUME NEW r \in Requests, Submit(r) \/ Advance(r)
      PROVE  /\ Approved(m)' \subseteq Approved(m)
             /\ Approving(m)' \subseteq Approving(m)
  <2>1. /\ Busy(r) /\ Ends(r)
        /\ status' = status
           \/ /\ status' = [status EXCEPT ![req[r].app] = IF Submit(r)
                              THEN "submitted" ELSE req[r].next]
              /\ Submit(r) => req[r].input = "apply"
              /\ ~Submit(r) => Transition(req[r].app, req[r].next)
                               /\ req[r].input \in OfficerStages
                               /\ req[r].at = "update"
    BY <1>1 DEF Submit, Advance, At
  <2>2. /\ req[r] \in Request /\ Stands(req[r])
    BY <2>1, BusyRequest
  <2>3. /\ \A b \in Applications : status'[b] = "approved" => status[b] = "approved"
        /\ \A b \in Applications : status[b] = "approved" => status'[b] = "approved"
    <3>1. CASE status' = status
      BY <3>1
    <3>2. CASE status' # status /\ Submit(r)
      <4>1. status[req[r].app] = "none"
        BY <2>1, <2>2, <3>2 DEF Stands
      <4> QED BY <2>1, <2>2, <3>2, <4>1 DEF IInv, TypeOK, Request
    <3>3. CASE status' # status /\ ~Submit(r)
      <4>1. req[r].next \in {"officer_review", "bm_review"}
        BY <2>1, <2>2, <3>3 DEF Stands
      <4>2. status[req[r].app] # "approved"
        BY <2>1, <3>3, <4>1 DEF Transition
      <4> QED BY <2>1, <2>2, <3>3, <4>1, <4>2 DEF IInv, TypeOK, Request
    <3> QED BY <3>1, <3>2, <3>3
  <2>4. \A p \in Requests : Busy(p)' => req'[p] = req[p] /\ Busy(p)
    <3>1. req' = [req EXCEPT ![r] = NoRequest] /\ req \in [Requests -> Request \cup {NoRequest}]
      BY <2>1 DEF Ends, IInv, TypeOK
    <3> QED BY <3>1 DEF Busy
  <2>5. \A p \in Requests : Busy(p) => req[p].app \in Applications
    BY BusyRequest DEF Request
  <2> QED BY <2>3, <2>4, <2>5 DEF Approved, Approving, At
<1>2. ASSUME UNCHANGED status,
             \A p \in Requests : req'[p] = req[p] \/ ~At(p, "commit")'
      PROVE  /\ Approved(m)' \subseteq Approved(m)
             /\ Approving(m)' \subseteq Approving(m)
  BY <1>2 DEF Approved, Approving, At, Busy
<1>3. ASSUME NEW r \in Requests,
             \/ \E a \in Applications : Apply(r, a)
             \/ \E a \in Applications, i \in AllInputs : BeginStep(r, a, i)
             \/ \E a \in Applications, d \in Decisions, read \in BOOLEAN :
                  BeginDecision(r, a, d, read)
             \/ CheckExisting(r) \/ RecordStep(r) \/ Reread(r)
             \/ RecordDecision(r) \/ Lost(r)
      PROVE  /\ UNCHANGED status
             /\ \A p \in Requests : req'[p] = req[p] \/ ~At(p, "commit")'
  BY <1>3 DEF Apply, BeginStep, BeginDecision, CheckExisting, RecordStep, Reread,
     RecordDecision, Lost, Starts, Goes, Waiting, Ends, At, Busy, IInv, TypeOK
<1>4. CASE UNCHANGED vars
  <2>1. UNCHANGED status /\ \A p \in Requests : req'[p] = req[p]
    BY <1>4 DEF vars
  <2> QED BY <2>1, <1>2, Shrinks
<1>5. ASSUME NEW r \in Requests, CheckDecision(r) \/ CommitDecision(r)
      PROVE  (Cardinality(Approved(m)) + Cardinality(Approving(m))
                < MaxOverlapping + Cardinality(Requests))'
  BY <1>5, CheckOverlap, CommitOverlap
<1> QED BY <1>1, <1>2, <1>3, <1>4, <1>5, Shrinks DEF Next, Serve

\* Concurrent approvals exceed the overlap limit by less than the number of
\* requests, whatever that number is.
THEOREM OverlapStaysBounded == Spec => []OverlapBounded
<1>1. IInv /\ OverlapInv => OverlapBounded
  <2> SUFFICES ASSUME OverlapInv, NEW m \in Members
               PROVE  Cardinality(Approved(m)) < MaxOverlapping + Cardinality(Requests)
    BY DEF OverlapBounded
  <2>1. /\ Cardinality(Approved(m)) \in Nat /\ Cardinality(Approving(m)) \in Nat
        /\ Cardinality(Requests) \in Nat /\ MaxOverlapping \in Nat
    BY SubsetsOf, Sizes, LoanConstants DEF LoanConstants
  <2> QED BY <2>1 DEF OverlapInv
<1> QED BY <1>1, InitInv, NextInv, InitOverlap, NextOverlap, PTL DEF Spec

-----------------------------------------------------------------------------
(* Decisions and their rows *)

\* A decision that is about to be written to the application has its row.
WrittenBefore(q) ==
  q.input \in Decisions /\ q.at \in {"update", "commit"} => steps[q.app][q.input] > 0

RecordInv ==
  DecisionsOnRecord /\ \A r \in Requests : Busy(r) => WrittenBefore(req[r])

\* A step that writes no decision to an application, deletes no row, and leaves each
\* request where it was or before a decision's row, or after a row that is there.
LEMMA RowsStay ==
  ASSUME IInv, RecordInv,
         \A a \in Applications :
           status'[a] = status[a] \/ status'[a] \notin {"approved", "rejected"},
         \A a \in Applications, i \in AllInputs : steps[a][i] > 0 => steps'[a][i] > 0,
         \A p \in Requests : Busy(p)' => req'[p] = req[p] \/ WrittenBefore(req[p])'
  PROVE  RecordInv'
<1>1. DecisionsOnRecord'
  BY DEF RecordInv, DecisionsOnRecord, AllInputs, Decisions
<1>2. ASSUME NEW p \in Requests, Busy(p)', req'[p] = req[p]
      PROVE  WrittenBefore(req[p])'
  <2>1. Busy(p) /\ req[p] \in Request
    BY <1>2, BusyRequest DEF Busy
  <2> QED BY <1>2, <2>1 DEF RecordInv, WrittenBefore, Request, AllInputs, Decisions
<1> QED BY <1>1, <1>2 DEF RecordInv

LEMMA RecordsRow ==
  ASSUME IInv, RecordInv, NEW r \in Requests, RecordStep(r) \/ RecordDecision(r)
  PROVE  RecordInv'
<1> DEFINE q == req[r]
<1>1. /\ Busy(r) /\ UNCHANGED status
      /\ steps' = [steps EXCEPT ![q.app][q.input] = @ + 1]
  BY DEF RecordStep, RecordDecision, At
<1>2. q.app \in Applications /\ q.input \in AllInputs
  BY <1>1, BusyRequest DEF Request, RecordStep, RecordDecision, AllInputs, Decisions
<1>3. steps \in [Applications -> [AllInputs -> Nat]]
  BY DEF IInv, TypeOK
<1>4. \A a \in Applications, i \in AllInputs : steps[a][i] > 0 => steps'[a][i] > 0
  <2> SUFFICES ASSUME NEW a \in Applications, NEW i \in AllInputs, steps[a][i] > 0
               PROVE  steps'[a][i] > 0
    OBVIOUS
  <2>1. steps[a][i] \in Nat /\ (steps'[a][i] = steps[a][i] \/ steps'[a][i] = steps[a][i] + 1)
    BY <1>1, <1>2, <1>3
  <2> QED BY <2>1
<1>5. ASSUME NEW p \in Requests, Busy(p)'
      PROVE  req'[p] = req[p] \/ WrittenBefore(req[p])'
  <2>1. CASE p # r
    BY <2>1 DEF RecordStep, RecordDecision, Goes, Waiting, Ends, IInv, TypeOK
  <2>2. CASE p = r /\ RecordStep(r)
    <3>1. req'[r].at = "reread"
      BY <1>5, <2>2 DEF RecordStep, Goes, Waiting, Ends, Busy, IInv, TypeOK
    <3> QED BY <2>2, <3>1 DEF WrittenBefore
  <2>3. CASE p = r /\ RecordDecision(r)
    <3>1. req'[r].app = q.app /\ req'[r].input = q.input
      BY <2>3 DEF RecordDecision, Goes, Waiting, IInv, TypeOK
    <3>2. steps[q.app][q.input] \in Nat /\ steps'[q.app][q.input] = steps[q.app][q.input] + 1
      BY <1>1, <1>2, <1>3
    <3> QED BY <2>3, <3>1, <3>2 DEF WrittenBefore
  <2> QED BY <2>1, <2>2, <2>3
<1> QED BY <1>1, <1>4, <1>5, RowsStay

LEMMA CommitsRecorded ==
  ASSUME IInv, RecordInv, NEW r \in Requests, CommitDecision(r)
  PROVE  RecordInv'
<1> DEFINE q == req[r]
<1>1. Busy(r) /\ q.at = "commit" /\ UNCHANGED <<steps, misread>>
  BY DEF CommitDecision, At
<1>2. q \in Request /\ InHandler(q) /\ Stands(q) /\ WrittenBefore(q)
  BY <1>1, BusyRequest DEF RecordInv
<1>3. q.input \in Decisions
  BY <1>1, <1>2 DEF InHandler, Request, AllInputs, OfficerStages, ReviewStages
<1>4. /\ steps[q.app][q.input] > 0
      /\ q.input = "approve" => q.next = "approved"
      /\ q.input = "reject" => q.next = "rejected"
  BY <1>1, <1>2, <1>3 DEF WrittenBefore, Stands
<1>5. \A a \in Applications : status'[a] = IF a = q.app THEN q.next ELSE status[a]
  BY <1>2 DEF CommitDecision, IInv, TypeOK, Request
<1>6. DecisionsOnRecord'
  BY <1>1, <1>3, <1>4, <1>5 DEF RecordInv, DecisionsOnRecord, Decisions
<1>7. ASSUME NEW p \in Requests, Busy(p)' PROVE WrittenBefore(req[p])'
  <2>1. req'[p] = req[p] /\ Busy(p)
    BY <1>7 DEF CommitDecision, Ends, Busy, IInv, TypeOK
  <2> QED BY <1>1, <2>1 DEF RecordInv, WrittenBefore
<1> QED BY <1>6, <1>7 DEF RecordInv

LEMMA NextRecorded == IInv /\ RecordInv /\ [Next]_vars => RecordInv'
<1> SUFFICES ASSUME IInv, RecordInv, [Next]_vars PROVE RecordInv'
  OBVIOUS
<1>1. ASSUME NEW r \in Requests, Submit(r) \/ Advance(r) PROVE RecordInv'
  <2>1. Busy(r) /\ Ends(r) /\ UNCHANGED <<steps, misread>>
    BY <1>1 DEF Submit, Advance, At
  <2>2. \A a \in Applications :
          status'[a] = status[a] \/ status'[a] \notin {"approved", "rejected"}
    <3>1. CASE Submit(r)
      BY <3>1 DEF Submit, IInv, TypeOK
    <3>2. CASE Advance(r)
      <4>1. req[r].next \in {"officer_review", "bm_review"}
        BY <2>1, <3>2, BusyRequest DEF Advance, At, Stands
      <4> QED BY <3>2, <4>1 DEF Advance, IInv, TypeOK
    <3> QED BY <1>1, <3>1, <3>2
  <2>3. \A p \in Requests : Busy(p)' => req'[p] = req[p]
    BY <2>1 DEF Ends, Busy, IInv, TypeOK
  <2> QED BY <2>1, <2>2, <2>3, RowsStay
<1>2. ASSUME NEW r \in Requests,
             \/ \E a \in Applications : Apply(r, a)
             \/ \E a \in Applications, i \in AllInputs : BeginStep(r, a, i)
             \/ \E a \in Applications, d \in Decisions, read \in BOOLEAN :
                  BeginDecision(r, a, d, read)
             \/ CheckExisting(r) \/ Reread(r) \/ Lost(r)
      PROVE  RecordInv'
  <2>1. UNCHANGED <<status, steps>>
    BY <1>2 DEF Apply, BeginStep, BeginDecision, CheckExisting, Reread, Lost
  <2>2. ASSUME NEW p \in Requests, Busy(p)', req'[p] # req[p]
        PROVE  WrittenBefore(req[p])'
    <3>1. req'[p].at \in {"insert", "existing"} \/ (Reread(r) /\ p = r)
      BY <1>2, <2>2 DEF Apply, BeginStep, BeginDecision, CheckExisting, Reread, Lost,
         Starts, Goes, Waiting, Ends, Busy, IInv, TypeOK
    <3>2. CASE Reread(r) /\ p = r
      <4>1. req[r].input \notin Decisions
        BY <3>2, BusyRequest DEF Reread, At, InHandler, Request
      <4>2. req'[r].input = req[r].input
        BY <2>2, <3>2 DEF Reread, Goes, Waiting, Ends, Busy, IInv, TypeOK
      <4> QED BY <3>2, <4>1, <4>2 DEF WrittenBefore
    <3> QED BY <3>1, <3>2 DEF WrittenBefore
  <2> QED BY <2>1, <2>2, RowsStay
<1>3. ASSUME NEW r \in Requests, CheckDecision(r) PROVE RecordInv'
  <2>1. UNCHANGED data /\ Busy(r) /\ req[r].at = "update"
    BY <1>3 DEF CheckDecision, At
  <2>2. WrittenBefore(req[r])
    BY <2>1 DEF RecordInv
  <2>3. ASSUME NEW p \in Requests, Busy(p)', req'[p] # req[p]
        PROVE  req'[p].input = req[r].input /\ req'[p].app = req[r].app
    BY <1>3, <2>3 DEF CheckDecision, Goes, Waiting, Ends, Busy, IInv, TypeOK
  <2>4. \A p \in Requests : Busy(p)' => req'[p] = req[p] \/ WrittenBefore(req[p])'
    BY <2>1, <2>2, <2>3 DEF WrittenBefore
  <2> QED BY <2>1, <2>4, RowsStay
<1>4. CASE UNCHANGED vars
  BY <1>4, RowsStay DEF vars
<1> QED BY <1>1, <1>2, <1>3, <1>4, RecordsRow, CommitsRecorded DEF Next, Serve

\* No application is approved or rejected without a row of that decision, whatever
\* requests overlap or are lost between the row and the update.
THEOREM DecisionsStayOnRecord == Spec => []DecisionsOnRecord
<1>1. Init => RecordInv
  BY DEF Init, RecordInv, DecisionsOnRecord, Busy
<1>2. RecordInv => DecisionsOnRecord
  BY DEF RecordInv
<1> QED BY <1>1, <1>2, InitInv, NextInv, NextRecorded, PTL DEF Spec

-----------------------------------------------------------------------------
(* The chain of statuses *)

\* The moves of an application: an approval may still be turned into a rejection.
StatusChain ==
  {<<"none", "submitted">>, <<"submitted", "officer_review">>,
   <<"officer_review", "bm_review">>, <<"bm_review", "approved">>,
   <<"bm_review", "rejected">>, <<"approved", "rejected">>}

\* What the trigger allowed when it ran it would still allow at the commit.
TriggersStand ==
  \A r \in Requests : At(r, "commit") => Transition(req[r].app, req[r].next)

\* A step that writes a status has its own application locked, or finds it
\* unlocked, and leaves the others alone.
LEMMA WritesUnlocked ==
  ASSUME IInv, NEW r \in Requests, Submit(r) \/ Advance(r) \/ CommitDecision(r)
  PROVE  /\ Ends(r)
         /\ \A p \in Requests :
              p # r /\ At(p, "commit") => status'[req[p].app] = status[req[p].app]
<1>1. Ends(r) /\ Busy(r) /\ req[r].app \in Applications
  BY BusyRequest DEF Submit, Advance, CommitDecision, At, Request
<1>2. ASSUME NEW p \in Requests, p # r, At(p, "commit")
      PROVE  status'[req[p].app] = status[req[p].app]
  <2>1. Busy(p) /\ req[p] \in Request /\ Stands(req[p]) /\ InHandler(req[p])
    BY <1>2, BusyRequest DEF At
  <2>2. req[p].app # req[r].app
    <3>1. CASE Submit(r)
      <4>1. status[req[r].app] = "none"
        BY <1>1, <3>1, BusyRequest DEF Submit, At, Stands
      <4>2. req[p].input # "apply"
        BY <1>2, <2>1 DEF InHandler, At
      <4>3. QED BY <2>1, <4>1, <4>2 DEF Stands
    <3>2. CASE Advance(r)
      BY <1>2, <3>2 DEF Advance, Locked
    <3>3. CASE CommitDecision(r)
      BY <1>2, <3>3 DEF CommitDecision, IInv, LockExclusive
    <3>4. QED BY <3>1, <3>2, <3>3
  <2>3. \/ UNCHANGED status
        \/ \E new : status' = [status EXCEPT ![req[r].app] = new]
    BY DEF Submit, Advance, CommitDecision
  <2>4. QED BY <2>1, <2>2, <2>3 DEF IInv, TypeOK, Request
<1>3. QED BY <1>1, <1>2

LEMMA NextTriggers == IInv /\ TriggersStand /\ [Next]_vars => TriggersStand'
<1> SUFFICES ASSUME IInv, TriggersStand, [Next]_vars, NEW p \in Requests,
                    At(p, "commit")'
             PROVE  Transition(req[p].app, req[p].next)'
  BY DEF TriggersStand
<1>1. ASSUME NEW r \in Requests, Submit(r) \/ Advance(r) \/ CommitDecision(r)
      PROVE  Transition(req[p].app, req[p].next)'
  <2>1. p # r /\ req'[p] = req[p] /\ At(p, "commit")
    BY <1>1, WritesUnlocked DEF Ends, At, Busy, IInv, TypeOK
  <2>2. status'[req[p].app] = status[req[p].app]
    BY <1>1, <2>1, WritesUnlocked
  <2>3. Transition(req[p].app, req[p].next)
    BY <2>1 DEF TriggersStand
  <2>4. QED BY <2>1, <2>2, <2>3 DEF Transition
<1>2. ASSUME UNCHANGED status, req'[p] = req[p]
      PROVE  Transition(req[p].app, req[p].next)'
  <2>1. Transition(req[p].app, req[p].next)
    BY <1>2 DEF TriggersStand, At, Busy
  <2>2. QED BY <1>2, <2>1 DEF Transition
<1>3. ASSUME NEW r \in Requests, CheckDecision(r)
      PROVE  Transition(req[p].app, req[p].next)'
  <2>1. UNCHANGED status
    BY <1>3 DEF CheckDecision
  <2>2. CASE req'[p] = req[p]
    BY <1>2, <2>1, <2>2
  <2>3. CASE req'[p] # req[p]
    <3>1. /\ Transition(req[r].app, req[r].next)
          /\ req'[p].app = req[r].app /\ req'[p].next = req[r].next
      BY <1>3, <2>3 DEF CheckDecision, Goes, Waiting, Ends, At, Busy, IInv, TypeOK
    <3>2. QED BY <2>1, <3>1 DEF Transition
  <2>4. QED BY <2>2, <2>3
<1>4. ASSUME NEW r \in Requests,
             \/ \E a \in Applications : Apply(r, a)
             \/ \E a \in Applications, i \in AllInputs : BeginStep(r, a, i)
             \/ \E a \in Applications, d \in Decisions, read \in BOOLEAN :
                  BeginDecision(r, a, d, read)
             \/ CheckExisting(r) \/ RecordStep(r) \/ Reread(r)
             \/ RecordDecision(r) \/ Lost(r)
      PROVE  UNCHANGED status /\ req'[p] = req[p]
  <2>1. UNCHANGED status
    BY <1>4 DEF Apply, BeginStep, BeginDecision, CheckExisting, RecordStep, Reread,
       RecordDecision, Lost
  <2>2. req'[p] = req[p]
    BY <1>4 DEF Apply, BeginStep, BeginDecision, CheckExisting, RecordStep, Reread,
       RecordDecision, Lost, Starts, Goes, Waiting, Ends, At, Busy, IInv, TypeOK
  <2>3. QED BY <2>1, <2>2
<1>5. CASE UNCHANGED vars
  BY <1>2, <1>5 DEF vars
<1>6. QED BY <1>1, <1>2, <1>3, <1>4, <1>5 DEF Next, Serve

\* However requests overlap, an application moves one stage at a time: two requests
\* that have counted the stages, or two decisions, never skip a status, step back or
\* repeat an approval, although the triggers run before the commit.
THEOREM OneStageAtATime ==
  Spec => [][\A a \in Applications :
               status'[a] # status[a] => <<status[a], status'[a]>> \in StatusChain]_vars
<1>1. Init => TriggersStand
  BY DEF Init, TriggersStand, At, Busy
<1>2. IInv /\ TriggersStand /\ [Next]_vars =>
        [\A a \in Applications :
           status'[a] # status[a] => <<status[a], status'[a]>> \in StatusChain]_vars
  <2> SUFFICES ASSUME IInv, TriggersStand, Next, NEW a \in Applications,
                      status'[a] # status[a]
               PROVE  <<status[a], status'[a]>> \in StatusChain
    OBVIOUS
  <2>1. status[a] \in Reached
    BY DEF IInv, StatusReached
  <2>2. PICK r \in Requests : Submit(r) \/ Advance(r) \/ CommitDecision(r)
    BY DEF Next, Serve, Apply, BeginStep, BeginDecision, CheckExisting, RecordStep,
       Reread, RecordDecision, CheckDecision, Lost
  <2>3. Busy(r) /\ req[r] \in Request /\ Stands(req[r]) /\ InHandler(req[r])
    BY <2>2, BusyRequest DEF Submit, Advance, CommitDecision, At
  <2>4. CASE Submit(r)
    <3>1. status[req[r].app] = "none"
      BY <2>3, <2>4 DEF Submit, At, Stands
    <3>2. QED BY <2>3, <2>4, <3>1 DEF Submit, StatusChain, IInv, TypeOK, Request
  <2>5. CASE Advance(r)
    <3>1. a = req[r].app /\ status'[a] = req[r].next /\ Transition(a, req[r].next)
      BY <2>3, <2>5 DEF Advance, IInv, TypeOK, Request
    <3>2. req[r].next \in {"officer_review", "bm_review"} /\ status[a] # "none"
      BY <2>3, <2>5, <3>1 DEF Advance, At, Stands, OfficerStages
    <3>3. QED BY <2>1, <3>1, <3>2 DEF Transition, Reached, StatusChain
  <2>6. CASE CommitDecision(r)
    <3>1. a = req[r].app /\ status'[a] = req[r].next /\ Transition(a, req[r].next)
      BY <2>3, <2>6 DEF CommitDecision, TriggersStand, IInv, TypeOK, Request
    <3>2. req[r].input \in Decisions
      BY <2>3, <2>6 DEF CommitDecision, At, InHandler, Request, AllInputs,
         OfficerStages, ReviewStages
    <3>3. /\ req[r].next \in {"approved", "rejected"}
          /\ DoneOfficer(a) = OfficerStages /\ status[a] # "none"
      BY <2>3, <3>1, <3>2 DEF Stands, Decisions
    <3>4. status[a] \notin {"submitted", "officer_review", "rejected"}
      BY <3>1, <3>3 DEF Transition
    <3>5. QED BY <2>1, <3>1, <3>3, <3>4 DEF Transition, Reached, StatusChain
  <2>7. QED BY <2>2, <2>4, <2>5, <2>6
<1>3. QED BY <1>1, <1>2, InitInv, NextInv, NextTriggers, PTL DEF Spec

-----------------------------------------------------------------------------
(* Stages that lead on *)

\* Requests come one at a time, none is lost, and no query of theirs fails unread.
Alone == (\E r \in Requests : Requests = {r}) /\ ~Failures /\ ~Misreads

\* A status and the officer stages that have led to it.
Matches(s, done) ==
  /\ s \in {"none", "submitted"} => done = {}
  /\ s = "officer_review" => done # {} /\ done # OfficerStages

\* Between two requests no application is stranded: one that is submitted has no
\* officer stage yet, so that the next one is its first, and one under review
\* lacks a stage.
NotStranded ==
  Alone => \A a \in Applications :
             (\A r \in Requests : Busy(r) => req[r].app # a)
               => Matches(status[a], DoneOfficer(a))

\* The request has recorded its stage and not moved the status.
Moving(r) == At(r, "reread") \/ (At(r, "update") /\ req[r].input \in OfficerStages)

Led(a) ==
  DoneOfficer(a) \ {req[r].input : r \in {q \in Requests : Moving(q) /\ req[q].app = a}}

\* What an officer's request knows at each of its queries.
Knows(q) ==
  q.input \in OfficerStages =>
    /\ q.at = "insert" => q.input \notin DoneOfficer(q.app)
    /\ q.at \in {"reread", "update"} =>
         q.input \in DoneOfficer(q.app) /\ status[q.app] \in {"submitted", "officer_review"}
    /\ q.at = "update" =>
         DoneOfficer(q.app) = IF q.next = "officer_review" THEN {q.input} ELSE OfficerStages

\* The invariant, for the one request there is at a time.
StageInv ==
  \A r \in Requests : Requests = {r} /\ ~Failures /\ ~Misreads =>
    /\ \A a \in Applications : Matches(status[a], Led(a))
    /\ Busy(r) => Knows(req[r])

\* What there is between the status of a and its stages.
LEMMA LedBy ==
  ASSUME NEW r, Requests = {r}, NEW a \in Applications
  PROVE  Led(a) = IF Moving(r) /\ req[r].app = a
                  THEN DoneOfficer(a) \ {req[r].input} ELSE DoneOfficer(a)
BY DEF Led

LEMMA LedByPrimed ==
  ASSUME NEW r, Requests = {r}, NEW a \in Applications
  PROVE  Led(a)' = IF Moving(r)' /\ req'[r].app = a
                   THEN DoneOfficer(a)' \ {req'[r].input} ELSE DoneOfficer(a)'
BY DEF Led

\* A step that does not change what led to the statuses.
LEMMA LedStill ==
  ASSUME NEW r, Requests = {r}, \A a \in Applications : Matches(status[a], Led(a)),
         UNCHANGED status, \A a \in Applications : Led(a)' = Led(a)
  PROVE  \A a \in Applications : Matches(status[a], Led(a))'
BY DEF Matches

\* Steps before the stages, and those of decisions.
LEMMA OtherStages ==
  ASSUME NEW r, Requests = {r}, \A a \in Applications : Matches(status[a], Led(a)),
         UNCHANGED <<status, steps>>, ~Moving(r), ~Moving(r)'
  PROVE  \A a \in Applications : Matches(status[a], Led(a))'
<1>1. \A a \in Applications : Led(a)' = Led(a)
  BY LedBy, LedByPrimed DEF DoneOfficer
<1>2. QED BY <1>1, LedStill

\* No officer stage is all of them.
LEMMA NotAll ==
  /\ \A i : {i} # OfficerStages
  /\ \A i : OfficerStages \ {i} # {}
BY DEF OfficerStages

LEMMA OneStage ==
  ASSUME NEW a \in Applications, NEW i \in DoneOfficer(a)
  PROVE  /\ Cardinality(DoneOfficer(a)) = 1 => DoneOfficer(a) = {i}
         /\ DoneOfficer(a) = {i} => Cardinality(DoneOfficer(a)) = 1
<1>1. DoneOfficer(a) \subseteq OfficerStages
  BY DEF DoneOfficer
<1>2. IsFiniteSet(DoneOfficer(a)) /\ {i} \subseteq DoneOfficer(a)
  BY <1>1, OfficersStages, FS_Subset
<1>3. Cardinality({i}) = 1
  BY FS_Singleton
<1>4. QED BY <1>2, <1>3, FS_Subset

LEMMA RecordsStage ==
  ASSUME IInv, NEW r, Requests = {r}, \A a \in Applications : Matches(status[a], Led(a)),
         Busy(r) => Knows(req[r]), RecordStep(r)
  PROVE  /\ \A a \in Applications : Matches(status[a], Led(a))'
         /\ Busy(r)' => Knows(req[r])'
<1> DEFINE q == req[r]
<1>1. /\ q \in Request /\ Stands(q) /\ Knows(q) /\ q.at = "insert"
      /\ q.input \notin Decisions \cup {"apply"} /\ UNCHANGED status
      /\ steps' = [steps EXCEPT ![q.app][q.input] = @ + 1]
      /\ IF q.input \in OfficerStages THEN Goes(r, "reread", "none") ELSE Ends(r)
      /\ ~Moving(r)
  BY BusyRequest DEF RecordStep, At, Moving
<1>2. \A a \in Applications, i \in AllInputs :
        steps'[a][i] = IF a = q.app /\ i = q.input THEN steps[a][i] + 1 ELSE steps[a][i]
  BY <1>1 DEF IInv, TypeOK
<1>3. q.app \in Applications /\ q.input \in AllInputs
  BY <1>1 DEF Request
<1> HIDE DEF q
<1>4. CASE q.input \notin OfficerStages
  <2>1. ~Busy(r)' /\ ~Moving(r)'
    BY <1>1, <1>4 DEF Ends, Busy, Moving, At, IInv, TypeOK
  <2>2. \A a \in Applications : DoneOfficer(a)' = DoneOfficer(a)
    BY <1>2, <1>4 DEF DoneOfficer, AllInputs
  <2>3. \A a \in Applications : Led(a)' = Led(a)
    BY <1>1, <2>1, <2>2, LedBy, LedByPrimed
  <2>4. QED BY <1>1, <2>1, <2>3, LedStill
<1>5. CASE q.input \in OfficerStages
  <2>1. q.input \notin DoneOfficer(q.app)
    BY <1>1, <1>5 DEF Knows
  <2>2. \A a \in Applications :
          DoneOfficer(a)' = IF a = q.app THEN DoneOfficer(a) \cup {q.input} ELSE DoneOfficer(a)
    <3>1. ASSUME NEW a \in Applications, NEW i \in OfficerStages
          PROVE  steps'[a][i] > 0 <=> (steps[a][i] > 0 \/ (a = q.app /\ i = q.input))
      <4>1. i \in AllInputs /\ steps[a][i] \in Nat
        BY DEF AllInputs, IInv, TypeOK
      <4>2. QED BY <1>2, <4>1
    <3>2. QED BY <1>5, <3>1 DEF DoneOfficer
  <2>3. /\ Busy(r)' /\ req'[r].app = q.app /\ req'[r].input = q.input
        /\ req'[r].at = "reread" /\ req'[r].next = "none" /\ Moving(r)'
    <3>1. req'[r] = [app |-> q.app, input |-> q.input, at |-> "reread", next |-> "none"]
      BY <1>1, <1>5 DEF q, Goes, Waiting, IInv, TypeOK
    <3>2. req'[r] \in Request
      BY <1>3, <3>1 DEF Request
    <3>3. QED BY <3>1, <3>2, LoanConstants DEF LoanConstants, Busy, Moving, At
  <2>4. \A a \in Applications : Led(a)' = Led(a)
    BY <1>1, <2>1, <2>2, <2>3, LedBy, LedByPrimed
  <2>5. status[q.app] \in {"submitted", "officer_review"}
    <3>1. status[q.app] \in Reached /\ status[q.app] # "none" /\ DoneOfficer(q.app) # OfficerStages
      BY <1>1, <1>3, <1>5, <2>1 DEF IInv, StatusReached, Stands
    <3>2. QED BY <1>3, <3>1 DEF IInv, ChainComplete, Reached
  <2>6. Knows(req[r])'
    BY <1>1, <1>3, <2>2, <2>3, <2>5 DEF Knows
  <2>7. QED BY <1>1, <2>4, <2>6, LedStill
<1>6. QED BY <1>4, <1>5

LEMMA RereadsStages ==
  ASSUME IInv, ~Misreads, NEW r, Requests = {r}, \A a \in Applications : Matches(status[a], Led(a)),
         Busy(r) => Knows(req[r]), Reread(r)
  PROVE  /\ \A a \in Applications : Matches(status[a], Led(a))'
         /\ Busy(r)' => Knows(req[r])'
<1> DEFINE q == req[r]
           a == q.app
<1>1. /\ q \in Request /\ InHandler(q) /\ Knows(q) /\ q.at = "reread"
      /\ UNCHANGED data /\ Moving(r)
  BY BusyRequest DEF Reread, At, Moving
<1>2. a \in Applications /\ q.input \in OfficerStages
  BY <1>1 DEF Request, InHandler, AllInputs
<1>3. /\ q.input \in DoneOfficer(a) /\ status[a] \in {"submitted", "officer_review"}
      /\ Led(a) = DoneOfficer(a) \ {q.input}
      /\ Matches(status[a], Led(a))
  BY <1>1, <1>2, LedBy DEF Knows
<1>4. \A b \in Applications : DoneOfficer(b)' = DoneOfficer(b)
  BY <1>1 DEF DoneOfficer
<1>5. ASSUME NEW next \in {"officer_review", "bm_review"}, Goes(r, "update", next),
             DoneOfficer(a) = IF next = "officer_review" THEN {q.input} ELSE OfficerStages
      PROVE  /\ \A b \in Applications : Matches(status[b], Led(b))'
             /\ Busy(r)' => Knows(req[r])'
  <2>1. req'[r] = [app |-> a, input |-> q.input, at |-> "update", next |-> next]
    BY <1>5 DEF Goes, Waiting, IInv, TypeOK
  <2>2. req'[r] \in Request
    BY <1>1, <1>2, <2>1 DEF Request
  <2>3. Busy(r)' /\ Moving(r)' /\ req'[r].app = a /\ req'[r].input = q.input
    BY <1>2, <2>1, <2>2, LoanConstants DEF LoanConstants, Busy, Moving, At
  <2>4. \A b \in Applications : Led(b)' = Led(b)
    <3>1. req'[r].app = req[r].app /\ req'[r].input = req[r].input
      BY <2>3
    <3>2. Moving(r) /\ Moving(r)'
      BY <1>1, <2>3
    <3> HIDE DEF q, a
    <3>3. ASSUME NEW b \in Applications
          PROVE  Led(b)' = Led(b)
      <4>1. DoneOfficer(b)' = DoneOfficer(b)
        BY <1>4
      <4>2. Led(b) = IF req[r].app = b THEN DoneOfficer(b) \ {req[r].input} ELSE DoneOfficer(b)
        BY <3>2, LedBy
      <4>3. Led(b)' = IF req'[r].app = b
                      THEN DoneOfficer(b)' \ {req'[r].input} ELSE DoneOfficer(b)'
        BY <3>2, LedByPrimed
      <4>4. QED BY <3>1, <4>1, <4>2, <4>3
    <3>4. QED BY <3>3
  <2>5. Knows(req[r])'
    BY <1>1, <1>2, <1>3, <1>4, <1>5, <2>1 DEF Knows
  <2>6. QED BY <1>1, <2>4, <2>5, LedStill
<1>6. ASSUME Ends(r), Cardinality(DoneOfficer(a)) \notin {1, 3}
      PROVE  /\ \A b \in Applications : Matches(status[b], Led(b))'
             /\ Busy(r)' => Knows(req[r])'
  <2>1. ~Busy(r)' /\ ~Moving(r)'
    BY <1>6 DEF Ends, Busy, Moving, At, IInv, TypeOK
  <2>2. \A b \in Applications : Led(b)' = DoneOfficer(b)
    BY <1>4, <2>1, LedByPrimed
  <2>3. DoneOfficer(a) # {q.input} /\ DoneOfficer(a) # OfficerStages
    BY <1>2, <1>3, <1>6, OneStage, OfficersStages
  <2>4. Matches(status[a], DoneOfficer(a))
    BY <1>3, <2>3 DEF Matches
  <2>5. \A b \in Applications : b # a => Led(b) = DoneOfficer(b)
    BY <1>2, LedBy
  <2>6. \A b \in Applications : Matches(status[b], DoneOfficer(b))
    BY <2>4, <2>5
  <2>7. QED BY <1>1, <2>1, <2>2, <2>6
<1>7. \/ Goes(r, "update", "officer_review") /\ Cardinality(DoneOfficer(a)) = 1
      \/ Goes(r, "update", "bm_review") /\ Cardinality(DoneOfficer(a)) = 3
      \/ Ends(r) /\ Cardinality(DoneOfficer(a)) \notin {1, 3}
  BY DEF Reread
<1>8. /\ Cardinality(DoneOfficer(a)) = 1 => DoneOfficer(a) = {q.input}
      /\ Cardinality(DoneOfficer(a)) = 3 => DoneOfficer(a) = OfficerStages
  BY <1>2, <1>3, OneStage, ThreeStages
<1> HIDE DEF q, a
<1>9. QED BY <1>5, <1>6, <1>7, <1>8

LEMMA AdvancesStages ==
  ASSUME IInv, NEW r, Requests = {r}, \A a \in Applications : Matches(status[a], Led(a)),
         Busy(r) => Knows(req[r]), Advance(r)
  PROVE  /\ \A a \in Applications : Matches(status[a], Led(a))'
         /\ ~Busy(r)'
<1> DEFINE q == req[r]
           a == q.app
<1>1. /\ q \in Request /\ Stands(q) /\ Knows(q) /\ q.at = "update"
      /\ q.input \in OfficerStages /\ UNCHANGED <<steps, misread>> /\ Moving(r) /\ Ends(r)
  BY BusyRequest DEF Advance, At, Moving
<1>2. a \in Applications /\ q.next \in {"officer_review", "bm_review"}
  BY <1>1 DEF Request, Stands
<1>3. /\ status[a] \in {"submitted", "officer_review"}
      /\ DoneOfficer(a) = IF q.next = "officer_review" THEN {q.input} ELSE OfficerStages
      /\ Led(a) = DoneOfficer(a) \ {q.input}
      /\ Matches(status[a], Led(a))
  BY <1>1, <1>2, LedBy DEF Knows
<1>4. ~Busy(r)' /\ ~Moving(r)'
  BY <1>1 DEF Ends, Busy, Moving, At, IInv, TypeOK
<1>5. \A b \in Applications : DoneOfficer(b)' = DoneOfficer(b) /\ Led(b)' = DoneOfficer(b)
  BY <1>1, <1>4, LedByPrimed DEF DoneOfficer
<1>6. status[a] = IF q.next = "officer_review" THEN "submitted" ELSE "officer_review"
  BY <1>2, <1>3, NotAll DEF Matches
<1>7. Transition(a, q.next)
  BY <1>2, <1>6 DEF Transition
<1>8. status' = [status EXCEPT ![a] = q.next]
  BY <1>7 DEF Advance
<1>9. \A b \in Applications : status'[b] = IF b = a THEN q.next ELSE status[b]
  BY <1>8 DEF IInv, TypeOK
<1>10. Matches(q.next, DoneOfficer(a))
  BY <1>2, <1>3, NotAll DEF Matches
<1>11. \A b \in Applications : b # a => Led(b) = DoneOfficer(b)
  BY <1>2, LedBy
<1>12. \A b \in Applications : Matches(status'[b], DoneOfficer(b))
  BY <1>9, <1>10, <1>11
<1>13. QED BY <1>4, <1>5, <1>12 DEF Matches

LEMMA NextStages == IInv /\ StageInv /\ [Next]_vars => StageInv'
<1> SUFFICES ASSUME IInv, StageInv, [Next]_vars, NEW r \in Requests, Requests = {r},
                    ~Failures, ~Misreads
             PROVE  /\ \A a \in Applications : Matches(status[a], Led(a))'
                    /\ Busy(r)' => Knows(req[r])'
  BY DEF StageInv
<1>1. /\ \A a \in Applications : Matches(status[a], Led(a))
      /\ Busy(r) => Knows(req[r])
  BY DEF StageInv
<1>2. ASSUME \/ \E a \in Applications : Apply(r, a)
             \/ \E a \in Applications, i \in AllInputs : BeginStep(r, a, i)
             \/ \E a \in Applications, d \in Decisions, read \in BOOLEAN :
                  BeginDecision(r, a, d, read)
      PROVE  /\ \A a \in Applications : Matches(status[a], Led(a))'
             /\ Busy(r)' => Knows(req[r])'
  <2>1. UNCHANGED <<status, steps>> /\ ~Moving(r)
    BY <1>2 DEF Apply, BeginStep, BeginDecision, Starts, Moving, At
  <2>2. PICK a, i, place, next :
          /\ a \in Applications /\ i \in AllInputs \cup {"apply"}
          /\ Waiting(r, a, i, place, next) /\ place \in {"existing", "insert"}
          /\ i \in OfficerStages => place = "existing"
    BY <1>2 DEF Apply, BeginStep, BeginDecision, Starts, Decisions, OfficerStages, AllInputs
  <2>3. req'[r] = [app |-> a, input |-> i, at |-> place, next |-> next]
    BY <2>2 DEF Waiting, IInv, TypeOK
  <2>4. ~Moving(r)' /\ Knows(req[r])'
    BY <2>2, <2>3 DEF Moving, At, Knows
  <2>5. QED BY <1>1, <2>1, <2>4, OtherStages
<1>3. CASE Submit(r)
  <2>1. /\ Busy(r) /\ ~Moving(r) /\ req[r].app \in Applications
        /\ status[req[r].app] = "none" /\ UNCHANGED <<steps, misread>> /\ Ends(r)
        /\ status' = [status EXCEPT ![req[r].app] = "submitted"]
    BY <1>3, BusyRequest DEF Submit, At, Moving, Stands, Request
  <2>2. ~Busy(r)' /\ ~Moving(r)'
    BY <2>1 DEF Ends, Busy, Moving, At, IInv, TypeOK
  <2>3. \A a \in Applications : Led(a)' = Led(a)
    BY <2>1, <2>2, LedBy, LedByPrimed DEF DoneOfficer
  <2>4. \A a \in Applications :
          status'[a] = IF a = req[r].app THEN "submitted" ELSE status[a]
    BY <2>1 DEF IInv, TypeOK
  <2>5. QED BY <1>1, <2>1, <2>2, <2>3, <2>4 DEF Matches
<1>4. CASE CheckExisting(r)
  <2>1. /\ UNCHANGED data /\ ~Moving(r) /\ req[r] \in Request
        /\ \/ Ends(r)
           \/ Goes(r, "insert", "none") /\ ~(steps[req[r].app][req[r].input] > 0)
    BY <1>4, BusyRequest DEF CheckExisting, At, Moving
  <2>2. ~Moving(r)' /\ (Busy(r)' => Knows(req[r])')
    <3>1. CASE Ends(r)
      BY <3>1 DEF Ends, Moving, At, Busy, IInv, TypeOK
    <3>2. CASE Goes(r, "insert", "none") /\ ~(steps[req[r].app][req[r].input] > 0)
      <4>1. req'[r] = [app |-> req[r].app, input |-> req[r].input, at |-> "insert",
                       next |-> "none"]
        BY <3>2 DEF Goes, Waiting, IInv, TypeOK
      <4>2. req[r].input \notin DoneOfficer(req[r].app)'
        BY <2>1, <3>2, <4>1 DEF DoneOfficer
      <4>3. QED BY <4>1, <4>2 DEF Moving, At, Knows, DoneOfficer
    <3>3. QED BY <2>1, <3>1, <3>2
  <2>3. QED BY <1>1, <2>1, <2>2, OtherStages
<1>5. CASE RecordStep(r) \/ Reread(r) \/ Advance(r)
  BY <1>1, <1>5, RecordsStage, RereadsStages, AdvancesStages
<1>6. CASE RecordDecision(r) \/ CheckDecision(r)
  <2>1. /\ UNCHANGED status /\ req[r] \in Request /\ req[r].input \in Decisions
        /\ req[r].input \notin OfficerStages /\ ~Moving(r)
    BY <1>6, BusyRequest DEF RecordDecision, CheckDecision, At, Moving, Decisions, OfficerStages
  <2>2. \A a \in Applications : DoneOfficer(a)' = DoneOfficer(a)
    <3>1. CASE UNCHANGED <<steps, misread>>
      BY <3>1 DEF DoneOfficer
    <3>2. CASE steps' = [steps EXCEPT ![req[r].app][req[r].input] = @ + 1]
      BY <2>1, <3>2 DEF DoneOfficer, AllInputs, IInv, TypeOK
    <3>3. QED BY <1>6, <3>1, <3>2 DEF RecordDecision, CheckDecision
  <2>3. Busy(r)' => req'[r].input = req[r].input
    BY <1>6 DEF RecordDecision, CheckDecision, Goes, Waiting, Ends, Busy, IInv, TypeOK
  <2>4. ~Moving(r)'
    <3>1. Busy(r)' => req'[r].at # "reread"
      BY <1>6 DEF RecordDecision, CheckDecision, Goes, Waiting, Ends, Busy, IInv, TypeOK
    <3>2. QED BY <2>1, <2>3, <3>1 DEF Moving, At, Busy
  <2>5. \A a \in Applications : Led(a)' = Led(a)
    BY <2>1, <2>2, <2>4, LedBy, LedByPrimed
  <2>6. Busy(r)' => Knows(req[r])'
    BY <2>1, <2>3 DEF Knows
  <2>7. QED BY <1>1, <2>1, <2>5, <2>6, LedStill
<1>7. CASE CommitDecision(r)
  <2>1. /\ Busy(r) /\ req[r].at = "commit" /\ UNCHANGED <<steps, misread>> /\ Ends(r)
        /\ req[r] \in Request /\ InHandler(req[r]) /\ Stands(req[r]) /\ ~Moving(r)
    BY <1>7, BusyRequest DEF CommitDecision, At, Moving
  <2>2. req[r].input \in Decisions
    BY <2>1 DEF InHandler, Request, AllInputs, OfficerStages, ReviewStages
  <2>3. req[r].next \in {"approved", "rejected"}
    BY <2>1, <2>2 DEF Stands, Decisions
  <2>4. ~Busy(r)' /\ ~Moving(r)'
    BY <2>1 DEF Ends, Busy, Moving, At, IInv, TypeOK
  <2>5. \A a \in Applications : Led(a)' = Led(a)
    BY <2>1, <2>4, LedBy, LedByPrimed DEF DoneOfficer
  <2>6. \A a \in Applications :
          status'[a] = IF a = req[r].app THEN req[r].next ELSE status[a]
    BY <1>7, <2>1 DEF CommitDecision, IInv, TypeOK, Request
  <2>7. QED BY <1>1, <2>3, <2>4, <2>5, <2>6 DEF Matches
<1>8. CASE UNCHANGED vars
  BY <1>1, <1>8 DEF vars, Matches, Led, Knows, DoneOfficer, Busy, Moving, At
<1>9. ~Lost(r)
  BY DEF Lost
<1>10. QED BY <1>2, <1>3, <1>4, <1>5, <1>6, <1>7, <1>8, <1>9 DEF Next, Serve

\* Requests that come one at a time, none of them lost and none with a query that
\* fails unread, strand no application: the
\* count of the stages, which moves the status at one and at three only, always
\* finds the stage that is recorded next at the right place.
THEOREM NobodyIsStranded == Spec => []NotStranded
<1>1. Init => StageInv
  <2> SUFFICES ASSUME Init, NEW r \in Requests, Requests = {r}
               PROVE  /\ \A a \in Applications : Matches(status[a], Led(a))
                      /\ Busy(r) => Knows(req[r])
    BY DEF StageInv
  <2>1. ~Busy(r) /\ ~Moving(r)
    BY DEF Init, Busy, Moving, At
  <2>2. \A a \in Applications : DoneOfficer(a) = {} /\ status[a] = "none"
    BY DEF Init, DoneOfficer, OfficerStages, AllInputs
  <2>3. QED BY <2>1, <2>2, LedBy DEF Matches
<1>2. StageInv => NotStranded
  <2> SUFFICES ASSUME StageInv, ~Failures, ~Misreads, NEW r \in Requests, Requests = {r},
                      NEW a \in Applications, Busy(r) => req[r].app # a
               PROVE  Matches(status[a], DoneOfficer(a))
    BY DEF NotStranded, Alone
  <2>1. ~(Moving(r) /\ req[r].app = a)
    BY DEF Moving, At
  <2>2. QED BY <2>1, LedBy DEF StageInv
<1>3. QED BY <1>1, <1>2, InitInv, NextInv, NextStages, PTL DEF Spec
=============================================================================
