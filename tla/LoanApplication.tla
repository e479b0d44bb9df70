---------------------------- MODULE LoanApplication ----------------------------
(***************************************************************************)
(* Loan applications from submission to decision: POST /applications,      *)
(* POST /applications/:id/steps and POST /applications/:id/decision of     *)
(* loans.routes.ts, over the tables and triggers of migrations 0012 and    *)
(* 0014.                                                                   *)
(*                                                                         *)
(* The handlers run in no transaction.  Every query is a transaction of    *)
(* its own, so a request is a chain of steps (its checks, its insert, its  *)
(* re-read, its update) between which other requests run, and what a       *)
(* request read may be old when it writes.  The last line of defence are   *)
(* the triggers that run inside each UPDATE.                               *)
(***************************************************************************)
EXTENDS Integers, FiniteSets

CONSTANTS
  Applications,   \* one element per application that may be submitted
  Requests,       \* requests the API serves at the same time
  NoRequest,      \* an idle slot
  Members,
  Applicant,      \* member of each application
  OverLimit,      \* applications above the org's bm_approval_limit_bdt
  OverDefault,    \* applications above the limit the handler falls back to
  MaxActive,      \* max_active_loans_per_member
  MaxOverlapping, \* max_overlapping_loans
  Inputs,         \* stages and decisions clients send (a subset of AllInputs)
  Failures,       \* whether requests may be lost half way
  Misreads,       \* whether queries may fail whose error nobody reads
  MaxRows         \* bound on the rows an application has of one input

OfficerStages == {"officer_visit", "household_check", "guarantor"}
ReviewStages  == {"bm_review", "am_review"}
Decisions     == {"approve", "reject"}
AllInputs     == OfficerStages \cup ReviewStages \cup Decisions

\* loan_application_status, and "none" before the application is submitted.
Statuses == {"none", "draft", "submitted", "officer_review", "bm_review",
             "am_review", "approved", "rejected", "disbursed", "closed",
             "written_off"}

\* A request that is being served: the query it is at, and the status it is
\* going to write.
Request ==
  [app   : Applications,
   input : AllInputs \cup {"apply"},
   at    : {"existing", "insert", "reread", "update", "commit"},
   next  : {"none", "submitted", "officer_review", "bm_review", "approved",
            "rejected"}]

ASSUME LoanConstants ==
  /\ Applicant \in [Applications -> Members]
  /\ OverLimit \subseteq Applications /\ OverDefault \subseteq Applications
  /\ Inputs \subseteq AllInputs
  /\ NoRequest \notin Request
  /\ IsFiniteSet(Applications)
  /\ IsFiniteSet(Requests) /\ Requests # {}
  /\ MaxActive \in Nat /\ MaxOverlapping \in Nat /\ MaxRows \in Nat
  /\ Failures \in BOOLEAN /\ Misreads \in BOOLEAN

\* Only officer stages move the status, and every query is one of its handler.
InHandler(q) ==
  /\ q.input = "apply" => q.at = "insert"
  /\ q.input \in OfficerStages => q.at # "commit"
  /\ q.input \in ReviewStages => q.at \in {"existing", "insert"}
  /\ q.input \in Decisions => q.at \in {"insert", "update", "commit"}

VARIABLES
  status,  \* loan_applications.status
  steps,   \* loan_application_steps: rows of each application and input
  req,     \* the request in each slot
  misread  \* history: applications an approval of which was let on with the
           \* default limit, because the policy could not be read

data == <<status, steps, misread>>
vars == <<data, req>>

TypeOK ==
  /\ status \in [Applications -> Statuses]
  /\ steps \in [Applications -> [AllInputs -> Nat]]
  /\ req \in [Requests -> Request \cup {NoRequest}]
  /\ misread \subseteq Applications
  /\ \A r \in Requests : req[r] # NoRequest => InHandler(req[r])

Init ==
  /\ status = [a \in Applications |-> "none"]
  /\ steps = [a \in Applications |-> [i \in AllInputs |-> 0]]
  /\ req = [r \in Requests |-> NoRequest]
  /\ misread = {}

-----------------------------------------------------------------------------
(* Requests and what they read *)

Busy(r) == req[r] # NoRequest

At(r, place) == Busy(r) /\ req[r].at = place

Waiting(r, a, i, place, next) ==
  req' = [req EXCEPT ![r] =
            [app |-> a, input |-> i, at |-> place, next |-> next]]

Starts(r, a, i, place, next) == ~Busy(r) /\ Waiting(r, a, i, place, next)

Goes(r, place, next) == Waiting(r, req[r].app, req[r].input, place, next)

Ends(r) == req' = [req EXCEPT ![r] = NoRequest]

\* Requests on an application with the given input.
Serving(a, i) == {r \in Requests : Busy(r) /\ req[r].app = a /\ req[r].input = i}

RoomForRow(a, i) == steps[a][i] + Cardinality(Serving(a, i)) < MaxRows

\* The other applications of a's member in one of the given statuses.
Others(a, S) ==
  {b \in Applications \ {a} : Applicant[b] = Applicant[a] /\ status[b] \in S}

DoneOfficer(a) == {i \in OfficerStages : steps[a][i] > 0}

\* The row is locked by an update whose triggers have run.
Locked(a) == \E r \in Requests : At(r, "commit") /\ req[r].app = a

-----------------------------------------------------------------------------
(* The triggers of UPDATE loan_applications SET status *)

\* enforce_loan_status_transition.
Transition(a, new) ==
  LET old == status[a] IN
  \/ new = old
  \/ /\ new \notin {"draft", "disbursed", "closed"}
     /\ CASE old = "draft"          -> new = "submitted"
          [] old = "submitted"      -> new = "officer_review"
          [] old = "officer_review" -> new = "bm_review"
          [] old = "bm_review"      ->
               \/ new \in {"approved", "rejected"}
               \/ new = "am_review" /\ a \in OverLimit
          [] old = "am_review"      -> new \in {"approved", "rejected"}
          [] OTHER                  -> new = "rejected"

\* enforce_loan_overlap_limit.
OverlapAllows(a, new) ==
  new = "approved" /\ status[a] # "approved"
    => Cardinality(Others(a, {"approved", "disbursed"})) < MaxOverlapping

-----------------------------------------------------------------------------
(* POST /applications *)

\* max_active_loans_per_member when the policy has none, or cannot be read.
DefaultMaxActive == 2

\* The policy guard: the member's applications that are neither rejected nor
\* closed are counted.
Apply(r, a) ==
  /\ status[a] = "none"
  /\ Serving(a, "apply") = {}
  /\ LET active == Cardinality(Others(a, Statuses \ {"none", "rejected", "closed"}))
     IN  active < MaxActive \/ (Misreads /\ active < DefaultMaxActive)
  /\ Starts(r, a, "apply", "insert", "submitted")
  /\ UNCHANGED data

Submit(r) ==
  /\ At(r, "insert") /\ req[r].input = "apply"
  /\ status' = [status EXCEPT ![req[r].app] = "submitted"]
  /\ Ends(r)
  /\ UNCHANGED <<steps, misread>>

-----------------------------------------------------------------------------
(* POST /applications/:id/steps *)

BeginStep(r, a, i) ==
  /\ i \in Inputs \ Decisions
  /\ status[a] \notin {"none", "approved", "rejected", "disbursed", "closed"}
  /\ i \in ReviewStages => status[a] = i
  /\ RoomForRow(a, i)
  /\ Starts(r, a, i, "existing", "none")
  /\ UNCHANGED data

\* A stage that is done already is refused.
CheckExisting(r) ==
  /\ At(r, "existing")
  /\ IF steps[req[r].app][req[r].input] > 0
     THEN Ends(r) ELSE Goes(r, "insert", "none")
  /\ UNCHANGED data

\* Officer stages go on to move the status; review stages are only recorded.
RecordStep(r) ==
  /\ At(r, "insert") /\ req[r].input \notin Decisions \cup {"apply"}
  /\ steps' = [steps EXCEPT ![req[r].app][req[r].input] = @ + 1]
  /\ IF req[r].input \in OfficerStages THEN Goes(r, "reread", "none") ELSE Ends(r)
  /\ UNCHANGED <<status, misread>>

\* Variant in which two of the three officer stages are enough.
RereadTwo(r) ==
  LET done == Cardinality(DoneOfficer(req[r].app)) IN
  /\ At(r, "reread")
  /\ \/ done = 1 /\ Goes(r, "update", "officer_review")
     \/ done = 2 /\ Goes(r, "update", "bm_review")
     \/ done = 3 /\ Ends(r)
  /\ UNCHANGED data

\* Variant that never moves an application to the branch manager.
RereadFirst(r) ==
  LET done == Cardinality(DoneOfficer(req[r].app)) IN
  /\ At(r, "reread")
  /\ \/ done = 1 /\ Goes(r, "update", "officer_review")
     \/ done # 1 /\ Ends(r)
  /\ UNCHANGED data

\* The next status is computed from the stages done by now: from none when
\* the query fails, whose error is not read.
Reread(r) ==
  LET done == Cardinality(DoneOfficer(req[r].app)) IN
  /\ At(r, "reread")
  /\ \/ done = 1 /\ Goes(r, "update", "officer_review")
     \/ done = 3 /\ Goes(r, "update", "bm_review")
     \/ (done \notin {1, 3} \/ Misreads) /\ Ends(r)
  /\ UNCHANGED data

\* An update that a trigger refuses is forgotten: its error is not read.
Advance(r) ==
  LET a == req[r].app IN
  /\ At(r, "update") /\ req[r].input \in OfficerStages
  /\ ~Locked(a)
  /\ IF Transition(a, req[r].next)
     THEN status' = [status EXCEPT ![a] = req[r].next] ELSE UNCHANGED status
  /\ Ends(r)
  /\ UNCHANGED <<steps, misread>>

-----------------------------------------------------------------------------
(* POST /applications/:id/decision *)

\* Whether a branch manager may approve: the org's limit, or 100000.00 when
\* the policy cannot be read.
WithinPolicy(a, read) == a \notin (IF read THEN OverLimit ELSE OverDefault)

\* Variant without the branch manager's limit.
BeginDecisionUnlimited(r, a, d, read) ==
  /\ d \in Inputs \cap Decisions
  /\ status[a] \in {"bm_review", "am_review"}
  /\ read \/ (Misreads /\ d = "approve")
  /\ RoomForRow(a, d)
  /\ Starts(r, a, d, "insert", IF d = "approve" THEN "approved" ELSE "rejected")
  /\ misread' = IF read THEN misread ELSE misread \cup {a}
  /\ UNCHANGED <<status, steps>>

\* Variant without the decision row.
BeginDecisionUnrecorded(r, a, d, read) ==
  /\ d \in Inputs \cap Decisions
  /\ status[a] \in {"bm_review", "am_review"}
  /\ read \/ (Misreads /\ d = "approve")
  /\ d = "approve" /\ status[a] = "bm_review" => WithinPolicy(a, read)
  /\ Starts(r, a, d, "update", IF d = "approve" THEN "approved" ELSE "rejected")
  /\ misread' = IF read THEN misread ELSE misread \cup {a}
  /\ UNCHANGED <<status, steps>>

BeginDecision(r, a, d, read) ==
  /\ d \in Inputs \cap Decisions
  /\ status[a] \in {"bm_review", "am_review"}
  /\ read \/ (Misreads /\ d = "approve")
  /\ d = "approve" /\ status[a] = "bm_review" => WithinPolicy(a, read)
  /\ RoomForRow(a, d)
  /\ Starts(r, a, d, "insert", IF d = "approve" THEN "approved" ELSE "rejected")
  /\ misread' = IF read THEN misread ELSE misread \cup {a}
  /\ UNCHANGED <<status, steps>>

RecordDecision(r) ==
  /\ At(r, "insert") /\ req[r].input \in Decisions
  /\ steps' = [steps EXCEPT ![req[r].app][req[r].input] = @ + 1]
  /\ Goes(r, "update", req[r].next)
  /\ UNCHANGED <<status, misread>>

\* Variants without one of the triggers.
CheckDecisionNoOverlap(r) ==
  LET a == req[r].app IN
  /\ At(r, "update") /\ req[r].input \in Decisions
  /\ ~Locked(a)
  /\ IF Transition(a, req[r].next) THEN Goes(r, "commit", req[r].next) ELSE Ends(r)
  /\ UNCHANGED data

CheckDecisionNoTransition(r) ==
  LET a == req[r].app IN
  /\ At(r, "update") /\ req[r].input \in Decisions
  /\ ~Locked(a)
  /\ IF OverlapAllows(a, req[r].next) THEN Goes(r, "commit", req[r].next) ELSE Ends(r)
  /\ UNCHANGED data

\* The update locks its row and runs the triggers, which read the member's
\* other applications as they are committed now. A refusal is an error.
CheckDecision(r) ==
  LET a == req[r].app IN
  /\ At(r, "update") /\ req[r].input \in Decisions
  /\ ~Locked(a)
  /\ IF Transition(a, req[r].next) /\ OverlapAllows(a, req[r].next)
     THEN Goes(r, "commit", req[r].next) ELSE Ends(r)
  /\ UNCHANGED data

CommitDecision(r) ==
  /\ At(r, "commit")
  /\ status' = [status EXCEPT ![req[r].app] = req[r].next]
  /\ Ends(r)
  /\ UNCHANGED <<steps, misread>>

-----------------------------------------------------------------------------
\* The server restarts or the database fails: the rest of the request does
\* not happen (the update of Advance may fail unread, with the same effect).
Lost(r) ==
  /\ Failures /\ Busy(r)
  /\ Ends(r)
  /\ UNCHANGED data

Serve(r) ==
  \/ Submit(r)
  \/ CheckExisting(r) \/ RecordStep(r) \/ Reread(r) \/ Advance(r)
  \/ RecordDecision(r) \/ CheckDecision(r) \/ CommitDecision(r)

Next ==
  \/ \E r \in Requests, a \in Applications : Apply(r, a)
  \/ \E r \in Requests, a \in Applications, i \in AllInputs : BeginStep(r, a, i)
  \/ \E r \in Requests, a \in Applications, d \in Decisions, read \in BOOLEAN :
       BeginDecision(r, a, d, read)
  \/ \E r \in Requests : Serve(r) \/ Lost(r)

Spec == Init /\ [][Next]_vars

\* The server goes on with the requests it has accepted, and the staff do not
\* give up on an application: what they may send again and again they send.
Fairness ==
  /\ \A r \in Requests : WF_vars(Serve(r))
  /\ \A a \in Applications :
       /\ \A i \in Inputs : SF_vars(\E r \in Requests : BeginStep(r, a, i))
       /\ SF_vars(\E r \in Requests : BeginDecision(r, a, "approve", TRUE))

FairSpec == Spec /\ Fairness

-----------------------------------------------------------------------------
(* Properties *)

Approved(m) == {a \in Applications : Applicant[a] = m /\ status[a] = "approved"}

\* An application reaches the branch manager, and is decided, only after the
\* visit, the household check and the guarantor are on record.
ChainComplete ==
  \A a \in Applications :
    status[a] \in {"bm_review", "am_review", "approved", "rejected"}
      => DoneOfficer(a) = OfficerStages

\* No application is approved or rejected without a row of that decision in
\* the stage history.
DecisionsOnRecord ==
  \A a \in Applications :
    /\ status[a] = "approved" => steps[a]["approve"] > 0
    /\ status[a] = "rejected" => steps[a]["reject"] > 0

\* An application above the branch manager's limit is approved without area
\* review only where a policy that could not be read put the default in the
\* place of the org's limit, and never above that default. The check is all
\* there is: it is made requests before the update, whose triggers let any
\* approval of an application under bm_review pass.
WithinLimit ==
  \A a \in OverLimit :
    status[a] = "approved" => a \in misread /\ a \notin OverDefault

\* A rejected application stays rejected, whatever approvals were under way.
RejectedForGood ==
  [][\A a \in Applications : status[a] = "rejected" => status'[a] = "rejected"]_vars

\* Concurrent approvals exceed the limit on overlapping loans by no more than
\* the number of the requests that run beside them.
OverlapBounded ==
  \A m \in Members :
    Cardinality(Approved(m)) < MaxOverlapping + Cardinality(Requests)

\* An application that the branch manager may approve is decided as long as
\* the staff go on with it: so it is when requests are served one at a time.
EachDecided ==
  \A a \in Applications \ OverLimit :
    status[a] = "submitted" ~> status[a] \in {"approved", "rejected"}
=============================================================================
