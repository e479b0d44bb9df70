------------------------------- MODULE BulkJob -------------------------------
(***************************************************************************)
(* Bulk jobs of documents-live.routes.ts: POST /bulk-jobs writes the job   *)
(* and then its items; POST /bulk-jobs/:id/tick, and its alias under       *)
(* /comms/bulk, reads both, marks the job as running, runs each pending    *)
(* item (runBulkItemLive), writes its result, and writes the counters.     *)
(*                                                                         *)
(* Each query is a step.  The items are read ordered by a column that no   *)
(* migration gives their table (ItemColumns), and the error of that read   *)
(* is not read, so the loop over the items has nothing to go through.  One *)
(* job is followed, with one request at a time.                            *)
(***************************************************************************)
EXTENDS Integers, FiniteSets

CONSTANTS
  Targets,    \* members in the scope of the job
  Kinds,      \* kinds of jobs
  MaxLosses   \* bound on requests that are lost

\* The columns 0054 gives bulk_job_items.
ItemColumns ==
  {"id", "org_id", "job_id", "target_id", "target_name", "status", "ref_id", "error"}

Results == {"done", "failed"}

VARIABLES
  kind,     \* bulk_jobs.kind
  job,      \* its status ("none" before it is there), processed and failed
  items,    \* bulk_job_items.status, "none" before the items are there
  issued,   \* documents inserted for each target
  lost,     \* requests lost
  req       \* the request under way: where it is, the items it has still to run
            \* and the counters it will write

vars == <<kind, job, items, issued, lost, req>>

Idle == [at |-> "idle", todo |-> {}, processed |-> 0, failed |-> 0]

Init ==
  /\ kind \in Kinds
  /\ job = [status |-> "none", processed |-> 0, failed |-> 0]
  /\ items = [t \in Targets |-> "none"]
  /\ issued = [t \in Targets |-> 0]
  /\ lost = 0
  /\ req = Idle

Finished == job.status \in Results

-----------------------------------------------------------------------------
(* POST /bulk-jobs *)

Create ==
  /\ req = Idle /\ job.status = "none"
  /\ job' = [job EXCEPT !.status = "pending"]
  /\ req' = [req EXCEPT !.at = "insert"]
  /\ UNCHANGED <<kind, items, issued, lost>>

InsertItems ==
  /\ req.at = "insert"
  /\ items' = [t \in Targets |-> "pending"]
  /\ req' = Idle
  /\ UNCHANGED <<kind, job, issued, lost>>

-----------------------------------------------------------------------------
(* POST /bulk-jobs/:id/tick and POST /comms/bulk/:id/tick *)

\* The job is read; a finished one is only shown.
Tick ==
  /\ req = Idle /\ job.status \in {"pending", "running"}
  /\ req' = [at |-> "load", todo |-> {}, processed |-> job.processed, failed |-> job.failed]
  /\ UNCHANGED <<kind, job, items, issued, lost>>

\* The pending items, when they are read in the order of a column they have.
PendingBy(column) ==
  {t \in Targets : column \in ItemColumns /\ items[t] = "pending"}

LoadItems ==
  /\ req.at = "load"
  /\ req' = [req EXCEPT !.at = "start", !.todo = PendingBy("created_at")]
  /\ UNCHANGED <<kind, job, items, issued, lost>>

Start ==
  /\ req.at = "start"
  /\ job' = [job EXCEPT !.status = "running"]
  /\ req' = [req EXCEPT !.at = IF req.todo = {} THEN "finish" ELSE "run"]
  /\ UNCHANGED <<kind, items, issued, lost>>

\* What runBulkItemLive may return: a document is inserted or refused, a member's
\* status is flipped or refused, messages are left to another worker.
Outcomes ==
  IF kind \in {"documents_batch", "status_flip"} THEN Results ELSE {"failed"}

\* The body of the loop over the items.
RunItem ==
  /\ req.at = "run"
  /\ \E t \in req.todo, result \in Outcomes :
       /\ issued' = IF kind = "documents_batch" /\ result = "done"
                    THEN [issued EXCEPT ![t] = @ + 1] ELSE issued
       /\ items' = [items EXCEPT ![t] = result]
       /\ req' = [at |-> IF req.todo = {t} THEN "finish" ELSE "run",
                  todo |-> req.todo \ {t},
                  processed |-> req.processed + 1,
                  failed |-> req.failed + (IF result = "failed" THEN 1 ELSE 0)]
  /\ UNCHANGED <<kind, job, lost>>

Finish ==
  /\ req.at = "finish"
  /\ job' = [status |-> IF req.failed = Cardinality(Targets) THEN "failed" ELSE "done",
             processed |-> req.processed, failed |-> req.failed]
  /\ req' = Idle
  /\ UNCHANGED <<kind, items, issued, lost>>

\* The server restarts or a query whose error is read fails.
Lose ==
  /\ req # Idle
  /\ lost < MaxLosses
  /\ lost' = lost + 1
  /\ req' = Idle
  /\ UNCHANGED <<kind, job, items, issued>>

-----------------------------------------------------------------------------
Next ==
  Create \/ InsertItems \/ Tick \/ LoadItems \/ Start \/ RunItem \/ Finish \/ Lose

Spec == Init /\ [][Next]_vars

-----------------------------------------------------------------------------
(* Properties *)

\* "Tick processes all three items" (documents.test.ts:171): with nothing lost, a
\* job that has ended has left none of its items pending.
FinishedIsDone ==
  Finished /\ lost = 0 => \A t \in Targets : items[t] # "pending"
=============================================================================
