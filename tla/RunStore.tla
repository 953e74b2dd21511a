------------------------------ MODULE RunStore ------------------------------
(***************************************************************************)
(* The row of a run in workflow_runs and the SQL statements that update     *)
(* it (src/sql/workflow-store.sql).  Each operator below is one statement:   *)
(* the predicate of its WHERE clause, or the row its SET clause produces.    *)
(* The modules of the project build their actions from them.                *)
(*                                                                         *)
(* Time is abstracted to what the statements compare with now():            *)
(*   lease  "none"     lease_expires_at IS NULL                             *)
(*          "live"     lease_expires_at >= now()                            *)
(*          "expired"  lease_expires_at < now()                             *)
(*   due    TRUE       available_at <= now()                                *)
(***************************************************************************)
EXTENDS Naturals

CONSTANTS
    Steps,      \* the keys of the steps of the workflow definition
    WorkerIds,  \* the values HIPPO_WORKER_ID takes in the fleet
    NoStep,     \* current_step_key IS NULL
    NoWorker    \* lease_owner IS NULL

ASSUME NullsAreNoValues == NoStep \notin Steps /\ NoWorker \notin WorkerIds

-----------------------------------------------------------------------------
(* The row.                                                                *)

\* The statuses that RequestCancelRun, RetryRun and ExhaustRunBudget leave alone.  Only
\* MarkRunCompensationFailed changes one of them: 'canceled' to 'compensation_failed'.
Final == {"completed", "canceled", "exhausted_budget", "compensation_failed"}

\* Mutant: the migration that adds the budget's status is missing.
StatusWithoutBudget == {"absent", "queued", "running", "waiting", "failed",
                        "completed", "canceled", "compensation_failed"}
\* "absent" is a run that has not been inserted yet; the others are the values
\* of the enum workflow_run_status.
Status == {"absent", "queued", "running", "waiting", "failed"} \cup Final

Row == [status : Status,
        step   : Steps \cup {NoStep},
        owner  : WorkerIds \cup {NoWorker},
        lease  : {"none", "live", "expired"},
        due    : BOOLEAN,
        cancel : {"none", "graceful", "hard"}]

AbsentRow == [status |-> "absent", step |-> NoStep, owner |-> NoWorker,
              lease |-> "none", due |-> FALSE, cancel |-> "none"]

\* InsertRun / ContinueAsNewInsertRun: status and the timestamps are defaults.
InsertedRow(s) == [AbsentRow EXCEPT !.status = "queued", !.step = s, !.due = TRUE]

\* lease_owner = NULL, lease_expires_at = NULL: every commit ends so.
Release(row) == [row EXCEPT !.owner = NoWorker, !.lease = "none"]

-----------------------------------------------------------------------------
(* Claim, lease and recovery.                                              *)

\* Mutant: a running run is not claimed when its lease has expired.
ClaimableQueued(row) == row.status = "queued" /\ row.step # NoStep /\ row.due
Claimable(row) == /\ row.status \in {"queued", "running"}
                  /\ row.step # NoStep
                  /\ row.due
                  /\ row.lease # "live"

Claimed(row, w) == [row EXCEPT !.status = "running", !.owner = w, !.lease = "live"]

\* ClaimNextRunnableRun RETURNs neither cancel_requested_at nor cancel_mode, and
\* mapRun turns the missing columns into null: this is the cancel mode that the
\* run loop reads in the run it was given.
ClaimedCancelMode(row) == "none"

\* Mutant: any worker commits as long as somebody holds the lease.
HoldsAnyLease(row, s, w) == row.step = s /\ row.lease = "live"
\* The WHERE clause of every statement that commits the work of a worker.
\* Neither the status of the run nor the attempt is part of it.
HoldsLease(row, s, w) == row.step = s /\ row.owner = w /\ row.lease = "live"

Recoverable(row) == row.status = "running" /\ row.lease = "expired"
\* Mutant: recovery requeues the run and leaves its owner.
RecoveredOwned(row) == [row EXCEPT !.status = "queued", !.due = TRUE, !.lease = "none"]
Recovered(row) == [Release(row) EXCEPT !.status = "queued", !.due = TRUE]

-----------------------------------------------------------------------------
(* The commits of a worker, all guarded by HoldsLease.                     *)

CompletedRow(row) == [Release(row) EXCEPT !.status = "completed", !.step = NoStep, !.due = TRUE]
\* Mutant: the lease is kept for the next step.
AdvancedLeasedRow(row, next) == [row EXCEPT !.step = next, !.due = TRUE]
AdvancedRow(row, next) == [Release(row) EXCEPT !.status = "queued", !.step = next, !.due = TRUE]
SleepingRow(row, next) == [Release(row) EXCEPT !.status = "queued", !.step = next, !.due = FALSE]
RetryingRow(row) == [Release(row) EXCEPT !.status = "queued", !.due = FALSE]
FailedRow(row) == [Release(row) EXCEPT !.status = "failed", !.due = TRUE]

-----------------------------------------------------------------------------
(* What others do to the row, whoever holds its lease.                     *)

Cancelable(row) == row.status \in {"queued", "running", "waiting", "failed"}
\* Mutant: the lease is left to the worker that executes the run.
CanceledLeasedRow(row) == [row EXCEPT !.status = "canceled", !.due = TRUE, !.cancel = "hard"]
CanceledRow(row) == [Release(row) EXCEPT !.status = "canceled", !.due = TRUE, !.cancel = "hard"]
GracefullyCanceledRow(row) ==
    [row EXCEPT !.status = CASE row.status = "waiting" -> "queued"
                             [] row.status = "failed"  -> "canceled"
                             [] OTHER                  -> row.status,
                !.due = TRUE,
                !.cancel = "graceful"]

\* Mutant: a run is retried whatever its status.
RetriableAlways(row) == row.step # NoStep
Retriable(row) == row.status = "failed" /\ row.step # NoStep
RetriedRow(row) == [Release(row) EXCEPT !.status = "queued", !.due = TRUE]

\* Mutant: the budget ends terminal runs, too.
ExhaustibleAlways(row) == row.status # "absent"
\* NOT IN the statuses of the clause: the final ones and 'failed'.
Exhaustible(row) == row.status \in {"queued", "running", "waiting"}
ExhaustedRow(row) ==
    [Release(row) EXCEPT !.status = "exhausted_budget", !.step = NoStep, !.due = TRUE]
=============================================================================
