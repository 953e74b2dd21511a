---------------------------- MODULE RunLifecycle ----------------------------
(***************************************************************************)
(* Runs executed by a fleet of workers: the run loop of                     *)
(* src/lib/engine/run-loop.ts over the run rows of RunStore.  A tick claims  *)
(* one run, executes ONE step of it and commits, releasing the lease; every  *)
(* action below is one statement or transaction on the database, and what a  *)
(* worker keeps in memory between two of them is its worker record.          *)
(*                                                                         *)
(* The definition has task, sleep and end steps and no compensation          *)
(* handlers; steps that wait, start children or run in the store's           *)
(* transaction are modelled elsewhere.                                     *)
(***************************************************************************)
EXTENDS RunStore, Sequences, FiniteSets

CONSTANTS
    Runs,         \* the runs, inserted or not yet
    Workers,      \* the processes that run a worker loop
    IdOf,         \* IdOf[w]: the HIPPO_WORKER_ID of process w
    NoRun,        \* no run
    StartAt,      \* the first step
    Kind,         \* Kind[s]: "task", "sleep" or "end"
    Transitions,  \* Transitions[s]: what step.next and a result's transition can be
    RollSteps,    \* the tasks whose body may return continueAsNew
    SpendSteps,   \* the tasks whose body may exceed the budget of the run
    MaxAttempts,  \* MaxAttempts[s]: retry.maxAttempts, 0 without a retry policy
    FatalSteps,   \* the tasks that may throw an error with a non-retryable tag
    MaxClaims,    \* bound: claims of one run
    SlowClaims,   \* bound: the claims of a run whose lease a working process outlives
    MaxFaults,    \* bound: crashes, failed calls and lost replies
    MaxRetries    \* bound: operator retries of one run

ASSUME DefinitionAssumption ==
    /\ NoRun \notin Runs
    /\ IdOf \in [Workers -> WorkerIds]
    /\ StartAt \in Steps
    /\ Kind \in [Steps -> {"task", "sleep", "end"}]
    /\ Transitions \in [Steps -> SUBSET Steps]
    /\ RollSteps \subseteq {s \in Steps : Kind[s] = "task"}
    /\ SpendSteps \subseteq Steps
    /\ MaxAttempts \in [Steps -> Nat]
    /\ FatalSteps \subseteq Steps
    /\ {MaxClaims, SlowClaims, MaxFaults, MaxRetries} \subseteq Nat

VARIABLES
    row,            \* row[r]: the row of run r
    attempts,       \* attempts[r][s]: the statuses of the forward attempts of step s
    continuedFrom,  \* continuedFrom[r]: continued_from_run_id
    worker,         \* worker[w]: the locals of continueRun in process w
    claims,         \* claims[r]: how often r has been claimed (for the properties)
    visits,         \* visits[r][s]: how often r has arrived at s (for the properties)
    retries,        \* retries[r]: operator retries of r
    faults          \* crashes, failed calls and lost replies so far

vars == <<row, attempts, continuedFrom, worker, claims, visits, retries, faults>>
history == <<claims, visits>>

-----------------------------------------------------------------------------
(* Types and the initial state.                                            *)

AttemptStatus == {"started", "completed", "failed"}

\* pc "claimed": between the claim and the step; "executing": the attempt is
\* inserted and the body runs; "failing": in the catch block although the body
\* did not throw.  epoch and cancelPending are for the properties:
\* the claim this worker executes under, and whether a graceful cancellation had
\* been requested before it.
Idle == [pc |-> "idle", run |-> NoRun, step |-> NoStep, attempt |-> 0,
         cancelMode |-> "none", epoch |-> 0, cancelPending |-> FALSE]

WorkerRecord == [pc            : {"idle", "claimed", "executing", "failing"},
                 run           : Runs \cup {NoRun},
                 step          : Steps \cup {NoStep},
                 attempt       : Nat,
                 cancelMode    : {"none", "graceful", "hard"},
                 epoch         : Nat,
                 cancelPending : BOOLEAN]

TypeOK == /\ row \in [Runs -> Row]
          /\ attempts \in [Runs -> [Steps -> Seq(AttemptStatus)]]
          /\ continuedFrom \in [Runs -> Runs \cup {NoRun}]
          /\ worker \in [Workers -> WorkerRecord]
          /\ claims \in [Runs -> Nat]
          /\ visits \in [Runs -> [Steps -> Nat]]
          /\ retries \in [Runs -> Nat]
          /\ faults \in Nat

Init == /\ row = [r \in Runs |-> AbsentRow]
        /\ attempts = [r \in Runs |-> [s \in Steps |-> <<>>]]
        /\ continuedFrom = [r \in Runs |-> NoRun]
        /\ worker = [w \in Workers |-> Idle]
        /\ claims = [r \in Runs |-> 0]
        /\ visits = [r \in Runs |-> [s \in Steps |-> 0]]
        /\ retries = [r \in Runs |-> 0]
        /\ faults = 0

-----------------------------------------------------------------------------
(* What the actions share.                                                 *)

\* Worker w executes step s of run r under a lease the store still honours.
Commits(w, r, s) == /\ worker[w].run = r
                    /\ worker[w].step = s
                    /\ HoldsLease(row[r], s, IdOf[w])

Tick(w) == worker' = [worker EXCEPT ![w] = Idle]

\* The commits update the attempt by its id, and only if they updated the run.
SettleAttempt(w, status) ==
    LET a == worker[w] IN
    attempts' = [attempts EXCEPT ![a.run][a.step][a.attempt] = status]

Arrive(r, s) == visits' = [visits EXCEPT ![r][s] = @ + 1]

-----------------------------------------------------------------------------
(* Starting and claiming a run.                                            *)

StartRun(r) ==
    /\ row[r].status = "absent"
    /\ row' = [row EXCEPT ![r] = InsertedRow(StartAt)]
    /\ Arrive(r, StartAt)
    /\ UNCHANGED <<attempts, continuedFrom, worker, claims, retries, faults>>

Claim(w, r) ==
    /\ worker[w].pc = "idle"
    /\ Claimable(row[r])
    /\ claims[r] < MaxClaims
    /\ row' = [row EXCEPT ![r] = Claimed(@, IdOf[w])]
    /\ claims' = [claims EXCEPT ![r] = @ + 1]
    /\ worker' = [worker EXCEPT ![w] =
                    [pc |-> "claimed", run |-> r, step |-> row[r].step, attempt |-> 0,
                     cancelMode |-> ClaimedCancelMode(row[r]),
                     epoch |-> claims[r] + 1,
                     cancelPending |-> row[r].cancel = "graceful"]]
    /\ UNCHANGED <<attempts, continuedFrom, visits, retries, faults>>

-----------------------------------------------------------------------------
(* One step.  continueRun first tests cancelMode = "graceful" and would call *)
(* cancelRunAtBoundary; no claim ever returns that mode (ClaimedCancelMode),  *)
(* so the branch has no action here, only a guard in the three that follow.  *)

\* The test at the head of the loop falls through to the step.
AtStep(w, kind) == /\ worker[w].pc = "claimed"
                   /\ worker[w].cancelMode # "graceful"
                   /\ Kind[worker[w].step] = kind

CompleteRun(w, r) ==
    /\ AtStep(w, "end")
    /\ Commits(w, r, worker[w].step)
    /\ row' = [row EXCEPT ![r] = CompletedRow(@)]
    /\ Tick(w)
    /\ UNCHANGED <<attempts, continuedFrom, history, retries, faults>>

ScheduleSleep(w, r) ==
    /\ AtStep(w, "sleep")
    /\ Commits(w, r, worker[w].step)
    /\ \E next \in Transitions[worker[w].step] :
          /\ row' = [row EXCEPT ![r] = SleepingRow(@, next)]
          /\ Arrive(r, next)
    /\ Tick(w)
    /\ UNCHANGED <<attempts, continuedFrom, claims, retries, faults>>

\* beginStepAttempt is a transaction of its own: it looks at no lease and no
\* status, so a worker whose run was taken over or canceled gets an attempt too.
BeginStepAttempt(w) ==
    LET r == worker[w].run
        s == worker[w].step
    IN /\ AtStep(w, "task")
       /\ attempts' = [attempts EXCEPT ![r][s] = Append(@, "started")]
       /\ worker' = [worker EXCEPT ![w].pc = "executing",
                                   ![w].attempt = Len(attempts[r][s]) + 1]
       /\ UNCHANGED <<row, continuedFrom, history, retries, faults>>

-----------------------------------------------------------------------------
(* The outcomes of the body of a task.                                     *)

Executing(w, r) == worker[w].pc = "executing" /\ Commits(w, r, worker[w].step)

Advance(w, r) ==
    /\ Executing(w, r)
    /\ \E next \in Transitions[worker[w].step] :
          /\ row' = [row EXCEPT ![r] = AdvancedRow(@, next)]
          /\ Arrive(r, next)
    /\ SettleAttempt(w, "completed")
    /\ UNCHANGED <<continuedFrom, claims, retries>>

AdvanceTaskStep(w, r) == Advance(w, r) /\ Tick(w) /\ UNCHANGED faults

\* The commit lands but the connection breaks before the reply: the error is not
\* a LostLeaseError, so the worker goes on into the catch block, as if the body
\* had thrown, with its attempt already completed.
AdvanceReplyLost(w, r) == /\ faults < MaxFaults
                          /\ Advance(w, r)
                          /\ faults' = faults + 1
                          /\ worker' = [worker EXCEPT ![w].pc = "failing"]

\* Mutant: the successor is inserted and the source goes on.
ContinueAsNewForking(w, r, q) ==
    /\ Executing(w, r)
    /\ worker[w].step \in RollSteps
    /\ row[q].status = "absent"
    /\ row' = [row EXCEPT ![r] = RetryingRow(@), ![q] = InsertedRow(StartAt)]
    /\ continuedFrom' = [continuedFrom EXCEPT ![q] = r]
    /\ SettleAttempt(w, "failed")
    /\ Arrive(q, StartAt)
    /\ Tick(w)
    /\ UNCHANGED <<claims, retries, faults>>

\* One transaction: the source completes, the successor is inserted.
ContinueAsNew(w, r, q) ==
    /\ Executing(w, r)
    /\ worker[w].step \in RollSteps
    /\ row[q].status = "absent"
    /\ row' = [row EXCEPT ![r] = CompletedRow(@), ![q] = InsertedRow(StartAt)]
    /\ continuedFrom' = [continuedFrom EXCEPT ![q] = r]
    /\ SettleAttempt(w, "completed")
    /\ Arrive(q, StartAt)
    /\ Tick(w)
    /\ UNCHANGED <<claims, retries, faults>>

\* The catch block: the body has thrown, or the commit seemed to fail.
Failing(w, r) == /\ worker[w].pc \in {"executing", "failing"}
                 /\ Commits(w, r, worker[w].step)

\* Mutant: one attempt too many.
ScheduleRetryOnceMore(w, r) ==
    /\ Failing(w, r)
    /\ worker[w].attempt <= MaxAttempts[worker[w].step]
    /\ row' = [row EXCEPT ![r] = RetryingRow(@)]
    /\ SettleAttempt(w, "failed")
    /\ Tick(w)
    /\ UNCHANGED <<continuedFrom, history, retries, faults>>

ScheduleRetry(w, r) ==
    /\ Failing(w, r)
    /\ worker[w].attempt < MaxAttempts[worker[w].step]
    /\ row' = [row EXCEPT ![r] = RetryingRow(@)]
    /\ SettleAttempt(w, "failed")
    /\ Tick(w)
    /\ UNCHANGED <<continuedFrom, history, retries, faults>>

FailRun(w, r) ==
    /\ Failing(w, r)
    /\ \/ worker[w].attempt >= MaxAttempts[worker[w].step]
       \/ worker[w].step \in FatalSteps
    /\ row' = [row EXCEPT ![r] = FailedRow(@)]
    /\ SettleAttempt(w, "failed")
    /\ Tick(w)
    /\ UNCHANGED <<continuedFrom, history, retries, faults>>

\* recordUsage takes the run over the cap of its budget: under no lease, so a
\* body that has lost its own still ends the run.
ExhaustRunBudget(w) ==
    LET a == worker[w] IN
    /\ a.pc = "executing"
    /\ a.step \in SpendSteps
    /\ Exhaustible(row[a.run])
    /\ row' = [row EXCEPT ![a.run] = ExhaustedRow(@)]
    /\ IF attempts[a.run][a.step][a.attempt] = "started"
         THEN SettleAttempt(w, "failed") ELSE UNCHANGED attempts
    /\ Tick(w)
    /\ UNCHANGED <<continuedFrom, history, retries, faults>>

\* Mutant: the attempt is settled before the run is found to be lost.
LoseLeaseSettled(w) ==
    LET a == worker[w] IN
    /\ a.pc = "executing"
    /\ ~HoldsLease(row[a.run], a.step, IdOf[w])
    /\ SettleAttempt(w, "completed")
    /\ Tick(w)
    /\ UNCHANGED <<row, continuedFrom, history, retries, faults>>

\* A commit that finds no row to update: LostLeaseError, the tick ends.
LoseLease(w) ==
    LET a == worker[w] IN
    /\ a.pc \in {"executing", "failing"} \/ AtStep(w, "sleep") \/ AtStep(w, "end")
    /\ ~HoldsLease(row[a.run], a.step, IdOf[w])
    /\ Tick(w)
    /\ UNCHANGED <<row, attempts, continuedFrom, history, retries, faults>>

-----------------------------------------------------------------------------
(* Operators, recovery, time and failures.                                 *)

RequestCancelRun(r, mode) ==
    /\ Cancelable(row[r])
    /\ row' = [row EXCEPT ![r] = IF mode = "hard" THEN CanceledRow(@)
                                                  ELSE GracefullyCanceledRow(@)]
    /\ UNCHANGED <<attempts, continuedFrom, worker, history, retries, faults>>

RetryRun(r) ==
    /\ Retriable(row[r])
    /\ retries[r] < MaxRetries
    /\ row' = [row EXCEPT ![r] = RetriedRow(@)]
    /\ retries' = [retries EXCEPT ![r] = @ + 1]
    /\ UNCHANGED <<attempts, continuedFrom, worker, history, faults>>

\* One statement over the rows that FOR UPDATE SKIP LOCKED LIMIT hands it.
RecoverExpiredLeases ==
    /\ \E found \in SUBSET {r \in Runs : Recoverable(row[r])} :
          /\ found # {}
          /\ row' = [r \in Runs |-> IF r \in found THEN Recovered(row[r]) ELSE row[r]]
    /\ UNCHANGED <<attempts, continuedFrom, worker, history, retries, faults>>

\* available_at of a sleeping or retrying run comes.
BecomeDue(r) ==
    /\ row[r].status = "queued" /\ ~row[r].due
    /\ row' = [row EXCEPT ![r].due = TRUE]
    /\ UNCHANGED <<attempts, continuedFrom, worker, history, retries, faults>>

\* A worker that still works on r keeps its lease alive (ctx.heartbeat, or by
\* being quick) in all but the first SlowClaims claims of the run.
LeaseExpires(r) ==
    /\ row[r].lease = "live"
    /\ \/ claims[r] <= SlowClaims
       \/ \A w \in Workers : worker[w].run # r \/ worker[w].epoch # claims[r]
    /\ row' = [row EXCEPT ![r].lease = "expired"]
    /\ UNCHANGED <<attempts, continuedFrom, worker, history, retries, faults>>

\* The process dies and comes back, or a call to the store throws outside the
\* try of the step: the tick is over and the database keeps what it has.
Crash(w) ==
    /\ worker[w].pc # "idle"
    /\ faults < MaxFaults
    /\ faults' = faults + 1
    /\ Tick(w)
    /\ UNCHANGED <<row, attempts, continuedFrom, history, retries>>

-----------------------------------------------------------------------------
(* The specification.                                                      *)

WorkerStep(w) ==
    \/ \E r \in Runs : \/ CompleteRun(w, r) \/ ScheduleSleep(w, r)
                       \/ AdvanceTaskStep(w, r) \/ ScheduleRetry(w, r) \/ FailRun(w, r)
                       \/ \E q \in Runs : ContinueAsNew(w, r, q)
    \/ BeginStepAttempt(w) \/ ExhaustRunBudget(w) \/ LoseLease(w)

Next ==
    \/ \E w \in Workers : \/ WorkerStep(w) \/ Crash(w)
                          \/ \E r \in Runs : Claim(w, r) \/ AdvanceReplyLost(w, r)
    \/ \E r \in Runs : \/ StartRun(r) \/ RetryRun(r) \/ BecomeDue(r) \/ LeaseExpires(r)
                       \/ \E mode \in {"graceful", "hard"} : RequestCancelRun(r, mode)
    \/ RecoverExpiredLeases

Spec == Init /\ [][Next]_vars

-----------------------------------------------------------------------------
(* Safety.                                                                 *)

\* The guards of the commits test the owner of the lease and not the status of
\* the run.  That is enough because an owner is only ever set on a running run
\* that is at a step, and every statement that takes a run out of "running"
\* clears the owner (workflow-store.sql, every UPDATE of lease_owner).
LeasedRunsAreRunning ==
    \A r \in Runs :
       /\ row[r].status = "running" <=> row[r].owner # NoWorker
       /\ row[r].status = "running" <=> row[r].lease # "none"
       /\ row[r].status = "running" => row[r].step # NoStep

\* What OnlyLatestClaimCommits and AttemptsSettleOnce rest on: every process of
\* the fleet has a HIPPO_WORKER_ID of its own.
DistinctWorkerIds == \A v, w \in Workers : IdOf[v] = IdOf[w] => v = w

\* A worker that outlived its lease and passes the guard of a commit all the same
\* is the one that claimed the run last: nobody commits work of a claim that
\* was superseded.  It needs distinct worker ids, which nothing enforces.
OnlyLatestClaimCommits ==
    \A w \in Workers :
       /\ worker[w].pc # "idle"
       /\ HoldsLease(row[worker[w].run], worker[w].step, IdOf[w])
       => worker[w].epoch = claims[worker[w].run]

AttemptsWith(status, r, s) ==
    {n \in DOMAIN attempts[r][s] : attempts[r][s][n] = status}

\* However many workers execute a step at once, every visit of a task that the
\* run has left has exactly one completed attempt, and the visit it is in has
\* none.  A run out of budget leaves its step without completing it.
OneCompletionPerVisit ==
    \A r \in Runs, s \in {t \in Steps : Kind[t] = "task"} :
       LET completed == Cardinality(AttemptsWith("completed", r, s)) IN
       IF row[r].status = "exhausted_budget"
         THEN completed \in {visits[r][s], visits[r][s] - 1}
         ELSE visits[r][s] = completed + (IF row[r].step = s THEN 1 ELSE 0)

\* A task fails at most maxAttempts times (once without a policy), and once more
\* for every retry an operator asks for, even when the run loops back to it and
\* when crashed workers leave attempts behind: the attempts of all visits and
\* of all workers are numbered together.
RetryBudget ==
    \A r \in Runs, s \in Steps :
       Cardinality(AttemptsWith("failed", r, s))
          <= (IF MaxAttempts[s] = 0 THEN 1 ELSE MaxAttempts[s]) + retries[r]

\* The chain of continued_from_run_id does not fork, and its links are runs that
\* completed.  (A lost reply to continueAsNew is not a case of its own: the source has
\* completed, and every later guard of its worker fails.)
ChainOfSuccessors ==
    \A q \in Runs : continuedFrom[q] # NoRun =>
       /\ row[continuedFrom[q]].status = "completed"
       /\ \A p \in Runs : continuedFrom[p] = continuedFrom[q] => p = q

\* A run that completed, was canceled or ran out of budget keeps its row for
\* ever: in particular the commit of a step that was in flight when the run was
\* terminated does not land (TODO.txt:61, "hard termination ... prevents
\* in-flight step commits from landing afterward").
FinalRowsStay == [][\A r \in Runs : row[r].status \in Final => row'[r] = row[r]]_vars

\* An attempt that was settled is never settled again: neither by the catch
\* block of a worker that did not hear of its own commit, nor by a worker that
\* comes back to a step another one has committed.
AttemptsSettleOnce ==
    [][\A r \in Runs, s \in Steps : \A n \in DOMAIN attempts[r][s] :
          /\ n \in DOMAIN attempts'[r][s]
          /\ attempts[r][s][n] # "started" => attempts'[r][s][n] = attempts[r][s][n]]_vars

\* README.md:13: "Graceful stop at step boundaries".  A worker that claims a run
\* whose graceful cancellation was requested before does not execute a step.
GracefulStopsAtBoundary ==
    \A w \in Workers : worker[w].pc = "executing" => ~worker[w].cancelPending

-----------------------------------------------------------------------------
(* The run as a client sees it.                                            *)

Phase == [r \in Runs |->
            [state |-> IF row[r].status \in {"queued", "running", "waiting"}
                        THEN "live" ELSE row[r].status,
             at    |-> row[r].step]]

Durable == INSTANCE DurableRun WITH
              phase    <- Phase,
              EndSteps <- {s \in Steps : Kind[s] = "end"}

\* Workers, leases, attempts, recovery and failures are invisible: the run loop
\* implements DurableRun.
ImplementsDurableRun == Durable!Spec

-----------------------------------------------------------------------------
(* Progress.                                                               *)

\* The loops poll for ever and bodies return or time out: a worker goes on with
\* its step, a claimable run is claimed by somebody, time passes.  Recovery is
\* not needed, nor are the operators: a claim takes expired leases itself.
Fairness ==
    /\ \A w \in Workers : WF_vars(WorkerStep(w))
    /\ \A r \in Runs : /\ WF_vars(\E w \in Workers : Claim(w, r))
                       /\ WF_vars(BecomeDue(r))
                       /\ WF_vars(LeaseExpires(r))

LiveSpec == Spec /\ Fairness

\* Every run that was started settles for good, whatever workers crash on it.
EveryRunSettles ==
    \A r \in Runs : row[r].status # "absent" ~> [](row[r].status \in Final \cup {"failed"})
=============================================================================
