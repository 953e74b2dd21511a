------------------------- MODULE TransactionalTask --------------------------
(***************************************************************************)
(* A task step with transactional: true.  The worker opens a transaction,     *)
(* locks the row of the run, executes the body inside a savepoint and commits *)
(* the body's writes and the progress of the run together, or rolls the       *)
(* writes back and commits a retry or a failure.                             *)
(*                                                                         *)
(* While the transaction is open the row is locked: whoever wants to update   *)
(* it waits or skips it.  now() is frozen at the start of the transaction,    *)
(* while the lease is tested first against the clock of the worker.          *)
(* A body makes one write.                                                  *)
(***************************************************************************)
EXTENDS RunStore, Sequences, FiniteSets

CONSTANTS
    Save, After,   \* the step, and the step behind it
    Budget,        \* retry.maxAttempts of the step
    TimesOut,      \* step.timeoutMs is given and a body may take longer
    ClocksDiffer,  \* the clock of a worker may be behind that of the database
    Overspends,    \* a body may exceed the budget of the run
    Swallows,      \* a body may catch the error it gets when it does
    MaxSlow,       \* bound: leases that expire under a working process
    MaxFaults,     \* bound: crashes and broken connections
    MaxRetries     \* bound: operator retries

ASSUME TransactionalAssumption ==
    /\ {Save, After} \subseteq Steps /\ Save # After
    /\ Budget \in Nat \ {0}
    /\ {TimesOut, ClocksDiffer, Overspends, Swallows} \subseteq BOOLEAN
    /\ {MaxSlow, MaxFaults, MaxRetries} \subseteq Nat

VARIABLES
    row,          \* the row of the run
    attempts,     \* the statuses of the step's attempts
    worker,       \* worker[w]: what process w keeps in memory of its tick
    tx,           \* the open transaction that has locked the row
    late,         \* late[w]: a body of w has timed out and is still to write
    effects,      \* the writes of bodies that have been committed
    completions,  \* the commits that have moved the run past the step
    strayed,      \* history: a body went on after its timeout or swallowed the budget
                  \* error, or a clock let a worker in whose lease had expired
    slow, faults, retries

vars == <<row, attempts, worker, tx, late, effects, completions, strayed, slow, faults, retries>>
counters == <<slow, faults, retries>>
outcome == <<effects, completions, strayed>>

-----------------------------------------------------------------------------
(* Types and the initial state.                                            *)

\* first: the number of the attempt that the run loop has begun before the
\* transaction begins one of its own.
Idle == [pc |-> "idle", first |-> 0]
WorkerRecord == [pc : {"idle", "claimed", "begun", "body", "returned", "rolledBack",
                       "overspent", "failing"},
                 first : Nat]

\* guard: lease_expires_at >= now() for the now() of this transaction.
NoTx == [owner |-> NoWorker, guard |-> FALSE, wrote |-> FALSE]
Tx == [owner : WorkerIds \cup {NoWorker}, guard : BOOLEAN, wrote : BOOLEAN]

TypeOK == /\ row \in Row
          /\ attempts \in Seq({"started", "completed", "failed"})
          /\ worker \in [WorkerIds -> WorkerRecord]
          /\ tx \in Tx
          /\ late \in [WorkerIds -> BOOLEAN] /\ strayed \in BOOLEAN
          /\ {effects, completions, slow, faults, retries} \subseteq Nat

Init == /\ row = InsertedRow(Save)
        /\ attempts = <<>>
        /\ worker = [w \in WorkerIds |-> Idle]
        /\ tx = NoTx
        /\ late = [w \in WorkerIds |-> FALSE]
        /\ effects = 0 /\ completions = 0 /\ strayed = FALSE
        /\ slow = 0 /\ faults = 0 /\ retries = 0

-----------------------------------------------------------------------------
(* What the actions share.                                                 *)

Unlocked == tx.owner = NoWorker
Commits(w) == HoldsLease(row, Save, w)
Tick(w) == worker' = [worker EXCEPT ![w] = Idle]
Goto(w, pc) == worker' = [worker EXCEPT ![w].pc = pc]

\* A write that is part of the transaction when it commits.
Written == IF tx.wrote THEN 1 ELSE 0

-----------------------------------------------------------------------------
(* The worker.                                                             *)

\* The run is not followed beyond the step.
Claim(w) == /\ worker[w].pc = "idle"
            /\ Unlocked
            /\ row.step = Save
            /\ Claimable(row)
            /\ row' = Claimed(row, w)
            /\ Goto(w, "claimed")
            /\ UNCHANGED <<attempts, tx, late, outcome, counters>>

\* The run loop begins an attempt, in a transaction that locks the row under no lease.
BeginStepAttempt(w) == /\ worker[w].pc = "claimed"
                       /\ Unlocked
                       /\ attempts' = Append(attempts, "started")
                       /\ worker' = [worker EXCEPT ![w] = [pc |-> "begun", first |-> Len(attempts')]]
                       /\ UNCHANGED <<row, tx, late, outcome, counters>>

\* insertAttempt reads the last attempt before it locks the row: the number is taken
\* when the lock is, and the error leaves the tick.
BeginRaced(w) == /\ worker[w].pc = "claimed"
                 /\ ~Unlocked
                 /\ Tick(w)
                 /\ UNCHANGED <<row, attempts, tx, late, outcome, counters>>

\* BEGIN, the lock, the look at the lease, the savepoint, and the body is called.
\* Mutant: the lease is not looked at under the lock.
OpenTransactionUnlooked(w) ==
    /\ worker[w].pc = "begun"
    /\ Unlocked
    /\ tx' = [owner |-> w, guard |-> TRUE, wrote |-> FALSE]
    /\ Goto(w, "body")
    /\ UNCHANGED <<row, attempts, late, outcome, counters>>
OpenTransaction(w) ==
    /\ worker[w].pc = "begun"
    /\ Unlocked
    /\ row.step = Save /\ row.owner = w
    /\ row.lease = "live" \/ (ClocksDiffer /\ row.lease = "expired")
    /\ tx' = [owner |-> w, guard |-> row.lease = "live", wrote |-> FALSE]
    /\ strayed' = (strayed \/ row.lease = "expired")
    /\ Goto(w, "body")
    /\ UNCHANGED <<row, attempts, late, effects, completions, counters>>

LoseLease(w) == /\ worker[w].pc \in {"begun", "failing"}
                /\ Unlocked
                /\ ~Commits(w)
                /\ Tick(w)
                /\ UNCHANGED <<row, attempts, tx, late, outcome, counters>>

BodyWrites(w) == /\ worker[w].pc = "body" /\ ~tx.wrote
                 /\ tx' = [tx EXCEPT !.wrote = TRUE]
                 /\ UNCHANGED <<row, attempts, worker, late, outcome, counters>>

BodyReturns(w) == /\ worker[w].pc = "body" /\ tx.wrote
                  /\ Goto(w, "returned")
                  /\ UNCHANGED <<row, attempts, tx, late, outcome, counters>>

\* ROLLBACK TO SAVEPOINT.
\* Mutant: the savepoint is released and not rolled back.
BodyThrowsReleased(w) == /\ worker[w].pc = "body"
                         /\ Goto(w, "rolledBack")
                         /\ UNCHANGED <<row, attempts, tx, late, outcome, counters>>
BodyThrows(w) == /\ worker[w].pc = "body"
                 /\ tx' = [tx EXCEPT !.wrote = FALSE]
                 /\ Goto(w, "rolledBack")
                 /\ UNCHANGED <<row, attempts, late, outcome, counters>>

\* withPromiseTimeout stops to wait; the body goes on.
BodyTimesOut(w) == /\ worker[w].pc = "body"
                   /\ TimesOut
                   /\ late' = [late EXCEPT ![w] = @ \/ ~tx.wrote]
                   /\ strayed' = (strayed \/ ~tx.wrote)
                   /\ tx' = [tx EXCEPT !.wrote = FALSE]
                   /\ Goto(w, "rolledBack")
                   /\ UNCHANGED <<row, attempts, effects, completions, counters>>

\* The body still has the connection: its write joins the transaction that is open
\* on it (the pool hands out the connection that came back last), and is committed by
\* itself when none is.
LateWrite(w) == /\ late[w]
                /\ late' = [late EXCEPT ![w] = FALSE]
                /\ IF tx.owner = w THEN /\ tx' = [tx EXCEPT !.wrote = TRUE]
                                        /\ UNCHANGED effects
                                   ELSE effects' = effects + 1 /\ UNCHANGED tx
                /\ UNCHANGED <<row, attempts, worker, completions, strayed, counters>>

\* recordUsage in the body: it throws, and the body lets the error pass or not.
BodyOverspends(w) == /\ worker[w].pc = "body"
                     /\ Overspends
                     /\ tx' = [tx EXCEPT !.wrote = FALSE]
                     /\ Goto(w, "overspent")
                     /\ UNCHANGED <<row, attempts, late, outcome, counters>>

BodySwallows(w) == /\ worker[w].pc = "body" /\ tx.wrote
                   /\ Overspends /\ Swallows
                   /\ strayed' = TRUE
                   /\ Goto(w, "overspent")
                   /\ UNCHANGED <<row, attempts, tx, late, effects, completions, counters>>

\* What the COMMIT of worker w's transaction does; n is the attempt it has inserted.
\* Without the lease nothing but the body's writes and the attempt are committed.
Committed(w) ==
    LET n == Len(attempts) + 1
        pc == worker[w].pc
        holds == tx.guard \/ pc = "overspent"
    IN /\ pc \in {"returned", "rolledBack", "overspent"}
       /\ tx' = NoTx
       /\ effects' = effects + Written
       /\ attempts' = Append(attempts, IF ~holds THEN "started"
                                       ELSE IF pc = "returned" THEN "completed" ELSE "failed")
       /\ completions' = IF holds /\ pc = "returned" THEN completions + 1 ELSE completions
       /\ row' = IF ~holds THEN row
                 ELSE CASE pc = "returned"   -> AdvancedRow(row, After)
                        [] pc = "overspent"  -> ExhaustedRow(row)
                        [] pc = "rolledBack" -> IF n < Budget THEN RetryingRow(row)
                                                              ELSE FailedRow(row)

Commit(w) == /\ Committed(w)
             /\ Tick(w)
             /\ UNCHANGED <<late, strayed, counters>>

\* The COMMIT has happened and its reply is lost: the error ends in the catch block of
\* the run loop.
CommitReplyLost(w) == /\ Committed(w)
                      /\ faults < MaxFaults
                      /\ faults' = faults + 1
                      /\ Goto(w, "failing")
                      /\ UNCHANGED <<late, strayed, slow, retries>>

\* Nothing of the transaction is left, and a late body has no connection to write on.
ConnectionBreaks(w) == /\ tx.owner = w
                       /\ faults < MaxFaults
                       /\ faults' = faults + 1
                       /\ tx' = NoTx
                       /\ Goto(w, "failing")
                       /\ late' = [late EXCEPT ![w] = FALSE]
                       /\ UNCHANGED <<row, attempts, outcome, slow, retries>>

\* The catch block, with the attempt that the run loop has begun.
FailStep(w) == /\ worker[w].pc = "failing"
               /\ Unlocked
               /\ Commits(w)
               /\ row' = IF worker[w].first < Budget THEN RetryingRow(row) ELSE FailedRow(row)
               /\ attempts' = [attempts EXCEPT ![worker[w].first] = "failed"]
               /\ Tick(w)
               /\ UNCHANGED <<tx, late, outcome, counters>>

\* The process dies, and its transaction and its late body with it.
Crash(w) == /\ worker[w].pc # "idle"
            /\ faults < MaxFaults
            /\ faults' = faults + 1
            /\ Tick(w)
            /\ late' = [late EXCEPT ![w] = FALSE]
            /\ tx' = IF tx.owner = w THEN NoTx ELSE tx
            /\ UNCHANGED <<row, attempts, outcome, slow, retries>>

-----------------------------------------------------------------------------
(* Operators and time.                                                     *)

RequestCancelRun(mode) ==
    /\ Unlocked
    /\ Cancelable(row)
    /\ row' = IF mode = "hard" THEN CanceledRow(row) ELSE GracefullyCanceledRow(row)
    /\ UNCHANGED <<attempts, worker, tx, late, outcome, counters>>

RetryRun == /\ Unlocked
            /\ Retriable(row)
            /\ retries < MaxRetries
            /\ row' = RetriedRow(row)
            /\ retries' = retries + 1
            /\ UNCHANGED <<attempts, worker, tx, late, outcome, slow, faults>>

BecomeDue == /\ ~row.due
             /\ row' = [row EXCEPT !.due = TRUE]
             /\ UNCHANGED <<attempts, worker, tx, late, outcome, counters>>

\* Time passes for the row whether it is locked or not.
LeaseExpires == /\ row.lease = "live"
                /\ row' = [row EXCEPT !.lease = "expired"]
                /\ IF worker[row.owner].pc # "idle"
                     THEN slow < MaxSlow /\ slow' = slow + 1 ELSE UNCHANGED slow
                /\ UNCHANGED <<attempts, worker, tx, late, outcome, faults, retries>>

RecoverExpiredLeases == /\ Unlocked
                        /\ Recoverable(row)
                        /\ row' = Recovered(row)
                        /\ UNCHANGED <<attempts, worker, tx, late, outcome, counters>>

-----------------------------------------------------------------------------
(* The specification.                                                      *)

WorkerStep(w) == \/ BeginStepAttempt(w) \/ BeginRaced(w) \/ OpenTransaction(w) \/ LoseLease(w)
                 \/ BodyWrites(w) \/ BodyReturns(w) \/ BodyThrows(w) \/ BodyTimesOut(w)
                 \/ BodyOverspends(w) \/ BodySwallows(w)
                 \/ Commit(w) \/ FailStep(w)

Next == \/ \E w \in WorkerIds : \/ Claim(w) \/ WorkerStep(w)
                                \/ LateWrite(w) \/ Crash(w)
                                \/ CommitReplyLost(w) \/ ConnectionBreaks(w)
        \/ \E mode \in {"graceful", "hard"} : RequestCancelRun(mode)
        \/ RetryRun \/ BecomeDue \/ LeaseExpires \/ RecoverExpiredLeases

Spec == Init /\ [][Next]_vars

-----------------------------------------------------------------------------
(* Properties.                                                             *)

\* However often the step is executed, and whatever crashes, breaks, expires or is
\* canceled, the writes of bodies are committed exactly with the step, as long as no
\* execution has strayed.
EffectsMatchCompletions == ~strayed => effects = completions

\* An operator cannot terminate a run between the effects of its step and its progress:
\* the termination waits for the lock of an open transaction, and a transaction that opens
\* after it finds no lease.  One thing does write for a terminated run, a body that has timed
\* out before the termination and still has the connection; whatever else has strayed, a
\* swallowed error or a clock that is behind, writes nothing any more.
NoEffectAfterTermination ==
    [][row.status = "canceled" /\ effects' # effects => \E w \in WorkerIds : late[w]]_vars

\* Whatever strays, the run moves past the step at most once, and never without the
\* write of a body.
CompletedWithItsWrite == completions <= 1 /\ completions <= effects

\* README.md:17, "Write workflow progress and your business row in the same Postgres
\* transaction": the writes that stay are those of the step that was completed.
SameTransaction == effects = completions

\* workflow-engine.retry-budget.test.ts:15 gives a step "maxAttempts: 2" and expects a
\* retry after its first failure: a run that only its bodies disturb fails after as
\* many executions of the body as the policy allows.
FailsAfterItsAttempts ==
    row.status = "failed" /\ faults = 0 /\ slow = 0 /\ retries = 0 =>
        Cardinality({n \in DOMAIN attempts : attempts[n] = "failed"}) >= Budget
=============================================================================
