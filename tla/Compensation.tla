---------------------------- MODULE Compensation ----------------------------
(***************************************************************************)
(* The compensation of a run that has failed or was terminated:              *)
(* compensateRun of src/lib/engine/run-loop.ts, which walks the completed    *)
(* steps in reverse.  It runs in the process that failed the run or in the    *)
(* request that terminated it, under no lease, and nobody resumes it.        *)
(*                                                                         *)
(* The steps of the run are 1, 2, ..., Length.  What happens before the        *)
(* compensation is taken in larger steps than in RunLifecycle: a claim and    *)
(* the begin of the attempt are one action, as are a claim and the end of     *)
(* the run; a lease expires only when its owner died; a failure is one that   *)
(* the policy of the step does not retry.                                   *)
(***************************************************************************)
EXTENDS RunStore, Sequences, FiniteSets, SequencesExt

CONSTANTS
    Length,       \* the end step
    Handlers,     \* the task steps with a compensation
    WaitSteps,    \* the steps that wait
    Operators,    \* the requests that may terminate the run
    MaxAttempts,  \* compensation.retry.maxAttempts
    Expires,      \* a wait may be overdue
    Exhausts,     \* a task may exceed the budget of the run
    MaxFaults,    \* bound: crashes, errors that leave compensateRun, and failed completions
    MaxRetries,   \* bound: operator retries
    MaxWalks      \* bound: failures and terminations of the run

ASSUME CompensationAssumption ==
    /\ Length \in Nat \ {0} /\ Steps = 1..Length /\ NoStep = 0
    /\ Handlers \subseteq 1..Length-1 /\ WaitSteps \subseteq (1..Length-1) \ Handlers
    /\ Operators \cap (WorkerIds \cup {NoWorker}) = {}
    /\ IsFiniteSet(WorkerIds \cup Operators)
    /\ MaxAttempts \in Nat \ {0}
    /\ {Expires, Exhausts} \subseteq BOOLEAN
    /\ {MaxFaults, MaxRetries, MaxWalks} \subseteq Nat

VARIABLES
    row,      \* the row of the run
    log,      \* its attempts in the order of step_seq
    process,  \* process[p]: what process p keeps in memory
    overlapped,  \* history: the run was terminated or retried while it was compensated
    walks,       \* history: how often a process set out to compensate the run
    undoings,    \* history: undoings[s]: how often the compensation of step s was carried out
    faults, errors, retries

vars == <<row, log, process, overlapped, walks, undoings, faults, errors, retries>>
counters == <<overlapped, walks, undoings, faults, errors, retries>>

-----------------------------------------------------------------------------
(* Types and the initial state.                                            *)

Processes == WorkerIds \cup Operators

Attempt == [kind : {"forward", "compensate"}, step : Steps,
            status : {"started", "completed", "failed"}]

\* pc "ended": the process has failed or terminated the run and is about to compensate
\* it, "undoing": the handler runs, "returned": it has returned, "erring": an error was
\* thrown after that; attempt: the index in log of the attempt it executes; items: the
\* steps that are still to be compensated.
Idle == [pc |-> "idle", attempt |-> 0, items |-> <<>>]
ProcessRecord ==
    [pc : {"idle", "executing", "ended", "compensating", "undoing", "returned", "erring",
           "givingUp"},
     attempt : Nat, items : Seq(Handlers)]

TypeOK == /\ row \in Row
          /\ log \in Seq(Attempt)
          /\ process \in [Processes -> ProcessRecord]
          /\ \A p \in Processes : process[p].attempt \in 0..Len(log)
          /\ overlapped \in BOOLEAN
          /\ undoings \in [Handlers -> Nat]
          /\ {walks, faults, errors, retries} \subseteq Nat

Init == /\ row = InsertedRow(1)
        /\ log = <<>>
        /\ process = [p \in Processes |-> Idle]
        /\ overlapped = FALSE /\ walks = 0 /\ undoings = [s \in Handlers |-> 0]
        /\ faults = 0 /\ errors = 0 /\ retries = 0

-----------------------------------------------------------------------------
(* What the actions share.                                                 *)

AttemptsOf(kind, s, status) ==
    {n \in DOMAIN log : log[n] = [kind |-> kind, step |-> s, status |-> status]}
Done(kind, s) == AttemptsOf(kind, s, "completed") # {}

Begun(kind, s) == Append(log, [kind |-> kind, step |-> s, status |-> "started"])
Settled(p, status) == [log EXCEPT ![process[p].attempt].status = status]

\* The number that insertAttempt gave to the n-th attempt.
NumberOf(n) == Cardinality({m \in 1..n : /\ log[m].kind = log[n].kind
                                         /\ log[m].step = log[n].step})

\* The process executes an attempt to compensate a step.
Undoes(p) == process[p].pc \in {"undoing", "returned", "erring"}
Compensates(p) == Undoes(p) \/ process[p].pc \in {"ended", "compensating", "givingUp"}
\* The failures and terminations that a process compensates.
Ended == \/ row.status = "canceled"
         \/ row.status = "failed" /\ row.step \notin WaitSteps
Overlap == overlapped' = (overlapped \/ \E p \in Processes : Compensates(p))

WaitingRow == [Release(row) EXCEPT !.status = "waiting"]

-----------------------------------------------------------------------------
(* The steps of the run.                                                   *)

Claim(w) == /\ process[w].pc = "idle"
            /\ Claimable(row) /\ row.step # Length
            /\ row' = Claimed(row, w)
            /\ log' = Begun("forward", row.step)
            /\ process' = [process EXCEPT ![w] = [Idle EXCEPT !.pc = "executing",
                                                              !.attempt = Len(log')]]
            /\ UNCHANGED counters

CompleteRun(w) == /\ process[w].pc = "idle"
                  /\ Claimable(row) /\ row.step = Length
                  /\ row' = CompletedRow(row)
                  /\ UNCHANGED <<log, process, counters>>

Executes(w) == /\ process[w].pc = "executing"
               /\ HoldsLease(row, log[process[w].attempt].step, w)

CompleteStep(w) == /\ Executes(w)
                   /\ row.step \notin WaitSteps
                   /\ row' = AdvancedRow(row, row.step + 1)
                   /\ log' = Settled(w, "completed")
                   /\ process' = [process EXCEPT ![w] = Idle]
                   /\ UNCHANGED counters

\* The catch block fails the run and compensates it with the run that failRun returned.
FailStep(w) == /\ Executes(w)
               /\ walks < MaxWalks
               /\ row' = FailedRow(row)
               /\ log' = Settled(w, "failed")
               /\ process' = [process EXCEPT ![w] = [Idle EXCEPT !.pc = "ended"]]
               /\ walks' = walks + 1
               /\ UNCHANGED <<overlapped, undoings, faults, errors, retries>>

\* The tick returns the exhausted run; nothing is compensated.
ExhaustBudget(w) == /\ Executes(w) /\ Exhausts
                    /\ row.step \notin WaitSteps
                    /\ row' = ExhaustedRow(row)
                    /\ log' = Settled(w, "failed")
                    /\ process' = [process EXCEPT ![w] = Idle]
                    /\ UNCHANGED counters

LoseLease(w) == /\ process[w].pc = "executing"
                /\ ~Executes(w)
                /\ process' = [process EXCEPT ![w] = Idle]
                /\ UNCHANGED <<row, log, counters>>

\* The attempt is completed when the wait is opened; it is no attempt of a task.
OpenWait(w) == /\ Executes(w)
               /\ row.step \in WaitSteps
               /\ row' = WaitingRow
               /\ log' = Settled(w, "completed")
               /\ process' = [process EXCEPT ![w] = Idle]
               /\ UNCHANGED counters

ResumeWait == /\ row.status = "waiting"
              /\ row' = AdvancedRow(row, row.step + 1)
              /\ UNCHANGED <<log, process, counters>>

\* The recovery loop fails the run of an overdue wait in the store: no definition, and
\* with it no compensation, is at hand there.
ExpireWait == /\ row.status = "waiting" /\ Expires
              /\ row' = FailedRow(row)
              /\ UNCHANGED <<log, process, counters>>

-----------------------------------------------------------------------------
(* The operators.                                                          *)

Terminate(o) == /\ process[o].pc = "idle"
                /\ Cancelable(row)
                /\ walks < MaxWalks
                /\ row' = CanceledRow(row)
                /\ Overlap
                /\ process' = [process EXCEPT ![o].pc = "ended"]
                /\ walks' = walks + 1
                /\ UNCHANGED <<log, undoings, faults, errors, retries>>

RetryRun == /\ Retriable(row)
            /\ retries < MaxRetries
            /\ row' = RetriedRow(row)
            /\ Overlap
            /\ retries' = retries + 1
            /\ UNCHANGED <<log, process, walks, undoings, faults, errors>>

-----------------------------------------------------------------------------
(* compensateRun.                                                          *)

\* The tasks to compensate: a step stands at its last completed attempt.
Compensatable(s) == /\ s \in Handlers
                    /\ Done("forward", s)
                    /\ ~Done("compensate", s)
LastDone(s) == Max(AttemptsOf("forward", s, "completed"))

\* The lists of the steps C, the step that was completed last first: getRunAttempts
\* orders the attempts by step_seq and the walk reverses them.
Walks(C) == {items \in [1..Cardinality(C) -> C] :
                /\ Range(items) = C
                /\ \A i, j \in DOMAIN items :
                      i < j => LastDone(items[i]) > LastDone(items[j])}

\* Mutant: the steps are walked in the order in which they were completed.
ReadAttemptsForward(p) ==
    /\ process[p].pc = "ended"
    /\ p \in Operators => row.status \in {"failed", "canceled"}
    /\ \E items \in Walks({s \in Handlers : Compensatable(s)}) :
          process' = [process EXCEPT ![p].pc = "compensating", ![p].items = Reverse(items)]
    /\ UNCHANGED <<row, log, counters>>
\* Mutant: steps that are compensated already are not left out.
ReadAttemptsAgain(p) ==
    /\ process[p].pc = "ended"
    /\ p \in Operators => row.status \in {"failed", "canceled"}
    /\ \E items \in Walks({s \in Handlers : Done("forward", s)}) :
          process' = [process EXCEPT ![p].pc = "compensating", ![p].items = items]
    /\ UNCHANGED <<row, log, counters>>
ReadAttempts(p) ==
    /\ process[p].pc = "ended"
    /\ p \in Operators => row.status \in {"failed", "canceled"}
    /\ \E items \in Walks({s \in Handlers : Compensatable(s)}) :
          process' = [process EXCEPT ![p].pc = "compensating", ![p].items = items]
    /\ UNCHANGED <<row, log, counters>>

\* The request reads the run again and finds it in another status.
NothingToCompensate(o) == /\ process[o].pc = "ended"
                          /\ row.status \notin {"failed", "canceled"}
                          /\ process' = [process EXCEPT ![o] = Idle]
                          /\ UNCHANGED <<row, log, counters>>

BeginCompensation(p) ==
    /\ process[p].pc = "compensating"
    /\ process[p].items # <<>>
    /\ log' = Begun("compensate", Head(process[p].items))
    /\ process' = [process EXCEPT ![p].pc = "undoing", ![p].attempt = Len(log')]
    /\ UNCHANGED <<row, counters>>

HandlerReturns(p) ==
    /\ process[p].pc = "undoing"
    /\ process' = [process EXCEPT ![p].pc = "returned"]
    /\ undoings' = [undoings EXCEPT ![log[process[p].attempt].step] = @ + 1]
    /\ UNCHANGED <<row, log, overlapped, walks, faults, errors, retries>>

\* completeStepAttempt updates the attempt, inserts the event and notifies.
CompleteStepAttempt(p) ==
    /\ process[p].pc = "returned"
    /\ log' = Settled(p, "completed")
    /\ process' = [process EXCEPT ![p].pc = "compensating", ![p].items = Tail(@)]
    /\ UNCHANGED <<row, counters>>

\* One of the three calls fails, the first or one after it, or the reply is lost.
CompletionErrs(p) ==
    /\ process[p].pc = "returned"
    /\ faults + errors < MaxFaults
    /\ errors' = errors + 1
    /\ log' \in {log, Settled(p, "completed")}
    /\ process' = [process EXCEPT ![p].pc = "erring"]
    /\ UNCHANGED <<row, overlapped, walks, undoings, faults, retries>>

\* Mutant: one attempt too many.
FailStepAttemptOnceMore(p) ==
    /\ process[p].pc \in {"undoing", "erring"}
    /\ log' = Settled(p, "failed")
    /\ process' = [process EXCEPT ![p].pc =
          IF NumberOf(process[p].attempt) <= MaxAttempts THEN "compensating" ELSE "givingUp"]
    /\ UNCHANGED <<row, counters>>
\* The catch block: the handler has thrown, or an error after it.  The statement tests no
\* status: an attempt that is completed already becomes failed.
FailStepAttempt(p) ==
    /\ process[p].pc \in {"undoing", "erring"}
    /\ log' = Settled(p, "failed")
    /\ process' = [process EXCEPT ![p].pc =
          IF NumberOf(process[p].attempt) < MaxAttempts THEN "compensating" ELSE "givingUp"]
    /\ UNCHANGED <<row, counters>>

\* Mutant: only a failed run is marked.
MarkRunFailedOnly(p) ==
    /\ process[p].pc = "givingUp"
    /\ row' = IF row.status = "failed"
                THEN [Release(row) EXCEPT !.status = "compensation_failed"] ELSE row
    /\ process' = [process EXCEPT ![p] = Idle]
    /\ UNCHANGED <<log, counters>>
\* The statement finds no row, and throws, if an operator has retried the run.
MarkRunCompensationFailed(p) ==
    /\ process[p].pc = "givingUp"
    /\ row' = IF row.status \in {"failed", "canceled", "compensation_failed"}
                THEN [Release(row) EXCEPT !.status = "compensation_failed"] ELSE row
    /\ process' = [process EXCEPT ![p] = Idle]
    /\ UNCHANGED <<log, counters>>

EndCompensation(p) == /\ process[p].pc = "compensating"
                      /\ process[p].items = <<>>
                      /\ process' = [process EXCEPT ![p] = Idle]
                      /\ UNCHANGED <<row, log, counters>>

\* The process dies, or an error leaves compensateRun: nobody goes on with the walk.
Crash(p) == /\ process[p].pc # "idle"
            /\ faults + errors < MaxFaults
            /\ faults' = faults + 1
            /\ process' = [process EXCEPT ![p] = Idle]
            /\ row' = IF row.owner = p THEN [row EXCEPT !.lease = "expired"] ELSE row
            /\ UNCHANGED <<log, overlapped, walks, undoings, errors, retries>>

-----------------------------------------------------------------------------
(* The specification.                                                      *)

WorkerStep(w) == \/ Claim(w) \/ CompleteRun(w) \/ CompleteStep(w) \/ FailStep(w)
                 \/ ExhaustBudget(w) \/ LoseLease(w) \/ OpenWait(w)
Compensate(p) == \/ ReadAttempts(p) \/ BeginCompensation(p) \/ HandlerReturns(p)
                 \/ CompleteStepAttempt(p) \/ CompletionErrs(p) \/ FailStepAttempt(p)
                 \/ MarkRunCompensationFailed(p) \/ EndCompensation(p)

Next == \/ \E w \in WorkerIds : WorkerStep(w)
        \/ \E p \in Processes : Compensate(p) \/ Crash(p)
        \/ \E o \in Operators : Terminate(o) \/ NothingToCompensate(o)
        \/ RetryRun \/ ResumeWait \/ ExpireWait

Spec == Init /\ [][Next]_vars

-----------------------------------------------------------------------------
(* Properties.                                                             *)

\* TODO.txt:37, "the engine walks completed steps in reverse": when a step is undone,
\* the steps completed after it have been undone before, also by a process that takes
\* over from one that died and in a run that failed again, as long as nobody terminates
\* or retries the run while it is compensated.
WalksInReverse ==
    \A p \in Processes : process[p].pc = "undoing" /\ ~overlapped =>
        LET s == log[process[p].attempt].step
        IN \A t \in Handlers :
              Done("forward", t) /\ LastDone(t) > LastDone(s) => Done("compensate", t)

\* How often the compensation of a step is carried out, through retries, terminations and
\* crashes: once, and once more for every process that died and for every completion
\* whose error sent the walk through the catch block; and when the run is terminated or
\* retried while it is compensated, at most once for each process that set out, and once
\* more for every such error.
UndoneOnce ==
    \A s \in Handlers :
        /\ undoings[s] <= walks + errors
        /\ ~overlapped => undoings[s] <= 1 + faults + errors

\* The failures of the compensation of step s; those that its policy does not retry.
Failures(s) == AttemptsOf("compensate", s, "failed")
LastFailures(s) == {n \in Failures(s) : NumberOf(n) >= MaxAttempts}

\* TODO.txt:37, "retries them under their own policy, and escalates terminal
\* compensation failure as compensation_failed": a handler fails as often as its policy
\* allows, and once more for every process that died.  When walks overlap they share the
\* numbers of the attempts but each ends with a failure of its own, so every walk beyond
\* the first may add one.  A last failure is written to the run; what can prevent that is
\* a death, or an operator that retried the run while it was compensated.
FailuresEscalate ==
    \A s \in Handlers :
        /\ Cardinality(Failures(s)) <= MaxAttempts - 1 + walks
        /\ ~overlapped => Cardinality(Failures(s)) <= MaxAttempts + faults
        /\ LastFailures(s) # {} /\ faults = 0 /\ (retries = 0 \/ ~overlapped) =>
              \/ row.status = "compensation_failed"
              \/ \E p \in Processes : process[p].pc = "givingUp"

\* TODO.txt:37, "retries them under their own policy": unless a process dies, a handler
\* fails no more often than its policy allows.  Walks that overlap do not keep it: with the
\* attempts 1 and 3 one of them ends for good, with 2 the other goes on.
PolicyKept ==
    faults = 0 => \A s \in Handlers : Cardinality(Failures(s)) <= MaxAttempts

\* TODO.txt:37, "On terminal failure or hard terminate": when every process has done
\* its work and none has died, no completed step of a failed or terminated run is left,
\* also when operators and workers overlapped.  What the store fails or exhausts by
\* itself is not covered: a wait that expired, a budget.
NothingLeftBehind ==
    faults = 0 /\ Ended /\ (\A p \in Processes : ~Compensates(p)) =>
        \A s \in Handlers : ~Compensatable(s)
=============================================================================
