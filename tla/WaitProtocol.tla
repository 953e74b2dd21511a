---------------------------- MODULE WaitProtocol ----------------------------
(***************************************************************************)
(* One run at the steps that wait: for a callback, a human, an external      *)
(* session or a named signal.  The actors are the workers, the callers of    *)
(* the callback routes, the senders of signals, the operators and the passes *)
(* that expire overdue waits in three statements each: every process runs    *)
(* them in its recovery loop, and an operator route runs one more.           *)
(*                                                                         *)
(* The step attempts, which no property here looks at, are left out, and so  *)
(* are the retry policies of external sessions (RunLifecycle has both).      *)
(***************************************************************************)
EXTENDS RunStore, Sequences, FiniteSets

CONSTANTS
    StartAt,      \* the first step
    Kind,         \* Kind[s]: "wait", "humanTask", "externalSession", "signal" or "end"
    Transitions,  \* Transitions[s]: where the resume of s may go
    TimeoutTo,    \* TimeoutTo[s]: where the timeout of human task s goes
    FreshKeys,    \* the steps whose body gives every wait a correlation key of its own
    KeyOf,        \* KeyOf[s]: the correlation key of the waits of the other steps
    Signals,      \* the signals that are sent to the run
    Awaits,       \* Awaits[s]: the signals that have the name signal step s awaits
    NoSignal,     \* no signal
    Expirers,     \* the passes of the expiry that may be under way at once
    MaxWaits,     \* bound: rows of workflow_waits
    MaxSlow,      \* bound: leases that expire under a working process
    MaxFaults,    \* bound: crashes
    MaxThrows,    \* bound: bodies that throw
    MaxRetries    \* bound: operator retries

ASSUME WaitDefinitionAssumption ==
    /\ StartAt \in Steps
    /\ Kind \in [Steps -> {"wait", "humanTask", "externalSession", "signal", "end"}]
    /\ Transitions \in [Steps -> SUBSET Steps]
    /\ \A s \in Steps : Kind[s] = "humanTask" => TimeoutTo[s] \in Steps
    /\ FreshKeys \subseteq {s \in Steps : Kind[s] \in {"wait", "externalSession"}}
    /\ \A s \in Steps : Awaits[s] \subseteq Signals
    /\ NoSignal \notin Signals
    /\ {MaxWaits, MaxSlow, MaxFaults, MaxThrows, MaxRetries} \subseteq Nat

VARIABLES
    row,      \* the row of the run
    waits,    \* the rows of workflow_waits of the run, in the order of their creation
    signal,   \* signal[g]: the state of signal g
    worker,   \* worker[w]: what process w keeps in memory of its tick
    expirer,  \* expirer[e]: what pass e keeps in memory
    slow,     \* leases that have expired under a working process
    faults,   \* crashes
    throws,   \* bodies that have thrown
    retries,  \* operator retries
    visits,   \* visits[s]: how often the run has come to step s or has been retried there
    outcomes, \* outcomes[s]: how often something has decided step s and moved the run
    forsaken  \* the waits that a worker or a pass has died or thrown over

counters == <<slow, faults, throws, retries>>
\* For the properties alone: no guard reads it.
history == <<visits, outcomes, forsaken>>
vars == <<row, waits, signal, worker, expirer, counters, history>>

-----------------------------------------------------------------------------
(* Types and the initial state.                                            *)

\* overdue: expires_at < now().  moves counts how often the outcome of this wait
\* has moved the run (for the properties).
Wait == [step : Steps, status : {"open", "resumed", "expired", "canceled"},
         overdue : BOOLEAN, moves : Nat]

\* "delivered" is a consumed signal whose payload a commit has handed to the run.
SignalState == {"unsent", "pending", "consumed", "delivered"}

\* pc "noSignal": consumeSignal has found none; "holding": it has consumed one;
\* "opened": the wait is open and consumeSignalAndResumeWait is still to come;
\* "failing": in the catch block.
Idle == [pc |-> "idle", step |-> NoStep, signal |-> NoSignal]
WorkerRecord == [pc : {"idle", "claimed", "noSignal", "holding", "opened", "failing"},
                 step : Steps \cup {NoStep},
                 signal : Signals \cup {NoSignal}]

\* batch: the waits that ExpireOpenWaits returned and that are still to be handled;
\* marked: the wait whose status is "expired" and whose run is still to be moved.
Resting == [batch |-> {}, marked |-> 0]
Pass == [batch : SUBSET DOMAIN waits, marked : DOMAIN waits \cup {0}]

TypeOK == /\ row \in Row
          /\ waits \in Seq(Wait)
          /\ signal \in [Signals -> SignalState]
          /\ worker \in [WorkerIds -> WorkerRecord]
          /\ expirer \in [Expirers -> Pass]
          /\ {slow, faults, throws, retries} \subseteq Nat
          /\ visits \in [Steps -> Nat] /\ outcomes \in [Steps -> Nat]
          /\ forsaken \subseteq DOMAIN waits

Init == /\ row = InsertedRow(StartAt)
        /\ waits = <<>>
        /\ signal = [g \in Signals |-> "unsent"]
        /\ worker = [w \in WorkerIds |-> Idle]
        /\ expirer = [e \in Expirers |-> Resting]
        /\ slow = 0 /\ faults = 0 /\ throws = 0 /\ retries = 0
        /\ visits = [s \in Steps |-> IF s = StartAt THEN 1 ELSE 0]
        /\ outcomes = [s \in Steps |-> 0]
        /\ forsaken = {}

-----------------------------------------------------------------------------
(* What the actions share.                                                 *)

WaitingRow == [Release(row) EXCEPT !.status = "waiting", !.due = TRUE]

Commits(w) == HoldsLease(row, worker[w].step, w)
Tick(w) == worker' = [worker EXCEPT ![w] = Idle]
Goto(w, pc) == worker' = [worker EXCEPT ![w].pc = pc]

Pending(s) == {g \in Awaits[s] : signal[g] = "pending"}

\* correlation_key is UNIQUE in workflow_waits, whatever the status of the wait.
KeyTaken(s) == s \notin FreshKeys /\ \E i \in DOMAIN waits :
                  /\ waits[i].step \notin FreshKeys
                  /\ KeyOf[waits[i].step] = KeyOf[s]

Decides(s) == outcomes' = [outcomes EXCEPT ![s] = @ + 1]
ComesTo(s) == visits' = [visits EXCEPT ![s] = @ + 1]
Forsakes(i) == forsaken' = forsaken \cup {i}

\* The run waits, at the step of wait i, and the wait is open: the test of the
\* three functions that resume.  Whatever else they find is a duplicate.
Resumable(i) == /\ waits[i].status = "open"
                /\ row.status = "waiting"
                /\ row.step = waits[i].step

\* CompleteWaitResume.
\* Mutant: the run is moved by a statement of its own, which has not come yet.
CompleteWaitOnly(i) ==
    waits' = [waits EXCEPT ![i].status = "resumed"] /\ UNCHANGED <<row, history>>
CompleteWaitResume(i) ==
    /\ \E next \in Transitions[waits[i].step] : row' = AdvancedRow(row, next) /\ ComesTo(next)
    /\ Decides(waits[i].step)
    /\ UNCHANGED forsaken
    /\ waits' = [waits EXCEPT ![i].status = "resumed", ![i].moves = @ + 1]

-----------------------------------------------------------------------------
(* The workers.                                                            *)

Claim(w) == /\ worker[w].pc = "idle"
            /\ Claimable(row)
            /\ row' = Claimed(row, w)
            /\ worker' = [worker EXCEPT ![w] = [pc |-> "claimed", step |-> row.step,
                                                signal |-> NoSignal]]
            /\ UNCHANGED <<waits, signal, expirer, counters, history>>

CompleteRun(w) == /\ worker[w].pc = "claimed"
                  /\ Kind[worker[w].step] = "end"
                  /\ Commits(w)
                  /\ row' = CompletedRow(row)
                  /\ Decides(row.step)
                  /\ Tick(w)
                  /\ UNCHANGED <<waits, signal, expirer, counters, visits, forsaken>>

\* Where a worker opens a wait: a signal step first looks for a signal.
Opening(w) == \/ worker[w].pc = "noSignal"
              \/ worker[w].pc = "claimed" /\ Kind[worker[w].step] \notin {"signal", "end"}

OpenWait(w) == LET s == worker[w].step IN
    /\ Opening(w)
    /\ Commits(w)
    /\ ~KeyTaken(s)
    /\ Len(waits) < MaxWaits
    /\ row' = WaitingRow
    /\ waits' = Append(waits, [step |-> s, status |-> "open", overdue |-> FALSE, moves |-> 0])
    /\ IF Kind[s] = "signal" THEN Goto(w, "opened") ELSE Tick(w)
    /\ forsaken' = {i \in forsaken : waits[i].step # s}
    /\ UNCHANGED <<signal, expirer, counters, visits, outcomes>>

\* Mutant: the error leaves the tick; the run is claimed once more when its lease expires.
OpenWaitDuplicateDropped(w) ==
    /\ Opening(w)
    /\ Commits(w)
    /\ KeyTaken(worker[w].step)
    /\ Tick(w)
    /\ UNCHANGED <<row, waits, signal, expirer, counters, history>>

\* The INSERT of the wait violates the unique key and takes the update of the run
\* with it; the worker goes on in its catch block.
OpenWaitDuplicate(w) ==
    /\ Opening(w)
    /\ Commits(w)
    /\ KeyTaken(worker[w].step)
    /\ Goto(w, "failing")
    /\ UNCHANGED <<row, waits, signal, expirer, counters, history>>

\* A statement of its own, under no lease: whoever is at the step takes a signal.
ConsumeSignal(w) ==
    LET s == worker[w].step IN
    /\ worker[w].pc = "claimed"
    /\ Kind[s] = "signal"
    /\ \/ /\ Pending(s) = {}
          /\ Goto(w, "noSignal")
          /\ UNCHANGED signal
       \/ \E g \in Pending(s) :
             /\ signal' = [signal EXCEPT ![g] = "consumed"]
             /\ worker' = [worker EXCEPT ![w].pc = "holding", ![w].signal = g]
    /\ UNCHANGED <<row, waits, expirer, counters, history>>

AdvanceTaskStep(w) ==
    /\ worker[w].pc = "holding"
    /\ Commits(w)
    /\ \E next \in Transitions[worker[w].step] : row' = AdvancedRow(row, next) /\ ComesTo(next)
    /\ Decides(row.step)
    /\ signal' = [signal EXCEPT ![worker[w].signal] = "delivered"]
    /\ Tick(w)
    /\ UNCHANGED <<waits, expirer, counters, forsaken>>

\* Mutant: the worker does not look for a signal once more.
LeaveWaitOpen(w) == /\ worker[w].pc = "opened"
                    /\ Tick(w)
                    /\ UNCHANGED <<row, waits, signal, expirer, counters, history>>

\* One transaction over the wait that this worker has opened, the run and a signal.
ConsumeSignalAndResumeWait(w) ==
    LET s == worker[w].step IN
    /\ worker[w].pc = "opened"
    /\ \E i \in DOMAIN waits :
          /\ KeyOf[waits[i].step] = KeyOf[s] /\ waits[i].step \notin FreshKeys
          /\ IF Resumable(i) /\ Pending(s) # {}
               THEN \E g \in Pending(s) : /\ CompleteWaitResume(i)
                                          /\ signal' = [signal EXCEPT ![g] = "delivered"]
               ELSE UNCHANGED <<row, waits, signal, history>>
    /\ Tick(w)
    /\ UNCHANGED <<expirer, counters>>

\* What a worker gives up that has opened a wait for a signal and does not look again.
GivesUp(w) == forsaken' = forsaken \cup
                 {i \in DOMAIN waits : worker[w].pc = "opened" /\ waits[i].step = worker[w].step}

\* step.open, step.start or step.resume throws; inside consumeSignalAndResumeWait the
\* transaction is rolled back, and the run still waits.
BodyThrows(w) ==
    /\ \/ worker[w].pc \in {"holding", "opened"}
       \/ worker[w].pc = "claimed" /\ Kind[worker[w].step] \notin {"signal", "end"}
    /\ throws < MaxThrows
    /\ throws' = throws + 1
    /\ Goto(w, "failing")
    /\ GivesUp(w)
    /\ UNCHANGED <<row, waits, signal, expirer, slow, faults, retries, visits, outcomes>>

\* The catch block: these steps have no retry policy.
FailRun(w) == /\ worker[w].pc = "failing"
              /\ Commits(w)
              /\ row' = FailedRow(row)
              /\ Decides(row.step)
              /\ Tick(w)
              /\ UNCHANGED <<waits, signal, expirer, counters, visits, forsaken>>

LoseLease(w) == /\ \/ worker[w].pc \in {"holding", "failing"} \/ Opening(w)
                   \/ worker[w].pc = "claimed" /\ Kind[worker[w].step] = "end"
                /\ ~Commits(w)
                /\ Tick(w)
                /\ UNCHANGED <<row, waits, signal, expirer, counters, history>>

Crash(w) == /\ worker[w].pc # "idle"
            /\ faults < MaxFaults
            /\ faults' = faults + 1
            /\ Tick(w)
            /\ GivesUp(w)
            /\ UNCHANGED <<row, waits, signal, expirer, slow, throws, retries, visits, outcomes>>

-----------------------------------------------------------------------------
(* Callbacks, signals and operators.                                       *)

\* resumeWait and resumeExternalSession: the callback of a wait step, the decision
\* of a human, the completion of an external session.
ResumeWait(i) == /\ Kind[waits[i].step] # "signal"
                 /\ Resumable(i)
                 /\ CompleteWaitResume(i)
                 /\ UNCHANGED <<signal, worker, expirer, counters>>

\* The run is queued if it waits, for whatever it waits; its lease stays.
CreateSignal(g) ==
    /\ signal[g] = "unsent"
    /\ signal' = [signal EXCEPT ![g] = "pending"]
    /\ row' = IF row.status = "waiting" THEN [row EXCEPT !.status = "queued", !.due = TRUE]
                                        ELSE row
    /\ UNCHANGED <<waits, worker, expirer, counters, history>>

\* The heartbeat of an external session leases the waiting run to nobody.
RecordExternalHeartbeat ==
    /\ \E i \in DOMAIN waits : Kind[waits[i].step] = "externalSession" /\ Resumable(i)
    /\ row' = [row EXCEPT !.lease = "live"]
    /\ UNCHANGED <<waits, signal, worker, expirer, counters, history>>

\* Mutant: a termination leaves the waits of the run open.
RequestCancelRunOnly(mode) ==
    /\ Cancelable(row)
    /\ row' = IF mode = "hard" THEN CanceledRow(row) ELSE GracefullyCanceledRow(row)
    /\ UNCHANGED <<waits, signal, worker, expirer, counters, history>>

RequestCancelRun(mode) ==
    /\ Cancelable(row)
    /\ row' = IF mode = "hard" THEN CanceledRow(row) ELSE GracefullyCanceledRow(row)
    /\ waits' = [i \in DOMAIN waits |->
                   IF mode = "hard" /\ waits[i].status = "open"
                     THEN [waits[i] EXCEPT !.status = "canceled"] ELSE waits[i]]
    /\ UNCHANGED <<signal, worker, expirer, counters, history>>

RetryRun == /\ Retriable(row)
            /\ retries < MaxRetries
            /\ row' = RetriedRow(row)
            /\ retries' = retries + 1
            /\ ComesTo(row.step)
            /\ UNCHANGED <<waits, signal, worker, expirer, slow, faults, throws, outcomes, forsaken>>

-----------------------------------------------------------------------------
(* Time and recovery.                                                      *)

Working(w) == worker[w].pc \notin {"idle", "opened"} /\ row.owner = w

LeaseExpires ==
    /\ row.lease = "live"
    /\ row' = [row EXCEPT !.lease = "expired"]
    /\ IF \E w \in WorkerIds : Working(w)
         THEN slow < MaxSlow /\ slow' = slow + 1
         ELSE UNCHANGED slow
    /\ UNCHANGED <<waits, signal, worker, expirer, faults, throws, retries, history>>

RecoverExpiredLeases == /\ Recoverable(row)
                        /\ row' = Recovered(row)
                        /\ UNCHANGED <<waits, signal, worker, expirer, counters, history>>

WaitOverdue(i) == /\ waits[i].status = "open" /\ ~waits[i].overdue
                  /\ waits' = [waits EXCEPT ![i].overdue = TRUE]
                  /\ UNCHANGED <<row, signal, worker, expirer, counters, history>>

\* The SELECT commits by itself: FOR UPDATE locks nothing beyond it, so that two passes
\* may hold the same wait.
ExpireOpenWaits(e) ==
    /\ expirer[e] = Resting
    /\ \E batch \in SUBSET {i \in DOMAIN waits : waits[i].status = "open" /\ waits[i].overdue} :
          batch # {} /\ expirer' = [expirer EXCEPT ![e].batch = batch]
    /\ UNCHANGED <<row, waits, signal, worker, counters, history>>

Marking(e, i) ==
    /\ expirer[e].marked = 0
    /\ i \in expirer[e].batch
    /\ expirer' = [expirer EXCEPT ![e] = [batch |-> @.batch \ {i}, marked |-> i]]
    /\ UNCHANGED <<row, signal, worker, counters, history>>

\* Mutant: the expiry writes a status that nothing knows.
MarkTimedOut(e, i) == Marking(e, i) /\ waits' = [waits EXCEPT ![i].status = "timedOut"]
\* UpdateWaitStatus looks at the id of the wait and at nothing else.
MarkExpired(e, i) == Marking(e, i) /\ waits' = [waits EXCEPT ![i].status = "expired"]

\* The outcome of the expired wait i: a human task goes where its timeout goes, the run
\* of any other wait fails.
TimesOut(i) == LET s == waits[i].step IN
    /\ IF Kind[s] = "humanTask"
         THEN row' = AdvancedRow(row, TimeoutTo[s]) /\ ComesTo(TimeoutTo[s])
         ELSE row' = FailedRow(row) /\ UNCHANGED visits
    /\ Decides(s)
    /\ waits' = [waits EXCEPT ![i].moves = @ + 1]

Settling(e) == /\ expirer[e].marked # 0
               /\ expirer' = [expirer EXCEPT ![e].marked = 0]
               /\ UNCHANGED <<signal, worker, counters, forsaken>>

\* Mutant: the run is moved whether it still waits at the step or not.
SettleExpiredAnyway(e) == Settling(e) /\ TimesOut(expirer[e].marked)
\* CompleteExpiredWaitTransition for a human task, FailExpiredWaitRun for the others.
SettleExpired(e) ==
    /\ Settling(e)
    /\ IF row.status = "waiting" /\ row.step = waits[expirer[e].marked].step
         THEN TimesOut(expirer[e].marked)
         ELSE UNCHANGED <<row, waits, visits, outcomes>>

\* The process dies, or a statement of the pass throws: the rest of the pass is lost.
ExpirerCrash(e) ==
    /\ expirer[e] # Resting
    /\ faults < MaxFaults
    /\ faults' = faults + 1
    /\ expirer' = [expirer EXCEPT ![e] = Resting]
    /\ IF expirer[e].marked # 0 THEN Forsakes(expirer[e].marked) ELSE UNCHANGED forsaken
    /\ UNCHANGED <<row, waits, signal, worker, slow, throws, retries, visits, outcomes>>

-----------------------------------------------------------------------------
(* The specification.                                                      *)

WorkerStep(w) == \/ CompleteRun(w) \/ OpenWait(w) \/ OpenWaitDuplicate(w)
                 \/ ConsumeSignal(w) \/ AdvanceTaskStep(w)
                 \/ ConsumeSignalAndResumeWait(w) \/ FailRun(w) \/ LoseLease(w)

ExpirerStep(e) == \/ ExpireOpenWaits(e) \/ SettleExpired(e)
                  \/ \E i \in DOMAIN waits : MarkExpired(e, i)

Next == \/ \E w \in WorkerIds : Claim(w) \/ WorkerStep(w) \/ BodyThrows(w) \/ Crash(w)
        \/ \E i \in DOMAIN waits : ResumeWait(i) \/ WaitOverdue(i)
        \/ \E g \in Signals : CreateSignal(g)
        \/ \E mode \in {"graceful", "hard"} : RequestCancelRun(mode)
        \/ RecordExternalHeartbeat \/ RetryRun
        \/ LeaseExpires \/ RecoverExpiredLeases
        \/ \E e \in Expirers : ExpirerStep(e) \/ ExpirerCrash(e)

Spec == Init /\ [][Next]_vars

\* The loops poll for ever, bodies return, time passes: nobody has to call back, to
\* send a signal or to operate.
Fairness == /\ \A w \in WorkerIds : WF_vars(WorkerStep(w))
            /\ WF_vars(\E w \in WorkerIds : Claim(w))
            /\ WF_vars(LeaseExpires)
            /\ WF_vars(\E i \in DOMAIN waits : WaitOverdue(i))
            /\ \A e \in Expirers : WF_vars(ExpirerStep(e))

LiveSpec == Spec /\ Fairness

-----------------------------------------------------------------------------
(* Properties.                                                             *)

\* What is decided about a step is decided once for each time the run has come there or
\* been retried there, by whichever comes first of a callback, a signal, a worker and the
\* passes of the expiry; the one that comes late, about a wait it has read before, does
\* not move the run once more.  A wait that has not expired moves the run once at most.
\* (One that has may do so again, when the run is back at its step: WaitMovesRunOnce.)
OneOutcomePerVisit ==
    /\ \A s \in Steps : outcomes[s] <= visits[s]
    /\ \A i \in DOMAIN waits : waits[i].status # "expired" => waits[i].moves <= 1

\* The outcome of a wait moves its run once.  A pass that still holds the wait settles it
\* later, and moves the run a second time if a loop or a retry has brought it back.
WaitMovesRunOnce == \A i \in DOMAIN waits : waits[i].moves <= 1

\* A terminated run has no open wait that a late callback could find.
HardCancelClosesWaits ==
    row.status = "canceled" /\ row.cancel = "hard" =>
       \A i \in DOMAIN waits : waits[i].status # "open"

\* A run that waits has something that will end its waiting: an open wait at its step,
\* or a pass of the expiry that has marked it and is about to move the run.  The one
\* exception is a wait whose pass has died or thrown between the two.
WaitingRunHasWait ==
    row.status = "waiting" =>
       \E i \in DOMAIN waits :
          /\ waits[i].step = row.step
          /\ \/ waits[i].status = "open"
             \/ \E e \in Expirers : expirer[e].marked = i
             \/ waits[i].status = "expired" /\ i \in forsaken

LookedFor(s) == \E w \in WorkerIds : worker[w].pc = "opened" /\ worker[w].step = s

\* The race behind the opening of a wait for a signal, which consumeSignalAndResumeWait
\* is there to close: an open wait that holds the run waits for a signal that has not
\* arrived, except while the worker that has opened it is about to look once more.  A
\* worker that dies before, or whose step.resume throws inside (run-loop.ts:619), leaves
\* the race open: these waits are exempt.
PostOpenRaceClosed ==
    \A i \in DOMAIN waits :
       Kind[waits[i].step] = "signal" /\ Resumable(i) /\ Pending(row.step) # {} =>
          LookedFor(row.step) \/ i \in forsaken

\* TODO.txt:43, "atomic consumeSignalAndResumeWait closing the post-openWait race", with no
\* exception.
RaceClosedForGood ==
    \A i \in DOMAIN waits :
       Kind[waits[i].step] = "signal" /\ Resumable(i) /\ Pending(row.step) # {} =>
          LookedFor(row.step)

\* TODO.txt:43, "Durable signal table": a signal that has been consumed has reached
\* the run, or the worker that is to hand it over still holds it.
ConsumedSignalsAreHeld ==
    \A g \in Signals : signal[g] = "consumed" =>
       \E w \in WorkerIds : worker[w].pc = "holding" /\ worker[w].signal = g

\* README.md:11, "Block on Slack approvals, webhook callbacks, or named signals": a
\* waiting run is queued again by the outcome of its wait, by a signal that it
\* awaits, or by an operator, and by nothing else.
BlocksUntilItsOutcome ==
    [][row.status = "waiting" /\ row'.status = "queued" =>
          \/ row'.cancel # row.cancel
          \/ row'.step # row.step
          \/ Pending(row.step)' # {}]_vars

\* TODO.txt:54, "recovery expires overdue waits and fails the run": no run waits for
\* ever, even if nobody ever calls back.
EveryWaitEnds == row.status = "waiting" ~> row.status # "waiting"

\* The run comes to rest, for good: no signal, duplicate key or heartbeat keeps it
\* between its queue and its waits.
EveryRunRests == <>[](row.status \in Final \cup {"failed"})
=============================================================================
