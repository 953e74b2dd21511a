------------------------- MODULE WaitProtocolProofs -------------------------
(***************************************************************************)
(* Theorems about WaitProtocol, for every definition of waiting steps, every   *)
(* fleet of workers and expiry passes, and every number of signals, waits,     *)
(* crashes, throwing bodies and retries.                                     *)
(***************************************************************************)
EXTENDS WaitProtocol, RunStoreProofs

-----------------------------------------------------------------------------
(* Type correctness.                                                       *)

LEMMA TypeInit == Init => TypeOK
  <1> SUFFICES ASSUME Init PROVE TypeOK
    OBVIOUS
  <1>1. row \in Row
    BY WaitDefinitionAssumption DEF Init, InsertedRow, AbsentRow, Row, Status
  <1>2. waits \in Seq(Wait) /\ signal \in [Signals -> SignalState]
    BY DEF Init, SignalState
  <1>3. worker \in [WorkerIds -> WorkerRecord]
    BY DEF Init, Idle, WorkerRecord
  <1>4. expirer \in [Expirers -> Pass]
    BY DEF Init, Resting, Pass
  <1>5. slow = 0 /\ faults = 0 /\ throws = 0 /\ retries = 0
    BY DEF Init
  <1>6. visits \in [Steps -> Nat] /\ outcomes \in [Steps -> Nat] /\ forsaken \subseteq DOMAIN waits
    BY DEF Init
  <1> QED
    BY <1>1, <1>2, <1>3, <1>4, <1>5, <1>6 DEF TypeOK

\* What the memory of a worker may become in one step.
LEMMA WorkerMoves ==
    ASSUME worker \in [WorkerIds -> WorkerRecord], NEW w \in WorkerIds
    PROVE  /\ Tick(w) => worker' \in [WorkerIds -> WorkerRecord]
           /\ \A pc \in {"noSignal", "opened", "failing"} :
                 Goto(w, pc) => worker' \in [WorkerIds -> WorkerRecord]
           /\ worker[w].step \in Steps \cup {NoStep}
           /\ worker[w].signal \in Signals \cup {NoSignal}
  <1>1. Idle \in WorkerRecord
    BY DEF Idle, WorkerRecord
  <1>2. worker[w] \in WorkerRecord
    OBVIOUS
  <1>3. ASSUME NEW pc \in {"noSignal", "opened", "failing"}
        PROVE  [worker[w] EXCEPT !.pc = pc] \in WorkerRecord
    BY <1>2 DEF WorkerRecord
  <1>4. worker[w].step \in Steps \cup {NoStep} /\ worker[w].signal \in Signals \cup {NoSignal}
    BY <1>2 DEF WorkerRecord
  <1> QED
    BY <1>1, <1>3, <1>4 DEF Tick, Goto

\* Rows that WaitProtocol writes and RunStore does not name.
LEMMA WaitingRows ==
    ASSUME row \in Row
    PROVE  /\ WaitingRow \in Row
           /\ [row EXCEPT !.status = "queued", !.due = TRUE] \in Row
           /\ [row EXCEPT !.lease = "live"] \in Row
  BY DEF WaitingRow, Row, Status, Release

\* A wait that is changed in place: the table keeps its length and its other rows.
LEMMA Rewriting ==
    ASSUME waits \in Seq(Wait), NEW i \in DOMAIN waits, NEW r \in Wait,
           waits' = [waits EXCEPT ![i] = r]
    PROVE  /\ waits' \in Seq(Wait) /\ DOMAIN waits' = DOMAIN waits
           /\ waits'[i] = r /\ \A j \in DOMAIN waits : j # i => waits'[j] = waits[j]
  BY Excepting

\* The outcome of a wait moves the run and closes the wait, in one transaction.
LEMMA Completing ==
    ASSUME TypeOK, NEW i \in DOMAIN waits, CompleteWaitResume(i)
    PROVE  /\ row' \in Row
           /\ \E next \in Transitions[waits[i].step] :
                 next \in Steps /\ row' = AdvancedRow(row, next) /\ ComesTo(next)
           /\ waits' \in Seq(Wait) /\ DOMAIN waits' = DOMAIN waits
           /\ waits'[i] = [waits[i] EXCEPT !.status = "resumed", !.moves = @ + 1]
           /\ \A j \in DOMAIN waits : j # i => waits'[j] = waits[j]
  <1>1. waits[i] \in Wait /\ waits \in Seq(Wait) /\ row \in Row
    BY ElementOfSeq DEF TypeOK
  <1>2. PICK r \in Wait : r = [waits[i] EXCEPT !.status = "resumed", !.moves = @ + 1]
    <2>1. PICK x : x = [waits[i] EXCEPT !.status = "resumed", !.moves = @ + 1]
      OBVIOUS
    <2>2. x = [step |-> waits[i].step, status |-> "resumed",
               overdue |-> waits[i].overdue, moves |-> waits[i].moves + 1]
      BY <1>1, <2>1 DEF Wait
    <2>3. x \in Wait
      BY <1>1, <2>2 DEF Wait
    <2> QED
      BY <2>1, <2>3
  <1>3. waits' = [waits EXCEPT ![i] = r]
    BY <1>2 DEF CompleteWaitResume
  <1>4. /\ waits' \in Seq(Wait) /\ DOMAIN waits' = DOMAIN waits
        /\ waits'[i] = r /\ \A j \in DOMAIN waits : j # i => waits'[j] = waits[j]
    BY <1>1, <1>3, Rewriting
  <1>5. \A next \in Transitions[waits[i].step] : next \in Steps
    BY <1>1, WaitDefinitionAssumption DEF Wait
  <1>6. PICK next \in Transitions[waits[i].step] : row' = AdvancedRow(row, next) /\ ComesTo(next)
    BY DEF CompleteWaitResume
  <1> QED
    BY <1>1, <1>2, <1>4, <1>5, <1>6, RowTypes

\* What makes the guard of a commit safe although it tests no status: whoever works on
\* the run has a step of the definition, and a run with an owner is running.
WorkersAtSteps == \A w \in WorkerIds : worker[w].pc # "idle" => worker[w].step \in Steps
OwnedIsRunning == row.owner \in WorkerIds => row.status = "running"
TypeInv == TypeOK /\ WorkersAtSteps /\ OwnedIsRunning

-----------------------------------------------------------------------------
(* What a step does to the run and its waits.                              *)

Live == row.status \in {"queued", "running", "waiting"}

\* The run stays at its step; it neither begins to wait nor is it terminated.
RowKept == /\ row' \in Row
           /\ row'.step = row.step
           /\ row'.owner \in WorkerIds => row'.status = "running"
           /\ row'.status = "waiting" => row.status = "waiting"
           /\ row'.status = "canceled" /\ row'.cancel = "hard" =>
                 row.status = "canceled" /\ row.cancel = "hard"

\* A pass begins, or gives up; what it had marked is then forsaken.
PassesKept == /\ expirer' \in [Expirers -> Pass]
              /\ \A e \in Expirers : expirer'[e].marked # expirer[e].marked =>
                    expirer'[e].marked = 0 /\ expirer[e].marked \in forsaken'

Quiet == /\ UNCHANGED <<waits, outcomes>>
         /\ RowKept
         /\ \/ UNCHANGED visits /\ (Live' => Live)
            \/ row.status = "failed" /\ ComesTo(row.step)
         /\ forsaken \subseteq forsaken' /\ forsaken' \subseteq DOMAIN waits
         /\ PassesKept

\* A worker commits: the run leaves its step, or fails at it.
Leaves == /\ UNCHANGED <<waits, expirer, forsaken>>
          /\ row.status = "running" /\ row.step \in Steps
          /\ Decides(row.step)
          /\ \/ row' \in {CompletedRow(row), FailedRow(row)} /\ UNCHANGED visits
             \/ \E next \in Steps : row' = AdvancedRow(row, next) /\ ComesTo(next)

Opens == /\ UNCHANGED <<expirer, visits, outcomes>>
         /\ row.status = "running" /\ row.step \in Steps
         /\ ~KeyTaken(row.step)
         /\ row' = WaitingRow
         /\ Kind[row.step] = "signal" =>
               \E w \in WorkerIds : worker'[w].pc = "opened" /\ worker'[w].step = row.step
         /\ waits' = Append(waits, [step |-> row.step, status |-> "open",
                                    overdue |-> FALSE, moves |-> 0])
         /\ forsaken' \subseteq forsaken

Resumes == /\ UNCHANGED expirer
           /\ \E i \in DOMAIN waits : Resumable(i) /\ CompleteWaitResume(i)

Terminates == /\ UNCHANGED <<expirer, history>>
              /\ row' = CanceledRow(row)
              /\ waits' = [i \in DOMAIN waits |->
                             IF waits[i].status = "open"
                               THEN [waits[i] EXCEPT !.status = "canceled"] ELSE waits[i]]

Ages == /\ UNCHANGED <<row, expirer, history>>
        /\ \E i \in DOMAIN waits : waits' = [waits EXCEPT ![i].overdue = TRUE]

Marks == /\ UNCHANGED <<row, history>>
         /\ \E e \in Expirers, i \in DOMAIN waits :
               /\ expirer[e].marked = 0
               /\ expirer' = [expirer EXCEPT ![e] = [batch |-> expirer[e].batch \ {i}, marked |-> i]]
               /\ waits' = [waits EXCEPT ![i].status = "expired"]

Settles == \E e \in Expirers : \E i \in DOMAIN waits :
    /\ UNCHANGED forsaken
    /\ expirer[e].marked = i
    /\ expirer' = [expirer EXCEPT ![e].marked = 0]
    /\ \/ /\ ~(row.status = "waiting" /\ row.step = waits[i].step)
          /\ UNCHANGED <<row, waits, visits, outcomes>>
       \/ /\ row.status = "waiting" /\ row.step = waits[i].step
          /\ TimesOut(i)

LEMMA RowUpdates ==
    ASSUME TypeInv
    PROVE  /\ row.status \in {"queued", "running"} =>
                \A w \in WorkerIds : row' = Claimed(row, w) => RowKept
           /\ row' = row => RowKept
           /\ row' \in {Recovered(row), RetriedRow(row)} => RowKept /\ row'.status = "queued"
           /\ row.status # "canceled" =>
                (row' = GracefullyCanceledRow(row) => RowKept /\ (Live' => Live))
           /\ row' = [row EXCEPT !.lease = "expired"] => RowKept /\ (Live' => Live)
           /\ row' = [row EXCEPT !.lease = "live"] => RowKept /\ (Live' => Live)
           /\ row.status = "waiting" =>
                (row' = [row EXCEPT !.status = "queued", !.due = TRUE] => RowKept)
  <1>1. row \in Row /\ (row.owner \in WorkerIds => row.status = "running")
    BY DEF TypeInv, TypeOK, OwnedIsRunning
  <1>2. NoWorker \notin WorkerIds
    BY NullsAreNoValues
  <1>3. ASSUME row.status \in {"queued", "running"}, NEW w \in WorkerIds, row' = Claimed(row, w)
        PROVE  RowKept
    <2>1. Claimed(row, w) \in Row
      BY <1>1, RowTypes
    <2>2. /\ Claimed(row, w).status = "running" /\ Claimed(row, w).step = row.step
      BY <1>1 DEF Claimed, Row
    <2> QED
      BY <1>3, <2>1, <2>2 DEF RowKept
  <1>4. row' = row => RowKept
    BY <1>1 DEF RowKept
  <1>5. ASSUME row' \in {Recovered(row), RetriedRow(row)}
        PROVE  RowKept /\ row'.status = "queued"
    <2>1. row' \in Row
      BY <1>1, <1>5, RowTypes
    <2>2. \A r \in {Recovered(row), RetriedRow(row)} :
             r.step = row.step /\ r.owner = NoWorker /\ r.status = "queued"
      BY <1>1 DEF Recovered, RetriedRow, Release, Row
    <2> QED
      BY <1>2, <1>5, <2>1, <2>2 DEF RowKept
  <1>6. ASSUME row.status # "canceled", row' = GracefullyCanceledRow(row)
        PROVE  RowKept /\ (Live' => Live)
    <2>1. row' \in Row
      BY <1>1, <1>6, RowTypes
    <2>2. /\ GracefullyCanceledRow(row).step = row.step
          /\ GracefullyCanceledRow(row).owner = row.owner
          /\ GracefullyCanceledRow(row).cancel = "graceful"
      BY <1>1 DEF GracefullyCanceledRow, Row
    <2>3. /\ GracefullyCanceledRow(row).status # "waiting"
          /\ row.status = "running" => GracefullyCanceledRow(row).status = "running"
          /\ GracefullyCanceledRow(row).status \in {"queued", "running"} =>
                row.status \in {"queued", "running", "waiting"}
      BY <1>1 DEF GracefullyCanceledRow, Row
    <2> QED
      BY <1>1, <1>6, <2>1, <2>2, <2>3 DEF RowKept, Live
  <1>7. ASSUME NEW l \in {"live", "expired"}, row' = [row EXCEPT !.lease = l]
        PROVE  RowKept /\ (Live' => Live)
    <2>1. row' \in Row
      BY <1>1, <1>7 DEF Row
    <2>2. /\ [row EXCEPT !.lease = l].step = row.step
          /\ [row EXCEPT !.lease = l].owner = row.owner
          /\ [row EXCEPT !.lease = l].status = row.status
          /\ [row EXCEPT !.lease = l].cancel = row.cancel
      BY <1>1 DEF Row
    <2> QED
      BY <1>1, <1>7, <2>1, <2>2 DEF RowKept, Live
  <1>8. ASSUME row.status = "waiting", row' = [row EXCEPT !.status = "queued", !.due = TRUE]
        PROVE  RowKept
    <2>1. row' \in Row
      BY <1>1, <1>8, WaitingRows
    <2>2. /\ [row EXCEPT !.status = "queued", !.due = TRUE].step = row.step
          /\ [row EXCEPT !.status = "queued", !.due = TRUE].owner = row.owner
          /\ [row EXCEPT !.status = "queued", !.due = TRUE].status = "queued"
      BY <1>1 DEF Row
    <2> QED
      BY <1>1, <1>8, <2>1, <2>2 DEF RowKept
  <1> QED
    BY <1>3, <1>4, <1>5, <1>6, <1>7, <1>8

\* A worker that passes the guard of a commit is at the step of a running run.
LEMMA Committing ==
    ASSUME TypeInv, NEW w \in WorkerIds, worker[w].pc # "idle", Commits(w)
    PROVE  row.status = "running" /\ row.step = worker[w].step /\ row.step \in Steps
  BY DEF TypeInv, WorkersAtSteps, OwnedIsRunning, Commits, HoldsLease

LEMMA Effects ==
    ASSUME TypeInv, [Next]_vars
    PROVE  \/ Quiet \/ Leaves \/ Opens \/ Resumes \/ Terminates \/ Ages \/ Marks \/ Settles
  <1> USE DEF counters, history
  <1>1. /\ row \in Row /\ waits \in Seq(Wait)
        /\ worker \in [WorkerIds -> WorkerRecord]
        /\ expirer \in [Expirers -> Pass]
        /\ forsaken \subseteq DOMAIN waits
        /\ row' = row => RowKept
    BY DEF TypeInv, TypeOK, OwnedIsRunning, RowKept
  <1>2. ASSUME UNCHANGED <<waits, expirer, outcomes, visits>>, RowKept, Live' => Live,
               forsaken \subseteq forsaken', forsaken' \subseteq DOMAIN waits
        PROVE  Quiet
    BY <1>1, <1>2 DEF Quiet, PassesKept, Pass
  <1>3. CASE \E w \in WorkerIds : Claim(w) \/ WorkerStep(w) \/ BodyThrows(w) \/ Crash(w)
    <2>1. PICK w \in WorkerIds : Claim(w) \/ WorkerStep(w) \/ BodyThrows(w) \/ Crash(w)
      BY <1>3
    <2>2. CASE Claim(w)
      <3>1. UNCHANGED <<waits, expirer, history>> /\ Live
        BY <2>2 DEF Claim, Claimable, Live
      <3>2. RowKept
        BY <2>2, RowUpdates DEF Claim, Claimable
      <3> QED
        BY <1>1, <1>2, <3>1, <3>2
    <2>3. CASE \/ OpenWaitDuplicate(w) \/ ConsumeSignal(w) \/ LoseLease(w)
      <3>1. UNCHANGED <<row, waits, expirer, history>>
        BY <2>3 DEF OpenWaitDuplicate, ConsumeSignal, LoseLease
      <3> QED
        BY <1>1, <1>2, <3>1 DEF Live
    <2>4. CASE BodyThrows(w) \/ Crash(w)
      <3>1. UNCHANGED <<row, waits, expirer, visits, outcomes>> /\ GivesUp(w)
        BY <2>4 DEF BodyThrows, Crash
      <3>2. forsaken \subseteq forsaken' /\ forsaken' \subseteq DOMAIN waits
        BY <1>1, <3>1 DEF GivesUp
      <3> QED
        BY <1>1, <1>2, <3>1, <3>2 DEF Live
    <2>5. CASE CompleteRun(w) \/ AdvanceTaskStep(w) \/ FailRun(w)
      <3>1. row.status = "running" /\ row.step = worker[w].step /\ row.step \in Steps
        BY <2>5, Committing DEF CompleteRun, AdvanceTaskStep, FailRun
      <3>2. Transitions[row.step] \subseteq Steps
        BY <3>1, WaitDefinitionAssumption
      <3> QED
        BY <2>5, <3>1, <3>2 DEF CompleteRun, AdvanceTaskStep, FailRun, Leaves
    <2>6. CASE OpenWait(w)
      <3>1. row.status = "running" /\ row.step = worker[w].step /\ row.step \in Steps
        BY <2>6, Committing DEF OpenWait, Opening
      <3>2. Kind[row.step] = "signal" => worker'[w].pc = "opened" /\ worker'[w].step = row.step
        BY <1>1, <2>6, <3>1 DEF OpenWait, Goto, WorkerRecord
      <3> QED
        BY <2>6, <3>1, <3>2 DEF OpenWait, Opens
    <2>7. CASE ConsumeSignalAndResumeWait(w)
      <3>1. \/ UNCHANGED <<row, waits, history>>
            \/ \E i \in DOMAIN waits : Resumable(i) /\ CompleteWaitResume(i)
        BY <2>7 DEF ConsumeSignalAndResumeWait
      <3>2. UNCHANGED expirer
        BY <2>7 DEF ConsumeSignalAndResumeWait
      <3> QED
        BY <1>1, <1>2, <3>1, <3>2 DEF Resumes, Live
    <2> QED
      BY <2>1, <2>2, <2>3, <2>4, <2>5, <2>6, <2>7 DEF WorkerStep
  <1>4. CASE \E i \in DOMAIN waits : ResumeWait(i) \/ WaitOverdue(i)
    BY <1>4 DEF ResumeWait, WaitOverdue, Resumes, Ages
  <1>5. CASE \/ \E g \in Signals : CreateSignal(g)
             \/ RecordExternalHeartbeat \/ LeaseExpires \/ RecoverExpiredLeases
    <2>1. UNCHANGED <<waits, expirer, history>>
      BY <1>5 DEF CreateSignal, RecordExternalHeartbeat, LeaseExpires, RecoverExpiredLeases
    <2>2. RowKept
      BY <1>5, <1>1, RowUpdates
      DEF CreateSignal, RecordExternalHeartbeat, LeaseExpires, RecoverExpiredLeases
    <2>3. Live' => Live
      <3>1. CASE \E g \in Signals : CreateSignal(g)
        BY <3>1 DEF CreateSignal, Live
      <3>2. CASE RecordExternalHeartbeat \/ LeaseExpires
        BY <3>2, RowUpdates DEF RecordExternalHeartbeat, LeaseExpires
      <3>3. CASE RecoverExpiredLeases
        BY <3>3 DEF RecoverExpiredLeases, Recoverable, Live
      <3> QED
        BY <1>5, <3>1, <3>2, <3>3
    <2> QED
      BY <1>1, <1>2, <2>1, <2>2, <2>3
  <1>6. CASE RetryRun
    <2>1. UNCHANGED <<waits, expirer, outcomes, forsaken>> /\ ComesTo(row.step)
          /\ row.status = "failed" /\ row' = RetriedRow(row)
      BY <1>6 DEF RetryRun, Retriable
    <2>2. RowKept
      BY <2>1, RowUpdates
    <2> QED
      BY <1>1, <2>1, <2>2 DEF Quiet, PassesKept
  <1>7. CASE \E mode \in {"graceful", "hard"} : RequestCancelRun(mode)
    <2>1. CASE RequestCancelRun("hard")
      BY <2>1 DEF RequestCancelRun, Terminates
    <2>2. CASE RequestCancelRun("graceful")
      <3>1. UNCHANGED <<waits, expirer, history>>
        BY <1>1, <2>2 DEF RequestCancelRun
      <3>2. row.status # "canceled" /\ row' = GracefullyCanceledRow(row)
        BY <2>2 DEF RequestCancelRun, Cancelable
      <3>3. RowKept /\ (Live' => Live)
        BY <3>2, RowUpdates
      <3> QED
        BY <1>1, <1>2, <3>1, <3>3
    <2> QED
      BY <1>7, <2>1, <2>2
  <1>8. CASE \E e \in Expirers : ExpirerStep(e) \/ ExpirerCrash(e)
    <2>1. PICK e \in Expirers : ExpirerStep(e) \/ ExpirerCrash(e)
      BY <1>8
    <2>2. expirer[e] \in Pass
      BY <1>1
    <2>3. CASE ExpireOpenWaits(e)
      <3>1. UNCHANGED <<row, waits, history>>
        BY <2>3 DEF ExpireOpenWaits
      <3>2. PassesKept
        BY <1>1, <2>2, <2>3 DEF ExpireOpenWaits, PassesKept, Pass
      <3> QED
        BY <1>1, <3>1, <3>2 DEF Quiet, Live
    <2>4. CASE \E i \in DOMAIN waits : MarkExpired(e, i)
      BY <2>4 DEF MarkExpired, Marking, Marks
    <2>5. CASE SettleExpired(e)
      <3>1. expirer[e].marked \in DOMAIN waits
        BY <2>2, <2>5 DEF SettleExpired, Settling, Pass
      <3> QED
        BY <2>5, <3>1 DEF SettleExpired, Settling, Settles
    <2>6. CASE ExpirerCrash(e)
      <3>1. UNCHANGED <<row, waits, visits, outcomes>> /\ expirer' = [expirer EXCEPT ![e] = Resting]
        BY <2>6 DEF ExpirerCrash
      <3>2. /\ forsaken \subseteq forsaken' /\ forsaken' \subseteq DOMAIN waits
            /\ expirer[e].marked # 0 => expirer[e].marked \in forsaken'
        BY <1>1, <2>2, <2>6 DEF ExpirerCrash, Forsakes, Pass
      <3>3. PassesKept
        BY <1>1, <3>1, <3>2 DEF PassesKept, Resting, Pass
      <3> QED
        BY <1>1, <3>1, <3>2, <3>3 DEF Quiet, Live
    <2> QED
      BY <2>1, <2>3, <2>4, <2>5, <2>6 DEF ExpirerStep
  <1>9. CASE UNCHANGED vars
    BY <1>1, <1>2, <1>9 DEF vars, Live
  <1> QED
    BY <1>3, <1>4, <1>5, <1>6, <1>7, <1>8, <1>9 DEF Next

\* The outcome of a wait that has expired.
LEMMA TimingOut ==
    ASSUME TypeInv, NEW i \in DOMAIN waits, row.step = waits[i].step, TimesOut(i)
    PROVE  /\ row' \in Row /\ row'.owner = NoWorker
           /\ \/ row' = FailedRow(row) /\ UNCHANGED visits
              \/ \E next \in Steps : row' = AdvancedRow(row, next) /\ ComesTo(next)
           /\ waits' \in Seq(Wait) /\ DOMAIN waits' = DOMAIN waits
           /\ waits'[i].step = waits[i].step /\ waits'[i].status = waits[i].status
           /\ \A j \in DOMAIN waits : j # i => waits'[j] = waits[j]
  <1>1. waits[i] \in Wait /\ waits \in Seq(Wait) /\ row \in Row
    BY ElementOfSeq DEF TypeInv, TypeOK
  <1>2. waits[i].step \in Steps
    BY <1>1 DEF Wait
  <1>3. Kind[waits[i].step] = "humanTask" => TimeoutTo[waits[i].step] \in Steps
    BY <1>2, WaitDefinitionAssumption
  <1>4. \/ row' = FailedRow(row) /\ UNCHANGED visits
        \/ \E next \in Steps : row' = AdvancedRow(row, next) /\ ComesTo(next)
    BY <1>3 DEF TimesOut
  <1>5. row' \in Row /\ row'.owner = NoWorker
    <2>1. CASE row' = FailedRow(row)
      <3>1. FailedRow(row).owner = NoWorker
        BY <1>1 DEF FailedRow, Release, Row
      <3> QED
        BY <1>1, <2>1, <3>1, RowTypes
    <2>2. ASSUME NEW next \in Steps, row' = AdvancedRow(row, next)
          PROVE  row' \in Row /\ row'.owner = NoWorker
      <3>1. AdvancedRow(row, next).owner = NoWorker
        BY <1>1 DEF AdvancedRow, Release, Row
      <3> QED
        BY <1>1, <2>2, <3>1, RowTypes
    <2> QED
      BY <1>4, <2>1, <2>2
  <1>6. PICK r \in Wait : r = [waits[i] EXCEPT !.moves = @ + 1]
    <2>1. waits[i].moves + 1 \in Nat
      BY <1>1 DEF Wait
    <2>2. [waits[i] EXCEPT !.moves = waits[i].moves + 1] \in Wait
      BY <1>1, <2>1 DEF Wait
    <2> QED
      BY <2>2
  <1>7. waits' = [waits EXCEPT ![i] = r]
    BY <1>6 DEF TimesOut
  <1>8. /\ waits' \in Seq(Wait) /\ DOMAIN waits' = DOMAIN waits
        /\ waits'[i] = r /\ \A j \in DOMAIN waits : j # i => waits'[j] = waits[j]
    BY <1>1, <1>7, Rewriting
  <1>9. r.step = waits[i].step /\ r.status = waits[i].status
    BY <1>1, <1>6 DEF Wait
  <1> QED
    BY <1>4, <1>5, <1>8, <1>9

\* The passes keep their type when the table of waits keeps or extends its domain.
LEMMA PassTypes ==
    ASSUME expirer \in [Expirers -> Pass], DOMAIN waits \subseteq DOMAIN waits'
    PROVE  /\ UNCHANGED expirer => expirer' \in [Expirers -> Pass']
           /\ \A e \in Expirers :
                 /\ expirer' = [expirer EXCEPT ![e].marked = 0] => expirer' \in [Expirers -> Pass']
                 /\ \A i \in DOMAIN waits :
                       expirer' = [expirer EXCEPT ![e] = [batch |-> expirer[e].batch \ {i}, marked |-> i]]
                       => expirer' \in [Expirers -> Pass']
  <1>1. \A e \in Expirers : /\ expirer[e] \in Pass' /\ expirer[e] = [batch |-> expirer[e].batch, marked |-> expirer[e].marked]
                            /\ expirer[e].batch \subseteq DOMAIN waits'
    BY DEF Pass
  <1>2. \A e \in Expirers : [expirer[e] EXCEPT !.marked = 0] \in Pass'
    BY <1>1 DEF Pass
  <1>3. \A e \in Expirers, i \in DOMAIN waits : [batch |-> expirer[e].batch \ {i}, marked |-> i] \in Pass'
    BY <1>1 DEF Pass
  <1> QED
    BY <1>1, <1>2, <1>3

\* The row, the waits and the passes of the expiry keep their types in every effect.
LEMMA EffectTypes ==
    ASSUME TypeInv,
           Quiet \/ Leaves \/ Opens \/ Resumes \/ Terminates \/ Ages \/ Marks \/ Settles
    PROVE  /\ row' \in Row /\ waits' \in Seq(Wait)
           /\ expirer' \in [Expirers -> Pass']
           /\ DOMAIN waits \subseteq DOMAIN waits'
           /\ OwnedIsRunning'
  <1>1. /\ row \in Row /\ waits \in Seq(Wait) /\ expirer \in [Expirers -> Pass]
        /\ \A i \in DOMAIN waits : waits[i] \in Wait
        /\ NoWorker \notin WorkerIds
        /\ OwnedIsRunning
    BY ElementOfSeq, NullsAreNoValues DEF TypeInv, TypeOK
  <1>2. \A r \in {CompletedRow(row), WaitingRow, CanceledRow(row), FailedRow(row)} :
           r \in Row /\ r.owner = NoWorker
    <2>1. \A r \in {CompletedRow(row), WaitingRow, CanceledRow(row), FailedRow(row)} : r \in Row
      BY <1>1, RowTypes, WaitingRows
    <2>2. \A r \in {CompletedRow(row), WaitingRow, CanceledRow(row), FailedRow(row)} :
             r.owner = NoWorker
      BY <1>1 DEF CompletedRow, WaitingRow, CanceledRow, FailedRow, Release, Row
    <2> QED
      BY <2>1, <2>2
  <1>3. \A s \in Steps : AdvancedRow(row, s) \in Row /\ AdvancedRow(row, s).owner = NoWorker
    <2>1. \A s \in Steps : AdvancedRow(row, s) \in Row
      BY <1>1, RowTypes
    <2>2. \A s \in Steps : AdvancedRow(row, s).owner = NoWorker
      BY <1>1 DEF AdvancedRow, Release, Row
    <2> QED
      BY <2>1, <2>2
  <1>4. CASE Quiet
    <2>1. Pass' = Pass
      BY <1>4 DEF Quiet, Pass
    <2> QED
      BY <1>1, <1>4, <2>1 DEF Quiet, RowKept, PassesKept, OwnedIsRunning
  <1>5. CASE Leaves
    <2>1. row' \in Row /\ row'.owner = NoWorker
      BY <1>2, <1>3, <1>5 DEF Leaves
    <2> QED
      BY <1>1, <1>5, <2>1, PassTypes DEF Leaves, OwnedIsRunning
  <1>6. CASE Opens
    <2>1. PICK new \in Wait : new = [step |-> row.step, status |-> "open",
                                     overdue |-> FALSE, moves |-> 0]
      BY <1>6 DEF Opens, Wait
    <2>2. waits' \in Seq(Wait) /\ DOMAIN waits \subseteq DOMAIN waits'
      BY <1>1, <1>6, <2>1, Appending DEF Opens
    <2>3. row' \in Row /\ row'.owner = NoWorker /\ expirer' = expirer
      BY <1>2, <1>6 DEF Opens
    <2> QED
      BY <1>1, <2>2, <2>3, PassTypes DEF OwnedIsRunning
  <1>7. CASE Resumes
    <2>1. PICK i \in DOMAIN waits : CompleteWaitResume(i)
      BY <1>7 DEF Resumes
    <2>2. /\ row' \in Row /\ waits' \in Seq(Wait) /\ DOMAIN waits' = DOMAIN waits
          /\ \E next \in Steps : row' = AdvancedRow(row, next)
      BY <2>1, Completing DEF TypeInv
    <2>3. row'.owner = NoWorker /\ expirer' = expirer
      BY <1>3, <1>7, <2>2 DEF Resumes
    <2> QED
      BY <1>1, <2>2, <2>3, PassTypes DEF OwnedIsRunning
  <1>8. CASE Terminates
    <2>1. DOMAIN waits' = DOMAIN waits /\ \A i \in DOMAIN waits : waits'[i] \in Wait
      BY <1>1, <1>8 DEF Terminates, Wait
    <2>2. DOMAIN waits = 1..Len(waits) /\ Len(waits) \in Nat
      BY <1>1
    <2>3. waits' = [i \in 1..Len(waits) |-> waits'[i]]
      BY <1>8, <2>2 DEF Terminates
    <2>4. waits' \in Seq(Wait)
      BY <2>1, <2>2, <2>3
    <2>5. expirer' = expirer /\ row' \in Row /\ row'.owner = NoWorker
      BY <1>2, <1>8 DEF Terminates
    <2> QED
      BY <1>1, <2>1, <2>4, <2>5, PassTypes DEF OwnedIsRunning
  <1>9. CASE Ages
    <2>1. PICK i \in DOMAIN waits : waits' = [waits EXCEPT ![i].overdue = TRUE]
      BY <1>9 DEF Ages
    <2>2. PICK r \in Wait : r = [waits[i] EXCEPT !.overdue = TRUE]
      BY <1>1 DEF Wait
    <2>3. waits' \in Seq(Wait) /\ DOMAIN waits' = DOMAIN waits
      BY <1>1, <2>1, <2>2, Rewriting
    <2> QED
      BY <1>1, <1>9, <2>3, PassTypes DEF Ages, OwnedIsRunning
  <1>10. CASE Marks
    <2>1. PICK e \in Expirers, i \in DOMAIN waits :
             /\ waits' = [waits EXCEPT ![i].status = "expired"]
             /\ expirer' = [expirer EXCEPT ![e] = [batch |-> expirer[e].batch \ {i}, marked |-> i]]
      BY <1>10 DEF Marks
    <2>2. PICK r \in Wait : r = [waits[i] EXCEPT !.status = "expired"]
      BY <1>1 DEF Wait
    <2>3. waits' \in Seq(Wait) /\ DOMAIN waits' = DOMAIN waits
      BY <1>1, <2>1, <2>2, Rewriting
    <2>4. expirer' \in [Expirers -> Pass']
      BY <1>1, <2>1, <2>3, PassTypes
    <2> QED
      BY <1>1, <1>10, <2>3, <2>4 DEF Marks, OwnedIsRunning
  <1>11. CASE Settles
    <2>1. PICK e \in Expirers, i \in DOMAIN waits :
             /\ expirer' = [expirer EXCEPT ![e].marked = 0]
             /\ \/ UNCHANGED <<row, waits>>
                \/ row.step = waits[i].step /\ TimesOut(i)
      BY <1>11 DEF Settles
    <2>2. CASE UNCHANGED <<row, waits>>
      BY <1>1, <2>1, <2>2, PassTypes DEF OwnedIsRunning
    <2>3. CASE row.step = waits[i].step /\ TimesOut(i)
      <3>1. row' \in Row /\ row'.owner = NoWorker /\ waits' \in Seq(Wait)
            /\ DOMAIN waits' = DOMAIN waits
        BY <2>3, TimingOut
      <3> QED
        BY <1>1, <2>1, <3>1, PassTypes DEF OwnedIsRunning
    <2> QED
      BY <2>1, <2>2, <2>3
  <1> QED
    BY <1>4, <1>5, <1>6, <1>7, <1>8, <1>9, <1>10, <1>11

\* The history keeps its type.
LEMMA HistoryTypes ==
    ASSUME TypeInv,
           Quiet \/ Leaves \/ Opens \/ Resumes \/ Terminates \/ Ages \/ Marks \/ Settles
    PROVE  /\ visits' \in [Steps -> Nat] /\ outcomes' \in [Steps -> Nat]
           /\ forsaken' \subseteq DOMAIN waits
  <1>1. visits \in [Steps -> Nat] /\ outcomes \in [Steps -> Nat] /\ forsaken \subseteq DOMAIN waits
    BY DEF TypeInv, TypeOK
  <1>2. \A s : (ComesTo(s) => visits' \in [Steps -> Nat]) /\ (Decides(s) => outcomes' \in [Steps -> Nat])
    BY <1>1 DEF ComesTo, Decides
  <1>3. CASE Quiet \/ Leaves \/ Opens
    BY <1>1, <1>2, <1>3 DEF Quiet, Leaves, Opens
  <1>4. CASE Resumes
    BY <1>1, <1>2, <1>4 DEF Resumes, CompleteWaitResume
  <1>5. CASE Terminates \/ Ages \/ Marks
    BY <1>1, <1>5 DEF Terminates, Ages, Marks, history
  <1>6. CASE Settles
    BY <1>1, <1>2, <1>6 DEF Settles, TimesOut
  <1> QED
    BY <1>3, <1>4, <1>5, <1>6

\* The memory of the workers, the signals and the counters.
LEMMA LocalTypes ==
    ASSUME TypeInv, [Next]_vars
    PROVE  /\ worker' \in [WorkerIds -> WorkerRecord] /\ WorkersAtSteps'
           /\ signal' \in [Signals -> SignalState]
           /\ {slow', faults', throws', retries'} \subseteq Nat
  <1> USE DEF counters
  <1>1. /\ worker \in [WorkerIds -> WorkerRecord] /\ signal \in [Signals -> SignalState]
        /\ slow \in Nat /\ faults \in Nat /\ throws \in Nat /\ retries \in Nat
        /\ WorkersAtSteps
    BY DEF TypeInv, TypeOK
  <1>2. ASSUME NEW w \in WorkerIds,
               Tick(w) \/ (worker[w].pc # "idle" /\ \E pc \in {"noSignal", "opened", "failing"} : Goto(w, pc))
        PROVE  worker' \in [WorkerIds -> WorkerRecord] /\ WorkersAtSteps'
    <2>1. worker' \in [WorkerIds -> WorkerRecord]
      BY <1>1, <1>2, WorkerMoves
    <2>2. \A v \in WorkerIds : v # w => worker'[v] = worker[v]
      BY <1>1, <1>2 DEF Tick, Goto
    <2>3. worker'[w].pc # "idle" => worker'[w].step = worker[w].step /\ worker[w].pc # "idle"
      BY <1>1, <1>2 DEF Tick, Goto, Idle, WorkerRecord
    <2> QED
      BY <1>1, <2>1, <2>2, <2>3 DEF WorkersAtSteps
  <1>3. CASE \E w \in WorkerIds : Claim(w) \/ WorkerStep(w) \/ BodyThrows(w) \/ Crash(w)
    <2>1. PICK w \in WorkerIds : Claim(w) \/ WorkerStep(w) \/ BodyThrows(w) \/ Crash(w)
      BY <1>3
    <2>2. CASE Claim(w)
      <3>1. row.step \in Steps
        BY <2>2 DEF Claim, Claimable, TypeInv, TypeOK, Row
      <3>2. PICK r \in WorkerRecord : r = [pc |-> "claimed", step |-> row.step, signal |-> NoSignal]
        BY <3>1 DEF WorkerRecord
      <3>3. worker' = [worker EXCEPT ![w] = r]
        BY <2>2, <3>2 DEF Claim
      <3>4. worker' \in [WorkerIds -> WorkerRecord] /\ WorkersAtSteps'
        BY <1>1, <3>1, <3>2, <3>3 DEF WorkersAtSteps
      <3> QED
        BY <1>1, <2>2, <3>4 DEF Claim
    <2>3. CASE \/ CompleteRun(w) \/ OpenWait(w) \/ OpenWaitDuplicate(w) \/ FailRun(w)
               \/ LoseLease(w) \/ BodyThrows(w) \/ Crash(w)
      <3>1. Tick(w) \/ (worker[w].pc # "idle" /\ \E pc \in {"noSignal", "opened", "failing"} : Goto(w, pc))
        BY <2>3 DEF CompleteRun, OpenWait, OpenWaitDuplicate, FailRun, LoseLease, BodyThrows, Crash,
                    Opening
      <3>2. UNCHANGED <<signal, slow, retries>> /\ faults' \in Nat /\ throws' \in Nat
        BY <1>1, <2>3 DEF CompleteRun, OpenWait, OpenWaitDuplicate, FailRun, LoseLease, BodyThrows, Crash
      <3> QED
        BY <1>1, <1>2, <3>1, <3>2
    <2>4. CASE ConsumeSignal(w)
      <3>1. worker[w].step \in Steps /\ worker[w].pc # "idle"
        BY <1>1, <2>4 DEF ConsumeSignal, WorkersAtSteps
      <3>2. CASE Goto(w, "noSignal") /\ UNCHANGED signal
        BY <1>1, <1>2, <2>4, <3>1, <3>2 DEF ConsumeSignal
      <3>3. ASSUME NEW g \in Pending(worker[w].step),
                   signal' = [signal EXCEPT ![g] = "consumed"],
                   worker' = [worker EXCEPT ![w].pc = "holding", ![w].signal = g]
            PROVE  /\ worker' \in [WorkerIds -> WorkerRecord] /\ WorkersAtSteps'
                   /\ signal' \in [Signals -> SignalState]
        <4>1. g \in Signals
          BY <3>1, WaitDefinitionAssumption DEF Pending
        <4>2. PICK r \in WorkerRecord :
                 r = [pc |-> "holding", step |-> worker[w].step, signal |-> g]
          BY <3>1, <4>1 DEF WorkerRecord
        <4>3. worker[w] \in WorkerRecord
          BY <1>1
        <4>4. worker' = [worker EXCEPT ![w] = r]
          <5>1. worker' = [worker EXCEPT ![w] = [worker[w] EXCEPT !.pc = "holding", !.signal = g]]
            BY <1>1, <3>3, Zenon
          <5>2. [worker[w] EXCEPT !.pc = "holding", !.signal = g] = r
            <6>1. PICK x : x = worker[w]
              OBVIOUS
            <6>2. x \in WorkerRecord /\ r = [pc |-> "holding", step |-> x.step, signal |-> g]
              BY <4>2, <4>3, <6>1
            <6>3. [x EXCEPT !.pc = "holding", !.signal = g] = r
              <7>1. PICK y : y = [x EXCEPT !.pc = "holding", !.signal = g]
                OBVIOUS
              <7>2. y = [pc |-> "holding", step |-> x.step, signal |-> g]
                BY <6>2, <7>1 DEF WorkerRecord
              <7> QED
                BY <6>2, <7>1, <7>2
            <6> QED
              BY <6>1, <6>3
          <5> QED
            BY <5>1, <5>2
        <4>5. signal' \in [Signals -> SignalState]
          BY <1>1, <3>3 DEF SignalState
        <4> QED
          BY <1>1, <3>1, <4>2, <4>4, <4>5 DEF WorkersAtSteps
      <3> QED
        BY <1>1, <2>4, <3>2, <3>3 DEF ConsumeSignal
    <2>5. CASE AdvanceTaskStep(w) \/ ConsumeSignalAndResumeWait(w)
      <3>1. Tick(w) /\ UNCHANGED <<slow, faults, throws, retries>>
        BY <2>5 DEF AdvanceTaskStep, ConsumeSignalAndResumeWait
      <3>2. PICK g : signal' = signal \/ signal' = [signal EXCEPT ![g] = "delivered"]
        BY <2>5 DEF AdvanceTaskStep, ConsumeSignalAndResumeWait
      <3>3. signal' \in [Signals -> SignalState]
        BY <1>1, <3>2 DEF SignalState
      <3> QED
        BY <1>1, <1>2, <3>1, <3>3
    <2> QED
      BY <2>1, <2>2, <2>3, <2>4, <2>5 DEF WorkerStep
  <1>4. ASSUME UNCHANGED worker PROVE worker' \in [WorkerIds -> WorkerRecord] /\ WorkersAtSteps'
    BY <1>1, <1>4 DEF WorkersAtSteps
  <1>5. CASE \E i \in DOMAIN waits : ResumeWait(i) \/ WaitOverdue(i)
    BY <1>1, <1>4, <1>5 DEF ResumeWait, WaitOverdue
  <1>6. CASE \E g \in Signals : CreateSignal(g)
    BY <1>1, <1>4, <1>6 DEF CreateSignal, SignalState
  <1>7. CASE \/ \E mode \in {"graceful", "hard"} : RequestCancelRun(mode)
             \/ RecordExternalHeartbeat \/ RetryRun \/ LeaseExpires \/ RecoverExpiredLeases
    BY <1>1, <1>4, <1>7
    DEF RequestCancelRun, RecordExternalHeartbeat, RetryRun, LeaseExpires, RecoverExpiredLeases
  <1>8. CASE \E e \in Expirers : ExpirerStep(e) \/ ExpirerCrash(e)
    BY <1>1, <1>4, <1>8
    DEF ExpirerStep, ExpirerCrash, ExpireOpenWaits, MarkExpired, Marking, SettleExpired, Settling
  <1>9. CASE UNCHANGED vars
    BY <1>1, <1>4, <1>9 DEF vars
  <1> QED
    BY <1>3, <1>5, <1>6, <1>7, <1>8, <1>9 DEF Next

LEMMA TypeInvInit == Init => TypeInv
  <1> SUFFICES ASSUME Init PROVE TypeInv
    OBVIOUS
  <1>1. row.owner = NoWorker /\ \A w \in WorkerIds : worker[w].pc = "idle"
    BY DEF Init, InsertedRow, AbsentRow, Idle
  <1> QED
    BY <1>1, TypeInit, NullsAreNoValues DEF TypeInv, WorkersAtSteps, OwnedIsRunning

LEMMA TypeStep == TypeInv /\ [Next]_vars => TypeInv'
  <1> SUFFICES ASSUME TypeInv, [Next]_vars PROVE TypeInv'
    OBVIOUS
  <1> QED
    <2>1. forsaken' \subseteq DOMAIN waits'
      BY Effects, EffectTypes, HistoryTypes
    <2> QED
      BY <2>1, Effects, EffectTypes, HistoryTypes, LocalTypes DEF TypeInv, TypeOK

\* The type invariant, whoever opens, resumes, expires and cancels the waits.
THEOREM WaitTypes == Spec => []TypeOK
  <1>1. Init => TypeInv
    BY TypeInvInit
  <1>2. TypeInv /\ [Next]_vars => TypeInv'
    BY TypeStep
  <1>3. TypeInv => TypeOK
    BY DEF TypeInv
  <1> QED
    BY <1>1, <1>2, <1>3, PTL DEF Spec

\* What the three rewritings of one wait leave alone.
LEMMA WaitUpdates ==
    ASSUME TypeInv, Terminates \/ Ages \/ Marks
    PROVE  /\ DOMAIN waits' = DOMAIN waits
           /\ \A i \in DOMAIN waits :
                 /\ waits'[i].step = waits[i].step /\ waits'[i].moves = waits[i].moves
                 /\ waits'[i].status = "open" => waits[i].status = "open"
           /\ Terminates => \A i \in DOMAIN waits : waits'[i].status # "open"
           /\ Ages => \A i \in DOMAIN waits : waits'[i].status = waits[i].status
           /\ Marks => \A i \in DOMAIN waits :
                          waits'[i].status = "expired" \/ waits'[i] = waits[i]
  <1>1. \A i \in DOMAIN waits : waits[i] \in Wait
    BY ElementOfSeq DEF TypeInv, TypeOK
  <1>2. ASSUME Terminates
        PROVE  /\ DOMAIN waits' = DOMAIN waits
               /\ \A i \in DOMAIN waits :
                     /\ waits'[i].step = waits[i].step /\ waits'[i].moves = waits[i].moves
                     /\ waits'[i].status # "open"
    BY <1>1, <1>2 DEF Terminates, Wait
  <1>3. ASSUME Ages
        PROVE  /\ DOMAIN waits' = DOMAIN waits
               /\ \A i \in DOMAIN waits :
                     /\ waits'[i].step = waits[i].step /\ waits'[i].moves = waits[i].moves
                     /\ waits'[i].status = waits[i].status
    BY <1>1, <1>3 DEF Ages, Wait
  <1>4. ASSUME Marks
        PROVE  /\ DOMAIN waits' = DOMAIN waits
               /\ \A i \in DOMAIN waits :
                     /\ waits'[i].step = waits[i].step /\ waits'[i].moves = waits[i].moves
                     /\ waits'[i].status = "open" => waits[i].status = "open"
                     /\ waits'[i].status = "expired" \/ waits'[i] = waits[i]
    <2>1. PICK k \in DOMAIN waits : waits' = [waits EXCEPT ![k].status = "expired"]
      BY <1>4 DEF Marks
    <2> QED
      BY <1>1, <2>1 DEF Wait
  <1> QED
    BY <1>2, <1>3, <1>4

\* Where the rows of the effects stand.
LEMMA RowFacts ==
    ASSUME TypeInv
    PROVE  /\ CompletedRow(row).status = "completed" /\ CompletedRow(row).step = NoStep
           /\ WaitingRow.status = "waiting" /\ WaitingRow.step = row.step
           /\ CanceledRow(row).status = "canceled" /\ CanceledRow(row).step = row.step
           /\ FailedRow(row).status = "failed" /\ FailedRow(row).step = row.step
           /\ \A s : AdvancedRow(row, s).status = "queued" /\ AdvancedRow(row, s).step = s
  BY DEF TypeInv, TypeOK, Row, CompletedRow, WaitingRow, CanceledRow, FailedRow, AdvancedRow,
         Release

LEMMA ResumedRow ==
    ASSUME TypeInv, Resumes
    PROVE  row'.status = "queued"
  <1>1. PICK i \in DOMAIN waits : CompleteWaitResume(i)
    BY DEF Resumes
  <1>2. \E s : row' = AdvancedRow(row, s)
    BY <1>1 DEF CompleteWaitResume
  <1> QED
    BY <1>2, RowFacts

\* An expiry that settles a wait leaves everything alone, or moves the run.
LEMMA SettledRow ==
    ASSUME TypeInv, Settles
    PROVE  UNCHANGED <<row, waits>> \/ row'.status \in {"failed", "queued"}
  <1>1. \/ UNCHANGED <<row, waits>>
        \/ row' = FailedRow(row)
        \/ \E s : row' = AdvancedRow(row, s)
    BY DEF Settles, TimesOut
  <1> QED
    BY <1>1, RowFacts

\* A wait that is opened is appended to the table.
LEMMA OpenedWait ==
    ASSUME TypeInv, Opens
    PROVE  /\ \A i \in DOMAIN waits : i \in DOMAIN waits' /\ waits'[i] = waits[i]
           /\ \A i \in DOMAIN waits' :
                 i \in DOMAIN waits \/ i = Len(waits) + 1
           /\ Len(waits) + 1 \in DOMAIN waits'
           /\ waits'[Len(waits) + 1].step = row.step
           /\ waits'[Len(waits) + 1].status = "open"
           /\ waits'[Len(waits) + 1].moves = 0
  <1>1. PICK new \in Wait : new = [step |-> row.step, status |-> "open",
                                   overdue |-> FALSE, moves |-> 0]
    BY DEF Opens, Wait
  <1>2. waits \in Seq(Wait) /\ waits' = Append(waits, new)
    BY <1>1 DEF Opens, TypeInv, TypeOK
  <1>3. /\ Len(waits') = Len(waits) + 1 /\ waits' \in Seq(Wait)
        /\ \A i \in 1..Len(waits) : waits'[i] = waits[i]
        /\ waits'[Len(waits) + 1] = new
    BY <1>2, AppendProperties
  <1>4. /\ DOMAIN waits = 1..Len(waits) /\ Len(waits) \in Nat
        /\ DOMAIN waits' = 1..(Len(waits) + 1)
    BY <1>2, <1>3
  <1>5. new.step = row.step /\ new.status = "open" /\ new.moves = 0
    BY <1>1
  <1> QED
    BY <1>3, <1>4, <1>5

-----------------------------------------------------------------------------
(* Termination.                                                            *)

LEMMA HardCancelStep ==
    ASSUME TypeInv, HardCancelClosesWaits, [Next]_vars
    PROVE  HardCancelClosesWaits'
  <1>1. CASE Quiet
    BY <1>1 DEF Quiet, RowKept, HardCancelClosesWaits
  <1>2. CASE Leaves \/ Opens
    <2>1. row'.status # "canceled"
      BY <1>2, RowFacts DEF Leaves, Opens
    <2> QED
      BY <2>1 DEF HardCancelClosesWaits
  <1>3. CASE Resumes
    <2>1. row'.status = "queued"
      BY <1>3, ResumedRow
    <2> QED
      BY <2>1 DEF HardCancelClosesWaits
  <1>4. CASE Terminates
    BY <1>4, WaitUpdates DEF HardCancelClosesWaits
  <1>5. CASE Ages \/ Marks
    <2>1. UNCHANGED row
      BY <1>5 DEF Ages, Marks
    <2> QED
      BY <1>5, <2>1, WaitUpdates DEF HardCancelClosesWaits
  <1>6. CASE Settles
    <2>1. CASE UNCHANGED <<row, waits>>
      BY <2>1 DEF HardCancelClosesWaits
    <2>2. CASE row'.status \in {"failed", "queued"}
      BY <2>2 DEF HardCancelClosesWaits
    <2> QED
      BY <1>6, <2>1, <2>2, SettledRow
  <1> QED
    BY <1>1, <1>2, <1>3, <1>4, <1>5, <1>6, Effects

\* A terminated run has no open wait (HardCancelClosesWaits): no worker that was about to
\* open one passes the guard of its commit, since a run without owner has none to admit.
THEOREM TerminationClosesWaits == Spec => []HardCancelClosesWaits
  <1>1. Init => HardCancelClosesWaits
    BY DEF Init, HardCancelClosesWaits
  <1>2. TypeInv /\ HardCancelClosesWaits /\ [Next]_vars => HardCancelClosesWaits'
    BY HardCancelStep
  <1> QED
    BY <1>1, <1>2, TypeInvInit, TypeStep, PTL DEF Spec

-----------------------------------------------------------------------------
(* An outcome for every visit.                                             *)

\* A wait is open until something moves the run on its account, and what a pass has marked
\* has expired.
MarkedHaveExpired ==
    \A e \in Expirers : expirer[e].marked # 0 => waits[expirer[e].marked].status = "expired"
WaitsInv ==
    /\ MarkedHaveExpired
    /\ \A i \in DOMAIN waits :
          /\ waits[i].status = "open" => waits[i].moves = 0
          /\ waits[i].status # "expired" => waits[i].moves <= 1

\* The visit that is under way has not been decided yet.
VisitsInv ==
    \A s \in Steps : outcomes[s] + (IF row.step = s /\ Live THEN 1 ELSE 0) <= visits[s]

LEMMA MarkedStep ==
    ASSUME TypeInv, MarkedHaveExpired, [Next]_vars
    PROVE  MarkedHaveExpired'
  <1>1. /\ expirer \in [Expirers -> Pass] /\ waits \in Seq(Wait) /\ 0 \notin DOMAIN waits
        /\ \A e \in Expirers : expirer[e].marked # 0 => expirer[e].marked \in DOMAIN waits
        /\ \A i \in DOMAIN waits : waits[i] \in Wait
    BY ElementOfSeq DEF TypeInv, TypeOK, Pass
  <1>2. ASSUME NEW e \in Expirers, expirer'[e].marked # 0,
               expirer'[e].marked = expirer[e].marked,
               \A i \in DOMAIN waits : waits[i].status = "expired" => waits'[i].status = "expired"
        PROVE  waits'[expirer'[e].marked].status = "expired"
    BY <1>1, <1>2 DEF MarkedHaveExpired
  <1>3. CASE Quiet \/ Leaves
    BY <1>2, <1>3 DEF Quiet, Leaves, PassesKept, MarkedHaveExpired
  <1>4. CASE Opens
    BY <1>2, <1>4, OpenedWait DEF Opens, MarkedHaveExpired
  <1>5. CASE Resumes
    <2>1. PICK i \in DOMAIN waits : Resumable(i) /\ CompleteWaitResume(i)
      BY <1>5 DEF Resumes
    <2>2. \A j \in DOMAIN waits : waits[j].status = "expired" => waits'[j].status = "expired"
      BY <2>1, Completing DEF TypeInv, Resumable
    <2> QED
      BY <1>2, <1>5, <2>2 DEF Resumes, MarkedHaveExpired
  <1>6. CASE Terminates \/ Ages
    <2>1. \A j \in DOMAIN waits : waits[j].status = "expired" => waits'[j].status = "expired"
      BY <1>1, <1>6 DEF Terminates, Ages, Wait
    <2> QED
      BY <1>2, <1>6, <2>1 DEF Terminates, Ages, MarkedHaveExpired
  <1>7. CASE Marks
    <2>1. PICK e \in Expirers, i \in DOMAIN waits :
             /\ expirer' = [expirer EXCEPT ![e] = [batch |-> expirer[e].batch \ {i}, marked |-> i]]
             /\ waits' = [waits EXCEPT ![i].status = "expired"]
      BY <1>7 DEF Marks
    <2>2. expirer'[e].marked = i /\ \A f \in Expirers : f # e => expirer'[f] = expirer[f]
      BY <1>1, <2>1
    <2>3. /\ waits'[i].status = "expired"
          /\ \A j \in DOMAIN waits : waits[j].status = "expired" => waits'[j].status = "expired"
      BY <1>1, <2>1 DEF Wait
    <2> QED
      BY <1>2, <2>2, <2>3 DEF MarkedHaveExpired
  <1>8. CASE Settles
    <2>1. PICK e \in Expirers, i \in DOMAIN waits :
             /\ expirer' = [expirer EXCEPT ![e].marked = 0]
             /\ UNCHANGED waits \/ (row.step = waits[i].step /\ TimesOut(i))
      BY <1>8 DEF Settles
    <2>2. \A f \in Expirers : expirer'[f].marked \in {0, expirer[f].marked}
      BY <1>1, <2>1 DEF Pass
    <2>3. \A j \in DOMAIN waits : waits[j].status = "expired" => waits'[j].status = "expired"
      BY <2>1, TimingOut
    <2> QED
      BY <1>2, <2>2, <2>3 DEF MarkedHaveExpired
  <1> QED
    BY <1>3, <1>4, <1>5, <1>6, <1>7, <1>8, Effects

LEMMA WaitsStep ==
    ASSUME TypeInv, WaitsInv, [Next]_vars
    PROVE  WaitsInv'
  <1>1. /\ MarkedHaveExpired' /\ MarkedHaveExpired
        /\ \A i \in DOMAIN waits : waits[i] \in Wait
    BY MarkedStep, ElementOfSeq DEF WaitsInv, TypeInv, TypeOK
  <1>2. ASSUME NEW j \in DOMAIN waits', j \in DOMAIN waits,
               waits'[j].moves = waits[j].moves,
               \/ waits'[j].status \in {waits[j].status, "expired"}
               \/ waits[j].status = "open" /\ waits'[j].status # "open"
        PROVE  /\ waits'[j].status = "open" => waits'[j].moves = 0
               /\ waits'[j].status # "expired" => waits'[j].moves <= 1
    BY <1>2 DEF WaitsInv
  <1>3. CASE Quiet \/ Leaves
    BY <1>1, <1>3 DEF Quiet, Leaves, WaitsInv
  <1>4. CASE Opens
    BY <1>1, <1>4, OpenedWait DEF WaitsInv
  <1>5. CASE Resumes
    <2>1. PICK i \in DOMAIN waits : Resumable(i) /\ CompleteWaitResume(i)
      BY <1>5 DEF Resumes
    <2>2. /\ DOMAIN waits' = DOMAIN waits
          /\ waits'[i] = [waits[i] EXCEPT !.status = "resumed", !.moves = @ + 1]
          /\ \A j \in DOMAIN waits : j # i => waits'[j] = waits[j]
      BY <2>1, Completing DEF TypeInv
    <2>3. waits'[i].status = "resumed" /\ waits'[i].moves = 1
      BY <1>1, <2>1, <2>2 DEF Wait, Resumable, WaitsInv
    <2>4. ASSUME NEW j \in DOMAIN waits'
          PROVE  /\ waits'[j].status = "open" => waits'[j].moves = 0
                 /\ waits'[j].status # "expired" => waits'[j].moves <= 1
      <3>1. CASE j = i
        BY <2>3, <3>1
      <3>2. CASE j # i
        BY <1>2, <2>2, <2>4, <3>2
      <3> QED
        BY <3>1, <3>2
    <2> QED
      BY <1>1, <2>4 DEF WaitsInv
  <1>6. CASE Terminates \/ Ages \/ Marks
    <2>1. DOMAIN waits' = DOMAIN waits
      BY <1>6, WaitUpdates
    <2>2. ASSUME NEW j \in DOMAIN waits
          PROVE  /\ waits'[j].moves = waits[j].moves
                 /\ \/ waits'[j].status \in {waits[j].status, "expired"}
                    \/ waits[j].status = "open" /\ waits'[j].status # "open"
      <3>1. CASE Terminates
        BY <1>1, <2>2, <3>1 DEF Terminates, Wait
      <3>2. CASE Ages \/ Marks
        BY <2>2, <3>2, WaitUpdates
      <3> QED
        BY <1>6, <3>1, <3>2
    <2> QED
      BY <1>1, <1>2, <2>1, <2>2 DEF WaitsInv
  <1>7. CASE Settles
    <2>1. PICK e \in Expirers, i \in DOMAIN waits :
             /\ expirer[e].marked = i
             /\ UNCHANGED waits \/ (row.step = waits[i].step /\ TimesOut(i))
      BY <1>7 DEF Settles
    <2>2. CASE UNCHANGED waits
      BY <1>1, <2>2 DEF WaitsInv
    <2>3. CASE row.step = waits[i].step /\ TimesOut(i)
      <3>1. /\ DOMAIN waits' = DOMAIN waits /\ waits'[i].status = waits[i].status
            /\ \A j \in DOMAIN waits : j # i => waits'[j] = waits[j]
        BY <2>3, TimingOut
      <3>2. waits[i].status = "expired"
        <4>1. expirer[e].marked # 0
          BY <2>1 DEF TypeInv, TypeOK
        <4> QED
          BY <1>1, <2>1, <4>1 DEF MarkedHaveExpired
      <3> QED
        BY <1>1, <3>1, <3>2 DEF WaitsInv
    <2> QED
      BY <2>1, <2>2, <2>3
  <1> QED
    BY <1>3, <1>4, <1>5, <1>6, <1>7, Effects

\* A run that leaves its step, or fails at it, has decided the visit it ends.
LEMMA Deciding ==
    ASSUME TypeInv, VisitsInv, Live, row.step \in Steps, Decides(row.step),
           \/ ~Live' /\ UNCHANGED visits
           \/ \E next \in Steps : row'.step = next /\ ComesTo(next)
    PROVE  VisitsInv'
  <1>1. visits \in [Steps -> Nat] /\ outcomes \in [Steps -> Nat]
    BY DEF TypeInv, TypeOK
  <1>2. SUFFICES ASSUME NEW s \in Steps
                 PROVE  outcomes'[s] + (IF row'.step = s /\ Live' THEN 1 ELSE 0) <= visits'[s]
    BY DEF VisitsInv
  <1>3. outcomes'[s] = outcomes[s] + (IF row.step = s THEN 1 ELSE 0)
    BY <1>1 DEF Decides
  <1>4. outcomes'[s] <= visits[s] /\ outcomes'[s] \in Nat /\ visits[s] \in Nat
    BY <1>1, <1>3 DEF VisitsInv
  <1>5. CASE ~Live' /\ UNCHANGED visits
    BY <1>4, <1>5
  <1>6. CASE \E next \in Steps : row'.step = next /\ ComesTo(next)
    <2>1. visits'[s] = visits[s] + (IF row'.step = s THEN 1 ELSE 0)
      BY <1>1, <1>6 DEF ComesTo
    <2> QED
      BY <1>4, <2>1
  <1> QED
    BY <1>5, <1>6

LEMMA VisitsStep ==
    ASSUME TypeInv, VisitsInv, [Next]_vars
    PROVE  VisitsInv'
  <1>1. /\ visits \in [Steps -> Nat] /\ outcomes \in [Steps -> Nat] /\ row \in Row
        /\ \A i \in DOMAIN waits : waits[i].step \in Steps
    <2>1. \A i \in DOMAIN waits : waits[i] \in Wait
      BY ElementOfSeq DEF TypeInv, TypeOK
    <2> QED
      BY <2>1 DEF TypeInv, TypeOK, Wait
  <1>2. ASSUME UNCHANGED <<visits, outcomes>>, row'.step = row.step, Live' => Live
        PROVE  VisitsInv'
    BY <1>1, <1>2 DEF VisitsInv
  <1>3. CASE Quiet
    <2>1. CASE UNCHANGED visits /\ (Live' => Live)
      BY <1>2, <1>3, <2>1 DEF Quiet, RowKept
    <2>2. CASE row.status = "failed" /\ ComesTo(row.step)
      <3>1. ~Live /\ row'.step = row.step /\ outcomes' = outcomes
        BY <1>3, <2>2 DEF Quiet, RowKept, Live
      <3>2. \A s \in Steps : visits'[s] = visits[s] + (IF row.step = s THEN 1 ELSE 0)
        BY <1>1, <2>2 DEF ComesTo
      <3> QED
        BY <1>1, <3>1, <3>2 DEF VisitsInv
    <2> QED
      BY <1>3, <2>1, <2>2 DEF Quiet
  <1>4. CASE Leaves
    <2>1. Live /\ row.step \in Steps /\ Decides(row.step)
      BY <1>4 DEF Leaves, Live
    <2>2. \/ ~Live' /\ UNCHANGED visits
          \/ \E next \in Steps : row'.step = next /\ ComesTo(next)
      BY <1>4, RowFacts DEF Leaves, Live
    <2> QED
      BY <2>1, <2>2, Deciding
  <1>5. CASE Opens
    BY <1>2, <1>5, RowFacts DEF Opens, Live
  <1>6. CASE Resumes
    <2>1. PICK i \in DOMAIN waits : Resumable(i) /\ CompleteWaitResume(i)
      BY <1>6 DEF Resumes
    <2>2. PICK next \in Steps : row' = AdvancedRow(row, next) /\ ComesTo(next)
      BY <2>1, Completing DEF TypeInv
    <2>3. Live /\ row.step \in Steps /\ Decides(row.step) /\ row'.step = next
      BY <1>1, <2>1, <2>2, RowFacts DEF Resumable, CompleteWaitResume, Live
    <2> QED
      BY <2>2, <2>3, Deciding
  <1>7. CASE Terminates \/ Ages \/ Marks
    <2>1. row'.step = row.step /\ (Live' => Live)
      BY <1>7, RowFacts DEF Terminates, Ages, Marks, Live
    <2>2. UNCHANGED <<visits, outcomes>>
      BY <1>7 DEF Terminates, Ages, Marks, history
    <2> QED
      BY <1>2, <2>1, <2>2
  <1>8. CASE Settles
    <2>1. PICK i \in DOMAIN waits :
             \/ UNCHANGED <<row, visits, outcomes>>
             \/ row.status = "waiting" /\ row.step = waits[i].step /\ TimesOut(i)
      BY <1>8 DEF Settles
    <2>2. CASE UNCHANGED <<row, visits, outcomes>>
      BY <1>2, <2>2 DEF Live
    <2>3. CASE row.status = "waiting" /\ row.step = waits[i].step /\ TimesOut(i)
      <3>1. Live /\ row.step \in Steps /\ Decides(row.step)
        BY <1>1, <2>3 DEF Live, TimesOut
      <3>2. \/ row' = FailedRow(row) /\ UNCHANGED visits
            \/ \E next \in Steps : row' = AdvancedRow(row, next) /\ ComesTo(next)
        BY <2>3, TimingOut
      <3>3. \/ ~Live' /\ UNCHANGED visits
            \/ \E next \in Steps : row'.step = next /\ ComesTo(next)
        BY <3>2, RowFacts DEF Live
      <3> QED
        BY <3>1, <3>3, Deciding
    <2> QED
      BY <2>1, <2>2, <2>3
  <1> QED
    BY <1>3, <1>4, <1>5, <1>6, <1>7, <1>8, Effects

\* Nothing decides a step more often than the run comes there or is retried there, and a
\* wait that has not expired moves its run once at most (OneOutcomePerVisit): for every
\* definition, with loops or without, and any number of passes of the expiry that hold the
\* same wait.  A run at a step that nothing has decided is one visit ahead.
THEOREM OutcomeDecidesOnce == Spec => []OneOutcomePerVisit
  <1>1. Init => WaitsInv /\ VisitsInv
    <2> SUFFICES ASSUME Init PROVE WaitsInv /\ VisitsInv
      OBVIOUS
    <2>1. WaitsInv
      BY DEF Init, WaitsInv, MarkedHaveExpired, Resting
    <2>2. row.step = StartAt
      BY DEF Init, InsertedRow, AbsentRow
    <2>3. \A s \in Steps : outcomes[s] = 0 /\ visits[s] = IF s = StartAt THEN 1 ELSE 0
      BY DEF Init
    <2>4. ASSUME NEW s \in Steps
          PROVE  outcomes[s] + (IF row.step = s /\ Live THEN 1 ELSE 0) <= visits[s]
      <3>1. CASE s = StartAt
        BY <2>3, <3>1
      <3>2. CASE s # StartAt
        BY <2>2, <2>3, <3>2
      <3> QED
        BY <3>1, <3>2
    <2>5. VisitsInv
      BY <2>4 DEF VisitsInv
    <2> QED
      BY <2>1, <2>5
  <1>2. TypeInv /\ WaitsInv /\ [Next]_vars => WaitsInv'
    BY WaitsStep
  <1>3. TypeInv /\ VisitsInv /\ [Next]_vars => VisitsInv'
    BY VisitsStep
  <1>4. TypeInv /\ WaitsInv /\ VisitsInv => OneOutcomePerVisit
    BY DEF WaitsInv, VisitsInv, OneOutcomePerVisit, TypeInv, TypeOK
  <1> QED
    BY <1>1, <1>2, <1>3, <1>4, TypeInvInit, TypeStep, PTL DEF Spec

-----------------------------------------------------------------------------
(* Nobody waits for nothing.                                               *)

LEMMA WaitingStep ==
    ASSUME TypeInv, MarkedHaveExpired, WaitingRunHasWait, [Next]_vars
    PROVE  WaitingRunHasWait'
  <1>1. /\ expirer \in [Expirers -> Pass] /\ 0 \notin DOMAIN waits
        /\ \A i \in DOMAIN waits : waits[i] \in Wait
    BY ElementOfSeq DEF TypeInv, TypeOK
  <1>2. CASE Quiet
    <2>1. SUFFICES ASSUME row'.status = "waiting" PROVE WaitingRunHasWait'
      BY DEF WaitingRunHasWait
    <2>2. row.status = "waiting" /\ row'.step = row.step /\ waits' = waits
      BY <1>2, <2>1 DEF Quiet, RowKept
    <2>3. PICK i \in DOMAIN waits :
             /\ waits[i].step = row.step
             /\ \/ waits[i].status = "open"
                \/ \E e \in Expirers : expirer[e].marked = i
                \/ waits[i].status = "expired" /\ i \in forsaken
      BY <2>2 DEF WaitingRunHasWait
    <2>4. ASSUME NEW e \in Expirers, expirer[e].marked = i, expirer'[e].marked # i
          PROVE  waits[i].status = "expired" /\ i \in forsaken'
      BY <1>1, <1>2, <2>4 DEF Quiet, PassesKept, MarkedHaveExpired
    <2>5. forsaken \subseteq forsaken'
      BY <1>2 DEF Quiet
    <2> QED
      BY <2>2, <2>3, <2>4, <2>5 DEF WaitingRunHasWait
  <1>3. CASE Opens
    <2>1. row'.step = row.step
      BY <1>3, RowFacts DEF Opens
    <2> QED
      BY <1>3, <2>1, OpenedWait DEF WaitingRunHasWait
  <1>4. CASE Leaves \/ Terminates
    <2>1. row'.status # "waiting"
      BY <1>4, RowFacts DEF Leaves, Terminates
    <2> QED
      BY <2>1 DEF WaitingRunHasWait
  <1>5. CASE Resumes
    <2>1. row'.status = "queued"
      BY <1>5, ResumedRow
    <2> QED
      BY <2>1 DEF WaitingRunHasWait
  <1>6. CASE Ages
    <2>1. UNCHANGED <<row, expirer, forsaken>>
      BY <1>6 DEF Ages, history
    <2> QED
      BY <1>6, <2>1, WaitUpdates, ZenonT(40) DEF WaitingRunHasWait
  <1>7. CASE Marks
    <2>1. PICK e \in Expirers, i \in DOMAIN waits :
             /\ expirer[e].marked = 0
             /\ expirer' = [expirer EXCEPT ![e] = [batch |-> expirer[e].batch \ {i}, marked |-> i]]
             /\ waits' = [waits EXCEPT ![i].status = "expired"]
      BY <1>7 DEF Marks
    <2>2. expirer'[e].marked = i /\ \A f \in Expirers : f # e => expirer'[f] = expirer[f]
      BY <1>1, <2>1
    <2>3. /\ DOMAIN waits' = DOMAIN waits
          /\ \A j \in DOMAIN waits : waits'[j].step = waits[j].step /\ (j # i => waits'[j] = waits[j])
      BY <1>1, <2>1 DEF Wait
    <2>4. UNCHANGED <<row, forsaken>>
      BY <1>7 DEF Marks, history
    <2>5. SUFFICES ASSUME row.status = "waiting" PROVE WaitingRunHasWait'
      BY <2>4 DEF WaitingRunHasWait
    <2>6. PICK j \in DOMAIN waits :
             /\ waits[j].step = row.step
             /\ \/ waits[j].status = "open"
                \/ \E f \in Expirers : expirer[f].marked = j
                \/ waits[j].status = "expired" /\ j \in forsaken
      BY <2>5 DEF WaitingRunHasWait
    <2>7. CASE j = i
      BY <2>2, <2>3, <2>4, <2>6, <2>7 DEF WaitingRunHasWait
    <2>8. CASE j # i
      <3>1. \A f \in Expirers : expirer[f].marked = j => expirer'[f].marked = j
        BY <1>1, <2>1, <2>2
      <3> QED
        BY <2>3, <2>4, <2>6, <2>8, <3>1 DEF WaitingRunHasWait
    <2> QED
      BY <2>7, <2>8
  <1>8. CASE Settles
    <2>1. CASE row'.status \in {"failed", "queued"}
      BY <2>1 DEF WaitingRunHasWait
    <2>2. CASE UNCHANGED <<row, waits>>
      <3>1. SUFFICES ASSUME row.status = "waiting" PROVE WaitingRunHasWait'
        BY <2>2 DEF WaitingRunHasWait
      <3>2. PICK j \in DOMAIN waits :
               /\ waits[j].step = row.step
               /\ \/ waits[j].status = "open"
                  \/ \E f \in Expirers : expirer[f].marked = j
                  \/ waits[j].status = "expired" /\ j \in forsaken
        BY <3>1 DEF WaitingRunHasWait
      <3>3. PICK e \in Expirers, i \in DOMAIN waits :
               /\ UNCHANGED forsaken
               /\ expirer[e].marked = i
               /\ expirer' = [expirer EXCEPT ![e].marked = 0]
               /\ \/ row.step # waits[i].step
                  \/ row' = FailedRow(row) \/ \E s : row' = AdvancedRow(row, s)
        BY <1>8, <3>1 DEF Settles, TimesOut
      <3>4. row.step # waits[i].step
        BY <2>2, <3>1, <3>3, RowFacts
      <3>5. \A f \in Expirers : expirer[f].marked = j => expirer'[f].marked = j
        BY <1>1, <3>2, <3>3, <3>4
      <3> QED
        BY <2>2, <3>2, <3>3, <3>5 DEF WaitingRunHasWait
    <2> QED
      BY <1>8, <2>1, <2>2, SettledRow
  <1> QED
    BY <1>2, <1>3, <1>4, <1>5, <1>6, <1>7, <1>8, Effects

\* A waiting run has an open wait at its step, or one that a pass of the expiry has marked
\* and is about to settle, or one whose pass has died between the two (WaitingRunHasWait):
\* whatever crashes and throws, and however many passes hold the wait.
THEOREM WaitingHasReason == Spec => []WaitingRunHasWait
  <1>1. Init => MarkedHaveExpired /\ WaitingRunHasWait
    BY DEF Init, WaitingRunHasWait, InsertedRow, AbsentRow, MarkedHaveExpired, Resting
  <1>2. TypeInv /\ MarkedHaveExpired /\ [Next]_vars => MarkedHaveExpired'
    BY MarkedStep
  <1>3. TypeInv /\ MarkedHaveExpired /\ WaitingRunHasWait /\ [Next]_vars => WaitingRunHasWait'
    BY WaitingStep
  <1> QED
    BY <1>1, <1>2, <1>3, TypeInvInit, TypeStep, PTL DEF Spec

-----------------------------------------------------------------------------
(* The race behind the opening of a wait for a signal.                     *)

\* The unique key: no two waits have one of the keys that the definition gives.
KeysAreUnique ==
    \A i, j \in DOMAIN waits :
       /\ waits[i].step \notin FreshKeys /\ waits[j].step \notin FreshKeys
       /\ KeyOf[waits[i].step] = KeyOf[waits[j].step]
       => i = j

OpenersAwaitSignals ==
    \A w \in WorkerIds : worker[w].pc = "opened" => Kind[worker[w].step] = "signal"

RaceInv == KeysAreUnique /\ OpenersAwaitSignals /\ PostOpenRaceClosed

LEMMA UniqueStep ==
    ASSUME TypeInv, KeysAreUnique, [Next]_vars
    PROVE  KeysAreUnique'
  <1>1. CASE Opens
    <2>1. \A i \in DOMAIN waits : ~(/\ row.step \notin FreshKeys /\ waits[i].step \notin FreshKeys
                                    /\ KeyOf[waits[i].step] = KeyOf[row.step])
      BY <1>1 DEF Opens, KeyTaken
    <2> QED
      BY <1>1, <2>1, OpenedWait DEF KeysAreUnique
  <1>2. ASSUME DOMAIN waits' = DOMAIN waits,
               \A i \in DOMAIN waits : waits'[i].step = waits[i].step
        PROVE  KeysAreUnique'
    BY <1>2 DEF KeysAreUnique
  <1>3. CASE Quiet \/ Leaves
    BY <1>2, <1>3 DEF Quiet, Leaves
  <1>4. CASE Resumes
    <2>1. PICK i \in DOMAIN waits : CompleteWaitResume(i)
      BY <1>4 DEF Resumes
    <2>2. TypeOK /\ waits \in Seq(Wait)
      BY DEF TypeInv, TypeOK
    <2>3. waits[i] \in Wait
      BY <2>2, ElementOfSeq
    <2>4. /\ DOMAIN waits' = DOMAIN waits
          /\ waits'[i] = [waits[i] EXCEPT !.status = "resumed", !.moves = @ + 1]
          /\ \A j \in DOMAIN waits : j # i => waits'[j] = waits[j]
      BY <2>1, <2>2, Completing
    <2>5. waits'[i].step = waits[i].step
      BY <2>3, <2>4 DEF Wait
    <2> QED
      BY <1>2, <2>4, <2>5
  <1>5. CASE Terminates \/ Ages \/ Marks
    BY <1>2, <1>5, WaitUpdates
  <1>6. CASE Settles
    <2>1. PICK i \in DOMAIN waits :
             UNCHANGED waits \/ (row.step = waits[i].step /\ TimesOut(i))
      BY <1>6 DEF Settles
    <2> QED
      BY <1>2, <2>1, TimingOut
  <1> QED
    BY <1>1, <1>3, <1>4, <1>5, <1>6, Effects

\* Who has opened a wait for a signal goes on to look for one, or gives the wait up.
LEMMA OpenersStay ==
    ASSUME TypeInv, OpenersAwaitSignals, [Next]_vars
    PROVE  /\ OpenersAwaitSignals'
           /\ \A v \in WorkerIds : worker[v].pc = "opened" =>
                 \/ worker'[v] = worker[v]
                 \/ ConsumeSignalAndResumeWait(v)
                 \/ GivesUp(v) /\ UNCHANGED waits
  <1> USE DEF counters
  <1>1. worker \in [WorkerIds -> WorkerRecord]
    BY DEF TypeInv, TypeOK
  <1>2. CASE \E w \in WorkerIds : Claim(w) \/ WorkerStep(w) \/ BodyThrows(w) \/ Crash(w)
    <2>1. PICK w \in WorkerIds : Claim(w) \/ WorkerStep(w) \/ BodyThrows(w) \/ Crash(w)
      BY <1>2
    <2>2. /\ \A v \in WorkerIds : v # w => worker'[v] = worker[v]
          /\ worker'[w].pc = "opened" => Kind[worker'[w].step] = "signal"
      <3>1. CASE Claim(w)
        BY <1>1, <3>1 DEF Claim
      <3>2. CASE OpenWait(w)
        <4>1. CASE Kind[worker[w].step] = "signal"
          BY <1>1, <3>2, <4>1 DEF OpenWait, Goto, WorkerRecord
        <4>2. CASE Kind[worker[w].step] # "signal"
          BY <1>1, <3>2, <4>2 DEF OpenWait, Tick, Idle
        <4> QED
          BY <4>1, <4>2
      <3>3. CASE OpenWaitDuplicate(w)
        BY <1>1, <3>3 DEF OpenWaitDuplicate, Goto, WorkerRecord
      <3>4. CASE ConsumeSignal(w)
        <4>1. PICK pc \in {"noSignal", "holding"} : \E g :
                 worker' \in {[worker EXCEPT ![w].pc = pc],
                              [worker EXCEPT ![w].pc = pc, ![w].signal = g]}
          BY <3>4 DEF ConsumeSignal, Goto
        <4> QED
          BY <1>1, <4>1 DEF WorkerRecord
      <3>5. CASE \/ CompleteRun(w) \/ AdvanceTaskStep(w) \/ ConsumeSignalAndResumeWait(w)
                 \/ FailRun(w) \/ LoseLease(w)
        BY <1>1, <3>5 DEF CompleteRun, AdvanceTaskStep, ConsumeSignalAndResumeWait, FailRun,
                          LoseLease, Tick, Idle
      <3>6. CASE BodyThrows(w) \/ Crash(w)
        BY <1>1, <3>6 DEF BodyThrows, Crash, Goto, Tick, Idle, WorkerRecord
      <3> QED
        BY <2>1, <3>1, <3>2, <3>3, <3>4, <3>5, <3>6 DEF WorkerStep
    <2>3. worker[w].pc = "opened" =>
             ConsumeSignalAndResumeWait(w) \/ (GivesUp(w) /\ UNCHANGED waits)
      BY <1>1, <2>1 DEF Claim, WorkerStep, CompleteRun, OpenWait, Opening, OpenWaitDuplicate,
                        ConsumeSignal, AdvanceTaskStep, FailRun, LoseLease, BodyThrows, Crash
    <2>4. \A v \in WorkerIds : worker'[v].pc = "opened" => Kind[worker'[v].step] = "signal"
      BY <2>2 DEF OpenersAwaitSignals
    <2> QED
      BY <2>2, <2>3, <2>4 DEF OpenersAwaitSignals
  <1>3. ASSUME UNCHANGED worker
        PROVE  OpenersAwaitSignals' /\ \A v \in WorkerIds : worker'[v] = worker[v]
    BY <1>3 DEF OpenersAwaitSignals
  <1>4. CASE \/ \E i \in DOMAIN waits : ResumeWait(i) \/ WaitOverdue(i)
             \/ \E g \in Signals : CreateSignal(g)
             \/ \E mode \in {"graceful", "hard"} : RequestCancelRun(mode)
             \/ RecordExternalHeartbeat \/ RetryRun \/ LeaseExpires \/ RecoverExpiredLeases
    BY <1>3, <1>4 DEF ResumeWait, WaitOverdue, CreateSignal, RequestCancelRun,
                      RecordExternalHeartbeat, RetryRun, LeaseExpires, RecoverExpiredLeases
  <1>5. CASE (\E e \in Expirers : ExpirerStep(e) \/ ExpirerCrash(e)) \/ UNCHANGED vars
    BY <1>3, <1>5
    DEF ExpirerStep, ExpirerCrash, ExpireOpenWaits, MarkExpired, Marking, SettleExpired, Settling,
        vars
  <1> QED
    BY <1>2, <1>4, <1>5 DEF Next

\* Only a signal that is created becomes pending, and it queues a run that waits.
LEMMA PendingShrinks ==
    ASSUME TypeInv, [Next]_vars, row'.status = "waiting"
    PROVE  \A g \in Signals : signal'[g] = "pending" => signal[g] = "pending"
  <1> USE DEF counters
  <1>1. signal \in [Signals -> SignalState] /\ row \in Row
    BY DEF TypeInv, TypeOK
  <1>2. CASE \E g \in Signals : CreateSignal(g)
    BY <1>1, <1>2 DEF CreateSignal, Row
  <1>3. ASSUME NEW g, NEW s \in {"consumed", "delivered"}, signal' = [signal EXCEPT ![g] = s]
        PROVE  \A h \in Signals : signal'[h] = "pending" => signal[h] = "pending"
    BY <1>1, <1>3
  <1>4. CASE \E w \in WorkerIds : Claim(w) \/ WorkerStep(w) \/ BodyThrows(w) \/ Crash(w)
    <2>1. PICK w \in WorkerIds : Claim(w) \/ WorkerStep(w) \/ BodyThrows(w) \/ Crash(w)
      BY <1>4
    <2>2. CASE \/ Claim(w) \/ CompleteRun(w) \/ OpenWait(w) \/ OpenWaitDuplicate(w)
               \/ FailRun(w) \/ LoseLease(w) \/ BodyThrows(w) \/ Crash(w)
      BY <2>2 DEF Claim, CompleteRun, OpenWait, OpenWaitDuplicate, FailRun, LoseLease,
                  BodyThrows, Crash
    <2>3. CASE ConsumeSignal(w) \/ AdvanceTaskStep(w) \/ ConsumeSignalAndResumeWait(w)
      <3>1. \/ UNCHANGED signal
            \/ \E g : \E s \in {"consumed", "delivered"} : signal' = [signal EXCEPT ![g] = s]
        BY <2>3 DEF ConsumeSignal, AdvanceTaskStep, ConsumeSignalAndResumeWait
      <3> QED
        BY <1>3, <3>1
    <2> QED
      BY <2>1, <2>2, <2>3 DEF WorkerStep
  <1>5. CASE \/ \E i \in DOMAIN waits : ResumeWait(i) \/ WaitOverdue(i)
             \/ \E mode \in {"graceful", "hard"} : RequestCancelRun(mode)
             \/ RecordExternalHeartbeat \/ RetryRun \/ LeaseExpires \/ RecoverExpiredLeases
    BY <1>5 DEF ResumeWait, WaitOverdue, RequestCancelRun,
                RecordExternalHeartbeat, RetryRun, LeaseExpires, RecoverExpiredLeases
  <1>6. CASE (\E e \in Expirers : ExpirerStep(e) \/ ExpirerCrash(e)) \/ UNCHANGED vars
    BY <1>6 DEF ExpirerStep, ExpirerCrash, ExpireOpenWaits, MarkExpired, Marking, SettleExpired,
                Settling, vars
  <1> QED
    BY <1>2, <1>4, <1>5, <1>6 DEF Next

\* A wait that holds the run has held it before, unless it has just been opened.
LEMMA HeldBefore ==
    ASSUME TypeInv, [Next]_vars, NEW i \in DOMAIN waits', Resumable(i)', ~Opens
    PROVE  /\ i \in DOMAIN waits /\ Resumable(i)
           /\ waits'[i].step = waits[i].step /\ row'.step = row.step
           /\ forsaken \subseteq forsaken'
  <1>1. row'.status = "waiting"
    BY DEF Resumable
  <1>2. CASE Quiet
    BY <1>1, <1>2 DEF Quiet, RowKept, Resumable
  <1>3. CASE Leaves \/ Resumes \/ Terminates
    BY <1>1, <1>3, RowFacts, ResumedRow DEF Leaves, Terminates
  <1>4. CASE Ages \/ Marks
    <2>1. UNCHANGED <<row, forsaken>>
      BY <1>4 DEF Ages, Marks, history
    <2> QED
      BY <1>4, <2>1, WaitUpdates DEF Resumable
  <1>5. CASE Settles
    <2>1. UNCHANGED <<row, waits>> /\ UNCHANGED forsaken
      BY <1>1, <1>5, SettledRow DEF Settles
    <2> QED
      BY <2>1 DEF Resumable
  <1> QED
    BY <1>2, <1>3, <1>4, <1>5, Effects

LEMMA RaceStep ==
    ASSUME TypeInv, RaceInv, [Next]_vars
    PROVE  RaceInv'
  <1>1. KeysAreUnique' /\ OpenersAwaitSignals'
    BY UniqueStep, OpenersStay DEF RaceInv
  <1>2. ASSUME NEW i \in DOMAIN waits', Kind[waits'[i].step] = "signal", Resumable(i)',
               Pending(row.step)' # {}
        PROVE  \/ \E w \in WorkerIds : worker'[w].pc = "opened" /\ worker'[w].step = row'.step
               \/ i \in forsaken'
    <2>1. CASE Opens
      <3>1. row'.step = row.step
        BY <2>1, RowFacts DEF Opens
      <3>2. Kind[row.step] = "signal"
        BY <1>2, <3>1 DEF Resumable
      <3> QED
        BY <2>1, <3>1, <3>2 DEF Opens
    <2>2. CASE ~Opens
      <3>1. /\ i \in DOMAIN waits /\ Resumable(i)
            /\ waits'[i].step = waits[i].step /\ row'.step = row.step
            /\ forsaken \subseteq forsaken'
        BY <1>2, <2>2, HeldBefore
      <3>2. row.step = waits[i].step /\ row.step \in Steps /\ Kind[row.step] = "signal"
        <4>1. waits[i] \in Wait
          BY <3>1, ElementOfSeq DEF TypeInv, TypeOK
        <4> QED
          BY <1>2, <3>1, <4>1 DEF Resumable, Wait
      <3>3. Pending(row.step) # {}
        <4>1. \A g \in Signals : signal'[g] = "pending" => signal[g] = "pending"
          BY <1>2, PendingShrinks DEF Resumable
        <4>2. Awaits[row.step] \subseteq Signals
          BY <3>2, WaitDefinitionAssumption
        <4> QED
          BY <1>2, <3>1, <4>1, <4>2 DEF Pending
      <3> SUFFICES ASSUME i \notin forsaken'
                   PROVE  \E w \in WorkerIds : worker'[w].pc = "opened" /\ worker'[w].step = row'.step
        OBVIOUS
      <3>4. PICK w \in WorkerIds : worker[w].pc = "opened" /\ worker[w].step = row.step
        BY <3>1, <3>2, <3>3 DEF RaceInv, PostOpenRaceClosed, LookedFor
      <3>5. CASE worker'[w] = worker[w]
        BY <3>1, <3>4, <3>5
      <3>6. CASE ConsumeSignalAndResumeWait(w)
        <4>1. PICK j \in DOMAIN waits :
                 /\ KeyOf[waits[j].step] = KeyOf[row.step] /\ waits[j].step \notin FreshKeys
                 /\ IF Resumable(j) /\ Pending(row.step) # {}
                      THEN CompleteWaitResume(j) ELSE TRUE
          BY <3>4, <3>6 DEF ConsumeSignalAndResumeWait
        <4>2. row.step \notin FreshKeys
          BY <3>2, WaitDefinitionAssumption
        <4>3. j = i
          BY <3>1, <3>2, <4>1, <4>2 DEF RaceInv, KeysAreUnique
        <4>4. CompleteWaitResume(i)
          BY <3>1, <3>3, <4>1, <4>3
        <4>5. \E s : row' = AdvancedRow(row, s)
          BY <4>4 DEF CompleteWaitResume
        <4>6. row'.status = "queued"
          BY <4>5, RowFacts
        <4> QED
          BY <1>2, <4>6 DEF Resumable
      <3>7. ~GivesUp(w)
        BY <3>1, <3>2, <3>4 DEF GivesUp
      <3> QED
        BY <3>4, <3>5, <3>6, <3>7, OpenersStay DEF RaceInv
    <2> QED
      BY <2>1, <2>2
  <1>3. PostOpenRaceClosed'
    BY <1>2 DEF PostOpenRaceClosed, LookedFor
  <1> QED
    BY <1>1, <1>3 DEF RaceInv

\* No signal lies beside a wait that it would resume (PostOpenRaceClosed), except while the
\* worker that has opened the wait is about to look once more, or when that worker has died
\* or its step.resume has thrown before it had: a signal that comes later queues the run,
\* and the key of the wait is unique, so what the worker finds under it is the wait that
\* holds the run.
THEOREM OpeningMissesNoSignal == Spec => []PostOpenRaceClosed
  <1>1. Init => RaceInv
    <2> SUFFICES ASSUME Init PROVE RaceInv
      OBVIOUS
    <2>1. DOMAIN waits = {} /\ \A w \in WorkerIds : worker[w].pc = "idle"
      BY DEF Init, Idle
    <2> QED
      BY <2>1 DEF RaceInv, KeysAreUnique, OpenersAwaitSignals, PostOpenRaceClosed
  <1>2. TypeInv /\ RaceInv /\ [Next]_vars => RaceInv'
    BY RaceStep
  <1>3. RaceInv => PostOpenRaceClosed
    BY DEF RaceInv
  <1> QED
    BY <1>1, <1>2, <1>3, TypeInvInit, TypeStep, PTL DEF Spec
=============================================================================
