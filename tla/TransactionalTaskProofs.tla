----------------------- MODULE TransactionalTaskProofs ----------------------
(***************************************************************************)
(* Theorems about TransactionalTask, for every policy, fleet of workers and   *)
(* number of crashes, expiries and retries.                                  *)
(***************************************************************************)
EXTENDS TransactionalTask, RunStoreProofs

-----------------------------------------------------------------------------
(* Type correctness.                                                       *)

AttemptStatus == {"started", "completed", "failed"}

LEMMA TypeInit == Init => TypeOK
  <1> SUFFICES ASSUME Init PROVE TypeOK
    OBVIOUS
  <1>1. row \in Row
    BY TransactionalAssumption DEF Init, InsertedRow, AbsentRow, Row, Status, Final
  <1>2. worker \in [WorkerIds -> WorkerRecord] /\ tx \in Tx
    BY DEF Init, WorkerRecord, Idle, NoTx, Tx
  <1>3. attempts \in Seq({"started", "completed", "failed"})
    BY DEF Init
  <1>4. late \in [WorkerIds -> BOOLEAN] /\ strayed \in BOOLEAN
    BY DEF Init
  <1>5. {effects, completions, slow, faults, retries} \subseteq Nat
    <2>1. effects = 0 /\ completions = 0 /\ slow = 0 /\ faults = 0 /\ retries = 0
      BY DEF Init
    <2> QED
      BY <2>1
  <1> QED
    BY <1>1, <1>2, <1>3, <1>4, <1>5 DEF TypeOK

\* What a tick does to the memory of its worker.
LEMMA WorkerMoves ==
    ASSUME TypeOK, NEW w \in WorkerIds
    PROVE  /\ Tick(w) => worker' \in [WorkerIds -> WorkerRecord]
           /\ \A pc \in {"claimed", "body", "returned", "rolledBack", "overspent", "failing"} :
                 Goto(w, pc) => worker' \in [WorkerIds -> WorkerRecord]
  <1>1. worker \in [WorkerIds -> WorkerRecord] /\ Idle \in WorkerRecord
    BY DEF TypeOK, WorkerRecord, Idle
  <1>2. worker[w] \in WorkerRecord
    BY <1>1
  <1>3. ASSUME NEW pc \in {"claimed", "body", "returned", "rolledBack", "overspent", "failing"}
        PROVE  [worker[w] EXCEPT !.pc = pc] \in WorkerRecord
    BY <1>2 DEF WorkerRecord
  <1> QED
    BY <1>1, <1>3 DEF Tick, Goto

\* The COMMIT writes one attempt and at most one row.
LEMMA CommittedTypes ==
    ASSUME TypeOK, NEW w \in WorkerIds, Committed(w)
    PROVE  /\ row' \in Row
           /\ attempts' \in Seq(AttemptStatus)
           /\ tx' \in Tx
           /\ effects' \in Nat /\ completions' \in Nat
  <1>1. row' \in {row, AdvancedRow(row, After), ExhaustedRow(row), RetryingRow(row),
                  FailedRow(row)}
    BY DEF Committed
  <1>2. row \in Row /\ After \in Steps
    BY TransactionalAssumption DEF TypeOK
  <1>3. row' \in Row
    BY <1>1, <1>2, RowTypes
  <1>4. \E s \in AttemptStatus : attempts' = Append(attempts, s)
    BY DEF Committed, AttemptStatus
  <1>5. attempts' \in Seq(AttemptStatus)
    BY <1>4, Appending DEF TypeOK, AttemptStatus
  <1>6. tx' \in Tx
    BY DEF Committed, NoTx, Tx
  <1>7. effects' \in Nat /\ completions' \in Nat
    BY DEF Committed, Written, TypeOK
  <1> QED
    BY <1>3, <1>5, <1>6, <1>7

LEMMA TypeStep == TypeOK /\ [Next]_vars => TypeOK'
  <1> SUFFICES ASSUME TypeOK, [Next]_vars PROVE TypeOK'
    OBVIOUS
  <1> USE DEF TypeOK, outcome, counters
  <1>1. /\ row \in Row /\ tx \in Tx
        /\ worker \in [WorkerIds -> WorkerRecord]
        /\ attempts \in Seq(AttemptStatus)
    BY DEF AttemptStatus
  <1>2. ASSUME NEW w \in WorkerIds, Claim(w) PROVE TypeOK'
    BY <1>2, <1>1, RowTypes, WorkerMoves DEF Claim
  <1>3. ASSUME NEW w \in WorkerIds, BeginStepAttempt(w) PROVE TypeOK'
    <2>1. attempts' \in Seq(AttemptStatus)
      BY <1>3, <1>1, Appending DEF BeginStepAttempt, AttemptStatus
    <2>2. Len(attempts') \in Nat
      BY <2>1, LenProperties
    <2>3. worker' \in [WorkerIds -> WorkerRecord]
      BY <1>3, <1>1, <2>2 DEF BeginStepAttempt, WorkerRecord
    <2> QED
      BY <1>3, <2>1, <2>3 DEF BeginStepAttempt, AttemptStatus
  <1>4. ASSUME NEW w \in WorkerIds, OpenTransaction(w) PROVE TypeOK'
    BY <1>4, WorkerMoves DEF OpenTransaction, Tx
  <1>5. ASSUME NEW w \in WorkerIds, BeginRaced(w) \/ LoseLease(w) PROVE TypeOK'
    BY <1>5, WorkerMoves DEF BeginRaced, LoseLease
  <1>6. \A b \in BOOLEAN : [tx EXCEPT !.wrote = b] \in Tx
    BY <1>1 DEF Tx
  <1>7. ASSUME NEW w \in WorkerIds,
               BodyWrites(w) \/ BodyReturns(w) \/ BodyThrows(w) \/ BodyTimesOut(w)
                 \/ BodyOverspends(w) \/ BodySwallows(w)
        PROVE  TypeOK'
    <2>1. worker' \in [WorkerIds -> WorkerRecord]
      BY <1>7, WorkerMoves
      DEF BodyWrites, BodyReturns, BodyThrows, BodyTimesOut, BodyOverspends, BodySwallows
    <2>2. tx' \in Tx
      BY <1>7, <1>6
      DEF BodyWrites, BodyReturns, BodyThrows, BodyTimesOut, BodyOverspends, BodySwallows
    <2>3. tx.wrote \in BOOLEAN
      BY <1>1 DEF Tx
    <2>4. late' \in [WorkerIds -> BOOLEAN] /\ strayed' \in BOOLEAN
      BY <1>7, <2>3
      DEF BodyWrites, BodyReturns, BodyThrows, BodyTimesOut, BodyOverspends, BodySwallows
    <2> QED
      BY <1>7, <2>1, <2>2, <2>4
      DEF BodyWrites, BodyReturns, BodyThrows, BodyTimesOut, BodyOverspends, BodySwallows
  <1>8. ASSUME NEW w \in WorkerIds, Commit(w) \/ CommitReplyLost(w) PROVE TypeOK'
    <2>1. Committed(w)
      BY <1>8 DEF Commit, CommitReplyLost
    <2>2. worker' \in [WorkerIds -> WorkerRecord]
      BY <1>8, WorkerMoves DEF Commit, CommitReplyLost
    <2> QED
      BY <1>8, <2>1, <2>2, CommittedTypes DEF Commit, CommitReplyLost, AttemptStatus
  <1>9. ASSUME NEW w \in WorkerIds, ConnectionBreaks(w) \/ Crash(w) PROVE TypeOK'
    <2>1. worker' \in [WorkerIds -> WorkerRecord]
      BY <1>9, WorkerMoves DEF ConnectionBreaks, Crash
    <2>2. NoTx \in Tx
      BY DEF NoTx, Tx
    <2>3. CASE ConnectionBreaks(w)
      BY <2>1, <2>2, <2>3 DEF ConnectionBreaks
    <2>4. CASE Crash(w)
      BY <1>1, <2>1, <2>2, <2>4 DEF Crash
    <2> QED
      BY <1>9, <2>3, <2>4
  <1>10. ASSUME NEW w \in WorkerIds, FailStep(w) PROVE TypeOK'
    <2>1. attempts' \in Seq(AttemptStatus)
      BY <1>10, <1>1, Excepting DEF FailStep, AttemptStatus
    <2> QED
      BY <1>10, <1>1, <2>1, RowTypes, WorkerMoves DEF FailStep, AttemptStatus
  <1>11. ASSUME NEW w \in WorkerIds, LateWrite(w) PROVE TypeOK'
    <2>1. CASE tx.owner = w
      BY <1>11, <1>6, <2>1 DEF LateWrite
    <2>2. CASE tx.owner # w
      BY <1>11, <2>2 DEF LateWrite
    <2> QED
      BY <2>1, <2>2
  <1>12. ASSUME NEW mode \in {"graceful", "hard"}, RequestCancelRun(mode) PROVE TypeOK'
    BY <1>12, <1>1, RowTypes DEF RequestCancelRun
  <1>13. CASE RetryRun \/ BecomeDue \/ LeaseExpires \/ RecoverExpiredLeases
    <2>1. row' \in Row
      BY <1>13, <1>1, RowTypes DEF RetryRun, BecomeDue, LeaseExpires, RecoverExpiredLeases
    <2>2. slow' \in Nat /\ retries' \in Nat
      BY <1>13 DEF RetryRun, BecomeDue, LeaseExpires, RecoverExpiredLeases
    <2> QED
      BY <1>13, <2>1, <2>2 DEF RetryRun, BecomeDue, LeaseExpires, RecoverExpiredLeases
  <1>14. CASE UNCHANGED vars
    BY <1>14 DEF vars
  <1> QED
    BY <1>2, <1>3, <1>4, <1>5, <1>7, <1>8, <1>9, <1>10, <1>11, <1>12, <1>13, <1>14
    DEF Next, WorkerStep

\* The types, of the row, the transaction, the workers and the attempts.
THEOREM TransactionTypes == Spec => []TypeOK
  BY TypeInit, TypeStep, PTL DEF Spec

-----------------------------------------------------------------------------
(* The lock.                                                               *)

InTransaction == {"body", "returned", "rolledBack", "overspent"}

\* A lease has an owner, who executes a running run; the open transaction is that of the
\* owner of the run, which stands at the step, and no other process is in one.
Leased == /\ row.owner # NoWorker <=> row.lease # "none"
          /\ row.owner # NoWorker => row.status = "running"
Locked == tx.owner # NoWorker => /\ row.owner = tx.owner
                                 /\ row.step = Save
                                 /\ worker[tx.owner].pc \in InTransaction
Inside == \A w \in WorkerIds : worker[w].pc \in InTransaction => tx.owner = w

LockInv == TypeOK /\ Leased /\ Locked /\ Inside

\* The statements that end an execution, or move the run without a worker.
Released(r) == {AdvancedRow(r, After), ExhaustedRow(r), RetryingRow(r), FailedRow(r),
                CanceledRow(r), RetriedRow(r), Recovered(r)}

LEMMA ReleasedRows ==
    ASSUME NEW r \in Row, NEW new \in Released(r)
    PROVE  /\ new.owner = NoWorker /\ new.lease = "none"
           /\ r.step # Save => new.step # Save
           /\ new = AdvancedRow(r, After) => new.step # Save
  <1>1. Save \in Steps /\ After # Save /\ NoStep # Save
    BY TransactionalAssumption, NullsAreNoValues
  <1>2. new.owner = NoWorker /\ new.lease = "none"
    BY DEF Released, Row, AdvancedRow, ExhaustedRow, RetryingRow, FailedRow, CanceledRow,
           RetriedRow, Recovered, Release
  <1>3. new.step \in {After, NoStep, r.step}
    BY DEF Released, Row, AdvancedRow, ExhaustedRow, RetryingRow, FailedRow, CanceledRow,
           RetriedRow, Recovered, Release
  <1>4. AdvancedRow(r, After).step = After
    BY DEF AdvancedRow, Release, Row
  <1> QED
    BY <1>1, <1>2, <1>3, <1>4

LEMMA CommittedRow ==
    ASSUME NEW w \in WorkerIds, Committed(w)
    PROVE  /\ row' = row \/ row' \in Released(row)
           /\ worker[w].pc = "returned" /\ tx.guard => row' = AdvancedRow(row, After)
  BY DEF Committed, Released

LEMMA LockInit == Init => LockInv
  <1> SUFFICES ASSUME Init PROVE LockInv
    OBVIOUS
  <1>1. row.owner = NoWorker /\ row.lease = "none"
    BY DEF Init, InsertedRow, AbsentRow
  <1>2. tx.owner = NoWorker /\ \A w \in WorkerIds : worker[w].pc = "idle"
    BY DEF Init, NoTx, Idle
  <1> QED
    BY <1>1, <1>2, TypeInit DEF LockInv, Leased, Locked, Inside, InTransaction

\* Where a worker goes, and that the others stay.
LEMMA Going ==
    ASSUME TypeOK, NEW w \in WorkerIds
    PROVE  /\ \A pc : Goto(w, pc) =>
                 \A v \in WorkerIds : worker'[v].pc = IF v = w THEN pc ELSE worker[v].pc
           /\ Tick(w) =>
                 \A v \in WorkerIds : worker'[v].pc = IF v = w THEN "idle" ELSE worker[v].pc
  BY DEF Goto, Tick, Idle, TypeOK, WorkerRecord

LEMMA LockStep == LockInv /\ [Next]_vars => LockInv'
  <1> SUFFICES ASSUME LockInv, [Next]_vars PROVE (Leased /\ Locked /\ Inside)'
    BY TypeStep DEF LockInv
  <1> USE DEF outcome, counters
  <1>1. TypeOK /\ Leased /\ Locked /\ Inside
    BY DEF LockInv
  <1>2. row \in Row /\ tx \in Tx /\ NoWorker \notin WorkerIds
    BY <1>1, NullsAreNoValues DEF TypeOK
  <1>3. ASSUME NEW w \in WorkerIds, Claim(w) PROVE (Leased /\ Locked /\ Inside)'
    <2>1. row'.owner = w /\ row'.lease = "live" /\ row'.status = "running"
      BY <1>2, <1>3 DEF Claim, Claimed, Row
    <2>2. tx'.owner = NoWorker
      BY <1>3 DEF Claim, Unlocked
    <2>3. \A v \in WorkerIds : worker'[v].pc \notin InTransaction
      BY <1>1, <1>2, <1>3, <2>2, Going DEF Claim, Inside, InTransaction
    <2> QED
      BY <1>2, <2>1, <2>2, <2>3 DEF Leased, Locked, Inside
  <1>4. ASSUME NEW w \in WorkerIds, BeginStepAttempt(w) PROVE (Leased /\ Locked /\ Inside)'
    <2>1. \A v \in WorkerIds : worker'[v].pc = IF v = w THEN "begun" ELSE worker[v].pc
      BY <1>1, <1>4 DEF BeginStepAttempt, TypeOK, WorkerRecord
    <2>2. tx' = tx /\ row' = row /\ tx.owner = NoWorker
      BY <1>4 DEF BeginStepAttempt, Unlocked
    <2> QED
      BY <1>1, <1>2, <2>1, <2>2 DEF Leased, Locked, Inside, InTransaction
  <1>5. ASSUME NEW w \in WorkerIds, OpenTransaction(w) PROVE (Leased /\ Locked /\ Inside)'
    <2>1. tx'.owner = w /\ tx.owner = NoWorker /\ row' = row /\ row.owner = w /\ row.step = Save
      BY <1>5 DEF OpenTransaction, Unlocked
    <2>2. \A v \in WorkerIds : worker'[v].pc = IF v = w THEN "body" ELSE worker[v].pc
      BY <1>1, <1>5, Going DEF OpenTransaction
    <2> QED
      BY <1>1, <1>2, <2>1, <2>2 DEF Leased, Locked, Inside, InTransaction
  <1>6. ASSUME NEW w \in WorkerIds,
               BeginRaced(w) \/ LoseLease(w) \/ FailStep(w)
        PROVE  (Leased /\ Locked /\ Inside)'
    <2>1. /\ worker[w].pc \notin InTransaction
          /\ \A v \in WorkerIds : worker'[v].pc = IF v = w THEN "idle" ELSE worker[v].pc
          /\ tx' = tx
      BY <1>1, <1>6, Going DEF BeginRaced, LoseLease, FailStep, InTransaction
    <2>2. row' = row \/ (tx.owner = NoWorker /\ row' \in Released(row))
      <3>1. CASE FailStep(w)
        BY <3>1 DEF FailStep, Unlocked, Released
      <3> QED
        BY <1>6, <3>1 DEF BeginRaced, LoseLease
    <2>3. Leased'
      BY <1>1, <1>2, <2>2, ReleasedRows DEF Leased
    <2>4. Locked'
      BY <1>1, <1>2, <2>1, <2>2 DEF Locked, Inside, Tx
    <2>5. Inside'
      BY <1>1, <2>1 DEF Inside, InTransaction
    <2> QED
      BY <2>3, <2>4, <2>5
  <1>7. ASSUME NEW w \in WorkerIds,
               BodyWrites(w) \/ BodyReturns(w) \/ BodyThrows(w) \/ BodyTimesOut(w)
                 \/ BodyOverspends(w) \/ BodySwallows(w)
        PROVE  (Leased /\ Locked /\ Inside)'
    <2>1. worker[w].pc = "body" /\ row' = row
      BY <1>7 DEF BodyWrites, BodyReturns, BodyThrows, BodyTimesOut, BodyOverspends, BodySwallows
    <2>2. /\ worker'[w].pc \in InTransaction
          /\ \A v \in WorkerIds \ {w} : worker'[v].pc = worker[v].pc
      BY <1>1, <1>7, <2>1, Going
      DEF BodyWrites, BodyReturns, BodyThrows, BodyTimesOut, BodyOverspends, BodySwallows,
          InTransaction
    <2>3. tx'.owner = tx.owner
      BY <1>2, <1>7
      DEF BodyWrites, BodyReturns, BodyThrows, BodyTimesOut, BodyOverspends, BodySwallows, Tx
    <2>4. tx.owner = w
      BY <1>1, <2>1 DEF Inside, InTransaction
    <2> QED
      BY <1>1, <2>1, <2>2, <2>3, <2>4 DEF Leased, Locked, Inside
  <1>8. ASSUME NEW w \in WorkerIds,
               Commit(w) \/ CommitReplyLost(w) \/ ConnectionBreaks(w) \/ Crash(w)
        PROVE  (Leased /\ Locked /\ Inside)'
    <2>1. /\ worker'[w].pc \in {"idle", "failing"}
          /\ \A v \in WorkerIds \ {w} : worker'[v].pc = worker[v].pc
      BY <1>1, <1>8, Going DEF Commit, CommitReplyLost, ConnectionBreaks, Crash
    <2>2. tx' = IF tx.owner = w THEN NoTx ELSE tx
      <3>1. ASSUME Committed(w) PROVE tx.owner = w /\ tx' = NoTx
        BY <1>1, <3>1 DEF Committed, Inside, InTransaction
      <3> QED
        BY <1>8, <3>1 DEF Commit, CommitReplyLost, ConnectionBreaks, Crash
    <2>3. row' = row \/ (tx.owner = w /\ row' \in Released(row))
      <3>1. ASSUME Committed(w) PROVE tx.owner = w
        BY <1>1, <3>1 DEF Committed, Inside, InTransaction
      <3>2. CASE Commit(w) \/ CommitReplyLost(w)
        BY <3>1, <3>2, CommittedRow DEF Commit, CommitReplyLost
      <3>3. CASE ConnectionBreaks(w) \/ Crash(w)
        BY <3>3 DEF ConnectionBreaks, Crash
      <3> QED
        BY <1>8, <3>2, <3>3
    <2>4. Leased'
      BY <1>1, <1>2, <2>3, ReleasedRows DEF Leased
    <2>5. Inside'
      BY <1>1, <2>1, <2>2 DEF Inside, InTransaction
    <2>6. Locked'
      <3>1. CASE tx.owner = w
        BY <2>2, <3>1 DEF Locked, NoTx
      <3>2. CASE tx.owner # w
        BY <1>1, <1>2, <2>1, <2>2, <2>3, <3>2 DEF Locked, Tx
      <3> QED
        BY <3>1, <3>2
    <2> QED
      BY <2>4, <2>5, <2>6
  <1>9. ASSUME NEW w \in WorkerIds, LateWrite(w) PROVE (Leased /\ Locked /\ Inside)'
    <2>1. tx'.owner = tx.owner /\ row' = row /\ worker' = worker
      BY <1>2, <1>9 DEF LateWrite, Tx
    <2> QED
      BY <1>1, <2>1 DEF Leased, Locked, Inside
  <1>10. ASSUME NEW mode \in {"graceful", "hard"}, RequestCancelRun(mode)
         PROVE  (Leased /\ Locked /\ Inside)'
    <2>1. tx' = tx /\ worker' = worker /\ tx.owner = NoWorker
      BY <1>10 DEF RequestCancelRun, Unlocked
    <2>2. row' \in Released(row) \/ row' = GracefullyCanceledRow(row)
      BY <1>10 DEF RequestCancelRun, Released
    <2>3. row' = GracefullyCanceledRow(row) =>
             /\ row'.owner = row.owner /\ row'.lease = row.lease
             /\ row.status = "running" => row'.status = "running"
      BY <1>2 DEF GracefullyCanceledRow, Row
    <2>4. Leased'
      BY <1>1, <1>2, <2>2, <2>3, ReleasedRows DEF Leased
    <2> QED
      BY <1>1, <2>1, <2>4 DEF Locked, Inside
  <1>11. ASSUME RetryRun \/ RecoverExpiredLeases PROVE (Leased /\ Locked /\ Inside)'
    <2>1. /\ tx' = tx /\ worker' = worker /\ tx.owner = NoWorker
          /\ row' \in Released(row)
      BY <1>11 DEF RetryRun, RecoverExpiredLeases, Unlocked, Released
    <2> QED
      BY <1>1, <1>2, <2>1, ReleasedRows DEF Leased, Locked, Inside
  <1>12. ASSUME BecomeDue \/ LeaseExpires PROVE (Leased /\ Locked /\ Inside)'
    <2>1. /\ tx' = tx /\ worker' = worker
          /\ row'.owner = row.owner /\ row'.step = row.step /\ row'.status = row.status
          /\ row'.lease = "none" <=> row.lease = "none"
      BY <1>2, <1>12 DEF BecomeDue, LeaseExpires, Row
    <2> QED
      BY <1>1, <2>1 DEF Leased, Locked, Inside
  <1>13. CASE UNCHANGED vars
    BY <1>1, <1>13 DEF vars, Leased, Locked, Inside
  <1> QED
    BY <1>3, <1>4, <1>5, <1>6, <1>7, <1>8, <1>9, <1>10, <1>11, <1>12, <1>13
    DEF Next, WorkerStep

-----------------------------------------------------------------------------
(* The step is completed once, and with a write.                            *)

\* A run that has moved past the step does not come back, and a body that has returned
\* has written in the transaction that is open.
MovedOn == /\ completions \in {0, 1} /\ completions <= effects
           /\ completions = 1 => row.step # Save
Returned == \A w \in WorkerIds : worker[w].pc = "returned" => tx.wrote

ProgressInv == LockInv /\ MovedOn /\ Returned

\* Every change of the counters and of the row, seen from them.
LEMMA RowSteps ==
    ASSUME LockInv, [Next]_vars, row' # row
    PROVE  row.step # Save => row'.step # Save
  <1> USE DEF outcome, counters
  <1>1. row \in Row
    BY DEF LockInv, TypeOK
  <1>2. row' \in Released(row) => (row.step # Save => row'.step # Save)
    BY <1>1, ReleasedRows
  <1>3. ASSUME NEW w \in WorkerIds,
               WorkerStep(w) \/ LateWrite(w) \/ Crash(w) \/ CommitReplyLost(w)
                 \/ ConnectionBreaks(w)
        PROVE  row' \in Released(row)
    <2>1. CASE Commit(w) \/ CommitReplyLost(w)
      BY <2>1, CommittedRow DEF Commit, CommitReplyLost
    <2>2. CASE FailStep(w)
      BY <2>2 DEF FailStep, Released
    <2> QED
      BY <1>3, <2>1, <2>2
      DEF WorkerStep, BeginStepAttempt, BeginRaced, OpenTransaction, LoseLease, BodyWrites,
          BodyReturns, BodyThrows, BodyTimesOut, BodyOverspends, BodySwallows, LateWrite,
          Crash, ConnectionBreaks
  <1>4. ASSUME NEW w \in WorkerIds, Claim(w) PROVE row'.step = row.step
    BY <1>1, <1>4 DEF Claim, Claimed, Row
  <1>5. ASSUME NEW mode \in {"graceful", "hard"}, RequestCancelRun(mode)
        PROVE  row'.step = row.step
    BY <1>1, <1>5 DEF RequestCancelRun, CanceledRow, GracefullyCanceledRow, Release, Row
  <1>6. CASE RetryRun \/ RecoverExpiredLeases
    BY <1>2, <1>6 DEF RetryRun, RecoverExpiredLeases, Released
  <1>7. CASE BecomeDue \/ LeaseExpires
    BY <1>1, <1>7 DEF BecomeDue, LeaseExpires, Row
  <1>8. CASE UNCHANGED vars
    BY <1>8 DEF vars
  <1> QED
    BY <1>2, <1>3, <1>4, <1>5, <1>6, <1>7, <1>8 DEF Next

LEMMA Counting ==
    ASSUME LockInv, [Next]_vars
    PROVE  \/ effects' = effects /\ completions' = completions
           \/ /\ effects' = effects + 1 /\ completions' = completions
              /\ \E w \in WorkerIds : late[w]
           \/ \E w \in WorkerIds : Committed(w)
  <1> USE DEF outcome, counters
  <1>1. ASSUME NEW w \in WorkerIds, WorkerStep(w)
        PROVE  (effects' = effects /\ completions' = completions) \/ Committed(w)
    BY <1>1
    DEF WorkerStep, BeginStepAttempt, BeginRaced, OpenTransaction, LoseLease, BodyWrites,
        BodyReturns, BodyThrows, BodyTimesOut, BodyOverspends, BodySwallows, Commit, FailStep
  <1>2. ASSUME NEW w \in WorkerIds, Claim(w) \/ Crash(w) \/ ConnectionBreaks(w)
        PROVE  effects' = effects /\ completions' = completions
    BY <1>2 DEF Claim, Crash, ConnectionBreaks
  <1>3. ASSUME NEW w \in WorkerIds, CommitReplyLost(w) PROVE Committed(w)
    BY <1>3 DEF CommitReplyLost
  <1>4. ASSUME NEW w \in WorkerIds, LateWrite(w)
        PROVE  /\ completions' = completions /\ late[w]
               /\ effects' = effects \/ effects' = effects + 1
    BY <1>4 DEF LateWrite
  <1>5. ASSUME NEW mode \in {"graceful", "hard"}, RequestCancelRun(mode)
        PROVE  effects' = effects /\ completions' = completions
    BY <1>5 DEF RequestCancelRun
  <1>6. CASE RetryRun \/ BecomeDue \/ LeaseExpires \/ RecoverExpiredLeases \/ UNCHANGED vars
    BY <1>6 DEF RetryRun, BecomeDue, LeaseExpires, RecoverExpiredLeases, vars
  <1> QED
    BY <1>1, <1>2, <1>3, <1>4, <1>5, <1>6 DEF Next

LEMMA ReturnedStep == LockInv /\ Returned /\ [Next]_vars => Returned'
  <1> SUFFICES ASSUME LockInv, Returned, [Next]_vars PROVE Returned'
    OBVIOUS
  <1> USE DEF outcome, counters
  <1>1. TypeOK /\ Inside /\ tx \in Tx /\ NoWorker \notin WorkerIds
    BY NullsAreNoValues DEF LockInv, TypeOK
  <1>2. ASSUME NEW w \in WorkerIds, WorkerStep(w) \/ Crash(w) \/ CommitReplyLost(w)
                                      \/ ConnectionBreaks(w) \/ Claim(w)
        PROVE  Returned'
    <2>1. CASE BodyReturns(w)
      <3>1. \A v \in WorkerIds : worker'[v].pc = IF v = w THEN "returned" ELSE worker[v].pc
        BY <1>1, <2>1, Going DEF BodyReturns
      <3> QED
        BY <2>1, <3>1 DEF Returned, BodyReturns
    <2>2. CASE ~BodyReturns(w)
      <3>1. /\ worker'[w].pc # "returned"
            /\ \A v \in WorkerIds \ {w} : worker'[v].pc = worker[v].pc
        <4>1. CASE BeginStepAttempt(w)
          BY <1>1, <4>1 DEF BeginStepAttempt, TypeOK
        <4>2. CASE BodyWrites(w)
          BY <4>2 DEF BodyWrites
        <4> QED
          BY <1>1, <1>2, <2>2, <4>1, <4>2, Going
          DEF WorkerStep, BeginRaced, OpenTransaction, LoseLease, BodyThrows, BodyTimesOut,
              BodyOverspends, BodySwallows, Commit, FailStep, Crash, CommitReplyLost,
              ConnectionBreaks, Claim
      <3>2. tx.owner \in WorkerIds \ {w} => tx' = tx
        <4>1. ASSUME worker[w].pc \in InTransaction PROVE tx.owner = w
          BY <1>1, <4>1 DEF Inside
        <4> QED
          BY <1>1, <1>2, <4>1
          DEF WorkerStep, BeginStepAttempt, BeginRaced, OpenTransaction, LoseLease,
              BodyWrites, BodyReturns, BodyThrows, BodyTimesOut, BodyOverspends,
              BodySwallows, Commit, Committed, FailStep, Crash, CommitReplyLost,
              ConnectionBreaks, Claim, Unlocked, InTransaction
      <3>3. ASSUME NEW v \in WorkerIds, worker'[v].pc = "returned" PROVE tx'.wrote
        BY <1>1, <3>1, <3>2, <3>3 DEF Returned, Inside, InTransaction
      <3> QED
        BY <3>3 DEF Returned
    <2> QED
      BY <2>1, <2>2
  <1>3. ASSUME NEW w \in WorkerIds, LateWrite(w) PROVE Returned'
    BY <1>1, <1>3 DEF LateWrite, Returned, Tx
  <1>4. ASSUME NEW mode \in {"graceful", "hard"}, RequestCancelRun(mode) PROVE Returned'
    BY <1>4 DEF RequestCancelRun, Returned
  <1>5. CASE RetryRun \/ BecomeDue \/ LeaseExpires \/ RecoverExpiredLeases \/ UNCHANGED vars
    BY <1>5 DEF RetryRun, BecomeDue, LeaseExpires, RecoverExpiredLeases, vars, Returned
  <1> QED
    BY <1>2, <1>3, <1>4, <1>5 DEF Next

LEMMA ProgressStep == ProgressInv /\ [Next]_vars => ProgressInv'
  <1> SUFFICES ASSUME ProgressInv, [Next]_vars PROVE MovedOn'
    BY LockStep, ReturnedStep DEF ProgressInv
  <1>1. /\ LockInv /\ MovedOn /\ Returned
        /\ row \in Row /\ effects \in Nat /\ NoWorker \notin WorkerIds
    BY NullsAreNoValues DEF ProgressInv, LockInv, TypeOK
  <1>2. row.step # Save => row'.step # Save
    BY <1>1, RowSteps
  <1>3. CASE completions' = completions /\ effects' \in {effects, effects + 1}
    BY <1>1, <1>2, <1>3 DEF MovedOn
  <1>4. ASSUME NEW w \in WorkerIds, Committed(w) PROVE MovedOn'
    <2>1. effects' = effects + Written /\ Written \in {0, 1}
      BY <1>4 DEF Committed, Written
    <2>2. CASE completions' = completions
      BY <1>1, <1>2, <2>1, <2>2 DEF MovedOn
    <2>3. CASE completions' # completions
      <3>1. completions' = completions + 1 /\ worker[w].pc = "returned" /\ tx.guard
        BY <1>4, <2>3 DEF Committed
      <3>2. Written = 1
        BY <1>1, <3>1 DEF Returned, Written
      <3>3. row.step = Save
        BY <1>1, <3>1 DEF LockInv, Locked, Inside, InTransaction
      <3>4. row'.step # Save
        BY <1>1, <1>4, <3>1, CommittedRow, ReleasedRows DEF Released
      <3> QED
        BY <1>1, <2>1, <3>1, <3>2, <3>3, <3>4 DEF MovedOn
    <2> QED
      BY <2>2, <2>3
  <1> QED
    BY <1>1, <1>3, <1>4, Counting

LEMMA ProgressInit == Init => ProgressInv
  <1> SUFFICES ASSUME Init PROVE MovedOn /\ Returned
    BY LockInit DEF ProgressInv
  <1>1. completions = 0 /\ effects = 0 /\ \A w \in WorkerIds : worker[w].pc = "idle"
    BY DEF Init, Idle
  <1> QED
    BY <1>1 DEF MovedOn, Returned

\* Whatever strays, the run moves past the step at most once and with a write of a body.
THEOREM CompletedOnce == Spec => []CompletedWithItsWrite
  <1>1. ProgressInv => CompletedWithItsWrite
    BY DEF ProgressInv, MovedOn, CompletedWithItsWrite
  <1> QED
    BY <1>1, ProgressInit, ProgressStep, PTL DEF Spec

-----------------------------------------------------------------------------
(* The writes of bodies are committed exactly with the step.                *)

\* What keeps the transaction together until something strays: no body is still to write,
\* the commit will find the lease that the look at it found, and a savepoint that was
\* rolled back has taken the write with it.
NoneLate == \A w \in WorkerIds : ~late[w]
Guarded == tx.owner # NoWorker => tx.guard
RolledBack == \A w \in WorkerIds : worker[w].pc \in {"rolledBack", "overspent"} => ~tx.wrote

Kept == NoneLate /\ Guarded /\ RolledBack
AtomicInv == ProgressInv /\ (~strayed => Kept) /\ EffectsMatchCompletions

\* strayed is a history variable: it is never reset.
LEMMA StrayedStays == TypeOK /\ [Next]_vars => (strayed => strayed')
  BY DEF Next, vars, WorkerStep, BeginStepAttempt, BeginRaced, OpenTransaction, LoseLease,
         BodyWrites, BodyReturns, BodyThrows, BodyTimesOut, BodyOverspends, BodySwallows,
         Commit, CommitReplyLost, ConnectionBreaks, FailStep, LateWrite, Crash, Claim,
         RequestCancelRun, RetryRun, BecomeDue, LeaseExpires, RecoverExpiredLeases, outcome

LEMMA KeptStep ==
    ASSUME LockInv, Kept, [Next]_vars, ~strayed'
    PROVE  Kept'
  <1> USE DEF outcome, counters
  <1>1. /\ TypeOK /\ Inside /\ tx \in Tx /\ NoWorker \notin WorkerIds
        /\ late \in [WorkerIds -> BOOLEAN]
        /\ NoneLate /\ Guarded /\ RolledBack
    BY NullsAreNoValues DEF LockInv, TypeOK, Kept
  <1>2. ASSUME NEW w \in WorkerIds, OpenTransaction(w) PROVE Kept'
    <2>1. tx' = [owner |-> w, guard |-> TRUE, wrote |-> FALSE] /\ late' = late
      BY <1>2 DEF OpenTransaction
    <2> QED
      BY <1>1, <2>1 DEF Kept, NoneLate, Guarded, RolledBack
  <1>3. ASSUME NEW w \in WorkerIds, BodyWrites(w) PROVE Kept'
    <2>1. /\ tx.owner = w /\ worker[w].pc = "body" /\ worker' = worker /\ late' = late
          /\ tx'.owner = tx.owner /\ tx'.guard = tx.guard
      BY <1>1, <1>3 DEF BodyWrites, Inside, InTransaction, Tx
    <2>2. \A v \in WorkerIds : worker[v].pc \notin {"rolledBack", "overspent"}
      BY <1>1, <2>1 DEF Inside, InTransaction
    <2> QED
      BY <1>1, <2>1, <2>2 DEF Kept, NoneLate, Guarded, RolledBack
  <1>4. ASSUME NEW w \in WorkerIds, BodyReturns(w) PROVE Kept'
    <2>1. \A v \in WorkerIds : worker'[v].pc = IF v = w THEN "returned" ELSE worker[v].pc
      BY <1>1, <1>4, Going DEF BodyReturns
    <2> QED
      BY <1>1, <1>4, <2>1 DEF BodyReturns, Kept, NoneLate, Guarded, RolledBack
  <1>5. ASSUME NEW w \in WorkerIds, BodyThrows(w) \/ BodyTimesOut(w) \/ BodyOverspends(w)
        PROVE  Kept'
    <2>1. tx'.owner = tx.owner /\ tx'.guard = tx.guard /\ tx'.wrote = FALSE
      BY <1>1, <1>5 DEF BodyThrows, BodyTimesOut, BodyOverspends, Tx
    <2>2. \A v \in WorkerIds : ~late'[v]
      <3>1. CASE BodyTimesOut(w)
        <4>1. tx.wrote = TRUE
          BY <1>1, <3>1 DEF BodyTimesOut, Tx
        <4>2. late' = [late EXCEPT ![w] = late[w] \/ ~tx.wrote]
          BY <3>1 DEF BodyTimesOut
        <4> QED
          BY <1>1, <4>1, <4>2 DEF NoneLate
      <3>2. CASE BodyThrows(w) \/ BodyOverspends(w)
        BY <1>1, <3>2 DEF BodyThrows, BodyOverspends, NoneLate
      <3> QED
        BY <1>5, <3>1, <3>2
    <2> QED
      BY <1>1, <2>1, <2>2 DEF Kept, NoneLate, Guarded, RolledBack
  <1>6. ASSUME NEW w \in WorkerIds, BodySwallows(w) PROVE FALSE
    BY <1>6 DEF BodySwallows
  <1>7. ASSUME NEW w \in WorkerIds, LateWrite(w) PROVE FALSE
    BY <1>1, <1>7 DEF LateWrite, NoneLate
  <1>8. ASSUME NEW w \in WorkerIds,
               Claim(w) \/ BeginStepAttempt(w) \/ BeginRaced(w) \/ LoseLease(w) \/ FailStep(w)
        PROVE  Kept'
    <2>1. /\ worker'[w].pc \notin {"rolledBack", "overspent"}
          /\ \A v \in WorkerIds \ {w} : worker'[v].pc = worker[v].pc
      <3>1. CASE BeginStepAttempt(w)
        BY <1>1, <3>1 DEF BeginStepAttempt, TypeOK
      <3> QED
        BY <1>1, <1>8, <3>1, Going DEF Claim, BeginRaced, LoseLease, FailStep
    <2>2. tx' = tx /\ late' = late
      BY <1>8 DEF Claim, BeginStepAttempt, BeginRaced, LoseLease, FailStep
    <2> QED
      BY <1>1, <2>1, <2>2 DEF Kept, NoneLate, Guarded, RolledBack
  <1>9. ASSUME NEW w \in WorkerIds,
               Commit(w) \/ CommitReplyLost(w) \/ ConnectionBreaks(w) \/ Crash(w)
        PROVE  Kept'
    <2>1. /\ worker'[w].pc \notin {"rolledBack", "overspent"}
          /\ \A v \in WorkerIds \ {w} : worker'[v].pc = worker[v].pc
      BY <1>1, <1>9, Going DEF Commit, CommitReplyLost, ConnectionBreaks, Crash
    <2>2. tx' \in {tx, NoTx}
      BY <1>9 DEF Commit, CommitReplyLost, Committed, ConnectionBreaks, Crash
    <2>3. \A v \in WorkerIds : ~late'[v]
      BY <1>1, <1>9 DEF Commit, CommitReplyLost, ConnectionBreaks, Crash, NoneLate
    <2>4. NoTx.owner = NoWorker /\ ~NoTx.wrote
      BY DEF NoTx
    <2> QED
      BY <1>1, <2>1, <2>2, <2>3, <2>4 DEF Kept, NoneLate, Guarded, RolledBack
  <1>10. ASSUME NEW mode \in {"graceful", "hard"}, RequestCancelRun(mode) PROVE Kept'
    BY <1>1, <1>10 DEF RequestCancelRun, Kept, NoneLate, Guarded, RolledBack
  <1>11. CASE RetryRun \/ BecomeDue \/ LeaseExpires \/ RecoverExpiredLeases \/ UNCHANGED vars
    BY <1>1, <1>11 DEF RetryRun, BecomeDue, LeaseExpires, RecoverExpiredLeases, vars,
                       Kept, NoneLate, Guarded, RolledBack
  <1> QED
    BY <1>2, <1>3, <1>4, <1>5, <1>6, <1>7, <1>8, <1>9, <1>10, <1>11 DEF Next, WorkerStep

\* A commit of a transaction that was kept together counts both or neither.
LEMMA CountedTogether ==
    ASSUME ProgressInv, Kept, NEW w \in WorkerIds, Committed(w)
    PROVE  \E n \in {0, 1} : effects' = effects + n /\ completions' = completions + n
  <1>1. tx.owner = w /\ tx.guard
    BY NullsAreNoValues
    DEF ProgressInv, LockInv, Inside, InTransaction, Kept, Guarded, Committed
  <1>2. completions \in Nat /\ effects \in Nat
    BY DEF ProgressInv, LockInv, TypeOK
  <1>3. CASE worker[w].pc = "returned"
    <2>1. tx.wrote
      BY <1>3 DEF ProgressInv, Returned
    <2>2. effects' = effects + 1 /\ completions' = completions + 1
      BY <1>1, <1>3, <2>1 DEF Committed, Written
    <2> QED
      BY <2>2
  <1>4. CASE worker[w].pc # "returned"
    <2>1. ~tx.wrote
      BY <1>4 DEF Kept, RolledBack, Committed
    <2>2. effects' = effects + 0 /\ completions' = completions + 0
      BY <1>2, <1>4, <2>1 DEF Committed, Written
    <2> QED
      BY <2>2
  <1> QED
    BY <1>3, <1>4

LEMMA AtomicStep == AtomicInv /\ [Next]_vars => AtomicInv'
  <1> SUFFICES ASSUME AtomicInv, [Next]_vars, ~strayed'
               PROVE  Kept' /\ effects' = completions'
    BY ProgressStep DEF AtomicInv, EffectsMatchCompletions
  <1>1. ProgressInv /\ LockInv /\ TypeOK
    BY DEF AtomicInv, ProgressInv, LockInv
  <1>2. Kept /\ effects = completions
    BY <1>1, StrayedStays DEF AtomicInv, EffectsMatchCompletions
  <1>3. Kept'
    BY <1>1, <1>2, KeptStep
  <1>4. \A w \in WorkerIds : ~late[w]
    BY <1>2 DEF Kept, NoneLate
  <1>5. effects' = completions'
    BY <1>1, <1>2, <1>4, Counting, CountedTogether
  <1> QED
    BY <1>3, <1>5

LEMMA AtomicInit == Init => AtomicInv
  <1> SUFFICES ASSUME Init PROVE Kept /\ EffectsMatchCompletions
    BY ProgressInit DEF AtomicInv
  <1>1. \A w \in WorkerIds : worker[w].pc = "idle" /\ ~late[w]
    BY DEF Init, Idle
  <1>2. tx.owner = NoWorker /\ effects = 0 /\ completions = 0
    BY DEF Init, NoTx
  <1> QED
    BY <1>1, <1>2 DEF Kept, NoneLate, Guarded, RolledBack, EffectsMatchCompletions

\* Workflow progress and the writes of the body are committed together, until a body goes
\* on after its timeout or swallows the budget error, or a clock lets a worker in whose
\* lease has expired.
THEOREM SameTransactionUnlessStrayed == Spec => []EffectsMatchCompletions
  <1>1. AtomicInv => EffectsMatchCompletions
    BY DEF AtomicInv
  <1> QED
    BY <1>1, AtomicInit, AtomicStep, PTL DEF Spec

\* A terminated run has no open transaction: an operator waits for the lock of one, and
\* after the termination nobody opens another.  What is still written for it is the write of
\* a body that timed out before.
THEOREM TerminatedRunsStay == Spec => NoEffectAfterTermination
  <1>1. ProgressInv /\ [Next]_vars =>
           [row.status = "canceled" /\ effects' # effects => \E w \in WorkerIds : late[w]]_vars
    <2> SUFFICES ASSUME ProgressInv, [Next]_vars, row.status = "canceled",
                        \A w \in WorkerIds : ~late[w]
                 PROVE  effects' = effects
      OBVIOUS
    <2>1. LockInv
      BY DEF ProgressInv
    <2>2. ASSUME NEW w \in WorkerIds, Committed(w) PROVE FALSE
      BY <2>1, <2>2, NullsAreNoValues
      DEF LockInv, Leased, Locked, Inside, InTransaction, Committed
    <2> QED
      BY <2>1, <2>2, Counting
  <1> QED
    BY <1>1, ProgressInit, ProgressStep, PTL DEF Spec, NoEffectAfterTermination
=============================================================================
