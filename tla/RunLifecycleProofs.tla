------------------------- MODULE RunLifecycleProofs -------------------------
(***************************************************************************)
(* Theorems about RunLifecycle, for every workflow definition, every number *)
(* of runs and workers and every value of the bounds: its types, its leases, *)
(* the chain of successors and the attempts of a step, and that it           *)
(* implements DurableRun.                                                   *)
(***************************************************************************)
EXTENDS RunLifecycle, RunStoreProofs, FiniteSetTheorems

-----------------------------------------------------------------------------
(* Type correctness.  TypeOK is not inductive: a worker that is not idle     *)
(* writes to the row and the attempts of its run, so these must exist.       *)

WorkersHoldSteps ==
    \A w \in Workers : worker[w].pc # "idle" =>
       /\ worker[w].run \in Runs
       /\ worker[w].step \in Steps
       /\ worker[w].pc # "claimed" =>
             /\ Kind[worker[w].step] = "task"
             /\ worker[w].attempt \in DOMAIN attempts[worker[w].run][worker[w].step]

TypeInv == TypeOK /\ WorkersHoldSteps

LEMMA TypeInit == Init => TypeInv
  <1> SUFFICES ASSUME Init PROVE TypeInv
    OBVIOUS
  <1>1. TypeOK
    BY DefinitionAssumption
    DEF Init, TypeOK, Row, Status, Final, AbsentRow, WorkerRecord, Idle
  <1>2. WorkersHoldSteps
    BY DEF Init, WorkersHoldSteps, Idle
  <1> QED
    BY <1>1, <1>2 DEF TypeInv

\* A commit that settles an attempt changes no attempt but that one.
LEMMA Settling ==
    ASSUME TypeInv,
           NEW w \in Workers, worker[w].pc \in {"executing", "failing"},
           NEW status \in AttemptStatus, SettleAttempt(w, status)
    PROVE  /\ attempts' \in [Runs -> [Steps -> Seq(AttemptStatus)]]
           /\ \A r \in Runs, s \in Steps :
                /\ DOMAIN attempts'[r][s] = DOMAIN attempts[r][s]
                /\ \A n \in DOMAIN attempts[r][s] :
                     attempts'[r][s][n] =
                        IF r = worker[w].run /\ s = worker[w].step /\ n = worker[w].attempt
                          THEN status ELSE attempts[r][s][n]
  <1> DEFINE R == worker[w].run
             S == worker[w].step
             N == worker[w].attempt
  <1>1. R \in Runs /\ S \in Steps /\ N \in DOMAIN attempts[R][S]
    BY DEF TypeInv, WorkersHoldSteps
  <1>2. attempts[R][S] \in Seq(AttemptStatus)
    BY <1>1 DEF TypeInv, TypeOK
  <1>3. [attempts[R][S] EXCEPT ![N] = status] \in Seq(AttemptStatus)
    BY <1>1, <1>2, ExceptSeq
  <1>4. attempts' = [attempts EXCEPT ![R] = [attempts[R] EXCEPT ![S] =
                        [attempts[R][S] EXCEPT ![N] = status]]]
    BY DEF SettleAttempt
  <1>5. attempts \in [Runs -> [Steps -> Seq(AttemptStatus)]]
    BY DEF TypeInv, TypeOK
  <1> HIDE DEF R, S, N
  <1>6. attempts' \in [Runs -> [Steps -> Seq(AttemptStatus)]]
    BY <1>1, <1>3, <1>4, <1>5
  <1>7. ASSUME NEW r \in Runs, NEW s \in Steps
        PROVE  /\ DOMAIN attempts'[r][s] = DOMAIN attempts[r][s]
               /\ \A n \in DOMAIN attempts[r][s] :
                    attempts'[r][s][n] = IF r = R /\ s = S /\ n = N
                                           THEN status ELSE attempts[r][s][n]
    BY <1>1, <1>4, <1>5
  <1> QED
    BY <1>6, <1>7 DEF R, S, N

\* beginStepAttempt adds an attempt and keeps the others.
LEMMA Beginning ==
    ASSUME TypeInv, NEW w \in Workers, BeginStepAttempt(w)
    PROVE  /\ worker[w].run \in Runs /\ worker[w].step \in Steps
           /\ Kind[worker[w].step] = "task"
           /\ attempts' \in [Runs -> [Steps -> Seq(AttemptStatus)]]
           /\ worker'[w].attempt = Len(attempts[worker[w].run][worker[w].step]) + 1
           /\ worker'[w].attempt \in DOMAIN attempts'[worker[w].run][worker[w].step]
           /\ attempts'[worker[w].run][worker[w].step][worker'[w].attempt] = "started"
           /\ \A r \in Runs, s \in Steps : \A n \in DOMAIN attempts[r][s] :
                /\ n \in DOMAIN attempts'[r][s]
                /\ attempts'[r][s][n] = attempts[r][s][n]
  <1> DEFINE R == worker[w].run
             S == worker[w].step
             Old == attempts[R][S]
  <1>1. R \in Runs /\ S \in Steps /\ Kind[S] = "task"
    BY DEF TypeInv, WorkersHoldSteps, BeginStepAttempt, AtStep
  <1>2. /\ attempts \in [Runs -> [Steps -> Seq(AttemptStatus)]]
        /\ worker \in [Workers -> WorkerRecord]
    BY DEF TypeInv, TypeOK
  <1>3. Old \in Seq(AttemptStatus)
    BY <1>1, <1>2
  <1>4. "started" \in AttemptStatus
    BY DEF AttemptStatus
  <1>5. /\ Append(Old, "started") \in Seq(AttemptStatus)
        /\ Append(Old, "started")[Len(Old) + 1] = "started"
        /\ \A n \in DOMAIN Old : /\ n \in DOMAIN Append(Old, "started")
                                  /\ Append(Old, "started")[n] = Old[n]
        /\ Len(Old) + 1 \in DOMAIN Append(Old, "started")
    BY <1>3, <1>4, Appending, SMTT(30)
  <1>6. attempts' = [attempts EXCEPT ![R] = [attempts[R] EXCEPT ![S] = Append(Old, "started")]]
    BY DEF BeginStepAttempt
  <1>7. worker'[w].attempt = Len(Old) + 1
    BY <1>2 DEF BeginStepAttempt, WorkerRecord
  <1> HIDE DEF R, S, Old
  <1>8. attempts'[R][S] = Append(Old, "started")
    BY <1>1, <1>2, <1>6
  <1>9. attempts' \in [Runs -> [Steps -> Seq(AttemptStatus)]]
    BY <1>1, <1>2, <1>5, <1>6
  <1>10. ASSUME NEW r \in Runs, NEW s \in Steps, NEW n \in DOMAIN attempts[r][s]
         PROVE  n \in DOMAIN attempts'[r][s] /\ attempts'[r][s][n] = attempts[r][s][n]
    <2>1. CASE r = R /\ s = S
      BY <2>1, <1>5, <1>8 DEF Old
    <2>2. CASE ~(r = R /\ s = S)
      BY <2>2, <1>1, <1>2, <1>6
    <2> QED
      BY <2>1, <2>2
  <1> QED
    BY <1>1, <1>5, <1>7, <1>8, <1>9, <1>10 DEF R, S, Old

\* The end of a tick touches one worker.
LEMMA Ticking ==
    ASSUME TypeInv, NEW w \in Workers, Tick(w)
    PROVE  /\ worker' \in [Workers -> WorkerRecord]
           /\ \A v \in Workers : worker'[v] = IF v = w THEN Idle ELSE worker[v]
  <1>1. Idle \in WorkerRecord
    BY DEF Idle, WorkerRecord
  <1> QED
    BY <1>1 DEF Tick, TypeInv, TypeOK

\* Workers that keep their record, or drop it, keep holding steps of runs.
LEMMA HoldingKept ==
    ASSUME TypeInv,
           \A v \in Workers : worker'[v] = Idle \/ worker'[v] = worker[v],
           \A r \in Runs, s \in Steps : DOMAIN attempts[r][s] \subseteq DOMAIN attempts'[r][s]
    PROVE  WorkersHoldSteps'
  <1> SUFFICES ASSUME NEW w \in Workers, worker'[w].pc # "idle"
               PROVE  /\ worker'[w].run \in Runs
                      /\ worker'[w].step \in Steps
                      /\ worker'[w].pc # "claimed" =>
                            /\ Kind[worker'[w].step] = "task"
                            /\ worker'[w].attempt \in
                                  DOMAIN attempts'[worker'[w].run][worker'[w].step]
    BY DEF WorkersHoldSteps
  <1>1. worker'[w] = worker[w]
    BY DEF Idle
  <1> QED
    BY <1>1 DEF TypeInv, WorkersHoldSteps

\* An action that only writes rows, of the right type, and bookkeeping.
LEMMA RowWrites ==
    ASSUME TypeInv, row' \in [Runs -> Row], UNCHANGED <<attempts, worker>>,
           UNCHANGED <<continuedFrom, claims, faults>>,
           visits' \in [Runs -> [Steps -> Nat]], retries' \in [Runs -> Nat]
    PROVE  TypeInv'
  <1>1. TypeOK'
    BY DEF TypeInv, TypeOK
  <1>2. WorkersHoldSteps'
    BY HoldingKept
  <1> QED
    BY <1>1, <1>2 DEF TypeInv

\* A worker ends its tick; rows, attempts and bookkeeping keep their types.
LEMMA TickWrites ==
    ASSUME TypeInv, NEW w \in Workers, Tick(w), row' \in [Runs -> Row],
           attempts' \in [Runs -> [Steps -> Seq(AttemptStatus)]],
           \A r \in Runs, s \in Steps : DOMAIN attempts'[r][s] = DOMAIN attempts[r][s],
           continuedFrom' \in [Runs -> Runs \cup {NoRun}],
           visits' \in [Runs -> [Steps -> Nat]],
           UNCHANGED <<claims, retries>>, faults' \in Nat
    PROVE  TypeInv'
  <1>1. /\ worker' \in [Workers -> WorkerRecord]
        /\ \A v \in Workers : worker'[v] = Idle \/ worker'[v] = worker[v]
    BY Ticking
  <1>2. TypeOK'
    BY <1>1 DEF TypeInv, TypeOK
  <1>3. WorkersHoldSteps'
    BY <1>1, HoldingKept
  <1> QED
    BY <1>2, <1>3 DEF TypeInv

LEMMA Arriving ==
    ASSUME TypeInv, NEW r \in Runs, NEW s \in Steps, Arrive(r, s)
    PROVE  visits' \in [Runs -> [Steps -> Nat]]
  BY DEF Arrive, TypeInv, TypeOK

LEMMA TypeStep == TypeInv /\ [Next]_vars => TypeInv'
  <1> SUFFICES ASSUME TypeInv, [Next]_vars
               PROVE  TypeInv'
    OBVIOUS
  <1> USE DefinitionAssumption
  <1>t. TypeOK /\ WorkersHoldSteps
    BY DEF TypeInv
  <1>r. \A r \in Runs : row[r] \in Row
    BY <1>t DEF TypeOK
  <1>w. \A w \in Workers : worker[w] \in WorkerRecord
    BY <1>t DEF TypeOK
  <1>s. ASSUME NEW w \in Workers, worker[w].pc \in {"executing", "failing"},
               SettleAttempt(w, "completed") \/ SettleAttempt(w, "failed")
        PROVE  /\ attempts' \in [Runs -> [Steps -> Seq(AttemptStatus)]]
               /\ \A q \in Runs, s \in Steps : DOMAIN attempts'[q][s] = DOMAIN attempts[q][s]
    <2>1. "completed" \in AttemptStatus /\ "failed" \in AttemptStatus
      BY DEF AttemptStatus
    <2> QED
      BY <1>s, <2>1, Settling
  \* A commit of worker w: the row changes, w ends its tick or goes on failing.
  <1>c. ASSUME NEW w \in Workers, NEW r \in Runs, Commits(w, r, worker[w].step),
               worker[w].pc # "idle"
        PROVE  /\ worker[w].run = r /\ worker[w].step \in Steps /\ row[r] \in Row
               /\ Transitions[worker[w].step] \subseteq Steps
    BY <1>c, <1>t DEF Commits, TypeOK, WorkersHoldSteps
  <1>1. ASSUME NEW r \in Runs, StartRun(r)
        PROVE  TypeInv'
    <2>1. InsertedRow(StartAt) \in Row
      BY <1>r, RowTypes
    <2>2. visits' \in [Runs -> [Steps -> Nat]]
      BY <1>1, Arriving DEF StartRun
    <2> QED
      BY <1>1, <1>t, <2>1, <2>2, RowWrites DEF StartRun, TypeOK
  <1>2. ASSUME NEW w \in Workers, NEW r \in Runs, Claim(w, r)
        PROVE  TypeInv'
    <2>1. row[r] \in Row /\ row[r].step \in Steps
      BY <1>2, <1>t DEF Claim, Claimable, TypeOK, Row
    <2>2. Claimed(row[r], IdOf[w]) \in Row
      BY <2>1, RowTypes
    <2> DEFINE rec == [pc |-> "claimed", run |-> r, step |-> row[r].step, attempt |-> 0,
                       cancelMode |-> ClaimedCancelMode(row[r]), epoch |-> claims[r] + 1,
                       cancelPending |-> row[r].cancel = "graceful"]
    <2>3. rec \in WorkerRecord
      BY <2>1, <1>t DEF WorkerRecord, ClaimedCancelMode, TypeOK
    <2>4. worker' = [worker EXCEPT ![w] = rec]
      BY <1>2 DEF Claim
    <2>5. TypeOK'
      BY <1>2, <1>t, <2>2, <2>3, <2>4 DEF Claim, TypeOK
    <2>6. WorkersHoldSteps'
      <3>1. \A v \in Workers : worker'[v] = IF v = w THEN rec ELSE worker[v]
        BY <2>4, <1>t DEF TypeOK
      <3>2. rec.pc = "claimed" /\ rec.run \in Runs /\ rec.step \in Steps
        BY <2>1
      <3>3. attempts' = attempts
        BY <1>2 DEF Claim
      <3> HIDE DEF rec
      <3> QED
        BY <3>1, <3>2, <3>3, <1>t DEF WorkersHoldSteps
    <2> QED
      BY <2>5, <2>6 DEF TypeInv
  <1>3. ASSUME NEW w \in Workers, NEW r \in Runs, CompleteRun(w, r)
        PROVE  TypeInv'
    <2>2. CompletedRow(row[r]) \in Row
      BY <1>r, RowTypes
    <2> QED
      BY <1>3, <1>t, <2>2, TickWrites DEF CompleteRun, history, TypeOK
  <1>4. ASSUME NEW w \in Workers, NEW r \in Runs, ScheduleSleep(w, r)
        PROVE  TypeInv'
    <2>1. PICK next \in Transitions[worker[w].step] :
             /\ row' = [row EXCEPT ![r] = SleepingRow(@, next)]
             /\ Arrive(r, next)
      BY <1>4 DEF ScheduleSleep
    <2>2. row[r] \in Row /\ next \in Steps
      BY <1>c, <1>4, <2>1 DEF ScheduleSleep, AtStep
    <2>3. SleepingRow(row[r], next) \in Row
      BY <2>2, RowTypes
    <2>4. visits' \in [Runs -> [Steps -> Nat]]
      BY <2>1, <2>2, Arriving
    <2> QED
      BY <1>4, <1>t, <2>1, <2>3, <2>4, TickWrites DEF ScheduleSleep, TypeOK
  <1>5. ASSUME NEW w \in Workers, BeginStepAttempt(w)
        PROVE  TypeInv'
    <2> DEFINE rec == [worker[w] EXCEPT !.pc = "executing",
                          !.attempt = Len(attempts[worker[w].run][worker[w].step]) + 1]
    <2>1. worker' = [worker EXCEPT ![w] = rec]
      BY <1>5 DEF BeginStepAttempt
    <2>2. attempts[worker[w].run][worker[w].step] \in Seq(AttemptStatus)
      BY <1>5, <1>t, Beginning, SMTT(30) DEF TypeOK
    <2>3. Len(attempts[worker[w].run][worker[w].step]) + 1 \in Nat
      <3>1. ASSUME NEW q \in Seq(AttemptStatus) PROVE Len(q) + 1 \in Nat
        <4>1. Len(q) \in Nat
          BY LenProperties
        <4> QED
          BY <4>1
      <3> QED
        BY <2>2, <3>1
    <2>4. rec \in WorkerRecord
      BY <2>3, <1>w, ZenonT(40) DEF WorkerRecord
    <2>5. TypeOK'
      <3>1. worker' \in [Workers -> WorkerRecord]
        BY <2>1, <2>4, <1>t DEF TypeOK
      <3>2. attempts' \in [Runs -> [Steps -> Seq(AttemptStatus)]]
        BY <1>5, Beginning
      <3> QED
        BY <1>5, <1>t, <3>1, <3>2 DEF BeginStepAttempt, history, TypeOK
    <2>6. ASSUME NEW v \in Workers, worker'[v].pc # "idle"
          PROVE  /\ worker'[v].run \in Runs /\ worker'[v].step \in Steps
                 /\ worker'[v].pc # "claimed" =>
                       /\ Kind[worker'[v].step] = "task"
                       /\ worker'[v].attempt \in DOMAIN attempts'[worker'[v].run][worker'[v].step]
      <3>1. CASE v = w
        <4>1. worker'[w].run = worker[w].run /\ worker'[w].step = worker[w].step
          BY <2>1, <1>t DEF TypeOK, WorkerRecord
        <4> QED
          BY <3>1, <4>1, <1>5, Beginning
      <3>2. CASE v # w
        <4>1. worker'[v] = worker[v]
          BY <3>2, <2>1, <1>t DEF TypeOK
        <4> QED
          BY <4>1, <2>6, <1>5, <1>t, Beginning DEF WorkersHoldSteps
      <3> QED
        BY <3>1, <3>2
    <2>7. WorkersHoldSteps'
      BY <2>6 DEF WorkersHoldSteps
    <2> QED
      BY <2>5, <2>7 DEF TypeInv
  <1>6. ASSUME NEW w \in Workers, NEW r \in Runs, Advance(w, r)
        PROVE  /\ row' \in [Runs -> Row] /\ visits' \in [Runs -> [Steps -> Nat]]
               /\ attempts' \in [Runs -> [Steps -> Seq(AttemptStatus)]]
               /\ \A q \in Runs, s \in Steps : DOMAIN attempts'[q][s] = DOMAIN attempts[q][s]
    <2>1. PICK next \in Transitions[worker[w].step] :
             /\ row' = [row EXCEPT ![r] = AdvancedRow(@, next)]
             /\ Arrive(r, next)
      BY <1>6 DEF Advance
    <2>2. row[r] \in Row /\ next \in Steps
      BY <1>c, <1>6, <2>1 DEF Advance, Executing
    <2>3. AdvancedRow(row[r], next) \in Row
      BY <2>2, RowTypes
    <2>4. visits' \in [Runs -> [Steps -> Nat]]
      BY <2>1, <2>2, Arriving
    <2> QED
      BY <1>6, <1>t, <1>s, <2>1, <2>3, <2>4 DEF Advance, Executing, TypeOK
  <1>7. ASSUME NEW w \in Workers, NEW r \in Runs, AdvanceTaskStep(w, r)
        PROVE  TypeInv'
    BY <1>7, <1>6, <1>t, TickWrites DEF AdvanceTaskStep, Advance, TypeOK
  <1>8. ASSUME NEW w \in Workers, NEW r \in Runs, AdvanceReplyLost(w, r)
        PROVE  TypeInv'
    <2>1. /\ worker' = [worker EXCEPT ![w] = [worker[w] EXCEPT !.pc = "failing"]]
          /\ Advance(w, r) /\ worker[w].pc = "executing"
      BY <1>8 DEF AdvanceReplyLost, Advance, Executing
    <2>2. [worker[w] EXCEPT !.pc = "failing"] \in WorkerRecord
      BY <1>w DEF WorkerRecord
    <2>3. TypeOK'
      <3>1. worker' \in [Workers -> WorkerRecord]
        BY <2>1, <2>2, <1>t DEF TypeOK
      <3>2. /\ row' \in [Runs -> Row] /\ visits' \in [Runs -> [Steps -> Nat]]
            /\ attempts' \in [Runs -> [Steps -> Seq(AttemptStatus)]]
        BY <2>1, <1>6
      <3>3. faults' \in Nat
        BY <1>8, <1>t DEF AdvanceReplyLost, TypeOK
      <3> QED
        BY <2>1, <1>t, <3>1, <3>2, <3>3 DEF Advance, TypeOK
    <2>4. ASSUME NEW v \in Workers
          PROVE  /\ worker'[v].run = worker[v].run /\ worker'[v].step = worker[v].step
                 /\ worker'[v].attempt = worker[v].attempt
                 /\ worker'[v].pc = IF v = w THEN "failing" ELSE worker[v].pc
      BY <2>1, <1>t DEF TypeOK, WorkerRecord
    <2>5. WorkersHoldSteps'
      <3>1. \A q \in Runs, s \in Steps : DOMAIN attempts'[q][s] = DOMAIN attempts[q][s]
        BY <2>1, <1>6
      <3>2. \A v \in Workers : worker'[v].pc # "idle" => worker[v].pc # "idle"
        BY <2>1, <2>4
      <3>3. \A v \in Workers : worker'[v].pc \notin {"idle", "claimed"}
                                => worker[v].pc \notin {"idle", "claimed"}
        BY <2>1, <2>4
      <3> QED
        BY <1>t, <2>4, <3>1, <3>2, <3>3 DEF WorkersHoldSteps
    <2> QED
      BY <2>3, <2>5 DEF TypeInv
  <1>9. ASSUME NEW w \in Workers, NEW r \in Runs, NEW q \in Runs, ContinueAsNew(w, r, q)
        PROVE  TypeInv'
    <2>1. CompletedRow(row[r]) \in Row /\ InsertedRow(StartAt) \in Row
      BY <1>r, RowTypes
    <2>2. row' \in [Runs -> Row] /\ continuedFrom' \in [Runs -> Runs \cup {NoRun}]
      BY <1>9, <1>t, <2>1 DEF ContinueAsNew, TypeOK
    <2>3. visits' \in [Runs -> [Steps -> Nat]]
      BY <1>9, Arriving DEF ContinueAsNew
    <2> QED
      BY <1>9, <1>t, <1>s, <2>2, <2>3, TickWrites DEF ContinueAsNew, Executing, TypeOK
  <1>10. ASSUME NEW w \in Workers, NEW r \in Runs, ScheduleRetry(w, r)
         PROVE  TypeInv'
    <2>1. RetryingRow(row[r]) \in Row
      BY <1>r, RowTypes
    <2>2. row' \in [Runs -> Row]
      BY <1>10, <1>t, <2>1 DEF ScheduleRetry, TypeOK
    <2> QED
      BY <1>10, <1>t, <1>s, <2>2, TickWrites
      DEF ScheduleRetry, Failing, history, TypeOK
  <1>11. ASSUME NEW w \in Workers, NEW r \in Runs, FailRun(w, r)
         PROVE  TypeInv'
    <2>1. FailedRow(row[r]) \in Row
      BY <1>r, RowTypes
    <2>2. row' \in [Runs -> Row]
      BY <1>11, <1>t, <2>1 DEF FailRun, TypeOK
    <2> QED
      BY <1>11, <1>t, <1>s, <2>2, TickWrites DEF FailRun, Failing, history, TypeOK
  <1>12. ASSUME NEW w \in Workers, ExhaustRunBudget(w)
         PROVE  TypeInv'
    <2>1. worker[w].run \in Runs /\ worker[w].pc = "executing"
      BY <1>12, <1>t DEF ExhaustRunBudget, WorkersHoldSteps
    <2>2. ExhaustedRow(row[worker[w].run]) \in Row
      BY <2>1, <1>r, RowTypes
    <2>3. row' \in [Runs -> Row]
      BY <1>12, <1>t, <2>2 DEF ExhaustRunBudget, TypeOK
    <2>4. SettleAttempt(w, "failed") \/ attempts' = attempts
      BY <1>12 DEF ExhaustRunBudget
    <2>5. /\ attempts' \in [Runs -> [Steps -> Seq(AttemptStatus)]]
          /\ \A q \in Runs, s \in Steps : DOMAIN attempts'[q][s] = DOMAIN attempts[q][s]
      BY <2>1, <2>4, <1>t, <1>s DEF TypeOK
    <2> QED
      BY <1>12, <1>t, <2>3, <2>5, TickWrites DEF ExhaustRunBudget, history, TypeOK
  <1>13. ASSUME NEW w \in Workers, LoseLease(w)
         PROVE  TypeInv'
    BY <1>13, <1>t, TickWrites DEF LoseLease, history, TypeOK
  <1>14. ASSUME NEW w \in Workers, Crash(w)
         PROVE  TypeInv'
    <2>1. faults' \in Nat
      BY <1>14, <1>t DEF Crash, TypeOK
    <2> QED
      BY <1>14, <1>t, <2>1, TickWrites DEF Crash, history, TypeOK
  <1>15. ASSUME NEW r \in Runs, NEW mode \in {"graceful", "hard"}, RequestCancelRun(r, mode)
         PROVE  TypeInv'
    <2>1. CanceledRow(row[r]) \in Row /\ GracefullyCanceledRow(row[r]) \in Row
      BY <1>r, RowTypes
    <2>2. row' \in [Runs -> Row]
      BY <1>15, <1>t, <2>1 DEF RequestCancelRun, TypeOK
    <2> QED
      BY <1>15, <1>t, <2>2, RowWrites DEF RequestCancelRun, history, TypeOK
  <1>16. ASSUME NEW r \in Runs, RetryRun(r)
         PROVE  TypeInv'
    <2>1. RetriedRow(row[r]) \in Row
      BY <1>r, RowTypes
    <2>2. row' \in [Runs -> Row] /\ retries' \in [Runs -> Nat]
      BY <1>16, <1>t, <2>1 DEF RetryRun, TypeOK
    <2> QED
      BY <1>16, <1>t, <2>2, RowWrites DEF RetryRun, history, TypeOK
  <1>17. ASSUME RecoverExpiredLeases
         PROVE  TypeInv'
    <2>1. \A r \in Runs : Recovered(row[r]) \in Row
      BY <1>r, RowTypes
    <2>2. row' \in [Runs -> Row]
      BY <1>17, <1>t, <2>1 DEF RecoverExpiredLeases, TypeOK
    <2> QED
      BY <1>17, <1>t, <2>2, RowWrites DEF RecoverExpiredLeases, history, TypeOK
  <1>18. ASSUME NEW r \in Runs, BecomeDue(r) \/ LeaseExpires(r)
         PROVE  TypeInv'
    <2>1. [row[r] EXCEPT !.due = TRUE] \in Row /\ [row[r] EXCEPT !.lease = "expired"] \in Row
      BY <1>r, RowTypes
    <2>2. row' \in [Runs -> Row]
      BY <1>18, <1>t, <2>1 DEF BecomeDue, LeaseExpires, TypeOK
    <2> QED
      BY <1>18, <1>t, <2>2, RowWrites DEF BecomeDue, LeaseExpires, history, TypeOK
  <1>19. CASE UNCHANGED vars
    BY <1>19, <1>t DEF vars, TypeInv, TypeOK, WorkersHoldSteps
  <1> QED
    BY <1>1, <1>2, <1>3, <1>4, <1>5, <1>7, <1>8, <1>9, <1>10, <1>11, <1>12, <1>13, <1>14,
       <1>15, <1>16, <1>17, <1>18, <1>19
    DEF Next, WorkerStep

\* The variables keep their types, and every busy worker holds an existing step.
THEOREM TypeCorrect == Spec => []TypeOK
  <1>1. TypeInv => TypeOK
    BY DEF TypeInv
  <1> QED
    BY TypeInit, TypeStep, <1>1, PTL DEF Spec

-----------------------------------------------------------------------------
(* The statements seen from one row.  Every step does one of these to it.    *)

Guarded(r) == \E w \in Workers, s \in Steps :
                /\ HoldsLease(row[r], s, IdOf[w])
                /\ \/ row'[r] = CompletedRow(row[r])
                   \/ \E t \in Steps : row'[r] \in {AdvancedRow(row[r], t), SleepingRow(row[r], t)}
                   \/ row'[r] \in {RetryingRow(row[r]), FailedRow(row[r])}

RowMove(r) ==
    \/ row'[r] = row[r]
    \/ row[r].status = "absent" /\ row'[r] = InsertedRow(StartAt)
    \/ \E w \in Workers : /\ Claim(w, r)
                          /\ Claimable(row[r])
                          /\ row'[r] = Claimed(row[r], IdOf[w])
    \/ Guarded(r)
    \/ Exhaustible(row[r]) /\ row'[r] = ExhaustedRow(row[r])
    \/ Cancelable(row[r]) /\ row'[r] \in {CanceledRow(row[r]), GracefullyCanceledRow(row[r])}
    \/ RetryRun(r) /\ Retriable(row[r]) /\ row'[r] = RetriedRow(row[r])
    \/ Recoverable(row[r]) /\ row'[r] = Recovered(row[r])
    \/ row[r].status = "queued" /\ row'[r] = [row[r] EXCEPT !.due = TRUE]
    \/ row[r].lease = "live" /\ row'[r] = [row[r] EXCEPT !.lease = "expired"]

LEMMA RowMoves == TypeInv /\ [Next]_vars => \A r \in Runs : RowMove(r)
  <1> SUFFICES ASSUME TypeInv, [Next]_vars, NEW r \in Runs
               PROVE  RowMove(r)
    OBVIOUS
  <1> USE DefinitionAssumption
  <1>t. TypeOK /\ WorkersHoldSteps
    BY DEF TypeInv
  <1>d. DOMAIN row = Runs
    BY <1>t DEF TypeOK
  <1>c. ASSUME NEW w \in Workers, NEW q \in Runs, Commits(w, q, worker[w].step),
               worker[w].pc # "idle"
        PROVE  /\ worker[w].step \in Steps
               /\ Transitions[worker[w].step] \subseteq Steps
               /\ HoldsLease(row[q], worker[w].step, IdOf[w])
    BY <1>c, <1>t DEF Commits, WorkersHoldSteps
  <1>1. ASSUME NEW q \in Runs, StartRun(q)
        PROVE  RowMove(r)
    BY <1>1, <1>d DEF StartRun, RowMove
  <1>2. ASSUME NEW w \in Workers, NEW q \in Runs, Claim(w, q)
        PROVE  RowMove(r)
    BY <1>2, <1>d DEF Claim, RowMove
  <1>3. ASSUME NEW w \in Workers, NEW q \in Runs,
               CompleteRun(w, q) \/ ScheduleRetry(w, q) \/ FailRun(w, q)
        PROVE  RowMove(r)
    <2>1. worker[w].step \in Steps /\ HoldsLease(row[q], worker[w].step, IdOf[w])
      BY <1>3, <1>c DEF CompleteRun, AtStep, ScheduleRetry, FailRun, Failing
    <2>2. \/ row' = [row EXCEPT ![q] = CompletedRow(row[q])]
          \/ row' = [row EXCEPT ![q] = RetryingRow(row[q])]
          \/ row' = [row EXCEPT ![q] = FailedRow(row[q])]
      BY <1>3 DEF CompleteRun, ScheduleRetry, FailRun
    <2> QED
      BY <1>d, <2>1, <2>2 DEF RowMove, Guarded
  <1>4. ASSUME NEW w \in Workers, NEW q \in Runs, ScheduleSleep(w, q) \/ Advance(w, q)
        PROVE  RowMove(r)
    <2>1. /\ worker[w].step \in Steps /\ HoldsLease(row[q], worker[w].step, IdOf[w])
          /\ Transitions[worker[w].step] \subseteq Steps
      BY <1>4, <1>c DEF ScheduleSleep, AtStep, Advance, Executing
    <2>2. PICK t \in Transitions[worker[w].step] :
             \/ row' = [row EXCEPT ![q] = SleepingRow(row[q], t)]
             \/ row' = [row EXCEPT ![q] = AdvancedRow(row[q], t)]
      BY <1>4 DEF ScheduleSleep, Advance
    <2> QED
      BY <1>d, <2>1, <2>2 DEF RowMove, Guarded
  <1>5. ASSUME NEW w \in Workers, NEW q \in Runs, NEW p \in Runs, ContinueAsNew(w, q, p)
        PROVE  RowMove(r)
    <2>1. worker[w].step \in Steps /\ HoldsLease(row[q], worker[w].step, IdOf[w])
      BY <1>5, <1>c DEF ContinueAsNew, Executing
    <2>2. /\ row' = [row EXCEPT ![q] = CompletedRow(row[q]), ![p] = InsertedRow(StartAt)]
          /\ row[p].status = "absent"
      BY <1>5 DEF ContinueAsNew
    <2> QED
      BY <1>d, <2>1, <2>2 DEF RowMove, Guarded
  <1>6. ASSUME NEW w \in Workers, ExhaustRunBudget(w)
        PROVE  RowMove(r)
    BY <1>6, <1>d DEF ExhaustRunBudget, RowMove
  <1>7. ASSUME NEW q \in Runs, NEW mode \in {"graceful", "hard"}, RequestCancelRun(q, mode)
        PROVE  RowMove(r)
    BY <1>7, <1>d DEF RequestCancelRun, RowMove
  <1>8. ASSUME NEW q \in Runs, RetryRun(q) \/ BecomeDue(q) \/ LeaseExpires(q)
        PROVE  RowMove(r)
    BY <1>8, <1>d DEF RetryRun, BecomeDue, LeaseExpires, RowMove
  <1>9. ASSUME RecoverExpiredLeases
        PROVE  RowMove(r)
    BY <1>9, <1>d DEF RecoverExpiredLeases, RowMove
  <1>10. CASE row' = row
    BY <1>10 DEF RowMove
  <1> QED
    BY <1>1, <1>2, <1>3, <1>4, <1>5, <1>6, <1>7, <1>8, <1>9, <1>10
    DEF Next, WorkerStep, AdvanceTaskStep, AdvanceReplyLost, BeginStepAttempt, LoseLease,
        Crash, vars

-----------------------------------------------------------------------------
(* The lease invariant, and what it buys: commits need not test the status.  *)

LEMMA LeaseStep ==
    TypeInv /\ LeasedRunsAreRunning /\ [Next]_vars => LeasedRunsAreRunning'
  <1> SUFFICES ASSUME TypeInv, LeasedRunsAreRunning, [Next]_vars, NEW r \in Runs
               PROVE  /\ row'[r].status = "running" <=> row'[r].owner # NoWorker
                      /\ row'[r].status = "running" <=> row'[r].lease # "none"
                      /\ row'[r].status = "running" => row'[r].step # NoStep
    BY DEF LeasedRunsAreRunning
  <1>1. /\ row[r].status = "running" <=> row[r].owner # NoWorker
        /\ row[r].status = "running" <=> row[r].lease # "none"
        /\ row[r].status = "running" => row[r].step # NoStep
        /\ row[r] \in Row
    BY DEF LeasedRunsAreRunning, TypeInv, TypeOK
  <1>2. \A w \in Workers : IdOf[w] # NoWorker
    BY DefinitionAssumption, NullsAreNoValues
  <1>3. RowMove(r)
    BY RowMoves
  <1>4. CASE row'[r] = row[r]
    BY <1>1, <1>4
  <1>5. CASE \/ row'[r] = InsertedRow(StartAt)
             \/ row'[r] \in {ExhaustedRow(row[r]), CanceledRow(row[r]), RetriedRow(row[r]),
                            Recovered(row[r])}
    BY <1>1, <1>5 DEF InsertedRow, AbsentRow, ExhaustedRow, CanceledRow, RetriedRow,
                      Recovered, Release, Row
  <1>6. ASSUME NEW w \in Workers, Claimable(row[r]), row'[r] = Claimed(row[r], IdOf[w])
        PROVE  /\ row'[r].status = "running" /\ row'[r].owner # NoWorker
               /\ row'[r].lease # "none" /\ row'[r].step # NoStep
    BY <1>1, <1>2, <1>6 DEF Claimable, Claimed, Row
  <1>7. CASE Guarded(r)
    BY <1>1, <1>7 DEF Guarded, CompletedRow, AdvancedRow, SleepingRow, RetryingRow, FailedRow,
                      Release, Row
  <1>8. CASE row'[r] = GracefullyCanceledRow(row[r])
    BY <1>1, <1>8 DEF GracefullyCanceledRow, Row
  <1>9. CASE row'[r] = [row[r] EXCEPT !.due = TRUE]
    BY <1>1, <1>9 DEF Row
  <1>10. CASE row[r].lease = "live" /\ row'[r] = [row[r] EXCEPT !.lease = "expired"]
    BY <1>1, <1>10 DEF Row
  <1> QED
    BY <1>3, <1>4, <1>5, <1>6, <1>7, <1>8, <1>9, <1>10 DEF RowMove

\* A run has an owner exactly while it is running: the reason why no commit
\* tests the status of the run.
THEOREM LeaseDiscipline == Spec => []LeasedRunsAreRunning
  <1>1. Init => LeasedRunsAreRunning
    BY DEF Init, LeasedRunsAreRunning, AbsentRow
  <1> QED
    BY TypeInit, TypeStep, <1>1, LeaseStep, PTL DEF Spec

LEMMA FinalStep ==
    ASSUME TypeInv, LeasedRunsAreRunning, [Next]_vars,
           NEW r \in Runs, row[r].status \in Final
    PROVE  row'[r] = row[r]
  <1>1. RowMove(r)
    BY RowMoves
  <1>2. row[r].status \notin {"absent", "queued", "running", "waiting", "failed"}
    BY DEF Final
  <1>3. row[r].lease = "none"
    BY <1>2 DEF LeasedRunsAreRunning
  <1>4. ~Guarded(r)
    BY <1>3 DEF Guarded, HoldsLease
  <1> QED
    BY <1>1, <1>2, <1>3, <1>4 DEF RowMove, Claimable, Exhaustible, Cancelable, Retriable, Recoverable

\* No step takes a run out of a final status, nor changes anything of its row:
\* the commit of a step in flight does not land on a terminated run.
THEOREM FinalRowsNeverChange == Spec => FinalRowsStay
  <1>1. TypeInv /\ LeasedRunsAreRunning /\ [Next]_vars
          => [\A r \in Runs : row[r].status \in Final => row'[r] = row[r]]_vars
    BY FinalStep
  <1> QED
    BY TypeInit, TypeStep, LeaseDiscipline, <1>1, PTL DEF Spec, FinalRowsStay

-----------------------------------------------------------------------------
(* Who can commit.  With distinct worker ids, the owner of a run names the   *)
(* process that claimed it last; a process that is still at work on an        *)
(* earlier claim of the run is not its owner.                               *)

OwnerIsLatest ==
    \A w \in Workers :
       worker[w].pc # "idle" /\ row[worker[w].run].owner = IdOf[w]
         => worker[w].epoch = claims[worker[w].run]

\* Only a claim gives a run an owner, counts as a claim, or gives a worker a run.
LEMMA WithoutClaim ==
    ASSUME TypeInv, [Next]_vars, \A w \in Workers, r \in Runs : ~Claim(w, r)
    PROVE  /\ claims' = claims
           /\ \A r \in Runs : row'[r].owner \in {row[r].owner, NoWorker}
           /\ \A v \in Workers : \/ worker'[v] = Idle
                                 \/ /\ worker'[v].run = worker[v].run
                                    /\ worker'[v].step = worker[v].step
                                    /\ worker'[v].epoch = worker[v].epoch
                                    /\ worker[v].pc = "idle" => worker'[v] = worker[v]
  <1>1. claims' = claims
    BY ZenonT(40) DEF Next, vars, WorkerStep, history, StartRun, CompleteRun, ScheduleSleep,
           BeginStepAttempt, Advance, AdvanceTaskStep, AdvanceReplyLost, ContinueAsNew,
           ScheduleRetry, FailRun, ExhaustRunBudget, LoseLease, RequestCancelRun, RetryRun,
           RecoverExpiredLeases, BecomeDue, LeaseExpires, Crash
  <1>2. ASSUME NEW r \in Runs
        PROVE  row'[r].owner \in {row[r].owner, NoWorker}
    <2>1. RowMove(r) /\ row[r] \in Row
      BY RowMoves, SMTT(30) DEF TypeInv, TypeOK
    <2>2. CASE Guarded(r)
      BY <2>1, <2>2 DEF Guarded, CompletedRow, AdvancedRow, SleepingRow, RetryingRow, FailedRow,
                        Release, Row
    <2>3. CASE row'[r] = InsertedRow(StartAt)
      BY <2>3 DEF InsertedRow, AbsentRow
    <2>4. CASE row'[r] \in {ExhaustedRow(row[r]), CanceledRow(row[r]), RetriedRow(row[r]),
                           Recovered(row[r])}
      BY <2>1, <2>4 DEF ExhaustedRow, CanceledRow, RetriedRow, Recovered, Release, Row
    <2>5. CASE row'[r] \in {row[r], GracefullyCanceledRow(row[r]), [row[r] EXCEPT !.due = TRUE],
                           [row[r] EXCEPT !.lease = "expired"]}
      BY <2>1, <2>5 DEF GracefullyCanceledRow, Row
    <2> QED
      BY <2>1, <2>2, <2>3, <2>4, <2>5 DEF RowMove
  <1>3. ASSUME NEW v \in Workers
        PROVE  \/ worker'[v] = Idle
               \/ /\ worker'[v].run = worker[v].run
                  /\ worker'[v].step = worker[v].step
                  /\ worker'[v].epoch = worker[v].epoch
                  /\ worker[v].pc = "idle" => worker'[v] = worker[v]
    <2>1. worker \in [Workers -> WorkerRecord]
      BY DEF TypeInv, TypeOK
    <2>2. ASSUME NEW w \in Workers, Tick(w)
          PROVE  worker'[v] \in {Idle, worker[v]}
      BY <2>2, Ticking
    <2>3. ASSUME NEW w \in Workers, BeginStepAttempt(w)
          PROVE  /\ worker'[v].run = worker[v].run /\ worker'[v].step = worker[v].step
                 /\ worker'[v].epoch = worker[v].epoch
                 /\ worker[v].pc = "idle" => worker'[v] = worker[v]
      BY <2>1, <2>3 DEF BeginStepAttempt, AtStep, WorkerRecord
    <2>4. ASSUME NEW w \in Workers, NEW r \in Runs, AdvanceReplyLost(w, r)
          PROVE  /\ worker'[v].run = worker[v].run /\ worker'[v].step = worker[v].step
                 /\ worker'[v].epoch = worker[v].epoch
                 /\ worker[v].pc = "idle" => worker'[v] = worker[v]
      BY <2>1, <2>4 DEF AdvanceReplyLost, Advance, Executing, WorkerRecord
    <2>5. ASSUME NEW w \in Workers, WorkerStep(w), ~BeginStepAttempt(w)
          PROVE  Tick(w)
      BY <2>5 DEF WorkerStep, CompleteRun, ScheduleSleep, AdvanceTaskStep, ContinueAsNew,
                  ScheduleRetry, FailRun, ExhaustRunBudget, LoseLease
    <2>6. ASSUME NEW r \in Runs,
                 \/ StartRun(r) \/ RetryRun(r) \/ BecomeDue(r) \/ LeaseExpires(r)
                 \/ \E mode \in {"graceful", "hard"} : RequestCancelRun(r, mode)
          PROVE  worker' = worker
      BY <2>6 DEF StartRun, RetryRun, BecomeDue, LeaseExpires, RequestCancelRun
    <2>7. RecoverExpiredLeases \/ UNCHANGED vars => worker' = worker
      BY DEF RecoverExpiredLeases, vars
    <2> QED
      BY <2>2, <2>3, <2>4, <2>5, <2>6, <2>7 DEF Next, Crash
  <1> QED
    BY <1>1, <1>2, <1>3

\* The effect of a claim on the owner, the claim count and the worker.
LEMMA OneClaim ==
    ASSUME TypeInv, NEW w \in Workers, NEW r \in Runs, Claim(w, r)
    PROVE  /\ row'[r].owner = IdOf[w]
           /\ worker'[w].run = r /\ worker'[w].pc = "claimed"
           /\ worker'[w].epoch = claims'[r]
           /\ \A q \in Runs : q # r => row'[q] = row[q] /\ claims'[q] = claims[q]
           /\ \A v \in Workers : v # w => worker'[v] = worker[v]
  BY DEF Claim, Claimed, TypeInv, TypeOK, Row

LEMMA LatestStep ==
    ASSUME DistinctWorkerIds, TypeInv, OwnerIsLatest, [Next]_vars
    PROVE  OwnerIsLatest'
  <1> SUFFICES ASSUME NEW v \in Workers, worker'[v].pc # "idle",
                      row'[worker'[v].run].owner = IdOf[v]
               PROVE  worker'[v].epoch = claims'[worker'[v].run]
    BY DEF OwnerIsLatest
  <1>1. ASSUME NEW w \in Workers, NEW r \in Runs, Claim(w, r)
        PROVE  worker'[v].epoch = claims'[worker'[v].run]
    <2>1. CASE v = w
      BY <1>1, <2>1, OneClaim
    <2>2. CASE v # w
      <3>1. worker'[v] = worker[v] /\ worker[v].run \in Runs
        BY <1>1, <2>2, OneClaim DEF TypeInv, WorkersHoldSteps
      <3>2. worker[v].run # r
        BY <1>1, <2>2, <3>1, OneClaim DEF DistinctWorkerIds
      <3> QED
        BY <1>1, <3>1, <3>2, OneClaim DEF OwnerIsLatest
    <2> QED
      BY <2>1, <2>2
  <1>2. CASE \A w \in Workers, r \in Runs : ~Claim(w, r)
    <2>1. /\ worker'[v].run = worker[v].run /\ worker'[v].epoch = worker[v].epoch
          /\ worker[v].pc # "idle" /\ claims' = claims
      BY <1>2, WithoutClaim DEF Idle
    <2>2. worker[v].run \in Runs
      BY <2>1 DEF TypeInv, WorkersHoldSteps
    <2>3. row[worker[v].run].owner = IdOf[v]
      BY <1>2, <2>1, <2>2, WithoutClaim, DefinitionAssumption, NullsAreNoValues
    <2> QED
      BY <2>1, <2>3 DEF OwnerIsLatest
  <1> QED
    BY <1>1, <1>2

\* With distinct worker ids, a worker whose commit the store accepts works under
\* the latest claim of the run: a worker that lost its lease commits nothing,
\* however the claims, expiries, recoveries and cancellations interleave.
THEOREM LatestClaimCommits ==
    ASSUME DistinctWorkerIds
    PROVE  Spec => []OnlyLatestClaimCommits
  <1>1. Init => OwnerIsLatest
    BY DEF Init, OwnerIsLatest, Idle
  <1>2. TypeInv /\ OwnerIsLatest /\ [Next]_vars => OwnerIsLatest'
    BY LatestStep
  <1>3. OwnerIsLatest => OnlyLatestClaimCommits
    BY DEF OwnerIsLatest, OnlyLatestClaimCommits, HoldsLease
  <1> QED
    BY TypeInit, TypeStep, <1>1, <1>2, <1>3, PTL DEF Spec

-----------------------------------------------------------------------------
(* The chain of successors.  A run that has one has completed and stays so;  *)
(* the run that gets one is leased, hence running, and has none.             *)

LEMMA ChainStep ==
    ASSUME TypeInv, LeasedRunsAreRunning, ChainOfSuccessors, [Next]_vars
    PROVE  ChainOfSuccessors'
  <1> USE DefinitionAssumption
  <1>t. /\ continuedFrom \in [Runs -> Runs \cup {NoRun}]
        /\ row \in [Runs -> Row] /\ worker \in [Workers -> WorkerRecord]
    BY DEF TypeInv, TypeOK
  <1>1. ASSUME NEW r \in Runs, row[r].status = "completed"
        PROVE  row'[r].status = "completed"
    BY <1>1, FinalStep DEF Final
  <1>2. ASSUME NEW w \in Workers, NEW r \in Runs, NEW q \in Runs, ContinueAsNew(w, r, q)
        PROVE  ChainOfSuccessors'
    <2>1. row[r].status = "running"
      <3>1. row[r].lease = "live"
        BY <1>2 DEF ContinueAsNew, Executing, Commits, HoldsLease
      <3> QED
        BY <3>1 DEF LeasedRunsAreRunning
    <2>2. r # q
      BY <1>2, <2>1 DEF ContinueAsNew
    <2>3. \A p \in Runs : continuedFrom[p] # r
      BY <2>1 DEF ChainOfSuccessors
    <2>4. row'[r].status = "completed"
      <3>1. row'[r] = CompletedRow(row[r])
        BY <1>2, <1>t, <2>2 DEF ContinueAsNew
      <3> QED
        BY <3>1, <1>t DEF CompletedRow, Release, Row
    <2>5. \A p \in Runs : continuedFrom'[p] = IF p = q THEN r ELSE continuedFrom[p]
      BY <1>2, <1>t DEF ContinueAsNew
    <2> QED
      BY <1>1, <1>t, <2>3, <2>4, <2>5 DEF ChainOfSuccessors
  <1>3. CASE continuedFrom' = continuedFrom
    BY <1>1, <1>3, <1>t DEF ChainOfSuccessors
  <1> QED
    BY <1>2, <1>3, ZenonT(40)
    DEF Next, vars, WorkerStep, StartRun, Claim, CompleteRun, ScheduleSleep,
        BeginStepAttempt, Advance, AdvanceTaskStep, AdvanceReplyLost,
        ScheduleRetry, FailRun, ExhaustRunBudget, LoseLease, RequestCancelRun, RetryRun,
        RecoverExpiredLeases, BecomeDue, LeaseExpires, Crash

\* Continue-as-new neither forks a chain nor succeeds a run that goes on, also when
\* processes share a worker id.
THEOREM ChainsDoNotFork == Spec => []ChainOfSuccessors
  <1>1. Init => ChainOfSuccessors
    BY DEF Init, ChainOfSuccessors
  <1>2. TypeInv /\ LeasedRunsAreRunning /\ ChainOfSuccessors /\ [Next]_vars
          => ChainOfSuccessors'
    BY ChainStep
  <1> QED
    BY TypeInit, TypeStep, LeaseDiscipline, <1>1, <1>2, PTL DEF Spec

-----------------------------------------------------------------------------
(* What a step does to the attempts, and to the workers at the same time.    *)

\* Worker w settles its attempt: by a commit, or as its run has exceeded the budget.
Settles(w, status) ==
    /\ worker[w].pc \in {"executing", "failing"}
    /\ SettleAttempt(w, status)
    /\ \/ HoldsLease(row[worker[w].run], worker[w].step, IdOf[w])
       \/ worker[w].pc = "executing"
    /\ \/ worker' = [worker EXCEPT ![w] = Idle]
       \/ /\ worker' = [worker EXCEPT ![w].pc = "failing"]
          /\ row'[worker[w].run].owner = NoWorker

\* No attempt changes, and no worker begins to execute or to fail.
LeavesAttempts ==
    /\ attempts' = attempts
    /\ \A v \in Workers : worker'[v] = worker[v] \/ worker'[v].pc \in {"idle", "claimed"}

LEMMA AttemptMoves ==
    ASSUME TypeInv, [Next]_vars
    PROVE  \/ LeavesAttempts
           \/ \E w \in Workers : BeginStepAttempt(w)
           \/ \E w \in Workers, status \in {"completed", "failed"} : Settles(w, status)
  <1> USE DefinitionAssumption
  <1>t. /\ worker \in [Workers -> WorkerRecord] /\ row \in [Runs -> Row]
    BY DEF TypeInv, TypeOK
  <1>1. ASSUME NEW w \in Workers, Tick(w), attempts' = attempts
        PROVE  LeavesAttempts
    BY <1>1, <1>t DEF Tick, LeavesAttempts, Idle
  <1>2. ASSUME NEW w \in Workers, NEW r \in Runs, Claim(w, r)
        PROVE  LeavesAttempts
    BY <1>2, <1>t DEF Claim, LeavesAttempts
  <1>3. ASSUME worker' = worker, attempts' = attempts
        PROVE  LeavesAttempts
    BY <1>3 DEF LeavesAttempts
  <1>4. ASSUME NEW w \in Workers, NEW r \in Runs, AdvanceTaskStep(w, r)
        PROVE  Settles(w, "completed")
    BY <1>4 DEF AdvanceTaskStep, Advance, Executing, Commits, Settles, Tick
  <1>5. ASSUME NEW w \in Workers, NEW r \in Runs, AdvanceReplyLost(w, r)
        PROVE  Settles(w, "completed")
    <2>1. /\ worker[w].run = r /\ worker[w].pc = "executing"
          /\ HoldsLease(row[r], worker[w].step, IdOf[w])
          /\ SettleAttempt(w, "completed")
          /\ worker' = [worker EXCEPT ![w].pc = "failing"]
      BY <1>5 DEF AdvanceReplyLost, Advance, Executing, Commits
    <2>2. PICK next \in Transitions[worker[w].step] : row' = [row EXCEPT ![r] = AdvancedRow(@, next)]
      BY <1>5 DEF AdvanceReplyLost, Advance
    <2>3. row'[r].owner = NoWorker
      BY <2>2, <1>t DEF AdvancedRow, Release, Row
    <2> QED
      BY <2>1, <2>3 DEF Settles
  <1>6. ASSUME NEW w \in Workers, NEW r \in Runs, NEW q \in Runs, ContinueAsNew(w, r, q)
        PROVE  Settles(w, "completed")
    BY <1>6 DEF ContinueAsNew, Executing, Commits, Settles, Tick
  <1>7. ASSUME NEW w \in Workers, NEW r \in Runs, ScheduleRetry(w, r) \/ FailRun(w, r)
        PROVE  Settles(w, "failed")
    BY <1>7 DEF ScheduleRetry, FailRun, Failing, Commits, Settles, Tick
  <1>8. ASSUME NEW w \in Workers, ExhaustRunBudget(w)
        PROVE  LeavesAttempts \/ Settles(w, "failed")
    BY <1>8, <1>1 DEF ExhaustRunBudget, Settles, Tick
  <1>9. CASE UNCHANGED vars
    BY <1>9, <1>3 DEF vars
  <1> QED
    BY <1>1, <1>2, <1>3, <1>4, <1>5, <1>6, <1>7, <1>8, <1>9
    DEF Next, WorkerStep, StartRun, CompleteRun, ScheduleSleep, LoseLease, RequestCancelRun,
        RetryRun, RecoverExpiredLeases, BecomeDue, LeaseExpires, Crash

-----------------------------------------------------------------------------
(* Attempts settle once.  An attempt belongs to the worker that has begun it; *)
(* it is started as long as the body runs, and a worker that has completed    *)
(* its attempt without hearing of it does not own the run any more.           *)

Working(w) == worker[w].pc \in {"executing", "failing"}

AttemptsAreOwn ==
    \A v, w \in Workers :
       /\ Working(v) /\ Working(w) /\ v # w
       /\ worker[v].run = worker[w].run /\ worker[v].step = worker[w].step
       => worker[v].attempt # worker[w].attempt

ExecutingIsStarted ==
    \A w \in Workers :
       worker[w].pc = "executing" =>
          attempts[worker[w].run][worker[w].step][worker[w].attempt] = "started"

FailingOwnsNothing ==
    \A w \in Workers : worker[w].pc = "failing" => row[worker[w].run].owner # IdOf[w]

AttemptInv == AttemptsAreOwn /\ ExecutingIsStarted

LEMMA AttemptInit == Init => AttemptInv /\ FailingOwnsNothing
  BY DEF Init, Idle, AttemptInv, AttemptsAreOwn, ExecutingIsStarted, FailingOwnsNothing, Working

LEMMA AttemptStep ==
    ASSUME TypeInv, AttemptInv, [Next]_vars
    PROVE  AttemptInv'
  <1>t. /\ worker \in [Workers -> WorkerRecord]
        /\ attempts \in [Runs -> [Steps -> Seq(AttemptStatus)]]
    BY DEF TypeInv, TypeOK
  <1>h. ASSUME NEW w \in Workers, Working(w)
        PROVE  /\ worker[w].run \in Runs /\ worker[w].step \in Steps
               /\ worker[w].attempt \in DOMAIN attempts[worker[w].run][worker[w].step]
    BY <1>h DEF TypeInv, WorkersHoldSteps, Working
  <1>1. CASE LeavesAttempts
    BY <1>1 DEF LeavesAttempts, AttemptInv, AttemptsAreOwn, ExecutingIsStarted, Working
  <1>2. ASSUME NEW w \in Workers, BeginStepAttempt(w)
        PROVE  AttemptInv'
    <2> DEFINE R == worker[w].run
               S == worker[w].step
    <2>1. \A v \in Workers : v # w => worker'[v] = worker[v]
      BY <1>2, <1>t DEF BeginStepAttempt
    <2>2. worker'[w].run = R /\ worker'[w].step = S
      BY <1>2, <1>t DEF BeginStepAttempt, WorkerRecord
    <2>3. /\ R \in Runs /\ S \in Steps
          /\ worker'[w].attempt = Len(attempts[R][S]) + 1
          /\ attempts'[R][S][worker'[w].attempt] = "started"
          /\ \A r \in Runs, s \in Steps : \A n \in DOMAIN attempts[r][s] :
                attempts'[r][s][n] = attempts[r][s][n]
      BY <1>2, Beginning
    <2>4. ASSUME NEW v \in Workers, v # w, Working(v), worker[v].run = R, worker[v].step = S
          PROVE  worker[v].attempt # Len(attempts[R][S]) + 1
      <3>1. worker[v].attempt \in DOMAIN attempts[R][S]
        BY <2>4, <1>h
      <3>2. ASSUME NEW q \in Seq(AttemptStatus), NEW n \in DOMAIN q
            PROVE  n # Len(q) + 1
        <4>1. Len(q) \in Nat /\ DOMAIN q = 1..Len(q)
          BY LenProperties
        <4> QED
          BY <4>1
      <3>3. attempts[R][S] \in Seq(AttemptStatus)
        BY <2>3, <1>t
      <3> QED
        BY <3>1, <3>2, <3>3
    <2>5. AttemptsAreOwn'
      <3> SUFFICES ASSUME NEW u \in Workers, NEW v \in Workers, u # v,
                          Working(u)', Working(v)',
                          worker'[u].run = worker'[v].run, worker'[u].step = worker'[v].step
                   PROVE  worker'[u].attempt # worker'[v].attempt
        BY DEF AttemptsAreOwn
      <3>1. CASE u # w /\ v # w
        BY <3>1, <2>1 DEF AttemptInv, AttemptsAreOwn, Working
      <3>2. CASE u = w
        <4>1. worker'[v] = worker[v] /\ worker[v].run = R /\ worker[v].step = S /\ Working(v)
          BY <3>2, <2>1, <2>2 DEF Working
        <4> QED
          BY <3>2, <4>1, <2>3, <2>4
      <3>3. CASE v = w
        <4>1. worker'[u] = worker[u] /\ worker[u].run = R /\ worker[u].step = S /\ Working(u)
          BY <3>3, <2>1, <2>2 DEF Working
        <4> QED
          BY <3>3, <4>1, <2>3, <2>4
      <3> QED
        BY <3>1, <3>2, <3>3
    <2>6. ExecutingIsStarted'
      <3> SUFFICES ASSUME NEW v \in Workers, worker'[v].pc = "executing"
                   PROVE  attempts'[worker'[v].run][worker'[v].step][worker'[v].attempt] = "started"
        BY DEF ExecutingIsStarted
      <3>1. CASE v = w
        BY <3>1, <2>2, <2>3
      <3>2. CASE v # w
        <4>1. worker'[v] = worker[v] /\ Working(v)
          BY <3>2, <2>1 DEF Working
        <4> QED
          BY <4>1, <1>h, <2>3 DEF AttemptInv, ExecutingIsStarted
      <3> QED
        BY <3>1, <3>2
    <2> QED
      BY <2>5, <2>6 DEF AttemptInv
  <1>3. ASSUME NEW w \in Workers, NEW status \in {"completed", "failed"}, Settles(w, status)
        PROVE  AttemptInv'
    <2>0. status \in AttemptStatus /\ Working(w)
      BY <1>3 DEF AttemptStatus, Settles, Working
    <2>1. \A v \in Workers : v # w => worker'[v] = worker[v]
      BY <1>3, <1>t DEF Settles
    <2>2. /\ worker'[w].pc # "executing"
          /\ Working(w)' => /\ worker'[w].run = worker[w].run
                            /\ worker'[w].step = worker[w].step
                            /\ worker'[w].attempt = worker[w].attempt
      BY <1>3, <1>t DEF Settles, Idle, WorkerRecord, Working
    <2>3. AttemptsAreOwn'
      BY <2>0, <2>1, <2>2 DEF AttemptInv, AttemptsAreOwn, Working
    <2>4. ExecutingIsStarted'
      <3> SUFFICES ASSUME NEW v \in Workers, worker'[v].pc = "executing"
                   PROVE  attempts'[worker'[v].run][worker'[v].step][worker'[v].attempt] = "started"
        BY DEF ExecutingIsStarted
      <3>1. v # w /\ worker'[v] = worker[v] /\ Working(v)
        BY <2>1, <2>2 DEF Working
      <3>2. /\ worker[v].run \in Runs /\ worker[v].step \in Steps
            /\ worker[v].attempt \in DOMAIN attempts[worker[v].run][worker[v].step]
        BY <3>1, <1>h
      <3>3. ~(/\ worker[v].run = worker[w].run /\ worker[v].step = worker[w].step
              /\ worker[v].attempt = worker[w].attempt)
        BY <3>1, <2>0 DEF AttemptInv, AttemptsAreOwn
      <3>4. attempts'[worker[v].run][worker[v].step][worker[v].attempt]
              = attempts[worker[v].run][worker[v].step][worker[v].attempt]
        <4>1. SettleAttempt(w, status) /\ worker[w].pc \in {"executing", "failing"}
          BY <1>3 DEF Settles
        <4> QED
          BY <2>0, <3>2, <3>3, <4>1, Settling
      <3> QED
        BY <3>1, <3>4 DEF AttemptInv, ExecutingIsStarted
    <2> QED
      BY <2>3, <2>4 DEF AttemptInv
  <1> QED
    BY <1>1, <1>2, <1>3, AttemptMoves

LEMMA FailingStep ==
    ASSUME DistinctWorkerIds, TypeInv, FailingOwnsNothing, [Next]_vars
    PROVE  FailingOwnsNothing'
  <1> SUFFICES ASSUME NEW v \in Workers, worker'[v].pc = "failing"
               PROVE  row'[worker'[v].run].owner # IdOf[v]
    BY DEF FailingOwnsNothing
  <1> USE DefinitionAssumption, NullsAreNoValues
  <1>t. worker \in [Workers -> WorkerRecord] /\ row \in [Runs -> Row]
    BY DEF TypeInv, TypeOK
  <1>0. IdOf[v] # NoWorker
    OBVIOUS
  <1>1. ASSUME worker'[v] = worker[v]
        PROVE  row'[worker'[v].run].owner # IdOf[v]
    <2>1. worker[v].pc = "failing" /\ worker[v].run \in Runs
      BY <1>1 DEF TypeInv, WorkersHoldSteps
    <2>2. row[worker[v].run].owner # IdOf[v]
      BY <2>1 DEF FailingOwnsNothing
    <2>3. ASSUME NEW w \in Workers, NEW r \in Runs, Claim(w, r)
          PROVE  row'[worker[v].run].owner # IdOf[v]
      <3>1. w # v
        BY <2>1, <2>3 DEF Claim
      <3>2. IdOf[w] # IdOf[v]
        BY <3>1 DEF DistinctWorkerIds
      <3>3. row'[r].owner = IdOf[w] /\ \A q \in Runs : q # r => row'[q] = row[q]
        BY <2>3, OneClaim
      <3> QED
        BY <2>1, <2>2, <3>2, <3>3
    <2>4. CASE \A w \in Workers, r \in Runs : ~Claim(w, r)
      <3>1. row'[worker[v].run].owner \in {row[worker[v].run].owner, NoWorker}
        BY <2>1, <2>4, WithoutClaim
      <3> QED
        BY <1>0, <1>1, <2>2, <3>1
    <2> QED
      BY <1>1, <2>3, <2>4
  <1>2. CASE LeavesAttempts
    BY <1>1, <1>2 DEF LeavesAttempts
  <1>3. ASSUME NEW w \in Workers, BeginStepAttempt(w)
        PROVE  row'[worker'[v].run].owner # IdOf[v]
    <2>1. v # w
      BY <1>3, <1>t DEF BeginStepAttempt, WorkerRecord
    <2>2. worker'[v] = worker[v]
      BY <1>3, <1>t, <2>1 DEF BeginStepAttempt
    <2> QED
      BY <1>1, <2>2
  <1>4. ASSUME NEW w \in Workers, NEW status \in {"completed", "failed"}, Settles(w, status)
        PROVE  row'[worker'[v].run].owner # IdOf[v]
    <2>1. CASE v # w
      BY <1>1, <1>4, <1>t, <2>1 DEF Settles
    <2>2. CASE v = w
      <3>1. /\ worker'[w].run = worker[w].run
            /\ row'[worker[w].run].owner = NoWorker
        BY <1>4, <1>t, <2>2 DEF Settles, Idle, WorkerRecord
      <3> QED
        BY <1>0, <1>1, <2>2, <3>1
    <2> QED
      BY <2>1, <2>2
  <1> QED
    BY <1>2, <1>3, <1>4, AttemptMoves

\* Only a started attempt is settled.
LEMMA SettlesStarted ==
    ASSUME AttemptInv, FailingOwnsNothing,
           NEW w \in Workers, NEW status \in {"completed", "failed"}, Settles(w, status)
    PROVE  attempts[worker[w].run][worker[w].step][worker[w].attempt] = "started"
  <1>1. worker[w].pc = "executing"
    BY DEF Settles, FailingOwnsNothing, HoldsLease
  <1> QED
    BY <1>1 DEF AttemptInv, ExecutingIsStarted

\* With distinct worker ids, the result of an attempt is final, whatever a worker does
\* that has not heard of its own commit, or that comes back to a step that another one
\* has committed.
THEOREM SettledOnce ==
    ASSUME DistinctWorkerIds
    PROVE  Spec => AttemptsSettleOnce
  <1> DEFINE Kept == \A r \in Runs, s \in Steps : \A n \in DOMAIN attempts[r][s] :
                        /\ n \in DOMAIN attempts'[r][s]
                        /\ attempts[r][s][n] # "started" => attempts'[r][s][n] = attempts[r][s][n]
  <1>1. ASSUME TypeInv, AttemptInv, FailingOwnsNothing, [Next]_vars
        PROVE  Kept
    <2>1. CASE LeavesAttempts
      BY <2>1 DEF LeavesAttempts
    <2>2. ASSUME NEW w \in Workers, BeginStepAttempt(w)
          PROVE  Kept
      BY <1>1, <2>2, Beginning
    <2>3. ASSUME NEW w \in Workers, NEW status \in {"completed", "failed"}, Settles(w, status)
          PROVE  Kept
      <3>1. attempts[worker[w].run][worker[w].step][worker[w].attempt] = "started"
        BY <1>1, <2>3, SettlesStarted
      <3>2. /\ SettleAttempt(w, status) /\ worker[w].pc \in {"executing", "failing"}
            /\ status \in AttemptStatus
        BY <2>3 DEF Settles, AttemptStatus
      <3> QED
        BY <1>1, <3>1, <3>2, Settling
    <2> QED
      BY <1>1, <2>1, <2>2, <2>3, AttemptMoves
  <1>2. TypeInv /\ AttemptInv /\ FailingOwnsNothing /\ [Next]_vars => [Kept]_vars
    BY <1>1
  <1>3. TypeInv /\ AttemptInv /\ [Next]_vars => AttemptInv'
    BY AttemptStep
  <1>4. TypeInv /\ FailingOwnsNothing /\ [Next]_vars => FailingOwnsNothing'
    BY FailingStep
  <1>5. Init => AttemptInv /\ FailingOwnsNothing
    BY AttemptInit
  <1> QED
    BY TypeInit, TypeStep, <1>2, <1>3, <1>4, <1>5, PTL DEF Spec, AttemptsSettleOnce

-----------------------------------------------------------------------------
(* The attempts that have a status, as sets.                                *)

LEMMA AttemptsAreFinite ==
    ASSUME TypeInv, NEW r \in Runs, NEW s \in Steps, NEW x
    PROVE  /\ IsFiniteSet(AttemptsWith(x, r, s))
           /\ AttemptsWith(x, r, s) \subseteq Nat \ {0}
           /\ Cardinality(AttemptsWith(x, r, s)) \in Nat
  <1>1. ASSUME NEW q \in Seq(AttemptStatus)
        PROVE  IsFiniteSet(DOMAIN q) /\ DOMAIN q \subseteq Nat \ {0}
    <2>1. Len(q) \in Nat /\ DOMAIN q = 1..Len(q)
      BY LenProperties
    <2>2. IsFiniteSet(1..Len(q))
      BY <2>1, FS_Interval
    <2> QED
      BY <2>1, <2>2
  <1>2. attempts[r][s] \in Seq(AttemptStatus)
    BY DEF TypeInv, TypeOK
  <1>3. IsFiniteSet(DOMAIN attempts[r][s]) /\ DOMAIN attempts[r][s] \subseteq Nat \ {0}
    BY <1>1, <1>2
  <1>4. AttemptsWith(x, r, s) \subseteq DOMAIN attempts[r][s]
    BY DEF AttemptsWith
  <1> QED
    BY <1>3, <1>4, FS_Subset, FS_CardinalityType

\* An attempt that begins has neither completed nor failed.
LEMMA BegunSets ==
    ASSUME TypeInv, NEW w \in Workers, BeginStepAttempt(w),
           NEW r \in Runs, NEW s \in Steps, NEW x \in {"completed", "failed"}
    PROVE  AttemptsWith(x, r, s)' = AttemptsWith(x, r, s)
  <1> DEFINE R == worker[w].run
             S == worker[w].step
  <1>1. R \in Runs /\ S \in Steps
    BY Beginning
  <1>2. attempts \in [Runs -> [Steps -> Seq(AttemptStatus)]]
    BY DEF TypeInv, TypeOK
  <1>3. attempts' = [attempts EXCEPT ![R] = [attempts[R] EXCEPT ![S] = Append(attempts[R][S], "started")]]
    BY DEF BeginStepAttempt
  <1> HIDE DEF R, S
  <1>4. CASE r = R /\ s = S
    <2>1. attempts'[r][s] = Append(attempts[r][s], "started")
      BY <1>1, <1>2, <1>3, <1>4
    <2>2. ASSUME NEW q \in Seq(AttemptStatus)
          PROVE  {n \in DOMAIN Append(q, "started") : Append(q, "started")[n] = x}
                    = {n \in DOMAIN q : q[n] = x}
      <3>1. /\ Len(Append(q, "started")) = Len(q) + 1 /\ Len(q) \in Nat
            /\ DOMAIN q = 1..Len(q) /\ DOMAIN Append(q, "started") = 1..(Len(q) + 1)
            /\ \A i \in 1..Len(q) : Append(q, "started")[i] = q[i]
            /\ Append(q, "started")[Len(q) + 1] = "started"
        BY AppendProperties, LenProperties DEF AttemptStatus
      <3> QED
        BY <3>1
    <2>3. attempts[r][s] \in Seq(AttemptStatus)
      BY <1>2
    <2> QED
      BY <2>1, <2>2, <2>3 DEF AttemptsWith
  <1>5. CASE ~(r = R /\ s = S)
    <2>1. attempts'[r][s] = attempts[r][s]
      BY <1>1, <1>2, <1>3, <1>5
    <2> QED
      BY <2>1 DEF AttemptsWith
  <1> QED
    BY <1>4, <1>5

\* An attempt that is settled moves from one set to the other.
LEMMA SettledSets ==
    ASSUME TypeInv, NEW w \in Workers, Working(w),
           NEW status \in AttemptStatus, SettleAttempt(w, status),
           NEW r \in Runs, NEW s \in Steps, NEW x
    PROVE  AttemptsWith(x, r, s)' =
              IF r = worker[w].run /\ s = worker[w].step
                THEN IF x = status THEN AttemptsWith(x, r, s) \cup {worker[w].attempt}
                                   ELSE AttemptsWith(x, r, s) \ {worker[w].attempt}
                ELSE AttemptsWith(x, r, s)
  <1>1. /\ DOMAIN attempts'[r][s] = DOMAIN attempts[r][s]
        /\ \A n \in DOMAIN attempts[r][s] :
              attempts'[r][s][n] =
                 IF r = worker[w].run /\ s = worker[w].step /\ n = worker[w].attempt
                   THEN status ELSE attempts[r][s][n]
    BY Settling DEF Working
  <1>2. r = worker[w].run /\ s = worker[w].step => worker[w].attempt \in DOMAIN attempts[r][s]
    BY DEF TypeInv, WorkersHoldSteps, Working
  <1> QED
    BY <1>1, <1>2 DEF AttemptsWith

-----------------------------------------------------------------------------
(* The retry policy.  An attempt whose number is below the limit is one of   *)
(* limit - 1; one beyond it fails only as the run does, and a failed run      *)
(* goes on only when an operator retries it.                                *)

Allowed(s) == IF MaxAttempts[s] = 0 THEN 1 ELSE MaxAttempts[s]
Beyond(r, s) == {n \in AttemptsWith("failed", r, s) : n >= Allowed(s)}
Ended(r) == row[r].status \in Final \cup {"failed"}

BeyondIsPaid ==
    \A r \in Runs, s \in Steps :
       Cardinality(Beyond(r, s)) <= retries[r] + (IF Ended(r) THEN 1 ELSE 0)

LEMMA BeyondIsFinite ==
    ASSUME TypeInv, NEW r \in Runs, NEW s \in Steps
    PROVE  IsFiniteSet(Beyond(r, s)) /\ Cardinality(Beyond(r, s)) \in Nat
  <1>1. Beyond(r, s) \subseteq AttemptsWith("failed", r, s)
    BY DEF Beyond
  <1> QED
    BY <1>1, AttemptsAreFinite, FS_Subset, FS_CardinalityType

\* Failures beyond the limit, before and after a step.
LEMMA BeyondMoves ==
    ASSUME TypeInv, LeasedRunsAreRunning, [Next]_vars, NEW r \in Runs, NEW s \in Steps
    PROVE  \/ Beyond(r, s)' \subseteq Beyond(r, s)
           \/ /\ \E n : Beyond(r, s)' \subseteq Beyond(r, s) \cup {n}
              /\ ~Ended(r) /\ Ended(r)' /\ retries'[r] = retries[r]
  <1> USE DefinitionAssumption
  <1>t. row \in [Runs -> Row] /\ MaxAttempts \in [Steps -> Nat]
    BY DEF TypeInv, TypeOK
  <1>1. ASSUME AttemptsWith("failed", r, s)' \subseteq AttemptsWith("failed", r, s)
        PROVE  Beyond(r, s)' \subseteq Beyond(r, s)
    BY <1>1 DEF Beyond, Allowed
  <1>2. ASSUME attempts' = attempts
        PROVE  Beyond(r, s)' \subseteq Beyond(r, s)
    BY <1>1, <1>2 DEF AttemptsWith
  <1>3. ASSUME NEW w \in Workers, BeginStepAttempt(w)
        PROVE  Beyond(r, s)' \subseteq Beyond(r, s)
    BY <1>1, <1>3, BegunSets
  <1>4. ASSUME NEW w \in Workers, Working(w), SettleAttempt(w, "completed")
        PROVE  Beyond(r, s)' \subseteq Beyond(r, s)
    <2>1. "completed" \in AttemptStatus
      BY DEF AttemptStatus
    <2>2. AttemptsWith("failed", r, s)' \subseteq AttemptsWith("failed", r, s)
      BY <1>4, <2>1, SettledSets
    <2> QED
      BY <1>1, <2>2
  <1>5. ASSUME NEW w \in Workers, Working(w), SettleAttempt(w, "failed")
        PROVE  AttemptsWith("failed", r, s)' =
                  IF r = worker[w].run /\ s = worker[w].step
                    THEN AttemptsWith("failed", r, s) \cup {worker[w].attempt}
                    ELSE AttemptsWith("failed", r, s)
    <2>1. "failed" \in AttemptStatus
      BY DEF AttemptStatus
    <2> QED
      BY <1>5, <2>1, SettledSets
  <1>6. ASSUME NEW w \in Workers, NEW q \in Runs, ScheduleRetry(w, q)
        PROVE  Beyond(r, s)' \subseteq Beyond(r, s)
    <2>1. /\ Working(w) /\ SettleAttempt(w, "failed")
          /\ worker[w].attempt < MaxAttempts[worker[w].step]
      BY <1>6 DEF ScheduleRetry, Failing, Working
    <2>2. s = worker[w].step => ~(worker[w].attempt >= Allowed(s))
      <3>1. worker[w].attempt \in Nat
        BY DEF TypeInv, TypeOK, WorkerRecord
      <3> QED
        BY <2>1, <3>1, <1>t DEF Allowed
    <2> QED
      BY <1>5, <2>1, <2>2 DEF Beyond, Allowed
  <1>7. ASSUME NEW w \in Workers, NEW q \in Runs, FailRun(w, q)
        PROVE  \/ Beyond(r, s)' \subseteq Beyond(r, s)
               \/ /\ \E n : Beyond(r, s)' \subseteq Beyond(r, s) \cup {n}
                  /\ ~Ended(r) /\ Ended(r)' /\ retries'[r] = retries[r]
    <2>1. /\ Working(w) /\ SettleAttempt(w, "failed") /\ worker[w].run = q
          /\ row[q].lease = "live" /\ row' = [row EXCEPT ![q] = FailedRow(@)]
          /\ retries' = retries
      BY <1>7 DEF FailRun, Failing, Working, Commits, HoldsLease
    <2>2. CASE r # q
      BY <1>1, <1>5, <2>1, <2>2
    <2>3. CASE r = q
      <3>1. ~Ended(r)
        BY <2>1, <2>3 DEF LeasedRunsAreRunning, Ended, Final
      <3>2. Ended(r)'
        BY <2>1, <2>3, <1>t DEF Ended, FailedRow, Release, Row
      <3>3. Beyond(r, s)' \subseteq Beyond(r, s) \cup {worker[w].attempt}
        BY <1>5, <2>1 DEF Beyond, Allowed
      <3> QED
        BY <2>1, <3>1, <3>2, <3>3
    <2> QED
      BY <2>2, <2>3
  <1>8. ASSUME NEW w \in Workers, ExhaustRunBudget(w)
        PROVE  \/ Beyond(r, s)' \subseteq Beyond(r, s)
               \/ /\ \E n : Beyond(r, s)' \subseteq Beyond(r, s) \cup {n}
                  /\ ~Ended(r) /\ Ended(r)' /\ retries'[r] = retries[r]
    <2>1. /\ Working(w) /\ Exhaustible(row[worker[w].run])
          /\ SettleAttempt(w, "failed") \/ attempts' = attempts
          /\ row' = [row EXCEPT ![worker[w].run] = ExhaustedRow(@)]
          /\ retries' = retries
      BY <1>8 DEF ExhaustRunBudget, Working
    <2>2. CASE attempts' = attempts
      BY <1>2, <2>2
    <2>3. CASE SettleAttempt(w, "failed") /\ r # worker[w].run
      BY <1>1, <1>5, <2>1, <2>3
    <2>4. CASE SettleAttempt(w, "failed") /\ r = worker[w].run
      <3>1. ~Ended(r)
        BY <2>1, <2>4 DEF Exhaustible, Ended, Final
      <3>2. Ended(r)'
        BY <2>1, <2>4, <1>t DEF Ended, Final, ExhaustedRow, Release, Row
      <3>3. Beyond(r, s)' \subseteq Beyond(r, s) \cup {worker[w].attempt}
        BY <1>5, <2>1, <2>4 DEF Beyond, Allowed
      <3> QED
        BY <2>1, <3>1, <3>2, <3>3
    <2> QED
      BY <2>1, <2>2, <2>3, <2>4
  <1>9. ASSUME NEW w \in Workers, NEW q \in Runs, Advance(w, q) \/ \E p \in Runs : ContinueAsNew(w, q, p)
        PROVE  Beyond(r, s)' \subseteq Beyond(r, s)
    BY <1>4, <1>9 DEF Advance, ContinueAsNew, Executing, Working
  <1> QED
    BY <1>2, <1>3, <1>6, <1>7, <1>8, <1>9
    DEF Next, vars, WorkerStep, StartRun, Claim, CompleteRun, ScheduleSleep, AdvanceTaskStep,
        AdvanceReplyLost, LoseLease, RequestCancelRun, RetryRun, RecoverExpiredLeases,
        BecomeDue, LeaseExpires, Crash

\* A run ends for good, or until an operator retries it.
LEMMA EndingIsKept ==
    ASSUME TypeInv, LeasedRunsAreRunning, [Next]_vars, NEW r \in Runs
    PROVE  \/ retries'[r] = retries[r] /\ (Ended(r) => Ended(r)')
           \/ Ended(r) /\ retries'[r] = retries[r] + 1
  <1> USE DefinitionAssumption
  <1>t. row \in [Runs -> Row] /\ retries \in [Runs -> Nat]
    BY DEF TypeInv, TypeOK
  <1>1. ASSUME NEW q \in Runs, RetryRun(q)
        PROVE  \/ retries'[r] = retries[r] /\ (Ended(r) => Ended(r)')
               \/ Ended(r) /\ retries'[r] = retries[r] + 1
    BY <1>1, <1>t DEF RetryRun, Retriable, Ended
  <1>2. CASE \A q \in Runs : ~RetryRun(q)
    <2>1. retries' = retries
      <3>1. \A w \in Workers, q \in Runs : Claim(w, q) => retries' = retries
        BY DEF Claim
      <3>2. \A w \in Workers, q \in Runs : ScheduleSleep(w, q) \/ Advance(w, q) => retries' = retries
        BY DEF ScheduleSleep, Advance
      <3> QED
        BY <1>2, <3>1, <3>2, ZenonT(40)
        DEF Next, vars, WorkerStep, StartRun, CompleteRun, BeginStepAttempt, AdvanceTaskStep,
            AdvanceReplyLost, ContinueAsNew, ScheduleRetry, FailRun, ExhaustRunBudget, LoseLease,
            RequestCancelRun, RecoverExpiredLeases, BecomeDue, LeaseExpires, Crash
    <2>2. CASE row[r].status \in Final
      <3>1. row'[r] = row[r]
        BY <2>2, FinalStep
      <3> QED
        BY <2>1, <3>1 DEF Ended
    <2>3. ASSUME row[r].status = "failed"
          PROVE  Ended(r)'
      <3>1. row[r].lease = "none" /\ RowMove(r)
        BY <2>3, RowMoves DEF LeasedRunsAreRunning
      <3>2. row'[r] = row[r] \/ row'[r] \in {CanceledRow(row[r]), GracefullyCanceledRow(row[r])}
        BY <1>2, <2>3, <3>1 DEF RowMove, Guarded, HoldsLease, Claimable, Exhaustible, Recoverable
      <3>3. CASE row'[r] = row[r]
        BY <2>3, <3>3 DEF Ended
      <3>4. CASE row'[r] \in {CanceledRow(row[r]), GracefullyCanceledRow(row[r])}
        BY <1>t, <2>3, <3>4 DEF Ended, Final, CanceledRow, GracefullyCanceledRow, Release, Row
      <3> QED
        BY <3>2, <3>3, <3>4
    <2> QED
      BY <2>1, <2>2, <2>3 DEF Ended
  <1> QED
    BY <1>1, <1>2

LEMMA OneMore ==
    ASSUME NEW S, IsFiniteSet(S), NEW n, NEW T \in SUBSET (S \cup {n})
    PROVE  /\ Cardinality(S) \in Nat /\ Cardinality(T) \in Nat
           /\ Cardinality(T) <= Cardinality(S) + 1
  <1>1. Cardinality(S) \in Nat
    BY FS_CardinalityType
  <1>2. /\ IsFiniteSet(S \cup {n})
        /\ Cardinality(S \cup {n}) = IF n \in S THEN Cardinality(S) ELSE Cardinality(S) + 1
    BY FS_AddElement
  <1>3. IsFiniteSet(T) /\ Cardinality(T) <= Cardinality(S \cup {n})
    BY <1>2, FS_Subset
  <1>4. Cardinality(T) \in Nat
    BY <1>3, FS_CardinalityType
  <1> QED
    BY <1>1, <1>2, <1>3, <1>4

LEMMA BeyondInit == Init => BeyondIsPaid
  <1> SUFFICES ASSUME Init, NEW r \in Runs, NEW s \in Steps
               PROVE  Cardinality(Beyond(r, s)) <= retries[r] + (IF Ended(r) THEN 1 ELSE 0)
    BY DEF BeyondIsPaid
  <1>1. Beyond(r, s) = {}
    BY DEF Init, Beyond, AttemptsWith
  <1>2. Cardinality(Beyond(r, s)) = 0
    BY <1>1, FS_EmptySet
  <1> QED
    BY <1>2 DEF Init

LEMMA BeyondStep ==
    ASSUME TypeInv, LeasedRunsAreRunning, BeyondIsPaid, [Next]_vars
    PROVE  BeyondIsPaid'
  <1> SUFFICES ASSUME NEW r \in Runs, NEW s \in Steps
               PROVE  Cardinality(Beyond(r, s)') <= retries'[r] + (IF Ended(r)' THEN 1 ELSE 0)
    BY DEF BeyondIsPaid
  <1>1. /\ Cardinality(Beyond(r, s)) <= retries[r] + (IF Ended(r) THEN 1 ELSE 0)
        /\ retries[r] \in Nat
    BY DEF BeyondIsPaid, TypeInv, TypeOK
  <1>2. IsFiniteSet(Beyond(r, s)) /\ Cardinality(Beyond(r, s)) \in Nat
    BY BeyondIsFinite
  <1>5. CASE Beyond(r, s)' \subseteq Beyond(r, s)
    <2>1. Cardinality(Beyond(r, s)') <= Cardinality(Beyond(r, s)) /\ IsFiniteSet(Beyond(r, s)')
      BY <1>2, <1>5, FS_Subset
    <2>2. Cardinality(Beyond(r, s)') \in Nat
      BY <2>1, FS_CardinalityType
    <2>3. \/ retries'[r] = retries[r] /\ (Ended(r) => Ended(r)')
          \/ Ended(r) /\ retries'[r] = retries[r] + 1
      BY EndingIsKept
    <2> QED
      BY <1>1, <1>2, <2>1, <2>2, <2>3
  <1>6. ASSUME NEW n, Beyond(r, s)' \subseteq Beyond(r, s) \cup {n},
               ~Ended(r), Ended(r)', retries'[r] = retries[r]
        PROVE  Cardinality(Beyond(r, s)') <= retries'[r] + (IF Ended(r)' THEN 1 ELSE 0)
    <2>1. /\ Cardinality(Beyond(r, s)') \in Nat
          /\ Cardinality(Beyond(r, s)') <= Cardinality(Beyond(r, s)) + 1
      BY <1>2, <1>6, OneMore
    <2> QED
      BY <1>1, <1>2, <1>6, <2>1
  <1> QED
    BY <1>5, <1>6, BeyondMoves

\* A task fails as often as its policy allows, and once more for every retry that an
\* operator asks for, whatever attempts crashed and superseded workers leave behind, and
\* also when processes share a worker id.
THEOREM RetriesAreBounded == Spec => []RetryBudget
  <1>1. ASSUME TypeInv, BeyondIsPaid
        PROVE  RetryBudget
    <2> SUFFICES ASSUME NEW r \in Runs, NEW s \in Steps
                 PROVE  Cardinality(AttemptsWith("failed", r, s)) <= Allowed(s) + retries[r]
      BY DEF RetryBudget, Allowed
    <2> DEFINE Low == 1..(Allowed(s) - 1)
               Failed == AttemptsWith("failed", r, s)
    <2>1. Allowed(s) \in Nat \ {0}
      BY DefinitionAssumption DEF Allowed
    <2>2. IsFiniteSet(Low) /\ Cardinality(Low) = Allowed(s) - 1
      <3>1. Allowed(s) - 1 \in Nat
        BY <2>1
      <3> QED
        BY <2>1, <3>1, FS_Interval
    <2>3. IsFiniteSet(Beyond(r, s)) /\ Cardinality(Beyond(r, s)) \in Nat
      BY <1>1, BeyondIsFinite
    <2>4. Failed \subseteq Low \cup Beyond(r, s) /\ Failed \subseteq Nat
      BY <1>1, <2>1, AttemptsAreFinite DEF Beyond
    <2>5. /\ IsFiniteSet(Low \cup Beyond(r, s))
          /\ Cardinality(Low \cup Beyond(r, s)) =
                Cardinality(Low) + Cardinality(Beyond(r, s)) - Cardinality(Low \cap Beyond(r, s))
          /\ Cardinality(Low \cap Beyond(r, s)) \in Nat
      BY <2>2, <2>3, FS_Union, FS_Intersection, FS_CardinalityType
    <2>6. /\ Cardinality(Failed) <= Cardinality(Low \cup Beyond(r, s))
          /\ Cardinality(Failed) \in Nat
      BY <1>1, <2>4, <2>5, FS_Subset, AttemptsAreFinite
    <2>7. /\ Cardinality(Beyond(r, s)) <= retries[r] + (IF Ended(r) THEN 1 ELSE 0)
          /\ retries[r] \in Nat
      BY <1>1 DEF BeyondIsPaid, TypeInv, TypeOK
    <2> HIDE DEF Low, Failed
    <2>8. Cardinality(Failed) <= Allowed(s) + retries[r]
      BY <2>1, <2>2, <2>3, <2>5, <2>6, <2>7
    <2> QED
      BY <2>8 DEF Failed
  <1>2. TypeInv /\ BeyondIsPaid => RetryBudget
    BY <1>1
  <1>3. TypeInv /\ LeasedRunsAreRunning /\ BeyondIsPaid /\ [Next]_vars => BeyondIsPaid'
    BY BeyondStep
  <1>4. Init => BeyondIsPaid
    BY BeyondInit
  <1> QED
    BY TypeInit, TypeStep, LeaseDiscipline, <1>2, <1>3, <1>4, PTL DEF Spec

-----------------------------------------------------------------------------
(* Visits and completions.  The equation of OneCompletionPerVisit is          *)
(* inductive with one addition, that a run is at no step before it starts:   *)
(* a commit completes an attempt that was started, and leaves the step.      *)

Completed(r, s) == AttemptsWith("completed", r, s)

Balanced(r, s) ==
    IF row[r].status = "exhausted_budget"
      THEN Cardinality(Completed(r, s)) \in {visits[r][s], visits[r][s] - 1}
      ELSE visits[r][s] = Cardinality(Completed(r, s)) + (IF row[r].step = s THEN 1 ELSE 0)

AbsentAtNoStep == \A r \in Runs : row[r].status = "absent" => row[r].step = NoStep

LEMMA AbsentStep ==
    ASSUME TypeInv, AbsentAtNoStep, [Next]_vars
    PROVE  AbsentAtNoStep'
  <1> SUFFICES ASSUME NEW r \in Runs, row'[r].status = "absent"
               PROVE  row'[r].step = NoStep
    BY DEF AbsentAtNoStep
  <1>1. RowMove(r) /\ row[r] \in Row
    BY RowMoves DEF TypeInv, TypeOK
  <1>2. row'[r].step = row[r].step /\ row[r].status = "absent"
    <2>1. CASE row'[r] = row[r]
      BY <2>1
    <2>2. ~Guarded(r)
      BY <1>1 DEF Guarded, CompletedRow, AdvancedRow, SleepingRow, RetryingRow, FailedRow,
                  Release, Row
    <2>3. row'[r] # InsertedRow(StartAt)
      BY DEF InsertedRow, AbsentRow
    <2>4. row'[r] \notin {ExhaustedRow(row[r]), CanceledRow(row[r]), RetriedRow(row[r]),
                         Recovered(row[r])}
      BY <1>1 DEF ExhaustedRow, CanceledRow, RetriedRow, Recovered, Release, Row
    <2>5. \A w \in Workers : row'[r] # Claimed(row[r], IdOf[w])
      BY <1>1 DEF Claimed, Row
    <2>6. ASSUME row'[r] \in {GracefullyCanceledRow(row[r]), [row[r] EXCEPT !.due = TRUE],
                             [row[r] EXCEPT !.lease = "expired"]}
          PROVE  row'[r].step = row[r].step /\ row[r].status = "absent"
      BY <1>1, <2>6 DEF GracefullyCanceledRow, Row
    <2> QED
      BY <1>1, <2>1, <2>2, <2>3, <2>4, <2>5, <2>6 DEF RowMove
  <1> QED
    BY <1>2 DEF AbsentAtNoStep

\* A step that does not touch the four values of the equation.
LEMMA Steady ==
    ASSUME NEW r \in Runs, NEW s \in Steps, Balanced(r, s),
           visits'[r][s] = visits[r][s], Completed(r, s)' = Completed(r, s),
           row'[r].step = row[r].step,
           row'[r].status = "exhausted_budget" <=> row[r].status = "exhausted_budget"
    PROVE  Balanced(r, s)'
  BY DEF Balanced

\* The attempt of a commit has not completed before.
LEMMA CommitsStarted ==
    ASSUME AttemptInv, FailingOwnsNothing,
           NEW w \in Workers, NEW r \in Runs, Working(w), Commits(w, r, worker[w].step)
    PROVE  /\ worker[w].run = r /\ row[r].step = worker[w].step
           /\ attempts[r][worker[w].step][worker[w].attempt] = "started"
  BY DEF Working, Commits, HoldsLease, FailingOwnsNothing, AttemptInv, ExecutingIsStarted

\* The row of a run that is claimed, revived, canceled or recovered stays at its step.
LEMMA StaysAtStep ==
    ASSUME TypeInv, LeasedRunsAreRunning, [Next]_vars, NEW r \in Runs,
           \/ row'[r] = row[r]
           \/ \E w \in Workers : row'[r] = Claimed(row[r], IdOf[w])
           \/ row'[r] \in {CanceledRow(row[r]), GracefullyCanceledRow(row[r]), RetriedRow(row[r]),
                          Recovered(row[r]), RetryingRow(row[r]), FailedRow(row[r]),
                          [row[r] EXCEPT !.due = TRUE], [row[r] EXCEPT !.lease = "expired"]}
    PROVE  /\ row'[r].step = row[r].step
           /\ row'[r].status = "exhausted_budget" <=> row[r].status = "exhausted_budget"
  <1>1. row[r] \in Row
    BY DEF TypeInv, TypeOK
  <1>2. CASE row[r].status = "exhausted_budget"
    BY <1>2, FinalStep DEF Final
  <1>3. CASE row[r].status # "exhausted_budget"
    BY <1>1, <1>3 DEF Claimed, CanceledRow, GracefullyCanceledRow, RetriedRow, Recovered,
                      RetryingRow, FailedRow, Release, Row
  <1> QED
    BY <1>2, <1>3

LEMMA OneMoreExactly ==
    ASSUME NEW S, IsFiniteSet(S), NEW n, n \notin S
    PROVE  Cardinality(S) \in Nat /\ Cardinality(S \cup {n}) = Cardinality(S) + 1
  BY FS_CardinalityType, FS_AddElement

\* A commit with the status "completed" adds one completion, to its own step.
LEMMA CommitCompletes ==
    ASSUME TypeInv, AttemptInv, FailingOwnsNothing,
           NEW w \in Workers, NEW q \in Runs, Working(w), Commits(w, q, worker[w].step),
           SettleAttempt(w, "completed"), NEW r \in Runs, NEW s \in Steps
    PROVE  /\ r = q /\ s = row[q].step =>
                 Cardinality(Completed(r, s)') = Cardinality(Completed(r, s)) + 1
           /\ ~(r = q /\ s = row[q].step) => Completed(r, s)' = Completed(r, s)
  <1>1. worker[w].run = q /\ row[q].step = worker[w].step
    BY CommitsStarted
  <1>2. "completed" \in AttemptStatus
    BY DEF AttemptStatus
  <1>3. Completed(r, s)' = IF r = q /\ s = row[q].step
                             THEN Completed(r, s) \cup {worker[w].attempt} ELSE Completed(r, s)
    BY <1>1, <1>2, SettledSets DEF Completed
  <1>4. r = q /\ s = row[q].step => worker[w].attempt \notin Completed(r, s)
    BY <1>1, CommitsStarted DEF Completed, AttemptsWith
  <1>5. IsFiniteSet(Completed(r, s))
    BY AttemptsAreFinite DEF Completed
  <1> QED
    BY <1>3, <1>4, <1>5, OneMoreExactly

\* A started attempt that fails leaves the completions alone.
LEMMA FailureCompletesNothing ==
    ASSUME TypeInv, NEW w \in Workers, Working(w), SettleAttempt(w, "failed"),
           attempts[worker[w].run][worker[w].step][worker[w].attempt] = "started",
           NEW r \in Runs, NEW s \in Steps
    PROVE  Completed(r, s)' = Completed(r, s)
  <1>1. "failed" \in AttemptStatus
    BY DEF AttemptStatus
  <1>2. \/ Completed(r, s)' = Completed(r, s)
        \/ /\ r = worker[w].run /\ s = worker[w].step
           /\ Completed(r, s)' = Completed(r, s) \ {worker[w].attempt}
    BY <1>1, SettledSets DEF Completed
  <1>3. r = worker[w].run /\ s = worker[w].step => worker[w].attempt \notin Completed(r, s)
    BY DEF Completed, AttemptsWith
  <1> QED
    BY <1>2, <1>3

\* What an arrival counts.
LEMMA Arrivals ==
    ASSUME TypeInv, NEW q \in Runs, NEW next \in Steps, Arrive(q, next),
           NEW r \in Runs, NEW s \in Steps
    PROVE  /\ visits[r][s] \in Nat
           /\ visits'[r][s] = visits[r][s] + (IF r = q /\ s = next THEN 1 ELSE 0)
  BY DEF Arrive, TypeInv, TypeOK

VisitInv == AbsentAtNoStep /\ \A r \in Runs, s \in Steps : Kind[s] = "task" => Balanced(r, s)

LEMMA BalanceStep ==
    ASSUME TypeInv, LeasedRunsAreRunning, AttemptInv, FailingOwnsNothing, VisitInv, [Next]_vars,
           NEW r \in Runs, NEW s \in Steps, Kind[s] = "task"
    PROVE  Balanced(r, s)'
  <1> USE DefinitionAssumption
  <1> DEFINE Unmoved == /\ row'[r].step = row[r].step
                        /\ row'[r].status = "exhausted_budget" <=> row[r].status = "exhausted_budget"
  <1>b. Balanced(r, s)
    BY DEF VisitInv
  <1>t. /\ row \in [Runs -> Row] /\ visits[r][s] \in Nat
        /\ Cardinality(Completed(r, s)) \in Nat
    BY AttemptsAreFinite DEF TypeInv, TypeOK, Completed
  <1>n. NoStep # s
    BY NullsAreNoValues
  <1>l. ASSUME NEW w \in Workers, NEW q \in Runs, Commits(w, q, worker[w].step)
        PROVE  row[q].status = "running" /\ worker[w].run = q /\ row[q].step = worker[w].step
    BY <1>l DEF Commits, HoldsLease, LeasedRunsAreRunning
  <1>c. attempts' = attempts => Completed(r, s)' = Completed(r, s)
    BY DEF Completed, AttemptsWith
  <1>1. ASSUME NEW q \in Runs, StartRun(q)
        PROVE  Balanced(r, s)'
    <2>1. visits'[r][s] = visits[r][s] + (IF r = q /\ s = StartAt THEN 1 ELSE 0)
      BY <1>1, Arrivals DEF StartRun
    <2>2. attempts' = attempts /\ row' = [row EXCEPT ![q] = InsertedRow(StartAt)]
      BY <1>1 DEF StartRun
    <2>3. CASE r = q
      <3>1. row[r].step = NoStep /\ row[r].status # "exhausted_budget"
        BY <1>1, <2>3 DEF StartRun, VisitInv, AbsentAtNoStep
      <3>2. row'[r].step = StartAt /\ row'[r].status = "queued"
        BY <1>t, <2>2, <2>3 DEF InsertedRow, AbsentRow
      <3> QED
        BY <1>b, <1>c, <1>n, <1>t, <2>1, <2>2, <2>3, <3>1, <3>2 DEF Balanced
    <2>4. CASE r # q
      BY <1>b, <1>c, <1>t, <2>1, <2>2, <2>4, Steady
    <2> QED
      BY <2>3, <2>4
  <1>2. ASSUME visits' = visits, attempts' = attempts, Unmoved
        PROVE  Balanced(r, s)'
    BY <1>b, <1>c, <1>2, Steady
  <1>3. ASSUME NEW w \in Workers, NEW q \in Runs, CompleteRun(w, q)
        PROVE  Balanced(r, s)'
    <2>1. /\ row[q].status = "running" /\ row[q].step # s
          /\ row' = [row EXCEPT ![q] = CompletedRow(@)]
          /\ visits' = visits /\ attempts' = attempts
      BY <1>3, <1>l DEF CompleteRun, AtStep, history
    <2>2. CASE r # q
      BY <1>2, <1>t, <2>1, <2>2
    <2>3. CASE r = q
      <3>1. row'[r].step = NoStep /\ row'[r].status = "completed"
        BY <1>t, <2>1, <2>3 DEF CompletedRow, Release, Row
      <3> QED
        BY <1>b, <1>c, <1>n, <1>t, <2>1, <2>3, <3>1 DEF Balanced
    <2> QED
      BY <2>2, <2>3
  <1>4. ASSUME NEW w \in Workers, NEW q \in Runs, ScheduleSleep(w, q)
        PROVE  Balanced(r, s)'
    <2>1. /\ row[q].status = "running" /\ row[q].step # s /\ row[q].step \in Steps
          /\ attempts' = attempts
      <3>1. row[q].status = "running" /\ row[q].step = worker[w].step
        BY <1>4, <1>l DEF ScheduleSleep
      <3>2. row[q].step \in Steps
        BY <3>1, <1>t DEF LeasedRunsAreRunning, Row
      <3> QED
        BY <1>4, <3>1, <3>2 DEF ScheduleSleep, AtStep
    <2>2. PICK next \in Transitions[row[q].step] :
             row' = [row EXCEPT ![q] = SleepingRow(@, next)] /\ Arrive(q, next)
      BY <1>4, <1>l, ZenonT(40) DEF ScheduleSleep
    <2>3. next \in Steps
      BY <2>1, <2>2
    <2>4. visits'[r][s] = visits[r][s] + (IF r = q /\ s = next THEN 1 ELSE 0)
      BY <2>2, <2>3, Arrivals
    <2>5. CASE r # q
      BY <1>b, <1>c, <1>t, <2>1, <2>2, <2>4, <2>5, Steady
    <2>6. CASE r = q
      <3>1. row'[r].step = next /\ row'[r].status = "queued"
        BY <1>t, <2>2, <2>6 DEF SleepingRow, Release, Row
      <3> QED
        BY <1>b, <1>c, <1>t, <2>1, <2>4, <2>6, <3>1 DEF Balanced
    <2> QED
      BY <2>5, <2>6
  <1>5. ASSUME NEW w \in Workers, NEW q \in Runs, Advance(w, q)
        PROVE  Balanced(r, s)'
    <2>1. /\ row[q].status = "running" /\ row[q].step \in Steps
          /\ Working(w) /\ Commits(w, q, worker[w].step) /\ SettleAttempt(w, "completed")
      BY <1>5, <1>l, NullsAreNoValues DEF Advance, Executing, LeasedRunsAreRunning, Working,
                                          TypeInv, TypeOK, Row
    <2>2. PICK next \in Transitions[row[q].step] :
             row' = [row EXCEPT ![q] = AdvancedRow(@, next)] /\ Arrive(q, next)
      BY <1>5, <1>l, <2>1 DEF Advance
    <2>3. next \in Steps
      BY <2>1, <2>2
    <2>4. visits'[r][s] = visits[r][s] + (IF r = q /\ s = next THEN 1 ELSE 0)
      BY <2>2, <2>3, Arrivals
    <2>5. /\ r = q /\ s = row[q].step =>
                Cardinality(Completed(r, s)') = Cardinality(Completed(r, s)) + 1
          /\ ~(r = q /\ s = row[q].step) => Completed(r, s)' = Completed(r, s)
      BY <2>1, CommitCompletes
    <2>6. CASE r # q
      BY <1>b, <1>t, <2>2, <2>4, <2>5, <2>6, Steady
    <2>7. CASE r = q
      <3>1. row'[r].step = next /\ row'[r].status = "queued"
        BY <1>t, <2>2, <2>7 DEF AdvancedRow, Release, Row
      <3> QED
        BY <1>b, <1>t, <2>1, <2>4, <2>5, <2>7, <3>1 DEF Balanced
    <2> QED
      BY <2>6, <2>7
  <1>6. ASSUME NEW w \in Workers, NEW q \in Runs, NEW p \in Runs, ContinueAsNew(w, q, p)
        PROVE  Balanced(r, s)'
    <2>1. /\ row[q].status = "running" /\ row[p].status = "absent" /\ Working(w)
          /\ Commits(w, q, worker[w].step) /\ SettleAttempt(w, "completed")
          /\ row' = [row EXCEPT ![q] = CompletedRow(@), ![p] = InsertedRow(StartAt)]
          /\ Arrive(p, StartAt)
      BY <1>6, <1>l DEF ContinueAsNew, Executing, Working
    <2>2. visits'[r][s] = visits[r][s] + (IF r = p /\ s = StartAt THEN 1 ELSE 0)
      BY <2>1, Arrivals
    <2>3. /\ r = q /\ s = row[q].step =>
                Cardinality(Completed(r, s)') = Cardinality(Completed(r, s)) + 1
          /\ ~(r = q /\ s = row[q].step) => Completed(r, s)' = Completed(r, s)
      BY <2>1, CommitCompletes
    <2>4. CASE r = q
      <3>1. r # p /\ row'[r].step = NoStep /\ row'[r].status = "completed"
        BY <1>t, <2>1, <2>4, ZenonT(40) DEF CompletedRow, Release, Row
      <3> QED
        BY <1>b, <1>n, <1>t, <2>1, <2>2, <2>3, <2>4, <3>1 DEF Balanced
    <2>5. CASE r = p /\ r # q
      <3>1. row[r].step = NoStep /\ row[r].status # "exhausted_budget"
        BY <2>1, <2>5 DEF VisitInv, AbsentAtNoStep
      <3>2. row'[r].step = StartAt /\ row'[r].status = "queued"
        BY <1>t, <2>1, <2>5 DEF InsertedRow, AbsentRow
      <3> QED
        BY <1>b, <1>n, <1>t, <2>2, <2>3, <2>5, <3>1, <3>2 DEF Balanced
    <2>6. CASE r # p /\ r # q
      BY <1>b, <1>t, <2>1, <2>2, <2>3, <2>6, Steady
    <2> QED
      BY <2>4, <2>5, <2>6
  <1>7. ASSUME NEW w \in Workers, NEW q \in Runs, ScheduleRetry(w, q) \/ FailRun(w, q)
        PROVE  Balanced(r, s)'
    <2>1. /\ Working(w) /\ Commits(w, q, worker[w].step) /\ SettleAttempt(w, "failed")
          /\ visits' = visits
          /\ row' = [row EXCEPT ![q] = RetryingRow(@)] \/ row' = [row EXCEPT ![q] = FailedRow(@)]
      BY <1>7 DEF ScheduleRetry, FailRun, Failing, Working, history
    <2>2. Completed(r, s)' = Completed(r, s)
      BY <2>1, CommitsStarted, FailureCompletesNothing
    <2>3. Unmoved
      <3>1. row'[r] = row[r] \/ row'[r] \in {RetryingRow(row[r]), FailedRow(row[r])}
        BY <1>t, <2>1
      <3> QED
        BY <3>1, StaysAtStep
    <2> QED
      BY <1>b, <2>1, <2>2, <2>3, Steady
  <1>8. ASSUME NEW w \in Workers, ExhaustRunBudget(w)
        PROVE  Balanced(r, s)'
    <2>1. /\ Working(w) /\ Exhaustible(row[worker[w].run]) /\ visits' = visits
          /\ row' = [row EXCEPT ![worker[w].run] = ExhaustedRow(@)]
          /\ \/ /\ attempts[worker[w].run][worker[w].step][worker[w].attempt] = "started"
                /\ SettleAttempt(w, "failed")
             \/ attempts' = attempts
      BY <1>8 DEF ExhaustRunBudget, Working, history
    <2>2. Completed(r, s)' = Completed(r, s)
      BY <1>c, <2>1, FailureCompletesNothing
    <2>3. CASE r # worker[w].run
      BY <1>b, <1>t, <2>1, <2>2, <2>3, Steady
    <2>4. CASE r = worker[w].run
      <3>1. row'[r].status = "exhausted_budget" /\ row[r].status # "exhausted_budget"
        BY <1>t, <2>1, <2>4 DEF ExhaustedRow, Exhaustible, Release, Row
      <3> QED
        BY <1>b, <1>t, <2>1, <2>2, <3>1 DEF Balanced
    <2> QED
      BY <2>3, <2>4
  <1>9. ASSUME NEW w \in Workers, BeginStepAttempt(w)
        PROVE  Balanced(r, s)'
    <2>1. Completed(r, s)' = Completed(r, s)
      BY <1>9, BegunSets DEF Completed
    <2> QED
      BY <1>9, <1>b, <2>1, Steady DEF BeginStepAttempt, history
  <1>10. ASSUME \/ row' = row
                \/ \E w \in Workers, q \in Runs : Claim(w, q)
                \/ \E q \in Runs, mode \in {"graceful", "hard"} : RequestCancelRun(q, mode)
                \/ \E q \in Runs : RetryRun(q) \/ BecomeDue(q) \/ LeaseExpires(q)
                \/ RecoverExpiredLeases
         PROVE  Unmoved
    <2>1. \/ row'[r] = row[r]
          \/ \E w \in Workers : row'[r] = Claimed(row[r], IdOf[w])
          \/ row'[r] \in {CanceledRow(row[r]), GracefullyCanceledRow(row[r]), RetriedRow(row[r]),
                         Recovered(row[r]), RetryingRow(row[r]), FailedRow(row[r]),
                         [row[r] EXCEPT !.due = TRUE], [row[r] EXCEPT !.lease = "expired"]}
      BY <1>10, <1>t DEF Claim, RequestCancelRun, RetryRun, BecomeDue, LeaseExpires,
                         RecoverExpiredLeases
    <2> QED
      BY <2>1, StaysAtStep
  <1> HIDE DEF Unmoved
  <1> QED
    BY <1>1, <1>2, <1>3, <1>4, <1>5, <1>6, <1>7, <1>8, <1>9, <1>10
    DEF Next, vars, WorkerStep, history, Claim, AdvanceTaskStep, AdvanceReplyLost, LoseLease,
        RequestCancelRun, RetryRun, RecoverExpiredLeases, BecomeDue, LeaseExpires, Crash

\* With distinct worker ids, however many workers execute a step at once, every visit of
\* a task that the run has left has exactly one completed attempt.
THEOREM VisitsCompleteOnce ==
    ASSUME DistinctWorkerIds
    PROVE  Spec => []OneCompletionPerVisit
  <1>1. Init => VisitInv
    <2>1. ASSUME Init, NEW r \in Runs, NEW s \in Steps
          PROVE  Balanced(r, s)
      <3>1. Completed(r, s) = {} /\ visits[r][s] = 0 /\ row[r] = AbsentRow
        BY <2>1 DEF Init, Completed, AttemptsWith
      <3>2. Cardinality(Completed(r, s)) = 0
        BY <3>1, FS_EmptySet
      <3> QED
        BY <3>1, <3>2, NullsAreNoValues DEF Balanced, AbsentRow
    <2>2. Init => AbsentAtNoStep
      BY DEF Init, AbsentRow, AbsentAtNoStep
    <2> QED
      BY <2>1, <2>2 DEF VisitInv
  <1>2. ASSUME TypeInv, LeasedRunsAreRunning, AttemptInv, FailingOwnsNothing, VisitInv,
               [Next]_vars
        PROVE  VisitInv'
    <2>1. AbsentAtNoStep'
      BY <1>2, AbsentStep DEF VisitInv
    <2>2. \A r \in Runs, s \in Steps : Kind[s] = "task" => Balanced(r, s)'
      BY <1>2, BalanceStep
    <2> QED
      BY <2>1, <2>2 DEF VisitInv
  <1>3. TypeInv /\ LeasedRunsAreRunning /\ AttemptInv /\ FailingOwnsNothing /\ VisitInv
          /\ [Next]_vars => VisitInv'
    BY <1>2
  <1>4. VisitInv => OneCompletionPerVisit
    BY DEF VisitInv, Balanced, Completed, OneCompletionPerVisit
  <1>5. TypeInv /\ AttemptInv /\ [Next]_vars => AttemptInv'
    BY AttemptStep
  <1>6. TypeInv /\ FailingOwnsNothing /\ [Next]_vars => FailingOwnsNothing'
    BY FailingStep
  <1>7. Init => AttemptInv /\ FailingOwnsNothing
    BY AttemptInit
  <1> QED
    BY TypeInit, TypeStep, LeaseDiscipline, <1>1, <1>3, <1>4, <1>5, <1>6, <1>7, PTL DEF Spec

-----------------------------------------------------------------------------
(* The run loop implements DurableRun: the initial states map to its initial  *)
(* state, and every step maps to one of its steps or to a stutter.            *)

\* What a client sees of one row.
View(x) == [state |-> IF x.status \in {"queued", "running", "waiting"}
                        THEN "live" ELSE x.status,
            at    |-> x.step]

LEMMA PhaseIsView == Phase = [r \in Runs |-> View(row[r])]
  BY DEF Phase, View

\* An action that writes one row changes one phase, or none.
LEMMA OneRow ==
    ASSUME TypeInv, NEW r \in Runs, NEW x, row' = [row EXCEPT ![r] = x]
    PROVE  /\ Phase' = [Phase EXCEPT ![r] = View(x)]
           /\ View(x) = View(row[r]) => Phase' = Phase
           /\ Phase[r] = View(row[r])
  <1>1. Phase = [q \in Runs |-> View(row[q])] /\ Phase' = [q \in Runs |-> View(row'[q])]
    BY DEF Phase, View
  <1>2. \A q \in Runs : row'[q] = IF q = r THEN x ELSE row[q]
    BY DEF TypeInv, TypeOK
  <1> QED
    BY <1>1, <1>2

\* What the statements show to a client.
LEMMA Views ==
    ASSUME NEW x \in Row
    PROVE  /\ View(x).at = x.step
           /\ x.status \in {"queued", "running", "waiting"} => View(x).state = "live"
           /\ x.status \notin {"queued", "running", "waiting"} => View(x).state = x.status
           /\ View(CompletedRow(x)) = [state |-> "completed", at |-> NoStep]
           /\ View(ExhaustedRow(x)) = [state |-> "exhausted_budget", at |-> NoStep]
           /\ View(FailedRow(x)) = [View(x) EXCEPT !.state = "failed"]
  BY DEF View, Row, CompletedRow, ExhaustedRow, FailedRow, Release

LEMMA OperatorViews ==
    ASSUME NEW x \in Row
    PROVE  /\ View(CanceledRow(x)) = [View(x) EXCEPT !.state = "canceled"]
           /\ View(RetriedRow(x)) = [View(x) EXCEPT !.state = "live"]
           /\ x.status = "failed" =>
                View(GracefullyCanceledRow(x)) = [View(x) EXCEPT !.state = "canceled"]
  <1>1. x.status = "failed" => /\ GracefullyCanceledRow(x).status = "canceled"
                               /\ GracefullyCanceledRow(x).step = x.step
    BY DEF Row, GracefullyCanceledRow
  <1>2. x.status = "failed" =>
          View(GracefullyCanceledRow(x)) = [View(x) EXCEPT !.state = "canceled"]
    BY <1>1 DEF View
  <1> QED
    BY <1>2 DEF View, Row, CanceledRow, RetriedRow, Release

LEMMA LiveViews ==
    ASSUME NEW x \in Row, x.status \in {"queued", "running", "waiting"}
    PROVE  /\ View(RetryingRow(x)) = View(x)
           /\ View(Recovered(x)) = View(x)
           /\ View(GracefullyCanceledRow(x)) = View(x)
           /\ \A w \in WorkerIds : View(Claimed(x, w)) = View(x)
           /\ \A t \in Steps : /\ View(AdvancedRow(x, t)) = [View(x) EXCEPT !.at = t]
                               /\ View(SleepingRow(x, t)) = [View(x) EXCEPT !.at = t]
  BY DEF View, Row, RetryingRow, Recovered, GracefullyCanceledRow, Claimed, AdvancedRow,
         SleepingRow, Release

\* Whoever passes the guard of a commit finds the run live, at the step it works on.
LEMMA Committing ==
    ASSUME TypeInv, LeasedRunsAreRunning, NEW w \in Workers, NEW r \in Runs,
           worker[w].pc # "idle", Commits(w, r, worker[w].step)
    PROVE  /\ row[r] \in Row /\ row[r].status = "running"
           /\ row[r].step = worker[w].step /\ worker[w].step \in Steps
           /\ View(row[r]).state = "live" /\ View(row[r]).at = worker[w].step
           /\ worker[w].pc # "claimed" => Kind[worker[w].step] = "task"
  <1>1. row[r] \in Row /\ row[r].step = worker[w].step /\ row[r].lease = "live"
    BY DEF TypeInv, TypeOK, Commits, HoldsLease
  <1>2. row[r].status = "running"
    BY <1>1 DEF LeasedRunsAreRunning
  <1>3. worker[w].step \in Steps /\ (worker[w].pc # "claimed" => Kind[worker[w].step] = "task")
    BY DEF TypeInv, WorkersHoldSteps
  <1> QED
    BY <1>1, <1>2, <1>3, Views

LEMMA RefinementInit == Init => Durable!Init
  <1> SUFFICES ASSUME Init PROVE Phase = [r \in Runs |-> [state |-> "absent", at |-> NoStep]]
    BY DEF Durable!Init
  <1>1. \A r \in Runs : View(row[r]) = [state |-> "absent", at |-> NoStep]
    BY DEF Init, AbsentRow, View
  <1> QED
    BY <1>1, PhaseIsView

LEMMA RefinementStep ==
    TypeInv /\ LeasedRunsAreRunning /\ [Next]_vars => [Durable!Next]_Phase
  <1> SUFFICES ASSUME TypeInv, LeasedRunsAreRunning, [Next]_vars
               PROVE  Durable!Next \/ Phase' = Phase
    OBVIOUS
  <1>t. /\ row \in [Runs -> Row] /\ \A r \in Runs : row[r] \in Row
        /\ \A w \in Workers : IdOf[w] \in WorkerIds
    BY DefinitionAssumption DEF TypeInv, TypeOK
  <1>1. ASSUME NEW r \in Runs, StartRun(r) PROVE Durable!Next
    <2>1. Phase' = [Phase EXCEPT ![r] = View(InsertedRow(StartAt))]
      BY <1>1, OneRow DEF StartRun
    <2>2. View(InsertedRow(StartAt)) = [state |-> "live", at |-> StartAt]
      BY DEF View, InsertedRow, AbsentRow
    <2>3. Phase[r].state = "absent"
      BY <1>1, PhaseIsView DEF StartRun, View
    <2>4. Durable!Start(r)
      BY <2>1, <2>2, <2>3 DEF Durable!Start
    <2> QED
      BY <2>4 DEF Durable!Next
  <1>2. ASSUME NEW w \in Workers, NEW r \in Runs, Claim(w, r) PROVE Phase' = Phase
    <2>1. View(Claimed(row[r], IdOf[w])) = View(row[r])
      BY <1>t, <1>2, LiveViews DEF Claim, Claimable
    <2> QED
      BY <1>2, <2>1, OneRow DEF Claim
  <1>3. ASSUME NEW w \in Workers, NEW r \in Runs, CompleteRun(w, r) PROVE Durable!Next
    <2>1. Commits(w, r, worker[w].step) /\ worker[w].pc # "idle" /\ Kind[worker[w].step] = "end"
      BY <1>3 DEF CompleteRun, AtStep
    <2>2. Phase' = [Phase EXCEPT ![r] = [state |-> "completed", at |-> NoStep]]
          /\ Phase[r] = View(row[r])
      <3>1. row' = [row EXCEPT ![r] = CompletedRow(row[r])]
        BY <1>3 DEF CompleteRun
      <3>2. View(CompletedRow(row[r])) = [state |-> "completed", at |-> NoStep]
        BY <1>t, Views
      <3> QED
        BY <3>1, <3>2, OneRow, ZenonT(40)
    <2>3. Durable!Finish(r)
      BY <2>1, <2>2, Committing DEF Durable!Finish, Durable!Live
    <2> QED
      BY <2>3 DEF Durable!Next
  <1>4. ASSUME NEW w \in Workers, NEW r \in Runs, ScheduleSleep(w, r) \/ Advance(w, r)
        PROVE  Durable!Next
    <2>1. Commits(w, r, worker[w].step) /\ worker[w].pc # "idle"
      BY <1>4 DEF ScheduleSleep, AtStep, Advance, Executing
    <2>2. PICK t \in Transitions[worker[w].step] :
             \/ row' = [row EXCEPT ![r] = SleepingRow(row[r], t)]
             \/ row' = [row EXCEPT ![r] = AdvancedRow(row[r], t)]
      BY <1>4 DEF ScheduleSleep, Advance
    <2>3. t \in Steps
      BY <2>1, Committing, DefinitionAssumption
    <2>4. Phase' = [Phase EXCEPT ![r] = [View(row[r]) EXCEPT !.at = t]] /\ Phase[r] = View(row[r])
      <3>1. /\ View(SleepingRow(row[r], t)) = [View(row[r]) EXCEPT !.at = t]
            /\ View(AdvancedRow(row[r], t)) = [View(row[r]) EXCEPT !.at = t]
        BY <2>1, <2>3, Committing, LiveViews
      <3> QED
        BY <2>2, <3>1, OneRow
    <2>5. Durable!Move(r)
      BY <2>1, <2>4, Committing DEF Durable!Move, Durable!Live
    <2> QED
      BY <2>5 DEF Durable!Next
  <1>5. ASSUME NEW w \in Workers, NEW r \in Runs, NEW q \in Runs, ContinueAsNew(w, r, q)
        PROVE  Durable!Next
    <2>1. /\ Commits(w, r, worker[w].step) /\ worker[w].pc # "idle"
          /\ worker[w].step \in RollSteps /\ row[q].status = "absent"
          /\ row' = [row EXCEPT ![r] = CompletedRow(row[r]), ![q] = InsertedRow(StartAt)]
      BY <1>5 DEF ContinueAsNew, Executing
    <2>2. Phase[r] = View(row[r]) /\ Phase[q] = View(row[q])
      BY PhaseIsView
    <2>3. View(InsertedRow(StartAt)) = [state |-> "live", at |-> StartAt]
      BY DEF View, InsertedRow, AbsentRow
    <2>4. View(CompletedRow(row[r])) = [state |-> "completed", at |-> NoStep]
      BY <1>t, Views
    <2>5. Phase' = [Phase EXCEPT ![r] = [state |-> "completed", at |-> NoStep],
                                 ![q] = [state |-> "live", at |-> StartAt]]
      <3>1. Phase' = [p \in Runs |-> View(row'[p])]
        BY DEF Phase, View
      <3>2. \A p \in Runs : row'[p] = IF p = q THEN InsertedRow(StartAt)
                                      ELSE IF p = r THEN CompletedRow(row[r]) ELSE row[p]
        BY <1>t, <2>1
      <3> QED
        BY <3>1, <3>2, <2>3, <2>4, PhaseIsView
    <2>6. Phase[q].state = "absent"
      BY <2>1, <2>2 DEF View
    <2>7. Durable!Roll(r, q)
      BY <2>1, <2>2, <2>5, <2>6, Committing DEF Durable!Roll, Durable!Live
    <2> QED
      BY <2>7 DEF Durable!Next
  <1>6. ASSUME NEW w \in Workers, NEW r \in Runs, ScheduleRetry(w, r) PROVE Phase' = Phase
    <2>1. Commits(w, r, worker[w].step) /\ worker[w].pc # "idle"
      BY <1>6 DEF ScheduleRetry, Failing
    <2>2. View(RetryingRow(row[r])) = View(row[r])
      BY <2>1, Committing, LiveViews
    <2> QED
      BY <1>6, <2>2, OneRow DEF ScheduleRetry
  <1>7. ASSUME NEW w \in Workers, NEW r \in Runs, FailRun(w, r) PROVE Durable!Next
    <2>1. Commits(w, r, worker[w].step) /\ worker[w].pc \notin {"idle", "claimed"}
      BY <1>7 DEF FailRun, Failing
    <2>2. Phase' = [Phase EXCEPT ![r] = [View(row[r]) EXCEPT !.state = "failed"]]
          /\ Phase[r] = View(row[r])
      <3>1. row' = [row EXCEPT ![r] = FailedRow(row[r])]
        BY <1>7 DEF FailRun
      <3>2. View(FailedRow(row[r])) = [View(row[r]) EXCEPT !.state = "failed"]
        BY <1>t, Views
      <3> QED
        BY <3>1, <3>2, OneRow
    <2>3. Durable!Fail(r)
      BY <2>1, <2>2, Committing DEF Durable!Fail, Durable!Live
    <2> QED
      BY <2>3 DEF Durable!Next
  <1>8. ASSUME NEW w \in Workers, ExhaustRunBudget(w) PROVE Durable!Next
    <2>1. PICK r \in Runs : /\ Exhaustible(row[r])
                            /\ row' = [row EXCEPT ![r] = ExhaustedRow(row[r])]
      BY <1>8 DEF ExhaustRunBudget, TypeInv, WorkersHoldSteps
    <2>2. Phase' = [Phase EXCEPT ![r] = [state |-> "exhausted_budget", at |-> NoStep]]
      <3>1. View(ExhaustedRow(row[r])) = [state |-> "exhausted_budget", at |-> NoStep]
        BY <1>t, Views
      <3> QED
        BY <2>1, <3>1, OneRow, ZenonT(40)
    <2>3. Phase[r].state = "live"
      BY <1>t, <2>1, PhaseIsView DEF Exhaustible, View
    <2>4. Durable!Exhaust(r)
      BY <2>2, <2>3 DEF Durable!Exhaust, Durable!Live
    <2> QED
      BY <2>4 DEF Durable!Next
  <1>9. ASSUME NEW r \in Runs, NEW mode \in {"graceful", "hard"}, RequestCancelRun(r, mode)
        PROVE  Durable!Next \/ Phase' = Phase
    <2>1. Phase[r] = View(row[r]) /\ Phase[r].state \in {"live", "failed"}
      BY <1>t, <1>9, PhaseIsView, Views DEF RequestCancelRun, Cancelable
    <2>2. CASE row' = [row EXCEPT ![r] = CanceledRow(row[r])]
      <3>1. Phase' = [Phase EXCEPT ![r] = [View(row[r]) EXCEPT !.state = "canceled"]]
        <4>1. View(CanceledRow(row[r])) = [View(row[r]) EXCEPT !.state = "canceled"]
          BY <1>t, OperatorViews
        <4>2. Phase' = [Phase EXCEPT ![r] = View(CanceledRow(row[r]))]
          BY <2>2, OneRow
        <4> QED
          BY <4>1, <4>2
      <3>2. Durable!Cancel(r)
        BY <2>1, <3>1 DEF Durable!Cancel
      <3> QED
        BY <3>2 DEF Durable!Next
    <2>3. CASE row' = [row EXCEPT ![r] = GracefullyCanceledRow(row[r])] /\ row[r].status = "failed"
      <3>1. View(GracefullyCanceledRow(row[r])) = [View(row[r]) EXCEPT !.state = "canceled"]
        BY <1>t, <2>3, OperatorViews
      <3>2. Phase' = [Phase EXCEPT ![r] = [View(row[r]) EXCEPT !.state = "canceled"]]
        <4>1. Phase' = [Phase EXCEPT ![r] = View(GracefullyCanceledRow(row[r]))]
          BY <2>3, OneRow
        <4> QED
          BY <3>1, <4>1
      <3>3. Durable!Cancel(r)
        BY <2>1, <3>2 DEF Durable!Cancel
      <3> QED
        BY <3>3 DEF Durable!Next
    <2>4. CASE row' = [row EXCEPT ![r] = GracefullyCanceledRow(row[r])] /\ row[r].status # "failed"
      <3>1. View(GracefullyCanceledRow(row[r])) = View(row[r])
        BY <1>t, <1>9, <2>4, LiveViews DEF RequestCancelRun, Cancelable
      <3> QED
        BY <2>4, <3>1, OneRow
    <2> QED
      BY <1>9, <2>2, <2>3, <2>4 DEF RequestCancelRun
  <1>10. ASSUME NEW r \in Runs, RetryRun(r) PROVE Durable!Next
    <2>1. Phase[r] = View(row[r]) /\ Phase[r].state = "failed"
      BY <1>10, PhaseIsView DEF RetryRun, Retriable, View
    <2>2. Phase' = [Phase EXCEPT ![r] = [View(row[r]) EXCEPT !.state = "live"]]
      <3>1. row' = [row EXCEPT ![r] = RetriedRow(row[r])]
        BY <1>10 DEF RetryRun
      <3>2. View(RetriedRow(row[r])) = [View(row[r]) EXCEPT !.state = "live"]
        BY <1>t, OperatorViews
      <3>3. Phase' = [Phase EXCEPT ![r] = View(RetriedRow(row[r]))]
        BY <3>1, OneRow
      <3> QED
        BY <3>2, <3>3
    <2>3. Durable!Reopen(r)
      BY <2>1, <2>2 DEF Durable!Reopen
    <2> QED
      BY <2>3 DEF Durable!Next
  <1>11. ASSUME NEW r \in Runs, BecomeDue(r) \/ LeaseExpires(r) PROVE Phase' = Phase
    <2>1. /\ View([row[r] EXCEPT !.due = TRUE]) = View(row[r])
          /\ View([row[r] EXCEPT !.lease = "expired"]) = View(row[r])
      BY <1>t DEF View, Row
    <2>2. \/ row' = [row EXCEPT ![r] = [row[r] EXCEPT !.due = TRUE]]
          \/ row' = [row EXCEPT ![r] = [row[r] EXCEPT !.lease = "expired"]]
      BY <1>11 DEF BecomeDue, LeaseExpires
    <2> QED
      BY <2>1, <2>2, OneRow
  <1>12. ASSUME RecoverExpiredLeases PROVE Phase' = Phase
    <2>1. \A r \in Runs : row'[r] = row[r] \/ (Recoverable(row[r]) /\ row'[r] = Recovered(row[r]))
      BY <1>12 DEF RecoverExpiredLeases
    <2>2. \A r \in Runs : View(row'[r]) = View(row[r])
      BY <1>t, <2>1, LiveViews DEF Recoverable
    <2>3. Phase' = [r \in Runs |-> View(row'[r])]
      BY DEF Phase, View
    <2> QED
      BY <2>2, <2>3, PhaseIsView
  <1>13. CASE row' = row
    BY <1>13 DEF Phase
  <1> QED
    BY <1>1, <1>2, <1>3, <1>4, <1>5, <1>6, <1>7, <1>8, <1>9, <1>10, <1>11, <1>12, <1>13
    DEF Next, WorkerStep, AdvanceTaskStep, AdvanceReplyLost, BeginStepAttempt, LoseLease,
        Crash, vars

\* Workers, leases, attempts, recovery and failures are invisible to a client, for every
\* definition and fleet, also one in which processes share an id.
THEOREM RunLoopIsDurable == Spec => ImplementsDurableRun
  <1> QED
    BY TypeInit, TypeStep, LeaseDiscipline, RefinementInit, RefinementStep, PTL
    DEF Spec, ImplementsDurableRun, Durable!Spec
=============================================================================
