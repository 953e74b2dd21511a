------------------------- MODULE CompensationProofs -------------------------
(***************************************************************************)
(* Proofs of the properties of Compensation: the walk is in reverse, a step   *)
(* is undone once, failures escalate, and nothing is left behind.           *)
(***************************************************************************)
EXTENDS Compensation, RunStoreProofs, FiniteSetTheorems

-----------------------------------------------------------------------------
(* The inductive invariant.                                                *)

Busy(p) == process[p].pc = "executing" \/ Undoes(p)

\* What process p keeps in memory, r, fits the log l.
Fits(p, r, l) ==
    /\ r.attempt \in 0..Len(l)
    /\ r.pc \in {"executing", "undoing", "returned", "erring"} => r.attempt \in 1..Len(l)
    /\ r.pc \in {"executing", "undoing", "returned"} => l[r.attempt].status = "started"
    /\ r.pc = "erring" => l[r.attempt].status \in {"started", "completed"}
    /\ r.pc = "executing" => /\ p \in WorkerIds
                             /\ l[r.attempt].kind = "forward"
                             /\ l[r.attempt].step # Length
    /\ r.pc \in {"undoing", "returned", "erring"} => /\ r.items # <<>>
                                                   /\ l[r.attempt].kind = "compensate"
                                                   /\ l[r.attempt].step = Head(r.items)

\* Only a running run is owned, and a run waits at a step that waits.
RowFits(r) == /\ r.status # "running" => r.owner = NoWorker
              /\ r.status = "waiting" => r.step \in WaitSteps

Counted == /\ overlapped \in BOOLEAN /\ undoings \in [Handlers -> Nat]
           /\ {walks, faults, errors, retries} \subseteq Nat

TypeInv ==
    /\ TypeOK
    /\ RowFits(row)
    /\ \A p \in Processes : Fits(p, process[p], log)
    /\ \A p, q \in Processes :
          Busy(p) /\ Busy(q) /\ process[p].attempt = process[q].attempt => p = q

\* A compensation that nobody interferes with is the only one, and the run has ended.
Alone ==
    ~overlapped => \A p \in Processes : Compensates(p) =>
        /\ row.status \in {"failed", "canceled"}
        /\ \A q \in Processes : Compensates(q) => q = p

\* What process p has left to undo: also the step whose completion it takes back.
Left(p) == {s \in Handlers : \/ Compensatable(s)
                             \/ process[p].pc = "erring" /\ s = Head(process[p].items)}

\* Its list is what is left to undo, the step that was completed last first, the attempt
\* that it executes is the last of the log, and no other completion stands.
WalksOn(p) ==
    /\ process[p].pc = "compensating" \/ Undoes(p) => process[p].items \in Walks(Left(p))
    /\ Undoes(p) => process[p].attempt = Len(log)
    /\ process[p].pc = "erring" => \A s \in Handlers : s = Head(process[p].items) =>
          /\ Done("forward", s)
          /\ AttemptsOf("compensate", s, "completed") \subseteq {process[p].attempt}

Walking == ~overlapped => \A p \in Processes : WalksOn(p)

\* The last return of the handler of s counts: it is about to be completed, or it is.
Stands(s) ==
    \/ \E p \in Processes : process[p].pc = "returned" /\ log[process[p].attempt].step = s
    \/ /\ Done("compensate", s)
       /\ ~\E p \in Processes : process[p].pc = "erring" /\ log[process[p].attempt].step = s

\* Every return that does not count is paid for by a death or an error.
Paid ==
    ~overlapped => \A s \in Handlers :
        /\ undoings[s] <= 1 + faults + errors
        /\ ~Stands(s) => undoings[s] <= faults + errors

\* No list names a step twice.
Distinct ==
    \A p \in Processes : process[p].pc = "compensating" \/ Undoes(p) =>
        \A i, j \in DOMAIN process[p].items :
            process[p].items[i] = process[p].items[j] => i = j

\* The processes that may still carry out the compensation of s.
MayUndo(s) ==
    {p \in Processes :
        \/ process[p].pc = "ended"
        \/ process[p].pc \in {"compensating", "undoing", "erring"} /\ s \in Range(process[p].items)
        \/ process[p].pc = "returned" /\ s \in Range(Tail(process[p].items))}

\* Whoever set out carries it out once, and once more for every error of its own.
Owed == \A s \in Handlers : undoings[s] + Cardinality(MayUndo(s)) <= walks + errors

\* The processes whose walk may still end with a last failure.
Walkers == {p \in Processes : Compensates(p) /\ process[p].pc # "givingUp"}

\* Every walk ends with its last failure.
OneEach == \A s \in Handlers : Cardinality(LastFailures(s)) + Cardinality(Walkers) <= walks

GivesUp(p) == process[p].pc = "givingUp"
Escalated == row.status = "compensation_failed" \/ \E p \in Processes : GivesUp(p)

\* A walk that nobody interferes with ends with the run, unless its process dies.
OneLast ==
    ~overlapped => \A s \in Handlers :
        /\ Cardinality(LastFailures(s)) <= 1 + faults
        /\ ~Escalated => Cardinality(LastFailures(s)) <= faults

\* Unless an operator has retried it, a run that is compensated has ended.
Ending ==
    retries = 0 => \A p \in Processes : Compensates(p) =>
        row.status \in {"failed", "canceled", "compensation_failed"}

\* A last failure is in the run, or somebody is about to write it.
Told ==
    faults = 0 /\ (retries = 0 \/ ~overlapped) =>
        \A s \in Handlers : LastFailures(s) # {} => Escalated

\* Unless a process died, somebody is about to undo every step that is left to undo, or
\* is about to mark the run.
Covered ==
    faults = 0 /\ Ended => \A s \in Handlers : Compensatable(s) =>
        \E p \in Processes :
            \/ process[p].pc \in {"ended", "givingUp"}
            \/ /\ process[p].pc = "compensating" \/ Undoes(p)
               /\ s \in Range(process[p].items)

-----------------------------------------------------------------------------
(* The log.                                                                *)

LEMMA Begins ==
    ASSUME NEW old \in Seq(Attempt), NEW k \in {"forward", "compensate"}, NEW s \in Steps
    PROVE  LET a   == [kind |-> k, step |-> s, status |-> "started"]
               new == Append(old, a)
           IN  /\ new \in Seq(Attempt) /\ Len(new) = Len(old) + 1 /\ Len(old) \in Nat
               /\ DOMAIN new = 1..Len(new) /\ DOMAIN old = 1..Len(old)
               /\ new[Len(new)] = a
               /\ \A n \in 1..Len(old) : new[n] = old[n]
  <1> DEFINE a == [kind |-> k, step |-> s, status |-> "started"]
             new == Append(old, a)
  <1>1. a \in Attempt
    BY DEF Attempt
  <1>2. /\ new \in Seq(Attempt) /\ Len(new) = Len(old) + 1
        /\ \A i \in 1..Len(old) : new[i] = old[i]
        /\ new[Len(old) + 1] = a
    BY <1>1, AppendProperties
  <1>3. /\ DOMAIN new = 1..Len(new) /\ DOMAIN old = 1..Len(old) /\ Len(old) \in Nat
    BY <1>2, LenProperties
  <1> QED
    BY <1>2, <1>3

-----------------------------------------------------------------------------
(* The types.                                                              *)

\* When one process moves, what the others keep still fits the log.
LEMMA OneMoves ==
    ASSUME TypeInv, NEW p \in Processes, NEW r \in ProcessRecord,
           process' = [process EXCEPT ![p] = r],
           log' \in Seq(Attempt), Len(log') >= Len(log),
           \A n \in 1..Len(log) : log'[n] # log[n] => Busy(p) /\ process[p].attempt = n,
           Fits(p, r, log'),
           r.pc \in {"executing", "undoing", "returned", "erring"} =>
              \A q \in Processes : Busy(q) => q = p \/ r.attempt # process[q].attempt
    PROVE  /\ process' \in [Processes -> ProcessRecord]
           /\ \A q \in Processes : process'[q].attempt \in 0..Len(log')
           /\ \A q \in Processes : Fits(q, process'[q], log')
           /\ \A q, t \in Processes :
                 Busy(q)' /\ Busy(t)' /\ process'[q].attempt = process'[t].attempt => q = t
  <1>0. /\ process \in [Processes -> ProcessRecord] /\ log \in Seq(Attempt)
        /\ Len(log) \in Nat /\ Len(log') \in Nat
    BY LenProperties DEF TypeInv, TypeOK
  <1>1. /\ process' \in [Processes -> ProcessRecord] /\ process'[p] = r
        /\ \A q \in Processes : q # p => process'[q] = process[q]
    BY <1>0
  <1>2. ASSUME NEW q \in Processes, q # p
        PROVE  Fits(q, process'[q], log')
    <2>1. Fits(q, process[q], log) /\ process'[q] = process[q]
      BY <1>1, <1>2 DEF TypeInv
    <2>2. process[q].attempt \in 0..Len(log')
      BY <2>1, <1>0 DEF Fits
    <2>3. Busy(q) => /\ process[q].attempt \in 1..Len(log)
                     /\ process[q].attempt \in 1..Len(log')
                     /\ log'[process[q].attempt] = log[process[q].attempt]
      <3>1. Busy(q) => process[q].attempt \in 1..Len(log)
        BY <2>1 DEF Fits, Busy, Undoes
      <3>2. Busy(q) => ~(Busy(p) /\ process[p].attempt = process[q].attempt)
        BY <1>2 DEF TypeInv
      <3> QED
        BY <3>1, <3>2, <1>0
    <2> QED
      BY <2>1, <2>2, <2>3 DEF Fits, Busy, Undoes
  <1>3. \A q \in Processes : Fits(q, process'[q], log')
    BY <1>1, <1>2
  <1>4. \A q \in Processes : process'[q].attempt \in 0..Len(log')
    BY <1>3 DEF Fits
  <1>5. ASSUME NEW q \in Processes, NEW t \in Processes, Busy(q)', Busy(t)',
               process'[q].attempt = process'[t].attempt
        PROVE  q = t
    BY <1>1, <1>5 DEF Busy, Undoes, TypeInv
  <1> QED
    BY <1>1, <1>3, <1>4, <1>5

\* The statements keep the row fit.
LEMMA RowsFit ==
    ASSUME NEW r \in Row, RowFits(r)
    PROVE  /\ \A w \in WorkerIds : RowFits(Claimed(r, w))
           /\ \A s \in Steps : RowFits(AdvancedRow(r, s)) /\ RowFits(InsertedRow(s))
           /\ RowFits(CompletedRow(r)) /\ RowFits(FailedRow(r)) /\ RowFits(ExhaustedRow(r))
           /\ RowFits(CanceledRow(r)) /\ RowFits(RetriedRow(r))
           /\ RowFits([r EXCEPT !.lease = "expired"])
           /\ LET e == [Release(r) EXCEPT !.status = "compensation_failed"]
              IN  e \in Row /\ RowFits(e)
           /\ LET e == [Release(r) EXCEPT !.status = "waiting"]
              IN  e \in Row /\ (r.step \in WaitSteps => RowFits(e))
  <1>1. \A w \in WorkerIds : RowFits(Claimed(r, w))
    BY DEF Row, RowFits, Claimed
  <1>2. \A s \in Steps : RowFits(AdvancedRow(r, s)) /\ RowFits(InsertedRow(s))
    BY DEF Row, RowFits, AdvancedRow, Release, InsertedRow, AbsentRow
  <1>3. RowFits(CompletedRow(r)) /\ RowFits(FailedRow(r)) /\ RowFits(ExhaustedRow(r))
    BY DEF Row, RowFits, CompletedRow, FailedRow, ExhaustedRow, Release
  <1>4. RowFits(CanceledRow(r)) /\ RowFits(RetriedRow(r)) /\ RowFits([r EXCEPT !.lease = "expired"])
    BY DEF Row, RowFits, CanceledRow, RetriedRow, Release
  <1>5. LET e == [Release(r) EXCEPT !.status = "compensation_failed"]
        IN  e \in Row /\ RowFits(e)
    BY DEF Row, RowFits, Release, Status, Final
  <1>6. LET e == [Release(r) EXCEPT !.status = "waiting"]
        IN  e \in Row /\ (r.step \in WaitSteps => RowFits(e))
    BY DEF Row, RowFits, Release, Status
  <1> QED
    BY <1>1, <1>2, <1>3, <1>4, <1>5, <1>6

\* The owner of the lease executes an attempt of the current step.
LEMMA Holding ==
    ASSUME TypeInv, NEW w \in WorkerIds, Executes(w)
    PROVE  /\ Busy(w) /\ row.status = "running" /\ row.owner = w
           /\ process[w].attempt \in 1..Len(log)
           /\ log[process[w].attempt] = [kind |-> "forward", step |-> row.step,
                                         status |-> "started"]
           /\ row.step \in 1..(Length-1)
  <1>1. /\ process[w].pc = "executing" /\ row.owner = w
        /\ row.step = log[process[w].attempt].step
    BY DEF Executes, HoldsLease
  <1>2. w \in Processes /\ w # NoWorker
    BY NullsAreNoValues DEF Processes
  <1>3. /\ process[w].attempt \in 1..Len(log)
        /\ log[process[w].attempt].kind = "forward"
        /\ log[process[w].attempt].status = "started"
        /\ log[process[w].attempt].step # Length
    BY <1>1, <1>2 DEF TypeInv, Fits
  <1>4. log[process[w].attempt] \in Attempt
    BY <1>3, ElementOfSeq DEF TypeInv, TypeOK
  <1>5. log[process[w].attempt].step \in 1..(Length-1)
    BY <1>3, <1>4, CompensationAssumption DEF Attempt
  <1>6. row.status = "running"
    BY <1>1, <1>2 DEF TypeInv, RowFits
  <1> QED
    BY <1>1, <1>3, <1>4, <1>5, <1>6 DEF Attempt, Busy

\* One process moves, and the row is what a statement leaves.
LEMMA TypeInvMove ==
    ASSUME TypeInv, NEW p \in Processes, NEW r \in ProcessRecord,
           process' = [process EXCEPT ![p] = r], Fits(p, r, log'),
           r.pc \in {"executing", "undoing", "returned", "erring"} =>
              \A q \in Processes : Busy(q) => q = p \/ r.attempt # process[q].attempt,
           log' \in Seq(Attempt), Len(log') >= Len(log),
           \A n \in 1..Len(log) : log'[n] # log[n] => Busy(p) /\ process[p].attempt = n,
           row' \in Row, RowFits(row'), Counted'
    PROVE  TypeInv'
  <1>1. /\ process' \in [Processes -> ProcessRecord]
        /\ \A q \in Processes : process'[q].attempt \in 0..Len(log')
        /\ \A q \in Processes : Fits(q, process'[q], log')
        /\ \A q, t \in Processes :
              Busy(q)' /\ Busy(t)' /\ process'[q].attempt = process'[t].attempt => q = t
    BY OneMoves
  <1> QED
    BY <1>1 DEF TypeInv, TypeOK, Counted

\* It executes nothing afterwards.
LEMMA TypeInvAgain ==
    ASSUME TypeInv, NEW p \in Processes, NEW r \in ProcessRecord,
           process' = [process EXCEPT ![p] = r],
           r.pc \notin {"executing", "undoing", "returned", "erring"},
           r.attempt \in 0..Len(log'),
           log' \in Seq(Attempt), Len(log') = Len(log),
           \A n \in 1..Len(log) : log'[n] # log[n] => Busy(p) /\ process[p].attempt = n,
           row' \in Row, RowFits(row'), Counted'
    PROVE  TypeInv'
  <1>1. Len(log) \in Nat
    BY LenProperties DEF TypeInv, TypeOK
  <1>2. Fits(p, r, log') /\ Len(log') >= Len(log)
    BY <1>1 DEF Fits
  <1> QED
    BY <1>2, TypeInvMove

LEMMA TypeInit == Init => TypeInv
  <1> SUFFICES ASSUME Init PROVE TypeInv
    OBVIOUS
  <1>1. 1 \in Steps /\ Length \in Nat
    BY CompensationAssumption
  <1>2. row \in Row /\ RowFits(row)
    BY <1>1 DEF Init, InsertedRow, AbsentRow, Row, Status, Final, RowFits
  <1>3. Idle \in ProcessRecord /\ Idle.pc = "idle" /\ Idle.attempt = 0
    BY EmptySeq DEF Idle, ProcessRecord
  <1>4. <<>> \in Seq(Attempt) /\ Len(log) = 0 /\ log = <<>>
    BY EmptySeq DEF Init
  <1>5. \A p \in Processes : process[p] = Idle
    BY DEF Init
  <1>6. \A p \in Processes : Fits(p, process[p], log) /\ ~Busy(p)
    BY <1>3, <1>4, <1>5 DEF Fits, Busy, Undoes
  <1>7. process \in [Processes -> ProcessRecord]
    BY <1>3 DEF Init
  <1>8. overlapped \in BOOLEAN /\ undoings \in [Handlers -> Nat]
    BY DEF Init
  <1>9. faults = 0 /\ errors = 0 /\ retries = 0 /\ walks = 0
    BY DEF Init
  <1>10. TypeOK
    BY <1>2, <1>3, <1>4, <1>5, <1>7, <1>8, <1>9 DEF TypeOK
  <1> QED
    BY <1>2, <1>6, <1>10 DEF TypeInv

\* An action that leaves the processes and the log alone.
LEMMA TypeInvRow ==
    ASSUME TypeInv, row' \in Row, RowFits(row'), UNCHANGED <<log, process>>, Counted'
    PROVE  TypeInv'
  <1>1. TypeOK'
    BY DEF TypeInv, TypeOK, Counted
  <1>2. \A p \in Processes : Fits(p, process'[p], log')
    BY DEF TypeInv
  <1>3. \A p, q \in Processes :
          Busy(p)' /\ Busy(q)' /\ process'[p].attempt = process'[q].attempt => p = q
    BY DEF TypeInv, Busy, Undoes
  <1> QED
    BY <1>1, <1>2, <1>3 DEF TypeInv

LEMMA Settling ==
    ASSUME TypeInv, NEW p \in Processes, Busy(p), NEW st \in {"completed", "failed"},
           log' = Settled(p, st)
    PROVE  /\ log' \in Seq(Attempt) /\ Len(log') = Len(log) /\ DOMAIN log' = DOMAIN log
           /\ DOMAIN log = 1..Len(log) /\ Len(log) \in Nat
           /\ process[p].attempt \in 1..Len(log)
           /\ log'[process[p].attempt] = [kind |-> log[process[p].attempt].kind,
                  step |-> log[process[p].attempt].step, status |-> st]
           /\ \A n \in 1..Len(log) : n # process[p].attempt => log'[n] = log[n]
  <1>1. log \in Seq(Attempt) /\ process[p].attempt \in 1..Len(log)
    <2>1. log \in Seq(Attempt)
      BY DEF TypeInv, TypeOK
    <2>2. Fits(p, process[p], log)
      BY DEF TypeInv
    <2> QED
      BY <2>1, <2>2 DEF Fits, Busy, Undoes
  <1>2. Len(log) \in Nat
    BY <1>1, LenProperties
  <1>3. PICK n \in 1..Len(log) : n = process[p].attempt
    BY <1>1
  <1>4. PICK e : e = [kind |-> log[n].kind, step |-> log[n].step, status |-> st]
    OBVIOUS
  <1>5. [log EXCEPT ![n].status = st] = [log EXCEPT ![n] = e] /\ e \in Attempt
    <2>1. log[n] \in Attempt
      BY <1>1, ElementOfSeq
    <2>2. [log[n] EXCEPT !.status = st] = e /\ e \in Attempt
      BY <2>1, <1>4 DEF Attempt
    <2>3. [log EXCEPT ![n].status = st] = [log EXCEPT ![n] = [log[n] EXCEPT !.status = st]]
      OBVIOUS
    <2> QED
      BY <2>2, <2>3
  <1>6. PICK new : new = log'
    OBVIOUS
  <1>7. new = [log EXCEPT ![n] = e]
    BY <1>3, <1>5, <1>6 DEF Settled
  <1>8. /\ new \in Seq(Attempt) /\ Len(new) = Len(log)
        /\ \A j \in 1..Len(log) : new[j] = IF j = n THEN e ELSE log[j]
    BY <1>1, <1>5, <1>7, ExceptSeq
  <1>9. DOMAIN new = 1..Len(new) /\ DOMAIN log = 1..Len(log)
    BY <1>1, <1>8, LenProperties
  <1> QED
    BY <1>1, <1>2, <1>3, <1>4, <1>6, <1>8, <1>9

LEMMA IdleFits ==
    ASSUME TypeInv, NEW p \in Processes
    PROVE  /\ Idle \in ProcessRecord /\ Idle.pc = "idle" /\ Idle.attempt = 0
           /\ [Idle EXCEPT !.pc = "ended"] \in ProcessRecord
           /\ [Idle EXCEPT !.pc = "ended"].pc = "ended"
           /\ [Idle EXCEPT !.pc = "ended"].attempt = 0
           /\ process[p] \in ProcessRecord /\ process[p].attempt \in 0..Len(log)
           /\ log \in Seq(Attempt) /\ Len(log) \in Nat /\ DOMAIN log = 1..Len(log)
           /\ 0 \in 0..Len(log) /\ Counted
  <1>1. Idle \in ProcessRecord /\ Idle.pc = "idle" /\ Idle.attempt = 0
    BY EmptySeq DEF Idle, ProcessRecord
  <1>2. /\ [Idle EXCEPT !.pc = "ended"] \in ProcessRecord
        /\ [Idle EXCEPT !.pc = "ended"].pc = "ended"
        /\ [Idle EXCEPT !.pc = "ended"].attempt = 0
    BY EmptySeq DEF Idle, ProcessRecord
  <1>3. process[p] \in ProcessRecord /\ log \in Seq(Attempt)
    BY DEF TypeInv, TypeOK
  <1>4. Len(log) \in Nat /\ DOMAIN log = 1..Len(log)
    BY <1>3, LenProperties
  <1>5. Counted
    BY DEF Counted, TypeInv, TypeOK
  <1> QED
    BY <1>1, <1>2, <1>3, <1>4, <1>5 DEF TypeInv, TypeOK

LEMMA ClaimTypes ==
    ASSUME TypeInv, NEW w \in WorkerIds, Claim(w)
    PROVE  TypeInv'
  <1>1. /\ Claimable(row) /\ row.step # Length /\ row' = Claimed(row, w)
        /\ log' = Begun("forward", row.step)
        /\ process[w].pc = "idle"
        /\ process' = [process EXCEPT ![w] = [Idle EXCEPT !.pc = "executing",
                                                          !.attempt = Len(log')]]
        /\ UNCHANGED counters
    BY DEF Claim
  <1>2. w \in Processes
    BY DEF Processes
  <1>3. row \in Row /\ RowFits(row) /\ row.step \in Steps
    BY <1>1 DEF TypeInv, TypeOK, Claimable, Row
  <1>4. row' \in Row /\ RowFits(row')
    BY <1>1, <1>3, RowTypes, RowsFit
  <1>5. PICK s \in Steps : s = row.step
    BY <1>3
  <1>6. log' = Append(log, [kind |-> "forward", step |-> s, status |-> "started"])
    BY <1>1, <1>5 DEF Begun
  <1>7. /\ log' \in Seq(Attempt) /\ Len(log') = Len(log) + 1 /\ Len(log) \in Nat
        /\ log'[Len(log')] = [kind |-> "forward", step |-> s, status |-> "started"]
        /\ \A n \in 1..Len(log) : log'[n] = log[n]
    <2>1. log \in Seq(Attempt)
      BY DEF TypeInv, TypeOK
    <2> QED
      BY <1>6, <2>1, Begins
  <1>8. PICK r : r = [Idle EXCEPT !.pc = "executing", !.attempt = Len(log')]
    OBVIOUS
  <1>9. r \in ProcessRecord /\ r.pc = "executing" /\ r.attempt = Len(log')
    <2>1. Len(log') \in Nat
      BY <1>7
    <2> QED
      BY <1>8, <2>1, EmptySeq DEF Idle, ProcessRecord
  <1>10. Fits(w, r, log')
    BY <1>1, <1>5, <1>7, <1>9 DEF Fits
  <1>11. \A q \in Processes : Busy(q) => q = w \/ r.attempt # process[q].attempt
    <2>1. \A q \in Processes : process[q].attempt <= Len(log)
      BY DEF TypeInv, TypeOK
    <2>2. \A q \in Processes : process[q].attempt \in Nat
      BY DEF TypeInv, TypeOK, ProcessRecord
    <2> QED
      BY <2>1, <2>2, <1>7, <1>9
  <1>12. process' = [process EXCEPT ![w] = r]
    BY <1>1, <1>8
  <1>13. Counted'
    BY <1>1, IdleFits DEF counters, Counted, Processes
  <1>14. Len(log') >= Len(log) /\ \A n \in 1..Len(log) : log'[n] = log[n]
    BY <1>7
  <1> QED
    BY <1>2, <1>4, <1>7, <1>9, <1>10, <1>11, <1>12, <1>13, <1>14, TypeInvMove, ZenonT(30)

LEMMA WorkerTypes ==
    ASSUME TypeInv, NEW w \in WorkerIds, WorkerStep(w)
    PROVE  TypeInv'
  <1>0. /\ w \in Processes /\ row \in Row /\ RowFits(row)
        /\ Counted
    BY DEF Processes, TypeInv, TypeOK, Counted
  <1>1. ASSUME NEW st \in {"completed", "failed"}, Executes(w),
               NEW pc \in {"idle", "ended"},
               log' = Settled(w, st), row' \in Row, RowFits(row'),
               process' = [process EXCEPT ![w] = [Idle EXCEPT !.pc = pc]],
               Counted'
        PROVE  TypeInv'
    <2>1. Busy(w)
      BY <1>1, Holding
    <2>2. PICK r : r = [Idle EXCEPT !.pc = pc]
      OBVIOUS
    <2>3. r \in ProcessRecord /\ r.pc = pc /\ r.attempt = 0
      BY <2>2, EmptySeq DEF Idle, ProcessRecord
    <2>4. /\ log' \in Seq(Attempt) /\ Len(log') = Len(log) /\ Len(log) \in Nat
          /\ \A n \in 1..Len(log) : n # process[w].attempt => log'[n] = log[n]
      BY <1>0, <1>1, <2>1, Settling
    <2>5. /\ r.attempt \in 0..Len(log') /\ r.pc \notin {"executing", "undoing", "returned", "erring"}
          /\ process' = [process EXCEPT ![w] = r]
      BY <1>1, <2>2, <2>3, <2>4
    <2>7. \A n \in 1..Len(log) : log'[n] # log[n] => Busy(w) /\ process[w].attempt = n
      BY <2>1, <2>4
    <2>8. row' \in Row /\ RowFits(row') /\ Counted'
      BY <1>1
    <2> QED
      BY <1>0, <2>3, <2>4, <2>5, <2>7, <2>8, TypeInvAgain
  <1>9. UNCHANGED counters => Counted'
    BY <1>0 DEF Counted, counters
  <1>2. CASE CompleteRun(w)
    <2>1. row' = CompletedRow(row) /\ UNCHANGED <<log, process>> /\ UNCHANGED counters
      BY <1>2 DEF CompleteRun, counters
    <2>2. row' \in Row /\ RowFits(row')
      BY <1>0, <2>1, RowTypes, RowsFit
    <2> QED
      BY <1>0, <2>1, <2>2, <1>9, TypeInvRow
  <1>3. ASSUME Executes(w)
        PROVE  row.step + 1 \in Steps
    <2>1. row.step \in 1..(Length-1)
      BY <1>3, Holding
    <2> QED
      BY <2>1, CompensationAssumption
  <1>4. CASE CompleteStep(w)
    <2>1. row' \in Row /\ RowFits(row')
      BY <1>0, <1>3, <1>4, RowTypes, RowsFit DEF CompleteStep
    <2>2. Idle = [Idle EXCEPT !.pc = "idle"]
      BY DEF Idle
    <2> QED
      BY <1>1, <1>4, <1>9, <2>1, <2>2 DEF CompleteStep
  <1>5. CASE FailStep(w)
    <2>1. row' \in Row /\ RowFits(row')
      BY <1>0, <1>5, RowTypes, RowsFit DEF FailStep
    <2>2. Counted'
      <3>1. walks' = walks + 1 /\ UNCHANGED <<overlapped, undoings, faults, errors, retries>>
        BY <1>5 DEF FailStep
      <3> QED
        BY <1>0, <3>1 DEF Counted
    <2> QED
      BY <1>1, <1>5, <2>1, <2>2 DEF FailStep
  <1>6. CASE ExhaustBudget(w)
    <2>1. row' \in Row /\ RowFits(row')
      BY <1>0, <1>6, RowTypes, RowsFit DEF ExhaustBudget
    <2>2. Idle = [Idle EXCEPT !.pc = "idle"]
      BY DEF Idle
    <2> QED
      BY <1>1, <1>6, <1>9, <2>1, <2>2 DEF ExhaustBudget
  <1>7. CASE OpenWait(w)
    <2>1. row' \in Row /\ RowFits(row')
      BY <1>0, <1>7, RowTypes, RowsFit DEF OpenWait, WaitingRow
    <2>2. Idle = [Idle EXCEPT !.pc = "idle"]
      BY DEF Idle
    <2> QED
      BY <1>1, <1>7, <1>9, <2>1, <2>2 DEF OpenWait
  <1>8. CASE LoseLease(w)
    <2>1. process' = [process EXCEPT ![w] = Idle] /\ UNCHANGED <<row, log, counters>>
      BY <1>8 DEF LoseLease
    <2>2. /\ Idle \in ProcessRecord /\ Idle.pc = "idle" /\ Idle.attempt \in 0..Len(log')
          /\ log' \in Seq(Attempt) /\ Len(log') = Len(log)
      BY <1>0, <2>1, IdleFits
    <2> QED
      BY <1>0, <1>9, <2>1, <2>2, TypeInvAgain
  <1> QED
    BY <1>2, <1>4, <1>5, <1>6, <1>7, <1>8, ClaimTypes DEF WorkerStep

LEMMA OperatorTypes ==
    ASSUME TypeInv,
           \/ \E o \in Operators : Terminate(o) \/ NothingToCompensate(o)
           \/ RetryRun \/ ResumeWait \/ ExpireWait
    PROVE  TypeInv'
  <1>0. /\ row \in Row /\ RowFits(row) /\ Operators \subseteq Processes
        /\ Counted /\ (UNCHANGED counters => Counted')
    BY DEF Processes, TypeInv, TypeOK, Counted, counters
  <1>1. ASSUME NEW o \in Operators, Terminate(o)
        PROVE  TypeInv'
    <2>1. /\ row' = CanceledRow(row) /\ UNCHANGED log
          /\ UNCHANGED <<undoings, faults, errors, retries>> /\ Overlap /\ walks' = walks + 1
          /\ process' = [process EXCEPT ![o].pc = "ended"] /\ process[o].pc = "idle"
      BY <1>1 DEF Terminate
    <2>2. row' \in Row /\ RowFits(row')
      BY <1>0, <2>1, RowTypes, RowsFit
    <2>3. PICK r : r = [process[o] EXCEPT !.pc = "ended"]
      OBVIOUS
    <2>4. /\ process[o] \in ProcessRecord /\ log \in Seq(Attempt)
          /\ process[o].attempt \in 0..Len(log)
      BY <1>0, IdleFits
    <2>5. r \in ProcessRecord /\ r.pc = "ended" /\ r.attempt \in 0..Len(log')
      BY <2>1, <2>3, <2>4 DEF ProcessRecord
    <2>6. process' = [process EXCEPT ![o] = r]
      BY <2>1, <2>3
    <2>7. Counted'
      BY <1>0, <2>1 DEF Overlap, Counted
    <2> QED
      BY <1>0, <2>1, <2>2, <2>4, <2>5, <2>6, <2>7, TypeInvAgain
  <1>2. ASSUME NEW o \in Operators, NothingToCompensate(o)
        PROVE  TypeInv'
    <2>1. process' = [process EXCEPT ![o] = Idle] /\ UNCHANGED <<row, log, counters>>
      BY <1>2 DEF NothingToCompensate
    <2>2. /\ Idle \in ProcessRecord /\ Idle.pc = "idle" /\ Idle.attempt \in 0..Len(log')
          /\ log' \in Seq(Attempt) /\ Len(log') = Len(log)
      BY <1>0, <2>1, IdleFits
    <2> QED
      BY <1>0, <2>1, <2>2, TypeInvAgain
  <1>3. CASE RetryRun
    <2>1. row' = RetriedRow(row) /\ Overlap /\ UNCHANGED <<log, process>>
          /\ UNCHANGED <<walks, undoings, faults, errors>> /\ retries' = retries + 1
      BY <1>3 DEF RetryRun
    <2>2. row' \in Row /\ RowFits(row')
      BY <1>0, <2>1, RowTypes, RowsFit
    <2>3. Counted'
      BY <1>0, <2>1 DEF Overlap, Counted
    <2> QED
      BY <2>1, <2>2, <2>3, TypeInvRow
  <1>4. CASE ResumeWait
    <2>1. /\ row.status = "waiting" /\ row' = AdvancedRow(row, row.step + 1)
          /\ UNCHANGED <<log, process>> /\ UNCHANGED counters
      BY <1>4 DEF ResumeWait
    <2>2. row.step \in WaitSteps
      BY <1>0, <2>1 DEF RowFits
    <2>3. row.step + 1 \in Steps
      <3>1. row.step \in 1..(Length-1) /\ Length \in Nat /\ Steps = 1..Length
        BY <2>2, CompensationAssumption
      <3> QED
        BY <3>1
    <2>4. row' \in Row /\ RowFits(row')
      BY <1>0, <2>1, <2>3, RowTypes, RowsFit
    <2> QED
      BY <1>0, <2>1, <2>4, TypeInvRow
  <1>5. CASE ExpireWait
    <2>1. row' = FailedRow(row) /\ UNCHANGED <<log, process>> /\ UNCHANGED counters
      BY <1>5 DEF ExpireWait
    <2>2. row' \in Row /\ RowFits(row')
      BY <1>0, <2>1, RowTypes, RowsFit
    <2> QED
      BY <1>0, <2>1, <2>2, TypeInvRow
  <1> QED
    BY <1>1, <1>2, <1>3, <1>4, <1>5

LEMMA HandlersAreSteps == Handlers \subseteq Steps
  <1>1. Handlers \subseteq 1..(Length-1) /\ Length \in Nat /\ Steps = 1..Length
    BY CompensationAssumption
  <1>2. 1..(Length-1) \subseteq 1..Length
    BY <1>1
  <1> QED
    BY <1>1, <1>2

\* A list of steps to compensate.
LEMMA WalksAre ==
    ASSUME NEW C \in SUBSET Handlers, NEW items \in Walks(C)
    PROVE  /\ items \in Seq(Handlers) /\ DOMAIN items = 1..Len(items) /\ Len(items) \in Nat
           /\ Range(items) = C
           /\ \A i \in 1..Len(items) : items[i] \in C
           /\ \A i, j \in 1..Len(items) : i < j => LastDone(items[i]) > LastDone(items[j])
  <1>1. IsFiniteSet(C)
    <2>1. IsFiniteSet(1..Length) /\ Length \in Nat
      BY FS_Interval, CompensationAssumption
    <2>2. C \in SUBSET (1..Length)
      BY HandlersAreSteps, CompensationAssumption
    <2> QED
      BY <2>1, <2>2, FS_Subset
  <1>2. Cardinality(C) \in Nat
    BY <1>1, FS_CardinalityType
  <1>3. PICK n \in Nat : n = Cardinality(C)
    BY <1>2
  <1>5. items \in [1..n -> C]
    BY <1>3 DEF Walks
  <1>6. items \in Seq(Handlers)
    BY <1>3, <1>5
  <1>7. DOMAIN items = 1..Len(items) /\ Len(items) \in Nat
    BY <1>6, LenProperties
  <1>8. \A i \in 1..Len(items) : items[i] \in C
    BY <1>5, <1>7
  <1> QED
    BY <1>6, <1>7, <1>8 DEF Walks

LEMMA CompensateTypes ==
    ASSUME TypeInv, NEW p \in Processes, Compensate(p)
    PROVE  TypeInv'
  <1>0. /\ row \in Row /\ RowFits(row) /\ process \in [Processes -> ProcessRecord]
        /\ Counted /\ (UNCHANGED counters => Counted')
        /\ log \in Seq(Attempt) /\ Len(log) \in Nat /\ process[p] \in ProcessRecord
        /\ process[p].attempt \in 0..Len(log) /\ 0 \in 0..Len(log)
        /\ process[p].items \in Seq(Handlers)
    <2>1. process[p] \in ProcessRecord
      BY IdleFits
    <2> QED
      BY <2>1, IdleFits DEF TypeInv, TypeOK, ProcessRecord, Counted, counters
  <1>1. CASE ReadAttempts(p)
    <2>1. UNCHANGED <<row, log, counters>>
      BY <1>1 DEF ReadAttempts
    <2>2. PICK items \in Walks({s \in Handlers : Compensatable(s)}) :
             process' = [process EXCEPT ![p].pc = "compensating", ![p].items = items]
      BY <1>1 DEF ReadAttempts
    <2>3. items \in Seq(Handlers)
      <3>1. {s \in Handlers : Compensatable(s)} \in SUBSET Handlers
        OBVIOUS
      <3> QED
        BY <3>1, WalksAre
    <2>4. PICK r : r = [process[p] EXCEPT !.pc = "compensating", !.items = items]
      OBVIOUS
    <2>5. r \in ProcessRecord /\ r.pc = "compensating" /\ r.attempt = process[p].attempt
      BY <1>0, <2>3, <2>4 DEF ProcessRecord
    <2>6. process' = [process EXCEPT ![p] = r]
      BY <1>0, <2>2, <2>4
    <2> QED
      BY <1>0, <2>1, <2>5, <2>6, TypeInvAgain
  <1>2. CASE BeginCompensation(p)
    <2>1. /\ process[p].pc = "compensating" /\ process[p].items # <<>>
          /\ log' = Begun("compensate", Head(process[p].items))
          /\ process' = [process EXCEPT ![p].pc = "undoing", ![p].attempt = Len(log')]
          /\ UNCHANGED <<row, counters>>
      BY <1>2 DEF BeginCompensation
    <2>2. PICK s \in Steps : s = Head(process[p].items)
      BY <1>0, <2>1, HeadTailProperties, HandlersAreSteps
    <2>3. log' = Append(log, [kind |-> "compensate", step |-> s, status |-> "started"])
      BY <2>1, <2>2 DEF Begun
    <2>4. /\ log' \in Seq(Attempt) /\ Len(log') = Len(log) + 1
          /\ log'[Len(log')] = [kind |-> "compensate", step |-> s, status |-> "started"]
          /\ \A n \in 1..Len(log) : log'[n] = log[n]
      BY <1>0, <2>3, Begins
    <2>5. PICK r : r = [process[p] EXCEPT !.pc = "undoing", !.attempt = Len(log')]
      OBVIOUS
    <2>6. /\ r \in ProcessRecord /\ r.pc = "undoing" /\ r.attempt = Len(log')
          /\ r.items = process[p].items
      <3>1. Len(log') \in Nat
        BY <1>0, <2>4
      <3> QED
        BY <1>0, <2>5, <3>1 DEF ProcessRecord
    <2>7. process' = [process EXCEPT ![p] = r]
      BY <1>0, <2>1, <2>5
    <2>8. Len(log') >= Len(log) /\ Len(log') \in 1..Len(log')
      BY <1>0, <2>4
    <2>9. Fits(p, r, log')
      <3>1. log'[r.attempt].step = Head(r.items) /\ r.items # <<>>
        BY <2>1, <2>2, <2>4, <2>6
      <3>2. log'[r.attempt].kind = "compensate" /\ log'[r.attempt].status = "started"
        BY <2>4, <2>6
      <3>3. r.attempt \in 1..Len(log') /\ r.attempt \in 0..Len(log')
        BY <1>0, <2>4, <2>6
      <3> QED
        BY <2>6, <3>1, <3>2, <3>3 DEF Fits
    <2>10. \A q \in Processes : r.attempt # process[q].attempt
      <3>1. \A q \in Processes : process[q].attempt \in 0..Len(log)
        BY DEF TypeInv, TypeOK
      <3> QED
        BY <3>1, <1>0, <2>4, <2>6
    <2>11. \A n \in 1..Len(log) : log'[n] = log[n]
      BY <2>4
    <2> QED
      BY <1>0, <2>1, <2>4, <2>6, <2>7, <2>8, <2>9, <2>10, <2>11, TypeInvMove
  <1>3. ASSUME Undoes(p), NEW st \in {"completed", "failed"},
               log' = Settled(p, st), UNCHANGED <<row, counters>>,
               NEW r \in ProcessRecord, r.pc \in {"compensating", "givingUp"},
               r.attempt = process[p].attempt, process' = [process EXCEPT ![p] = r]
        PROVE  TypeInv'
    <2>1. Busy(p)
      BY <1>3 DEF Busy
    <2>2. /\ log' \in Seq(Attempt) /\ Len(log') = Len(log)
          /\ \A n \in 1..Len(log) : n # process[p].attempt => log'[n] = log[n]
      BY <1>3, <2>1, Settling
    <2>3. r.attempt \in 0..Len(log') /\ r.pc \notin {"executing", "undoing", "returned", "erring"}
      BY <1>0, <1>3, <2>2
    <2> QED
      BY <1>0, <1>3, <2>1, <2>2, <2>3, TypeInvAgain
  <1>4. CASE CompleteStepAttempt(p)
    <2>1. /\ process[p].pc = "returned" /\ log' = Settled(p, "completed")
          /\ process' = [process EXCEPT ![p].pc = "compensating", ![p].items = Tail(@)]
          /\ UNCHANGED <<row, counters>>
      BY <1>4 DEF CompleteStepAttempt
    <2>2. process[p].items # <<>> /\ Undoes(p)
      BY <2>1 DEF TypeInv, Fits, Undoes
    <2>3. Tail(process[p].items) \in Seq(Handlers)
      BY <1>0, <2>2, HeadTailProperties
    <2>4. PICK r : r = [process[p] EXCEPT !.pc = "compensating", !.items = Tail(@)]
      OBVIOUS
    <2>5. r \in ProcessRecord /\ r.pc = "compensating" /\ r.attempt = process[p].attempt
      BY <1>0, <2>3, <2>4 DEF ProcessRecord
    <2>6. process' = [process EXCEPT ![p] = r]
      BY <1>0, <2>1, <2>4
    <2> QED
      BY <1>3, <2>1, <2>2, <2>5, <2>6
  <1>5. CASE FailStepAttempt(p)
    <2>1. Undoes(p) /\ log' = Settled(p, "failed") /\ UNCHANGED <<row, counters>>
      BY <1>5 DEF FailStepAttempt, Undoes
    <2>2. PICK pc \in {"compensating", "givingUp"} : process' = [process EXCEPT ![p].pc = pc]
      BY <1>5 DEF FailStepAttempt
    <2>3. PICK r : r = [process[p] EXCEPT !.pc = pc]
      OBVIOUS
    <2>4. r \in ProcessRecord /\ r.pc = pc /\ r.attempt = process[p].attempt
      BY <1>0, <2>3 DEF ProcessRecord
    <2>5. process' = [process EXCEPT ![p] = r]
      BY <2>2, <2>3
    <2> QED
      BY <1>3, <2>1, <2>4, <2>5
  <1>8. ASSUME NEW pc \in {"returned", "erring"}, Undoes(p), process[p].pc # "erring",
               process' = [process EXCEPT ![p].pc = pc],
               log' = log \/ (pc = "erring" /\ log' = Settled(p, "completed")),
               row' = row, Counted'
        PROVE  TypeInv'
    <2>1. Busy(p) /\ Fits(p, process[p], log)
      BY <1>8 DEF Busy, TypeInv
    <2>2. PICK a : a = process[p].attempt
      OBVIOUS
    <2>3. /\ a \in 1..Len(log) /\ log[a].kind = "compensate" /\ log[a].status = "started"
          /\ log[a].step = Head(process[p].items) /\ process[p].items # <<>>
      BY <1>8, <2>1, <2>2 DEF Fits, Undoes
    <2>4. /\ log' \in Seq(Attempt) /\ Len(log') = Len(log)
          /\ \A n \in 1..Len(log) : n # a => log'[n] = log[n]
          /\ log'[a].kind = log[a].kind /\ log'[a].step = log[a].step
          /\ log'[a].status = "started" \/ (pc = "erring" /\ log'[a].status = "completed")
      <3>1. CASE log' = log
        BY <1>0, <2>3, <3>1
      <3>2. CASE log' = Settled(p, "completed") /\ pc = "erring"
        <4>1. /\ log' \in Seq(Attempt) /\ Len(log') = Len(log)
              /\ log'[process[p].attempt] = [kind |-> log[process[p].attempt].kind,
                     step |-> log[process[p].attempt].step, status |-> "completed"]
              /\ \A n \in 1..Len(log) : n # process[p].attempt => log'[n] = log[n]
          BY <2>1, <3>2, Settling
        <4>2. log'[a] = [kind |-> log[a].kind, step |-> log[a].step, status |-> "completed"]
          BY <2>2, <4>1
        <4> QED
          BY <2>2, <3>2, <4>1, <4>2
      <3> QED
        BY <1>8, <3>1, <3>2
    <2>5. PICK r : r = [process[p] EXCEPT !.pc = pc]
      OBVIOUS
    <2>6. /\ r \in ProcessRecord /\ r.pc = pc /\ r.attempt = a /\ r.items = process[p].items
          /\ process' = [process EXCEPT ![p] = r]
      BY <1>0, <1>8, <2>2, <2>5 DEF ProcessRecord
    <2>7. a \in 0..Len(log') /\ a \in 1..Len(log')
      BY <1>0, <2>3, <2>4
    <2>8. Fits(p, r, log')
      BY <2>3, <2>4, <2>6, <2>7 DEF Fits
    <2>9. \A q \in Processes : Busy(q) => q = p \/ r.attempt # process[q].attempt
      BY <2>1, <2>2, <2>6 DEF TypeInv
    <2>10. \A n \in 1..Len(log) : log'[n] # log[n] => Busy(p) /\ process[p].attempt = n
      BY <2>1, <2>2, <2>4
    <2>11. Len(log') >= Len(log)
      BY <1>0, <2>4
    <2> QED
      BY <1>0, <1>8, <2>4, <2>6, <2>8, <2>9, <2>10, <2>11, TypeInvMove
  <1>9. CASE HandlerReturns(p)
    <2>1. /\ process[p].pc = "undoing" /\ process' = [process EXCEPT ![p].pc = "returned"]
          /\ undoings' = [undoings EXCEPT ![log[process[p].attempt].step] = @ + 1]
          /\ UNCHANGED <<row, log>> /\ UNCHANGED <<overlapped, walks, faults, errors, retries>>
      BY <1>9 DEF HandlerReturns
    <2>2. \A s : s \in Handlers => undoings[s] + 1 \in Nat
      BY <1>0 DEF Counted
    <2>3. undoings' \in [Handlers -> Nat]
      BY <1>0, <2>1, <2>2 DEF Counted
    <2>4. Counted'
      BY <1>0, <2>1, <2>3 DEF Counted
    <2>5. Undoes(p) /\ process[p].pc # "erring"
      BY <2>1 DEF Undoes
    <2> QED
      BY <1>8, <2>1, <2>4, <2>5
  <1>10. CASE CompletionErrs(p)
    <2>1. /\ process[p].pc = "returned" /\ process' = [process EXCEPT ![p].pc = "erring"]
          /\ log' \in {log, Settled(p, "completed")} /\ errors' = errors + 1 /\ row' = row
          /\ UNCHANGED <<overlapped, walks, undoings, faults, retries>>
      BY <1>10 DEF CompletionErrs
    <2>2. Counted'
      BY <1>0, <2>1 DEF Counted
    <2>3. Undoes(p) /\ process[p].pc # "erring"
      BY <2>1 DEF Undoes
    <2> QED
      BY <1>8, <2>1, <2>2, <2>3
  <1>6. CASE MarkRunCompensationFailed(p)
    <2>1. process' = [process EXCEPT ![p] = Idle] /\ UNCHANGED <<log, counters>>
      BY <1>6 DEF MarkRunCompensationFailed
    <2>2. row' \in Row /\ RowFits(row')
      BY <1>0, <1>6, RowsFit DEF MarkRunCompensationFailed
    <2> QED
      BY <1>0, <1>6, <2>1, <2>2, IdleFits, TypeInvAgain DEF MarkRunCompensationFailed
  <1>7. CASE EndCompensation(p)
    <2>1. process' = [process EXCEPT ![p] = Idle] /\ UNCHANGED <<row, log, counters>>
      BY <1>7 DEF EndCompensation
    <2> QED
      BY <1>0, <2>1, IdleFits, TypeInvAgain
  <1> QED
    BY <1>1, <1>2, <1>4, <1>5, <1>6, <1>7, <1>9, <1>10 DEF Compensate

LEMMA CrashTypes ==
    ASSUME TypeInv, NEW p \in Processes, Crash(p)
    PROVE  TypeInv'
  <1>0. row \in Row /\ RowFits(row) /\ Counted
    BY DEF TypeInv, TypeOK, Counted
  <1>1. /\ process' = [process EXCEPT ![p] = Idle] /\ UNCHANGED log
        /\ UNCHANGED <<overlapped, walks, undoings, errors, retries>>
        /\ row' = IF row.owner = p THEN [row EXCEPT !.lease = "expired"] ELSE row
        /\ faults' = faults + 1
    BY DEF Crash
  <1>2. row' \in Row /\ RowFits(row')
    BY <1>0, <1>1, RowTypes, RowsFit
  <1>3. Counted'
    BY <1>0, <1>1 DEF Counted
  <1> QED
    BY <1>0, <1>1, <1>2, <1>3, IdleFits, TypeInvAgain

LEMMA TypeStep == TypeInv /\ [Next]_vars => TypeInv'
  <1> SUFFICES ASSUME TypeInv, [Next]_vars PROVE TypeInv'
    OBVIOUS
  <1>1. CASE UNCHANGED vars
    <2>1. UNCHANGED <<log, process>> /\ UNCHANGED row /\ UNCHANGED counters
      BY <1>1 DEF vars, counters
    <2>2. row' \in Row /\ RowFits(row') /\ Counted'
      BY <2>1 DEF TypeInv, TypeOK, Counted, counters
    <2> QED
      BY <2>1, <2>2, TypeInvRow
  <1>2. CASE Next
    BY <1>2, WorkerTypes, OperatorTypes, CompensateTypes, CrashTypes DEF Next
  <1> QED
    BY <1>1, <1>2

\* The variables of the compensation have their types: an attempt that a process has begun
\* is in the log, and what is left of its walk are steps.
THEOREM CompensationTypes == Spec => []TypeOK
  <1>1. TypeInv => TypeOK
    BY DEF TypeInv
  <1> QED
    BY <1>1, TypeInit, TypeStep, PTL DEF Spec

-----------------------------------------------------------------------------
(* What an action does to the attempts that have ended.                    *)

LEMMA BeginKeeps ==
    ASSUME TypeInv, NEW k \in {"forward", "compensate"}, NEW s \in Steps, log' = Begun(k, s)
    PROVE  \A kind, t : \A st \in {"completed", "failed"} :
              AttemptsOf(kind, t, st)' = AttemptsOf(kind, t, st)
  <1>1. log' = Append(log, [kind |-> k, step |-> s, status |-> "started"])
        /\ log \in Seq(Attempt)
    BY DEF Begun, TypeInv, TypeOK
  <1>2. /\ Len(log') = Len(log) + 1 /\ Len(log) \in Nat
        /\ DOMAIN log' = 1..Len(log') /\ DOMAIN log = 1..Len(log)
        /\ log'[Len(log')] = [kind |-> k, step |-> s, status |-> "started"]
        /\ \A n \in 1..Len(log) : log'[n] = log[n]
    BY <1>1, Begins
  <1>3. \A n \in DOMAIN log' : n \in DOMAIN log \/ n = Len(log')
    BY <1>2
  <1>4. \A n \in DOMAIN log : n \in DOMAIN log' /\ log'[n] = log[n]
    BY <1>2
  <1>5. \A kind, t : \A st \in {"completed", "failed"} :
            log'[Len(log')] # [kind |-> kind, step |-> t, status |-> st]
    BY <1>2
  <1>6. ASSUME NEW kind, NEW t, NEW st \in {"completed", "failed"}
        PROVE  AttemptsOf(kind, t, st)' = AttemptsOf(kind, t, st)
    <2>1. PICK a : a = [kind |-> kind, step |-> t, status |-> st]
      OBVIOUS
    <2>2. log'[Len(log')] # a
      BY <1>5, <2>1
    <2>3. \A n : n \in DOMAIN log' /\ log'[n] = a <=> n \in DOMAIN log /\ log[n] = a
      BY <1>3, <1>4, <2>2
    <2> QED
      BY <2>1, <2>3 DEF AttemptsOf
  <1> QED
    BY <1>6

LEMMA Settles ==
    ASSUME TypeInv, NEW p \in Processes, Busy(p), NEW st \in {"completed", "failed"},
           log' = Settled(p, st)
    PROVE  LET a == process[p].attempt IN
           \A kind, t : \A x \in {"completed", "failed"} :
              /\ a \in AttemptsOf(kind, t, x) =>
                    x = log[a].status /\ kind = log[a].kind /\ t = log[a].step
              /\ AttemptsOf(kind, t, x)' =
                    (AttemptsOf(kind, t, x) \ {a}) \cup
                    (IF x = st /\ kind = log[a].kind /\ t = log[a].step THEN {a} ELSE {})
  <1>1. PICK a : a = process[p].attempt
    OBVIOUS
  <1>2. /\ DOMAIN log' = DOMAIN log /\ a \in DOMAIN log
        /\ log'[a] = [kind |-> log[a].kind, step |-> log[a].step, status |-> st]
        /\ \A n \in DOMAIN log : n # a => log'[n] = log[n]
    BY <1>1, Settling
  <1>4. ASSUME NEW kind, NEW t, NEW x \in {"completed", "failed"}
        PROVE  /\ a \in AttemptsOf(kind, t, x) =>
                     x = log[a].status /\ kind = log[a].kind /\ t = log[a].step
               /\ AttemptsOf(kind, t, x)' =
                     (AttemptsOf(kind, t, x) \ {a}) \cup
                     (IF x = st /\ kind = log[a].kind /\ t = log[a].step THEN {a} ELSE {})
    <2>1. a \in AttemptsOf(kind, t, x) =>
             x = log[a].status /\ kind = log[a].kind /\ t = log[a].step
      BY DEF AttemptsOf
    <2>2. log'[a] = [kind |-> kind, step |-> t, status |-> x] <=>
             x = st /\ kind = log[a].kind /\ t = log[a].step
      BY <1>2
    <2>3. \A n : n \in AttemptsOf(kind, t, x)' <=>
             \/ n \in AttemptsOf(kind, t, x) /\ n # a
             \/ n = a /\ x = st /\ kind = log[a].kind /\ t = log[a].step
      BY <1>2, <2>2 DEF AttemptsOf
    <2> QED
      BY <2>1, <2>3
  <1> QED
    BY <1>1, <1>4

\* An attempt that has not ended joins those that have ended.
LEMMA SettleAdds ==
    ASSUME TypeInv, NEW p \in Processes, Busy(p), NEW st \in {"completed", "failed"},
           log' = Settled(p, st), log[process[p].attempt].status = "started"
    PROVE  LET a == process[p].attempt IN
           \A kind, t : \A x \in {"completed", "failed"} :
              /\ a \notin AttemptsOf(kind, t, x)
              /\ AttemptsOf(kind, t, x)' =
                    AttemptsOf(kind, t, x) \cup
                    (IF x = st /\ kind = log[a].kind /\ t = log[a].step THEN {a} ELSE {})
  <1>1. PICK a : a = process[p].attempt
    OBVIOUS
  <1>2. \A kind, t : \A x \in {"completed", "failed"} :
           /\ a \in AttemptsOf(kind, t, x) => x = log[a].status
           /\ AttemptsOf(kind, t, x)' = (AttemptsOf(kind, t, x) \ {a}) \cup
                 (IF x = st /\ kind = log[a].kind /\ t = log[a].step THEN {a} ELSE {})
    BY <1>1, Settles
  <1>3. \A kind, t : \A x \in {"completed", "failed"} : a \notin AttemptsOf(kind, t, x)
    BY <1>1, <1>2
  <1>4. \A kind, t : \A x \in {"completed", "failed"} :
           AttemptsOf(kind, t, x) \ {a} = AttemptsOf(kind, t, x)
    BY <1>3
  <1> QED
    BY <1>1, <1>2, <1>3, <1>4

\* The steps to undo, and their order, depend on the completed attempts alone.
LEMMA SameWalks ==
    ASSUME \A t : AttemptsOf("forward", t, "completed")' = AttemptsOf("forward", t, "completed")
    PROVE  /\ \A t : LastDone(t)' = LastDone(t) /\ Done("forward", t)' = Done("forward", t)
           /\ \A C : Walks(C)' = Walks(C)
  <1>1. \A t : LastDone(t)' = LastDone(t) /\ Done("forward", t)' = Done("forward", t)
    BY DEF LastDone, Done
  <1>2. ASSUME NEW C
        PROVE  Walks(C)' = Walks(C)
    BY <1>1 DEF Walks
  <1> QED
    BY <1>1, <1>2

\* A bounded set of numbers has a greatest one.
LEMMA Greatest ==
    ASSUME NEW N \in Nat, NEW S \in SUBSET (0..N), S # {}
    PROVE  Max(S) \in S /\ \A n \in S : n <= Max(S)
  <1> DEFINE T == {N - n : n \in S}
             Less == OpToRel(<, Nat)
  <1>1. T \subseteq Nat /\ T # {}
    <2>1. \A n \in S : N - n \in Nat
      OBVIOUS
    <2> QED
      BY <2>1
  <1>2. PICK x \in T : \A y \in T : <<y, x>> \notin Less
    BY <1>1, NatLessThanWellFounded, WFMin
  <1>3. \A y \in T : ~(y < x)
    BY <1>1, <1>2 DEF OpToRel
  <1>4. PICK m \in S : x = N - m
    BY <1>2
  <1>5. \A n \in S : m >= n
    <2> SUFFICES ASSUME NEW n \in S PROVE m >= n
      OBVIOUS
    <2>1. ~(N - n < N - m)
      BY <1>3, <1>4
    <2> QED
      BY <2>1
  <1>6. Max(S) \in S /\ \A n \in S : Max(S) >= n
    BY <1>5 DEF Max
  <1> QED
    BY <1>6

\* A step stands at its last completed attempt.
LEMMA LastDoneIs ==
    ASSUME TypeOK, NEW t, Done("forward", t)
    PROVE  LastDone(t) \in Nat
  <1>1. Len(log) \in Nat /\ DOMAIN log = 1..Len(log)
    BY LenProperties DEF TypeOK
  <1>2. PICK S : S = AttemptsOf("forward", t, "completed")
    OBVIOUS
  <1>3. S \in SUBSET (0..Len(log)) /\ S # {}
    BY <1>1, <1>2 DEF AttemptsOf, Done
  <1>4. PICK N \in Nat : N = Len(log)
    BY <1>1
  <1>5. Max(S) \in S
    BY <1>3, <1>4, Greatest
  <1> QED
    BY <1>1, <1>2, <1>3, <1>5 DEF LastDone

\* What remains of a walk after its first step.
LEMMA TailWalks ==
    ASSUME TypeOK, NEW C \in SUBSET Handlers, \A t \in C : Done("forward", t),
           NEW items \in Walks(C), items # <<>>
    PROVE  /\ Head(items) \in C /\ Head(items) = items[1] /\ 1 \in 1..Len(items)
           /\ Tail(items) \in Walks(C \ {Head(items)})
  <1>1. /\ items \in Seq(Handlers) /\ DOMAIN items = 1..Len(items) /\ Len(items) \in Nat
        /\ Range(items) = C
        /\ \A i \in 1..Len(items) : items[i] \in C
        /\ \A i, j \in 1..Len(items) : i < j => LastDone(items[i]) > LastDone(items[j])
    BY WalksAre
  <1>2. Len(items) \in Nat \ {0}
    BY <1>1, EmptySeq
  <1>3. Head(items) = items[1] /\ 1 \in 1..Len(items)
    BY <1>1, <1>2
  <1>4. /\ Tail(items) \in Seq(Handlers) /\ Len(Tail(items)) = Len(items) - 1
        /\ \A i \in 1..Len(Tail(items)) : Tail(items)[i] = items[i + 1]
    BY <1>1, HeadTailProperties
  <1>5. DOMAIN Tail(items) = 1..Len(Tail(items))
    BY <1>4, LenProperties
  <1>6. IsFiniteSet(C) /\ Cardinality(C) = Len(items)
    <2>1. IsFiniteSet(1..Length) /\ Length \in Nat
      BY FS_Interval, CompensationAssumption
    <2>2. C \in SUBSET (1..Length)
      BY <2>1, CompensationAssumption
    <2>3. IsFiniteSet(C)
      BY <2>1, <2>2, FS_Subset
    <2>4. Cardinality(C) \in Nat
      BY <2>3, FS_CardinalityType
    <2>5. PICK n \in Nat : n = Cardinality(C)
      BY <2>4
    <2>6. items \in [1..n -> C]
      BY <2>5 DEF Walks
    <2>7. DOMAIN items = 1..n
      BY <2>6
    <2> QED
      BY <1>1, <2>3, <2>5, <2>7
  <1>7. ASSUME NEW i \in 2..Len(items)
        PROVE  items[i] # Head(items)
    <2>1. i \in 1..Len(items) /\ 1 < i
      BY <1>1, <1>7
    <2>2. LastDone(items[1]) > LastDone(items[i])
      BY <1>1, <1>3, <2>1
    <2>3. LastDone(items[1]) \in Nat
      BY <1>1, <1>3, LastDoneIs
    <2>4. LastDone(items[1]) # LastDone(items[i])
      BY <2>2, <2>3
    <2> QED
      BY <1>3, <2>4
  <1>8. Range(Tail(items)) = C \ {Head(items)}
    <2>1. ASSUME NEW s \in Range(Tail(items))
          PROVE  s \in C \ {Head(items)}
      <3>1. PICK i \in 1..Len(Tail(items)) : s = Tail(items)[i]
        BY <1>5 DEF Range
      <3>2. i + 1 \in 2..Len(items) /\ i + 1 \in 1..Len(items) /\ s = items[i + 1]
        BY <1>1, <1>4, <3>1
      <3> QED
        BY <1>1, <1>7, <3>2
    <2>2. ASSUME NEW s \in C \ {Head(items)}
          PROVE  s \in Range(Tail(items))
      <3>1. PICK i \in 1..Len(items) : s = items[i]
        BY <1>1 DEF Range
      <3>2. i # 1
        BY <1>3, <2>2, <3>1
      <3>3. i - 1 \in 1..Len(Tail(items)) /\ i = (i - 1) + 1
        BY <1>1, <1>4, <3>2
      <3>4. Tail(items)[i - 1] = items[(i - 1) + 1]
        BY <1>4, <3>3
      <3> QED
        BY <1>5, <3>1, <3>3, <3>4 DEF Range
    <2> QED
      BY <2>1, <2>2
  <1>9. Cardinality(C \ {Head(items)}) = Len(Tail(items))
    <2>1. Head(items) \in C
      BY <1>1, <1>3
    <2>2. Cardinality(C \ {Head(items)}) = Cardinality(C) - 1
      BY <1>6, <2>1, FS_RemoveElement
    <2> QED
      BY <1>4, <1>6, <2>2
  <1>10. Tail(items) \in [1..Cardinality(C \ {Head(items)}) -> C \ {Head(items)}]
    <2>1. \A i \in DOMAIN Tail(items) : Tail(items)[i] \in C \ {Head(items)}
      BY <1>8 DEF Range
    <2>2. Tail(items) = [i \in 1..Len(Tail(items)) |-> Tail(items)[i]]
      BY <1>4, <1>5, LenProperties
    <2> QED
      BY <1>5, <1>9, <2>1, <2>2
  <1>11. ASSUME NEW i \in DOMAIN Tail(items), NEW j \in DOMAIN Tail(items), i < j
         PROVE  LastDone(Tail(items)[i]) > LastDone(Tail(items)[j])
    <2>1. i + 1 \in 1..Len(items) /\ j + 1 \in 1..Len(items) /\ i + 1 < j + 1
      BY <1>1, <1>4, <1>5, <1>11
    <2>2. Tail(items)[i] = items[i + 1] /\ Tail(items)[j] = items[j + 1]
      BY <1>4, <1>5
    <2> QED
      BY <1>1, <2>1, <2>2
  <1> QED
    BY <1>1, <1>3, <1>8, <1>10, <1>11 DEF Walks

-----------------------------------------------------------------------------
(* What a step does to the compensation.                                   *)

\* No attempt to compensate ends, no handler returns, nobody sets out.
SameUndo ==
    /\ \A t : \A x \in {"completed", "failed"} :
          AttemptsOf("compensate", t, x)' = AttemptsOf("compensate", t, x)
    /\ UNCHANGED <<undoings, errors>>

\* A process has nothing to do with a compensation afterwards.
Rests(p) == /\ process'[p].pc \in {"idle", "executing"} /\ SameUndo /\ walks' = walks
            /\ Compensates(p) => process[p].pc = "ended" \/ faults' = faults + 1
SetsOut(p) == /\ process[p].pc \in {"idle", "executing"} /\ process'[p].pc = "ended"
              /\ SameUndo /\ walks' = walks + 1 /\ row'.status \in {"failed", "canceled"}

\* The attempts keep their kinds and steps, and with them their numbers.
KeepKinds == \A n \in DOMAIN log :
    n \in DOMAIN log' /\ log'[n].kind = log[n].kind /\ log'[n].step = log[n].step

LEMMA UnmovedLog ==
    ASSUME log' = log
    PROVE  KeepKinds /\ \A k, t, x : AttemptsOf(k, t, x)' = AttemptsOf(k, t, x)
  BY DEF KeepKinds, AttemptsOf

\* An overlap, a crash and a retry are never forgotten.
LEMMA CountersGrow ==
    ASSUME TypeInv, Next
    PROVE  /\ overlapped => overlapped'
           /\ faults' >= faults /\ errors' >= errors /\ retries' >= retries
           /\ {faults, errors, retries, walks, faults', errors'} \subseteq Nat
           /\ faults' = 0 => faults = 0
           /\ retries' = 0 => retries = 0
  <1>0. {faults, errors, retries, walks} \subseteq Nat
    BY DEF TypeInv, TypeOK
  <1>a. SUFFICES /\ overlapped => overlapped'
                 /\ faults' \in {faults, faults + 1} /\ errors' \in {errors, errors + 1}
                 /\ retries' \in {retries, retries + 1}
    BY <1>0
  <1>1. CASE \E w \in WorkerIds : WorkerStep(w)
    BY <1>1 DEF WorkerStep, Claim, CompleteRun, CompleteStep, FailStep, ExhaustBudget,
                LoseLease, OpenWait, counters
  <1>2. CASE \E q \in Processes : Compensate(q)
    BY <1>2 DEF Compensate, ReadAttempts, BeginCompensation, HandlerReturns,
                CompleteStepAttempt, CompletionErrs, FailStepAttempt,
                MarkRunCompensationFailed, EndCompensation, counters
  <1>3. CASE \E q \in Processes : Crash(q)
    BY <1>3 DEF Crash
  <1>4. CASE (\E o \in Operators : Terminate(o)) \/ RetryRun
    BY <1>4 DEF Terminate, RetryRun, Overlap
  <1>5. CASE (\E o \in Operators : NothingToCompensate(o)) \/ ResumeWait \/ ExpireWait
    BY <1>5 DEF NothingToCompensate, ResumeWait, ExpireWait, counters
  <1> QED
    BY <1>1, <1>2, <1>3, <1>4, <1>5 DEF Next

LEMMA BeginsLast ==
    ASSUME TypeInv, NEW k \in {"forward", "compensate"}, NEW s \in Steps, log' = Begun(k, s)
    PROVE  KeepKinds
  <1>1. log' = Append(log, [kind |-> k, step |-> s, status |-> "started"])
        /\ log \in Seq(Attempt)
    BY DEF Begun, TypeInv, TypeOK
  <1>2. /\ Len(log') = Len(log) + 1 /\ Len(log) \in Nat
        /\ DOMAIN log' = 1..Len(log') /\ DOMAIN log = 1..Len(log)
        /\ \A n \in 1..Len(log) : log'[n] = log[n]
    BY <1>1, Begins
  <1> QED
    BY <1>2 DEF KeepKinds

LEMMA SettledKinds ==
    ASSUME TypeInv, NEW p \in Processes, Busy(p), NEW st \in {"completed", "failed"},
           log' = Settled(p, st)
    PROVE  KeepKinds
  <1>1. PICK a : a = process[p].attempt
    OBVIOUS
  <1>2. /\ DOMAIN log' = DOMAIN log /\ DOMAIN log = 1..Len(log)
        /\ log'[a] = [kind |-> log[a].kind, step |-> log[a].step, status |-> st]
        /\ \A n \in 1..Len(log) : n # a => log'[n] = log[n]
    BY <1>1, Settling
  <1> QED
    BY <1>2 DEF KeepKinds

LEMMA WorkerEffects ==
    ASSUME TypeInv, NEW w \in WorkerIds, WorkerStep(w)
    PROVE  /\ w \in Processes /\ \A q \in Processes : q # w => process'[q] = process[q]
           /\ KeepKinds /\ (Rests(w) \/ SetsOut(w))
  <1>0. /\ w \in Processes /\ process \in [Processes -> ProcessRecord] /\ row \in Row
        /\ Idle.pc = "idle" /\ \A c : [Idle EXCEPT !.pc = c].pc = c
    BY DEF Processes, TypeInv, TypeOK, Idle
  <1>1. CASE Claim(w)
    <2>1. /\ process[w].pc = "idle" /\ Claimable(row) /\ log' = Begun("forward", row.step)
          /\ process' = [process EXCEPT ![w] = [Idle EXCEPT !.pc = "executing",
                                                            !.attempt = Len(log')]]
          /\ UNCHANGED counters
      BY <1>1 DEF Claim
    <2>2. PICK s \in Steps : s = row.step
      BY <1>0, <2>1 DEF Claimable, Row
    <2>3. log' = Begun("forward", s)
      BY <2>1, <2>2
    <2>4. SameUndo /\ KeepKinds
      BY <2>1, <2>3, BeginKeeps, BeginsLast DEF SameUndo, counters
    <2>5. [Idle EXCEPT !.pc = "executing", !.attempt = Len(log')].pc = "executing"
      BY DEF Idle
    <2>6. process'[w].pc = "executing" /\ ~Compensates(w)
      BY <1>0, <2>1, <2>5 DEF Compensates, Undoes
    <2> QED
      BY <1>0, <2>1, <2>4, <2>6 DEF Rests, counters
  <1>2. CASE CompleteRun(w)
    BY <1>0, <1>2, UnmovedLog DEF CompleteRun, Rests, SameUndo, Compensates, Undoes, counters
  <1>3. CASE LoseLease(w)
    BY <1>0, <1>3, UnmovedLog DEF LoseLease, Rests, SameUndo, Compensates, Undoes, counters
  <1>4. ASSUME Executes(w), NEW st \in {"completed", "failed"}, log' = Settled(w, st)
        PROVE  /\ KeepKinds /\ ~Compensates(w) /\ process[w].pc = "executing"
               /\ \A t : \A x \in {"completed", "failed"} :
                     AttemptsOf("compensate", t, x)' = AttemptsOf("compensate", t, x)
    <2>1. /\ Busy(w) /\ log[process[w].attempt].kind = "forward"
          /\ log[process[w].attempt].status = "started"
      BY <1>4, Holding
    <2>2. \A t : \A x \in {"completed", "failed"} :
             AttemptsOf("compensate", t, x)' = AttemptsOf("compensate", t, x)
      <3>1. PICK a : a = process[w].attempt
        OBVIOUS
      <3>2. \A k, t : \A x \in {"completed", "failed"} :
               AttemptsOf(k, t, x)' = AttemptsOf(k, t, x) \cup
                  (IF x = st /\ k = log[a].kind /\ t = log[a].step THEN {a} ELSE {})
        BY <1>0, <1>4, <2>1, <3>1, SettleAdds
      <3>3. log[a].kind # "compensate"
        BY <2>1, <3>1
      <3>4. \A t : \A x \in {"completed", "failed"} :
               AttemptsOf("compensate", t, x)' = AttemptsOf("compensate", t, x) \cup {}
        BY <3>2, <3>3
      <3> QED
        BY <3>4
    <2>3. KeepKinds
      BY <1>0, <1>4, <2>1, SettledKinds
    <2> QED
      BY <1>4, <2>2, <2>3 DEF Executes, Compensates, Undoes
  <1>5. CASE CompleteStep(w) \/ ExhaustBudget(w) \/ OpenWait(w)
    <2>1. /\ process' = [process EXCEPT ![w] = Idle] /\ Executes(w) /\ UNCHANGED counters
          /\ \E st \in {"completed", "failed"} : log' = Settled(w, st)
      BY <1>5 DEF CompleteStep, ExhaustBudget, OpenWait
    <2>2. /\ KeepKinds /\ ~Compensates(w)
          /\ \A t : \A x \in {"completed", "failed"} :
                AttemptsOf("compensate", t, x)' = AttemptsOf("compensate", t, x)
      BY <1>4, <2>1
    <2> QED
      BY <1>0, <2>1, <2>2 DEF Rests, SameUndo, counters
  <1>6. CASE FailStep(w)
    <2>1. /\ process' = [process EXCEPT ![w] = [Idle EXCEPT !.pc = "ended"]] /\ Executes(w)
          /\ log' = Settled(w, "failed") /\ walks' = walks + 1 /\ UNCHANGED <<undoings, errors>>
          /\ row' = FailedRow(row)
      BY <1>6 DEF FailStep
    <2>2. /\ KeepKinds /\ process[w].pc = "executing"
          /\ \A t : \A x \in {"completed", "failed"} :
                AttemptsOf("compensate", t, x)' = AttemptsOf("compensate", t, x)
      BY <1>4, <2>1
    <2>3. row'.status = "failed"
      BY <1>0, <2>1 DEF FailedRow, Release, Row
    <2> QED
      BY <1>0, <2>1, <2>2, <2>3 DEF SetsOut, SameUndo
  <1> QED
    BY <1>1, <1>2, <1>3, <1>5, <1>6 DEF WorkerStep

LEMMA CompensateEffects ==
    ASSUME TypeInv, NEW p \in Processes, Compensate(p)
    PROVE  /\ \A q \in Processes : q # p => process'[q] = process[q]
           /\ KeepKinds /\ Compensates(p) /\ walks' = walks /\ faults' = faults
  <1>0. process \in [Processes -> ProcessRecord] /\ process[p] \in ProcessRecord
    BY IdleFits DEF TypeInv, TypeOK
  <1>1. \A q \in Processes : q # p => process'[q] = process[q]
    BY <1>0 DEF Compensate, ReadAttempts, BeginCompensation, HandlerReturns,
       CompleteStepAttempt, CompletionErrs, FailStepAttempt, MarkRunCompensationFailed,
       EndCompensation
  <1>2. Compensates(p) /\ walks' = walks /\ faults' = faults
    BY DEF Compensate, ReadAttempts, BeginCompensation, HandlerReturns,
       CompleteStepAttempt, CompletionErrs, FailStepAttempt, MarkRunCompensationFailed,
       EndCompensation, counters, Compensates, Undoes
  <1>3. CASE BeginCompensation(p)
    <2>1. process[p].items # <<>> /\ log' = Begun("compensate", Head(process[p].items))
      BY <1>3 DEF BeginCompensation
    <2>2. PICK t \in Steps : t = Head(process[p].items)
      BY <1>0, <2>1, HeadTailProperties, HandlersAreSteps DEF ProcessRecord
    <2>3. log' = Begun("compensate", t)
      BY <2>1, <2>2
    <2> QED
      BY <1>1, <1>2, <2>3, BeginsLast
  <1>4. CASE CompleteStepAttempt(p) \/ FailStepAttempt(p) \/ CompletionErrs(p)
    <2>1. /\ Busy(p)
          /\ log' = log \/ \E st \in {"completed", "failed"} : log' = Settled(p, st)
      BY <1>4 DEF CompleteStepAttempt, FailStepAttempt, CompletionErrs, Busy, Undoes
    <2> QED
      BY <1>1, <1>2, <2>1, SettledKinds, UnmovedLog
  <1>5. CASE log' = log
    BY <1>1, <1>2, <1>5, UnmovedLog
  <1> QED
    BY <1>3, <1>4, <1>5 DEF Compensate, ReadAttempts, HandlerReturns,
       MarkRunCompensationFailed, EndCompensation

\* Nobody moves, or one process does: it comes to rest, sets out, or compensates.
LEMMA Effects ==
    ASSUME TypeInv, Next
    PROVE  /\ KeepKinds
           /\ \/ UNCHANGED <<process, walks>> /\ SameUndo
              \/ \E p \in Processes :
                    /\ \A q \in Processes : q # p => process'[q] = process[q]
                    /\ Rests(p) \/ SetsOut(p) \/ Compensate(p)
  <1>0. /\ process \in [Processes -> ProcessRecord] /\ Operators \subseteq Processes
        /\ Idle.pc = "idle" /\ row \in Row
    BY DEF Processes, TypeInv, TypeOK, Idle
  <1>1. CASE \E w \in WorkerIds : WorkerStep(w)
    BY <1>1, WorkerEffects
  <1>2. CASE \E p \in Processes : Compensate(p)
    BY <1>2, CompensateEffects
  <1>3. ASSUME NEW p \in Processes, Crash(p)
        PROVE  KeepKinds /\ Rests(p) /\ \A q \in Processes : q # p => process'[q] = process[q]
    BY <1>0, <1>3, UnmovedLog DEF Crash, Rests, SameUndo
  <1>4. ASSUME NEW o \in Operators, Terminate(o)
        PROVE  KeepKinds /\ SetsOut(o) /\ \A q \in Processes : q # o => process'[q] = process[q]
    <2>1. o \in Processes /\ process[o] \in ProcessRecord
      BY <1>0
    <2>2. row'.status = "canceled"
      BY <1>0, <1>4 DEF Terminate, CanceledRow, Release, Row
    <2> QED
      BY <1>0, <1>4, <2>1, <2>2, UnmovedLog DEF Terminate, SetsOut, SameUndo, ProcessRecord
  <1>5. ASSUME NEW o \in Operators, NothingToCompensate(o)
        PROVE  KeepKinds /\ Rests(o) /\ \A q \in Processes : q # o => process'[q] = process[q]
    BY <1>0, <1>5, UnmovedLog DEF NothingToCompensate, Rests, SameUndo, counters
  <1>6. CASE RetryRun \/ ResumeWait \/ ExpireWait
    BY <1>6, UnmovedLog DEF RetryRun, ResumeWait, ExpireWait, SameUndo, counters
  <1> QED
    BY <1>0, <1>1, <1>2, <1>3, <1>4, <1>5, <1>6 DEF Next

-----------------------------------------------------------------------------
(* A compensation that nobody interferes with.                              *)

\* Nobody else can use the row of a run that is compensated.
LEMMA Undisturbed ==
    ASSUME TypeInv, Alone, ~overlapped, NEW p \in Processes, Compensates(p)
    PROVE  /\ row.status \in {"failed", "canceled"} /\ ~Claimable(row)
           /\ \A w \in WorkerIds : ~Executes(w)
           /\ \A q \in Processes : Compensates(q) => q = p
  <1>1. /\ row.status \in {"failed", "canceled"}
        /\ \A q \in Processes : Compensates(q) => q = p
    BY DEF Alone
  <1>2. \A w \in WorkerIds : ~Executes(w)
    BY <1>1, Holding
  <1> QED
    BY <1>1, <1>2 DEF Claimable

\* Somebody gives up what it does: it dies, or loses its lease.
Quits(q) == /\ process' = [process EXCEPT ![q] = Idle] /\ log' = log
            /\ row'.status = row.status /\ row'.step = row.step

LEMMA LoneStep ==
    ASSUME TypeInv, Alone, Next, ~overlapped', NEW p \in Processes, Compensates(p)
    PROVE  /\ ~overlapped /\ \A q \in Processes : Compensates(q) => q = p
           /\ row.status \in {"failed", "canceled"}
           /\ Compensate(p) \/ \E q \in Processes : Quits(q)
  <1>1. ~overlapped
    BY CountersGrow
  <1>2. /\ row.status \in {"failed", "canceled"} /\ ~Claimable(row)
        /\ \A w \in WorkerIds : ~Executes(w)
        /\ \A q \in Processes : Compensates(q) => q = p
    BY <1>1, Undisturbed
  <1>3. ASSUME NEW w \in WorkerIds, WorkerStep(w)
        PROVE  Quits(w)
    <2>1. LoseLease(w)
      BY <1>2, <1>3 DEF WorkerStep, Claim, CompleteRun, CompleteStep, FailStep,
                        ExhaustBudget, OpenWait
    <2> QED
      BY <2>1 DEF LoseLease, Quits
  <1>4. ASSUME NEW q \in Processes, Crash(q)
        PROVE  Quits(q)
    <2>1. row'.status = row.status /\ row'.step = row.step
      BY <1>4 DEF Crash, TypeInv, TypeOK, Row
    <2> QED
      BY <1>4, <2>1 DEF Crash, Quits
  <1>5. ASSUME NEW q \in Processes, Compensate(q)
        PROVE  q = p
    BY <1>2, <1>5, CompensateEffects
  <1>6. ~(\E o \in Operators : Terminate(o) \/ NothingToCompensate(o)) /\ ~RetryRun
    BY <1>2 DEF Terminate, NothingToCompensate, RetryRun, Overlap
  <1>7. ~ResumeWait /\ ~ExpireWait
    BY <1>2 DEF ResumeWait, ExpireWait
  <1> QED
    BY <1>1, <1>2, <1>3, <1>4, <1>5, <1>6, <1>7 DEF Next, Processes

LEMMA AloneStep ==
    ASSUME TypeInv, Alone, Next
    PROVE  Alone'
  <1> SUFFICES ASSUME ~overlapped' PROVE Alone'
    BY DEF Alone
  <1>0. /\ process \in [Processes -> ProcessRecord] /\ row \in Row
    BY DEF TypeInv, TypeOK
  <1>1. CASE \E p \in Processes : Compensates(p)
    <2>0. PICK p \in Processes : Compensates(p)
      BY <1>1
    <2>1. /\ \A q \in Processes : Compensates(q) => q = p
          /\ row.status \in {"failed", "canceled"}
          /\ Compensate(p) \/ \E q \in Processes : Quits(q)
      BY <2>0, LoneStep
    <2>2. CASE Compensate(p)
      <3>1. \A q \in Processes : q # p => process'[q] = process[q]
        BY <2>2, CompensateEffects
      <3>2. row' = row \/ process'[p] = Idle
        BY <1>0, <2>2 DEF Compensate, ReadAttempts, BeginCompensation, HandlerReturns,
           CompleteStepAttempt, CompletionErrs, FailStepAttempt, MarkRunCompensationFailed,
           EndCompensation
      <3>3. process'[p] = Idle => ~Compensates(p)'
        BY DEF Compensates, Undoes, Idle
      <3>4. \A q \in Processes : Compensates(q)' => q = p
        BY <2>1, <3>1 DEF Compensates, Undoes
      <3> QED
        BY <2>1, <3>2, <3>3, <3>4 DEF Alone
    <2>3. CASE \E q \in Processes : Quits(q)
      <3>1. PICK q \in Processes : Quits(q)
        BY <2>3
      <3>2. /\ process'[q] = Idle /\ row'.status = row.status
            /\ \A t \in Processes : t # q => process'[t] = process[t]
        BY <1>0, <3>1 DEF Quits
      <3>3. ~Compensates(q)'
        BY <3>2 DEF Compensates, Undoes, Idle
      <3>4. \A t \in Processes : Compensates(t)' => Compensates(t)
        BY <3>2, <3>3 DEF Compensates, Undoes
      <3> QED
        BY <2>1, <3>2, <3>4 DEF Alone
    <2> QED
      BY <2>1, <2>2, <2>3
  <1>2. CASE \A p \in Processes : ~Compensates(p)
    <2>1. CASE UNCHANGED process
      BY <1>2, <2>1 DEF Alone, Compensates, Undoes
    <2>2. ASSUME NEW p \in Processes, \A q \in Processes : q # p => process'[q] = process[q],
                 Rests(p) \/ SetsOut(p) \/ Compensate(p)
          PROVE  Alone'
      <3>1. ~Compensate(p)
        BY <1>2, CompensateEffects
      <3>2. \A q \in Processes : Compensates(q)' => q = p
        BY <1>2, <2>2 DEF Compensates, Undoes
      <3>3. Compensates(p)' => row'.status \in {"failed", "canceled"}
        BY <2>2, <3>1 DEF Rests, SetsOut, Compensates, Undoes
      <3> QED
        BY <3>2, <3>3 DEF Alone
    <2> QED
      BY <2>1, <2>2, Effects
  <1> QED
    BY <1>1, <1>2

-----------------------------------------------------------------------------
(* The list of a walk.                                                     *)

\* What is left to undo follows from the completed attempts.
LEMMA SameLeft ==
    ASSUME \A k, t : AttemptsOf(k, t, "completed")' = AttemptsOf(k, t, "completed"),
           NEW p, process'[p].pc # "erring", process[p].pc # "erring"
    PROVE  Left(p)' = Left(p) /\ \A D : Walks(D)' = Walks(D)
  <1>1. \A k, t : Done(k, t)' = Done(k, t)
    BY DEF Done
  <1>2. Left(p)' = Left(p)
    BY <1>1 DEF Left, Compensatable
  <1> QED
    BY <1>2, SameWalks

LEMMA LeftIsDone ==
    ASSUME Walking, ~overlapped, NEW p \in Processes,
           process[p].pc = "compensating" \/ Undoes(p)
    PROVE  /\ Left(p) \in SUBSET Handlers /\ \A t \in Left(p) : Done("forward", t)
           /\ process[p].items \in Walks(Left(p))
  BY DEF Left, Walking, WalksOn, Compensatable

LEMMA WalkingStep ==
    ASSUME TypeInv, Alone, Walking, Next
    PROVE  Walking'
  <1> SUFFICES ASSUME ~overlapped', NEW p \in Processes,
                      process'[p].pc = "compensating" \/ Undoes(p)'
               PROVE  WalksOn(p)'
    BY DEF Walking, WalksOn, Undoes
  <1>0. /\ process \in [Processes -> ProcessRecord] /\ TypeOK
        /\ log \in Seq(Attempt) /\ Len(log) \in Nat /\ process[p] \in ProcessRecord
    BY LenProperties DEF TypeInv, TypeOK
  <1>1. PICK p0 \in Processes : Compensates(p0)
    <2>1. CASE UNCHANGED process
      BY <2>1 DEF Compensates, Undoes
    <2>2. ASSUME NEW q \in Processes, \A t \in Processes : t # q => process'[t] = process[t],
                 Rests(q) \/ SetsOut(q) \/ Compensate(q)
          PROVE  \E t \in Processes : Compensates(t)
      <3>1. CASE Compensate(q)
        BY <3>1, CompensateEffects
      <3>2. CASE Rests(q) \/ SetsOut(q)
        <4>1. p # q
          BY <3>2 DEF Rests, SetsOut, Undoes
        <4> QED
          BY <2>2, <4>1 DEF Compensates, Undoes
      <3> QED
        BY <2>2, <3>1, <3>2
    <2> QED
      BY <2>1, <2>2, Effects
  <1>2. /\ ~overlapped /\ \A q \in Processes : Compensates(q) => q = p0
        /\ Compensate(p0) \/ \E q \in Processes : Quits(q)
    BY <1>1, LoneStep
  <1>3. CASE \E q \in Processes : Quits(q)
    <2>1. PICK q \in Processes : Quits(q)
      BY <1>3
    <2>2. process'[p] = process[p] /\ log' = log
      <3>1. process'[q] = Idle /\ log' = log
        BY <1>0, <2>1 DEF Quits
      <3>2. p # q
        BY <3>1 DEF Idle, Undoes
      <3> QED
        BY <1>0, <2>1, <3>1, <3>2 DEF Quits
    <2>3. \A k, t, x : AttemptsOf(k, t, x)' = AttemptsOf(k, t, x)
      BY <2>2, UnmovedLog
    <2>4. \A k, t : Done(k, t)' = Done(k, t)
      BY <2>3 DEF Done
    <2>5. Left(p)' = Left(p)
      BY <2>2, <2>4 DEF Left, Compensatable
    <2>6. \A D : Walks(D)' = Walks(D)
      BY <2>3, SameWalks
    <2>7. process[p].pc = "compensating" \/ Undoes(p)
      BY <2>2 DEF Undoes
    <2> QED
      BY <1>2, <2>2, <2>3, <2>4, <2>5, <2>6, <2>7 DEF Walking, WalksOn, Undoes
  <1>4. CASE Compensate(p0)
    <2>1. p = p0
      <3>1. \A q \in Processes : q # p0 => process'[q] = process[q]
        BY <1>4, CompensateEffects
      <3> QED
        BY <1>2, <3>1 DEF Compensates, Undoes
    <2>2. Fits(p, process[p], log)
      BY DEF TypeInv
    <2>3. CASE ReadAttempts(p)
      <3>1. log' = log /\ process[p].pc = "ended"
        BY <2>3 DEF ReadAttempts
      <3>2. PICK items \in Walks({s \in Handlers : Compensatable(s)}) :
               process' = [process EXCEPT ![p].pc = "compensating", ![p].items = items]
        BY <2>3 DEF ReadAttempts
      <3>3. process'[p].items = items /\ process'[p].pc = "compensating"
        BY <1>0, <3>2 DEF ProcessRecord
      <3>4. Left(p) = {s \in Handlers : Compensatable(s)}
        BY <3>1 DEF Left
      <3>5. Left(p)' = Left(p) /\ \A D : Walks(D)' = Walks(D)
        BY <3>1, <3>3, UnmovedLog, SameLeft
      <3> QED
        BY <3>2, <3>3, <3>4, <3>5 DEF Undoes, WalksOn
    <2>4. CASE BeginCompensation(p)
      <3>1. /\ process[p].pc = "compensating" /\ process[p].items # <<>>
            /\ log' = Begun("compensate", Head(process[p].items))
            /\ process' = [process EXCEPT ![p].pc = "undoing", ![p].attempt = Len(log')]
        BY <2>4 DEF BeginCompensation
      <3>2. process[p].items \in Walks(Left(p))
        BY <1>2, <3>1 DEF Walking, WalksOn
      <3>3. PICK s \in Steps : s = Head(process[p].items)
        BY <1>0, <3>1, HeadTailProperties, HandlersAreSteps DEF ProcessRecord
      <3>4. \A k, t : AttemptsOf(k, t, "completed")' = AttemptsOf(k, t, "completed")
        <4>1. log' = Begun("compensate", s)
          BY <3>1, <3>3
        <4> QED
          BY <4>1, BeginKeeps
      <3>5. /\ process'[p].items = process[p].items /\ process'[p].attempt = Len(log')
            /\ process'[p].pc = "undoing"
        BY <1>0, <3>1 DEF ProcessRecord
      <3>6. Left(p)' = Left(p) /\ \A D : Walks(D)' = Walks(D)
        BY <3>1, <3>4, <3>5, SameLeft
      <3> QED
        BY <3>2, <3>5, <3>6 DEF WalksOn
    <2>5. CASE HandlerReturns(p)
      <3>1. process[p].pc = "undoing" /\ log' = log
            /\ process' = [process EXCEPT ![p].pc = "returned"]
        BY <2>5 DEF HandlerReturns
      <3>2. /\ process'[p].items = process[p].items /\ process'[p].pc = "returned"
            /\ process'[p].attempt = process[p].attempt
        BY <1>0, <3>1 DEF ProcessRecord
      <3>3. Left(p)' = Left(p) /\ \A D : Walks(D)' = Walks(D)
        BY <3>1, <3>2, UnmovedLog, SameLeft
      <3>4. process[p].items \in Walks(Left(p)) /\ process[p].attempt = Len(log)
        BY <1>2, <3>1 DEF Walking, WalksOn, Undoes
      <3> QED
        BY <3>1, <3>2, <3>3, <3>4 DEF WalksOn
    <2>6. ASSUME Undoes(p)
          PROVE  /\ process[p].items # <<>> /\ process[p].items \in Walks(Left(p))
                 /\ log[process[p].attempt].kind = "compensate"
                 /\ log[process[p].attempt].step = Head(process[p].items)
                 /\ Head(process[p].items) \in Left(p)
                 /\ Tail(process[p].items) \in Walks(Left(p) \ {Head(process[p].items)})
                 /\ process[p].attempt = Len(log)
                 /\ process[p].pc # "erring" => log[process[p].attempt].status = "started"
                 /\ process[p].pc # "erring" => Left(p) = {s \in Handlers : Compensatable(s)}
      <3>1. /\ process[p].items # <<>> /\ process[p].items \in Walks(Left(p))
            /\ log[process[p].attempt].kind = "compensate" /\ process[p].attempt = Len(log)
            /\ log[process[p].attempt].step = Head(process[p].items)
            /\ process[p].pc # "erring" => log[process[p].attempt].status = "started"
        BY <1>2, <2>2, <2>6 DEF Walking, WalksOn, Fits, Undoes
      <3>2. /\ Head(process[p].items) \in Left(p)
            /\ Tail(process[p].items) \in Walks(Left(p) \ {Head(process[p].items)})
        <4>1. Left(p) \in SUBSET Handlers /\ \A t \in Left(p) : Done("forward", t)
          BY <1>2, <2>6, LeftIsDone
        <4> QED
          BY <1>0, <3>1, <4>1, TailWalks
      <3>3. process[p].pc # "erring" => Left(p) = {s \in Handlers : Compensatable(s)}
        BY DEF Left
      <3> QED
        BY <3>1, <3>2, <3>3
    <2>7. ASSUME Undoes(p), process[p].pc # "erring", log' = Settled(p, "completed"),
                 NEW a, a = process[p].attempt, NEW h, h = Head(process[p].items)
          PROVE  /\ Len(log') = Len(log) /\ \A D : Walks(D)' = Walks(D)
                 /\ \A t : Done("forward", t)' = Done("forward", t)
                 /\ Done("forward", h)
                 /\ AttemptsOf("compensate", h, "completed")' = {a}
                 /\ {s \in Handlers : Compensatable(s)}' = Left(p) \ {h}
      <3>1. Busy(p)
        BY <2>7 DEF Busy
      <3>2. /\ log[a].kind = "compensate" /\ log[a].step = h /\ log[a].status = "started"
            /\ h \in Left(p) /\ Left(p) = {s \in Handlers : Compensatable(s)}
        BY <2>6, <2>7
      <3>3. \A k, t : AttemptsOf(k, t, "completed")' = AttemptsOf(k, t, "completed") \cup
               (IF k = log[a].kind /\ t = log[a].step THEN {a} ELSE {})
        BY <2>7, <3>1, <3>2, SettleAdds
      <3>4. \A t : AttemptsOf("forward", t, "completed")' = AttemptsOf("forward", t, "completed")
        <4>1. \A t : AttemptsOf("forward", t, "completed")' =
                        AttemptsOf("forward", t, "completed") \cup {}
          BY <3>2, <3>3
        <4> QED
          BY <4>1
      <3>5. AttemptsOf("compensate", h, "completed") = {} /\ Done("forward", h)
        BY <3>2 DEF Compensatable, Done
      <3>6. AttemptsOf("compensate", h, "completed")' = {a}
        <4>1. AttemptsOf("compensate", h, "completed")' =
                 AttemptsOf("compensate", h, "completed") \cup {a}
          BY <3>2, <3>3
        <4> QED
          BY <3>5, <4>1
      <3>7. \A t : t # h => AttemptsOf("compensate", t, "completed")' =
                              AttemptsOf("compensate", t, "completed")
        <4>1. \A t : t # h => AttemptsOf("compensate", t, "completed")' =
                                 AttemptsOf("compensate", t, "completed") \cup {}
          BY <3>2, <3>3
        <4> QED
          BY <4>1
      <3>8. \A t : Done("forward", t)' = Done("forward", t)
        BY <3>4 DEF Done
      <3>9. Done("compensate", h)' /\ \A t : t # h => Done("compensate", t)' = Done("compensate", t)
        BY <3>6, <3>7 DEF Done
      <3>10. \A s \in Handlers : Compensatable(s)' <=> Compensatable(s) /\ s # h
        BY <3>8, <3>9 DEF Compensatable
      <3>11. {s \in Handlers : Compensatable(s)}' = Left(p) \ {h}
        BY <3>2, <3>10
      <3>12. \A D : Walks(D)' = Walks(D)
        BY <3>4, SameWalks
      <3> QED
        BY <2>7, <3>1, <3>5, <3>6, <3>8, <3>11, <3>12, Settling
    <2>8. CASE CompleteStepAttempt(p)
      <3>1. /\ process[p].pc = "returned" /\ log' = Settled(p, "completed") /\ Undoes(p)
            /\ process' = [process EXCEPT ![p].pc = "compensating", ![p].items = Tail(@)]
        BY <2>8 DEF CompleteStepAttempt, Undoes
      <3>2. PICK h : h = Head(process[p].items)
        OBVIOUS
      <3>3. {s \in Handlers : Compensatable(s)}' = Left(p) \ {h} /\ \A D : Walks(D)' = Walks(D)
        BY <2>7, <3>1, <3>2
      <3>4. process'[p].items = Tail(process[p].items) /\ process'[p].pc = "compensating"
        BY <1>0, <3>1 DEF ProcessRecord
      <3>5. Left(p)' = {s \in Handlers : Compensatable(s)}'
        BY <3>4 DEF Left
      <3>6. Tail(process[p].items) \in Walks(Left(p) \ {h})
        BY <2>6, <3>1, <3>2
      <3> QED
        BY <3>3, <3>4, <3>5, <3>6 DEF Undoes, WalksOn
    <2>9. CASE CompletionErrs(p)
      <3>1. /\ process[p].pc = "returned" /\ log' \in {log, Settled(p, "completed")}
            /\ Undoes(p) /\ process' = [process EXCEPT ![p].pc = "erring"]
        BY <2>9 DEF CompletionErrs, Undoes
      <3>2. PICK h : h = Head(process[p].items)
        OBVIOUS
      <3>3. PICK a : a = process[p].attempt
        OBVIOUS
      <3>4. /\ process'[p].items = process[p].items /\ process'[p].pc = "erring"
            /\ process'[p].attempt = a
        BY <1>0, <3>1, <3>3 DEF ProcessRecord
      <3>5. /\ process[p].items \in Walks(Left(p)) /\ h \in Left(p) /\ a = Len(log)
            /\ Left(p) = {s \in Handlers : Compensatable(s)} /\ h \in Handlers
        BY <2>6, <3>1, <3>2, <3>3
      <3>6. Left(p)' = {s \in Handlers : Compensatable(s)}' \cup {h}
        BY <3>2, <3>4, <3>5 DEF Left
      <3>7. CASE log' = log
        <4>1. \A k, t, x : AttemptsOf(k, t, x)' = AttemptsOf(k, t, x)
          BY <3>7, UnmovedLog
        <4>2. \A k, t : Done(k, t)' = Done(k, t)
          BY <4>1 DEF Done
        <4>3. {s \in Handlers : Compensatable(s)}' = Left(p)
          BY <3>5, <4>2 DEF Compensatable
        <4>4. Left(p)' = Left(p) /\ \A D : Walks(D)' = Walks(D)
          BY <3>5, <3>6, <4>1, <4>3, SameWalks
        <4>5. Done("forward", h)' /\ AttemptsOf("compensate", h, "completed")' = {}
          BY <3>5, <4>1, <4>2 DEF Compensatable, Done
        <4> QED
          BY <3>2, <3>4, <3>5, <3>7, <4>4, <4>5 DEF WalksOn
      <3>8. CASE log' = Settled(p, "completed")
        <4>1. /\ Len(log') = Len(log) /\ \A D : Walks(D)' = Walks(D)
              /\ Done("forward", h)' /\ AttemptsOf("compensate", h, "completed")' = {a}
              /\ {s \in Handlers : Compensatable(s)}' = Left(p) \ {h}
          BY <2>7, <3>1, <3>2, <3>3, <3>8
        <4>2. Left(p)' = Left(p)
          BY <3>5, <3>6, <4>1
        <4> QED
          BY <3>2, <3>4, <3>5, <4>1, <4>2 DEF WalksOn
      <3> QED
        BY <3>1, <3>7, <3>8
    <2>10. CASE FailStepAttempt(p)
      <3>1. log' = Settled(p, "failed") /\ Busy(p) /\ Undoes(p)
            /\ process[p].pc \in {"undoing", "erring"}
        BY <2>10 DEF FailStepAttempt, Busy, Undoes
      <3>2. PICK pc \in {"compensating", "givingUp"} : process' = [process EXCEPT ![p].pc = pc]
        BY <2>10 DEF FailStepAttempt
      <3>3. process'[p].items = process[p].items /\ process'[p].pc = "compensating"
        <4>1. process'[p].items = process[p].items /\ process'[p].pc = pc
          BY <1>0, <3>2 DEF ProcessRecord
        <4> QED
          BY <4>1 DEF Undoes
      <3>4. process[p].items \in Walks(Left(p))
        BY <2>6, <3>1
      <3>5. PICK a : a = process[p].attempt
        OBVIOUS
      <3>6. PICK h : h = Head(process[p].items)
        OBVIOUS
      <3>7. log[a].kind = "compensate" /\ log[a].step = h
        BY <2>6, <3>1, <3>5, <3>6
      <3>8. \A k, t : /\ a \in AttemptsOf(k, t, "completed") =>
                           "completed" = log[a].status /\ k = log[a].kind /\ t = log[a].step
                      /\ AttemptsOf(k, t, "completed")' = AttemptsOf(k, t, "completed") \ {a}
        <4>1. \A k, t :
                 /\ a \in AttemptsOf(k, t, "completed") =>
                       "completed" = log[a].status /\ k = log[a].kind /\ t = log[a].step
                 /\ AttemptsOf(k, t, "completed")' =
                       (AttemptsOf(k, t, "completed") \ {a}) \cup
                       (IF "completed" = "failed" /\ k = log[a].kind /\ t = log[a].step
                          THEN {a} ELSE {})
          BY <3>1, <3>5, Settles
        <4>2. \A k, t : AttemptsOf(k, t, "completed")' =
                           (AttemptsOf(k, t, "completed") \ {a}) \cup {}
          BY <4>1
        <4> QED
          BY <4>1, <4>2
      <3>9. \A k, t : k # "compensate" \/ t # h =>
               AttemptsOf(k, t, "completed")' = AttemptsOf(k, t, "completed")
        <4>1. \A k, t : k # "compensate" \/ t # h => a \notin AttemptsOf(k, t, "completed")
          BY <3>7, <3>8
        <4> QED
          BY <3>8, <4>1
      <3>10. \A t : Done("forward", t)' = Done("forward", t)
        BY <3>9 DEF Done
      <3>11. \A t : t # h => Done("compensate", t)' = Done("compensate", t)
        BY <3>9 DEF Done
      <3>12. \A D : Walks(D)' = Walks(D)
        BY <3>9, SameWalks
      <3>13. Left(p)' = {s \in Handlers : Compensatable(s)}'
        BY <3>3 DEF Left
      <3>14. h \in Handlers /\ Done("forward", h) /\ h \in Left(p)
        BY <1>2, <2>6, <3>1, <3>6, LeftIsDone
      <3>15. ~Done("compensate", h)'
        <4>1. CASE process[p].pc = "erring"
          <5>1. AttemptsOf("compensate", h, "completed") \subseteq {a}
            BY <1>2, <3>5, <3>6, <3>14, <4>1 DEF Walking, WalksOn
          <5>2. AttemptsOf("compensate", h, "completed")' = {}
            BY <3>8, <5>1
          <5> QED
            BY <5>2 DEF Done
        <4>2. CASE process[p].pc = "undoing"
          <5>1. ~Done("compensate", h)
            BY <3>14, <4>2 DEF Left, Compensatable
          <5>2. AttemptsOf("compensate", h, "completed")' = {}
            BY <3>8, <5>1 DEF Done
          <5> QED
            BY <5>2 DEF Done
        <4> QED
          BY <3>1, <4>1, <4>2
      <3>16. Left(p)' = Left(p)
        <4>1. \A s \in Handlers : s \in Left(p) <=> Compensatable(s) \/ s = h
          BY <3>6, <3>14 DEF Left
        <4>2. \A s \in Handlers : Compensatable(s)' <=> Compensatable(s) \/ s = h
          BY <3>10, <3>11, <3>14, <3>15 DEF Compensatable
        <4>3. Left(p) \subseteq Handlers
          BY DEF Left
        <4> QED
          BY <3>13, <4>1, <4>2, <4>3
      <3> QED
        BY <3>3, <3>4, <3>12, <3>16 DEF Undoes, WalksOn
    <2>11. ~MarkRunCompensationFailed(p) /\ ~EndCompensation(p)
      <3>1. process'[p] # Idle
        BY DEF Idle, Undoes
      <3> QED
        BY <1>0, <3>1 DEF MarkRunCompensationFailed, EndCompensation
    <2> QED
      BY <1>4, <2>1, <2>3, <2>4, <2>5, <2>8, <2>9, <2>10, <2>11 DEF Compensate
  <1> QED
    BY <1>2, <1>3, <1>4

-----------------------------------------------------------------------------
(* Who may still carry out a compensation, and who may still give up.        *)

LEMMA OneIn ==
    ASSUME NEW S, NEW T, NEW p, IsFiniteSet(S), T \subseteq S \cup {p}
    PROVE  /\ IsFiniteSet(T) /\ Cardinality(S) \in Nat /\ Cardinality(T) \in Nat
           /\ Cardinality(T) <= Cardinality(S) + 1
           /\ T \subseteq S => Cardinality(T) <= Cardinality(S)
           /\ p \in S /\ p \notin T => Cardinality(T) + 1 <= Cardinality(S)
  <1>1. /\ IsFiniteSet(S \cup {p})
        /\ Cardinality(S \cup {p}) = IF p \in S THEN Cardinality(S) ELSE Cardinality(S) + 1
    BY FS_AddElement
  <1>2. Cardinality(S) \in Nat /\ Cardinality(S \cup {p}) \in Nat
    BY <1>1, FS_CardinalityType
  <1>3. /\ IsFiniteSet(T) /\ Cardinality(T) <= Cardinality(S \cup {p})
    BY <1>1, FS_Subset
  <1>4. Cardinality(T) \in Nat
    BY <1>3, FS_CardinalityType
  <1>5. Cardinality(T) <= Cardinality(S) + 1
    BY <1>1, <1>2, <1>3, <1>4
  <1>6. T \subseteq S => Cardinality(T) <= Cardinality(S)
    BY FS_Subset
  <1>7. ASSUME p \in S, p \notin T
        PROVE  Cardinality(T) + 1 <= Cardinality(S)
    <2>1. /\ IsFiniteSet(S \ {p}) /\ Cardinality(S \ {p}) = Cardinality(S) - 1
      BY <1>7, FS_RemoveElement
    <2>2. T \subseteq S \ {p}
      BY <1>7
    <2>3. Cardinality(T) <= Cardinality(S \ {p})
      BY <2>1, <2>2, FS_Subset
    <2> QED
      BY <1>2, <1>4, <2>1, <2>3
  <1> QED
    BY <1>2, <1>3, <1>4, <1>5, <1>6, <1>7

LEMMA TailDistinct ==
    ASSUME NEW items \in Seq(Handlers), items # <<>>,
           \A i, j \in DOMAIN items : items[i] = items[j] => i = j
    PROVE  /\ Head(items) \in Range(items) /\ Head(items) \notin Range(Tail(items))
           /\ \A s : s \in Range(items) => s = Head(items) \/ s \in Range(Tail(items))
           /\ Range(Tail(items)) \subseteq Range(items)
           /\ \A i, j \in DOMAIN Tail(items) : Tail(items)[i] = Tail(items)[j] => i = j
  <1>1. /\ Len(items) \in Nat \ {0} /\ DOMAIN items = 1..Len(items) /\ Head(items) = items[1]
        /\ Tail(items) \in Seq(Handlers) /\ Len(Tail(items)) = Len(items) - 1
        /\ \A i \in 1..Len(Tail(items)) : Tail(items)[i] = items[i + 1]
    BY HeadTailProperties, LenProperties, EmptySeq
  <1>2. DOMAIN Tail(items) = 1..(Len(items) - 1) /\ 1 \in DOMAIN items
    BY <1>1, LenProperties
  <1>3. \A i \in DOMAIN Tail(items) : /\ i \in Int /\ i + 1 \in DOMAIN items /\ i + 1 # 1
                                      /\ Tail(items)[i] = items[i + 1]
    BY <1>1, <1>2
  <1>4. \A i \in DOMAIN items : i # 1 => i - 1 \in DOMAIN Tail(items) /\ (i - 1) + 1 = i
    BY <1>1, <1>2
  <1>5. Head(items) \in Range(items)
    BY <1>1, <1>2 DEF Range
  <1>6. Head(items) \notin Range(Tail(items))
    <2> SUFFICES ASSUME NEW i \in DOMAIN Tail(items), Tail(items)[i] = Head(items) PROVE FALSE
      BY DEF Range
    <2>1. items[i + 1] = items[1] /\ i + 1 # 1
      BY <1>1, <1>3
    <2> QED
      BY <1>2, <1>3, <2>1
  <1>7. ASSUME NEW s \in Range(items), s # Head(items)
        PROVE  s \in Range(Tail(items))
    <2>1. PICK i \in DOMAIN items : s = items[i]
      BY DEF Range
    <2>2. i # 1
      BY <1>1, <1>7, <2>1
    <2>3. i - 1 \in DOMAIN Tail(items) /\ Tail(items)[i - 1] = s
      BY <1>3, <1>4, <2>1, <2>2
    <2> QED
      BY <2>3 DEF Range
  <1>8. Range(Tail(items)) \subseteq Range(items)
    BY <1>3 DEF Range
  <1>9. ASSUME NEW i \in DOMAIN Tail(items), NEW j \in DOMAIN Tail(items),
               Tail(items)[i] = Tail(items)[j]
        PROVE  i = j
    <2>1. i + 1 = j + 1
      BY <1>3, <1>9
    <2> QED
      BY <1>3, <2>1
  <1> QED
    BY <1>5, <1>6, <1>7, <1>8, <1>9

LEMMA DistinctStep ==
    ASSUME TypeInv, Distinct, Next
    PROVE  Distinct'
  <1> SUFFICES ASSUME NEW p \in Processes, process'[p].pc = "compensating" \/ Undoes(p)'
               PROVE  \A i, j \in DOMAIN process'[p].items :
                         process'[p].items[i] = process'[p].items[j] => i = j
    BY DEF Distinct
  <1>0. process \in [Processes -> ProcessRecord] /\ process[p] \in ProcessRecord /\ TypeOK
    BY DEF TypeInv, TypeOK
  <1>1. CASE process'[p] = process[p]
    BY <1>1 DEF Distinct, Undoes
  <1>2. CASE Compensate(p)
    <2>1. CASE ReadAttempts(p)
      <3>1. PICK C : C = {s \in Handlers : Compensatable(s)}
        OBVIOUS
      <3>2. PICK items \in Walks(C) :
               process' = [process EXCEPT ![p].pc = "compensating", ![p].items = items]
        BY <2>1, <3>1 DEF ReadAttempts
      <3>3. process'[p].items = items
        BY <1>0, <3>2 DEF ProcessRecord
      <3>4. C \in SUBSET Handlers /\ \A s \in C : Done("forward", s)
        BY <3>1 DEF Compensatable
      <3>5. /\ DOMAIN items = 1..Len(items) /\ Len(items) \in Nat
            /\ \A i \in 1..Len(items) : items[i] \in C
            /\ \A i, j \in 1..Len(items) : i < j => LastDone(items[i]) > LastDone(items[j])
        BY <3>4, WalksAre
      <3>6. \A i \in 1..Len(items) : LastDone(items[i]) \in Nat
        BY <1>0, <3>4, <3>5, LastDoneIs
      <3>7. ASSUME NEW i \in 1..Len(items), NEW j \in 1..Len(items), items[i] = items[j]
            PROVE  i = j
        <4>1. ~(LastDone(items[i]) > LastDone(items[i]))
          BY <3>6
        <4>2. ~(i < j) /\ ~(j < i)
          BY <3>5, <3>7, <4>1
        <4> QED
          BY <3>5, <4>2
      <3> QED
        BY <3>3, <3>5, <3>7
    <2>2. CASE CompleteStepAttempt(p)
      <3>1. /\ process[p].pc = "returned"
            /\ process' = [process EXCEPT ![p].pc = "compensating", ![p].items = Tail(@)]
        BY <2>2 DEF CompleteStepAttempt
      <3>2. process'[p].items = Tail(process[p].items)
        BY <1>0, <3>1 DEF ProcessRecord
      <3>3. PICK items : items = process[p].items
        OBVIOUS
      <3>4. items # <<>> /\ items \in Seq(Handlers)
        BY <1>0, <3>1, <3>3 DEF TypeInv, Fits, ProcessRecord
      <3>5. \A i, j \in DOMAIN items : items[i] = items[j] => i = j
        BY <3>1, <3>3 DEF Distinct, Undoes
      <3> QED
        BY <3>2, <3>3, <3>4, <3>5, TailDistinct
    <2>3. CASE BeginCompensation(p) \/ HandlerReturns(p) \/ CompletionErrs(p) \/ FailStepAttempt(p)
      <3>1. /\ process'[p].items = process[p].items
            /\ process[p].pc = "compensating" \/ Undoes(p)
        BY <1>0, <2>3 DEF BeginCompensation, HandlerReturns, CompletionErrs, FailStepAttempt,
           ProcessRecord, Undoes
      <3> QED
        BY <3>1 DEF Distinct
    <2>4. ~MarkRunCompensationFailed(p) /\ ~EndCompensation(p)
      <3>1. process'[p] # Idle
        BY DEF Idle, Undoes
      <3> QED
        BY <1>0, <3>1 DEF MarkRunCompensationFailed, EndCompensation
    <2> QED
      BY <1>2, <2>1, <2>2, <2>3, <2>4 DEF Compensate
  <1>3. ~Rests(p) /\ ~SetsOut(p)
    BY DEF Rests, SetsOut, Undoes
  <1> QED
    BY <1>1, <1>2, <1>3, Effects

LEMMA OwedStep ==
    ASSUME TypeInv, Distinct, Owed, Next
    PROVE  Owed'
  <1> SUFFICES ASSUME NEW s \in Handlers
               PROVE  (undoings[s] + Cardinality(MayUndo(s)) <= walks + errors)'
    BY DEF Owed
  <1>0. /\ process \in [Processes -> ProcessRecord] /\ IsFiniteSet(Processes)
        /\ undoings \in [Handlers -> Nat] /\ {walks, errors} \subseteq Nat
        /\ undoings[s] + Cardinality(MayUndo(s)) <= walks + errors
    BY CompensationAssumption DEF TypeInv, TypeOK, Owed, Processes
  <1>1. PICK S : S = MayUndo(s)
    OBVIOUS
  <1>2. PICK T : T = MayUndo(s)'
    OBVIOUS
  <1>3. IsFiniteSet(S) /\ Cardinality(S) \in Nat
    <2>1. S \subseteq Processes
      BY <1>1 DEF MayUndo
    <2>2. IsFiniteSet(S)
      BY <1>0, <2>1, FS_Subset
    <2> QED
      BY <2>2, FS_CardinalityType
  <1>4. CASE UNCHANGED <<process, walks>> /\ SameUndo
    <2>1. T = S
      BY <1>1, <1>2, <1>4 DEF MayUndo
    <2> QED
      BY <1>0, <1>1, <1>2, <1>4, <2>1 DEF SameUndo
  <1>5. ASSUME NEW p \in Processes, \A q \in Processes : q # p => process'[q] = process[q],
               Rests(p) \/ SetsOut(p) \/ Compensate(p)
        PROVE  undoings'[s] + Cardinality(T) <= walks' + errors'
    <2>0. process[p] \in ProcessRecord /\ process[p].items \in Seq(Handlers)
      BY <1>0 DEF ProcessRecord
    <2>1. T \subseteq S \cup {p}
      BY <1>1, <1>2, <1>5 DEF MayUndo
    <2>2. /\ Cardinality(T) \in Nat /\ Cardinality(T) <= Cardinality(S) + 1
          /\ T \subseteq S => Cardinality(T) <= Cardinality(S)
          /\ p \in S /\ p \notin T => Cardinality(T) + 1 <= Cardinality(S)
      BY <1>3, <2>1, OneIn
    <2>3. undoings[s] \in Nat /\ undoings[s] + Cardinality(S) <= walks + errors
      BY <1>0, <1>1
    <2>4. ASSUME p \in S \/ p \notin T, undoings'[s] = undoings[s], UNCHANGED <<walks, errors>>
          PROVE  undoings'[s] + Cardinality(T) <= walks' + errors'
      <3>1. T \subseteq S
        BY <2>1, <2>4
      <3> QED
        BY <1>0, <1>3, <2>2, <2>3, <2>4, <3>1
    <2>5. CASE Rests(p)
      <3>1. p \notin T
        BY <1>2, <2>5 DEF MayUndo, Rests
      <3> QED
        BY <2>4, <2>5, <3>1 DEF Rests, SameUndo
    <2>6. CASE SetsOut(p)
      BY <1>0, <1>3, <2>2, <2>3, <2>6 DEF SetsOut, SameUndo
    <2>7. CASE Compensate(p)
      <3>1. CASE ReadAttempts(p)
        <4>1. p \in S
          BY <1>1, <3>1 DEF ReadAttempts, MayUndo
        <4> QED
          BY <2>4, <3>1, <4>1 DEF ReadAttempts, counters
      <3>2. CASE BeginCompensation(p)
        <4>1. /\ process[p].pc = "compensating" /\ process'[p].pc = "undoing"
              /\ process'[p].items = process[p].items
          BY <1>0, <2>0, <3>2 DEF BeginCompensation, ProcessRecord
        <4>2. p \in S \/ p \notin T
          BY <1>1, <1>2, <4>1 DEF MayUndo
        <4> QED
          BY <2>4, <3>2, <4>2 DEF BeginCompensation, counters
      <3>3. CASE HandlerReturns(p)
        <4>1. PICK h : h = log[process[p].attempt].step
          OBVIOUS
        <4>2. /\ process[p].pc = "undoing" /\ process'[p].pc = "returned"
              /\ process'[p].items = process[p].items
              /\ undoings' = [undoings EXCEPT ![h] = @ + 1] /\ UNCHANGED <<walks, errors>>
          BY <1>0, <2>0, <3>3, <4>1 DEF HandlerReturns, ProcessRecord
        <4>3. PICK items : items = process[p].items
          OBVIOUS
        <4>4. /\ items # <<>> /\ h = Head(items) /\ items \in Seq(Handlers)
              /\ \A i, j \in DOMAIN items : items[i] = items[j] => i = j
          BY <2>0, <4>1, <4>2, <4>3 DEF TypeInv, Fits, Distinct, Undoes
        <4>5. /\ h \in Range(items) /\ h \notin Range(Tail(items))
              /\ Range(Tail(items)) \subseteq Range(items)
          BY <4>4, TailDistinct
        <4>6. p \in T => p \in S
          BY <1>1, <1>2, <4>2, <4>3, <4>5 DEF MayUndo
        <4>7. CASE s # h
          <5>1. undoings'[s] = undoings[s]
            BY <1>0, <4>2, <4>7
          <5> QED
            BY <2>4, <4>2, <4>6, <5>1
        <4>8. CASE s = h
          <5>1. undoings'[s] = undoings[s] + 1
            BY <1>0, <4>2, <4>8
          <5>2. p \in S /\ p \notin T
            BY <1>1, <1>2, <4>2, <4>3, <4>5, <4>8 DEF MayUndo
          <5> QED
            BY <1>0, <1>3, <2>2, <2>3, <4>2, <5>1, <5>2
        <4> QED
          BY <4>7, <4>8
      <3>4. CASE CompleteStepAttempt(p)
        <4>1. /\ process[p].pc = "returned" /\ process'[p].pc = "compensating"
              /\ process'[p].items = Tail(process[p].items)
          BY <1>0, <2>0, <3>4 DEF CompleteStepAttempt, ProcessRecord
        <4>2. p \in S \/ p \notin T
          BY <1>1, <1>2, <4>1 DEF MayUndo
        <4> QED
          BY <2>4, <3>4, <4>2 DEF CompleteStepAttempt, counters
      <3>5. CASE CompletionErrs(p)
        BY <1>0, <1>3, <2>2, <2>3, <3>5 DEF CompletionErrs
      <3>6. CASE FailStepAttempt(p)
        <4>1. PICK pc \in {"compensating", "givingUp"} : process' = [process EXCEPT ![p].pc = pc]
          BY <3>6 DEF FailStepAttempt
        <4>2. /\ process[p].pc \in {"undoing", "erring"} /\ process'[p].pc = pc
              /\ process'[p].items = process[p].items
          BY <1>0, <2>0, <3>6, <4>1 DEF FailStepAttempt, ProcessRecord
        <4>3. p \in S \/ p \notin T
          BY <1>1, <1>2, <4>2 DEF MayUndo
        <4> QED
          BY <2>4, <3>6, <4>3 DEF FailStepAttempt, counters
      <3>7. CASE MarkRunCompensationFailed(p) \/ EndCompensation(p)
        <4>1. process'[p] = Idle
          BY <1>0, <3>7 DEF MarkRunCompensationFailed, EndCompensation
        <4>2. p \notin T
          BY <1>2, <4>1 DEF MayUndo, Idle
        <4> QED
          BY <2>4, <3>7, <4>2 DEF MarkRunCompensationFailed, EndCompensation, counters
      <3> QED
        BY <2>7, <3>1, <3>2, <3>3, <3>4, <3>5, <3>6, <3>7 DEF Compensate
    <2> QED
      BY <1>5, <2>5, <2>6, <2>7
  <1> QED
    BY <1>2, <1>4, <1>5, Effects

-----------------------------------------------------------------------------
(* What the handler has returned for.                                        *)

\* What stands goes on standing.
LEMMA StandsOn ==
    ASSUME TypeInv, KeepKinds, NEW p \in Processes, NEW s \in Handlers,
           \A q \in Processes : q # p => process'[q] = process[q],
           process[p].pc # "returned", process'[p].pc # "erring",
           Done("compensate", s) => Done("compensate", s)', Stands(s)
    PROVE  Stands(s)'
  <1>1. \A q \in Processes : process[q].pc \in {"returned", "erring"} =>
           /\ process[q].attempt \in DOMAIN log
           /\ log'[process[q].attempt].step = log[process[q].attempt].step
    <2>1. DOMAIN log = 1..Len(log)
      BY LenProperties DEF TypeInv, TypeOK
    <2> QED
      BY <2>1 DEF TypeInv, Fits, KeepKinds
  <1>2. CASE \E q \in Processes : process[q].pc = "returned" /\ log[process[q].attempt].step = s
    <2>1. PICK q \in Processes : process[q].pc = "returned" /\ log[process[q].attempt].step = s
      BY <1>2
    <2>2. process'[q] = process[q] /\ log'[process[q].attempt].step = s
      BY <1>1, <2>1
    <2>3. process'[q].pc = "returned" /\ log'[process'[q].attempt].step = s
      BY <2>1, <2>2
    <2> QED
      BY <2>3 DEF Stands
  <1>3. CASE /\ Done("compensate", s)
             /\ ~\E q \in Processes : process[q].pc = "erring" /\ log[process[q].attempt].step = s
    <2>1. ASSUME NEW q \in Processes, process'[q].pc = "erring", log'[process'[q].attempt].step = s
          PROVE  FALSE
      <3>1. process'[q] = process[q]
        BY <2>1
      <3>2. process[q].pc = "erring" /\ log[process[q].attempt].step = s
        BY <1>1, <2>1, <3>1
      <3> QED
        BY <1>3, <3>2
    <2> QED
      BY <1>3, <2>1 DEF Stands
  <1> QED
    BY <1>2, <1>3 DEF Stands

LEMMA PaidStep ==
    ASSUME TypeInv, Alone, Walking, Paid, Next
    PROVE  Paid'
  <1> SUFFICES ASSUME ~overlapped', NEW s \in Handlers
               PROVE  /\ undoings'[s] <= 1 + faults' + errors'
                      /\ ~Stands(s)' => undoings'[s] <= faults' + errors'
    BY DEF Paid
  <1>0. /\ process \in [Processes -> ProcessRecord] /\ undoings \in [Handlers -> Nat]
        /\ KeepKinds
    BY Effects DEF TypeInv, TypeOK
  <1>1. /\ ~overlapped /\ {faults, errors, faults', errors'} \subseteq Nat
        /\ faults' >= faults /\ errors' >= errors /\ undoings[s] \in Nat
    BY <1>0, CountersGrow
  <1>2. /\ undoings[s] <= 1 + faults + errors
        /\ ~Stands(s) => undoings[s] <= faults + errors
    BY <1>1 DEF Paid
  <1>3. ASSUME undoings'[s] = undoings[s], Stands(s) => Stands(s)'
        PROVE  /\ undoings'[s] <= 1 + faults' + errors'
               /\ ~Stands(s)' => undoings'[s] <= faults' + errors'
    BY <1>1, <1>2, <1>3
  <1>4. ASSUME undoings'[s] = undoings[s], faults' = faults + 1 \/ errors' = errors + 1
        PROVE  /\ undoings'[s] <= 1 + faults' + errors'
               /\ ~Stands(s)' => undoings'[s] <= faults' + errors'
    BY <1>1, <1>2, <1>4
  <1>5. CASE UNCHANGED process /\ SameUndo
    <2>1. /\ Done("compensate", s) => Done("compensate", s)'
          /\ undoings' = undoings
      BY <1>5 DEF SameUndo, Done
    <2>2. \A q \in Processes : process[q].pc \in {"returned", "erring"} =>
             log'[process[q].attempt].step = log[process[q].attempt].step
      <3>1. DOMAIN log = 1..Len(log)
        BY LenProperties DEF TypeInv, TypeOK
      <3> QED
        BY <1>0, <3>1 DEF TypeInv, Fits, KeepKinds
    <2>3. Stands(s) => Stands(s)'
      BY <1>5, <2>1, <2>2 DEF Stands
    <2> QED
      BY <1>3, <2>1, <2>3
  <1>6. ASSUME NEW p \in Processes, \A q \in Processes : q # p => process'[q] = process[q],
               Rests(p) \/ SetsOut(p)
        PROVE  /\ undoings'[s] <= 1 + faults' + errors'
               /\ ~Stands(s)' => undoings'[s] <= faults' + errors'
    <2>1. undoings' = undoings /\ (Done("compensate", s) => Done("compensate", s)')
      BY <1>6 DEF Rests, SetsOut, SameUndo, Done
    <2>2. process'[p].pc # "erring"
      BY <1>6 DEF Rests, SetsOut
    <2>3. process[p].pc = "returned" => faults' = faults + 1
      BY <1>6 DEF Rests, SetsOut, Compensates, Undoes
    <2>4. process[p].pc # "returned" => (Stands(s) => Stands(s)')
      BY <1>0, <1>6, <2>1, <2>2, StandsOn
    <2> QED
      BY <1>3, <1>4, <2>1, <2>3, <2>4
  <1>7. ASSUME NEW p \in Processes, Compensate(p)
        PROVE  /\ undoings'[s] <= 1 + faults' + errors'
               /\ ~Stands(s)' => undoings'[s] <= faults' + errors'
    <2>0. /\ process[p] \in ProcessRecord /\ \A q \in Processes : q # p => process'[q] = process[q]
          /\ \A q \in Processes : q # p => ~Compensates(q)
      <3>1. /\ Compensates(p) /\ \A q \in Processes : q # p => process'[q] = process[q]
        BY <1>7, CompensateEffects
      <3>2. process[p] \in ProcessRecord
        BY <1>0
      <3> QED
        BY <1>1, <3>1, <3>2 DEF Alone
    <2>1. CASE ReadAttempts(p) \/ MarkRunCompensationFailed(p) \/ EndCompensation(p)
      <3>1. log' = log /\ undoings' = undoings /\ process[p].pc # "returned"
        BY <2>1 DEF ReadAttempts, MarkRunCompensationFailed, EndCompensation, counters
      <3>2. process'[p].pc # "erring"
        <4>1. CASE ReadAttempts(p)
          <5>1. PICK items : process' = [process EXCEPT ![p].pc = "compensating", ![p].items = items]
            BY <4>1 DEF ReadAttempts
          <5> QED
            BY <1>0, <2>0, <5>1 DEF ProcessRecord
        <4>2. CASE MarkRunCompensationFailed(p) \/ EndCompensation(p)
          <5>1. process'[p] = Idle
            BY <1>0, <4>2 DEF MarkRunCompensationFailed, EndCompensation
          <5> QED
            BY <5>1 DEF Idle
        <4> QED
          BY <2>1, <4>1, <4>2
      <3>3. Done("compensate", s) => Done("compensate", s)'
        BY <3>1, UnmovedLog DEF Done
      <3> QED
        BY <1>0, <1>3, <2>0, <3>1, <3>2, <3>3, StandsOn
    <2>2. CASE BeginCompensation(p)
      <3>1. /\ process[p].pc = "compensating" /\ process[p].items # <<>>
            /\ log' = Begun("compensate", Head(process[p].items))
            /\ process' = [process EXCEPT ![p].pc = "undoing", ![p].attempt = Len(log')]
            /\ undoings' = undoings
        BY <2>2 DEF BeginCompensation, counters
      <3>2. PICK t \in Steps : t = Head(process[p].items)
        BY <2>0, <3>1, HeadTailProperties, HandlersAreSteps DEF ProcessRecord
      <3>3. log' = Begun("compensate", t)
        BY <3>1, <3>2
      <3>4. Done("compensate", s) => Done("compensate", s)'
        BY <3>3, BeginKeeps DEF Done
      <3>5. process'[p].pc = "undoing"
        BY <1>0, <2>0, <3>1 DEF ProcessRecord
      <3> QED
        BY <1>0, <1>3, <2>0, <3>1, <3>4, <3>5, StandsOn
    <2>3. CASE HandlerReturns(p)
      <3>1. PICK h : h = log[process[p].attempt].step
        OBVIOUS
      <3>2. /\ process[p].pc = "undoing" /\ log' = log /\ UNCHANGED <<faults, errors>>
            /\ process' = [process EXCEPT ![p].pc = "returned"]
            /\ undoings' = [undoings EXCEPT ![h] = @ + 1]
        BY <2>3, <3>1 DEF HandlerReturns
      <3>3. process'[p].pc = "returned" /\ process'[p].attempt = process[p].attempt
        BY <1>0, <2>0, <3>2 DEF ProcessRecord
      <3>4. CASE s # h
        <4>1. undoings'[s] = undoings[s]
          BY <1>0, <3>2, <3>4
        <4>2. Done("compensate", s) => Done("compensate", s)'
          BY <3>2, UnmovedLog DEF Done
        <4> QED
          BY <1>0, <1>3, <2>0, <3>2, <3>3, <4>1, <4>2, StandsOn
      <3>5. CASE s = h
        <4>1. Stands(s)'
          BY <3>1, <3>2, <3>3, <3>5 DEF Stands
        <4>2. ~Stands(s)
          <5>1. \A q \in Processes : process[q].pc \notin {"returned", "erring"}
            BY <2>0, <3>2 DEF Compensates, Undoes
          <5>2. ~Done("compensate", s)
            <6>1. /\ process[p].items \in Walks(Left(p)) /\ Left(p) \in SUBSET Handlers
                  /\ \A t \in Left(p) : Done("forward", t)
              BY <1>1, <3>2, LeftIsDone DEF Undoes
            <6>2. process[p].items # <<>> /\ h = Head(process[p].items)
              BY <3>1, <3>2 DEF TypeInv, Fits
            <6>3. h \in Left(p)
              BY <6>1, <6>2, TailWalks DEF TypeInv
            <6> QED
              BY <3>2, <3>5, <6>3 DEF Left, Compensatable
          <5> QED
            BY <5>1, <5>2 DEF Stands
        <4>3. undoings'[s] = undoings[s] + 1
          BY <1>0, <3>2, <3>5
        <4> QED
          BY <1>1, <1>2, <3>2, <4>1, <4>2, <4>3
      <3> QED
        BY <3>4, <3>5
    <2>4. CASE CompleteStepAttempt(p)
      <3>1. /\ process[p].pc = "returned" /\ log' = Settled(p, "completed")
            /\ process' = [process EXCEPT ![p].pc = "compensating", ![p].items = Tail(@)]
            /\ undoings' = undoings
        BY <2>4 DEF CompleteStepAttempt, counters
      <3>2. PICK a : a = process[p].attempt
        OBVIOUS
      <3>3. Busy(p) /\ log[a].kind = "compensate" /\ log[a].status = "started"
        BY <3>1, <3>2 DEF TypeInv, Fits, Busy, Undoes
      <3>4. AttemptsOf("compensate", s, "completed")' =
               AttemptsOf("compensate", s, "completed") \cup
                  (IF s = log[a].step THEN {a} ELSE {})
        BY <3>1, <3>2, <3>3, SettleAdds
      <3>5. \A q \in Processes : process'[q].pc # "erring"
        <4>1. process'[p].pc = "compensating"
          BY <1>0, <2>0, <3>1 DEF ProcessRecord
        <4> QED
          BY <2>0, <4>1 DEF Compensates, Undoes
      <3>6. \A q \in Processes : process[q].pc = "returned" => q = p
        BY <2>0 DEF Compensates, Undoes
      <3>7. Stands(s) => Done("compensate", s)'
        BY <3>2, <3>4, <3>6 DEF Stands, Done
      <3>8. Stands(s) => Stands(s)'
        BY <3>5, <3>7 DEF Stands
      <3> QED
        BY <1>3, <3>1, <3>8
    <2>5. CASE CompletionErrs(p)
      BY <1>4, <2>5 DEF CompletionErrs
    <2>6. CASE FailStepAttempt(p)
      <3>1. PICK pc \in {"compensating", "givingUp"} : process' = [process EXCEPT ![p].pc = pc]
        BY <2>6 DEF FailStepAttempt
      <3>2. /\ process[p].pc \in {"undoing", "erring"} /\ log' = Settled(p, "failed")
            /\ undoings' = undoings
        BY <2>6 DEF FailStepAttempt, counters
      <3>3. process'[p].pc # "erring"
        BY <1>0, <2>0, <3>1 DEF ProcessRecord
      <3>4. PICK a : a = process[p].attempt
        OBVIOUS
      <3>5. Busy(p) /\ (process[p].pc = "undoing" => log[a].status = "started")
        BY <3>2, <3>4 DEF TypeInv, Fits, Busy, Undoes
      <3>6. /\ a \in AttemptsOf("compensate", s, "completed") =>
                  log[a].status = "completed" /\ s = log[a].step
            /\ AttemptsOf("compensate", s, "completed")' =
                  (AttemptsOf("compensate", s, "completed") \ {a}) \cup {}
        BY <3>2, <3>4, <3>5, Settles
      <3>7. ASSUME Stands(s)
            PROVE  Stands(s)'
        <4>1. \A q \in Processes : process[q].pc # "returned"
          BY <2>0, <3>2 DEF Compensates, Undoes
        <4>2. Done("compensate", s) /\ ~(process[p].pc = "erring" /\ log[a].step = s)
          BY <3>4, <3>7, <4>1 DEF Stands
        <4>3. a \notin AttemptsOf("compensate", s, "completed")
          BY <3>2, <3>5, <3>6, <4>2
        <4>4. AttemptsOf("compensate", s, "completed")' = AttemptsOf("compensate", s, "completed")
          BY <3>6, <4>3
        <4>5. Done("compensate", s)'
          BY <4>2, <4>4 DEF Done
        <4>6. \A q \in Processes : process'[q].pc # "erring"
          BY <2>0, <3>3 DEF Compensates, Undoes
        <4> QED
          BY <4>5, <4>6 DEF Stands
      <3> QED
        BY <1>3, <3>2, <3>7
    <2> QED
      BY <1>7, <2>1, <2>2, <2>3, <2>4, <2>5, <2>6 DEF Compensate
  <1> QED
    BY <1>5, <1>6, <1>7, Effects

-----------------------------------------------------------------------------
(* The failures of the handlers.                                           *)

\* The attempts of a kind and a step are numbered from one, each with a number of its own.
LEMMA Numbers ==
    ASSUME TypeOK, NEW n \in DOMAIN log
    PROVE  /\ NumberOf(n) \in Nat /\ NumberOf(n) >= 1
           /\ \A m \in DOMAIN log : /\ log[m].kind = log[n].kind /\ log[m].step = log[n].step
                                    /\ n < m
                 => NumberOf(n) < NumberOf(m)
  <1> DEFINE Like(m) == {x \in 1..m : log[x].kind = log[m].kind /\ log[x].step = log[m].step}
  <1>1. DOMAIN log = 1..Len(log) /\ Len(log) \in Nat
    BY LenProperties DEF TypeOK
  <1>2. \A m \in DOMAIN log : NumberOf(m) = Cardinality(Like(m))
    BY DEF NumberOf
  <1>3. \A m \in DOMAIN log : IsFiniteSet(Like(m)) /\ Cardinality(Like(m)) \in Nat
    <2> SUFFICES ASSUME NEW m \in DOMAIN log
                 PROVE  IsFiniteSet(Like(m)) /\ Cardinality(Like(m)) \in Nat
      OBVIOUS
    <2>1. m \in Int /\ IsFiniteSet(1..m) /\ Like(m) \in SUBSET (1..m)
      BY <1>1, FS_Interval
    <2>2. IsFiniteSet(Like(m))
      BY <2>1, FS_Subset
    <2> QED
      BY <2>2, FS_CardinalityType
  <1>4. NumberOf(n) \in Nat /\ NumberOf(n) >= 1
    <2>1. n \in Like(n)
      BY <1>1
    <2>2. Cardinality(Like(n)) # 0
      BY <1>3, <2>1, FS_EmptySet
    <2> QED
      BY <1>2, <1>3, <2>2
  <1>5. ASSUME NEW m \in DOMAIN log, log[m].kind = log[n].kind, log[m].step = log[n].step, n < m
        PROVE  NumberOf(n) < NumberOf(m)
    <2>1. Like(n) \subseteq Like(m) /\ m \in Like(m) /\ m \notin Like(n)
      BY <1>1, <1>5
    <2>2. Like(n) \subseteq Like(m) \cup {m}
      BY <2>1
    <2> HIDE DEF Like
    <2>3. PICK S : S = Like(m)
      OBVIOUS
    <2>4. PICK T : T = Like(n)
      OBVIOUS
    <2>5. Cardinality(T) + 1 <= Cardinality(S)
      BY <1>3, <2>1, <2>2, <2>3, <2>4, OneIn
    <2> QED
      BY <1>2, <1>3, <2>3, <2>4, <2>5
  <1> QED
    BY <1>4, <1>5

LEMMA NumbersStay ==
    ASSUME TypeOK, KeepKinds
    PROVE  \A n \in DOMAIN log : NumberOf(n)' = NumberOf(n)
  <1> SUFFICES ASSUME NEW n \in DOMAIN log PROVE NumberOf(n)' = NumberOf(n)
    OBVIOUS
  <1>1. \A m \in 1..n : log'[m].kind = log[m].kind /\ log'[m].step = log[m].step
    <2>1. DOMAIN log = 1..Len(log)
      BY LenProperties DEF TypeOK
    <2> QED
      BY <2>1 DEF KeepKinds
  <1>2. log'[n].kind = log[n].kind /\ log'[n].step = log[n].step
    BY DEF KeepKinds
  <1>3. {m \in 1..n : log'[m].kind = log'[n].kind /\ log'[m].step = log'[n].step}
           = {m \in 1..n : log[m].kind = log[n].kind /\ log[m].step = log[n].step}
    BY <1>1, <1>2
  <1> QED
    BY <1>3 DEF NumberOf

\* Only the failures before the last number are retried, and there are few of them.
LEMMA FewRetried ==
    ASSUME TypeOK, NEW s \in Handlers
    PROVE  /\ IsFiniteSet(LastFailures(s)) /\ Cardinality(LastFailures(s)) \in Nat
           /\ Cardinality(Failures(s)) \in Nat
           /\ Cardinality(Failures(s)) <= MaxAttempts - 1 + Cardinality(LastFailures(s))
  <1>1. DOMAIN log = 1..Len(log) /\ Len(log) \in Nat /\ MaxAttempts \in Nat \ {0}
    BY LenProperties, CompensationAssumption DEF TypeOK
  <1>2. PICK F : F = Failures(s)
    OBVIOUS
  <1>3. PICK L : L = LastFailures(s)
    OBVIOUS
  <1>4. PICK R : R = {n \in F : NumberOf(n) < MaxAttempts}
    OBVIOUS
  <1>5. \A n \in F : /\ n \in DOMAIN log /\ n \in Int /\ NumberOf(n) \in Nat /\ NumberOf(n) >= 1
                     /\ log[n].kind = "compensate" /\ log[n].step = s
    <2>1. \A n \in F : n \in DOMAIN log /\ log[n].kind = "compensate" /\ log[n].step = s
      BY <1>2 DEF Failures, AttemptsOf
    <2> QED
      BY <1>1, <2>1, Numbers
  <1>6. F = L \cup R /\ L \subseteq F /\ R \subseteq F
    <2>1. L = {n \in F : NumberOf(n) >= MaxAttempts}
      BY <1>2, <1>3 DEF LastFailures
    <2> QED
      BY <1>1, <1>4, <1>5, <2>1
  <1>7. IsFiniteSet(F) /\ IsFiniteSet(L) /\ IsFiniteSet(R)
    <2>1. IsFiniteSet(1..Len(log)) /\ F \in SUBSET (1..Len(log))
      BY <1>1, <1>5, FS_Interval
    <2>2. IsFiniteSet(F)
      BY <2>1, FS_Subset
    <2> QED
      BY <1>6, <2>2, FS_Subset
  <1>8. Cardinality(F) \in Nat /\ Cardinality(L) \in Nat /\ Cardinality(R) \in Nat
    BY <1>7, FS_CardinalityType
  <1>9. Cardinality(R) <= MaxAttempts - 1
    <2>1. PICK f : f = [n \in R |-> NumberOf(n)]
      OBVIOUS
    <2>2. f \in [R -> 1..(MaxAttempts - 1)]
      <3>1. \A n \in R : NumberOf(n) \in 1..(MaxAttempts - 1)
        BY <1>1, <1>4, <1>5
      <3> QED
        BY <2>1, <3>1
    <2>3. \A n, m \in R : f[n] = f[m] => n = m
      <3> SUFFICES ASSUME NEW n \in R, NEW m \in R, NumberOf(n) = NumberOf(m) PROVE n = m
        BY <2>1
      <3>1. /\ n \in DOMAIN log /\ m \in DOMAIN log /\ n \in Int /\ m \in Int
            /\ log[n].kind = log[m].kind /\ log[n].step = log[m].step
            /\ NumberOf(n) \in Nat /\ NumberOf(m) \in Nat
        BY <1>4, <1>5
      <3>2. ~(n < m) /\ ~(m < n)
        <4>1. n < m => NumberOf(n) < NumberOf(m)
          BY <3>1, Numbers
        <4>2. m < n => NumberOf(m) < NumberOf(n)
          BY <3>1, Numbers
        <4> QED
          BY <3>1, <4>1, <4>2
      <3> QED
        BY <3>1, <3>2
    <2>4. f \in Injection(R, 1..(MaxAttempts - 1))
      BY <2>2, <2>3 DEF Injection, IsInjective
    <2>5. /\ IsFiniteSet(1..(MaxAttempts - 1))
          /\ Cardinality(1..(MaxAttempts - 1)) = MaxAttempts - 1
      <3>1. PICK k \in Nat : k = MaxAttempts - 1
        BY <1>1
      <3>2. 1 \in Int /\ k \in Int
        OBVIOUS
      <3>3. IsFiniteSet(1..k) /\ Cardinality(1..k) = IF 1 > k THEN 0 ELSE k - 1 + 1
        BY <3>2, FS_Interval
      <3> QED
        BY <3>1, <3>3
    <2>6. Cardinality(R) <= Cardinality(1..(MaxAttempts - 1))
      BY <2>4, <2>5, FS_Injection
    <2> QED
      BY <2>5, <2>6
  <1>10. Cardinality(F) <= Cardinality(L) + Cardinality(R)
    <2>1. Cardinality(L \cup R) = Cardinality(L) + Cardinality(R) - Cardinality(L \cap R)
      BY <1>7, FS_Union
    <2>2. IsFiniteSet(L \cap R)
      BY <1>7, FS_Subset
    <2>3. Cardinality(L \cap R) \in Nat
      BY <2>2, FS_CardinalityType
    <2> QED
      BY <1>6, <1>8, <2>1, <2>3
  <1> QED
    BY <1>1, <1>2, <1>3, <1>7, <1>8, <1>9, <1>10

\* What joins the failures joins the last failures only with a number that is high enough.
LEMMA LastFailuresGrow ==
    ASSUME TypeOK, KeepKinds, NEW A, NEW s,
           Failures(s)' \subseteq Failures(s) \cup A
    PROVE  LastFailures(s)' \subseteq LastFailures(s) \cup A
  <1>1. \A n \in Failures(s) : n \in DOMAIN log
    BY DEF Failures, AttemptsOf
  <1>2. \A n \in DOMAIN log : NumberOf(n)' = NumberOf(n)
    BY NumbersStay
  <1>3. LastFailures(s)' = {n \in Failures(s)' : NumberOf(n)' >= MaxAttempts}
    BY DEF LastFailures
  <1> QED
    BY <1>1, <1>2, <1>3 DEF LastFailures

LEMMA SameFailures ==
    ASSUME TypeOK, KeepKinds, SameUndo
    PROVE  \A s : LastFailures(s)' \subseteq LastFailures(s)
  <1> SUFFICES ASSUME NEW s PROVE LastFailures(s)' \subseteq LastFailures(s) \cup {}
    OBVIOUS
  <1>1. Failures(s)' \subseteq Failures(s) \cup {}
    BY DEF Failures, SameUndo
  <1> QED
    BY <1>1, LastFailuresGrow

\* A process gives up when one more of its failures was the last, and only then.
GaveUp(p) ==
    /\ Undoes(p) /\ GivesUp(p)' /\ UNCHANGED <<walks, faults>>
    /\ \A q \in Processes : q # p => process'[q] = process[q]
    /\ \A s : LastFailures(s)' \subseteq LastFailures(s) \cup {process[p].attempt}

LEMMA CompensateFailures ==
    ASSUME TypeInv, NEW p \in Processes, Compensate(p)
    PROVE  GaveUp(p) \/ \A s : LastFailures(s)' \subseteq LastFailures(s)
  <1>0. /\ process \in [Processes -> ProcessRecord] /\ process[p] \in ProcessRecord /\ TypeOK
        /\ KeepKinds /\ walks' = walks /\ faults' = faults
        /\ \A q \in Processes : q # p => process'[q] = process[q]
    BY CompensateEffects DEF TypeInv, TypeOK
  <1>1. ASSUME \A s : Failures(s)' \subseteq Failures(s) \cup {}
        PROVE  \A s : LastFailures(s)' \subseteq LastFailures(s)
    <2>1. \A s : LastFailures(s)' \subseteq LastFailures(s) \cup {}
      BY <1>0, <1>1, LastFailuresGrow
    <2> QED
      BY <2>1
  <1>2. CASE log' = log
    <2>1. \A s : Failures(s)' \subseteq Failures(s) \cup {}
      BY <1>2 DEF Failures, AttemptsOf
    <2> QED
      BY <1>1, <2>1
  <1>3. CASE BeginCompensation(p)
    <2>1. process[p].items # <<>> /\ log' = Begun("compensate", Head(process[p].items))
      BY <1>3 DEF BeginCompensation
    <2>2. PICK t \in Steps : t = Head(process[p].items)
      BY <1>0, <2>1, HeadTailProperties, HandlersAreSteps DEF ProcessRecord
    <2>3. log' = Begun("compensate", t)
      BY <2>1, <2>2
    <2>4. \A s : Failures(s)' \subseteq Failures(s) \cup {}
      BY <2>3, BeginKeeps DEF Failures
    <2> QED
      BY <1>1, <2>4
  <1>4. CASE Busy(p) /\ log' = Settled(p, "completed")
    <2>1. PICK a : a = process[p].attempt
      OBVIOUS
    <2>2. \A t : AttemptsOf("compensate", t, "failed")' =
                    (AttemptsOf("compensate", t, "failed") \ {a}) \cup {}
      BY <1>4, <2>1, Settles
    <2>3. \A s : Failures(s)' \subseteq Failures(s) \cup {}
      BY <2>2 DEF Failures
    <2> QED
      BY <1>1, <2>3
  <1>5. CASE FailStepAttempt(p)
    <2>1. PICK a : a = process[p].attempt
      OBVIOUS
    <2>2. Undoes(p) /\ Busy(p) /\ log' = Settled(p, "failed")
      BY <1>5 DEF FailStepAttempt, Undoes, Busy
    <2>3. a \in DOMAIN log
      <3>1. DOMAIN log = 1..Len(log)
        BY LenProperties DEF TypeInv, TypeOK
      <3> QED
        BY <2>1, <2>2, <3>1 DEF TypeInv, Fits, Undoes
    <2>4. \A s : Failures(s)' \subseteq Failures(s) \cup {a}
      <3>1. \A t : AttemptsOf("compensate", t, "failed")' =
                      (AttemptsOf("compensate", t, "failed") \ {a}) \cup
                         (IF t = log[a].step /\ "compensate" = log[a].kind THEN {a} ELSE {})
        BY <2>1, <2>2, Settles
      <3> QED
        BY <3>1 DEF Failures
    <2>5. \A s : LastFailures(s)' \subseteq LastFailures(s) \cup {a}
      BY <1>0, <2>4, LastFailuresGrow
    <2>6. CASE NumberOf(a) < MaxAttempts
      <3>1. NumberOf(a)' = NumberOf(a) /\ NumberOf(a) \in Nat /\ MaxAttempts \in Nat
        BY <1>0, <2>3, NumbersStay, Numbers, CompensationAssumption
      <3>2. \A s : a \notin LastFailures(s)'
        BY <2>6, <3>1 DEF LastFailures
      <3> QED
        BY <2>5, <3>2
    <2>7. CASE ~(NumberOf(a) < MaxAttempts)
      <3>1. process'[p].pc = "givingUp"
        BY <1>0, <1>5, <2>1, <2>7 DEF FailStepAttempt, ProcessRecord
      <3> QED
        BY <1>0, <2>1, <2>2, <2>5, <3>1 DEF GaveUp, GivesUp
    <2> QED
      BY <2>6, <2>7
  <1>6. CASE CompleteStepAttempt(p) \/ CompletionErrs(p)
    BY <1>2, <1>4, <1>6 DEF CompleteStepAttempt, CompletionErrs, Busy, Undoes
  <1>7. ReadAttempts(p) \/ HandlerReturns(p) \/ MarkRunCompensationFailed(p) \/ EndCompensation(p)
           => log' = log
    BY DEF ReadAttempts, HandlerReturns, MarkRunCompensationFailed, EndCompensation
  <1> QED
    BY <1>2, <1>3, <1>5, <1>6, <1>7 DEF Compensate

LEMMA LastFailuresStep ==
    ASSUME TypeInv, Next
    PROVE  \/ \E p \in Processes : GaveUp(p)
           \/ \A s : LastFailures(s)' \subseteq LastFailures(s)
  <1>1. KeepKinds /\ TypeOK
    BY Effects DEF TypeInv
  <1>2. SameUndo => \A s : LastFailures(s)' \subseteq LastFailures(s)
    BY <1>1, SameFailures
  <1> QED
    BY <1>2, Effects, CompensateFailures DEF Rests, SetsOut

-----------------------------------------------------------------------------
(* Escalation.                                                             *)

\* A run whose compensation has failed stays so, and only a retry takes back the end of a run.
LEMMA EndedStays ==
    ASSUME TypeInv, Next, row.status \in {"failed", "canceled", "compensation_failed"}
    PROVE  /\ \/ row'.status \in {"failed", "canceled", "compensation_failed"}
              \/ retries' = retries + 1
           /\ row.status = "compensation_failed" => row'.status = "compensation_failed"
  <1>0. row \in Row
    BY DEF TypeInv, TypeOK
  <1>1. \A w \in WorkerIds : ~Executes(w)
    BY Holding
  <1>2. CASE \E w \in WorkerIds : WorkerStep(w)
    <2>1. row' = row
      BY <1>1, <1>2 DEF WorkerStep, Claim, CompleteRun, CompleteStep, FailStep,
         ExhaustBudget, LoseLease, OpenWait, Claimable
    <2> QED
      BY <2>1
  <1>3. ASSUME NEW p \in Processes, Compensate(p)
        PROVE  row' = row \/ row'.status = "compensation_failed"
    <2>1. [Release(row) EXCEPT !.status = "compensation_failed"].status = "compensation_failed"
      BY <1>0 DEF Release, Row
    <2>2. MarkRunCompensationFailed(p) => row' = row \/ row'.status = "compensation_failed"
      BY <2>1 DEF MarkRunCompensationFailed
    <2> QED
      BY <1>3, <2>2 DEF Compensate, ReadAttempts, BeginCompensation, HandlerReturns,
         CompleteStepAttempt, CompletionErrs, FailStepAttempt, EndCompensation
  <1>4. CASE \E p \in Processes : Crash(p)
    <2>1. row'.status = row.status
      BY <1>0, <1>4 DEF Crash, Row
    <2> QED
      BY <2>1
  <1>5. ASSUME NEW o \in Operators, Terminate(o)
        PROVE  row'.status = "canceled" /\ row.status # "compensation_failed"
    <2>1. row' = CanceledRow(row) /\ Cancelable(row)
      BY <1>5 DEF Terminate
    <2>2. CanceledRow(row).status = "canceled"
      BY <1>0 DEF CanceledRow, Release, Row
    <2> QED
      BY <2>1, <2>2 DEF Cancelable
  <1>6. CASE \E o \in Operators : NothingToCompensate(o)
    BY <1>6 DEF NothingToCompensate
  <1>7. CASE RetryRun
    BY <1>7 DEF RetryRun, Retriable
  <1>8. ~ResumeWait /\ ~ExpireWait
    BY DEF ResumeWait, ExpireWait
  <1> QED
    BY <1>2, <1>3, <1>4, <1>5, <1>6, <1>7, <1>8 DEF Next

\* Unless a process dies, what has escalated goes on.
LEMMA EscalatedStays ==
    ASSUME TypeInv, Next, Escalated, faults' = faults,
           (\E p \in Processes : Compensates(p)) =>
              row.status \in {"failed", "canceled", "compensation_failed"}
    PROVE  Escalated'
  <1>0. process \in [Processes -> ProcessRecord] /\ row \in Row /\ faults \in Nat
    BY DEF TypeInv, TypeOK
  <1>1. CASE row.status = "compensation_failed"
    BY <1>1, EndedStays DEF Escalated
  <1>2. ASSUME NEW p \in Processes, GivesUp(p)
        PROVE  Escalated'
    <2>1. Compensates(p) /\ ~Undoes(p) /\ process[p].pc = "givingUp"
      BY <1>2 DEF GivesUp, Compensates, Undoes
    <2>2. CASE process'[p] = process[p]
      <3>1. GivesUp(p)'
        BY <2>1, <2>2 DEF GivesUp
      <3> QED
        BY <3>1 DEF Escalated
    <2>3. ~Rests(p) /\ ~SetsOut(p)
      <3>1. faults' # faults + 1
        BY <1>0
      <3> QED
        BY <2>1, <3>1 DEF Rests, SetsOut
    <2>4. CASE Compensate(p)
      <3>1. MarkRunCompensationFailed(p)
        BY <2>1, <2>4 DEF Compensate, ReadAttempts, BeginCompensation, HandlerReturns,
           CompleteStepAttempt, CompletionErrs, FailStepAttempt, EndCompensation
      <3>2. row' = [Release(row) EXCEPT !.status = "compensation_failed"]
        BY <2>1, <3>1 DEF MarkRunCompensationFailed
      <3>3. row'.status = "compensation_failed"
        BY <1>0, <3>2 DEF Release, Row
      <3> QED
        BY <3>3 DEF Escalated
    <2> QED
      BY <2>2, <2>3, <2>4, Effects
  <1> QED
    BY <1>1, <1>2 DEF Escalated

LEMMA OneEachStep ==
    ASSUME TypeInv, OneEach, Next
    PROVE  OneEach'
  <1> SUFFICES ASSUME NEW s \in Handlers
               PROVE  (Cardinality(LastFailures(s)) + Cardinality(Walkers) <= walks)'
    BY DEF OneEach
  <1>0. process \in [Processes -> ProcessRecord] /\ TypeOK /\ walks \in Nat
    BY DEF TypeInv, TypeOK
  <1>1. PICK S : S = Walkers
    OBVIOUS
  <1>2. PICK T : T = Walkers'
    OBVIOUS
  <1>3. PICK L : L = LastFailures(s)
    OBVIOUS
  <1>4. PICK M : M = LastFailures(s)'
    OBVIOUS
  <1>5. /\ IsFiniteSet(L) /\ Cardinality(L) \in Nat /\ IsFiniteSet(S) /\ Cardinality(S) \in Nat
        /\ Cardinality(L) + Cardinality(S) <= walks
    <2>1. IsFiniteSet(Processes) /\ S \subseteq Processes
      BY <1>1, CompensationAssumption DEF Processes, Walkers
    <2>2. IsFiniteSet(S)
      BY <2>1, FS_Subset
    <2>3. Cardinality(S) \in Nat
      BY <2>2, FS_CardinalityType
    <2> QED
      BY <1>0, <1>1, <1>3, <2>2, <2>3, FewRetried DEF OneEach
  <1>6. CASE \E p \in Processes : GaveUp(p)
    <2>1. PICK p \in Processes : GaveUp(p)
      BY <1>6
    <2>2. /\ process[p].pc \in {"undoing", "returned", "erring"} /\ process'[p].pc = "givingUp"
          /\ \A q \in Processes : q # p => process'[q] = process[q]
          /\ walks' = walks /\ M \subseteq L \cup {process[p].attempt}
      BY <1>3, <1>4, <2>1 DEF GaveUp, Undoes, GivesUp
    <2>3. T \subseteq S \cup {p} /\ p \in S /\ p \notin T
      BY <1>1, <1>2, <2>2 DEF Walkers, Compensates, Undoes
    <2>4. Cardinality(T) + 1 <= Cardinality(S) /\ Cardinality(T) \in Nat
      BY <1>5, <2>3, OneIn
    <2>5. Cardinality(M) <= Cardinality(L) + 1 /\ Cardinality(M) \in Nat
      BY <1>5, <2>2, OneIn
    <2>6. Cardinality(M) + Cardinality(T) <= walks'
      BY <1>0, <1>5, <2>2, <2>4, <2>5
    <2> QED
      BY <1>2, <1>4, <2>6
  <1>7. CASE M \subseteq L
    <2>1. Cardinality(M) <= Cardinality(L) /\ Cardinality(M) \in Nat
      <3>1. M \subseteq L \cup {0}
        BY <1>7
      <3> QED
        BY <1>5, <1>7, <3>1, OneIn
    <2>2. CASE UNCHANGED <<process, walks>>
      <3>1. T = S
        BY <1>1, <1>2, <2>2 DEF Walkers, Compensates, Undoes
      <3>2. Cardinality(M) + Cardinality(T) <= walks'
        BY <1>0, <1>5, <2>1, <2>2, <3>1
      <3> QED
        BY <1>2, <1>4, <3>2
    <2>3. ASSUME NEW p \in Processes, \A q \in Processes : q # p => process'[q] = process[q],
                 Rests(p) \/ SetsOut(p) \/ Compensate(p)
          PROVE  Cardinality(M) + Cardinality(T) <= walks'
      <3>1. T \subseteq S \cup {p}
        BY <1>1, <1>2, <2>3 DEF Walkers, Compensates, Undoes
      <3>2. /\ Cardinality(T) \in Nat /\ Cardinality(T) <= Cardinality(S) + 1
            /\ T \subseteq S => Cardinality(T) <= Cardinality(S)
        BY <1>5, <3>1, OneIn
      <3>3. CASE SetsOut(p)
        BY <1>0, <1>5, <2>1, <3>2, <3>3 DEF SetsOut
      <3>4. CASE Rests(p)
        <4>1. p \notin T
          BY <1>2, <3>4 DEF Walkers, Compensates, Undoes, Rests
        <4>2. T \subseteq S /\ walks' = walks
          BY <3>1, <3>4, <4>1 DEF Rests
        <4> QED
          BY <1>0, <1>5, <2>1, <3>2, <4>2
      <3>5. CASE Compensate(p)
        <4>1. Compensates(p) /\ walks' = walks
          BY <3>5, CompensateEffects
        <4>2. process[p].pc = "givingUp" => p \notin T
          <5> SUFFICES ASSUME process[p].pc = "givingUp" PROVE p \notin T
            OBVIOUS
          <5>1. process' = [process EXCEPT ![p] = Idle]
            BY <3>5 DEF Compensate, ReadAttempts, BeginCompensation, HandlerReturns,
               CompleteStepAttempt, CompletionErrs, FailStepAttempt, EndCompensation,
               MarkRunCompensationFailed
          <5>2. process'[p] = Idle
            BY <1>0, <5>1
          <5> QED
            BY <1>2, <5>2 DEF Idle, Walkers, Compensates, Undoes
        <4>3. T \subseteq S
          BY <1>1, <3>1, <4>1, <4>2 DEF Walkers
        <4> QED
          BY <1>0, <1>5, <2>1, <3>2, <4>1, <4>3
      <3> QED
        BY <2>3, <3>3, <3>4, <3>5
    <2> QED
      BY <1>2, <1>4, <2>2, <2>3, Effects
  <1> QED
    BY <1>3, <1>4, <1>6, <1>7, LastFailuresStep

LEMMA OneLastStep ==
    ASSUME TypeInv, Alone, OneLast, Next
    PROVE  OneLast'
  <1> SUFFICES ASSUME ~overlapped', NEW s \in Handlers
               PROVE  /\ Cardinality(LastFailures(s)') <= 1 + faults'
                      /\ ~Escalated' => Cardinality(LastFailures(s)') <= faults'
    BY DEF OneLast
  <1>0. ~overlapped /\ TypeOK /\ {faults, faults'} \subseteq Nat /\ faults' >= faults
    BY CountersGrow DEF TypeInv
  <1>1. PICK L : L = LastFailures(s)
    OBVIOUS
  <1>2. PICK M : M = LastFailures(s)'
    OBVIOUS
  <1>3. /\ IsFiniteSet(L) /\ Cardinality(L) \in Nat /\ Cardinality(L) <= 1 + faults
        /\ ~Escalated => Cardinality(L) <= faults
    BY <1>0, <1>1, FewRetried DEF OneLast
  <1>4. CASE \E p \in Processes : GaveUp(p)
    <2>1. PICK p \in Processes : GaveUp(p)
      BY <1>4
    <2>2. /\ Undoes(p) /\ GivesUp(p)' /\ faults' = faults
          /\ M \subseteq L \cup {process[p].attempt}
      BY <1>1, <1>2, <2>1 DEF GaveUp
    <2>3. ~Escalated
      <3>1. Compensates(p) /\ ~GivesUp(p)
        BY <2>2 DEF Compensates, Undoes, GivesUp
      <3>2. row.status \in {"failed", "canceled"} /\ \A q \in Processes : Compensates(q) => q = p
        BY <1>0, <3>1 DEF Alone
      <3> QED
        BY <3>1, <3>2 DEF Escalated, Compensates, GivesUp
    <2>4. Cardinality(M) <= Cardinality(L) + 1 /\ Cardinality(M) \in Nat
      BY <1>3, <2>2, OneIn
    <2>5. Escalated'
      BY <2>2 DEF Escalated
    <2> QED
      BY <1>0, <1>2, <1>3, <2>2, <2>3, <2>4, <2>5
  <1>5. CASE M \subseteq L
    <2>1. Cardinality(M) <= Cardinality(L) /\ Cardinality(M) \in Nat
      <3>1. M \subseteq L \cup {0}
        BY <1>5
      <3> QED
        BY <1>3, <1>5, <3>1, OneIn
    <2>2. CASE faults' # faults
      <3>1. faults' >= faults + 1
        BY <1>0, <2>2
      <3> QED
        BY <1>0, <1>2, <1>3, <2>1, <3>1
    <2>3. CASE faults' = faults
      <3>1. Escalated => Escalated'
        BY <1>0, <2>3, EscalatedStays DEF Alone
      <3> QED
        BY <1>0, <1>2, <1>3, <2>1, <2>3, <3>1
    <2> QED
      BY <2>2, <2>3
  <1> QED
    BY <1>1, <1>2, <1>4, <1>5, LastFailuresStep

LEMMA EndingStep ==
    ASSUME TypeInv, Ending, Next
    PROVE  Ending'
  <1> SUFFICES ASSUME retries' = 0, NEW p \in Processes, Compensates(p)'
               PROVE  row'.status \in {"failed", "canceled", "compensation_failed"}
    BY DEF Ending
  <1>0. retries = 0 /\ retries \in Nat
    BY CountersGrow DEF TypeInv, TypeOK
  <1>1. CASE Compensates(p)
    <2>1. row.status \in {"failed", "canceled", "compensation_failed"}
      BY <1>0, <1>1 DEF Ending
    <2>2. retries' # retries + 1
      BY <1>0
    <2> QED
      BY <2>1, <2>2, EndedStays
  <1>2. CASE SetsOut(p)
    BY <1>2 DEF SetsOut
  <1>3. Compensates(p) \/ SetsOut(p)
    <2>1. process'[p] = process[p] => Compensates(p)
      BY DEF Compensates, Undoes
    <2>2. ~Rests(p)
      BY DEF Rests, Compensates, Undoes
    <2> QED
      BY <2>1, <2>2, Effects, CompensateEffects
  <1> QED
    BY <1>1, <1>2, <1>3

LEMMA ToldStep ==
    ASSUME TypeInv, Alone, Ending, Told, Next
    PROVE  Told'
  <1> SUFFICES ASSUME faults' = 0, retries' = 0 \/ ~overlapped',
                      NEW s \in Handlers, LastFailures(s)' # {}
               PROVE  Escalated'
    BY DEF Told
  <1>1. faults = 0 /\ (retries = 0 \/ ~overlapped)
    BY CountersGrow
  <1>2. CASE \E p \in Processes : GaveUp(p)
    BY <1>2 DEF GaveUp, Escalated
  <1>3. CASE LastFailures(s)' \subseteq LastFailures(s)
    <2>1. Escalated
      BY <1>1, <1>3 DEF Told
    <2>2. (\E p \in Processes : Compensates(p)) =>
             row.status \in {"failed", "canceled", "compensation_failed"}
      BY <1>1 DEF Ending, Alone
    <2> QED
      BY <1>1, <2>1, <2>2, EscalatedStays
  <1> QED
    BY <1>2, <1>3, LastFailuresStep

-----------------------------------------------------------------------------
(* Who is about to undo what is left.                                      *)

LEMMA CoveredStep ==
    ASSUME TypeInv, Distinct, Covered, Next
    PROVE  Covered'
  <1> DEFINE Covers(p, s) ==
          \/ process[p].pc \in {"ended", "givingUp"}
          \/ /\ process[p].pc \in {"compensating", "undoing", "returned", "erring"}
             /\ s \in Range(process[p].items)
  <1> SUFFICES ASSUME faults' = 0, Ended', NEW s \in Handlers, Compensatable(s)'
               PROVE  \E p \in Processes : Covers(p, s)'
    BY DEF Covered, Undoes
  <1>0. /\ process \in [Processes -> ProcessRecord] /\ row \in Row /\ RowFits(row)
        /\ WorkerIds \subseteq Processes /\ Operators \subseteq Processes
        /\ faults = 0
    BY CountersGrow DEF TypeInv, TypeOK, Processes
  <1>1. row'.status = "canceled" \/ (row'.status = "failed" /\ row'.step \notin WaitSteps)
    BY DEF Ended
  <1>2. ASSUME row' = row, Compensatable(s), NEW q \in Processes, ~Covers(q, s) \/ Covers(q, s)',
               \A p \in Processes : p # q => process'[p] = process[p]
        PROVE  \E p \in Processes : Covers(p, s)'
    <2>1. Ended
      BY <1>1, <1>2 DEF Ended
    <2>2. PICK p \in Processes : Covers(p, s)
      BY <1>0, <1>2, <2>1 DEF Covered, Undoes
    <2> QED
      BY <1>2, <2>2
  <1>3. ASSUME UNCHANGED log
        PROVE  Compensatable(s)
    BY <1>3 DEF Compensatable, Done, AttemptsOf
  <1>4. ASSUME NEW w \in WorkerIds, WorkerStep(w)
        PROVE  \E p \in Processes : Covers(p, s)'
    <2>0. w \in Processes
      BY <1>0
    <2>1. ~Claim(w) /\ ~CompleteRun(w)
      BY <1>0, <1>1 DEF Claim, Claimed, CompleteRun, CompletedRow, Release, Row
    <2>2. ~CompleteStep(w) /\ ~OpenWait(w)
      BY <1>0, <1>1 DEF CompleteStep, AdvancedRow, OpenWait, WaitingRow, Release, Row
    <2>3. ~ExhaustBudget(w)
      BY <1>0, <1>1 DEF ExhaustBudget, ExhaustedRow, Release, Row
    <2>4. CASE FailStep(w)
      <3>1. process'[w] = [Idle EXCEPT !.pc = "ended"]
        BY <1>0, <2>0, <2>4 DEF FailStep
      <3>2. process'[w].pc = "ended"
        BY <3>1 DEF Idle
      <3> QED
        BY <2>0, <3>2
    <2>5. CASE LoseLease(w)
      <3>1. process[w].pc = "executing" /\ UNCHANGED <<row, log>>
        BY <2>5 DEF LoseLease
      <3>2. \A p \in Processes : p # w => process'[p] = process[p]
        BY <1>0, <2>5 DEF LoseLease
      <3>3. ~Covers(w, s) /\ Compensatable(s)
        BY <1>3, <3>1
      <3> HIDE DEF Covers
      <3> QED
        BY <1>2, <2>0, <3>1, <3>2, <3>3
    <2> QED
      BY <1>4, <2>1, <2>2, <2>3, <2>4, <2>5 DEF WorkerStep
  <1>5. ASSUME NEW p \in Processes, Compensate(p)
        PROVE  \E q \in Processes : Covers(q, s)'
    <2>0. process[p] \in ProcessRecord /\ \A q \in Processes : q # p => process'[q] = process[q]
      BY <1>0, <1>5, CompensateEffects
    <2>1. CASE ReadAttempts(p)
      <3>1. Compensatable(s)
        BY <1>3, <2>1 DEF ReadAttempts
      <3>2. PICK items \in Walks({t \in Handlers : Compensatable(t)}) :
               process' = [process EXCEPT ![p].pc = "compensating", ![p].items = items]
        BY <2>1 DEF ReadAttempts
      <3>3. s \in Range(items)
        BY <3>1 DEF Walks
      <3>4. process'[p].pc = "compensating" /\ process'[p].items = items
        BY <1>0, <2>0, <3>2 DEF ProcessRecord
      <3> QED
        BY <3>3, <3>4
    <2>2. CASE BeginCompensation(p)
      <3>1. /\ process[p].pc = "compensating" /\ process[p].items # <<>>
            /\ log' = Begun("compensate", Head(process[p].items)) /\ row' = row
            /\ process' = [process EXCEPT ![p].pc = "undoing", ![p].attempt = Len(log')]
        BY <2>2 DEF BeginCompensation
      <3>2. PICK t \in Steps : t = Head(process[p].items)
        BY <2>0, <3>1, HeadTailProperties, HandlersAreSteps DEF ProcessRecord
      <3>3. log' = Begun("compensate", t)
        BY <3>1, <3>2
      <3>4. \A k, x : AttemptsOf(k, x, "completed")' = AttemptsOf(k, x, "completed")
        BY <3>3, BeginKeeps
      <3>5. Compensatable(s)
        BY <3>4 DEF Compensatable, Done
      <3>6. process'[p].pc = "undoing" /\ process'[p].items = process[p].items
        BY <1>0, <2>0, <3>1 DEF ProcessRecord
      <3>7. ~Covers(p, s) \/ Covers(p, s)'
        BY <3>1, <3>6
      <3> HIDE DEF Covers
      <3> QED
        BY <1>2, <2>0, <3>1, <3>5, <3>7
    <2>3. CASE CompleteStepAttempt(p)
      <3>1. /\ process[p].pc = "returned" /\ log' = Settled(p, "completed") /\ row' = row
            /\ process' = [process EXCEPT ![p].pc = "compensating", ![p].items = Tail(@)]
        BY <2>3 DEF CompleteStepAttempt
      <3>2. PICK a : a = process[p].attempt
        OBVIOUS
      <3>3. /\ Busy(p) /\ process[p].items # <<>> /\ log[a].status = "started"
            /\ log[a].kind = "compensate" /\ log[a].step = Head(process[p].items)
        BY <3>1, <3>2 DEF TypeInv, Fits, Busy, Undoes
      <3>4. \A k : AttemptsOf(k, s, "completed")' = AttemptsOf(k, s, "completed") \cup
                 (IF k = log[a].kind /\ s = log[a].step THEN {a} ELSE {})
        BY <3>1, <3>2, <3>3, SettleAdds
      <3>5. Compensatable(s) /\ s # Head(process[p].items)
        BY <3>3, <3>4 DEF Compensatable, Done
      <3>6. process'[p].pc = "compensating" /\ process'[p].items = Tail(process[p].items)
        BY <1>0, <2>0, <3>1 DEF ProcessRecord
      <3>7. s \in Range(process[p].items) => s \in Range(Tail(process[p].items))
        <4>1. PICK items \in Seq(Handlers) : items = process[p].items
          BY <2>0 DEF ProcessRecord
        <4>2. \A i, j \in DOMAIN items : items[i] = items[j] => i = j
          BY <3>1, <4>1 DEF Distinct, Undoes
        <4>3. \A x : x \in Range(items) => x = Head(items) \/ x \in Range(Tail(items))
          BY <3>3, <4>1, <4>2, TailDistinct
        <4> QED
          BY <3>5, <4>1, <4>3
      <3>8. ~Covers(p, s) \/ Covers(p, s)'
        BY <3>1, <3>6, <3>7
      <3> HIDE DEF Covers
      <3> QED
        BY <1>2, <2>0, <3>1, <3>5, <3>8
    <2>4. CASE FailStepAttempt(p)
      <3>1. /\ process[p].pc \in {"undoing", "erring"} /\ Undoes(p)
            /\ log' = Settled(p, "failed") /\ row' = row
        BY <2>4 DEF FailStepAttempt, Undoes
      <3>2. PICK a : a = process[p].attempt
        OBVIOUS
      <3>3. /\ Busy(p) /\ process[p].items # <<>>
            /\ log[a].kind = "compensate" /\ log[a].step = Head(process[p].items)
        BY <3>1, <3>2 DEF TypeInv, Fits, Busy, Undoes
      <3>4. \A k : /\ a \in AttemptsOf(k, s, "completed") => k = log[a].kind /\ s = log[a].step
                   /\ AttemptsOf(k, s, "completed")' = (AttemptsOf(k, s, "completed") \ {a}) \cup {}
        BY <3>1, <3>2, <3>3, Settles
      <3>5. PICK pc \in {"compensating", "givingUp"} : process' = [process EXCEPT ![p].pc = pc]
        BY <2>4 DEF FailStepAttempt
      <3>6. process'[p].items = process[p].items /\ process'[p].pc \in {"compensating", "givingUp"}
        BY <1>0, <2>0, <3>5 DEF ProcessRecord
      <3>7. CASE s = Head(process[p].items)
        <4>1. PICK items \in Seq(Handlers) : items = process[p].items
          BY <2>0 DEF ProcessRecord
        <4>2. \A i, j \in DOMAIN items : items[i] = items[j] => i = j
          BY <3>1, <4>1 DEF Distinct
        <4>3. Head(items) \in Range(items)
          BY <3>3, <4>1, <4>2, TailDistinct
        <4>4. s \in Range(process'[p].items)
          BY <3>6, <3>7, <4>1, <4>3
        <4> QED
          BY <3>6, <4>4
      <3>8. CASE s # Head(process[p].items)
        <4>1. \A k : AttemptsOf(k, s, "completed")' = AttemptsOf(k, s, "completed")
          BY <3>3, <3>4, <3>8
        <4>2. Compensatable(s)
          BY <4>1 DEF Compensatable, Done
        <4>3. ~Covers(p, s) \/ Covers(p, s)'
          BY <3>1, <3>6
        <4> HIDE DEF Covers
        <4> QED
          BY <1>2, <2>0, <3>1, <4>2, <4>3
      <3> QED
        BY <3>7, <3>8
    <2>7. CASE HandlerReturns(p)
      <3>1. UNCHANGED <<row, log>> /\ process[p].pc = "undoing"
            /\ process' = [process EXCEPT ![p].pc = "returned"]
        BY <2>7 DEF HandlerReturns
      <3>2. process'[p].pc = "returned" /\ process'[p].items = process[p].items
        BY <1>0, <2>0, <3>1 DEF ProcessRecord
      <3>3. Covers(p, s) => Covers(p, s)'
        BY <3>1, <3>2
      <3>4. Compensatable(s)
        BY <1>3, <3>1
      <3> HIDE DEF Covers
      <3> QED
        BY <1>2, <2>0, <3>1, <3>3, <3>4
    <2>8. CASE CompletionErrs(p)
      <3>1. /\ process[p].pc = "returned" /\ row' = row
            /\ log' \in {log, Settled(p, "completed")}
            /\ process' = [process EXCEPT ![p].pc = "erring"]
        BY <2>8 DEF CompletionErrs
      <3>2. process'[p].pc = "erring" /\ process'[p].items = process[p].items
        BY <1>0, <2>0, <3>1 DEF ProcessRecord
      <3>3. Covers(p, s) => Covers(p, s)'
        BY <3>1, <3>2
      <3>4. Compensatable(s)
        <4>1. CASE log' = Settled(p, "completed")
          <5>1. PICK a : a = process[p].attempt
            OBVIOUS
          <5>2. Busy(p) /\ log[a].kind = "compensate" /\ log[a].status = "started"
            BY <3>1, <5>1 DEF TypeInv, Fits, Busy, Undoes
          <5>3. \A k : AttemptsOf(k, s, "completed")' = AttemptsOf(k, s, "completed") \cup
                     (IF k = log[a].kind /\ s = log[a].step THEN {a} ELSE {})
            BY <4>1, <5>1, <5>2, SettleAdds
          <5>4. AttemptsOf("forward", s, "completed")' = AttemptsOf("forward", s, "completed") \cup {}
            BY <5>2, <5>3
          <5> QED
            BY <5>3, <5>4 DEF Compensatable, Done
        <4> QED
          BY <1>3, <3>1, <4>1
      <3> HIDE DEF Covers
      <3> QED
        BY <1>2, <2>0, <3>1, <3>3, <3>4
    <2>5. ~MarkRunCompensationFailed(p)
      <3>1. [Release(row) EXCEPT !.status = "compensation_failed"].status = "compensation_failed"
        BY <1>0 DEF Release, Row
      <3> QED
        BY <1>1, <3>1 DEF MarkRunCompensationFailed
    <2>6. CASE EndCompensation(p)
      <3>1. UNCHANGED <<row, log>> /\ process[p].pc = "compensating" /\ process[p].items = <<>>
        BY <2>6 DEF EndCompensation
      <3>2. s \notin Range(<<>>)
        BY DEF Range
      <3>3. ~Covers(p, s) /\ Compensatable(s)
        BY <1>3, <3>1, <3>2
      <3> HIDE DEF Covers
      <3> QED
        BY <1>2, <2>0, <3>1, <3>3
    <2> QED
      BY <1>5, <2>1, <2>2, <2>3, <2>4, <2>5, <2>6, <2>7, <2>8 DEF Compensate
  <1>6. ASSUME NEW p \in Processes
        PROVE  ~Crash(p)
    <2>1. Crash(p) => faults' = 0 + 1
      BY <1>0 DEF Crash
    <2> QED
      BY <2>1
  <1>7. ASSUME NEW o \in Operators, Terminate(o)
        PROVE  \E q \in Processes : Covers(q, s)'
    <2>1. o \in Processes /\ process[o] \in ProcessRecord
      BY <1>0
    <2>2. process'[o].pc = "ended"
      BY <1>0, <1>7, <2>1 DEF Terminate, ProcessRecord
    <2> QED
      BY <2>1, <2>2
  <1>8. \A o \in Operators : ~NothingToCompensate(o)
    BY <1>1 DEF NothingToCompensate
  <1>9. ~RetryRun /\ ~ResumeWait
    BY <1>0, <1>1 DEF RetryRun, RetriedRow, ResumeWait, AdvancedRow, Release, Row
  <1>10. ~ExpireWait
    BY <1>0, <1>1 DEF ExpireWait, FailedRow, Release, Row, RowFits
  <1> QED
    BY <1>4, <1>5, <1>6, <1>7, <1>8, <1>9, <1>10 DEF Next

-----------------------------------------------------------------------------
(* The theorems.                                                           *)

IInv == /\ TypeInv /\ Alone /\ Walking /\ Paid /\ Distinct /\ Owed
        /\ OneEach /\ OneLast /\ Ending /\ Told /\ Covered

LEMMA Initially == Init => IInv
  <1> SUFFICES ASSUME Init PROVE IInv
    OBVIOUS
  <1>1. TypeInv
    BY TypeInit
  <1>2. \A p \in Processes : process[p] = Idle
    BY DEF Init
  <1>3. \A p \in Processes : process[p].pc = "idle"
    BY <1>2 DEF Idle
  <1>4. \A k, t, x : AttemptsOf(k, t, x) = {}
    <2>1. DOMAIN log = {}
      BY DEF Init
    <2> QED
      BY <2>1 DEF AttemptsOf
  <1>5. \A s : LastFailures(s) = {} /\ MayUndo(s) = {} /\ Walkers = {}
    BY <1>3, <1>4 DEF LastFailures, Failures, MayUndo, Walkers, Compensates, Undoes
  <1>6. Cardinality({}) = 0
    BY FS_EmptySet
  <1>7. /\ walks = 0 /\ faults = 0 /\ errors = 0
        /\ \A s \in Handlers : undoings[s] = 0
    BY DEF Init
  <1>8. Alone /\ Walking /\ Distinct /\ Ending
    BY <1>3 DEF Alone, Walking, WalksOn, Distinct, Ending, Compensates, Undoes
  <1>9. Paid
    BY <1>7 DEF Paid
  <1>10. Owed
    BY <1>5, <1>6, <1>7 DEF Owed
  <1>11. OneEach /\ OneLast
    BY <1>5, <1>6, <1>7 DEF OneEach, OneLast
  <1>12. Told
    BY <1>4, <1>5 DEF Told
  <1>13. Covered
    BY <1>4 DEF Covered, Compensatable, Done
  <1> QED
    BY <1>1, <1>8, <1>9, <1>10, <1>11, <1>12, <1>13 DEF IInv

LEMMA Inductively == IInv /\ [Next]_vars => IInv'
  <1> SUFFICES ASSUME IInv, [Next]_vars PROVE IInv'
    OBVIOUS
  <1>1. CASE Next
    <2>1. TypeInv' /\ Alone' /\ Walking'
      BY <1>1, TypeStep, AloneStep, WalkingStep DEF IInv
    <2>2. Paid' /\ Distinct' /\ Owed'
      BY <1>1, PaidStep, DistinctStep, OwedStep DEF IInv
    <2>3. OneEach' /\ OneLast' /\ Ending'
      BY <1>1, OneEachStep, OneLastStep, EndingStep DEF IInv
    <2>4. Told' /\ Covered'
      BY <1>1, ToldStep, CoveredStep DEF IInv
    <2> QED
      BY <2>1, <2>2, <2>3, <2>4 DEF IInv
  <1>2. CASE UNCHANGED vars
    <2>1. TypeInv'
      BY <1>2, TypeStep DEF IInv
    <2>2. /\ row' = row /\ log' = log /\ process' = process
          /\ overlapped' = overlapped /\ faults' = faults /\ errors' = errors
          /\ retries' = retries /\ walks' = walks /\ undoings' = undoings
      BY <1>2 DEF vars
    <2>3. /\ \A k, t, x : AttemptsOf(k, t, x)' = AttemptsOf(k, t, x)
          /\ \A p : Compensates(p)' = Compensates(p) /\ Undoes(p)' = Undoes(p)
      BY <2>2 DEF AttemptsOf, Compensates, Undoes
    <2>4. \A C : Walks(C)' = Walks(C)
      BY <2>3, SameWalks
    <2>5. \A k, s : Done(k, s)' <=> Done(k, s)
      BY <2>3 DEF Done
    <2>6. \A s : Compensatable(s)' <=> Compensatable(s)
      BY <2>5 DEF Compensatable
    <2>7. Alone' /\ Distinct' /\ Ending'
      BY <2>2, <2>3 DEF IInv, Alone, Distinct, Ending
    <2>8. Walking'
      <3>1. \A p : Left(p)' = Left(p)
        BY <2>2, <2>6 DEF Left
      <3>2. \A p \in Processes : WalksOn(p) => WalksOn(p)'
        BY <2>2, <2>3, <2>4, <2>5, <3>1 DEF WalksOn
      <3> QED
        BY <2>2, <3>2 DEF IInv, Walking
    <2>9. Paid'
      <3>1. \A s : Stands(s)' <=> Stands(s)
        BY <2>2, <2>5 DEF Stands
      <3> QED
        BY <2>2, <3>1 DEF IInv, Paid
    <2>10. Owed'
      <3>1. \A s : MayUndo(s)' = MayUndo(s)
        BY <2>2 DEF MayUndo
      <3> QED
        BY <2>2, <3>1 DEF IInv, Owed
    <2>11. /\ \A s : LastFailures(s)' = LastFailures(s)
           /\ Escalated' <=> Escalated
      <3>1. \A n : NumberOf(n)' = NumberOf(n)
        BY <2>2 DEF NumberOf
      <3> QED
        BY <2>2, <2>3, <3>1 DEF LastFailures, Failures, Escalated, GivesUp
    <2>12. OneEach'
      <3>1. Walkers' = Walkers
        BY <2>2, <2>3 DEF Walkers
      <3> QED
        BY <2>2, <2>11, <3>1 DEF IInv, OneEach
    <2>13. OneLast' /\ Told'
      BY <2>2, <2>11 DEF IInv, OneLast, Told
    <2>14. Covered'
      BY <2>2, <2>3, <2>6 DEF IInv, Covered, Ended
    <2> QED
      BY <2>1, <2>7, <2>8, <2>9, <2>10, <2>12, <2>13, <2>14 DEF IInv
  <1> QED
    BY <1>1, <1>2

LEMMA Invariantly == Spec => []IInv
  BY Initially, Inductively, PTL DEF Spec

\* src/lib/engine/run-loop.ts, compensateRun: unless the run is terminated or retried
\* while it is compensated, the steps are undone in the reverse of the order in which they
\* were last completed, also when another process takes the walk over.
THEOREM CompensationWalksInReverse == Spec => []WalksInReverse
  <1>1. IInv => WalksInReverse
    <2> SUFFICES ASSUME IInv, NEW p \in Processes, process[p].pc = "undoing", ~overlapped,
                        NEW t \in Handlers, Done("forward", t), ~Done("compensate", t),
                        LastDone(t) > LastDone(log[process[p].attempt].step)
                 PROVE  FALSE
      BY DEF WalksInReverse
    <2>1. PICK items : items = process[p].items
      OBVIOUS
    <2>2. PICK C : C = Left(p)
      OBVIOUS
    <2>3. items \in Walks(C) /\ C \in SUBSET Handlers /\ \A s \in C : Done("forward", s)
      BY <2>1, <2>2, LeftIsDone DEF IInv, Undoes
    <2>4. items # <<>> /\ log[process[p].attempt].step = Head(items)
      BY <2>1 DEF IInv, TypeInv, Fits
    <2>5. /\ Range(items) = C /\ DOMAIN items = 1..Len(items) /\ Len(items) \in Nat
          /\ \A i, j \in 1..Len(items) : i < j => LastDone(items[i]) > LastDone(items[j])
      BY <2>3, WalksAre
    <2>6. Head(items) = items[1] /\ 1 \in 1..Len(items) /\ Head(items) \in C
      BY <2>3, <2>4, TailWalks DEF IInv, TypeInv
    <2>7. t \in C
      BY <2>2 DEF Left, Compensatable
    <2>8. PICK j \in 1..Len(items) : t = items[j]
      BY <2>5, <2>7 DEF Range
    <2>9. LastDone(t) \in Nat /\ LastDone(Head(items)) \in Nat
      BY <2>3, <2>6, LastDoneIs DEF IInv, TypeInv
    <2>10. j # 1
      BY <2>4, <2>6, <2>8, <2>9
    <2>11. 1 < j
      BY <2>5, <2>8, <2>10
    <2>12. LastDone(Head(items)) > LastDone(t)
      BY <2>5, <2>6, <2>8, <2>11
    <2> QED
      BY <2>4, <2>9, <2>12
  <1> QED
    BY <1>1, Invariantly, PTL

\* compensateRun skips what has a completed compensation: a step is undone once, and once
\* more for every process that died and every error of a completion; when the run is
\* terminated or retried meanwhile, at most once for every process that set out, and once
\* more for every such error.
THEOREM CompensationUndoesOnce == Spec => []UndoneOnce
  <1>1. IInv => UndoneOnce
    <2> SUFFICES ASSUME IInv, NEW s \in Handlers
                 PROVE  /\ undoings[s] <= walks + errors
                        /\ ~overlapped => undoings[s] <= 1 + faults + errors
      BY DEF UndoneOnce
    <2>1. PICK S : S = MayUndo(s)
      OBVIOUS
    <2>2. Cardinality(S) \in Nat
      <3>1. S \subseteq Processes /\ IsFiniteSet(Processes)
        BY <2>1, CompensationAssumption DEF MayUndo, Processes
      <3>2. IsFiniteSet(S)
        BY <3>1, FS_Subset
      <3> QED
        BY <3>2, FS_CardinalityType
    <2>3. undoings[s] + Cardinality(S) <= walks + errors
      BY <2>1 DEF IInv, Owed
    <2>4. undoings[s] \in Nat /\ walks \in Nat /\ errors \in Nat
      BY DEF IInv, TypeInv, TypeOK
    <2>5. undoings[s] <= walks + errors
      BY <2>2, <2>3, <2>4
    <2> QED
      BY <2>5 DEF IInv, Paid
  <1> QED
    BY <1>1, Invariantly, PTL

\* compensateRun retries a handler under its policy and then marks the run
\* compensation_failed: a handler fails as often as its policy allows, and once more for
\* every death or, when walks overlap, for every walk beyond the first; its last failure
\* is written to the run unless a process died or the run was retried under the walk.
THEOREM CompensationFailuresEscalate == Spec => []FailuresEscalate
  <1>1. IInv => FailuresEscalate
    <2> SUFFICES ASSUME IInv, NEW s \in Handlers
                 PROVE  /\ Cardinality(Failures(s)) <= MaxAttempts - 1 + walks
                        /\ ~overlapped => Cardinality(Failures(s)) <= MaxAttempts + faults
                        /\ LastFailures(s) # {} /\ faults = 0 /\ (retries = 0 \/ ~overlapped)
                              => Escalated
      BY DEF FailuresEscalate, Escalated, GivesUp
    <2>0. TypeOK /\ walks \in Nat /\ faults \in Nat /\ MaxAttempts \in Nat
      BY CompensationAssumption DEF IInv, TypeInv, TypeOK
    <2>1. PICK f : f = Cardinality(Failures(s))
      OBVIOUS
    <2>2. PICK l : l = Cardinality(LastFailures(s))
      OBVIOUS
    <2>3. PICK n : n = Cardinality(Walkers)
      OBVIOUS
    <2>4. f \in Nat /\ l \in Nat /\ f <= MaxAttempts - 1 + l
      BY <2>0, <2>1, <2>2, FewRetried
    <2>5. n \in Nat
      <3>1. Walkers \subseteq Processes /\ IsFiniteSet(Processes)
        BY CompensationAssumption DEF Walkers, Processes
      <3>2. IsFiniteSet(Walkers)
        BY <3>1, FS_Subset
      <3> QED
        BY <2>3, <3>2, FS_CardinalityType
    <2>6. l + n <= walks
      BY <2>2, <2>3 DEF IInv, OneEach
    <2>7. ~overlapped => l <= 1 + faults
      BY <2>2 DEF IInv, OneLast
    <2>8. f <= MaxAttempts - 1 + walks
      BY <2>0, <2>4, <2>5, <2>6
    <2>9. ~overlapped => f <= MaxAttempts + faults
      BY <2>0, <2>4, <2>7
    <2> QED
      BY <2>1, <2>8, <2>9 DEF IInv, Told
  <1> QED
    BY <1>1, Invariantly, PTL

\* When the processes that failed and the operators that terminated the run have returned
\* from compensateRun, and none of them died, no completed step is left.
THEOREM CompensationLeavesNothing == Spec => []NothingLeftBehind
  <1>1. IInv => NothingLeftBehind
    BY DEF IInv, Covered, NothingLeftBehind, Compensates, Undoes
  <1> QED
    BY <1>1, Invariantly, PTL
=============================================================================
