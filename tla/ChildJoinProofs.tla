-------------------------- MODULE ChildJoinProofs ---------------------------
(***************************************************************************)
(* Theorems about ChildJoin, for every width, quorum and failure mode of the   *)
(* step, every fleet of workers and every number of crashes, expiries and      *)
(* retries.                                                                  *)
(***************************************************************************)
EXTENDS ChildJoin, RunStoreProofs, FiniteSetTheorems

-----------------------------------------------------------------------------
(* Type correctness.                                                       *)

Waking == {"no", "looking", "settling"}
Statuses == {"none", "open", "resumed", "expired", "canceled"}

\* What the memory of a worker may become in one step.
LEMMA WorkerMoves ==
    ASSUME worker \in [WorkerIds -> WorkerRecord], NEW w \in WorkerIds
    PROVE  /\ Tick(w) => worker' \in [WorkerIds -> WorkerRecord]
           /\ \A pc \in {"claimed", "starting", "resuming", "failing"} :
                 Goto(w, pc) => worker' \in [WorkerIds -> WorkerRecord]
           /\ worker[w].ids \in Seq(Nat)
  <1>1. Idle \in WorkerRecord
    BY DEF Idle, WorkerRecord
  <1>2. worker[w] \in WorkerRecord
    OBVIOUS
  <1>3. ASSUME NEW pc \in {"claimed", "starting", "resuming", "failing"}
        PROVE  [worker[w] EXCEPT !.pc = pc] \in WorkerRecord
    BY <1>2 DEF WorkerRecord
  <1>4. worker[w].ids \in Seq(Nat)
    BY <1>2 DEF WorkerRecord
  <1> QED
    BY <1>1, <1>3, <1>4 DEF Tick, Goto

\* The end of a child keeps the table, whichever child it is.
LEMMA EndedTypes ==
    ASSUME children \in Seq(Child), NEW c, NEW s \in {"completed", "failed", "canceled"}
    PROVE  /\ Ended(children, c, s) \in Seq(Child)
           /\ DOMAIN Ended(children, c, s) = DOMAIN children
           /\ \A d \in DOMAIN children :
                 Ended(children, c, s)[d] =
                    IF d = c THEN [children[d] EXCEPT !.status = s, !.ended = TRUE]
                             ELSE children[d]
  <1>1. PICK e : e = Ended(children, c, s)
    OBVIOUS
  <1>2. /\ DOMAIN e = DOMAIN children
        /\ \A d \in DOMAIN children :
              e[d] = IF d = c THEN [children[d] EXCEPT !.status = s, !.ended = TRUE]
                              ELSE children[d]
    BY <1>1 DEF Ended
  <1>3. \A d \in DOMAIN children : children[d] \in Child
    BY ElementOfSeq
  <1>4. \A d \in DOMAIN children : e[d] \in Child
    BY <1>2, <1>3, ZenonT(40) DEF Child
  <1>5. DOMAIN children = 1..Len(children) /\ Len(children) \in Nat
    OBVIOUS
  <1>6. e = [d \in 1..Len(children) |-> e[d]]
    BY <1>1, <1>2, <1>5 DEF Ended
  <1>7. e \in Seq(Child)
    BY <1>4, <1>5, <1>6
  <1> QED
    BY <1>1, <1>2, <1>7

\* What no step does to the children: none is removed, a completed child stays
\* completed, and one that has been terminal stays known as such.
Kept == /\ children' \in Seq(Child)
        /\ DOMAIN children \subseteq DOMAIN children'
        /\ \A c \in DOMAIN children :
              /\ children'[c].index = children[c].index
              /\ children[c].status = "completed" => children'[c].status = "completed"
              /\ children[c].ended => children'[c].ended
              /\ children'[c].status \in {"active", children[c].status} \/ children'[c].ended
        /\ \A c \in DOMAIN children' :
              c \in DOMAIN children \/ children'[c].status = "active"

\* The types of the two tables that follow the children.
SameChildren == DOMAIN children' = DOMAIN children

LEMMA UnchangedIsKept ==
    ASSUME children \in Seq(Child), children' = children
    PROVE  Kept /\ SameChildren
  BY DEF Kept, SameChildren

\* Whoever ends a child has found it active, or failed.
LEMMA EndedIsKept ==
    ASSUME children \in Seq(Child), NEW c, NEW s \in {"completed", "failed", "canceled"},
           children' = Ended(children, c, s),
           c \in DOMAIN children => children[c].status # "completed"
    PROVE  Kept /\ SameChildren
  <1>1. /\ children' \in Seq(Child)
        /\ DOMAIN children' = DOMAIN children
        /\ \A d \in DOMAIN children :
              children'[d] = IF d = c THEN [children[d] EXCEPT !.status = s, !.ended = TRUE]
                                      ELSE children[d]
    <2>1. /\ Ended(children, c, s) \in Seq(Child)
          /\ DOMAIN Ended(children, c, s) = DOMAIN children
          /\ \A d \in DOMAIN children :
                Ended(children, c, s)[d] =
                   IF d = c THEN [children[d] EXCEPT !.status = s, !.ended = TRUE]
                            ELSE children[d]
      BY EndedTypes
    <2> QED
      BY <2>1
  <1>2. \A d \in DOMAIN children : children[d] \in Child
    BY ElementOfSeq
  <1> QED
    BY <1>1, <1>2 DEF Kept, SameChildren, Child

LEMMA HardCancelIsKept ==
    ASSUME TypeOK, NEW c \in DOMAIN children, HardCancelChild(c)
    PROVE  /\ Kept /\ SameChildren
           /\ waking' \in [DOMAIN children -> Waking]
  <1>1. CASE children[c].status \in {"active", "failed"}
    <2>1. children' = Ended(children, c, "canceled")
      BY <1>1 DEF HardCancelChild
    <2>2. Kept /\ SameChildren
      BY <1>1, <2>1, EndedIsKept DEF TypeOK
    <2> QED
      BY <1>1, <2>2 DEF HardCancelChild, TypeOK, Waking
  <1>2. CASE children[c].status \notin {"active", "failed"}
    BY <1>2, UnchangedIsKept DEF HardCancelChild, TypeOK, Waking
  <1> QED
    BY <1>1, <1>2

\* The settlement of a fan-out stops children that are active, keeps the child of
\* each wait, and leaves the parent where it is or queues it at its step.
LEMMA Settling ==
    ASSUME TypeOK, NEW c, NEW status \in {"resumed", "expired"},
           SettleFanOutParent(c, status)
    PROVE  /\ Kept /\ SameChildren
           /\ wait' \in [Indices -> Wait]
           /\ \A i \in Indices : wait'[i].child = wait[i].child
           /\ row' \in {row, AdvancedRow(row, Join)}
  <1>1. PICK stops \in [DOMAIN children -> BOOLEAN] :
           /\ children' = [d \in DOMAIN children |->
                             IF stops[d]
                               THEN [children[d] EXCEPT !.status = "canceled", !.ended = TRUE]
                               ELSE children[d]]
           /\ \A d \in DOMAIN children : stops[d] => children[d].status = "active"
    <2>1. PICK failed \in BOOLEAN :
            children' = [d \in DOMAIN children |->
                           IF FailFast /\ failed /\ ~Terminal(d)
                             THEN [children[d] EXCEPT !.status = "canceled", !.ended = TRUE]
                             ELSE children[d]]
      BY DEF SettleFanOutParent
    <2>2. PICK stops : stops = [d \in DOMAIN children |-> FailFast /\ failed /\ ~Terminal(d)]
      OBVIOUS
    <2>3. stops \in [DOMAIN children -> BOOLEAN]
      BY <2>2, JoinAssumption DEF Terminal
    <2>4. \A d \in DOMAIN children : stops[d] => children[d].status = "active"
      BY <2>2 DEF Terminal
    <2>5. children' = [d \in DOMAIN children |->
                         IF stops[d]
                           THEN [children[d] EXCEPT !.status = "canceled", !.ended = TRUE]
                           ELSE children[d]]
      BY <2>1, <2>2, Zenon
    <2> QED
      BY <2>3, <2>4, <2>5
  <1>2. \A d \in DOMAIN children : children[d] \in Child
    BY ElementOfSeq DEF TypeOK
  <1>3. \A d \in DOMAIN children : children'[d] \in Child
    BY <1>1, <1>2 DEF Child
  <1>4. DOMAIN children = 1..Len(children) /\ Len(children) \in Nat
    BY DEF TypeOK
  <1>5. children' \in Seq(Child) /\ DOMAIN children' = DOMAIN children
    <2>1. children' = [d \in 1..Len(children) |-> children'[d]]
      BY <1>1, <1>4
    <2> QED
      BY <2>1, <1>3, <1>4
  <1>6. Kept /\ SameChildren
    BY <1>1, <1>2, <1>5 DEF Kept, SameChildren, Child
  <1>7. \A i \in Indices : wait[i] \in Wait
    BY DEF TypeOK
  <1>8. PICK settled : settled = [i \in Indices |->
                      IF wait[i].child = c /\ wait[i].status = "open"
                        THEN [wait[i] EXCEPT !.status = status] ELSE wait[i]]
    OBVIOUS
  <1>9. \A i \in Indices : settled[i] \in Wait /\ settled[i].child = wait[i].child
    BY <1>7, <1>8 DEF Wait
  <1>10. PICK closed : wait' = [i \in Indices |-> IF closed[i]
                       THEN [settled[i] EXCEPT !.status = "resumed"] ELSE settled[i]]
    <2>1. PICK failed \in BOOLEAN :
            wait' = [i \in Indices |->
                       IF /\ settled[i].status = "open"
                          /\ FailFast /\ failed /\ ~Terminal(settled[i].child)
                         THEN [settled[i] EXCEPT !.status = "resumed"] ELSE settled[i]]
      BY <1>8 DEF SettleFanOutParent
    <2>2. PICK closed : closed = [i \in Indices |->
                          /\ settled[i].status = "open"
                          /\ FailFast /\ failed /\ ~Terminal(settled[i].child)]
      OBVIOUS
    <2> QED
      BY <2>1, <2>2
  <1>11. \A i \in Indices : wait'[i] \in Wait /\ wait'[i].child = settled[i].child
    BY <1>9, <1>10 DEF Wait
  <1>12. row' \in {row, AdvancedRow(row, Join)}
    BY DEF SettleFanOutParent
  <1> QED
    BY <1>6, <1>9, <1>10, <1>11, <1>12

\* A child that is started is appended to both tables.
LEMMA Starting ==
    ASSUME TypeOK, NEW w \in WorkerIds, StartChild(w)
    PROVE  /\ Kept
           /\ waking' \in [DOMAIN children' -> Waking]
           /\ \E c \in Nat : worker' = [worker EXCEPT ![w].ids = Append(@, c)]
           /\ worker' \in [WorkerIds -> WorkerRecord]
  <1>1. PICK i \in Nat : i = Len(worker[w].ids) + 1 /\ i <= Width
    BY WorkerMoves, JoinAssumption DEF StartChild, TypeOK
  <1>2. DOMAIN children = 1..Len(children) /\ Len(children) \in Nat
    BY DEF TypeOK
  <1>3. \E c \in Nat : worker' = [worker EXCEPT ![w].ids = Append(@, c)]
    <2>1. \/ \E c \in DOMAIN children : worker' = [worker EXCEPT ![w].ids = Append(@, c)]
          \/ worker' = [worker EXCEPT ![w].ids = Append(@, Len(children) + 1)]
      BY DEF StartChild
    <2>2. Len(children) + 1 \in Nat /\ DOMAIN children \subseteq Nat
      BY <1>2
    <2> QED
      BY <2>1, <2>2
  <1>4. worker' \in [WorkerIds -> WorkerRecord]
    <2>1. PICK c \in Nat : worker' = [worker EXCEPT ![w].ids = Append(@, c)]
      BY <1>3
    <2>2. worker[w] \in WorkerRecord /\ worker[w].ids \in Seq(Nat)
      BY WorkerMoves DEF TypeOK
    <2>3. Append(worker[w].ids, c) \in Seq(Nat)
      BY <2>2, AppendProperties
    <2>4. [worker[w] EXCEPT !.ids = Append(@, c)] \in WorkerRecord
      BY <2>2, <2>3 DEF WorkerRecord
    <2> QED
      BY <2>1, <2>4 DEF TypeOK
  <1>5. CASE children' = children /\ waking' = waking
    <2>1. Kept /\ SameChildren
      BY <1>5, UnchangedIsKept DEF TypeOK
    <2>2. waking' \in [DOMAIN children' -> Waking]
      BY <1>5 DEF TypeOK, Waking
    <2> QED
      BY <1>3, <1>4, <2>1, <2>2
  <1>6. CASE /\ children' = Append(children, [index |-> i, status |-> "active", ended |-> FALSE])
             /\ waking' = Append(waking, "no")
    <2>1. [index |-> i, status |-> "active", ended |-> FALSE] \in Child
      BY <1>1 DEF Child, Indices
    <2>2. /\ children' \in Seq(Child) /\ DOMAIN children' = 1..(Len(children) + 1)
          /\ \A c \in DOMAIN children : children'[c] = children[c]
          /\ children'[Len(children) + 1].status = "active"
      BY <1>2, <1>6, <2>1, AppendProperties DEF TypeOK
    <2>3. Kept
      BY <1>2, <2>2 DEF Kept
    <2>4. waking \in Seq(Waking) /\ Len(waking) = Len(children)
      BY <1>2 DEF TypeOK, Waking
    <2>5. waking' \in [1..(Len(children) + 1) -> Waking]
      <3>1. /\ waking' \in Seq(Waking)
            /\ Len(waking') = Len(waking) + 1
        BY <1>6, <2>4, AppendProperties DEF Waking
      <3> QED
        BY <3>1, <2>4
    <2> QED
      BY <1>3, <1>4, <2>2, <2>3, <2>5
  <1> QED
    BY <1>1, <1>3, <1>4, <1>5, <1>6 DEF StartChild

LEMMA TypeInit == Init => TypeOK
  <1> SUFFICES ASSUME Init PROVE TypeOK
    OBVIOUS
  <1>1. row \in Row
    BY JoinAssumption DEF Init, InsertedRow, AbsentRow, Row, Status
  <1>2. children \in Seq(Child) /\ DOMAIN children = {}
    BY DEF Init
  <1>3. wait \in [Indices -> Wait] /\ worker \in [WorkerIds -> WorkerRecord]
    BY DEF Init, Wait, Idle, WorkerRecord
  <1>4. waking \in [DOMAIN children -> {"no", "looking", "settling"}]
    BY DEF Init
  <1>5. 1 \in Indices
    BY JoinAssumption DEF Indices
  <1>6. slow = 0 /\ faults = 0 /\ retries = 0
    BY DEF Init
  <1> QED
    BY <1>1, <1>2, <1>3, <1>4, <1>5, <1>6 DEF Init, TypeOK

\* The type invariant is inductive, and no step loses what the children have reached.
LEMMA TypeStep == TypeOK /\ [Next]_vars => TypeOK' /\ Kept
  <1> SUFFICES ASSUME TypeOK, [Next]_vars PROVE TypeOK' /\ Kept
    OBVIOUS
  <1> USE DEF others, counters
  <1>1. /\ row \in Row /\ Join \in Steps /\ After \in Steps
        /\ children \in Seq(Child)
        /\ wait \in [Indices -> Wait]
        /\ worker \in [WorkerIds -> WorkerRecord]
        /\ waking \in [DOMAIN children -> Waking]
        /\ slow \in Nat /\ faults \in Nat /\ retries \in Nat
    BY JoinAssumption DEF TypeOK, Waking
  <1>2. ASSUME UNCHANGED children PROVE Kept /\ SameChildren
    BY <1>1, <1>2, UnchangedIsKept
  <1>3. \A i \in Indices, s \in {"none", "open", "resumed", "expired", "canceled"} :
           [wait[i] EXCEPT !.status = s] \in Wait
    BY <1>1 DEF Wait
  <1>4. ASSUME NEW w \in WorkerIds, Claim(w) PROVE TypeOK' /\ Kept
    BY <1>1, <1>2, <1>4, RowTypes, WorkerMoves DEF Claim, TypeOK
  <1>5. ASSUME NEW w \in WorkerIds, ReadChildren(w) PROVE TypeOK' /\ Kept
    <2>1. PICK n \in Nat : n = IF Len(children) < Width THEN Len(children) ELSE Width
      BY <1>1, JoinAssumption
    <2>2. PICK found : found = [k \in 1..n |-> k]
      OBVIOUS
    <2>3. found \in Seq(Nat)
      BY <2>1, <2>2
    <2>4. PICK pc \in {"starting", "resuming", "failing"} :
             worker' = [worker EXCEPT ![w] = [pc |-> pc, ids |-> found]]
      BY <1>5, <2>1, <2>2 DEF ReadChildren
    <2>5. worker' \in [WorkerIds -> WorkerRecord]
      BY <1>1, <2>3, <2>4 DEF WorkerRecord
    <2> QED
      BY <1>1, <1>2, <1>5, <2>5 DEF ReadChildren, TypeOK
  <1>6. ASSUME NEW w \in WorkerIds, StartChild(w) PROVE TypeOK' /\ Kept
    <2>1. Kept /\ waking' \in [DOMAIN children' -> Waking] /\ worker' \in [WorkerIds -> WorkerRecord]
      BY <1>6, Starting
    <2>2. terminator' \subseteq DOMAIN children' /\ children' \in Seq(Child)
      BY <1>6, <2>1 DEF StartChild, TypeOK, Kept
    <2> QED
      BY <1>6, <2>1, <2>2 DEF StartChild, TypeOK, Waking
  <1>7. ASSUME NEW w \in WorkerIds, OpenWaits(w) PROVE TypeOK' /\ Kept
    <2>1. [Release(row) EXCEPT !.status = "waiting", !.due = TRUE] \in Row
      BY <1>1 DEF Row, Status, Release
    <2>2. worker[w].ids \in Seq(Nat)
      BY <1>1, WorkerMoves
    <2>3. Len(worker[w].ids) = Width => Opened(worker[w].ids) \in [Indices -> Wait]
      BY <2>2 DEF Opened, Wait, Indices
    <2>4. row' \in Row /\ wait' \in [Indices -> Wait]
      BY <1>1, <1>7, <2>1, <2>3 DEF OpenWaits
    <2>5. worker' \in [WorkerIds -> WorkerRecord]
      BY <1>1, <1>7, WorkerMoves DEF OpenWaits
    <2> QED
      BY <1>1, <1>2, <1>7, <2>4, <2>5 DEF OpenWaits, TypeOK
  <1>8. ASSUME NEW w \in WorkerIds,
               \/ AdvanceTaskStep(w) \/ FailRun(w) \/ LoseLease(w)
               \/ BodyThrows(w) \/ Crash(w)
        PROVE  TypeOK' /\ Kept
    <2>1. worker' \in [WorkerIds -> WorkerRecord]
      BY <1>1, <1>8, WorkerMoves DEF AdvanceTaskStep, FailRun, LoseLease, BodyThrows, Crash
    <2>2. row' \in Row
      BY <1>1, <1>8, RowTypes DEF AdvanceTaskStep, FailRun, LoseLease, BodyThrows, Crash
    <2>3. faults' \in Nat
      BY <1>1, <1>8 DEF AdvanceTaskStep, FailRun, LoseLease, BodyThrows, Crash
    <2>4. UNCHANGED <<children, wait, waking, expirer, terminator, slow, retries>>
      BY <1>8 DEF AdvanceTaskStep, FailRun, LoseLease, BodyThrows, Crash
    <2> QED
      BY <1>1, <1>2, <2>1, <2>2, <2>3, <2>4 DEF TypeOK
  <1>9. ASSUME NEW c \in DOMAIN children,
               \/ CompleteChild(c) \/ FailChild(c) \/ CancelChild(c)
               \/ PropagateCancellation(c)
        PROVE  TypeOK' /\ Kept
    <2>1. Kept /\ SameChildren /\ waking' \in [DOMAIN children -> Waking]
      <3>1. CASE CompleteChild(c) \/ FailChild(c)
        <4>1. children' = Ended(children, c, "completed") \/ children' = Ended(children, c, "failed")
          BY <3>1 DEF CompleteChild, FailChild
        <4>2. children[c].status # "completed"
          BY <3>1 DEF CompleteChild, FailChild, Terminal
        <4>3. Kept /\ SameChildren
          BY <1>1, <4>1, <4>2, EndedIsKept
        <4> QED
          BY <1>1, <3>1, <4>3 DEF CompleteChild, FailChild, Waking
      <3>2. CASE CancelChild(c) \/ PropagateCancellation(c)
        BY <3>2, HardCancelIsKept DEF CancelChild, PropagateCancellation
      <3> QED
        BY <1>9, <3>1, <3>2
    <2>2. terminator' \subseteq DOMAIN children
      BY <1>9 DEF CompleteChild, FailChild, CancelChild, PropagateCancellation, TypeOK
    <2>3. UNCHANGED <<row, wait, worker, expirer, slow, faults, retries>>
      BY <1>9 DEF CompleteChild, FailChild, CancelChild, PropagateCancellation
    <2> QED
      BY <1>1, <2>1, <2>2, <2>3 DEF TypeOK, Kept, SameChildren, Waking
  <1>10. ASSUME NEW c \in DOMAIN children, Wakes(c) \/ CrashWaking(c)
         PROVE  TypeOK' /\ Kept
    <2>1. CASE WakeParentForChild(c)
      <3>1. waking' \in [DOMAIN children -> Waking]
        BY <1>1, <2>1 DEF WakeParentForChild, Waking
      <3>2. row' \in Row
        BY <1>1, <2>1, RowTypes, ZenonT(40) DEF WakeParentForChild
      <3>3. 1 \in Indices
        BY JoinAssumption DEF Indices
      <3>4. wait' \in [Indices -> Wait]
        BY <1>1, <1>3, <2>1, <3>3 DEF WakeParentForChild
      <3> QED
        BY <1>1, <1>2, <2>1, <3>1, <3>2, <3>4 DEF WakeParentForChild, TypeOK, Waking
    <2>2. CASE SettleWoken(c)
      <3>1. SettleFanOutParent(c, "resumed")
        BY <2>2 DEF SettleWoken
      <3>2. /\ Kept /\ SameChildren /\ wait' \in [Indices -> Wait]
            /\ row' \in {row, AdvancedRow(row, Join)}
        BY <3>1, Settling
      <3>3. row' \in Row
        BY <1>1, <3>2, RowTypes
      <3>4. waking' \in [DOMAIN children -> Waking]
        BY <1>1, <2>2 DEF SettleWoken, Waking
      <3> QED
        BY <1>1, <2>2, <3>2, <3>3, <3>4 DEF SettleWoken, TypeOK, Kept, SameChildren, Waking
    <2>3. CASE CrashWaking(c)
      <3>1. waking' \in [DOMAIN children -> Waking]
        BY <1>1, <2>3 DEF CrashWaking, Waking
      <3> QED
        BY <1>1, <1>2, <2>3, <3>1 DEF CrashWaking, TypeOK, Waking
    <2> QED
      BY <1>10, <2>1, <2>2, <2>3 DEF Wakes
  <1>11. ASSUME (\E i \in Indices : ExpireOpenWaits(i)) \/ MarkExpired \/ ExpirerCrash
         PROVE  TypeOK' /\ Kept
    <2>1. wait' \in [Indices -> Wait]
      BY <1>1, <1>3, <1>11 DEF ExpireOpenWaits, MarkExpired, ExpirerCrash, TypeOK
    <2>2. expirer' \in [pc : {"resting", "selected", "marked", "settling"}, wait : Indices]
      BY <1>11 DEF ExpireOpenWaits, MarkExpired, ExpirerCrash, TypeOK
    <2>3. faults' \in Nat
      BY <1>1, <1>11 DEF ExpireOpenWaits, MarkExpired, ExpirerCrash
    <2>4. UNCHANGED <<row, children, worker, waking, terminator, slow, retries>>
      BY <1>11 DEF ExpireOpenWaits, MarkExpired, ExpirerCrash
    <2> QED
      BY <1>1, <1>2, <2>1, <2>2, <2>3, <2>4 DEF TypeOK
  <1>12. ASSUME CancelExpiredChild PROVE TypeOK' /\ Kept
    <2>1. PICK c : c = wait[expirer.wait].child
      OBVIOUS
    <2>2. Kept /\ SameChildren
      <3>1. CASE children' = children
        BY <3>1, <1>2
      <3>2. CASE ~Terminal(c) /\ children' = Ended(children, c, "canceled")
        <4>1. c \in DOMAIN children => children[c].status # "completed"
          BY <3>2 DEF Terminal
        <4> QED
          BY <1>1, <3>2, <4>1, EndedIsKept
      <3> QED
        BY <1>12, <2>1, <3>1, <3>2 DEF CancelExpiredChild
    <2>3. expirer' \in [pc : {"resting", "selected", "marked", "settling"}, wait : Indices]
      BY <1>12 DEF CancelExpiredChild, TypeOK
    <2>4. UNCHANGED <<row, wait, worker, waking, terminator, slow, faults, retries>>
      BY <1>12 DEF CancelExpiredChild
    <2> QED
      BY <1>1, <2>2, <2>3, <2>4 DEF TypeOK, Kept, SameChildren
  <1>13. ASSUME SettleExpired PROVE TypeOK' /\ Kept
    <2>1. PICK c : c = wait[expirer.wait].child
      OBVIOUS
    <2>2. SettleFanOutParent(c, "expired")
      BY <1>13, <2>1 DEF SettleExpired
    <2>3. /\ Kept /\ SameChildren /\ wait' \in [Indices -> Wait]
          /\ row' \in {row, AdvancedRow(row, Join)}
      BY <2>2, Settling
    <2>4. row' \in Row
      BY <1>1, <2>3, RowTypes
    <2>5. expirer' \in [pc : {"resting", "selected", "marked", "settling"}, wait : Indices]
      BY <1>13 DEF SettleExpired, TypeOK
    <2>6. UNCHANGED <<worker, waking, terminator, slow, faults, retries>>
      BY <1>13 DEF SettleExpired
    <2> QED
      BY <1>1, <2>3, <2>4, <2>5, <2>6 DEF TypeOK, Kept, SameChildren
  <1>14. ASSUME Terminate PROVE TypeOK' /\ Kept
    <2>1. wait' \in [Indices -> Wait]
      BY <1>1, <1>3, <1>14 DEF Terminate
    <2> QED
      BY <1>1, <1>2, <1>14, <2>1, RowTypes DEF Terminate, TypeOK
  <1>15. ASSUME RetryRun PROVE TypeOK' /\ Kept
    <2>1. CASE Retriable(row) /\ row' = RetriedRow(row) /\ UNCHANGED children
      <3>1. row' \in Row
        BY <1>1, <2>1, RowTypes
      <3>2. retries' \in Nat
        BY <1>1, <1>15 DEF RetryRun
      <3>3. UNCHANGED <<wait, worker, waking, expirer, terminator, slow, faults>>
        BY <1>15 DEF RetryRun
      <3> QED
        BY <1>1, <1>2, <2>1, <3>1, <3>2, <3>3 DEF TypeOK
    <2>2. ASSUME NEW c \in With(children, "failed"),
                 children' = [children EXCEPT ![c].status = "active"], UNCHANGED row
          PROVE  TypeOK' /\ Kept
      <3>1. c \in DOMAIN children /\ children[c].status = "failed" /\ children[c] \in Child
        BY <1>1, <2>2, ElementOfSeq DEF With
      <3>2. PICK r \in Child : r = [children[c] EXCEPT !.status = "active"]
        BY <3>1 DEF Child
      <3>3. children' = [children EXCEPT ![c] = r]
        BY <2>2, <3>2
      <3>4. children' \in Seq(Child)
        BY <1>1, <3>3, Excepting
      <3>5. DOMAIN children' = DOMAIN children
        BY <3>3
      <3>6. \A d \in DOMAIN children : children[d] \in Child
        BY <1>1, ElementOfSeq
      <3>7. /\ r.status = "active" /\ r.index = children[c].index
            /\ r.ended = children[c].ended
        BY <3>1, <3>2 DEF Child
      <3>8. Kept
        BY <3>1, <3>3, <3>4, <3>5, <3>7 DEF Kept
      <3> QED
        BY <1>1, <1>15, <2>2, <3>4, <3>5, <3>8 DEF RetryRun, TypeOK
    <2> QED
      BY <1>15, <2>1, <2>2 DEF RetryRun
  <1>statusOnly. ASSUME Requeue \/ LeaseExpires \/ RecoverExpiredLeases PROVE TypeOK' /\ Kept
    <2>1. [row EXCEPT !.status = "queued", !.due = TRUE] \in Row
      BY <1>1 DEF Row, Status
    <2>2. row' \in Row
      BY <1>1, <1>statusOnly, <2>1, RowTypes DEF Requeue, LeaseExpires, RecoverExpiredLeases
    <2>3. slow' \in Nat
      BY <1>1, <1>statusOnly DEF Requeue, LeaseExpires, RecoverExpiredLeases
    <2>4. UNCHANGED <<children, wait, worker, waking, expirer, terminator, faults, retries>>
      BY <1>statusOnly DEF Requeue, LeaseExpires, RecoverExpiredLeases
    <2> QED
      BY <1>1, <1>2, <2>2, <2>3, <2>4 DEF TypeOK
  <1>17. CASE UNCHANGED vars
    BY <1>2, <1>17 DEF vars, TypeOK
  <1> QED
    BY <1>4, <1>5, <1>6, <1>7, <1>8, <1>9, <1>10, <1>11, <1>12, <1>13, <1>14, <1>15,
       <1>statusOnly, <1>17 DEF Next, WorkerStep, ExpirerStep

\* The type invariant: the tables of the children, their waits and wakeups stay in
\* step, for whoever starts, ends, cancels and settles them.
THEOREM JoinTypes == Spec => []TypeOK
  <1>1. Init => TypeOK
    BY TypeInit
  <1>2. TypeOK /\ [Next]_vars => TypeOK'
    BY TypeStep
  <1> QED
    BY <1>1, <1>2, PTL DEF Spec

-----------------------------------------------------------------------------
(* The join holds.                                                         *)

\* JoinHolds, once it is reached: enough children completed, or all of them ended.
Reached == \/ Cardinality(With(children, "completed")) >= Quorum
           \/ Cardinality({c \in DOMAIN children : children[c].ended}) >= Width

EndedIsKnown == \A c \in DOMAIN children : children[c].status # "active" => children[c].ended

\* A worker that goes on has looked at the children when they had got there.
ResumesWhenReached == \A w \in WorkerIds : worker[w].pc = "resuming" => Reached

JoinInv == /\ EndedIsKnown
           /\ ResumesWhenReached
           /\ row.step = After => Reached

\* What is reached stays reached: the sets of the children only grow.
LEMMA ReachedStays ==
    ASSUME TypeOK, Kept, Reached
    PROVE  Reached'
  <1>1. /\ DOMAIN children = 1..Len(children) /\ Len(children) \in Nat
        /\ DOMAIN children' = 1..Len(children') /\ Len(children') \in Nat
    BY DEF TypeOK, Kept
  <1>2. IsFiniteSet(DOMAIN children')
    BY <1>1, FS_Interval
  <1>3. PICK done, ended, done2, ended2 :
           /\ done = With(children, "completed")
           /\ ended = {c \in DOMAIN children : children[c].ended}
           /\ done2 = With(children', "completed")
           /\ ended2 = {c \in DOMAIN children' : children'[c].ended}
    OBVIOUS
  <1>4. /\ done2 \subseteq DOMAIN children' /\ ended2 \subseteq DOMAIN children'
        /\ done \subseteq done2 /\ ended \subseteq ended2
    BY <1>3 DEF Kept, With
  <1>5. IsFiniteSet(done2) /\ IsFiniteSet(ended2)
    BY <1>2, <1>4, FS_Subset
  <1>6. /\ Cardinality(done) <= Cardinality(done2)
        /\ Cardinality(ended) <= Cardinality(ended2)
        /\ IsFiniteSet(done) /\ IsFiniteSet(ended)
    BY <1>4, <1>5, FS_Subset
  <1>7. /\ Cardinality(done) \in Nat /\ Cardinality(done2) \in Nat
        /\ Cardinality(ended) \in Nat /\ Cardinality(ended2) \in Nat
    BY <1>5, <1>6, FS_CardinalityType
  <1>8. \/ Cardinality(done) >= Quorum \/ Cardinality(ended) >= Width
    BY <1>3 DEF Reached
  <1>9. \/ Cardinality(done2) >= Quorum \/ Cardinality(ended2) >= Width
    BY <1>6, <1>7, <1>8, JoinAssumption
  <1> QED
    BY <1>3, <1>9 DEF Reached

\* A look at the children that finds the join ready, or the one child terminal.
LEMMA ReadyIsReached ==
    ASSUME TypeOK, EndedIsKnown,
           JoinReady(children) \/ (Width = 1 /\ 1 \in DOMAIN children /\ Terminal(1))
    PROVE  Reached
  <1>1. DOMAIN children = 1..Len(children) /\ Len(children) \in Nat
    BY DEF TypeOK
  <1>2. PICK ended : ended = {c \in DOMAIN children : children[c].ended}
    OBVIOUS
  <1>3. IsFiniteSet(ended)
    <2>1. IsFiniteSet(DOMAIN children)
      BY <1>1, FS_Interval
    <2>2. ended \subseteq DOMAIN children
      BY <1>2
    <2> QED
      BY <2>1, <2>2, FS_Subset
  <1>4. CASE Cardinality(With(children, "completed")) >= Quorum
    BY <1>4 DEF Reached
  <1>5. CASE Cardinality(DOMAIN children \ With(children, "active")) = Width
    <2>1. DOMAIN children \ With(children, "active") \subseteq ended
      BY <1>2 DEF EndedIsKnown, With
    <2>2. Width <= Cardinality(ended)
      BY <1>3, <1>5, <2>1, FS_Subset
    <2> QED
      BY <1>2, <1>3, <2>2, FS_CardinalityType, JoinAssumption DEF Reached
  <1>6. CASE Width = 1 /\ 1 \in DOMAIN children /\ Terminal(1)
    <2>1. {1} \subseteq ended
      BY <1>2, <1>6 DEF EndedIsKnown, Terminal
    <2>2. Cardinality({1}) = 1 /\ Cardinality({1}) <= Cardinality(ended)
      BY <1>3, <2>1, FS_Subset, FS_Singleton
    <2> QED
      BY <1>2, <1>3, <1>6, <2>2, FS_CardinalityType DEF Reached
  <1> QED
    BY <1>4, <1>5, <1>6 DEF JoinReady

\* Only a worker that goes on leaves the step, and only a look makes one go on.
LEMMA LeavingSteps ==
    ASSUME TypeOK, EndedIsKnown, [Next]_vars
    PROVE  /\ row'.step = After =>
                 \/ row.step = After
                 \/ \E w \in WorkerIds : worker[w].pc = "resuming"
           /\ \A w \in WorkerIds : worker'[w].pc = "resuming" =>
                 worker[w].pc = "resuming" \/ Reached
  <1> USE DEF others, counters
  <1>1. row \in Row /\ worker \in [WorkerIds -> WorkerRecord] /\ Join # After
    BY JoinAssumption DEF TypeOK
  <1>2. /\ Claimed(row, NoWorker).step = row.step
        /\ FailedRow(row).step = row.step /\ CanceledRow(row).step = row.step
        /\ RetriedRow(row).step = row.step /\ Recovered(row).step = row.step
        /\ [Release(row) EXCEPT !.status = "waiting", !.due = TRUE].step = row.step
        /\ [row EXCEPT !.status = "queued", !.due = TRUE].step = row.step
        /\ [row EXCEPT !.lease = "expired"].step = row.step
        /\ AdvancedRow(row, Join).step = Join
        /\ \A w \in WorkerIds : Claimed(row, w).step = row.step
    BY <1>1 DEF Row, Release, Claimed, FailedRow, CanceledRow, RetriedRow, Recovered, AdvancedRow
  <1>3. \A w \in WorkerIds : AdvanceTaskStep(w) => worker[w].pc = "resuming"
    BY DEF AdvanceTaskStep
  <1>4. ASSUME NEW w \in WorkerIds, ReadChildren(w)
        PROVE  /\ row' = row
               /\ \A v \in WorkerIds : worker'[v].pc = "resuming" =>
                     worker[v].pc = "resuming" \/ Reached
    <2>1. PICK found : found = [n \in 1..(IF Len(children) < Width THEN Len(children) ELSE Width) |-> n]
      OBVIOUS
    <2>2. PICK pc : /\ worker' = [worker EXCEPT ![w] = [pc |-> pc, ids |-> found]]
                    /\ pc = "resuming" =>
                          \/ JoinReady(children)
                          \/ Kind = "child" /\ found # <<>> /\ Terminal(1)
      <3>1. PICK next :
               /\ worker' = [worker EXCEPT ![w] = [pc |-> next, ids |-> found]]
               /\ next = IF Kind = "fanOut" /\ WaitsExist
                           THEN IF JoinReady(children) THEN "resuming" ELSE "failing"
                           ELSE IF Kind = "child" /\ found # <<>> /\ Terminal(1)
                                  THEN "resuming" ELSE "starting"
        BY <1>4, <2>1, Zenon DEF ReadChildren
      <3>2. next = "resuming" => \/ JoinReady(children)
                                 \/ Kind = "child" /\ found # <<>> /\ Terminal(1)
        BY <3>1
      <3> QED
        BY <3>1, <3>2
    <2>3. DOMAIN children = 1..Len(children) /\ Len(children) \in Nat
      BY DEF TypeOK
    <2>4. found # <<>> => 1 \in DOMAIN children
      <3>1. CASE Len(children) = 0
        BY <2>1, <3>1, JoinAssumption
      <3>2. CASE Len(children) # 0
        BY <2>3, <3>2
      <3> QED
        BY <3>1, <3>2
    <2>5. pc = "resuming" => Reached
      BY <2>2, <2>4, ReadyIsReached, JoinAssumption
    <2>6. \A v \in WorkerIds : worker'[v] = IF v = w THEN [pc |-> pc, ids |-> found] ELSE worker[v]
      BY <1>1, <2>2
    <2> QED
      BY <1>4, <2>5, <2>6 DEF ReadChildren
  <1>5. ASSUME NEW w \in WorkerIds,
               Claim(w) \/ OpenWaits(w) \/ FailRun(w) \/ LoseLease(w) \/ BodyThrows(w) \/ Crash(w)
        PROVE  /\ row'.step = row.step
               /\ \A v \in WorkerIds : worker'[v].pc = "resuming" => worker[v].pc = "resuming"
    <2>1. row'.step = row.step
      BY <1>2, <1>5 DEF Claim, OpenWaits, FailRun, LoseLease, BodyThrows, Crash
    <2>2. Tick(w) \/ Goto(w, "claimed") \/ Goto(w, "failing")
      BY <1>5 DEF Claim, OpenWaits, FailRun, LoseLease, BodyThrows, Crash
    <2>3. worker[w] \in WorkerRecord
      BY <1>1 DEF WorkerRecord
    <2>4. Idle.pc # "resuming"
      BY DEF Idle
    <2>5. \A pc \in {"claimed", "failing"} : [worker[w] EXCEPT !.pc = pc].pc # "resuming"
      BY <2>3 DEF WorkerRecord
    <2>6. worker'[w].pc # "resuming"
      BY <1>1, <2>2, <2>4, <2>5 DEF Tick, Goto
    <2>7. \A v \in WorkerIds : v # w => worker'[v] = worker[v]
      BY <1>1, <2>2 DEF Tick, Goto
    <2> QED
      BY <2>1, <2>6, <2>7
  <1>6. ASSUME NEW w \in WorkerIds, StartChild(w)
        PROVE  /\ row'.step = row.step
               /\ \A v \in WorkerIds : worker'[v].pc = "resuming" => worker[v].pc = "resuming"
    <2>1. PICK c \in Nat : worker' = [worker EXCEPT ![w].ids = Append(@, c)]
      BY <1>6, Starting
    <2>2. \A v \in WorkerIds : worker'[v].pc = worker[v].pc
      BY <1>1, <2>1 DEF WorkerRecord
    <2> QED
      BY <1>6, <2>2 DEF StartChild
  <1>7. ASSUME NEW w \in WorkerIds, AdvanceTaskStep(w)
        PROVE  \A v \in WorkerIds : worker'[v].pc = "resuming" => worker[v].pc = "resuming"
    BY <1>1, <1>7 DEF AdvanceTaskStep, Tick, Idle, WorkerRecord
  <1>8. ASSUME NEW c \in DOMAIN children,
               \/ CompleteChild(c) \/ FailChild(c) \/ CancelChild(c)
               \/ Wakes(c) \/ CrashWaking(c) \/ PropagateCancellation(c)
        PROVE  worker' = worker /\ row' \in {row, AdvancedRow(row, Join)}
    BY <1>8 DEF CompleteChild, FailChild, CancelChild, Wakes, CrashWaking,
                PropagateCancellation, WakeParentForChild, SettleWoken, SettleFanOutParent
  <1>9. ASSUME ExpirerStep \/ ExpirerCrash
        PROVE  worker' = worker /\ row' \in {row, AdvancedRow(row, Join)}
    BY <1>9 DEF ExpirerStep, ExpirerCrash, ExpireOpenWaits, MarkExpired, CancelExpiredChild,
                SettleExpired, SettleFanOutParent
  <1>10. ASSUME Terminate \/ RetryRun \/ Requeue \/ LeaseExpires \/ RecoverExpiredLeases
         PROVE  worker' = worker /\ row'.step = row.step
    BY <1>2, <1>10 DEF Terminate, RetryRun, Requeue, LeaseExpires, RecoverExpiredLeases
  <1>11. CASE UNCHANGED vars
    BY <1>11 DEF vars
  <1>12. CASE \E w \in WorkerIds : Claim(w) \/ WorkerStep(w) \/ BodyThrows(w) \/ Crash(w)
    BY <1>3, <1>4, <1>5, <1>6, <1>7, <1>12 DEF WorkerStep
  <1>13. CASE \E c \in DOMAIN children :
              \/ CompleteChild(c) \/ FailChild(c) \/ CancelChild(c)
              \/ Wakes(c) \/ CrashWaking(c) \/ PropagateCancellation(c)
    BY <1>1, <1>2, <1>8, <1>13
  <1>14. CASE \/ ExpirerStep \/ ExpirerCrash
              \/ Terminate \/ RetryRun \/ Requeue \/ LeaseExpires \/ RecoverExpiredLeases
    BY <1>1, <1>2, <1>9, <1>10, <1>14
  <1> QED
    BY <1>11, <1>12, <1>13, <1>14 DEF Next

\* The parent leaves its step only with its quorum of results, or with a result of every
\* child (JoinHolds), through crashed and superseded workers, failures in either mode,
\* expiries, signals, terminations and retries of the parent and of its children.  What
\* makes it so is that what a worker has seen when it decides to go on cannot be lost
\* before it commits: sets of the children only grow.
THEOREM JoinNeverEarly == Spec => []JoinHolds
  <1>1. Init => JoinInv
    <2> SUFFICES ASSUME Init PROVE JoinInv
      OBVIOUS
    <2>1. DOMAIN children = {}
      BY DEF Init
    <2>2. row.step # After
      BY JoinAssumption DEF Init, InsertedRow, AbsentRow
    <2>3. \A w \in WorkerIds : worker[w].pc # "resuming"
      BY DEF Init, Idle
    <2> QED
      BY <2>1, <2>2, <2>3 DEF JoinInv, EndedIsKnown, ResumesWhenReached
  <1>2. TypeOK /\ JoinInv /\ [Next]_vars => JoinInv'
    <2> SUFFICES ASSUME TypeOK, JoinInv, [Next]_vars PROVE JoinInv'
      OBVIOUS
    <2>1. Kept
      BY TypeStep
    <2>2. Reached => Reached'
      BY <2>1, ReachedStays
    <2>3. EndedIsKnown'
      BY <2>1 DEF JoinInv, EndedIsKnown, Kept
    <2>4. ResumesWhenReached'
      BY <2>2, LeavingSteps DEF JoinInv, ResumesWhenReached
    <2>5. row'.step = After => Reached'
      BY <2>2, LeavingSteps DEF JoinInv, ResumesWhenReached
    <2> QED
      BY <2>3, <2>4, <2>5 DEF JoinInv
  <1>3. JoinInv => JoinHolds
    BY DEF JoinInv, Reached, JoinHolds
  <1>4. TypeOK /\ [Next]_vars => TypeOK'
    BY TypeStep
  <1> QED
    BY <1>1, <1>2, <1>3, <1>4, TypeInit, PTL DEF Spec

-----------------------------------------------------------------------------
(* The children of a fan-out are started once.                             *)

\* Whatever worker starts a child and whatever worker looks at the children, the n-th
\* child is that of index n, and so is the child of the n-th wait.
ListsInOrder == \A w \in WorkerIds :
    /\ Len(worker[w].ids) <= Len(children)
    /\ \A n \in DOMAIN worker[w].ids : worker[w].ids[n] = n
Numbered == /\ \A c \in DOMAIN children : children[c].index = c
            /\ ListsInOrder
            /\ \A i \in Indices : wait[i].child # 0 => wait[i].child = i /\ i \in DOMAIN children

\* The idempotency key makes the started child the next one, or the one that is there.
LEMMA StartingInOrder ==
    ASSUME TypeOK, Numbered, Kind = "fanOut", NEW w \in WorkerIds, StartChild(w)
    PROVE  Numbered'
  <1>1. PICK ids \in Seq(Nat), i \in Nat :
           /\ ids = worker[w].ids /\ i = Len(ids) + 1
           /\ Len(ids) <= Len(children) /\ \A n \in DOMAIN ids : ids[n] = n
    BY WorkerMoves DEF TypeOK, Numbered, ListsInOrder
  <1>2. DOMAIN children = 1..Len(children) /\ Len(children) \in Nat
    BY DEF TypeOK
  <1>3. Kept
    BY Starting
  <1>4. \/ i \in DOMAIN children /\ UNCHANGED children
           /\ worker' = [worker EXCEPT ![w].ids = Append(@, i)]
        \/ /\ i \notin DOMAIN children
           /\ children' = Append(children, [index |-> i, status |-> "active", ended |-> FALSE])
           /\ worker' = [worker EXCEPT ![w].ids = Append(@, Len(children) + 1)]
    <2>1. PICK same : same = {c \in DOMAIN children : Kind = "fanOut" /\ children[c].index = i}
      OBVIOUS
    <2>2. same = {c \in DOMAIN children : c = i}
      BY <2>1 DEF Numbered
    <2>3. \/ \E c \in same : /\ worker' = [worker EXCEPT ![w].ids = Append(@, c)]
                             /\ UNCHANGED children
          \/ /\ same = {}
             /\ children' = Append(children, [index |-> i, status |-> "active", ended |-> FALSE])
             /\ worker' = [worker EXCEPT ![w].ids = Append(@, Len(children) + 1)]
      BY <1>1, <2>1 DEF StartChild
    <2> QED
      BY <2>2, <2>3
  <1>5. i \notin DOMAIN children => i = Len(children) + 1
    BY <1>1, <1>2
  <1>6. worker' = [worker EXCEPT ![w].ids = Append(@, i)]
    BY <1>4, <1>5
  <1>7. /\ DOMAIN children \subseteq DOMAIN children'
        /\ i \in DOMAIN children' /\ Len(children) <= Len(children') /\ i <= Len(children')
        /\ Len(children') \in Nat
        /\ \A c \in DOMAIN children' : children'[c].index = c
    <2>1. CASE i \in DOMAIN children
      BY <1>1, <1>2, <1>4, <2>1 DEF Numbered
    <2>2. CASE i \notin DOMAIN children
      <3>1. PICK new \in Child : new = [index |-> i, status |-> "active", ended |-> FALSE]
        <4>1. Len(worker[w].ids) + 1 <= Width
          BY DEF StartChild
        <4>2. i \in Indices
          BY <1>1, <4>1, JoinAssumption DEF Indices
        <4> QED
          BY <4>2 DEF Child
      <3>2. children' = Append(children, new) /\ i = Len(children) + 1
        BY <1>4, <1>5, <2>2, <3>1
      <3>3. /\ Len(children') = Len(children) + 1
            /\ DOMAIN children' = 1..(Len(children) + 1)
            /\ \A c \in 1..Len(children) : children'[c] = children[c]
            /\ children'[Len(children) + 1] = new
        BY <1>2, <3>2, AppendProperties DEF TypeOK
      <3>4. new.index = i
        BY <3>1
      <3> QED
        BY <1>2, <3>2, <3>3, <3>4 DEF Numbered
    <2> QED
      BY <2>1, <2>2
  <1>8. worker'[w].ids = Append(ids, i)
        /\ \A v \in WorkerIds : v # w => worker'[v] = worker[v]
    BY <1>1, <1>6 DEF TypeOK, WorkerRecord
  <1>9. /\ Len(Append(ids, i)) = i
        /\ \A n \in DOMAIN Append(ids, i) : Append(ids, i)[n] = n
    BY <1>1, AppendProperties
  <1>10. ListsInOrder'
    <2>1. ASSUME NEW v \in WorkerIds
          PROVE  /\ Len(worker'[v].ids) <= Len(children')
                 /\ \A n \in DOMAIN worker'[v].ids : worker'[v].ids[n] = n
      <3>1. CASE v = w
        BY <1>7, <1>8, <1>9, <3>1
      <3>2. CASE v # w
        <4>1. Len(worker[v].ids) \in Nat
          BY WorkerMoves DEF TypeOK
        <4> QED
          BY <1>2, <1>7, <1>8, <3>2, <4>1 DEF Numbered, ListsInOrder
      <3> QED
        BY <3>1, <3>2
    <2> QED
      BY <2>1 DEF ListsInOrder
  <1> QED
    BY <1>7, <1>10 DEF Numbered, StartChild

\* What the other steps do to the lists of the workers and to the children of the waits.
LEMMA OtherLists ==
    ASSUME TypeOK, Numbered, [Next]_vars, \A w \in WorkerIds : ~StartChild(w)
    PROVE  /\ \A v \in WorkerIds :
                 \/ worker'[v].ids = worker[v].ids
                 \/ /\ Len(worker'[v].ids) <= Len(children)
                    /\ \A n \in DOMAIN worker'[v].ids : worker'[v].ids[n] = n
           /\ \A i \in Indices :
                 \/ wait'[i].child = wait[i].child
                 \/ wait'[i].child = i /\ i \in DOMAIN children
           /\ SameChildren
  <1> USE DEF others, counters
  <1>1. /\ worker \in [WorkerIds -> WorkerRecord] /\ wait \in [Indices -> Wait]
        /\ children \in Seq(Child)
        /\ DOMAIN children = 1..Len(children) /\ Len(children) \in Nat
    BY DEF TypeOK
  <1>2. \A s \in Statuses, i \in Indices : [wait[i] EXCEPT !.status = s].child = wait[i].child
    BY <1>1 DEF Wait
  <1>statusOnly. ASSUME NEW j, NEW s, wait' = [wait EXCEPT ![j].status = s]
         PROVE  \A i \in Indices : wait'[i].child = wait[i].child
    <2>1. \A i \in Indices : wait[i] \in Wait
      BY <1>1
    <2>2. \A i \in Indices : wait'[i] = IF i = j THEN [wait[i] EXCEPT !.status = s] ELSE wait[i]
      BY <1>1, <1>statusOnly
    <2> QED
      BY <2>1, <2>2 DEF Wait
  <1>3. ASSUME NEW w \in WorkerIds, ReadChildren(w)
        PROVE  /\ UNCHANGED <<children, wait>>
               /\ \A v \in WorkerIds :
                 \/ worker'[v].ids = worker[v].ids
                 \/ /\ Len(worker'[v].ids) <= Len(children)
                    /\ \A n \in DOMAIN worker'[v].ids : worker'[v].ids[n] = n
    <2>1. PICK k \in Nat : k = IF Len(children) < Width THEN Len(children) ELSE Width
      BY <1>1, JoinAssumption
    <2>2. PICK found : found = [n \in 1..k |-> n]
      OBVIOUS
    <2>3. PICK pc : worker' = [worker EXCEPT ![w] = [pc |-> pc, ids |-> found]]
      BY <1>3, <2>1, <2>2, Zenon DEF ReadChildren
    <2>4. Len(found) = k /\ k <= Len(children) /\ DOMAIN found = 1..k
      <3>1. k <= Len(children)
        <4>1. Len(children) \in Nat /\ Width \in Nat
          BY <1>1, JoinAssumption
        <4> QED
          BY <2>1, <4>1
      <3>2. Len(found) = k
        BY <2>1, <2>2
      <3> QED
        BY <2>2, <3>1, <3>2
    <2>5. \A v \in WorkerIds : worker'[v] = IF v = w THEN [pc |-> pc, ids |-> found] ELSE worker[v]
      BY <1>1, <2>3
    <2>6. \A v \in WorkerIds : worker'[v].ids = IF v = w THEN found ELSE worker[v].ids
      BY <2>5
    <2>7. \A n \in DOMAIN found : found[n] = n
      BY <2>2
    <2>8. UNCHANGED <<children, wait>>
      BY <1>3 DEF ReadChildren
    <2> QED
      BY <2>4, <2>6, <2>7, <2>8
  <1>4. ASSUME NEW w \in WorkerIds, NEW pc \in {"claimed", "failing"}, Goto(w, pc)
        PROVE  \A v \in WorkerIds : worker'[v].ids = worker[v].ids
    BY <1>1, <1>4 DEF Goto, WorkerRecord
  <1>5. ASSUME NEW w \in WorkerIds, Tick(w)
        PROVE  \A v \in WorkerIds : worker'[v].ids = worker[v].ids \/ worker'[v].ids = <<>>
    BY <1>1, <1>5 DEF Tick, Idle, WorkerRecord
  <1>6. Len(<<>>) <= Len(children) /\ DOMAIN <<>> = {}
    BY <1>1
  <1>7. ASSUME NEW w \in WorkerIds,
               \/ Claim(w) \/ OpenWaits(w) \/ AdvanceTaskStep(w) \/ FailRun(w)
               \/ LoseLease(w) \/ BodyThrows(w) \/ Crash(w)
        PROVE  /\ UNCHANGED children
               /\ \A v \in WorkerIds : worker'[v].ids = worker[v].ids \/ worker'[v].ids = <<>>
               /\ \A i \in Indices :
                    \/ wait'[i].child = wait[i].child
                    \/ wait'[i].child = i /\ i \in DOMAIN children
    <2>1. UNCHANGED children
      BY <1>7 DEF Claim, OpenWaits, AdvanceTaskStep, FailRun, LoseLease, BodyThrows, Crash
    <2>2. Goto(w, "claimed") \/ Goto(w, "failing") \/ Tick(w)
      BY <1>7 DEF Claim, OpenWaits, AdvanceTaskStep, FailRun, LoseLease, BodyThrows, Crash
    <2>3. \A v \in WorkerIds : worker'[v].ids = worker[v].ids \/ worker'[v].ids = <<>>
      BY <1>4, <1>5, <2>2
    <2>4. \/ UNCHANGED wait
          \/ Len(worker[w].ids) = Width /\ wait' = Opened(worker[w].ids)
      BY <1>7 DEF Claim, OpenWaits, AdvanceTaskStep, FailRun, LoseLease, BodyThrows, Crash
    <2>5. ASSUME Len(worker[w].ids) = Width, wait' = Opened(worker[w].ids), NEW i \in Indices
          PROVE  wait'[i].child = i /\ i \in DOMAIN children
      <3>1. worker[w].ids \in Seq(Nat)
        BY <1>1, WorkerMoves
      <3>2. i \in DOMAIN worker[w].ids /\ i \in 1..Width /\ Width \in Nat
        BY <2>5, <3>1, JoinAssumption DEF Indices
      <3>3. worker[w].ids[i] = i /\ Width <= Len(children)
        BY <2>5, <3>2 DEF Numbered, ListsInOrder
      <3> QED
        BY <1>1, <2>5, <3>2, <3>3 DEF Opened
    <2> QED
      BY <2>1, <2>3, <2>4, <2>5
  <1>8. ASSUME NEW c \in DOMAIN children,
               CompleteChild(c) \/ FailChild(c) \/ CancelChild(c) \/ PropagateCancellation(c)
        PROVE  SameChildren /\ UNCHANGED <<worker, wait>>
    <2>1. CASE CompleteChild(c) \/ FailChild(c)
      BY <1>1, <2>1, EndedTypes DEF CompleteChild, FailChild, SameChildren
    <2>2. CASE CancelChild(c) \/ PropagateCancellation(c)
      BY <2>2, HardCancelIsKept DEF CancelChild, PropagateCancellation
    <2> QED
      BY <1>8, <2>1, <2>2
  <1>9. ASSUME NEW c \in DOMAIN children, Wakes(c) \/ CrashWaking(c)
        PROVE  /\ SameChildren /\ UNCHANGED worker
               /\ \A i \in Indices : wait'[i].child = wait[i].child
    <2>1. CASE WakeParentForChild(c) \/ CrashWaking(c)
      <3>1. UNCHANGED <<children, worker>>
        BY <2>1 DEF WakeParentForChild, CrashWaking
      <3>2. UNCHANGED wait \/ wait' = [wait EXCEPT ![1].status = "resumed"]
        BY <2>1 DEF WakeParentForChild, CrashWaking
      <3> QED
        BY <3>1, <3>2, <1>statusOnly DEF SameChildren
    <2>2. CASE SettleWoken(c)
      <3>1. SettleFanOutParent(c, "resumed")
        BY <2>2 DEF SettleWoken
      <3> QED
        BY <2>2, <3>1, Settling DEF SettleWoken
    <2> QED
      BY <1>9, <2>1, <2>2 DEF Wakes
  <1>10. ASSUME ExpirerStep \/ ExpirerCrash
         PROVE  /\ SameChildren /\ UNCHANGED worker
                /\ \A i \in Indices : wait'[i].child = wait[i].child
    <2>1. CASE (\E i \in Indices : ExpireOpenWaits(i)) \/ MarkExpired \/ ExpirerCrash
      <3>1. UNCHANGED <<children, worker>>
        BY <2>1 DEF ExpireOpenWaits, MarkExpired, ExpirerCrash
      <3>2. PICK j : UNCHANGED wait \/ wait' = [wait EXCEPT ![j].status = "expired"]
        BY <2>1 DEF ExpireOpenWaits, MarkExpired, ExpirerCrash
      <3> QED
        BY <3>1, <3>2, <1>statusOnly DEF SameChildren
    <2>2. CASE CancelExpiredChild
      <3>1. PICK c : c = wait[expirer.wait].child
        OBVIOUS
      <3>2. children' = children \/ children' = Ended(children, c, "canceled")
        BY <2>2, <3>1 DEF CancelExpiredChild
      <3>3. SameChildren
        BY <1>1, <3>2, EndedTypes DEF SameChildren
      <3> QED
        BY <2>2, <3>3 DEF CancelExpiredChild
    <2>3. CASE SettleExpired
      <3>1. PICK c : c = wait[expirer.wait].child
        OBVIOUS
      <3>2. SettleFanOutParent(c, "expired")
        BY <2>3, <3>1 DEF SettleExpired
      <3> QED
        BY <2>3, <3>2, Settling DEF SettleExpired
    <2> QED
      BY <1>10, <2>1, <2>2, <2>3 DEF ExpirerStep
  <1>11. ASSUME Terminate \/ RetryRun \/ Requeue \/ LeaseExpires \/ RecoverExpiredLeases
         PROVE  /\ SameChildren /\ UNCHANGED worker
                /\ \A i \in Indices : wait'[i].child = wait[i].child
    <2>1. CASE Terminate
      BY <1>1, <1>2, <2>1 DEF Terminate, SameChildren, Statuses
    <2>2. CASE RetryRun
      BY <2>2 DEF RetryRun, SameChildren
    <2>3. CASE Requeue \/ LeaseExpires \/ RecoverExpiredLeases
      BY <2>3 DEF Requeue, LeaseExpires, RecoverExpiredLeases, SameChildren
    <2> QED
      BY <1>11, <2>1, <2>2, <2>3
  <1>12. CASE UNCHANGED vars
    BY <1>12 DEF vars, SameChildren
  <1>13. CASE \E w \in WorkerIds : Claim(w) \/ WorkerStep(w) \/ BodyThrows(w) \/ Crash(w)
    <2>1. CASE \E w \in WorkerIds : ReadChildren(w)
      BY <1>3, <2>1 DEF SameChildren
    <2>2. CASE \E w \in WorkerIds :
                 \/ Claim(w) \/ OpenWaits(w) \/ AdvanceTaskStep(w) \/ FailRun(w)
                 \/ LoseLease(w) \/ BodyThrows(w) \/ Crash(w)
      BY <1>6, <1>7, <2>2 DEF SameChildren
    <2> QED
      BY <1>13, <2>1, <2>2 DEF WorkerStep
  <1>14. CASE \E c \in DOMAIN children :
              \/ CompleteChild(c) \/ FailChild(c) \/ CancelChild(c)
              \/ Wakes(c) \/ CrashWaking(c) \/ PropagateCancellation(c)
    BY <1>8, <1>9, <1>14
  <1>15. CASE \/ ExpirerStep \/ ExpirerCrash
              \/ Terminate \/ RetryRun \/ Requeue \/ LeaseExpires \/ RecoverExpiredLeases
    BY <1>10, <1>11, <1>15
  <1> QED
    BY <1>12, <1>13, <1>14, <1>15 DEF Next

\* The children of a fan-out are started once, and every wait is that of the child of its
\* index (ChildrenStartOnce), although startRun is under no lease and any number of
\* superseded workers start children at the same time.
THEOREM FanOutStartsOnce ==
    ASSUME Kind = "fanOut"
    PROVE  Spec => []ChildrenStartOnce
  <1>1. Init => Numbered
    <2> SUFFICES ASSUME Init PROVE Numbered
      OBVIOUS
    <2>1. children = <<>> /\ \A w \in WorkerIds : worker[w].ids = <<>>
      BY DEF Init, Idle
    <2>2. ListsInOrder
      BY <2>1 DEF ListsInOrder
    <2> QED
      BY <2>1, <2>2 DEF Init, Numbered
  <1>2. TypeOK /\ Numbered /\ [Next]_vars => Numbered'
    <2> SUFFICES ASSUME TypeOK, Numbered, [Next]_vars PROVE Numbered'
      OBVIOUS
    <2>1. ASSUME NEW w \in WorkerIds, StartChild(w) PROVE Numbered'
      BY <2>1, StartingInOrder
    <2>2. CASE \A w \in WorkerIds : ~StartChild(w)
      <3>1. Kept /\ TypeOK'
        BY TypeStep
      <3>2. Len(children') = Len(children)
        BY <2>2, <3>1, OtherLists DEF SameChildren, TypeOK
      <3>3. \A c \in DOMAIN children' : children'[c].index = c
        BY <2>2, <3>1, OtherLists DEF SameChildren, Kept, Numbered
      <3>4. ListsInOrder'
        BY <2>2, <3>2, OtherLists DEF Numbered, ListsInOrder
      <3>5. \A i \in Indices : wait'[i].child # 0 => wait'[i].child = i /\ i \in DOMAIN children'
        BY <2>2, OtherLists DEF SameChildren, Numbered
      <3> QED
        BY <3>3, <3>4, <3>5 DEF Numbered
    <2> QED
      BY <2>1, <2>2
  <1>3. Numbered => ChildrenStartOnce
    BY DEF Numbered, ChildrenStartOnce
  <1>4. TypeOK /\ [Next]_vars => TypeOK'
    BY TypeStep
  <1> QED
    BY <1>1, <1>2, <1>3, <1>4, TypeInit, PTL DEF Spec
=============================================================================
