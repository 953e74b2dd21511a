--------------------------- MODULE RunStoreProofs ---------------------------
(***************************************************************************)
(* Facts about the statements of RunStore, and about sequences, that the      *)
(* proofs about the components share.                                        *)
(***************************************************************************)
EXTENDS RunStore, Sequences, SequenceTheorems, TLAPS

-----------------------------------------------------------------------------
(* The statements of the store keep the type of the row.                   *)

LEMMA RowTypes ==
    ASSUME NEW r \in Row
    PROVE  /\ AbsentRow \in Row /\ Recovered(r) \in Row
           /\ CompletedRow(r) \in Row /\ RetryingRow(r) \in Row
           /\ FailedRow(r) \in Row /\ CanceledRow(r) \in Row
           /\ GracefullyCanceledRow(r) \in Row /\ RetriedRow(r) \in Row
           /\ ExhaustedRow(r) \in Row
           /\ [r EXCEPT !.due = TRUE] \in Row
           /\ [r EXCEPT !.lease = "expired"] \in Row
           /\ \A s \in Steps : /\ InsertedRow(s) \in Row
                               /\ AdvancedRow(r, s) \in Row
                               /\ SleepingRow(r, s) \in Row
           /\ \A w \in WorkerIds : Claimed(r, w) \in Row
  <1>1. AbsentRow \in Row /\ \A s \in Steps : InsertedRow(s) \in Row
    BY DEF Row, Status, Final, AbsentRow, InsertedRow
  <1>2. /\ Release(r) \in Row
        /\ [r EXCEPT !.due = TRUE] \in Row
        /\ [r EXCEPT !.lease = "expired"] \in Row
    BY DEF Row, Release
  <1>3. CompletedRow(r) \in Row /\ ExhaustedRow(r) \in Row
    BY DEF Row, Status, Final, Release, CompletedRow, ExhaustedRow
  <1>4. Recovered(r) \in Row /\ RetryingRow(r) \in Row /\ RetriedRow(r) \in Row
    BY DEF Row, Status, Final, Release, Recovered, RetryingRow, RetriedRow
  <1>5. FailedRow(r) \in Row /\ CanceledRow(r) \in Row
    BY DEF Row, Status, Final, Release, FailedRow, CanceledRow
  <1>6. GracefullyCanceledRow(r) \in Row
    BY DEF Row, Status, Final, GracefullyCanceledRow
  <1>7. \A s \in Steps : AdvancedRow(r, s) \in Row /\ SleepingRow(r, s) \in Row
    BY DEF Row, Status, Release, AdvancedRow, SleepingRow
  <1>8. \A w \in WorkerIds : Claimed(r, w) \in Row
    BY DEF Row, Status, Claimed
  <1> QED
    BY <1>1, <1>2, <1>3, <1>4, <1>5, <1>6, <1>7, <1>8

-----------------------------------------------------------------------------
(* Sequences of attempts.                                                  *)

\* What Append returns, index by index.
LEMMA Appending ==
    ASSUME NEW S, NEW old \in Seq(S), NEW e \in S
    PROVE  LET new == Append(old, e) IN
           /\ new \in Seq(S)
           /\ new[Len(old) + 1] = e
           /\ Len(old) + 1 \in DOMAIN new
           /\ \A n \in DOMAIN old : n \in DOMAIN new /\ new[n] = old[n]
  <1>1. /\ Append(old, e) \in Seq(S)
        /\ Len(Append(old, e)) = Len(old) + 1
        /\ \A i \in 1 .. Len(old) : Append(old, e)[i] = old[i]
        /\ Append(old, e)[Len(old) + 1] = e
    BY AppendProperties
  <1>2. /\ DOMAIN old = 1 .. Len(old) /\ Len(old) \in Nat
        /\ DOMAIN Append(old, e) = 1 .. (Len(old) + 1)
    BY <1>1
  <1> QED
    BY <1>1, <1>2

\* An EXCEPT changes the length of no sequence, also at an index that it does not have.
LEMMA Excepting ==
    ASSUME NEW S, NEW old \in Seq(S), NEW e \in S, NEW i
    PROVE  [old EXCEPT ![i] = e] \in Seq(S)
  <1>1. CASE i \in 1..Len(old)
    BY <1>1, ExceptSeq
  <1>2. CASE i \notin 1..Len(old)
    <2>1. [old EXCEPT ![i] = e] = old
      BY <1>2
    <2> QED
      BY <2>1
  <1> QED
    BY <1>1, <1>2
=============================================================================
