--------------------------- MODULE ProcessProofs ----------------------------
(***************************************************************************)
(* Theorems about what a process of the service runs beside its engine:    *)
(* the drainers of the outbox, the loops with their shutdown, and the      *)
(* scheduler.                                                              *)
(***************************************************************************)
EXTENDS Outbox, ProcessLoops, Schedules, SequenceTheorems, FiniteSetTheorems, TLAPS

-----------------------------------------------------------------------------
(***************************************************************************)
(* Outbox: for every set of messages, every limit of a claim, any finite   *)
(* number of drainers and any number of faults and slow drainers.          *)
(***************************************************************************)

(* The queue.                                                              *)

\* The queue holds every pending message once, and no other.
QueueInv ==
    /\ outbox \in [Messages -> {"absent", "pending", "delivered"}]
    /\ outboxQueue \in Seq(Messages) /\ outboxDue \in 0..Len(outboxQueue)
    /\ \A i, j \in 1..Len(outboxQueue) : outboxQueue[i] = outboxQueue[j] => i = j
    /\ \A m \in Messages :
          outbox[m] = "pending" <=> \E i \in 1..Len(outboxQueue) : outboxQueue[i] = m

DueNow(m) == \E i \in 1..outboxDue : outboxQueue[i] = m

\* What the two halves of the queue hold.
LEMMA Halves ==
    ASSUME QueueInv, NEW n \in 0..Len(outboxQueue)
    PROVE  /\ First(n) \in Seq(Messages) /\ Len(First(n)) = n
           /\ \A i \in 1..n : First(n)[i] = outboxQueue[i]
           /\ After(n) \in Seq(Messages) /\ Len(After(n)) = Len(outboxQueue) - n
           /\ \A i \in 1..(Len(outboxQueue) - n) : After(n)[i] = outboxQueue[n + i]
  <1> DEFINE L == Len(outboxQueue)
  <1>1. L \in Nat /\ n \in Nat /\ n <= L /\ \A i \in 1..L : outboxQueue[i] \in Messages
    BY DEF QueueInv
  <1>2. \A i \in 1..n : outboxQueue[i] \in Messages
    BY <1>1
  <1>3. \A i \in (n + 1)..L : outboxQueue[i] \in Messages
    BY <1>1
  <1>4. /\ First(n) \in Seq(Messages) /\ Len(First(n)) = n
        /\ \A i \in 1..n : First(n)[i] = outboxQueue[i]
    <2>1. n \in Int /\ 1 \in Int /\ n - 1 + 1 = n
      BY <1>1
    <2>2. /\ First(n) \in Seq(Messages)
          /\ Len(First(n)) = IF 1 <= n THEN n - 1 + 1 ELSE 0
          /\ \A i \in 1..(n - 1 + 1) : First(n)[i] = outboxQueue[1 + i - 1]
      BY <1>2, <2>1, SubSeqProperties DEF First
    <2>3. \A i \in 1..n : 1 + i - 1 = i
      BY <1>1
    <2> QED
      BY <1>1, <2>1, <2>2, <2>3
  <1>5. /\ After(n) \in Seq(Messages) /\ Len(After(n)) = L - n
        /\ \A i \in 1..(L - n) : After(n)[i] = outboxQueue[n + i]
    <2>1. n + 1 \in Int /\ L \in Int /\ L - (n + 1) + 1 = L - n
      BY <1>1
    <2>2. /\ After(n) \in Seq(Messages)
          /\ Len(After(n)) = IF n + 1 <= L THEN L - (n + 1) + 1 ELSE 0
          /\ \A i \in 1..(L - (n + 1) + 1) : After(n)[i] = outboxQueue[n + 1 + i - 1]
      BY <1>3, <2>1, SubSeqProperties DEF After
    <2>3. Len(After(n)) = L - n
      BY <1>1, <2>2
    <2>4. ASSUME NEW i \in 1..(L - n) PROVE After(n)[i] = outboxQueue[n + i]
      <3>1. i \in 1..(L - (n + 1) + 1) /\ n + 1 + i - 1 = n + i
        BY <1>1
      <3>2. After(n)[i] = outboxQueue[n + 1 + i - 1]
        BY <2>2, <3>1
      <3> QED
        BY <3>1, <3>2
    <2> QED
      BY <2>2, <2>3, <2>4
  <1> QED
    BY <1>4, <1>5

\* A concatenation, index by index.
LEMMA Joined ==
    ASSUME NEW s \in Seq(Messages), NEW t \in Seq(Messages), NEW a, NEW b,
           a = Len(s), b = Len(t)
    PROVE  /\ s \o t \in Seq(Messages) /\ Len(s \o t) = a + b
           /\ \A i \in 1..a : (s \o t)[i] = s[i]
           /\ \A i \in (a + 1)..(a + b) : (s \o t)[i] = t[i - a]
  <1>1. a \in Nat /\ b \in Nat
    OBVIOUS
  <1>2. /\ s \o t \in Seq(Messages) /\ Len(s \o t) = a + b
        /\ \A i \in 1..(a + b) : (s \o t)[i] = IF i <= a THEN s[i] ELSE t[i - a]
    BY ConcatProperties
  <1> QED
    BY <1>1, <1>2

\* A message that is enqueued is in the queue, before the due ones' end or behind all.
LEMMA EnqueueQueue ==
    ASSUME QueueInv, NEW m \in Messages, EnqueueOutbox(m)
    PROVE  /\ QueueInv'
           /\ \A n \in Messages \ {m} : DueNow(n)' <=> DueNow(n)
  <1> DEFINE L == Len(outboxQueue)
             D == outboxDue
  <1>1. /\ L \in Nat /\ D \in 0..L /\ D \in Nat /\ \A i \in 1..L : outboxQueue[i] \in Messages
        /\ \A i \in 1..L : outboxQueue[i] # m
        /\ outbox' = [outbox EXCEPT ![m] = "pending"]
    BY DEF QueueInv, EnqueueOutbox
  <1>2. CASE outboxQueue' = First(D) \o <<m>> \o After(D) /\ outboxDue' = D + 1
    <2> DEFINE head == First(D) \o <<m>>
    <2>0. /\ First(D) \in Seq(Messages) /\ Len(First(D)) = D
          /\ \A i \in 1..D : First(D)[i] = outboxQueue[i]
          /\ After(D) \in Seq(Messages) /\ Len(After(D)) = L - D
          /\ \A i \in 1..(L - D) : After(D)[i] = outboxQueue[D + i]
      BY <1>1, Halves
    <2>1. /\ head \in Seq(Messages) /\ Len(head) = D + 1 /\ head[D + 1] = m
          /\ \A i \in 1..D : head[i] = outboxQueue[i]
      <3>1. <<m>> \in Seq(Messages) /\ Len(<<m>>) = 1 /\ <<m>>[1] = m
        OBVIOUS
      <3>2. /\ head \in Seq(Messages) /\ Len(head) = D + 1
            /\ \A i \in 1..D : head[i] = First(D)[i]
            /\ \A i \in (D + 1)..(D + 1) : head[i] = <<m>>[i - D]
        BY <2>0, <3>1, Joined
      <3>3. D + 1 \in (D + 1)..(D + 1) /\ D + 1 - D = 1
        BY <1>1
      <3> QED
        BY <2>0, <3>1, <3>2, <3>3
    <2>2. /\ outboxQueue' \in Seq(Messages) /\ Len(outboxQueue') = L + 1
          /\ \A i \in 1..(D + 1) : outboxQueue'[i] = head[i]
          /\ \A i \in (D + 2)..(L + 1) : outboxQueue'[i] = After(D)[i - (D + 1)]
      <3> HIDE DEF head
      <3>1. outboxQueue' = head \o After(D)
        BY <1>2 DEF head
      <3>2. /\ outboxQueue' \in Seq(Messages) /\ Len(outboxQueue') = (D + 1) + (L - D)
            /\ \A i \in 1..(D + 1) : outboxQueue'[i] = head[i]
            /\ \A i \in ((D + 1) + 1)..((D + 1) + (L - D)) : outboxQueue'[i] = After(D)[i - (D + 1)]
        <4>1. ASSUME NEW a, NEW b, a = Len(head), b = Len(After(D))
              PROVE  /\ head \o After(D) \in Seq(Messages) /\ Len(head \o After(D)) = a + b
                     /\ \A i \in 1..a : (head \o After(D))[i] = head[i]
                     /\ \A i \in (a + 1)..(a + b) : (head \o After(D))[i] = After(D)[i - a]
          BY <2>0, <2>1, <4>1, Joined, SMTT(30)
        <4> QED
          BY <2>0, <2>1, <3>1, <4>1
      <3>3. (D + 1) + (L - D) = L + 1 /\ (D + 1) + 1 = D + 2
        BY <1>1
      <3> QED
        BY <3>2, <3>3
    <2> HIDE DEF head
    <2>3. \A i \in 1..(L + 1) :
             outboxQueue'[i] = IF i <= D THEN outboxQueue[i]
                               ELSE IF i = D + 1 THEN m ELSE outboxQueue[i - 1]
      <3> SUFFICES ASSUME NEW i \in 1..(L + 1)
                   PROVE  outboxQueue'[i] = IF i <= D THEN outboxQueue[i]
                                            ELSE IF i = D + 1 THEN m ELSE outboxQueue[i - 1]
        OBVIOUS
      <3>1. CASE i <= D + 1
        BY <1>1, <2>1, <2>2, <3>1
      <3>2. CASE i > D + 1
        <4>1. i - (D + 1) \in 1..(L - D) /\ D + (i - (D + 1)) = i - 1
          BY <1>1, <3>2
        <4>2. After(D)[i - (D + 1)] = outboxQueue[i - 1]
          BY <2>0, <4>1
        <4>3. i \in (D + 2)..(L + 1)
          BY <1>1, <3>2
        <4> QED
          BY <1>1, <2>2, <3>2, <4>2, <4>3
      <3> QED
        BY <1>1, <3>1, <3>2
    <2>4. \A n \in Messages \ {m} : DueNow(n)' <=> DueNow(n)
      <3> SUFFICES ASSUME NEW n \in Messages \ {m} PROVE DueNow(n)' <=> DueNow(n)
        OBVIOUS
      <3>1. \A i \in 1..D : outboxQueue'[i] = outboxQueue[i]
        BY <1>1, <2>3
      <3>2. outboxQueue'[D + 1] = m /\ \A i \in 1..(D + 1) : i \in 1..D \/ i = D + 1
        BY <1>1, <2>3
      <3>3. 1..D \subseteq 1..(D + 1)
        BY <1>1
      <3> QED
        BY <1>2, <3>1, <3>2, <3>3 DEF DueNow
    <2>5. \A i, j \in 1..(L + 1) : outboxQueue'[i] = outboxQueue'[j] => i = j
      BY <1>1, <2>3 DEF QueueInv
    <2>6. \A n \in Messages : (\E i \in 1..(L + 1) : outboxQueue'[i] = n)
                                 <=> n = m \/ \E i \in 1..L : outboxQueue[i] = n
      <3> SUFFICES ASSUME NEW n \in Messages
                   PROVE  (\E i \in 1..(L + 1) : outboxQueue'[i] = n)
                             <=> n = m \/ \E i \in 1..L : outboxQueue[i] = n
        OBVIOUS
      <3>1. ASSUME NEW i \in 1..(L + 1), outboxQueue'[i] = n
            PROVE  n = m \/ \E j \in 1..L : outboxQueue[j] = n
        BY <1>1, <2>3, <3>1
      <3>2. D + 1 \in 1..(L + 1) /\ outboxQueue'[D + 1] = m
        BY <1>1, <2>3
      <3>3. ASSUME NEW i \in 1..L PROVE \E j \in 1..(L + 1) : outboxQueue'[j] = outboxQueue[i]
        <4>1. CASE i <= D
          BY <1>1, <2>3, <4>1
        <4>2. CASE i > D
          <5>1. i + 1 \in 1..(L + 1) /\ ~(i + 1 <= D) /\ i + 1 # D + 1 /\ (i + 1) - 1 = i
            BY <1>1, <4>2
          <5> QED
            BY <2>3, <5>1
        <4> QED
          BY <1>1, <4>1, <4>2
      <3> QED
        BY <3>1, <3>2, <3>3
    <2>7. outboxDue' \in 0..Len(outboxQueue')
      BY <1>1, <1>2, <2>2
    <2> QED
      BY <1>1, <2>2, <2>4, <2>5, <2>6, <2>7 DEF QueueInv
  <1>3. CASE outboxQueue' = Append(outboxQueue, m) /\ UNCHANGED outboxDue
    <2>1. /\ outboxQueue' \in Seq(Messages) /\ Len(outboxQueue') = L + 1
          /\ \A i \in 1..L : outboxQueue'[i] = outboxQueue[i]
          /\ outboxQueue'[L + 1] = m
      BY <1>3, AppendProperties DEF QueueInv
    <2>2. \A i \in 1..(L + 1) : i \in 1..L \/ i = L + 1
      BY <1>1
    <2>3. \A n \in Messages \ {m} : DueNow(n)' <=> DueNow(n)
      BY <1>1, <1>3, <2>1 DEF DueNow
    <2>4. \A i, j \in 1..(L + 1) : outboxQueue'[i] = outboxQueue'[j] => i = j
      BY <1>1, <2>1, <2>2 DEF QueueInv
    <2>5. \A n \in Messages : (\E i \in 1..(L + 1) : outboxQueue'[i] = n)
                                 <=> n = m \/ \E i \in 1..L : outboxQueue[i] = n
      BY <1>1, <2>1, <2>2
    <2>6. outboxDue' \in 0..Len(outboxQueue')
      BY <1>1, <1>3, <2>1
    <2> QED
      BY <1>1, <2>1, <2>3, <2>4, <2>5, <2>6 DEF QueueInv
  <1> QED
    BY <1>2, <1>3 DEF EnqueueOutbox

\* A claim moves what was due behind the rest: each message keeps one place.
LEMMA ClaimQueue ==
    ASSUME QueueInv, NEW d \in Drainers, ClaimOutboxMessages(d)
    PROVE  /\ QueueInv'
           /\ ClaimSize \in 1..outboxDue
           /\ {outboxQueue[i] : i \in 1..ClaimSize} \subseteq {m \in Messages : DueNow(m)}
           /\ \A m \in Messages :
                 DueNow(m)' <=> DueNow(m) /\ m \notin {outboxQueue[i] : i \in 1..ClaimSize}
  <1> DEFINE L == Len(outboxQueue)
             D == outboxDue
             k == ClaimSize
             B == {outboxQueue[i] : i \in 1..k}
  <1>1. /\ L \in Nat /\ D \in Nat /\ D <= L /\ D > 0 /\ \A i \in 1..L : outboxQueue[i] \in Messages
    BY DEF QueueInv, ClaimOutboxMessages
  <1>2. k \in Nat /\ k >= 1 /\ k <= D
    BY <1>1, OutboxAssumption DEF ClaimSize
  <1>3. outboxQueue' = After(k) \o First(k) /\ outboxDue' = D - k /\ UNCHANGED outbox
    BY DEF ClaimOutboxMessages
  <1> HIDE DEF k
  <1>4. k \in 0..L
    BY <1>1, <1>2
  <1>5. /\ First(k) \in Seq(Messages) /\ Len(First(k)) = k
        /\ \A i \in 1..k : First(k)[i] = outboxQueue[i]
        /\ After(k) \in Seq(Messages) /\ Len(After(k)) = L - k
        /\ \A i \in 1..(L - k) : After(k)[i] = outboxQueue[k + i]
    BY <1>4, Halves
  <1>6. /\ outboxQueue' \in Seq(Messages) /\ Len(outboxQueue') = L
        /\ \A i \in 1..(L - k) : outboxQueue'[i] = outboxQueue[k + i]
        /\ \A i \in (L - k + 1)..L : outboxQueue'[i] = outboxQueue[i - (L - k)]
    <2>1. ASSUME NEW a, NEW b, a = Len(After(k)), b = Len(First(k))
          PROVE  /\ outboxQueue' \in Seq(Messages) /\ Len(outboxQueue') = a + b
                 /\ \A i \in 1..a : outboxQueue'[i] = After(k)[i]
                 /\ \A i \in (a + 1)..(a + b) : outboxQueue'[i] = First(k)[i - a]
      BY <1>3, <1>5, <2>1, Joined, SMTT(30)
    <2>2. /\ outboxQueue' \in Seq(Messages) /\ Len(outboxQueue') = (L - k) + k
          /\ \A i \in 1..(L - k) : outboxQueue'[i] = After(k)[i]
          /\ \A i \in (L - k + 1)..((L - k) + k) : outboxQueue'[i] = First(k)[i - (L - k)]
      BY <1>5, <2>1
    <2>3. (L - k) + k = L
      BY <1>1, <1>2
    <2>4. \A i \in (L - k + 1)..L : i - (L - k) \in 1..k
      BY <1>1, <1>2
    <2> QED
      BY <1>5, <2>2, <2>3, <2>4
  <1> DEFINE place(i) == IF i <= L - k THEN k + i ELSE i - (L - k)
             back(i) == IF i > k THEN i - k ELSE i + (L - k)
  <1>7. \A i \in 1..L : place(i) \in 1..L /\ outboxQueue'[i] = outboxQueue[place(i)]
    BY <1>1, <1>2, <1>6
  <1>8. \A i \in 1..L : back(i) \in 1..L /\ place(back(i)) = i
    BY <1>1, <1>2
  <1>9. \A i, j \in 1..L : place(i) = place(j) => i = j
    BY <1>1, <1>2
  <1>10. \A i, j \in 1..L : outboxQueue'[i] = outboxQueue'[j] => i = j
    <2>1. \A i, j \in 1..L : outboxQueue[i] = outboxQueue[j] => i = j
      BY DEF QueueInv
    <2> HIDE DEF place
    <2> QED
      BY <1>7, <1>9, <2>1
  <1>11. \A m \in Messages :
            (\E i \in 1..L : outboxQueue'[i] = m) <=> (\E i \in 1..L : outboxQueue[i] = m)
    <2> HIDE DEF place, back
    <2> QED
      BY <1>7, <1>8
  <1>12. QueueInv'
    <2>1. outboxDue' \in 0..Len(outboxQueue')
      BY <1>1, <1>2, <1>3, <1>6
    <2> QED
      <3>1. /\ outbox' \in [Messages -> {"absent", "pending", "delivered"}]
            /\ \A m \in Messages :
                  outbox'[m] = "pending" <=> \E i \in 1..L : outboxQueue[i] = m
        BY <1>3 DEF QueueInv
      <3>2. \A m \in Messages :
               outbox'[m] = "pending" <=> \E i \in 1..Len(outboxQueue') : outboxQueue'[i] = m
        BY <1>6, <1>11, <3>1
      <3>3. \A i, j \in 1..Len(outboxQueue') : outboxQueue'[i] = outboxQueue'[j] => i = j
        BY <1>6, <1>10
      <3> QED
        BY <1>6, <2>1, <3>1, <3>2, <3>3 DEF QueueInv
  <1>13. B \subseteq {m \in Messages : DueNow(m)}
    BY <1>1, <1>2 DEF DueNow
  <1>14. ASSUME NEW m \in Messages PROVE DueNow(m)' <=> DueNow(m) /\ m \notin B
    <2>1. ASSUME NEW i \in 1..(D - k), outboxQueue'[i] = m PROVE DueNow(m) /\ m \notin B
      <3>1. i \in 1..(L - k) /\ k + i \in 1..D /\ k + i \in 1..L /\ k + i > k
        BY <1>1, <1>2
      <3>2. outboxQueue[k + i] = m
        BY <1>6, <2>1, <3>1
      <3>3. \A j \in 1..k : j \in 1..L /\ j # k + i
        BY <1>1, <1>2, <3>1
      <3> QED
        BY <3>1, <3>2, <3>3 DEF DueNow, QueueInv
    <2>2. ASSUME NEW i \in 1..D, outboxQueue[i] = m, m \notin B PROVE DueNow(m)'
      <3>1. i \notin 1..k
        BY <2>2
      <3>2. i - k \in 1..(D - k) /\ i - k \in 1..(L - k) /\ k + (i - k) = i
        BY <1>1, <1>2, <3>1
      <3>3. outboxQueue'[i - k] = m
        BY <1>6, <2>2, <3>2
      <3> QED
        BY <1>3, <3>2, <3>3 DEF DueNow
    <2> QED
      BY <1>3, <2>1, <2>2 DEF DueNow
  <1>15. k \in 1..D
    BY <1>1, <1>2
  <1> QED
    BY <1>12, <1>13, <1>14, <1>15 DEF k

\* A delivery takes the message out of its one place, and moves no other across the end of
\* those that are due.
LEMMA DeliverQueue ==
    ASSUME QueueInv, NEW m \in Messages, outbox[m] = "pending", Deliver(m)
    PROVE  /\ QueueInv'
           /\ ~DueNow(m)'
           /\ \A n \in Messages \ {m} : DueNow(n)' <=> DueNow(n)
  <1> DEFINE L == Len(outboxQueue)
             D == outboxDue
             p == Position(m)
  <1>1. L \in Nat /\ D \in Nat /\ D <= L /\ \A i \in 1..L : outboxQueue[i] \in Messages
    BY DEF QueueInv
  <1>2. p \in 1..L /\ outboxQueue[p] = m
    <2>1. DOMAIN outboxQueue = 1..L /\ \E i \in 1..L : outboxQueue[i] = m
      BY DEF QueueInv
    <2> QED
      BY <2>1 DEF Position
  <1>3. /\ outbox' = [outbox EXCEPT ![m] = "delivered"]
        /\ outboxQueue' = First(p - 1) \o After(p)
        /\ outboxDue' = IF p <= D THEN D - 1 ELSE D
    BY DEF Deliver, Without
  <1> HIDE DEF p
  <1>4. p - 1 \in 0..L /\ p \in 0..L
    BY <1>1, <1>2
  <1>5. /\ First(p - 1) \in Seq(Messages) /\ Len(First(p - 1)) = p - 1
        /\ \A i \in 1..(p - 1) : First(p - 1)[i] = outboxQueue[i]
        /\ After(p) \in Seq(Messages) /\ Len(After(p)) = L - p
        /\ \A i \in 1..(L - p) : After(p)[i] = outboxQueue[p + i]
    BY <1>4, Halves
  <1>6. /\ outboxQueue' \in Seq(Messages) /\ Len(outboxQueue') = L - 1
        /\ \A i \in 1..(p - 1) : outboxQueue'[i] = outboxQueue[i]
        /\ \A i \in p..(L - 1) : outboxQueue'[i] = outboxQueue[i + 1]
    <2>1. ASSUME NEW a, NEW b, a = Len(First(p - 1)), b = Len(After(p))
          PROVE  /\ outboxQueue' \in Seq(Messages) /\ Len(outboxQueue') = a + b
                 /\ \A i \in 1..a : outboxQueue'[i] = First(p - 1)[i]
                 /\ \A i \in (a + 1)..(a + b) : outboxQueue'[i] = After(p)[i - a]
      BY <1>3, <1>5, <2>1, Joined
    <2>2. /\ outboxQueue' \in Seq(Messages) /\ Len(outboxQueue') = (p - 1) + (L - p)
          /\ \A i \in 1..(p - 1) : outboxQueue'[i] = First(p - 1)[i]
          /\ \A i \in (p - 1 + 1)..((p - 1) + (L - p)) : outboxQueue'[i] = After(p)[i - (p - 1)]
      BY <1>5, <2>1
    <2>3. (p - 1) + (L - p) = L - 1 /\ p - 1 + 1 = p
      BY <1>1, <1>2
    <2>4. \A i \in p..(L - 1) : i - (p - 1) \in 1..(L - p) /\ p + (i - (p - 1)) = i + 1
      BY <1>1, <1>2
    <2> QED
      BY <1>5, <2>2, <2>3, <2>4, SMTT(30)
  <1> DEFINE place(i) == IF i < p THEN i ELSE i + 1
             back(i) == IF i < p THEN i ELSE i - 1
  <1>7. \A i \in 1..(L - 1) : /\ place(i) \in 1..L /\ place(i) # p
                              /\ outboxQueue'[i] = outboxQueue[place(i)]
    BY <1>1, <1>2, <1>6
  <1>8. \A i \in 1..L : i # p => back(i) \in 1..(L - 1) /\ place(back(i)) = i
    BY <1>1, <1>2
  <1>9. \A i, j \in 1..(L - 1) : place(i) = place(j) => i = j
    BY <1>1, <1>2
  <1>10. \A i \in 1..L : i # p => outboxQueue[i] # m
    BY <1>2 DEF QueueInv
  <1>11. \A i, j \in 1..(L - 1) : outboxQueue'[i] = outboxQueue'[j] => i = j
    <2>1. \A i, j \in 1..L : outboxQueue[i] = outboxQueue[j] => i = j
      BY DEF QueueInv
    <2> HIDE DEF place
    <2>2. ASSUME NEW i \in 1..(L - 1), NEW j \in 1..(L - 1), outboxQueue'[i] = outboxQueue'[j]
          PROVE  i = j
      <3>1. place(i) \in 1..L /\ place(j) \in 1..L /\ outboxQueue[place(i)] = outboxQueue[place(j)]
        BY <1>7, <2>2
      <3>2. place(i) = place(j)
        BY <2>1, <3>1
      <3> QED
        BY <1>9, <3>2
    <2> QED
      BY <2>2
  <1>12. \A n \in Messages : (\E i \in 1..(L - 1) : outboxQueue'[i] = n)
                                <=> n # m /\ \E i \in 1..L : outboxQueue[i] = n
    <2> HIDE DEF place, back
    <2>1. ASSUME NEW n \in Messages, NEW i \in 1..(L - 1), outboxQueue'[i] = n
          PROVE  n # m /\ \E j \in 1..L : outboxQueue[j] = n
      <3>1. place(i) \in 1..L /\ place(i) # p /\ outboxQueue[place(i)] = n
        BY <2>1, <1>7
      <3> QED
        BY <3>1, <1>10
    <2>2. ASSUME NEW n \in Messages, n # m, NEW j \in 1..L, outboxQueue[j] = n
          PROVE  \E i \in 1..(L - 1) : outboxQueue'[i] = n
      <3>1. j # p
        BY <2>2, <1>2
      <3>2. back(j) \in 1..(L - 1) /\ place(back(j)) = j
        BY <3>1, <1>8
      <3>3. outboxQueue'[back(j)] = n
        BY <3>2, <2>2, <1>7
      <3> QED
        BY <3>2, <3>3
    <2> QED
      BY <2>1, <2>2
  <1>13. outboxDue' \in 0..(L - 1)
    <2>1. CASE p <= D
      <3>1. D - 1 >= 0 /\ D - 1 <= L - 1
        BY <1>1, <1>2, <2>1
      <3> QED
        BY <1>1, <1>3, <2>1, <3>1
    <2>2. CASE ~(p <= D)
      <3>1. D <= L - 1
        BY <1>1, <1>2, <2>2
      <3> QED
        BY <1>1, <1>3, <2>2, <3>1
    <2> QED
      BY <2>1, <2>2
  <1>14. QueueInv'
    <2>1. \A n \in Messages :
             outbox'[n] = "pending" <=> n # m /\ \E i \in 1..L : outboxQueue[i] = n
      BY <1>3 DEF QueueInv
    <2>2. outbox' \in [Messages -> {"absent", "pending", "delivered"}]
      BY <1>3 DEF QueueInv
    <2> QED
      BY <1>6, <1>11, <1>12, <1>13, <2>1, <2>2 DEF QueueInv
  <1>15. \A i \in 1..outboxDue' : i \in 1..(L - 1) /\ place(i) \in 1..D
    BY <1>1, <1>2, <1>3
  <1>16. \A i \in 1..D : i # p => i \in 1..L /\ back(i) \in 1..outboxDue'
    BY <1>1, <1>2, <1>3
  <1>17. ~DueNow(m)' /\ \A n \in Messages \ {m} : DueNow(n)' <=> DueNow(n)
    <2> HIDE DEF place, back
    <2>1. \A n : DueNow(n)' => DueNow(n) /\ n # m
      BY <1>7, <1>10, <1>15 DEF DueNow
    <2>2. ASSUME NEW n \in Messages \ {m}, NEW i \in 1..D, outboxQueue[i] = n PROVE DueNow(n)'
      <3>1. i # p
        BY <1>2, <2>2
      <3>2. back(i) \in 1..outboxDue' /\ outboxQueue'[back(i)] = n
        BY <1>7, <1>8, <1>16, <2>2, <3>1
      <3> QED
        BY <3>2 DEF DueNow
    <2> QED
      BY <2>1, <2>2 DEF DueNow
  <1> QED
    BY <1>14, <1>17

-----------------------------------------------------------------------------
(* The drainers.                                                           *)

DrainerRecord == [batch : SUBSET Messages, current : Messages \cup {NoMessage},
                  handed : BOOLEAN]

DrainTypes ==
    /\ drainer \in [Drainers -> DrainerRecord] /\ handedOver \in [Messages -> Nat]
    /\ drainSlow \in 0..MaxDrainSlow /\ drainFaults \in 0..MaxDrainFaults

\* The message at hand is one of the batch; what the mark will be put on has been handed
\* over, and so has all that is delivered.
HandsInv ==
    /\ \A d \in Drainers :
          /\ drainer[d].current # NoMessage => drainer[d].current \in drainer[d].batch
          /\ drainer[d].handed => /\ drainer[d].current \in Messages
                                  /\ handedOver[drainer[d].current] > 0
          /\ \A m \in drainer[d].batch : outbox[m] # "absent"
    /\ \A m \in Messages : /\ outbox[m] = "delivered" => handedOver[m] > 0
                           /\ outbox[m] = "absent" => handedOver[m] = 0

\* The drainers that may still hand m over under a claim that they have made.
Waiting(m) == {d \in Drainers : /\ m \in drainer[d].batch
                                /\ ~(drainer[d].current = m /\ drainer[d].handed)}
\* Nobody works on m, but it will be due and claimed again.
Abandoned(m) == /\ outbox[m] = "pending" /\ ~DueNow(m)
                /\ \A d \in Drainers : m \notin drainer[d].batch
Charge(m) == IF DueNow(m) \/ Abandoned(m) THEN 1 ELSE 0

\* What has been handed over, will be under the claims there are, and by the next one, has
\* been paid for: the first time is free.
PaidFor(m) ==
    handedOver[m] + Cardinality(Waiting(m)) + Charge(m) <= 1 + drainSlow + drainFaults

DrainInv == QueueInv /\ DrainTypes /\ HandsInv /\ \A m \in Messages : PaidFor(m)

LEMMA Counting ==
    ASSUME DrainTypes, NEW m \in Messages
    PROVE  /\ Cardinality(Waiting(m)) \in Nat /\ Charge(m) \in {0, 1}
           /\ handedOver[m] \in Nat /\ drainSlow \in Nat /\ drainFaults \in Nat
           /\ \A d \in Drainers :
                 /\ d \notin Waiting(m)
                       => Cardinality(Waiting(m) \cup {d}) = Cardinality(Waiting(m)) + 1
                 /\ d \in Waiting(m)
                       => Cardinality(Waiting(m) \ {d}) = Cardinality(Waiting(m)) - 1
           /\ \A W \in SUBSET Waiting(m) : Cardinality(W) \in Nat
                                           /\ Cardinality(W) <= Cardinality(Waiting(m))
  <1>1. IsFiniteSet(Waiting(m))
    <2>1. Waiting(m) \in SUBSET Drainers
      BY DEF Waiting
    <2> QED
      BY <2>1, OutboxAssumption, FS_Subset
  <1>2. Cardinality(Waiting(m)) \in Nat
    BY <1>1, FS_CardinalityType
  <1>3. \A d \in Drainers :
           /\ d \notin Waiting(m)
                 => Cardinality(Waiting(m) \cup {d}) = Cardinality(Waiting(m)) + 1
           /\ d \in Waiting(m)
                 => Cardinality(Waiting(m) \ {d}) = Cardinality(Waiting(m)) - 1
    BY <1>1, FS_AddElement, FS_RemoveElement
  <1>4. \A W \in SUBSET Waiting(m) : Cardinality(W) \in Nat
                                     /\ Cardinality(W) <= Cardinality(Waiting(m))
    BY <1>1, FS_Subset, FS_CardinalityType
  <1>5. Charge(m) \in {0, 1} /\ handedOver[m] \in Nat /\ drainSlow \in Nat /\ drainFaults \in Nat
    BY OutboxAssumption DEF Charge, DrainTypes
  <1> QED
    BY <1>2, <1>3, <1>4, <1>5

\* A step that does not concern m.
LEMMA Unconcerned ==
    ASSUME DrainInv, DrainTypes', NEW m \in Messages,
           DueNow(m)' => DueNow(m), Abandoned(m)' => Abandoned(m),
           Waiting(m)' = Waiting(m), handedOver'[m] = handedOver[m],
           drainSlow' >= drainSlow, drainFaults' >= drainFaults
    PROVE  PaidFor(m)'
  <1>1. Charge(m)' <= Charge(m)
    BY DEF Charge
  <1>2. PaidFor(m) /\ DrainTypes
    BY DEF DrainInv
  <1>3. /\ Cardinality(Waiting(m)) \in Nat /\ Charge(m) \in {0, 1} /\ Charge(m)' \in {0, 1}
        /\ handedOver[m] \in Nat /\ drainSlow \in Nat /\ drainFaults \in Nat
        /\ drainSlow' \in Nat /\ drainFaults' \in Nat
    <2>1. Charge(m)' \in {0, 1}
      BY DEF Charge
    <2>2. drainSlow' \in Nat /\ drainFaults' \in Nat
      BY OutboxAssumption DEF DrainTypes
    <2> QED
      BY <1>2, <2>1, <2>2, Counting
  <1>4. handedOver[m] + Cardinality(Waiting(m)) + Charge(m) <= 1 + drainSlow + drainFaults
    BY <1>2 DEF PaidFor
  <1>5. handedOver'[m] + Cardinality(Waiting(m)') + Charge(m)' <= 1 + drainSlow' + drainFaults'
    BY <1>1, <1>3, <1>4
  <1> QED
    BY <1>5 DEF PaidFor

\* A step that is paid for: a fault, in which drainers may give m up, or a claim too short.
LEMMA PaidOnce ==
    ASSUME DrainInv, DrainTypes', NEW m \in Messages,
           Waiting(m)' \subseteq Waiting(m), handedOver'[m] = handedOver[m],
           drainSlow' + drainFaults' = drainSlow + drainFaults + 1
    PROVE  PaidFor(m)'
  <1>1. PaidFor(m) /\ DrainTypes
    BY DEF DrainInv
  <1>2. /\ Cardinality(Waiting(m)) \in Nat /\ Charge(m) \in {0, 1} /\ Charge(m)' \in {0, 1}
        /\ handedOver[m] \in Nat /\ drainSlow \in Nat /\ drainFaults \in Nat
        /\ drainSlow' \in Nat /\ drainFaults' \in Nat
        /\ Cardinality(Waiting(m)') \in Nat /\ Cardinality(Waiting(m)') <= Cardinality(Waiting(m))
    <2>1. Charge(m)' \in {0, 1}
      BY DEF Charge
    <2>2. drainSlow' \in Nat /\ drainFaults' \in Nat
      BY OutboxAssumption DEF DrainTypes
    <2> QED
      BY <1>1, <2>1, <2>2, Counting
  <1>3. handedOver[m] + Cardinality(Waiting(m)) + Charge(m) <= 1 + drainSlow + drainFaults
    BY <1>1 DEF PaidFor
  <1>4. handedOver'[m] + Cardinality(Waiting(m)') + Charge(m)' <= 1 + drainSlow' + drainFaults'
    BY <1>2, <1>3
  <1> QED
    BY <1>4 DEF PaidFor

\* A drainer has stopped working on m: it has handed it over, or it leaves it alone.
LEMMA OneLessWaiting ==
    ASSUME DrainInv, DrainTypes', NEW m \in Messages, NEW d \in Waiting(m), NEW n \in {0, 1},
           Waiting(m)' = Waiting(m) \ {d}, handedOver'[m] = handedOver[m] + n,
           Charge(m)' + n <= Charge(m) + 1,
           drainSlow' = drainSlow, drainFaults' = drainFaults
    PROVE  PaidFor(m)'
  <1>1. PaidFor(m) /\ DrainTypes /\ d \in Drainers
    BY DEF DrainInv, Waiting
  <1>2. /\ Cardinality(Waiting(m)) \in Nat /\ Charge(m) \in {0, 1} /\ Charge(m)' \in {0, 1}
        /\ handedOver[m] \in Nat /\ drainSlow \in Nat /\ drainFaults \in Nat
        /\ Cardinality(Waiting(m)') = Cardinality(Waiting(m)) - 1
    <2>1. Charge(m)' \in {0, 1}
      BY DEF Charge
    <2> QED
      BY <1>1, <2>1, Counting
  <1>3. handedOver[m] + Cardinality(Waiting(m)) + Charge(m) <= 1 + drainSlow + drainFaults
    BY <1>1 DEF PaidFor
  <1>4. handedOver'[m] + Cardinality(Waiting(m)') + Charge(m)' <= 1 + drainSlow' + drainFaults'
    BY <1>2, <1>3
  <1> QED
    BY <1>4 DEF PaidFor

-----------------------------------------------------------------------------
(* Each action keeps the invariant.                                        *)

LEMMA DrainFacts ==
    ASSUME DrainInv
    PROVE  /\ QueueInv /\ DrainTypes /\ HandsInv
           /\ drainSlow \in Nat /\ drainFaults \in Nat
           /\ outbox \in [Messages -> {"absent", "pending", "delivered"}]
           /\ drainer \in [Drainers -> DrainerRecord] /\ handedOver \in [Messages -> Nat]
           /\ \A d \in Drainers : drainer[d] \in DrainerRecord
           /\ NoMessage \notin Messages
  BY OutboxAssumption DEF DrainInv, DrainTypes, QueueInv

\* The steps that change no drainer and hand nothing over.
LEMMA SameDrainers ==
    ASSUME DrainInv, UNCHANGED <<drainer, handedOver>>
    PROVE  \A m \in Messages : /\ Waiting(m)' = Waiting(m) /\ handedOver'[m] = handedOver[m]
  BY DEF Waiting

LEMMA EnqueueKeepsInv ==
    ASSUME DrainInv, NEW m \in Messages, EnqueueOutbox(m)
    PROVE  DrainInv'
  <1>1. /\ UNCHANGED <<drainer, handedOver, drainSlow, drainFaults>>
        /\ outbox[m] = "absent" /\ outbox' = [outbox EXCEPT ![m] = "pending"]
    BY DEF EnqueueOutbox
  <1>2. QueueInv' /\ \A n \in Messages \ {m} : DueNow(n)' <=> DueNow(n)
    BY EnqueueQueue, DrainFacts
  <1>3. DrainTypes'
    BY <1>1, DrainFacts DEF DrainTypes
  <1>4. /\ outbox'[m] = "pending" /\ \A n \in Messages \ {m} : outbox'[n] = outbox[n]
        /\ \A d \in Drainers : m \notin drainer[d].batch
        /\ handedOver[m] = 0
    BY <1>1, DrainFacts DEF HandsInv
  <1>5. HandsInv'
    <2>1. \A d \in Drainers : \A n \in drainer[d].batch : outbox'[n] # "absent"
      BY <1>4, DrainFacts DEF HandsInv, DrainerRecord
    <2>2. \A n \in Messages : /\ outbox'[n] = "delivered" => handedOver[n] > 0
                              /\ outbox'[n] = "absent" => handedOver[n] = 0
      BY <1>4, DrainFacts DEF HandsInv
    <2> QED
      BY <1>1, <2>1, <2>2, DrainFacts DEF HandsInv
  <1>6. ASSUME NEW n \in Messages \ {m} PROVE PaidFor(n)'
    <2>1. Abandoned(n)' => Abandoned(n)
      BY <1>1, <1>2, <1>4 DEF Abandoned
    <2> QED
      BY <1>1, <1>2, <1>3, <2>1, SameDrainers, Unconcerned, DrainFacts
  <1>7. PaidFor(m)'
    <2>1. Waiting(m)' = {}
      BY <1>1, <1>4 DEF Waiting
    <2>2. Cardinality(Waiting(m)') = 0 /\ Charge(m)' \in {0, 1} /\ handedOver'[m] = 0
      BY <1>1, <1>4, <2>1, FS_EmptySet DEF Charge
    <2> QED
      BY <1>1, <2>2, DrainFacts DEF PaidFor
  <1> QED
    BY <1>2, <1>3, <1>5, <1>6, <1>7 DEF DrainInv

LEMMA TimeKeepsInv ==
    ASSUME DrainInv, OutboxTimePasses
    PROVE  DrainInv'
  <1>1. /\ UNCHANGED <<outbox, outboxQueue, drainer, handedOver, drainFaults>>
        /\ outboxDue < Len(outboxQueue) /\ outboxDue' = outboxDue + 1
        /\ IF \E d \in Drainers : outboxQueue[outboxDue + 1] \in drainer[d].batch
             THEN drainSlow < MaxDrainSlow /\ drainSlow' = drainSlow + 1
             ELSE UNCHANGED drainSlow
    BY DEF OutboxTimePasses
  <1>2. /\ outboxDue \in Nat /\ Len(outboxQueue) \in Nat /\ outboxDue + 1 \in 1..Len(outboxQueue)
        /\ outboxQueue \in Seq(Messages)
    BY <1>1, DrainFacts DEF QueueInv
  <1>3. PICK e \in Messages : e = outboxQueue[outboxDue + 1]
    BY <1>2
  <1>4. outbox[e] = "pending" /\ ~DueNow(e)
    <2>1. \A i \in 1..outboxDue : i \in 1..Len(outboxQueue) /\ i # outboxDue + 1
      BY <1>2
    <2> QED
      BY <1>2, <1>3, <2>1, DrainFacts DEF QueueInv, DueNow
  <1>5. QueueInv'
    <2>1. outboxDue' \in 0..Len(outboxQueue')
      BY <1>1, <1>2
    <2> QED
      BY <1>1, <2>1, DrainFacts DEF QueueInv
  <1>6. DrainTypes' /\ drainSlow' \in {drainSlow, drainSlow + 1}
    BY <1>1, DrainFacts, OutboxAssumption DEF DrainTypes
  <1>7. HandsInv'
    BY <1>1, DrainFacts DEF HandsInv
  <1>8. drainSlow' >= drainSlow /\ drainFaults' >= drainFaults
    BY <1>1, <1>6, DrainFacts
  <1>9. \A i \in 1..outboxDue' : i \in 1..outboxDue \/ i = outboxDue + 1
    BY <1>1, <1>2
  <1>10. ASSUME NEW n \in Messages, n # e PROVE PaidFor(n)'
    <2>1. DueNow(n)' => DueNow(n)
      BY <1>1, <1>3, <1>9, <1>10 DEF DueNow
    <2>2. DueNow(n) => DueNow(n)'
      BY <1>1, <1>2 DEF DueNow
    <2>3. Abandoned(n)' => Abandoned(n)
      BY <1>1, <2>2 DEF Abandoned
    <2> QED
      BY <1>1, <1>6, <1>8, <2>1, <2>3, SameDrainers, Unconcerned
  <1>11. PaidFor(e)'
    <2>1. Waiting(e)' = Waiting(e) /\ handedOver'[e] = handedOver[e]
      BY <1>1, SameDrainers
    <2>2. CASE \E d \in Drainers : e \in drainer[d].batch
      <3>1. drainSlow' = drainSlow + 1
        BY <1>1, <1>3, <2>2
      <3>2. drainSlow' + drainFaults' = drainSlow + drainFaults + 1
        BY <1>1, <3>1, DrainFacts
      <3>3. Waiting(e)' \subseteq Waiting(e)
        BY <2>1
      <3> QED
        BY <1>6, <2>1, <3>2, <3>3, PaidOnce
    <2>3. CASE ~\E d \in Drainers : e \in drainer[d].batch
      <3>1. Charge(e) = 1 /\ Charge(e)' \in {0, 1}
        BY <1>4, <2>3 DEF Abandoned, Charge
      <3>2. /\ handedOver[e] + Cardinality(Waiting(e)) + Charge(e) <= 1 + drainSlow + drainFaults
            /\ handedOver[e] \in Nat /\ Cardinality(Waiting(e)) \in Nat
        BY Counting, DrainFacts DEF DrainInv, PaidFor
      <3>3. drainSlow' \in Nat /\ drainFaults' = drainFaults
        BY <1>1, <1>6, DrainFacts
      <3>4. handedOver'[e] + Cardinality(Waiting(e)') + Charge(e)' <= 1 + drainSlow' + drainFaults'
        BY <1>8, <2>1, <3>1, <3>2, <3>3, DrainFacts
      <3> QED
        BY <3>4 DEF PaidFor
    <2> QED
      BY <2>2, <2>3
  <1> QED
    BY <1>5, <1>6, <1>7, <1>10, <1>11 DEF DrainInv

LEMMA ClaimKeepsInv ==
    ASSUME DrainInv, NEW d \in Drainers, ClaimOutboxMessages(d)
    PROVE  DrainInv'
  <1>1. PICK B : B = {outboxQueue[i] : i \in 1..ClaimSize}
    OBVIOUS
  <1>2. /\ drainer[d].batch = {} /\ drainer' = [drainer EXCEPT ![d].batch = B]
        /\ UNCHANGED <<outbox, handedOver, drainSlow, drainFaults>>
    BY <1>1 DEF ClaimOutboxMessages
  <1>3. /\ QueueInv' /\ B \subseteq {m \in Messages : DueNow(m)}
        /\ \A m \in Messages : DueNow(m)' <=> DueNow(m) /\ m \notin B
    BY <1>1, ClaimQueue, DrainFacts
  <1>4. drainer[d].current = NoMessage /\ ~drainer[d].handed
    <2>1. drainer[d].current \notin Messages
      BY <1>2, DrainFacts DEF HandsInv
    <2> QED
      BY <2>1, DrainFacts DEF HandsInv, DrainerRecord
  <1>5. /\ drainer' \in [Drainers -> DrainerRecord]
        /\ \A f \in Drainers \ {d} : drainer'[f] = drainer[f]
        /\ drainer'[d].batch = B /\ drainer'[d].current = NoMessage /\ ~drainer'[d].handed
    <2> DEFINE claimed == [drainer[d] EXCEPT !.batch = B]
    <2>1. claimed \in DrainerRecord /\ claimed.batch = B /\ claimed.current = NoMessage
          /\ ~claimed.handed
      BY <1>3, <1>4, DrainFacts DEF DrainerRecord
    <2>2. drainer' = [drainer EXCEPT ![d] = claimed]
      BY <1>2, DrainFacts
    <2> HIDE DEF claimed
    <2> QED
      BY <2>1, <2>2, DrainFacts
  <1>6. DrainTypes'
    BY <1>2, <1>5, DrainFacts DEF DrainTypes
  <1>7. \A m \in B : outbox[m] = "pending"
    <2>1. \A m \in Messages : DueNow(m) => outbox[m] = "pending"
      BY DrainFacts DEF QueueInv, DueNow
    <2> QED
      BY <1>3, <2>1
  <1>8. HandsInv'
    BY <1>2, <1>5, <1>7, DrainFacts DEF HandsInv
  <1>9. ASSUME NEW m \in Messages, m \notin B PROVE PaidFor(m)'
    <2>1. Waiting(m)' = Waiting(m)
      BY <1>2, <1>5, <1>9 DEF Waiting
    <2>2. \A f \in Drainers : m \in drainer[f].batch => m \in drainer'[f].batch
      BY <1>2, <1>5
    <2>3. Abandoned(m)' => Abandoned(m)
      BY <1>2, <1>3, <1>9, <2>2 DEF Abandoned
    <2>4. drainSlow' >= drainSlow /\ drainFaults' >= drainFaults
      BY <1>2, DrainFacts
    <2> QED
      BY <1>2, <1>3, <1>6, <1>9, <2>1, <2>3, <2>4, Unconcerned
  <1>10. ASSUME NEW m \in B PROVE PaidFor(m)'
    <2>1. m \in Messages /\ DueNow(m) /\ ~DueNow(m)'
      BY <1>3, <1>10
    <2>2. Waiting(m)' = Waiting(m) \cup {d} /\ d \notin Waiting(m)
      BY <1>2, <1>5, <1>10, <2>1, DrainFacts DEF Waiting
    <2>3. ~Abandoned(m)'
      BY <1>5, <1>10 DEF Abandoned
    <2>4. Charge(m) = 1 /\ Charge(m)' = 0
      BY <2>1, <2>3 DEF Charge
    <2>5. /\ handedOver[m] + Cardinality(Waiting(m)) + Charge(m) <= 1 + drainSlow + drainFaults
          /\ handedOver[m] \in Nat /\ Cardinality(Waiting(m)) \in Nat
          /\ Cardinality(Waiting(m)') = Cardinality(Waiting(m)) + 1
      BY <2>1, <2>2, Counting, DrainFacts DEF DrainInv, PaidFor
    <2>6. handedOver'[m] + Cardinality(Waiting(m)') + Charge(m)' <= 1 + drainSlow' + drainFaults'
      BY <1>2, <2>4, <2>5, DrainFacts
    <2> QED
      BY <2>6 DEF PaidFor
  <1> QED
    BY <1>3, <1>6, <1>8, <1>9, <1>10 DEF DrainInv

\* A step of one drainer that leaves queue and messages alone.
LEMMA SameQueue ==
    ASSUME DrainInv, UNCHANGED <<outbox, outboxQueue, outboxDue>>
    PROVE  QueueInv' /\ \A m \in Messages : DueNow(m)' <=> DueNow(m)
  BY DrainFacts DEF QueueInv, DueNow

LEMMA NextKeepsInv ==
    ASSUME DrainInv, NEW d \in Drainers, NextRecord(d)
    PROVE  DrainInv'
  <1>1. PICK m \in drainer[d].batch :
           drainer' = IF m \in Handled
                        THEN [drainer EXCEPT ![d].current = m]
                        ELSE [drainer EXCEPT ![d].batch = @ \ {m}]
    BY DEF NextRecord
  <1>2. /\ drainer[d].current = NoMessage /\ drainer[d] \in DrainerRecord /\ m \in Messages
        /\ UNCHANGED <<outbox, outboxQueue, outboxDue, handedOver, drainSlow, drainFaults>>
    BY DrainFacts DEF NextRecord, DrainerRecord
  <1>3. ~drainer[d].handed
    BY <1>2, DrainFacts DEF HandsInv
  <1>4. QueueInv' /\ \A n \in Messages : DueNow(n)' <=> DueNow(n)
    BY <1>2, SameQueue
  <1>5. drainSlow' = drainSlow /\ drainFaults' = drainFaults /\ drainSlow' >= drainSlow
        /\ drainFaults' >= drainFaults
    BY <1>2, DrainFacts
  <1>6. CASE m \in Handled
    <2> DEFINE at == [drainer[d] EXCEPT !.current = m]
    <2>1. /\ at \in DrainerRecord /\ at.batch = drainer[d].batch /\ at.current = m
          /\ ~at.handed
      BY <1>2, <1>3 DEF DrainerRecord
    <2>2. drainer' = [drainer EXCEPT ![d] = at]
      BY <1>1, <1>6, DrainFacts
    <2> HIDE DEF at
    <2>3. /\ drainer' \in [Drainers -> DrainerRecord] /\ drainer'[d] = at
          /\ \A f \in Drainers \ {d} : drainer'[f] = drainer[f]
      BY <2>1, <2>2, DrainFacts
    <2>4. DrainTypes'
      BY <1>2, <2>3, DrainFacts DEF DrainTypes
    <2>5. HandsInv'
      BY <1>1, <1>2, <2>1, <2>3, DrainFacts DEF HandsInv
    <2>6. ASSUME NEW n \in Messages PROVE PaidFor(n)'
      <3>1. Waiting(n)' = Waiting(n)
        BY <1>3, <2>1, <2>3 DEF Waiting
      <3>2. Abandoned(n)' => Abandoned(n)
        BY <1>2, <1>4, <2>1, <2>3 DEF Abandoned
      <3> QED
        BY <1>2, <1>4, <1>5, <2>4, <3>1, <3>2, Unconcerned
    <2> QED
      BY <1>4, <2>4, <2>5, <2>6 DEF DrainInv
  <1>7. CASE m \notin Handled
    <2> DEFINE at == [drainer[d] EXCEPT !.batch = @ \ {m}]
    <2>1. /\ at \in DrainerRecord /\ at.batch = drainer[d].batch \ {m} /\ at.current = NoMessage
          /\ ~at.handed
      BY <1>2, <1>3 DEF DrainerRecord
    <2>2. drainer' = [drainer EXCEPT ![d] = at]
      BY <1>1, <1>7, DrainFacts
    <2> HIDE DEF at
    <2>3. /\ drainer' \in [Drainers -> DrainerRecord] /\ drainer'[d] = at
          /\ \A f \in Drainers \ {d} : drainer'[f] = drainer[f]
      BY <2>1, <2>2, DrainFacts
    <2>4. DrainTypes'
      BY <1>2, <2>3, DrainFacts DEF DrainTypes
    <2>5. HandsInv'
      BY <1>1, <1>2, <2>1, <2>3, DrainFacts DEF HandsInv
    <2>6. ASSUME NEW n \in Messages, n # m PROVE PaidFor(n)'
      <3>1. Waiting(n)' = Waiting(n)
        BY <1>3, <2>1, <2>3, <2>6 DEF Waiting
      <3>2. Abandoned(n)' => Abandoned(n)
        BY <1>2, <1>4, <2>1, <2>3, <2>6 DEF Abandoned
      <3> QED
        BY <1>2, <1>4, <1>5, <2>4, <3>1, <3>2, Unconcerned
    <2>7. PaidFor(m)'
      <3>1. d \in Waiting(m) /\ Waiting(m)' = Waiting(m) \ {d}
        BY <1>3, <2>1, <2>3 DEF Waiting
      <3>2. Charge(m)' + 0 <= Charge(m) + 1 /\ handedOver'[m] = handedOver[m] + 0
        BY <1>2, DrainFacts DEF Charge
      <3> QED
        BY <1>2, <1>5, <2>4, <3>1, <3>2, OneLessWaiting
    <2> QED
      BY <1>4, <2>4, <2>5, <2>6, <2>7 DEF DrainInv
  <1> QED
    BY <1>6, <1>7

\* The handler has succeeded.
LEMMA HandedKeepsInv ==
    ASSUME DrainInv, NEW d \in Drainers, NEW m, m = drainer[d].current,
           m # NoMessage, ~drainer[d].handed,
           handedOver' = [handedOver EXCEPT ![m] = @ + 1],
           drainer' = [drainer EXCEPT ![d].handed = TRUE],
           UNCHANGED <<outbox, outboxQueue, outboxDue, drainSlow, drainFaults>>
    PROVE  DrainInv'
  <1>1. drainer[d] \in DrainerRecord /\ m \in Messages /\ m \in drainer[d].batch
    BY DrainFacts DEF DrainerRecord, HandsInv
  <1>2. QueueInv' /\ \A n \in Messages : DueNow(n)' <=> DueNow(n)
    BY SameQueue
  <1> DEFINE at == [drainer[d] EXCEPT !.handed = TRUE]
  <1>3. /\ at \in DrainerRecord /\ at.batch = drainer[d].batch /\ at.current = m
        /\ at.handed
    BY <1>1 DEF DrainerRecord
  <1>4. drainer' = [drainer EXCEPT ![d] = at]
    BY DrainFacts
  <1> HIDE DEF at
  <1>5. /\ drainer' \in [Drainers -> DrainerRecord] /\ drainer'[d] = at
        /\ \A f \in Drainers \ {d} : drainer'[f] = drainer[f]
    BY <1>3, <1>4, DrainFacts
  <1>6. /\ handedOver' \in [Messages -> Nat] /\ handedOver'[m] = handedOver[m] + 1
        /\ \A n \in Messages \ {m} : handedOver'[n] = handedOver[n]
        /\ handedOver'[m] > 0
    BY <1>1, DrainFacts
  <1>7. DrainTypes'
    BY <1>5, <1>6, DrainFacts DEF DrainTypes
  <1>8. HandsInv'
    <2>1. outbox[m] # "absent"
      BY <1>1, DrainFacts DEF HandsInv
    <2> QED
      BY <1>1, <1>3, <1>5, <1>6, <2>1, DrainFacts DEF HandsInv
  <1>9. drainSlow' >= drainSlow /\ drainFaults' >= drainFaults
    BY DrainFacts
  <1>10. \A n \in Messages : Abandoned(n)' => Abandoned(n)
    BY <1>2, <1>3, <1>5 DEF Abandoned
  <1>11. ASSUME NEW n \in Messages, n # m PROVE PaidFor(n)'
    <2>1. Waiting(n)' = Waiting(n)
      BY <1>3, <1>5, <1>11 DEF Waiting
    <2> QED
      BY <1>2, <1>6, <1>7, <1>9, <1>10, <1>11, <2>1, Unconcerned
  <1>12. PaidFor(m)'
    <2>1. d \in Waiting(m) /\ Waiting(m)' = Waiting(m) \ {d}
      BY <1>1, <1>3, <1>5 DEF Waiting
    <2>2. Charge(m)' + 1 <= Charge(m) + 1
      BY <1>1, <1>2, <1>10 DEF Charge
    <2> QED
      BY <1>1, <1>6, <1>7, <2>1, <2>2, OneLessWaiting
  <1> QED
    BY <1>2, <1>7, <1>8, <1>11, <1>12 DEF DrainInv

\* The drainer turns from the record at hand, or loses its batch.
LEMMA Leaving ==
    ASSUME DrainInv, NEW d \in Drainers,
           \/ Leave(d)
           \/ drainer' = [drainer EXCEPT ![d] = IdleDrainer]
    PROVE  /\ drainer' \in [Drainers -> DrainerRecord]
           /\ \A f \in Drainers \ {d} : drainer'[f] = drainer[f]
           /\ drainer'[d].current = NoMessage /\ ~drainer'[d].handed
           /\ drainer'[d].batch \subseteq drainer[d].batch
           /\ Leave(d) => drainer'[d].batch = drainer[d].batch \ {drainer[d].current}
           /\ \A m \in Messages : Waiting(m)' \subseteq Waiting(m)
  <1>1. drainer[d] \in DrainerRecord
    BY DrainFacts
  <1>2. PICK at \in DrainerRecord :
           /\ drainer' = [drainer EXCEPT ![d] = at]
           /\ at.current = NoMessage /\ ~at.handed
           /\ at.batch \subseteq drainer[d].batch \ {drainer[d].current}
           /\ Leave(d) => at.batch = drainer[d].batch \ {drainer[d].current}
    <2>1. CASE Leave(d)
      <3> DEFINE at == [batch |-> drainer[d].batch \ {drainer[d].current},
                        current |-> NoMessage, handed |-> FALSE]
      <3>1. at \in DrainerRecord
        BY <1>1 DEF DrainerRecord
      <3>2. drainer' = [drainer EXCEPT ![d] = at]
        BY <2>1, DrainFacts DEF Leave
      <3> QED
        BY <3>1, <3>2
    <2>2. CASE ~Leave(d)
      <3>1. drainer' = [drainer EXCEPT ![d] = IdleDrainer]
        BY <2>2
      <3>2. /\ IdleDrainer \in DrainerRecord /\ IdleDrainer.current = NoMessage
            /\ ~IdleDrainer.handed /\ IdleDrainer.batch = {}
        BY DEF IdleDrainer, DrainerRecord
      <3> QED
        BY <2>2, <3>1, <3>2
    <2> QED
      BY <2>1, <2>2
  <1>3. /\ drainer' \in [Drainers -> DrainerRecord] /\ drainer'[d] = at
        /\ \A f \in Drainers \ {d} : drainer'[f] = drainer[f]
    BY <1>2, DrainFacts
  <1>4. \A m \in Messages : Waiting(m)' \subseteq Waiting(m)
    <2> SUFFICES ASSUME NEW m \in Messages, NEW f \in Drainers, f \in Waiting(m)'
                 PROVE  f \in Waiting(m)
      BY DEF Waiting
    <2>1. CASE f # d
      BY <1>3, <2>1 DEF Waiting
    <2>2. CASE f = d
      <3>1. m \in drainer[d].batch /\ m # drainer[d].current
        BY <1>2, <1>3, <2>2 DEF Waiting
      <3> QED
        BY <2>2, <3>1 DEF Waiting
    <2> QED
      BY <2>1, <2>2
  <1> QED
    BY <1>2, <1>3, <1>4

\* Leaving keeps what is said of the hands of the drainers.
LEMMA LeavingHands ==
    ASSUME DrainInv, NEW d \in Drainers,
           \/ Leave(d)
           \/ drainer' = [drainer EXCEPT ![d] = IdleDrainer],
           handedOver' = handedOver,
           \A n \in Messages : \/ outbox'[n] = outbox[n]
                               \/ outbox'[n] = "delivered" /\ handedOver[n] > 0
    PROVE  HandsInv'
  <1>1. ASSUME NEW f \in Drainers
        PROVE  /\ drainer'[f].current # NoMessage => drainer'[f].current \in drainer'[f].batch
               /\ drainer'[f].handed => /\ drainer'[f].current \in Messages
                                        /\ handedOver'[drainer'[f].current] > 0
               /\ \A m \in drainer'[f].batch : outbox'[m] # "absent"
    <2>1. /\ drainer'[f].batch \subseteq drainer[f].batch /\ drainer[f].batch \subseteq Messages
          /\ f # d => drainer'[f] = drainer[f]
          /\ f = d => drainer'[f].current = NoMessage /\ ~drainer'[f].handed
      BY Leaving, DrainFacts DEF DrainerRecord
    <2> QED
      BY <2>1, DrainFacts DEF HandsInv
  <1>2. \A m \in Messages : /\ outbox'[m] = "delivered" => handedOver'[m] > 0
                            /\ outbox'[m] = "absent" => handedOver'[m] = 0
    BY DrainFacts DEF HandsInv
  <1> QED
    BY <1>1, <1>2 DEF HandsInv

\* A handler throws, a mark fails or a drainer dies: it is a fault.
LEMMA FaultKeepsInv ==
    ASSUME DrainInv, NEW d \in Drainers,
           \/ Leave(d)
           \/ drainer' = [drainer EXCEPT ![d] = IdleDrainer],
           drainFaults < MaxDrainFaults, drainFaults' = drainFaults + 1,
           UNCHANGED <<outbox, outboxQueue, outboxDue, handedOver, drainSlow>>
    PROVE  DrainInv'
  <1>1. QueueInv'
    BY SameQueue
  <1>2. DrainTypes'
    BY Leaving, DrainFacts, OutboxAssumption DEF DrainTypes
  <1>3. HandsInv'
    BY LeavingHands
  <1>4. drainSlow' + drainFaults' = drainSlow + drainFaults + 1
    BY DrainFacts
  <1>5. \A m \in Messages : PaidFor(m)'
    BY <1>2, <1>4, Leaving, PaidOnce
  <1> QED
    BY <1>1, <1>2, <1>3, <1>5 DEF DrainInv

\* The message at hand is marked, or another drainer has marked it.
LEMMA MarkKeepsInv ==
    ASSUME DrainInv, NEW d \in Drainers, NEW m, m = drainer[d].current,
           drainer[d].handed, Leave(d),
           \/ outbox[m] = "pending" /\ Deliver(m)
           \/ outbox[m] = "delivered" /\ UNCHANGED <<outbox, outboxQueue, outboxDue>>,
           UNCHANGED <<handedOver, drainSlow, drainFaults>>
    PROVE  DrainInv'
  <1>1. m \in Messages /\ m \in drainer[d].batch /\ handedOver[m] > 0
    BY DrainFacts DEF HandsInv
  <1>2. /\ QueueInv' /\ outbox'[m] = "delivered" /\ (DueNow(m)' => DueNow(m))
        /\ \A n \in Messages \ {m} : outbox'[n] = outbox[n] /\ (DueNow(n)' <=> DueNow(n))
    <2>1. CASE outbox[m] = "pending" /\ Deliver(m)
      <3>1. \A n \in Messages \ {m} : outbox'[n] = outbox[n]
        BY <2>1, DrainFacts DEF Deliver
      <3>2. outbox'[m] = "delivered"
        BY <1>1, <2>1, DrainFacts DEF Deliver
      <3> QED
        BY <1>1, <2>1, <3>1, <3>2, DeliverQueue, DrainFacts
    <2>2. CASE outbox[m] = "delivered" /\ UNCHANGED <<outbox, outboxQueue, outboxDue>>
      BY <1>1, <2>2, SameQueue
    <2> QED
      BY <2>1, <2>2
  <1>3. DrainTypes'
    BY Leaving, DrainFacts DEF DrainTypes
  <1>4. HandsInv'
    BY <1>1, <1>2, LeavingHands
  <1>5. /\ \A f \in Drainers \ {d} : drainer'[f] = drainer[f]
        /\ drainer'[d].current = NoMessage /\ ~drainer'[d].handed
        /\ drainer'[d].batch = drainer[d].batch \ {m}
    BY Leaving
  <1>6. \A n \in Messages : Waiting(n)' = Waiting(n)
    BY <1>5 DEF Waiting
  <1>7. \A n \in Messages : Abandoned(n)' => Abandoned(n)
    <2> SUFFICES ASSUME NEW n \in Messages, Abandoned(n)' PROVE Abandoned(n)
      OBVIOUS
    <2>1. n # m
      BY <1>2 DEF Abandoned
    <2> QED
      BY <1>2, <1>5, <2>1 DEF Abandoned
  <1>8. drainSlow' >= drainSlow /\ drainFaults' >= drainFaults
    BY DrainFacts
  <1>9. \A n \in Messages : PaidFor(n)'
    BY <1>2, <1>3, <1>6, <1>7, <1>8, Unconcerned
  <1> QED
    BY <1>2, <1>3, <1>4, <1>9 DEF DrainInv

LEMMA DrainStep == DrainInv /\ [OutboxNext]_outboxVars => DrainInv'
  <1> SUFFICES ASSUME DrainInv, [OutboxNext]_outboxVars PROVE DrainInv'
    OBVIOUS
  <1>1. ASSUME NEW m \in Messages, EnqueueOutbox(m) PROVE DrainInv'
    BY <1>1, EnqueueKeepsInv
  <1>2. CASE OutboxTimePasses
    BY <1>2, TimeKeepsInv
  <1>3. ASSUME NEW d \in Drainers, ClaimOutboxMessages(d) \/ NextRecord(d) PROVE DrainInv'
    BY <1>3, ClaimKeepsInv, NextKeepsInv
  <1>4. ASSUME NEW d \in Drainers, Handle(d) PROVE DrainInv'
    BY <1>4, HandedKeepsInv, FaultKeepsInv DEF Handle
  <1>5. ASSUME NEW d \in Drainers, MarkOutboxDelivered(d) PROVE DrainInv'
    BY <1>5, MarkKeepsInv, FaultKeepsInv DEF MarkOutboxDelivered
  <1>6. ASSUME NEW d \in Drainers, DrainerCrashes(d) PROVE DrainInv'
    BY <1>6, FaultKeepsInv DEF DrainerCrashes
  <1>7. CASE UNCHANGED outboxVars
    <2>1. UNCHANGED <<outbox, outboxQueue, outboxDue, drainer, handedOver, drainSlow, drainFaults>>
      BY <1>7 DEF outboxVars
    <2>2. QueueInv' /\ \A m \in Messages : DueNow(m)' <=> DueNow(m)
      BY <2>1, SameQueue
    <2>3. DrainTypes' /\ HandsInv'
      BY <2>1, DrainFacts DEF DrainTypes, HandsInv
    <2>4. \A m \in Messages : Abandoned(m)' => Abandoned(m)
      BY <2>1, <2>2 DEF Abandoned
    <2>5. drainSlow' >= drainSlow /\ drainFaults' >= drainFaults
      BY <2>1, DrainFacts
    <2>6. \A m \in Messages : PaidFor(m)'
      BY <2>1, <2>2, <2>3, <2>4, <2>5, SameDrainers, Unconcerned
    <2> QED
      BY <2>2, <2>3, <2>6 DEF DrainInv
  <1> QED
    BY <1>1, <1>2, <1>3, <1>4, <1>5, <1>6, <1>7 DEF OutboxNext, Drain

LEMMA DrainInit == OutboxInit => DrainInv
  <1> SUFFICES ASSUME OutboxInit PROVE DrainInv
    OBVIOUS
  <1>1. QueueInv /\ \A m \in Messages : ~DueNow(m)
    BY DEF OutboxInit, QueueInv, DueNow
  <1>2. DrainTypes /\ HandsInv
    BY OutboxAssumption DEF OutboxInit, DrainTypes, HandsInv, IdleDrainer, DrainerRecord
  <1>3. ASSUME NEW m \in Messages PROVE PaidFor(m)
    <2>1. Waiting(m) = {} /\ handedOver[m] = 0 /\ drainSlow = 0 /\ drainFaults = 0
      BY DEF OutboxInit, Waiting, IdleDrainer
    <2>2. Cardinality(Waiting(m)) = 0 /\ Charge(m) \in {0, 1}
      BY <2>1, FS_EmptySet DEF Charge
    <2> QED
      BY <2>1, <2>2 DEF PaidFor
  <1> QED
    BY <1>1, <1>2, <1>3 DEF DrainInv

LEMMA DrainInvariant == OutboxSpec => []DrainInv
  BY DrainInit, DrainStep, PTL DEF OutboxSpec

-----------------------------------------------------------------------------
(* The theorems.                                                           *)

\* The outbox is always in a state of its types (OutboxTypeOK): the part that is due never
\* outgrows the queue, wherever a late mark takes a message out of it.
THEOREM OutboxTypes == OutboxSpec => []OutboxTypeOK
  <1>1. DrainInv => OutboxTypeOK
    BY DEF DrainInv, QueueInv, DrainTypes, DrainerRecord, OutboxTypeOK
  <1> QED
    BY <1>1, DrainInvariant, PTL

\* src/lib/outbox.ts, drainOutbox: a message that is marked has been handed over, and each
\* time after the first has a fault or a claim that ran out of its own to explain it, however
\* many drainers there are and however their batches overlap (AtLeastOnceDelivery).
THEOREM AtLeastOnce == OutboxSpec => []AtLeastOnceDelivery
  <1>1. DrainInv => AtLeastOnceDelivery
    <2> SUFFICES ASSUME DrainInv, NEW m \in Messages
                 PROVE  /\ outbox[m] = "delivered" => handedOver[m] > 0
                        /\ handedOver[m] <= 1 + drainSlow + drainFaults
      BY DEF AtLeastOnceDelivery
    <2>1. outbox[m] = "delivered" => handedOver[m] > 0
      BY DrainFacts DEF HandsInv
    <2>2. handedOver[m] + Cardinality(Waiting(m)) + Charge(m) <= 1 + drainSlow + drainFaults
      BY DEF DrainInv, PaidFor
    <2>3. /\ Cardinality(Waiting(m)) \in Nat /\ Charge(m) \in {0, 1} /\ handedOver[m] \in Nat
          /\ drainSlow \in Nat /\ drainFaults \in Nat
      BY Counting, DrainFacts
    <2> QED
      BY <2>1, <2>2, <2>3
  <1> QED
    BY <1>1, DrainInvariant, PTL

-----------------------------------------------------------------------------
(***************************************************************************)
(* ProcessLoops: for every number of loops and whichever of them have no   *)
(* catch.                                                                  *)
(***************************************************************************)

LoopRecord == [active : BOOLEAN, inFlight : BOOLEAN, timer : BOOLEAN]

-----------------------------------------------------------------------------
(* The order of the stops.                                                 *)

LEMMA StopsInOrderOnce ==
    /\ StopOrder \in Seq(Loops) /\ Len(StopOrder) \in Nat \ {0}
    /\ StopOrder[1] = Worker /\ Worker \in Loops
    /\ \A l \in Loops : \E i \in 1..Len(StopOrder) : StopOrder[i] = l
    /\ \A i \in 2..Len(StopOrder) : StopOrder[i] # Worker
  <1>1. Timed \in Seq(Loops) /\ Worker \in Loops /\ Len(Timed) \in Nat
    BY LoopsAssumption DEF Loops
  <1>2. StopOrder \in Seq(Loops) /\ Len(StopOrder) = Len(Timed) + 1 /\ StopOrder[1] = Worker
    BY <1>1 DEF StopOrder
  <1>3. \A i \in 1..Len(Timed) : StopOrder[i + 1] = Timed[i]
    BY <1>1 DEF StopOrder
  <1>4. ASSUME NEW l \in Loops PROVE \E i \in 1..Len(StopOrder) : StopOrder[i] = l
    <2>1. CASE l = Worker
      BY <1>1, <1>2, <2>1
    <2>2. CASE l # Worker
      <3>1. PICK i \in 1..Len(Timed) : Timed[i] = l
        BY <1>1, <2>2 DEF Loops
      <3>2. i + 1 \in 1..Len(StopOrder) /\ StopOrder[i + 1] = l
        BY <1>1, <1>2, <1>3, <3>1
      <3> QED
        BY <3>2
    <2> QED
      BY <2>1, <2>2
  <1>5. ASSUME NEW i \in 2..Len(StopOrder) PROVE StopOrder[i] # Worker
    <2>1. 1 \in DOMAIN StopOrder /\ i \in DOMAIN StopOrder /\ i # 1
      BY <1>1, <1>2
    <2> QED
      BY <1>2, <2>1, LoopsAssumption
  <1> QED
    BY <1>1, <1>2, <1>4, <1>5

-----------------------------------------------------------------------------
(* Type correctness.                                                       *)

\* A stop that goes on is the stop of some loop, and the pool comes after all of them.
StopsInTurn ==
    /\ shutdown.phase \in {"stopping", "unlistening", "awaiting"} => shutdown.at <= Len(StopOrder)
    /\ shutdown.phase \in {"closing", "done"} => shutdown.at = Len(StopOrder) + 1
    /\ pool = "ended" => shutdown.phase = "done"

LoopsTypeInv == LoopsTypeOK /\ StopsInTurn

\* What the actions write about a loop is about a loop.
LEMMA Writes ==
    ASSUME LoopsTypeOK, NEW l \in Loops
    PROVE  /\ StartTick(l) => loop' \in [Loops -> LoopRecord] /\ ticking' \in [Loops -> Nat]
           /\ Rest(l) => loop' \in [Loops -> LoopRecord]
           /\ StopFlags(l) \in [Loops -> LoopRecord]
           /\ [loop EXCEPT ![l].inFlight = FALSE] \in [Loops -> LoopRecord]
           /\ \A b \in BOOLEAN : [loop EXCEPT ![l].timer = b] \in [Loops -> LoopRecord]
           /\ ticking[l] > 0 => [ticking EXCEPT ![l] = @ - 1] \in [Loops -> Nat]
  <1>1. loop \in [Loops -> LoopRecord] /\ ticking \in [Loops -> Nat]
    BY DEF LoopsTypeOK, LoopRecord
  <1>2. loop[l] \in LoopRecord
    BY <1>1
  <1>3. ASSUME NEW e \in LoopRecord PROVE [loop EXCEPT ![l] = e] \in [Loops -> LoopRecord]
    BY <1>1
  <1>4. StartTick(l) => loop' \in [Loops -> LoopRecord] /\ ticking' \in [Loops -> Nat]
    <2>1. [loop EXCEPT ![l].inFlight = TRUE, ![l].timer = FALSE] \in [Loops -> LoopRecord]
      BY <1>1, <1>2 DEF LoopRecord
    <2>2. [ticking EXCEPT ![l] = @ + 1] \in [Loops -> Nat]
      BY <1>1
    <2> QED
      BY <2>1, <2>2 DEF StartTick
  <1>5. Rest(l) => loop' \in [Loops -> LoopRecord]
    <2>1. (loop[l].timer \/ loop[l].active) \in BOOLEAN
      BY <1>2 DEF LoopRecord
    <2>2. ASSUME NEW b \in BOOLEAN
          PROVE  [loop EXCEPT ![l].inFlight = FALSE, ![l].timer = b] \in [Loops -> LoopRecord]
      BY <1>1, <1>2 DEF LoopRecord
    <2>3. Rest(l) => loop' = [loop EXCEPT ![l].inFlight = FALSE,
                                          ![l].timer = loop[l].timer \/ loop[l].active]
      BY <1>1 DEF Rest
    <2> QED
      BY <2>1, <2>2, <2>3
  <1>6. StopFlags(l) \in [Loops -> LoopRecord]
    BY <1>1, <1>2 DEF StopFlags, LoopRecord
  <1>7. [loop EXCEPT ![l].inFlight = FALSE] \in [Loops -> LoopRecord]
    BY <1>1, <1>2 DEF LoopRecord
  <1>8. \A b \in BOOLEAN : [loop EXCEPT ![l].timer = b] \in [Loops -> LoopRecord]
    BY <1>1, <1>2 DEF LoopRecord
  <1>9. ticking[l] > 0 => [ticking EXCEPT ![l] = @ - 1] \in [Loops -> Nat]
    BY <1>1
  <1> QED
    BY <1>4, <1>5, <1>6, <1>7, <1>8, <1>9

\* A pass that begins, ends or fails, and a wakeup, do not touch the shutdown.
LEMMA PassTypes ==
    ASSUME LoopsTypeInv,
           \/ Wake
           \/ \E l \in Loops : TimerFires(l) \/ EndTick(l) \/ TickRejects(l)
    PROVE  LoopsTypeInv'
  <1>1. UNCHANGED <<shutdown, pool, listening>> /\ process' \in {process, "dead"}
    BY DEF Wake, TimerFires, EndTick, TickRejects
  <1>2. StopsInTurn'
    BY <1>1 DEF LoopsTypeInv, StopsInTurn
  <1> DEFINE LoopTypes == loop' \in [Loops -> LoopRecord] /\ ticking' \in [Loops -> Nat]
             Flags == wakeRequested' \in BOOLEAN /\ owed' \in BOOLEAN
  <1>3. SUFFICES LoopTypes /\ Flags
    BY <1>1, <1>2 DEF LoopsTypeInv, LoopsTypeOK, LoopRecord
  <1>4. loop \in [Loops -> LoopRecord] /\ ticking \in [Loops -> Nat] /\ Worker \in Loops
    BY DEF LoopsTypeInv, LoopsTypeOK, LoopRecord, Loops
  <1>5. wakeRequested \in BOOLEAN /\ owed \in BOOLEAN /\ LoopsTypeOK
    BY DEF LoopsTypeInv, LoopsTypeOK
  <1>6. CASE Wake
    <2>1. CASE WakeLater
      <3>1. loop' = [loop EXCEPT ![Worker].timer = FALSE] /\ UNCHANGED ticking
        BY <2>1 DEF WakeLater
      <3>2. LoopTypes
        BY <3>1, <1>4, <1>5, Writes
      <3> QED
        BY <2>1, <3>2 DEF WakeLater
    <2>2. CASE StartTick(Worker) /\ UNCHANGED wakeRequested
      BY <2>2, <1>4, <1>5, Writes DEF StartTick
    <2>3. CASE UNCHANGED <<loop, ticking, wakeRequested, owed>>
      BY <2>3, <1>4, <1>5
    <2> QED
      BY <1>6, <2>1, <2>2, <2>3 DEF Wake
  <1>7. ASSUME NEW l \in Loops, TimerFires(l) PROVE LoopTypes /\ Flags
    <2>1. CASE StartTick(l) /\ UNCHANGED wakeRequested
      BY <2>1, <1>5, Writes DEF StartTick
    <2>2. CASE /\ loop' = [loop EXCEPT ![l].timer = l # Worker /\ loop[l].active]
               /\ wakeRequested' = IF l = Worker THEN loop[l].active ELSE wakeRequested
               /\ UNCHANGED <<ticking, owed>>
      <3>1. loop[l].active \in BOOLEAN /\ (l # Worker /\ loop[l].active) \in BOOLEAN
        BY <1>4 DEF LoopRecord
      <3>2. loop' \in [Loops -> LoopRecord]
        BY <3>1, <2>2, <1>5, Writes
      <3> QED
        BY <3>1, <3>2, <2>2, <1>4, <1>5
    <2> QED
      BY <1>7, <2>1, <2>2 DEF TimerFires
  <1>8. ASSUME NEW l \in Loops, EndTick(l) PROVE LoopTypes /\ Flags
    <2>1. ticking' \in [Loops -> Nat]
      BY <1>8, <1>4, <1>5, Writes DEF EndTick
    <2>2. loop' \in [Loops -> LoopRecord]
      <3>1. CASE loop' = loop
        BY <3>1, <1>4
      <3>2. CASE loop' = [loop EXCEPT ![l].inFlight = FALSE]
        BY <3>2, <1>5, Writes
      <3>3. CASE Rest(l)
        BY <3>3, <1>5, Writes
      <3> QED
        BY <1>8, <3>1, <3>2, <3>3 DEF EndTick
    <2>3. Flags
      BY <1>8, <1>5 DEF EndTick
    <2> QED
      BY <2>1, <2>2, <2>3
  <1>9. ASSUME NEW l \in Loops, TickRejects(l) PROVE LoopTypes /\ Flags
    BY <1>9, <1>4, <1>5 DEF TickRejects
  <1> QED
    BY <1>6, <1>7, <1>8, <1>9

\* The rest of the actions begin no pass and end none.
LEMMA ShutdownTypes ==
    ASSUME LoopsTypeInv, ListenSettles \/ ListenerBreaks \/ Signal \/ Shutdown
    PROVE  LoopsTypeInv'
  <1> DEFINE Stop == /\ shutdown' \in [phase : Phases, at : 1..(Len(StopOrder) + 1)]
                     /\ StopsInTurn'
             Flags == /\ owed' \in BOOLEAN /\ listening' \in {"connecting", "yes", "failed", "stopped"}
                      /\ pool' \in {"open", "ended"} /\ process' \in {"up", "dead"}
  <1>1. /\ shutdown \in [phase : Phases, at : 1..(Len(StopOrder) + 1)]
        /\ Len(StopOrder) \in Nat \ {0} /\ LoopsTypeOK /\ StopsInTurn
    BY StopsInOrderOnce DEF LoopsTypeInv, LoopsTypeOK
  <1>2. ASSUME Stop, Flags, UNCHANGED <<ticking, wakeRequested>>,
               loop' \in [Loops -> LoopRecord]
        PROVE  LoopsTypeInv'
    BY <1>1, <1>2 DEF LoopsTypeInv, LoopsTypeOK, LoopRecord
  <1>3. loop \in [Loops -> LoopRecord]
    BY <1>1 DEF LoopsTypeOK, LoopRecord
  <1>4. CASE ListenSettles \/ ListenerBreaks
    <2>1. Stop /\ Flags /\ UNCHANGED <<loop, ticking, wakeRequested>>
      BY <1>1, <1>4 DEF ListenSettles, ListenerBreaks, LoopsTypeOK, StopsInTurn
    <2> QED
      BY <1>2, <1>3, <2>1
  <1>5. CASE Signal
    <2>1. Stop /\ Flags /\ UNCHANGED <<loop, ticking, wakeRequested>>
      BY <1>1, <1>5 DEF Signal, LoopsTypeOK, StopsInTurn, Phases
    <2> QED
      BY <1>2, <1>3, <2>1
  <1>6. CASE StopLoop
    <2>1. Stop
      BY <1>1, <1>6 DEF StopLoop, LoopsTypeOK, StopsInTurn, Phases
    <2>2. Flags /\ UNCHANGED <<ticking, wakeRequested>>
      BY <1>1, <1>6 DEF StopLoop, LoopsTypeOK
    <2>3. Stopped \in Loops
      BY <1>1, <1>6, StopsInOrderOnce DEF StopLoop, StopsInTurn, Stopped
    <2>4. loop' \in [Loops -> LoopRecord]
      BY <1>1, <1>6, <2>3, Writes DEF StopLoop
    <2> QED
      BY <1>2, <2>1, <2>2, <2>4
  <1>7. CASE StopListening \/ AwaitInFlight \/ EndPool
    <2>1. Stop
      BY <1>1, <1>7 DEF StopListening, AwaitInFlight, EndPool, LoopsTypeOK, StopsInTurn, Phases
    <2>2. Flags /\ UNCHANGED <<loop, ticking, wakeRequested>>
      BY <1>1, <1>7 DEF StopListening, AwaitInFlight, EndPool, LoopsTypeOK
    <2> QED
      BY <1>2, <1>3, <2>1, <2>2
  <1> QED
    BY <1>4, <1>5, <1>6, <1>7 DEF Shutdown

LEMMA LoopsInitTypes == LoopsInit => LoopsTypeInv
  <1>1. LoopsInit => shutdown \in [phase : Phases, at : 1..(Len(StopOrder) + 1)]
    BY StopsInOrderOnce DEF LoopsInit, Phases
  <1>2. LoopsInit => LoopsTypeOK
    <2>1. LoopsInit => loop \in [Loops -> [active : BOOLEAN, inFlight : BOOLEAN, timer : BOOLEAN]]
      BY DEF LoopsInit
    <2>2. LoopsInit => ticking \in [Loops -> Nat]
      BY DEF LoopsInit
    <2> QED
      BY <1>1, <2>1, <2>2 DEF LoopsInit, LoopsTypeOK
  <1>3. LoopsInit => StopsInTurn
    BY DEF LoopsInit, StopsInTurn
  <1> QED
    BY <1>2, <1>3 DEF LoopsTypeInv

\* The process is always in a state of its types (LoopsTypeOK), which needs that a stop in
\* progress is the stop of some loop: shutdown counts no further than its list.
THEOREM LoopsTypes == LoopsSpec => []LoopsTypeOK
  <1>1. LoopsInit => LoopsTypeInv
    BY LoopsInitTypes
  <1>2. LoopsTypeInv /\ [LoopsNext]_loopVars => LoopsTypeInv'
    <2>1. LoopsTypeInv /\ UNCHANGED loopVars => LoopsTypeInv'
      BY DEF LoopsTypeInv, LoopsTypeOK, StopsInTurn, loopVars
    <2> QED
      BY <2>1, PassTypes, ShutdownTypes DEF LoopsNext
  <1> QED
    BY <1>1, <1>2, PTL DEF LoopsSpec, LoopsTypeInv

-----------------------------------------------------------------------------
(* No loop sleeps, and no pass outlives its stop.                          *)

\* At most one pass of a loop runs, as its flag says; the timer of a loop is set between
\* the passes of a loop that has not been stopped, and only then.
LoopOK(l) ==
    /\ ticking[l] = IF loop[l].inFlight THEN 1 ELSE 0
    /\ loop[l].timer => loop[l].active /\ ~loop[l].inFlight
    /\ loop[l].active => loop[l].inFlight \/ loop[l].timer

\* A wakeup that is owed is one that the pass in flight will find.
WakeupOwed ==
    owed => loop[Worker].active /\ loop[Worker].inFlight /\ wakeRequested

\* The loops that shutdown has dealt with are at rest, the one at hand begins no pass.
StopsAreFinal ==
    /\ \A i \in 1..Len(StopOrder) :
          i < shutdown.at => ~loop[StopOrder[i]].active /\ ticking[StopOrder[i]] = 0
    /\ shutdown.phase \in {"unlistening", "awaiting"} => ~loop[Stopped].active

LoopsInv == LoopsTypeInv /\ (\A l \in Loops : LoopOK(l)) /\ WakeupOwed /\ StopsAreFinal

\* What may happen to the loop l in a step that is not one of the shutdown.
LEMMA Passes ==
    ASSUME LoopsInv, NEW l \in Loops,
           \/ Wake /\ l = Worker
           \/ TimerFires(l) \/ EndTick(l)
    PROVE  /\ \A k \in Loops \ {l} : loop'[k] = loop[k] /\ ticking'[k] = ticking[k]
           /\ loop'[l].active = loop[l].active
           /\ ~loop[l].active => ticking'[l] <= ticking[l]
           /\ LoopOK(l)' /\ WakeupOwed'
  <1>1. /\ loop \in [Loops -> LoopRecord] /\ ticking \in [Loops -> Nat] /\ Worker \in Loops
        /\ loop[l] \in LoopRecord /\ LoopOK(l) /\ LoopOK(Worker) /\ WakeupOwed
        /\ wakeRequested \in BOOLEAN /\ owed \in BOOLEAN
    BY DEF LoopsInv, LoopsTypeInv, LoopsTypeOK, LoopRecord, Loops
  <1>2. CASE StartTick(l) /\ loop[l].active /\ ~loop[l].inFlight /\ UNCHANGED wakeRequested
    <2>1. /\ loop' = [loop EXCEPT ![l].inFlight = TRUE, ![l].timer = FALSE]
          /\ ticking' = [ticking EXCEPT ![l] = @ + 1] /\ owed' = (owed /\ l # Worker)
      BY <1>2 DEF StartTick
    <2>2. /\ \A k \in Loops \ {l} : loop'[k] = loop[k] /\ ticking'[k] = ticking[k]
          /\ loop'[l] = [loop[l] EXCEPT !.inFlight = TRUE, !.timer = FALSE]
          /\ ticking'[l] = ticking[l] + 1
      BY <1>1, <2>1
    <2>3. /\ loop'[l].active = loop[l].active /\ loop'[l].inFlight /\ ~loop'[l].timer
      BY <1>1, <2>2 DEF LoopRecord
    <2>4. LoopOK(l)'
      BY <1>1, <1>2, <2>2, <2>3 DEF LoopOK
    <2>5. WakeupOwed'
      <3>1. CASE l = Worker
        BY <2>1, <3>1 DEF WakeupOwed
      <3>2. CASE l # Worker
        BY <1>1, <1>2, <2>1, <2>2, <3>2 DEF WakeupOwed
      <3> QED
        BY <3>1, <3>2
    <2> QED
      BY <1>2, <2>2, <2>3, <2>4, <2>5
  <1>3. CASE Wake /\ l = Worker
    <2>1. CASE WakeLater /\ loop[Worker].active /\ loop[Worker].inFlight
      <3>1. /\ loop' = [loop EXCEPT ![Worker].timer = FALSE] /\ ticking' = ticking
            /\ wakeRequested'
        BY <2>1 DEF WakeLater
      <3>2. /\ \A k \in Loops \ {l} : loop'[k] = loop[k]
            /\ loop'[l] = [loop[l] EXCEPT !.timer = FALSE]
        BY <1>1, <1>3, <3>1
      <3>3. loop'[l].active /\ loop'[l].inFlight /\ ~loop'[l].timer
        BY <1>1, <1>3, <2>1, <3>2 DEF LoopRecord
      <3> QED
        BY <1>1, <1>3, <2>1, <3>1, <3>2, <3>3 DEF LoopOK, WakeupOwed
    <2>2. CASE UNCHANGED <<loop, ticking, wakeRequested, owed>>
      BY <2>2, <1>1 DEF LoopOK, WakeupOwed
    <2> QED
      BY <1>2, <1>3, <2>1, <2>2 DEF Wake
  <1>4. CASE TimerFires(l)
    <2>1. loop[l].active /\ ~loop[l].inFlight
      BY <1>1, <1>4 DEF TimerFires, LoopOK
    <2> QED
      BY <1>2, <1>4, <2>1 DEF TimerFires
  <1>5. CASE EndTick(l)
    <2>1. loop[l].inFlight /\ ~loop[l].timer /\ ticking[l] = 1
      BY <1>1, <1>5 DEF EndTick, LoopOK
    <2>2. CASE l = Worker /\ wakeRequested /\ loop[l].active
      BY <1>1, <1>5, <2>2 DEF EndTick, LoopOK, WakeupOwed
    <2>3. ASSUME NEW b \in BOOLEAN, b = loop[l].active,
                 loop' = [loop EXCEPT ![l].inFlight = FALSE, ![l].timer = b],
                 ticking' = [ticking EXCEPT ![l] = @ - 1], owed' = owed,
                 owed => l # Worker, wakeRequested' = wakeRequested
          PROVE  /\ \A k \in Loops \ {l} : loop'[k] = loop[k] /\ ticking'[k] = ticking[k]
                 /\ loop'[l].active = loop[l].active
                 /\ ticking'[l] <= ticking[l]
                 /\ LoopOK(l)' /\ WakeupOwed'
      <3>1. /\ \A k \in Loops \ {l} : loop'[k] = loop[k] /\ ticking'[k] = ticking[k]
            /\ loop'[l] = [loop[l] EXCEPT !.inFlight = FALSE, !.timer = b]
            /\ ticking'[l] = 0
        BY <1>1, <2>1, <2>3
      <3>2. loop'[l].active = loop[l].active /\ ~loop'[l].inFlight /\ loop'[l].timer = b
        BY <1>1, <3>1 DEF LoopRecord
      <3>3. LoopOK(l)'
        BY <2>3, <3>1, <3>2 DEF LoopOK
      <3>4. WakeupOwed'
        BY <1>1, <2>3, <3>1 DEF WakeupOwed
      <3> QED
        BY <2>1, <3>1, <3>2, <3>3, <3>4
    <2>4. CASE l = Worker /\ wakeRequested /\ ~loop[l].active
      <3>1. ~owed
        BY <1>1, <2>4 DEF WakeupOwed
      <3>2. loop' = [loop EXCEPT ![l].inFlight = FALSE] /\ owed' = owed
            /\ ticking' = [ticking EXCEPT ![l] = @ - 1]
        BY <1>5, <2>4 DEF EndTick
      <3>3. /\ \A k \in Loops \ {l} : loop'[k] = loop[k] /\ ticking'[k] = ticking[k]
            /\ loop'[l] = [loop[l] EXCEPT !.inFlight = FALSE]
            /\ ticking'[l] = 0
        BY <1>1, <2>1, <3>2
      <3>4. loop'[l].active = loop[l].active /\ ~loop'[l].inFlight /\ ~loop'[l].timer
        BY <1>1, <2>1, <3>3 DEF LoopRecord
      <3> QED
        BY <1>1, <2>1, <2>4, <3>1, <3>2, <3>3, <3>4 DEF LoopOK, WakeupOwed
    <2>5. CASE ~(l = Worker /\ wakeRequested)
      <3>1. owed => l # Worker
        BY <1>1, <2>5 DEF WakeupOwed
      <3>2. /\ Rest(l) /\ ticking' = [ticking EXCEPT ![l] = @ - 1]
            /\ owed' = owed /\ wakeRequested' = wakeRequested
        BY <1>5, <2>5 DEF EndTick
      <3>3. loop' = [loop EXCEPT ![l].inFlight = FALSE,
                                 ![l].timer = loop[l].timer \/ loop[l].active]
        BY <1>1, <3>2 DEF Rest
      <3>4. loop[l].active \in BOOLEAN /\ (loop[l].timer \/ loop[l].active) = loop[l].active
        BY <1>1, <2>1 DEF LoopRecord
      <3>5. loop' = [loop EXCEPT ![l].inFlight = FALSE, ![l].timer = loop[l].active]
        BY <3>3, <3>4
      <3> QED
        BY <2>3, <3>1, <3>2, <3>4, <3>5
    <2> QED
      BY <2>2, <2>4, <2>5
  <1> QED
    BY <1>3, <1>4, <1>5

\* A stop in progress is the stop of a loop.
LEMMA StoppedIsALoop ==
    ASSUME LoopsTypeInv, shutdown.phase \in {"stopping", "unlistening", "awaiting"}
    PROVE  shutdown.at \in 1..Len(StopOrder) /\ Stopped \in Loops
  <1>1. shutdown.at \in Nat /\ shutdown.at >= 1 /\ shutdown.at <= Len(StopOrder)
    BY StopsInOrderOnce DEF LoopsTypeInv, LoopsTypeOK, StopsInTurn
  <1>2. shutdown.at \in 1..Len(StopOrder)
    BY <1>1, StopsInOrderOnce
  <1> QED
    BY <1>2, StopsInOrderOnce DEF Stopped

LEMMA LoopsInitInv == LoopsInit => LoopsInv
  <1> SUFFICES ASSUME LoopsInit PROVE LoopsInv
    OBVIOUS
  <1>1. LoopsTypeInv
    BY LoopsInitTypes
  <1>2. \A l \in Loops : LoopOK(l)
    BY DEF LoopsInit, LoopOK
  <1>3. WakeupOwed
    BY DEF LoopsInit, WakeupOwed
  <1>4. StopsAreFinal
    BY StopsInOrderOnce DEF LoopsInit, StopsAreFinal
  <1> QED
    BY <1>1, <1>2, <1>3, <1>4 DEF LoopsInv

\* A pass keeps the invariant: a loop that is stopped begins none.
LEMMA PassesKeepInv ==
    ASSUME LoopsInv, NEW l \in Loops,
           (Wake /\ l = Worker) \/ TimerFires(l) \/ EndTick(l)
    PROVE  LoopsInv'
  <1>1. LoopsTypeInv'
    BY PassTypes DEF LoopsInv
  <1>2. /\ \A k \in Loops \ {l} : loop'[k] = loop[k] /\ ticking'[k] = ticking[k]
        /\ loop'[l].active = loop[l].active
        /\ ~loop[l].active => ticking'[l] <= ticking[l]
        /\ LoopOK(l)' /\ WakeupOwed' /\ shutdown' = shutdown
    BY Passes DEF Wake, TimerFires, EndTick
  <1>3. \A k \in Loops : LoopOK(k)'
    <2> SUFFICES ASSUME NEW k \in Loops, k # l PROVE LoopOK(k)'
      BY <1>2
    <2>1. LoopOK(k) /\ loop'[k] = loop[k] /\ ticking'[k] = ticking[k]
      BY <1>2 DEF LoopsInv
    <2> QED
      BY <2>1 DEF LoopOK
  <1>4. \A k \in Loops : /\ ~loop[k].active => ~loop'[k].active
                         /\ ~loop[k].active /\ ticking[k] = 0 => ticking'[k] = 0
    <2>1. ticking \in [Loops -> Nat] /\ ticking' \in [Loops -> Nat]
      BY <1>1 DEF LoopsInv, LoopsTypeInv, LoopsTypeOK
    <2> QED
      BY <1>2, <2>1
  <1>5. StopsAreFinal'
    <2>1. \A i \in 1..Len(StopOrder) : StopOrder[i] \in Loops
      BY StopsInOrderOnce
    <2>2. shutdown.phase \in {"unlistening", "awaiting"} => Stopped \in Loops
      BY StoppedIsALoop DEF LoopsInv
    <2> QED
      BY <1>2, <1>4, <2>1, <2>2 DEF LoopsInv, StopsAreFinal, Stopped
  <1> QED
    BY <1>1, <1>2, <1>3, <1>5 DEF LoopsInv

\* A stop takes the timer with it, and waits for the pass in flight.
LEMMA StopKeepsInv ==
    ASSUME LoopsInv, StopLoop
    PROVE  LoopsInv'
  <1> DEFINE s == Stopped
  <1>1. LoopsTypeInv'
    BY ShutdownTypes DEF LoopsInv, Shutdown
  <1>2. s \in Loops /\ shutdown.phase = "stopping" /\ shutdown \in [phase : Phases, at : Nat]
    <2>1. shutdown.phase = "stopping" /\ LoopsTypeInv
      BY DEF LoopsInv, StopLoop
    <2>2. shutdown \in [phase : Phases, at : Nat]
      BY <2>1, StopsInOrderOnce DEF LoopsTypeInv, LoopsTypeOK
    <2> QED
      BY <2>1, <2>2, StoppedIsALoop
  <1>3. loop \in [Loops -> LoopRecord] /\ Worker \in Loops
    BY DEF LoopsInv, LoopsTypeInv, LoopsTypeOK, LoopRecord, Loops
  <1>4. loop' = [loop EXCEPT ![s].active = FALSE, ![s].timer = FALSE] /\ ticking' = ticking
    BY DEF StopLoop, StopFlags
  <1>5. /\ \A k \in Loops \ {s} : loop'[k] = loop[k]
        /\ loop'[s] = [loop[s] EXCEPT !.active = FALSE, !.timer = FALSE]
    BY <1>2, <1>3, <1>4
  <1>6. ~loop'[s].active /\ ~loop'[s].timer /\ loop'[s].inFlight = loop[s].inFlight
    BY <1>2, <1>3, <1>5 DEF LoopRecord
  <1>7. \A k \in Loops : LoopOK(k)'
    <2> SUFFICES ASSUME NEW k \in Loops PROVE LoopOK(k)'
      OBVIOUS
    <2>1. LoopOK(k)
      BY DEF LoopsInv
    <2> QED
      BY <1>4, <1>5, <1>6, <2>1 DEF LoopOK
  <1>8. WakeupOwed'
    BY <1>3, <1>5 DEF LoopsInv, WakeupOwed, StopLoop
  <1>9. StopsAreFinal'
    <2>1. shutdown'.at = shutdown.at /\ shutdown'.phase \in {"unlistening", "awaiting"}
      BY <1>2 DEF StopLoop
    <2>2. Stopped' = s
      BY <2>1 DEF Stopped
    <2>3. \A k \in Loops : ~loop[k].active => ~loop'[k].active
      BY <1>5, <1>6
    <2> QED
      <3>1. \A i \in 1..Len(StopOrder) : StopOrder[i] \in Loops
        BY StopsInOrderOnce
      <3> QED
        BY <1>4, <1>6, <2>1, <2>2, <2>3, <3>1 DEF LoopsInv, StopsAreFinal
  <1> QED
    BY <1>1, <1>7, <1>8, <1>9 DEF LoopsInv

LEMMA LoopsStepInv == LoopsInv /\ [LoopsNext]_loopVars => LoopsInv'
  <1> SUFFICES ASSUME LoopsInv, [LoopsNext]_loopVars PROVE LoopsInv'
    OBVIOUS
  <1>1. ASSUME LoopsTypeInv', UNCHANGED <<loop, ticking, wakeRequested, owed>>, StopsAreFinal'
        PROVE  LoopsInv'
    <2>1. \A l \in Loops : LoopOK(l)'
      BY <1>1 DEF LoopsInv, LoopOK
    <2> QED
      BY <1>1, <2>1 DEF LoopsInv, WakeupOwed
  <1>2. ASSUME LoopsTypeInv', UNCHANGED <<loop, ticking, wakeRequested, owed, shutdown>> PROVE LoopsInv'
    <2>1. StopsAreFinal'
      BY <1>2 DEF LoopsInv, StopsAreFinal, Stopped
    <2> QED
      BY <1>1, <1>2, <2>1
  <1>3. CASE Wake
    BY <1>3, PassesKeepInv DEF Loops
  <1>4. ASSUME NEW l \in Loops, TimerFires(l) \/ EndTick(l) PROVE LoopsInv'
    BY <1>4, PassesKeepInv
  <1>5. ASSUME NEW l \in Loops, TickRejects(l) PROVE LoopsInv'
    <2>1. LoopsTypeInv'
      BY <1>5, PassTypes DEF LoopsInv
    <2> QED
      BY <1>2, <1>5, <2>1 DEF TickRejects
  <1>6. CASE ListenSettles \/ ListenerBreaks
    <2>1. LoopsTypeInv'
      BY <1>6, ShutdownTypes DEF LoopsInv
    <2> QED
      BY <1>2, <1>6, <2>1 DEF ListenSettles, ListenerBreaks
  <1>7. CASE Signal \/ StopListening \/ EndPool
    <2>1. LoopsTypeInv'
      BY <1>7, ShutdownTypes DEF LoopsInv, Shutdown
    <2>2. CASE Signal
      <3>1. StopsAreFinal'
        BY <2>2, StopsInOrderOnce DEF Signal, StopsAreFinal
      <3> QED
        BY <1>1, <2>1, <2>2, <3>1 DEF Signal
    <2>3. CASE StopListening \/ EndPool
      <3>1. /\ shutdown'.at = shutdown.at /\ UNCHANGED <<loop, ticking, wakeRequested, owed>>
            /\ shutdown'.phase \in {"unlistening", "awaiting"}
                  => shutdown.phase \in {"unlistening", "awaiting"}
        BY <2>3 DEF LoopsInv, LoopsTypeInv, LoopsTypeOK, StopListening, EndPool
      <3>2. StopsAreFinal'
        BY <3>1 DEF LoopsInv, StopsAreFinal, Stopped
      <3> QED
        BY <1>1, <2>1, <3>1, <3>2
    <2> QED
      BY <1>7, <2>2, <2>3
  <1>8. CASE StopLoop
    BY <1>8, StopKeepsInv
  <1>9. CASE AwaitInFlight
    <2>1. LoopsTypeInv'
      BY <1>9, ShutdownTypes DEF LoopsInv, Shutdown
    <2>2. /\ shutdown.at \in Nat /\ shutdown'.at = shutdown.at + 1
          /\ shutdown'.phase \in {"stopping", "closing"}
          /\ UNCHANGED <<loop, ticking, wakeRequested, owed>>
          /\ shutdown.phase = "awaiting" /\ shutdown.at \in 1..Len(StopOrder)
      BY <1>9, StopsInOrderOnce DEF LoopsInv, LoopsTypeInv, LoopsTypeOK, StopsInTurn, AwaitInFlight
    <2>3. LoopOK(Stopped) /\ ~loop[Stopped].inFlight
      <3>1. LoopsTypeInv /\ Stopped \in Loops
        BY <2>2, StoppedIsALoop DEF LoopsInv
      <3> QED
        BY <1>9, <3>1 DEF LoopsInv, AwaitInFlight, Settled
    <2>4. ~loop[Stopped].active /\ ticking[Stopped] = 0
      BY <2>2, <2>3 DEF LoopsInv, StopsAreFinal, LoopOK
    <2>5. StopsAreFinal'
      <3>1. ASSUME NEW i \in 1..Len(StopOrder), i < shutdown'.at
            PROVE  ~loop[StopOrder[i]].active /\ ticking[StopOrder[i]] = 0
        <4>1. CASE i < shutdown.at
          BY <4>1 DEF LoopsInv, StopsAreFinal
        <4>2. CASE i = shutdown.at
          BY <4>2, <2>4 DEF Stopped
        <4> QED
          BY <2>2, <3>1, <4>1, <4>2
      <3> QED
        BY <2>2, <3>1 DEF StopsAreFinal
    <2> QED
      BY <1>1, <2>1, <2>2, <2>5
  <1>10. CASE UNCHANGED loopVars
    <2>1. LoopsTypeInv'
      BY <1>10 DEF LoopsInv, LoopsTypeInv, LoopsTypeOK, StopsInTurn, loopVars
    <2> QED
      BY <1>2, <1>10, <2>1 DEF loopVars
  <1> QED
    BY <1>3, <1>4, <1>5, <1>6, <1>7, <1>8, <1>9, <1>10 DEF LoopsNext, Shutdown

LEMMA LoopsInvariant == LoopsSpec => []LoopsInv
  BY LoopsInitInv, LoopsStepInv, PTL DEF LoopsSpec

\* src/lib/worker.ts, wake: a notification that arrives while a pass runs is followed by
\* another pass, however many arrive and whenever they do (WakeupIsNotLost).
THEOREM NoWakeupLost == LoopsSpec => []WakeupIsNotLost
  <1>1. LoopsInv => WakeupIsNotLost
    BY DEF LoopsInv, WakeupOwed, WakeupIsNotLost
  <1> QED
    BY <1>1, LoopsInvariant, PTL

\* src/lib/process-runtime.ts, shutdown: when the pool is ended every loop is stopped and
\* its last pass is over, for any number of loops (PoolOutlivesTicks).
THEOREM PoolEndsLast == LoopsSpec => []PoolOutlivesTicks
  <1>1. LoopsInv => PoolOutlivesTicks
    <2> SUFFICES ASSUME LoopsInv, pool = "ended", NEW l \in Loops
                 PROVE  ticking[l] = 0 /\ ~loop[l].active
      BY DEF PoolOutlivesTicks
    <2>1. shutdown.at = Len(StopOrder) + 1
      BY DEF LoopsInv, LoopsTypeInv, StopsInTurn
    <2>2. PICK i \in 1..Len(StopOrder) : StopOrder[i] = l
      BY StopsInOrderOnce
    <2>3. i < shutdown.at
      BY <2>1, StopsInOrderOnce
    <2> QED
      BY <2>2, <2>3 DEF LoopsInv, StopsAreFinal
  <1> QED
    BY <1>1, LoopsInvariant, PTL

\* A loop that has not been stopped has a pass running or a timer that will begin one, and
\* never two passes at once.
LoopsStayAwake ==
    \A l \in Loops : /\ loop[l].active => loop[l].inFlight \/ loop[l].timer
                     /\ ticking[l] = IF loop[l].inFlight THEN 1 ELSE 0

\* No interleaving of wakeups, timers and failing passes puts a loop to sleep for good, or
\* makes it overlap with itself (src/lib/worker.ts, schedule and tick).
THEOREM NoLoopSleeps == LoopsSpec => []LoopsStayAwake
  <1>1. LoopsInv => LoopsStayAwake
    BY DEF LoopsInv, LoopOK, LoopsStayAwake
  <1> QED
    BY <1>1, LoopsInvariant, PTL

-----------------------------------------------------------------------------
(***************************************************************************)
(* Schedules: for every set of schedules, any finite number of processes,  *)
(* whatever their clocks, and any number of requests and of faults.        *)
(***************************************************************************)

CronRow == [exists : BOOLEAN, active : BOOLEAN, next : Clocks]
Occurrence == ScheduleIds \X Clocks
OperatorRequest == [kind : {"pause", "resume"}, schedule : ScheduleIds, next : Clocks]

-----------------------------------------------------------------------------
(* The invariant.                                                          *)

\* A resume that has been read is one of the operations.
RequestsCounted ==
    /\ operator = NoRequest => resumes <= operations
    /\ operator # NoRequest => /\ operator \in OperatorRequest /\ operator.next >= 1
                               /\ operator.kind = "pause" => resumes <= operations
                               /\ operator.kind = "resume" => resumes + 1 <= operations

\* A row has a later time than 0, from its creation on.
RowsAreLater == \A s \in ScheduleIds : cron[s].exists => cron[s].next >= 1

CronTypeInv == SchedulesTypeOK /\ RequestsCounted /\ RowsAreLater

\* A list names a schedule once.
ListsAreDistinct ==
    \A p \in Schedulers : \A i, j \in DOMAIN scheduler[p] :
        scheduler[p][i] = scheduler[p][j] => i = j

\* What was claimed is on a list or started, or a fault lost it.
ClaimsAreKept ==
    \A o \in Occurrence :
        /\ startedAt[o] + Cardinality(Pending(o)) <= claimedAt[o]
        /\ o[1] \in Registered
             => claimedAt[o] <= startedAt[o] + Cardinality(Pending(o)) + fireFaults

ListsInv == CronTypeInv /\ ListsAreDistinct /\ ClaimsAreKept

\* A schedule that is still to be created was never claimed.
UnbornUnclaimed ==
    \A s \in ScheduleIds : cron[s].next = 0 => \A t \in Clocks : claimedAt[<<s, t>>] = 0

\* The occurrence can be claimed, now or at a later time.
CanBeClaimed(s, t) == cron[s].exists /\ cron[s].active /\ cron[s].next <= t

\* A claim and the chance of one come from the creation, from a resume or from a claim that
\* set the schedule back.
ClaimsArePaid ==
    \A s \in ScheduleIds : \A t \in Clocks :
        /\ claimedAt[<<s, t>>] <= 1 + resumes + setBacks[s]
        /\ CanBeClaimed(s, t) => claimedAt[<<s, t>>] <= resumes + setBacks[s]

FireInv == ListsInv /\ UnbornUnclaimed /\ ClaimsArePaid

-----------------------------------------------------------------------------
(* Type correctness.                                                       *)

LEMMA CronTypes ==
    ASSUME CronTypeInv
    PROVE  /\ clock \in 0..LastTime /\ LastTime \in Nat /\ MaxSkew \in Nat
           /\ cron \in [ScheduleIds -> CronRow]
           /\ scheduler \in [Schedulers -> Seq(Occurrence)]
           /\ claimedAt \in [Occurrence -> Nat] /\ startedAt \in [Occurrence -> Nat]
           /\ setBacks \in [ScheduleIds -> Nat] /\ MaxSetBacks \in Nat
           /\ operations \in Nat /\ resumes \in Nat /\ fireFaults \in Nat
           /\ operations <= MaxOperations /\ fireFaults <= MaxFireFaults
           /\ MaxOperations \in Nat /\ MaxFireFaults \in Nat
           /\ \A t \in Clocks : t \in Nat
  <1>1. /\ LastTime \in Nat /\ MaxSkew \in Nat /\ MaxOperations \in Nat /\ MaxFireFaults \in Nat
        /\ MaxSetBacks \in Nat
        /\ \A t \in Clocks : t \in Nat
    BY ScheduleAssumption DEF Clocks
  <1>2. /\ clock \in 0..LastTime
        /\ operations \in Nat /\ resumes \in Nat /\ fireFaults \in Nat
        /\ operations <= MaxOperations /\ fireFaults <= MaxFireFaults
    BY <1>1 DEF CronTypeInv, SchedulesTypeOK
  <1>3. /\ cron \in [ScheduleIds -> CronRow]
        /\ scheduler \in [Schedulers -> Seq(Occurrence)]
        /\ claimedAt \in [Occurrence -> Nat] /\ startedAt \in [Occurrence -> Nat]
    BY DEF CronTypeInv, SchedulesTypeOK, CronRow, Occurrence
  <1>4. setBacks \in [ScheduleIds -> Nat]
    BY <1>1 DEF CronTypeInv, SchedulesTypeOK
  <1> QED
    BY <1>1, <1>2, <1>3, <1>4

\* The next fire time is a later one than the clock of the process shows.
LEMMA NextFireTimes ==
    ASSUME CronTypeInv
    PROVE  /\ NextFireAt(clock) \in Clocks /\ NextFireAt(clock) = clock + 1
           /\ \A p \in Schedulers : /\ NextFireAt(ClockOf(p)) \in Clocks
                                    /\ NextFireAt(ClockOf(p)) >= 1
                                    /\ ClockOf(p) \in Nat /\ NextFireAt(ClockOf(p)) > ClockOf(p)
  <1>1. clock \in 0..LastTime /\ LastTime \in Nat /\ MaxSkew \in Nat
    BY CronTypes
  <1>2. NextFireAt(clock) \in Clocks /\ NextFireAt(clock) = clock + 1
    BY <1>1 DEF NextFireAt, Clocks
  <1>3. ASSUME NEW p \in Schedulers
        PROVE  /\ NextFireAt(ClockOf(p)) \in Clocks /\ NextFireAt(ClockOf(p)) >= 1
               /\ ClockOf(p) \in Nat /\ NextFireAt(ClockOf(p)) > ClockOf(p)
    <2>1. Skew[p] \in Int /\ Skew[p] <= MaxSkew
      BY ScheduleAssumption
    <2> QED
      BY <1>1, <2>1 DEF NextFireAt, ClockOf, Clocks
  <1> QED
    BY <1>2, <1>3

\* What a pass claims: due schedules, each once, with the fire times of their rows.
LEMMA ClaimedLists ==
    ASSUME CronTypeInv, NEW q \in Claims
    PROVE  /\ q \in Seq(ScheduleIds)
           /\ \A i \in DOMAIN q : q[i] \in DueSchedules
           /\ \A i, j \in DOMAIN q : q[i] = q[j] => i = j
           /\ [i \in DOMAIN q |-> <<q[i], cron[q[i]].next>>] \in Seq(Occurrence)
  <1>1. PICK n \in 0..FireLimit : q \in [1..n -> DueSchedules]
    BY DEF Claims
  <1>2. n \in Nat /\ DOMAIN q = 1..n /\ \A i \in 1..n : q[i] \in DueSchedules /\ q[i] \in ScheduleIds
    BY <1>1, ScheduleAssumption DEF DueSchedules
  <1>3. q \in Seq(ScheduleIds)
    BY <1>1, <1>2
  <1>4. \A i \in 1..n : <<q[i], cron[q[i]].next>> \in Occurrence
    BY <1>2, CronTypes DEF CronRow, Occurrence
  <1>5. [i \in DOMAIN q |-> <<q[i], cron[q[i]].next>>] \in Seq(Occurrence)
    BY <1>2, <1>4
  <1>6. \A i, j \in DOMAIN q : q[i] = q[j] => i = j
    BY DEF Claims
  <1> QED
    BY <1>2, <1>3, <1>5, <1>6

\* A claim before the occurrence, by the clock of the process, is counted.
LEMMA FireSetsBack ==
    ASSUME CronTypeInv, NEW p \in Schedulers, FireDueSchedules(p)
    PROVE  setBacks' \in [ScheduleIds -> 0..MaxSetBacks]
  <1>1. PICK early \in SUBSET ScheduleIds :
          /\ \A s \in early : setBacks[s] < MaxSetBacks
          /\ setBacks' = [s \in ScheduleIds |-> IF s \in early THEN setBacks[s] + 1 ELSE setBacks[s]]
    <2>1. PICK q \in Claims :
            LET early == {s \in {q[i] : i \in DOMAIN q} : ClockOf(p) < cron[s].next} IN
            /\ \A s \in early : setBacks[s] < MaxSetBacks
            /\ setBacks' = [s \in ScheduleIds |-> IF s \in early THEN setBacks[s] + 1
                                                  ELSE setBacks[s]]
      BY DEF FireDueSchedules
    <2>2. \A i \in DOMAIN q : q[i] \in ScheduleIds
      BY ClaimedLists DEF DueSchedules
    <2>3. {s \in {q[i] : i \in DOMAIN q} : ClockOf(p) < cron[s].next} \in SUBSET ScheduleIds
      BY <2>2
    <2> QED
      BY <2>1, <2>3
  <1>2. setBacks \in [ScheduleIds -> 0..MaxSetBacks] /\ MaxSetBacks \in Nat
    BY CronTypes DEF CronTypeInv, SchedulesTypeOK
  <1>3. ASSUME NEW s \in ScheduleIds PROVE setBacks'[s] \in 0..MaxSetBacks
    <2>1. setBacks[s] \in 0..MaxSetBacks
      BY <1>2
    <2>2. setBacks'[s] = IF s \in early THEN setBacks[s] + 1 ELSE setBacks[s]
      BY <1>1
    <2> QED
      BY <1>1, <1>2, <2>1, <2>2
  <1> QED
    BY <1>1, <1>3

LEMMA FireTypes ==
    ASSUME CronTypeInv, NEW p \in Schedulers, FireDueSchedules(p)
    PROVE  CronTypeInv'
  <1>1. PICK q \in Claims :
          /\ scheduler' = [scheduler EXCEPT ![p] = [i \in DOMAIN q |-> <<q[i], cron[q[i]].next>>]]
          /\ cron' = [s \in ScheduleIds |->
                        IF s \in {q[i] : i \in DOMAIN q}
                          THEN [cron[s] EXCEPT !.next = NextFireAt(ClockOf(p))]
                          ELSE cron[s]]
          /\ claimedAt' = [o \in DOMAIN claimedAt |->
                            IF o[1] \in {q[i] : i \in DOMAIN q} /\ cron[o[1]].next = o[2]
                              THEN claimedAt[o] + 1 ELSE claimedAt[o]]
    BY DEF FireDueSchedules
  <1>2. UNCHANGED <<clock, operator, startedAt, operations, resumes, fireFaults>>
        /\ setBacks' \in [ScheduleIds -> 0..MaxSetBacks]
    BY FireSetsBack DEF FireDueSchedules
  <1>3. scheduler' \in [Schedulers -> Seq(Occurrence)]
    BY <1>1, CronTypes, ClaimedLists
  <1>4. cron' \in [ScheduleIds -> CronRow]
    <2>1. NextFireAt(ClockOf(p)) \in Clocks
      BY NextFireTimes
    <2>2. cron \in [ScheduleIds -> CronRow]
      BY CronTypes
    <2> QED
      BY <1>1, <2>1, <2>2 DEF CronRow
  <1>5. claimedAt' \in [Occurrence -> Nat]
    BY <1>1, CronTypes
  <1>6. SchedulesTypeOK'
    BY <1>2, <1>3, <1>4, <1>5 DEF CronTypeInv, SchedulesTypeOK, CronRow, Occurrence
  <1>7. RequestsCounted'
    BY <1>2 DEF CronTypeInv, RequestsCounted
  <1>8. ASSUME NEW s \in ScheduleIds, cron'[s].exists PROVE cron'[s].next >= 1
    <2>1. /\ cron[s] \in CronRow
          /\ cron[s].exists => cron[s].next >= 1
          /\ NextFireAt(ClockOf(p)) >= 1
      BY CronTypes, NextFireTimes DEF CronTypeInv, RowsAreLater
    <2>2. cron'[s] \in {cron[s], [cron[s] EXCEPT !.next = NextFireAt(ClockOf(p))]}
      BY <1>1
    <2>3. CASE cron'[s] = cron[s]
      BY <1>8, <2>1, <2>3
    <2>4. CASE cron'[s] = [cron[s] EXCEPT !.next = NextFireAt(ClockOf(p))]
      BY <2>1, <2>4 DEF CronRow
    <2> QED
      BY <2>2, <2>3, <2>4
  <1> QED
    BY <1>6, <1>7, <1>8 DEF CronTypeInv, RowsAreLater

\* The oldest entry of a list leaves it, or all of them do.
LEMMA DispatchTypes ==
    ASSUME CronTypeInv, NEW p \in Schedulers, StartFired(p) \/ SchedulerCrashes(p)
    PROVE  CronTypeInv'
  <1>1. UNCHANGED <<clock, cron, operator, claimedAt, setBacks, operations, resumes>>
    BY DEF StartFired, SchedulerCrashes
  <1>2. scheduler[p] \in Seq(Occurrence) /\ scheduler[p] # <<>>
    BY CronTypes DEF StartFired, SchedulerCrashes
  <1>3. Tail(scheduler[p]) \in Seq(Occurrence) /\ <<>> \in Seq(Occurrence)
        /\ Head(scheduler[p]) \in Occurrence
    BY <1>2
  <1>4. scheduler' \in [Schedulers -> Seq(Occurrence)]
    BY <1>3, CronTypes DEF StartFired, SchedulerCrashes
  <1>5. startedAt' \in [Occurrence -> Nat]
    <2>1. startedAt \in [Occurrence -> Nat]
      BY CronTypes
    <2>2. [startedAt EXCEPT ![Head(scheduler[p])] = @ + 1] \in [Occurrence -> Nat]
      BY <2>1, <1>3
    <2>3. \/ startedAt' = startedAt
          \/ startedAt' = [startedAt EXCEPT ![Head(scheduler[p])] = @ + 1]
      BY DEF StartFired, SchedulerCrashes
    <2> QED
      BY <2>1, <2>2, <2>3
  <1>6. fireFaults' \in 0..MaxFireFaults
    BY CronTypes, SMTT(30) DEF StartFired, SchedulerCrashes
  <1>7. SchedulesTypeOK'
    BY <1>1, <1>4, <1>5, <1>6 DEF CronTypeInv, SchedulesTypeOK, Occurrence
  <1>8. RequestsCounted' /\ RowsAreLater'
    BY <1>1 DEF CronTypeInv, RequestsCounted, RowsAreLater
  <1> QED
    BY <1>7, <1>8 DEF CronTypeInv

\* The clock, and the requests that are not paused half way.
LEMMA RowTypes ==
    ASSUME CronTypeInv,
           ClockTicks \/ \E s \in ScheduleIds : CreateSchedule(s) \/ DeleteSchedule(s)
    PROVE  CronTypeInv'
  <1>1. CASE ClockTicks
    <2>1. clock' \in 0..LastTime
      BY <1>1, CronTypes DEF ClockTicks
    <2> QED
      BY <1>1, <2>1 DEF ClockTicks, CronTypeInv, SchedulesTypeOK, RequestsCounted, RowsAreLater
  <1>2. ASSUME NEW s \in ScheduleIds, CreateSchedule(s) PROVE CronTypeInv'
    <2>1. cron' \in [ScheduleIds -> CronRow]
      BY <1>2, CronTypes, NextFireTimes DEF CreateSchedule, CronRow
    <2>2. RowsAreLater'
      <3>1. NextFireAt(clock) >= 1
        BY CronTypes, NextFireTimes
      <3> QED
        BY <1>2, <3>1, CronTypes DEF CreateSchedule, CronTypeInv, RowsAreLater
    <2> QED
      BY <1>2, <2>1, <2>2 DEF CreateSchedule, CronTypeInv, SchedulesTypeOK, RequestsCounted, CronRow
  <1>3. ASSUME NEW s \in ScheduleIds, DeleteSchedule(s) PROVE CronTypeInv'
    <2>1. cron' \in [ScheduleIds -> CronRow]
      <3>1. cron \in [ScheduleIds -> CronRow] /\ cron' = [cron EXCEPT ![s].exists = FALSE]
        BY <1>3, CronTypes DEF DeleteSchedule
      <3> QED
        BY <3>1 DEF CronRow
    <2>2. operations' \in 0..MaxOperations /\ operations' = operations + 1
      BY <1>3, CronTypes DEF DeleteSchedule, Operate
    <2>3. SchedulesTypeOK'
      BY <1>3, <2>1, <2>2 DEF DeleteSchedule, CronTypeInv, SchedulesTypeOK, CronRow
    <2>4. RequestsCounted'
      BY <1>3, <2>2, CronTypes DEF DeleteSchedule, CronTypeInv, RequestsCounted
    <2>5. RowsAreLater'
      BY <1>3, CronTypes DEF DeleteSchedule, CronTypeInv, RowsAreLater, CronRow
    <2> QED
      BY <2>3, <2>4, <2>5 DEF CronTypeInv
  <1> QED
    BY <1>1, <1>2, <1>3

\* The two halves of a pause or a resume.
LEMMA RequestTypes ==
    ASSUME CronTypeInv, WriteSchedule \/ \E s \in ScheduleIds : ReadSchedule(s)
    PROVE  CronTypeInv'
  <1>1. CASE WriteSchedule
    <2>1. operator \in OperatorRequest /\ operator.next >= 1
      BY <1>1 DEF WriteSchedule, CronTypeInv, RequestsCounted
    <2>2. operator' = NoRequest /\ UNCHANGED <<clock, scheduler, claimedAt, startedAt, setBacks, operations, fireFaults>>
      BY <1>1 DEF WriteSchedule
    <2>3. cron' \in [ScheduleIds -> CronRow]
      <3>1. PICK s \in ScheduleIds : s = operator.schedule
        BY <2>1 DEF OperatorRequest
      <3>2. PICK b \in BOOLEAN : b = (operator.kind = "resume")
        OBVIOUS
      <3>3. PICK t \in Clocks : t = operator.next
        BY <2>1 DEF OperatorRequest
      <3>4. cron' \in {cron, [cron EXCEPT ![s].active = b, ![s].next = t]}
        BY <1>1, <3>1, <3>2, <3>3 DEF WriteSchedule
      <3> QED
        BY <3>4, CronTypes DEF CronRow
    <2>4. resumes' \in 0..MaxOperations /\ resumes' <= operations
      <3>1. /\ operator.kind = "pause" => resumes <= operations
            /\ operator.kind = "resume" => resumes + 1 <= operations
        BY <1>1 DEF WriteSchedule, CronTypeInv, RequestsCounted
      <3>2. operator.kind \in {"pause", "resume"}
        BY <2>1 DEF OperatorRequest
      <3>3. resumes' = IF operator.kind = "resume" THEN resumes + 1 ELSE resumes
        BY <1>1 DEF WriteSchedule
      <3> QED
        BY <3>1, <3>2, <3>3, CronTypes
    <2>5. SchedulesTypeOK'
      <3>1. 0 \in Clocks
        BY CronTypes DEF Clocks
      <3>2. operator' \in [kind : {"none", "pause", "resume"},
                           schedule : ScheduleIds \cup {NoSchedule}, next : Clocks]
        BY <2>2, <3>1 DEF NoRequest
      <3> QED
        BY <2>2, <2>3, <2>4, <3>2 DEF CronTypeInv, SchedulesTypeOK, CronRow
    <2>6. RequestsCounted'
      BY <2>2, <2>4 DEF RequestsCounted, NoRequest
    <2>7. RowsAreLater'
      BY <1>1, <2>1, CronTypes DEF WriteSchedule, CronTypeInv, RowsAreLater, CronRow
    <2> QED
      BY <2>5, <2>6, <2>7 DEF CronTypeInv
  <1>2. ASSUME NEW s \in ScheduleIds, ReadSchedule(s) PROVE CronTypeInv'
    <2>1. /\ operator = NoRequest /\ cron[s].exists
          /\ UNCHANGED <<clock, cron, scheduler, claimedAt, startedAt, setBacks, resumes, fireFaults>>
      BY <1>2 DEF ReadSchedule
    <2>2. operations' \in 0..MaxOperations /\ operations' = operations + 1 /\ resumes <= operations
      BY <1>2, <2>1, CronTypes DEF ReadSchedule, Operate, CronTypeInv, RequestsCounted
    <2>3. PICK k \in {"pause", "resume"}, t \in {cron[s].next, NextFireAt(clock)} :
             operator' = [kind |-> k, schedule |-> s, next |-> t]
      BY <1>2 DEF ReadSchedule
    <2>4. t \in Clocks /\ t >= 1
      <3>1. cron[s].next \in Clocks /\ cron[s].next >= 1
        BY <2>1, CronTypes DEF CronRow, CronTypeInv, RowsAreLater
      <3>2. NextFireAt(clock) \in Clocks /\ NextFireAt(clock) >= 1
        BY CronTypes, NextFireTimes
      <3> QED
        BY <2>3, <3>1, <3>2
    <2>5. operator' \in OperatorRequest /\ operator'.next >= 1
      BY <2>3, <2>4 DEF OperatorRequest
    <2>6. SchedulesTypeOK'
      BY <2>1, <2>2, <2>5 DEF CronTypeInv, SchedulesTypeOK, OperatorRequest
    <2>7. RequestsCounted'
      BY <2>1, <2>2, <2>5, CronTypes DEF RequestsCounted
    <2>8. RowsAreLater'
      BY <2>1 DEF CronTypeInv, RowsAreLater
    <2> QED
      BY <2>6, <2>7, <2>8 DEF CronTypeInv
  <1> QED
    BY <1>1, <1>2

LEMMA CronInitTypes == SchedulesInit => CronTypeInv
  <1> SUFFICES ASSUME SchedulesInit PROVE CronTypeInv
    OBVIOUS
  <1>1. 0 \in Clocks /\ LastTime \in Nat /\ MaxOperations \in Nat /\ MaxFireFaults \in Nat
        /\ MaxSetBacks \in Nat
    BY ScheduleAssumption DEF Clocks
  <1>2. SchedulesTypeOK
    BY <1>1 DEF SchedulesInit, SchedulesTypeOK, NoRequest
  <1>3. RequestsCounted /\ RowsAreLater
    BY DEF SchedulesInit, RequestsCounted, RowsAreLater
  <1> QED
    BY <1>2, <1>3 DEF CronTypeInv

LEMMA CronStepTypes == CronTypeInv /\ [SchedulesNext]_cronVars => CronTypeInv'
  <1>1. CronTypeInv /\ UNCHANGED cronVars => CronTypeInv'
    BY DEF CronTypeInv, SchedulesTypeOK, RequestsCounted, RowsAreLater, cronVars
  <1> QED
    BY <1>1, FireTypes, DispatchTypes, RowTypes, RequestTypes DEF SchedulesNext

\* src/lib/scheduler.ts and the operators' routes: rows, lists and counts keep their types
\* (SchedulesTypeOK), and the fire times stay within
\* what the fastest clock can write.
THEOREM ScheduleTypes == SchedulesSpec => []SchedulesTypeOK
  <1>1. CronTypeInv => SchedulesTypeOK
    BY DEF CronTypeInv
  <1> QED
    BY <1>1, CronInitTypes, CronStepTypes, PTL DEF SchedulesSpec

-----------------------------------------------------------------------------
(* What is claimed is started, or lost to a fault.                         *)

Has(q, o) == IF \E i \in DOMAIN q : q[i] = o THEN 1 ELSE 0

LEMMA PendingCounts ==
    ASSUME NEW o PROVE IsFiniteSet(Pending(o)) /\ Cardinality(Pending(o)) \in Nat
  <1>1. Pending(o) \subseteq Schedulers /\ IsFiniteSet(Schedulers)
    BY ScheduleAssumption DEF Pending
  <1> QED
    BY <1>1, FS_Subset, FS_CardinalityType

\* A process that has an occurrence on its list, or no longer has.
LEMMA PendingChanges ==
    ASSUME CronTypeInv, NEW p \in Schedulers, NEW q \in Seq(Occurrence), NEW o,
           scheduler' = [scheduler EXCEPT ![p] = q]
    PROVE  /\ Cardinality(Pending(o))' = Cardinality(Pending(o)) - Has(scheduler[p], o) + Has(q, o)
           /\ Cardinality(Pending(o))' \in Nat
  <1> DEFINE Others == Pending(o) \ {p}
             Afterwards == {r \in Schedulers : \E i \in DOMAIN scheduler'[r] : scheduler'[r][i] = o}
  <1>1. IsFiniteSet(Others) /\ Cardinality(Others) \in Nat /\ p \notin Others
    BY PendingCounts, FS_Subset, FS_CardinalityType
  <1>2. Cardinality(Pending(o)) = Cardinality(Others) + Has(scheduler[p], o)
    <2>1. CASE \E i \in DOMAIN scheduler[p] : scheduler[p][i] = o
      <3>1. Pending(o) = Others \cup {p}
        BY <2>1 DEF Pending
      <3>2. Cardinality(Others \cup {p}) = Cardinality(Others) + 1
        BY <1>1, FS_AddElement
      <3> QED
        BY <2>1, <3>1, <3>2 DEF Has
    <2>2. CASE ~(\E i \in DOMAIN scheduler[p] : scheduler[p][i] = o)
      <3>1. Pending(o) = Others
        BY <2>2 DEF Pending
      <3> HIDE DEF Others
      <3> QED
        BY <1>1, <2>2, <3>1 DEF Has
    <2> QED
      BY <2>1, <2>2
  <1>3. Pending(o)' = Afterwards
    BY DEF Pending
  <1>4. scheduler' \in [Schedulers -> Seq(Occurrence)] /\ scheduler'[p] = q
        /\ \A r \in Schedulers \ {p} : scheduler'[r] = scheduler[r]
    BY CronTypes
  <1>5. Cardinality(Afterwards) = Cardinality(Others) + Has(q, o)
    <2>1. CASE \E i \in DOMAIN q : q[i] = o
      <3>1. Afterwards = Others \cup {p}
        BY <1>4, <2>1 DEF Pending
      <3>2. Cardinality(Others \cup {p}) = Cardinality(Others) + 1
        BY <1>1, FS_AddElement
      <3> QED
        BY <2>1, <3>1, <3>2 DEF Has
    <2>2. CASE ~(\E i \in DOMAIN q : q[i] = o)
      <3>1. Afterwards = Others
        BY <1>4, <2>2 DEF Pending
      <3> HIDE DEF Afterwards, Others
      <3> QED
        BY <1>1, <2>2, <3>1 DEF Has
    <2> QED
      BY <2>1, <2>2
  <1>6. Has(q, o) \in {0, 1} /\ Has(scheduler[p], o) \in {0, 1}
    BY DEF Has
  <1> HIDE DEF Afterwards, Others
  <1>7. Cardinality(Pending(o))' = Cardinality(Afterwards)
    BY <1>3
  <1> QED
    BY <1>1, <1>2, <1>5, <1>6, <1>7

LEMMA FireKeepsLists ==
    ASSUME ListsInv, NEW p \in Schedulers, FireDueSchedules(p)
    PROVE  ListsInv'
  <1>1. CronTypeInv /\ CronTypeInv'
    BY FireTypes DEF ListsInv
  <1>2. PICK q \in Claims :
          /\ scheduler' = [scheduler EXCEPT ![p] = [i \in DOMAIN q |-> <<q[i], cron[q[i]].next>>]]
          /\ claimedAt' = [o \in DOMAIN claimedAt |->
                            IF o[1] \in {q[i] : i \in DOMAIN q} /\ cron[o[1]].next = o[2]
                              THEN claimedAt[o] + 1 ELSE claimedAt[o]]
    BY DEF FireDueSchedules
  <1>3. PICK taken \in Seq(Occurrence) : taken = [i \in DOMAIN q |-> <<q[i], cron[q[i]].next>>]
    BY <1>1, ClaimedLists
  <1>4. scheduler' = [scheduler EXCEPT ![p] = taken] /\ scheduler[p] = <<>>
        /\ UNCHANGED <<startedAt, fireFaults>>
    BY <1>2, <1>3 DEF FireDueSchedules
  <1>5. ListsAreDistinct'
    <2>1. \A i, j \in DOMAIN taken : taken[i] = taken[j] => i = j
      BY <1>1, <1>3, ClaimedLists
    <2>2. \A r \in Schedulers \ {p} : scheduler'[r] = scheduler[r]
      BY <1>1, <1>4, CronTypes
    <2>3. scheduler'[p] = taken
      BY <1>1, <1>4, CronTypes
    <2> QED
      BY <2>1, <2>2, <2>3 DEF ListsInv, ListsAreDistinct
  <1>6. ASSUME NEW o \in Occurrence
        PROVE  /\ startedAt'[o] + Cardinality(Pending(o))' <= claimedAt'[o]
               /\ o[1] \in Registered
                    => claimedAt'[o] <= startedAt'[o] + Cardinality(Pending(o))' + fireFaults'
    <2>1. /\ Cardinality(Pending(o))' = Cardinality(Pending(o)) - Has(<<>>, o) + Has(taken, o)
          /\ Cardinality(Pending(o)) \in Nat
      BY <1>1, <1>4, PendingChanges, PendingCounts
    <2>2. Has(<<>>, o) = 0 /\ Has(taken, o) \in {0, 1}
      BY DEF Has
    <2>3. claimedAt'[o] = claimedAt[o] + Has(taken, o)
      <3>1. (\E i \in DOMAIN taken : taken[i] = o)
              <=> (o[1] \in {q[i] : i \in DOMAIN q} /\ cron[o[1]].next = o[2])
        BY <1>3 DEF Occurrence
      <3>2. claimedAt[o] \in Nat /\ o \in DOMAIN claimedAt
        BY <1>1, CronTypes
      <3> QED
        BY <1>2, <3>1, <3>2 DEF Has
    <2>4. /\ startedAt[o] + Cardinality(Pending(o)) <= claimedAt[o]
          /\ o[1] \in Registered
               => claimedAt[o] <= startedAt[o] + Cardinality(Pending(o)) + fireFaults
          /\ startedAt[o] \in Nat /\ claimedAt[o] \in Nat /\ fireFaults \in Nat
      BY <1>1, CronTypes DEF ListsInv, ClaimsAreKept
    <2> QED
      BY <1>4, <2>1, <2>2, <2>3, <2>4, SMTT(30)
  <1> QED
    BY <1>1, <1>5, <1>6 DEF ListsInv, ClaimsAreKept

LEMMA DispatchKeepsLists ==
    ASSUME ListsInv, NEW p \in Schedulers, StartFired(p) \/ SchedulerCrashes(p)
    PROVE  ListsInv'
  <1>1. CronTypeInv /\ CronTypeInv'
    BY DispatchTypes DEF ListsInv
  <1>2. PICK q \in Seq(Occurrence) : q = scheduler[p]
    BY <1>1, CronTypes
  <1>3. q # <<>> /\ Tail(q) \in Seq(Occurrence) /\ <<>> \in Seq(Occurrence) /\ UNCHANGED claimedAt
    BY <1>2 DEF StartFired, SchedulerCrashes
  <1>4. \A i, j \in DOMAIN q : q[i] = q[j] => i = j
    BY <1>2 DEF ListsInv, ListsAreDistinct
  <1>5. ASSUME NEW t \in {Tail(q), <<>>}, scheduler' = [scheduler EXCEPT ![p] = t]
        PROVE  ListsAreDistinct'
    <2>1. \A i, j \in DOMAIN t : t[i] = t[j] => i = j
      BY <1>3, <1>4
    <2>2. scheduler'[p] = t /\ \A r \in Schedulers \ {p} : scheduler'[r] = scheduler[r]
      BY <1>1, <1>5, CronTypes
    <2> QED
      BY <2>1, <2>2 DEF ListsInv, ListsAreDistinct
  <1> DEFINE Kept(o) ==
          /\ startedAt'[o] + Cardinality(Pending(o))' <= claimedAt'[o]
          /\ o[1] \in Registered
               => claimedAt'[o] <= startedAt'[o] + Cardinality(Pending(o))' + fireFaults'
  <1>6. ASSUME NEW o \in Occurrence
        PROVE  /\ startedAt[o] + Cardinality(Pending(o)) <= claimedAt[o]
               /\ o[1] \in Registered
                    => claimedAt[o] <= startedAt[o] + Cardinality(Pending(o)) + fireFaults
               /\ startedAt[o] \in Nat /\ claimedAt[o] \in Nat /\ fireFaults \in Nat
               /\ Cardinality(Pending(o)) \in Nat /\ o \in DOMAIN startedAt
    BY <1>1, CronTypes, PendingCounts DEF ListsInv, ClaimsAreKept
  <1>7. ASSUME NEW o \in Occurrence, scheduler' = [scheduler EXCEPT ![p] = Tail(q)]
        PROVE  /\ o # Head(q) => Cardinality(Pending(o))' = Cardinality(Pending(o))
               /\ o = Head(q) => Cardinality(Pending(o))' = Cardinality(Pending(o)) - 1
    <2>1. Cardinality(Pending(o))' = Cardinality(Pending(o)) - Has(q, o) + Has(Tail(q), o)
      BY <1>1, <1>2, <1>3, <1>7, PendingChanges
    <2>2. o # Head(q) => Has(Tail(q), o) = Has(q, o)
      <3>1. /\ DOMAIN q = 1..Len(q) /\ DOMAIN Tail(q) = 1..(Len(q) - 1) /\ Len(q) \in Nat \ {0}
            /\ q[1] = Head(q) /\ \A i \in 1..(Len(q) - 1) : Tail(q)[i] = q[i + 1]
        BY <1>3
      <3>2. ASSUME o # Head(q), NEW i \in DOMAIN q, q[i] = o
            PROVE  \E j \in DOMAIN Tail(q) : Tail(q)[j] = o
        <4>1. i # 1 /\ i - 1 \in 1..(Len(q) - 1) /\ (i - 1) + 1 = i
          BY <3>1, <3>2
        <4>2. Tail(q)[i - 1] = q[i]
          BY <3>1, <4>1
        <4> QED
          BY <3>1, <3>2, <4>1, <4>2
      <3>3. ASSUME NEW j \in DOMAIN Tail(q), Tail(q)[j] = o
            PROVE  \E i \in DOMAIN q : q[i] = o
        <4>1. j + 1 \in DOMAIN q /\ q[j + 1] = o
          BY <3>1, <3>3
        <4> QED
          BY <4>1
      <3> QED
        BY <3>2, <3>3 DEF Has
    <2>3. o = Head(q) => Has(Tail(q), o) = 0 /\ Has(q, o) = 1
      BY <1>3, <1>4 DEF Has
    <2>4. Has(q, o) \in {0, 1} /\ Cardinality(Pending(o)) \in Nat
      BY <1>6 DEF Has
    <2> QED
      BY <2>1, <2>2, <2>3, <2>4
  <1>8. ASSUME NEW o \in Occurrence, scheduler' = [scheduler EXCEPT ![p] = <<>>]
        PROVE  /\ Cardinality(Pending(o))' <= Cardinality(Pending(o))
               /\ Cardinality(Pending(o))' >= Cardinality(Pending(o)) - 1
               /\ Cardinality(Pending(o))' \in Nat
    <2>1. /\ Cardinality(Pending(o))' = Cardinality(Pending(o)) - Has(q, o) + Has(<<>>, o)
          /\ Cardinality(Pending(o))' \in Nat
      BY <1>1, <1>2, <1>3, <1>8, PendingChanges
    <2>2. Has(<<>>, o) = 0 /\ Has(q, o) \in {0, 1} /\ Cardinality(Pending(o)) \in Nat
      BY <1>6 DEF Has
    <2> QED
      BY <2>1, <2>2
  <1>9. CASE /\ Head(q)[1] \in Registered /\ startedAt' = [startedAt EXCEPT ![Head(q)] = @ + 1]
             /\ scheduler' = [scheduler EXCEPT ![p] = Tail(q)] /\ UNCHANGED fireFaults
    <2>1. ASSUME NEW o \in Occurrence PROVE Kept(o)
      BY <1>1, <1>3, <1>6, <1>7, <1>9, SMTT(30)
    <2> QED
      BY <1>1, <1>5, <1>9, <2>1 DEF ListsInv, ClaimsAreKept
  <1>10. CASE /\ Head(q)[1] \notin Registered /\ UNCHANGED <<startedAt, fireFaults>>
              /\ scheduler' = [scheduler EXCEPT ![p] = Tail(q)]
    <2>1. startedAt' = startedAt /\ fireFaults' = fireFaults /\ claimedAt' = claimedAt
      BY <1>3, <1>10
    <2>2. ASSUME NEW o \in Occurrence PROVE Kept(o)
      <3>1. CASE o = Head(q)
        <4>1. Cardinality(Pending(o))' = Cardinality(Pending(o)) - 1
          BY <1>7, <1>10, <3>1
        <4>2. o[1] \notin Registered
          BY <1>10, <3>1
        <4> QED
          BY <1>6, <2>1, <4>1, <4>2
      <3>2. CASE o # Head(q)
        <4>1. Cardinality(Pending(o))' = Cardinality(Pending(o))
          BY <1>7, <1>10, <3>2
        <4> QED
          BY <1>6, <2>1, <4>1
      <3> QED
        BY <3>1, <3>2
    <2> QED
      BY <1>1, <1>5, <1>10, <2>2 DEF ListsInv, ClaimsAreKept
  <1>11. CASE /\ scheduler' = [scheduler EXCEPT ![p] = <<>>] /\ UNCHANGED startedAt
              /\ fireFaults' = fireFaults + 1
    <2>1. startedAt' = startedAt /\ fireFaults' = fireFaults + 1 /\ claimedAt' = claimedAt
      BY <1>3, <1>11
    <2>2. ASSUME NEW o \in Occurrence PROVE Kept(o)
      BY <1>6, <1>8, <1>11, <2>1
    <2> QED
      BY <1>1, <1>5, <1>11, <2>2 DEF ListsInv, ClaimsAreKept
  <1> QED
    BY <1>1, <1>2, <1>9, <1>10, <1>11, CronTypes DEF StartFired, SchedulerCrashes

LEMMA OthersKeepLists ==
    ASSUME ListsInv, CronTypeInv', UNCHANGED <<scheduler, claimedAt, startedAt, fireFaults>>
    PROVE  ListsInv'
  <1>1. \A o : Pending(o)' = Pending(o)
    BY DEF Pending
  <1> QED
    BY <1>1 DEF ListsInv, ListsAreDistinct, ClaimsAreKept

LEMMA ListsInit == SchedulesInit => ListsInv
  <1> SUFFICES ASSUME SchedulesInit PROVE ListsInv
    OBVIOUS
  <1>1. CronTypeInv
    BY CronInitTypes
  <1>2. ListsAreDistinct
    BY DEF SchedulesInit, ListsAreDistinct
  <1>3. \A o : Pending(o) = {}
    BY DEF SchedulesInit, Pending
  <1>4. ClaimsAreKept
    <2>1. \A o : Cardinality(Pending(o)) = 0
      BY <1>3, FS_EmptySet
    <2>2. \A o \in Occurrence : claimedAt[o] = 0 /\ startedAt[o] = 0
      BY DEF SchedulesInit, Occurrence
    <2> QED
      BY <2>1, <2>2 DEF SchedulesInit, ClaimsAreKept
  <1> QED
    BY <1>1, <1>2, <1>4 DEF ListsInv

LEMMA ListsStep == ListsInv /\ [SchedulesNext]_cronVars => ListsInv'
  <1> SUFFICES ASSUME ListsInv, [SchedulesNext]_cronVars PROVE ListsInv'
    OBVIOUS
  <1>1. CronTypeInv'
    BY CronStepTypes DEF ListsInv
  <1>2. CASE UNCHANGED cronVars
    BY <1>1, <1>2, OthersKeepLists DEF cronVars
  <1>3. CASE ClockTicks \/ WriteSchedule
    BY <1>1, <1>3, OthersKeepLists DEF ClockTicks, WriteSchedule
  <1>4. ASSUME NEW s \in ScheduleIds, CreateSchedule(s) \/ DeleteSchedule(s) \/ ReadSchedule(s)
        PROVE  ListsInv'
    BY <1>1, <1>4, OthersKeepLists DEF CreateSchedule, DeleteSchedule, ReadSchedule
  <1> QED
    BY <1>2, <1>3, <1>4, FireKeepsLists, DispatchKeepsLists DEF SchedulesNext

\* What a registered schedule has claimed is started or still on a list, but for what the
\* crashes and the failed starts have lost.
ClaimsAreStarted == \A o \in DOMAIN startedAt : Missed(o) <= fireFaults

LEMMA KeptIsNotMissed == ListsInv => ClaimsAreStarted
  <1> SUFFICES ASSUME ListsInv, NEW o \in Occurrence PROVE Missed(o) <= fireFaults
    BY CronTypes DEF ListsInv, ClaimsAreStarted
  <1>1. /\ startedAt[o] \in Nat /\ claimedAt[o] \in Nat /\ fireFaults \in Nat
        /\ Cardinality(Pending(o)) \in Nat
    BY CronTypes, PendingCounts DEF ListsInv
  <1>2. o[1] \in Registered
          => claimedAt[o] <= startedAt[o] + Cardinality(Pending(o)) + fireFaults
    BY DEF ListsInv, ClaimsAreKept
  <1> QED
    BY <1>1, <1>2 DEF Missed

\* src/lib/store/schedules.ts, fireDueSchedules, and the loop around it: a claim is started, or
\* will be, or a fault has paid for it, whatever the clocks of the processes show.
THEOREM ClaimedOccurrencesStart == SchedulesSpec => []ClaimsAreStarted
  <1> QED
    BY KeptIsNotMissed, ListsInit, ListsStep, PTL DEF SchedulesSpec

-----------------------------------------------------------------------------
(* One claim, and with it one run, per occurrence.                         *)

LEMMA FireKeepsPaid ==
    ASSUME FireInv, NEW p \in Schedulers, FireDueSchedules(p)
    PROVE  UnbornUnclaimed' /\ ClaimsArePaid'
  <1>1. CronTypeInv /\ UnbornUnclaimed /\ ClaimsArePaid
    BY DEF FireInv, ListsInv
  <1> DEFINE next == NextFireAt(ClockOf(p))
             Early(s) == ClockOf(p) < cron[s].next
  <1>2. PICK taken \in SUBSET DueSchedules :
          /\ cron' = [s \in ScheduleIds |->
                        IF s \in taken THEN [cron[s] EXCEPT !.next = next] ELSE cron[s]]
          /\ claimedAt' = [o \in DOMAIN claimedAt |->
                            IF o[1] \in taken /\ cron[o[1]].next = o[2]
                              THEN claimedAt[o] + 1 ELSE claimedAt[o]]
          /\ setBacks' = [s \in ScheduleIds |->
                            IF s \in taken /\ Early(s) THEN setBacks[s] + 1 ELSE setBacks[s]]
    <2>1. PICK q \in Claims :
            /\ cron' = [s \in ScheduleIds |->
                          IF s \in {q[i] : i \in DOMAIN q} THEN [cron[s] EXCEPT !.next = next]
                          ELSE cron[s]]
            /\ claimedAt' = [o \in DOMAIN claimedAt |->
                              IF o[1] \in {q[i] : i \in DOMAIN q} /\ cron[o[1]].next = o[2]
                                THEN claimedAt[o] + 1 ELSE claimedAt[o]]
            /\ setBacks' = [s \in ScheduleIds |->
                              IF s \in {q[i] : i \in DOMAIN q} /\ Early(s)
                                THEN setBacks[s] + 1 ELSE setBacks[s]]
      BY DEF FireDueSchedules
    <2>2. {q[i] : i \in DOMAIN q} \subseteq DueSchedules
      <3>1. \A i \in DOMAIN q : q[i] \in DueSchedules
        BY <1>1, ClaimedLists
      <3> QED
        BY <3>1
    <2> QED
      BY <2>1, <2>2
  <1>3. UNCHANGED resumes /\ clock \in Nat /\ resumes \in Nat /\ LastTime \in Nat
    BY <1>1, CronTypes DEF FireDueSchedules
  <1>4. next \in Clocks /\ next \in Nat /\ next > 0
        /\ \A s \in ScheduleIds : ~Early(s) /\ cron[s].next \in Nat => cron[s].next < next
    <2>1. next \in Clocks /\ next \in Nat /\ ClockOf(p) \in Nat /\ next > ClockOf(p)
      BY <1>1, CronTypes, NextFireTimes
    <2> HIDE DEF next
    <2> QED
      BY <2>1
  <1> HIDE DEF next, Early
  <1>5. ASSUME NEW s \in ScheduleIds
        PROVE  /\ cron'[s].next = 0 => \A t \in Clocks : claimedAt'[<<s, t>>] = 0
               /\ \A t \in Clocks :
                     /\ claimedAt'[<<s, t>>] <= 1 + resumes + setBacks'[s]
                     /\ cron'[s].exists /\ cron'[s].active /\ cron'[s].next <= t
                          => claimedAt'[<<s, t>>] <= resumes + setBacks'[s]
    <2>1. /\ cron[s] \in CronRow /\ setBacks[s] \in Nat
          /\ cron[s].next \in Nat /\ \A t \in Clocks : t \in Nat
          /\ \A t \in Clocks : claimedAt[<<s, t>>] \in Nat /\ <<s, t>> \in DOMAIN claimedAt
      BY <1>1, CronTypes DEF CronRow, Occurrence
    <2>2. /\ cron[s].next = 0 => \A t \in Clocks : claimedAt[<<s, t>>] = 0
          /\ \A t \in Clocks :
                /\ claimedAt[<<s, t>>] <= 1 + resumes + setBacks[s]
                /\ cron[s].exists /\ cron[s].active /\ cron[s].next <= t
                     => claimedAt[<<s, t>>] <= resumes + setBacks[s]
      BY <1>1 DEF UnbornUnclaimed, ClaimsArePaid, CanBeClaimed
    <2>3. CASE s \in taken
      <3>1. cron[s].exists /\ cron[s].active
        BY <2>3 DEF DueSchedules
      <3>2. cron'[s].next = next /\ setBacks'[s] = IF Early(s) THEN setBacks[s] + 1 ELSE setBacks[s]
        BY <1>2, <2>1, <2>3 DEF CronRow
      <3>3. ASSUME NEW t \in Clocks
            PROVE  claimedAt'[<<s, t>>] = IF cron[s].next = t THEN claimedAt[<<s, t>>] + 1
                                          ELSE claimedAt[<<s, t>>]
        BY <1>2, <2>1, <2>3
      <3>4. ASSUME NEW t \in Clocks
            PROVE  /\ claimedAt'[<<s, t>>] <= 1 + resumes + setBacks'[s]
                   /\ next <= t => claimedAt'[<<s, t>>] <= resumes + setBacks'[s]
        <4>1. PICK c \in Nat : c = claimedAt[<<s, t>>]
          BY <2>1
        <4>2. PICK b \in Nat : b = setBacks[s]
          BY <2>1
        <4>3. c <= 1 + resumes + b /\ (cron[s].next <= t => c <= resumes + b)
          BY <2>2, <3>1, <4>1, <4>2
        \* The occurrence that was claimed could be.
        <4>4. CASE cron[s].next = t
          <5>1. claimedAt'[<<s, t>>] = c + 1 /\ c <= resumes + b
            BY <2>1, <3>3, <4>1, <4>3, <4>4
          <5>2. CASE Early(s)
            BY <1>3, <3>2, <4>2, <5>1, <5>2
          <5>3. CASE ~Early(s)
            <6>1. ~(next <= t)
              BY <1>4, <2>1, <4>4, <5>3
            <6> QED
              BY <1>3, <3>2, <4>2, <5>1, <5>3, <6>1
          <5> QED
            BY <5>2, <5>3
        \* Another one can be claimed that could be before, or the schedule was set back.
        <4>5. CASE cron[s].next # t
          <5>1. claimedAt'[<<s, t>>] = c
            BY <3>3, <4>1, <4>5
          <5>2. CASE Early(s)
            BY <1>3, <3>2, <4>2, <4>3, <5>1, <5>2
          <5>3. CASE ~Early(s)
            <6>1. next <= t => cron[s].next <= t
              BY <1>4, <2>1, <5>3
            <6> QED
              BY <1>3, <3>2, <4>2, <4>3, <5>1, <5>3, <6>1
          <5> QED
            BY <5>2, <5>3
        <4> QED
          BY <4>4, <4>5
      <3> QED
        BY <1>3, <1>4, <3>2, <3>4
    <2>4. CASE s \notin taken
      <3>1. cron'[s] = cron[s] /\ setBacks'[s] = setBacks[s]
        BY <1>2, <2>4
      <3>2. \A t \in Clocks : claimedAt'[<<s, t>>] = claimedAt[<<s, t>>]
        BY <1>2, <2>1, <2>4
      <3> QED
        BY <2>2, <3>1, <3>2
    <2> QED
      BY <2>3, <2>4
  <1> QED
    BY <1>3, <1>5 DEF UnbornUnclaimed, ClaimsArePaid, CanBeClaimed

\* A step that claims nothing: it makes a schedule claimable if that is new or resumed.
LEMMA OthersKeepPaid ==
    ASSUME FireInv, UNCHANGED <<claimedAt, setBacks>>, resumes' \in Nat, resumes' >= resumes,
           NEW s \in ScheduleIds, \A u \in ScheduleIds \ {s} : cron'[u] = cron[u],
           \/ cron'[s] = cron[s]
           \/ cron'[s].next # 0 /\ (~cron'[s].exists \/ ~cron'[s].active)
           \/ cron'[s].next # 0 /\ cron[s].next = 0
           \/ cron'[s].next # 0 /\ resumes' = resumes + 1
    PROVE  UnbornUnclaimed' /\ ClaimsArePaid'
  <1>1. UnbornUnclaimed /\ ClaimsArePaid /\ resumes \in Nat
    BY CronTypes DEF FireInv, ListsInv
  <1>2. \A u \in ScheduleIds, t \in Clocks : claimedAt[<<u, t>>] \in Nat
    BY CronTypes DEF FireInv, ListsInv, Occurrence
  <1>3. ASSUME NEW u \in ScheduleIds
        PROVE  /\ cron'[u].next = 0 => \A t \in Clocks : claimedAt[<<u, t>>] = 0
               /\ \A t \in Clocks :
                     /\ claimedAt[<<u, t>>] <= 1 + resumes' + setBacks[u]
                     /\ CanBeClaimed(u, t)' => claimedAt[<<u, t>>] <= resumes' + setBacks[u]
    <2> PICK b \in Nat : b = setBacks[u]
      BY CronTypes DEF FireInv, ListsInv
    <2>1. \A t \in Clocks : /\ claimedAt[<<u, t>>] <= 1 + resumes + b
                            /\ CanBeClaimed(u, t) => claimedAt[<<u, t>>] <= resumes + b
                            /\ cron[u].next = 0 => claimedAt[<<u, t>>] = 0
      BY <1>1 DEF ClaimsArePaid, UnbornUnclaimed
    <2>2. CASE cron'[u] = cron[u]
      <3>1. \A t \in Clocks : CanBeClaimed(u, t)' => CanBeClaimed(u, t)
        BY <2>2 DEF CanBeClaimed
      <3> QED
        BY <1>1, <1>2, <2>1, <2>2, <3>1
    <2>3. CASE cron'[u].next # 0 /\ (~cron'[u].exists \/ ~cron'[u].active)
      <3>1. \A t \in Clocks : ~CanBeClaimed(u, t)'
        BY <2>3 DEF CanBeClaimed
      <3> QED
        BY <1>1, <1>2, <2>1, <2>3, <3>1
    <2>4. CASE cron'[u].next # 0 /\ cron[u].next = 0
      BY <1>1, <1>2, <2>1, <2>4
    <2>5. CASE cron'[u].next # 0 /\ resumes' = resumes + 1
      BY <1>1, <1>2, <2>1, <2>5
    <2> QED
      BY <2>2, <2>3, <2>4, <2>5
  <1> QED
    BY <1>3 DEF UnbornUnclaimed, ClaimsArePaid

LEMMA PaidStep == FireInv /\ [SchedulesNext]_cronVars => FireInv'
  <1> SUFFICES ASSUME FireInv, [SchedulesNext]_cronVars PROVE FireInv'
    OBVIOUS
  <1>1. ListsInv' /\ ListsInv /\ CronTypeInv
    BY ListsStep DEF FireInv, ListsInv
  <1>2. cron \in [ScheduleIds -> CronRow] /\ resumes \in Nat /\ clock \in Nat
    BY <1>1, CronTypes
  <1>3. CASE UNCHANGED <<cron, claimedAt, setBacks, resumes>>
    BY <1>1, <1>3 DEF FireInv, UnbornUnclaimed, ClaimsArePaid, CanBeClaimed
  <1>4. CASE WriteSchedule
    <2>1. operator \in OperatorRequest /\ operator.next \in Nat \ {0}
      BY <1>1, <1>4, CronTypes
      DEF WriteSchedule, ListsInv, CronTypeInv, RequestsCounted, OperatorRequest
    <2>2. PICK s \in ScheduleIds : s = operator.schedule
      BY <2>1 DEF OperatorRequest
    <2>3. UNCHANGED <<claimedAt, setBacks>>
      BY <1>4 DEF WriteSchedule
    <2>4. resumes' \in Nat /\ resumes' >= resumes
          /\ (operator.kind = "resume" => resumes' = resumes + 1)
      BY <1>2, <1>4 DEF WriteSchedule
    <2>5. \A u \in ScheduleIds \ {s} : cron'[u] = cron[u]
      BY <1>2, <1>4, <2>2 DEF WriteSchedule
    <2>6. \/ cron'[s] = cron[s]
          \/ cron'[s].next # 0 /\ (~cron'[s].exists \/ ~cron'[s].active)
          \/ cron'[s].next # 0 /\ resumes' = resumes + 1
      <3>1. CASE ~cron[s].exists
        BY <1>4, <2>2, <3>1 DEF WriteSchedule
      <3>2. CASE cron[s].exists
        <4>1. PICK b \in BOOLEAN : b = (operator.kind = "resume")
          OBVIOUS
        <4>2. PICK t \in Nat \ {0} : t = operator.next
          BY <2>1
        <4>3. cron' = [cron EXCEPT ![s].active = b, ![s].next = t]
          BY <1>4, <2>2, <3>2, <4>1, <4>2 DEF WriteSchedule
        <4>4. cron'[s].next = t /\ cron'[s].active = b
          BY <1>2, <4>3 DEF CronRow
        <4>5. CASE b
          BY <2>4, <4>1, <4>4, <4>5
        <4>6. CASE ~b
          BY <4>4, <4>6
        <4> QED
          BY <4>5, <4>6
      <3> QED
        BY <3>1, <3>2
    <2> QED
      BY <1>1, <2>3, <2>4, <2>5, <2>6, OthersKeepPaid DEF FireInv
  <1>5. ASSUME NEW s \in ScheduleIds, CreateSchedule(s) PROVE FireInv'
    <2>1. cron' = [cron EXCEPT ![s] = [exists |-> TRUE, active |-> TRUE, next |-> NextFireAt(clock)]]
          /\ cron[s].next = 0 /\ UNCHANGED <<claimedAt, setBacks, resumes>>
      BY <1>5 DEF CreateSchedule
    <2>2. NextFireAt(clock) # 0
      BY <1>1, <1>2, NextFireTimes
    <2>3. cron'[s].next # 0 /\ \A u \in ScheduleIds \ {s} : cron'[u] = cron[u]
      BY <1>2, <2>1, <2>2
    <2> QED
      BY <1>1, <1>2, <2>1, <2>3, OthersKeepPaid DEF FireInv
  <1>6. ASSUME NEW s \in ScheduleIds, DeleteSchedule(s) PROVE FireInv'
    <2>1. cron' = [cron EXCEPT ![s].exists = FALSE] /\ UNCHANGED <<claimedAt, setBacks, resumes>>
          /\ cron[s].exists
      BY <1>6 DEF DeleteSchedule
    <2>2. cron[s].next # 0
      BY <1>1, <1>2, <2>1 DEF CronTypeInv, RowsAreLater, CronRow
    <2>3. ~cron'[s].exists /\ cron'[s].next # 0
      BY <1>2, <2>1, <2>2 DEF CronRow
    <2>4. \A u \in ScheduleIds \ {s} : cron'[u] = cron[u]
      BY <1>2, <2>1
    <2> QED
      BY <1>1, <1>2, <2>1, <2>3, <2>4, OthersKeepPaid DEF FireInv
  <1>7. ASSUME NEW s \in ScheduleIds, ReadSchedule(s) PROVE FireInv'
    BY <1>3, <1>7 DEF ReadSchedule
  <1>8. ASSUME NEW p \in Schedulers, StartFired(p) \/ SchedulerCrashes(p) PROVE FireInv'
    BY <1>3, <1>8 DEF StartFired, SchedulerCrashes
  <1>9. CASE UNCHANGED cronVars \/ ClockTicks
    BY <1>3, <1>9 DEF cronVars, ClockTicks
  <1> QED
    BY <1>1, <1>4, <1>5, <1>6, <1>7, <1>8, <1>9, FireKeepsPaid DEF FireInv, SchedulesNext

\* fireDueSchedules: however many processes run the loop, whatever their clocks show, and
\* whenever they stop, an occurrence starts one run, and one more at most per resume and per
\* claim by a clock that is behind it (OneRunPerOccurrence).
THEOREM OneStartPerOccurrence == SchedulesSpec => []OneRunPerOccurrence
  <1>1. SchedulesInit => FireInv
    <2> SUFFICES ASSUME SchedulesInit PROVE FireInv
      OBVIOUS
    <2>1. UnbornUnclaimed /\ ClaimsArePaid
      BY DEF SchedulesInit, UnbornUnclaimed, ClaimsArePaid, CanBeClaimed
    <2> QED
      BY <2>1, ListsInit DEF FireInv
  <1>2. FireInv => OneRunPerOccurrence
    <2> SUFFICES ASSUME FireInv, NEW o \in Occurrence
                 PROVE  startedAt[o] <= 1 + resumes + setBacks[o[1]] /\ Missed(o) <= fireFaults
      BY CronTypes DEF FireInv, ListsInv, OneRunPerOccurrence
    <2>1. Missed(o) <= fireFaults
      BY KeptIsNotMissed, CronTypes DEF FireInv, ListsInv, ClaimsAreStarted
    <2>2. PICK s \in ScheduleIds, t \in Clocks : o = <<s, t>>
      BY DEF Occurrence
    <2>3. claimedAt[o] <= 1 + resumes + setBacks[s] /\ setBacks[o[1]] = setBacks[s]
      BY <2>2 DEF FireInv, ClaimsArePaid
    <2>4. startedAt[o] + Cardinality(Pending(o)) <= claimedAt[o]
      BY DEF FireInv, ListsInv, ClaimsAreKept
    <2>5. /\ startedAt[o] \in Nat /\ claimedAt[o] \in Nat /\ resumes \in Nat /\ setBacks[s] \in Nat
          /\ Cardinality(Pending(o)) \in Nat
      BY CronTypes, PendingCounts DEF FireInv, ListsInv
    <2> QED
      BY <2>1, <2>3, <2>4, <2>5
  <1> QED
    BY <1>1, <1>2, PaidStep, PTL DEF SchedulesSpec
=============================================================================
