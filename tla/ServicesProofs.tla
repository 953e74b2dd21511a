--------------------------- MODULE ServicesProofs ---------------------------
(***************************************************************************)
(* Theorems about what requests do beside the engine (keyed starts, usage  *)
(* metered, trees of runs, event streams), and about all of it together.   *)
(***************************************************************************)
EXTENDS Services, ProcessProofs

-----------------------------------------------------------------------------
(***************************************************************************)
(* StartRun: for every set of requests and of keys, and any number of      *)
(* transactions that are rolled back.                                      *)
(***************************************************************************)

StartedRow == [key : Keys, state : {"open", "committed", "undone"}, announced : Nat]
StartRequest == [pc : {"idle", "insert", "commit", "lookup"}, key : Keys \cup {NoKey},
            run : 0..MaxNewRuns]

-----------------------------------------------------------------------------
(* The invariant.                                                          *)

\* A request that has inserted a row holds it open, and no other request does.
RowsAreHeld ==
    \A c \in Clients :
        /\ client[c].pc # "idle" => client[c].key \in Keys
        /\ client[c].pc = "commit" => /\ client[c].run \in DOMAIN newRuns
                                      /\ newRuns[client[c].run].state = "open"
                                      /\ newRuns[client[c].run].key = client[c].key
        /\ \A d \in Clients : client[c].pc = "commit" /\ client[d].pc = "commit"
                                 /\ client[c].run = client[d].run => c = d

\* What the constraint keeps: of the rows of a key that are not undone there is one.
KeysAreUnique ==
    \A i, j \in DOMAIN newRuns :
        /\ newRuns[i].key = newRuns[j].key
        /\ newRuns[i].state # "undone" /\ newRuns[j].state # "undone"
        => i = j

\* A row is announced when it is committed.
AnnouncedOnce ==
    \A i \in DOMAIN newRuns :
        /\ newRuns[i].state = "open" => newRuns[i].announced = 0
        /\ newRuns[i].state = "committed" => newRuns[i].announced = 1

\* An answer is a committed row of the key that was asked for.
AnswersAreRows ==
    \A a \in answers : /\ a[2] \in DOMAIN newRuns
                       /\ newRuns[a[2]].key = a[1] /\ newRuns[a[2]].state = "committed"

StartInv == StartTypeOK /\ RowsAreHeld /\ KeysAreUnique /\ AnnouncedOnce /\ AnswersAreRows

-----------------------------------------------------------------------------
(* The invariant is inductive.                                             *)

LEMMA StartTypes ==
    ASSUME StartInv
    PROVE  /\ newRuns \in Seq(StartedRow) /\ client \in [Clients -> StartRequest]
           /\ answers \subseteq Keys \X (1..MaxNewRuns)
           /\ MaxNewRuns \in Nat /\ MaxStartFaults \in Nat /\ Len(newRuns) \in 0..MaxNewRuns
           /\ DOMAIN newRuns = 1..Len(newRuns)
           /\ NoRequestYet \in StartRequest
  BY StartAssumption DEF StartInv, StartTypeOK, StartedRow, StartRequest, NoRequestYet

\* A step that writes no row and lets no request hold another one.
LEMMA NoRowWritten ==
    ASSUME StartInv, StartTypeOK', UNCHANGED newRuns, AnswersAreRows',
           \A c \in Clients : \/ client'[c] = client[c]
                              \/ /\ client'[c].pc # "commit"
                                 /\ client'[c].pc # "idle" => client'[c].key \in Keys
    PROVE  StartInv'
  <1>1. RowsAreHeld'
    BY DEF StartInv, RowsAreHeld
  <1>2. KeysAreUnique' /\ AnnouncedOnce'
    BY DEF StartInv, KeysAreUnique, AnnouncedOnce
  <1> QED
    BY <1>1, <1>2 DEF StartInv

LEMMA FindKeepsInv ==
    ASSUME StartInv, NEW c \in Clients, FindExisting(c)
    PROVE  StartInv'
  <1>1. PICK k \in Keys :
          IF With(k, "committed") # {}
            THEN answers' = answers \cup {<<k, r>> : r \in With(k, "committed")} /\ UNCHANGED client
            ELSE /\ client' = [client EXCEPT ![c] = [NoRequestYet EXCEPT !.pc = "insert", !.key = k]]
                 /\ UNCHANGED answers
    BY DEF FindExisting
  <1>2. UNCHANGED <<newRuns, startFaults>>
    BY DEF FindExisting
  <1>3. CASE With(k, "committed") # {}
    <2>1. UNCHANGED client /\ answers' = answers \cup {<<k, r>> : r \in With(k, "committed")}
      BY <1>1, <1>3
    <2>2. \A r \in With(k, "committed") : /\ r \in 1..MaxNewRuns /\ r \in DOMAIN newRuns
                                          /\ newRuns[r].key = k /\ newRuns[r].state = "committed"
      BY StartTypes DEF With
    <2>3. StartTypeOK'
      BY <1>2, <2>1, <2>2 DEF StartInv, StartTypeOK
    <2>4. AnswersAreRows'
      BY <1>2, <2>1, <2>2 DEF StartInv, AnswersAreRows
    <2> QED
      BY <1>2, <2>1, <2>3, <2>4, NoRowWritten
  <1>4. CASE With(k, "committed") = {}
    <2> DEFINE asked == [NoRequestYet EXCEPT !.pc = "insert", !.key = k]
    <2>1. client' = [client EXCEPT ![c] = asked] /\ UNCHANGED answers
      BY <1>1, <1>4
    <2>2. asked \in StartRequest /\ asked.pc = "insert" /\ asked.key = k
      BY StartTypes DEF StartRequest, NoRequestYet
    <2>3. client' \in [Clients -> StartRequest]
      BY <2>1, <2>2, StartTypes
    <2>4. StartTypeOK'
      BY <1>2, <2>1, <2>3 DEF StartInv, StartTypeOK, StartRequest
    <2>5. AnswersAreRows'
      BY <1>2, <2>1 DEF StartInv, AnswersAreRows
    <2>6. \A d \in Clients : client'[d] = client[d] \/ client'[d] = asked
      BY <2>1, StartTypes
    <2> QED
      BY <1>2, <2>2, <2>4, <2>5, <2>6, NoRowWritten
  <1> QED
    BY <1>3, <1>4

\* The statement that inserts waits until no row of the key is open, and a committed one
\* is a conflict: the new row is alone.
LEMMA InsertKeepsInv ==
    ASSUME StartInv, NEW c \in Clients, InsertOrConflict(c)
    PROVE  StartInv'
  <1> DEFINE k == client[c].key
             new == [key |-> k, state |-> "open", announced |-> 0]
             n == Len(newRuns) + 1
  <1>1. /\ client[c].pc = "insert" /\ With(k, "open") = {} /\ k \in Keys
        /\ UNCHANGED <<answers, startFaults>>
    BY DEF InsertOrConflict, StartInv, RowsAreHeld
  <1>2. client[c] \in StartRequest
    BY StartTypes
  <1>3. CASE Free(k)
    <2>1. /\ Len(newRuns) < MaxNewRuns /\ newRuns' = Append(newRuns, new)
          /\ client' = [client EXCEPT ![c].pc = "commit", ![c].run = n]
      BY <1>3 DEF InsertOrConflict
    <2>2. new \in StartedRow /\ new.key = k /\ new.state = "open" /\ new.announced = 0
      BY <1>1 DEF StartedRow
    <2>3. /\ newRuns' \in Seq(StartedRow) /\ Len(newRuns') = n /\ newRuns'[n] = new
          /\ \A i \in 1..Len(newRuns) : newRuns'[i] = newRuns[i]
      BY <2>1, <2>2, StartTypes, AppendProperties
    <2>4. /\ n \in 1..MaxNewRuns /\ DOMAIN newRuns' = 1..n /\ n \notin DOMAIN newRuns
          /\ \A i \in 1..n : i = n \/ i \in DOMAIN newRuns
      BY <2>1, <2>3, StartTypes
    <2>5. /\ client' \in [Clients -> StartRequest]
          /\ \A d \in Clients \ {c} : client'[d] = client[d]
          /\ client'[c].pc = "commit" /\ client'[c].run = n /\ client'[c].key = k
      <3> DEFINE holding == [client[c] EXCEPT !.pc = "commit", !.run = n]
      <3>1. holding \in StartRequest /\ holding.pc = "commit" /\ holding.run = n /\ holding.key = k
        <4>1. ASSUME NEW q \in StartRequest, NEW i \in 0..MaxNewRuns
              PROVE  LET h == [q EXCEPT !.pc = "commit", !.run = i] IN
                     h \in StartRequest /\ h.pc = "commit" /\ h.run = i /\ h.key = q.key
          BY DEF StartRequest
        <4>2. n \in 0..MaxNewRuns
          BY <2>4
        <4> QED
          BY <1>2, <4>1, <4>2
      <3>2. client' = [client EXCEPT ![c] = holding]
        BY <2>1, StartTypes
      <3> QED
        BY <3>1, <3>2, StartTypes
    <2>6. StartTypeOK'
      BY <1>1, <2>3, <2>4, <2>5 DEF StartInv, StartTypeOK, StartedRow, StartRequest
    <2>7. \A i \in DOMAIN newRuns : newRuns[i].key = k => newRuns[i].state = "undone"
      <3>1. With(k, "committed") = {}
        BY <1>3 DEF Free
      <3>2. \A i \in DOMAIN newRuns : newRuns[i] \in StartedRow
        BY StartTypes
      <3> QED
        BY <1>1, <3>1, <3>2 DEF With, StartedRow
    <2>8. KeysAreUnique'
      BY <2>2, <2>3, <2>4, <2>7, StartTypes, SMTT(30) DEF StartInv, KeysAreUnique
    <2>9. AnnouncedOnce'
      BY <2>2, <2>3, <2>4, StartTypes DEF StartInv, AnnouncedOnce
    <2>10. AnswersAreRows'
      <3>1. ASSUME NEW a \in answers
            PROVE  /\ a[2] \in DOMAIN newRuns'
                   /\ newRuns'[a[2]].key = a[1] /\ newRuns'[a[2]].state = "committed"
        <4>1. a[2] \in DOMAIN newRuns /\ newRuns[a[2]].key = a[1] /\ newRuns[a[2]].state = "committed"
          BY DEF StartInv, AnswersAreRows
        <4>2. newRuns'[a[2]] = newRuns[a[2]] /\ a[2] \in 1..n
          BY <4>1, <2>3, StartTypes
        <4> QED
          BY <4>1, <4>2, <2>4
      <3> QED
        BY <1>1, <3>1 DEF AnswersAreRows
    <2>11. RowsAreHeld'
      <3>1. \A d \in Clients \ {c} : client[d].pc = "commit" => client[d].run # n
        BY <2>4 DEF StartInv, RowsAreHeld
      <3>2. newRuns'[n].state = "open" /\ newRuns'[n].key = k
        BY <2>2, <2>3
      <3>3. \A i \in DOMAIN newRuns : i \in DOMAIN newRuns' /\ newRuns'[i] = newRuns[i]
        BY <2>3, <2>4, StartTypes
      <3>4. ASSUME NEW d \in Clients
            PROVE  /\ client'[d].pc # "idle" => client'[d].key \in Keys
                   /\ client'[d].pc = "commit" => /\ client'[d].run \in DOMAIN newRuns'
                                                  /\ newRuns'[client'[d].run].state = "open"
                                                  /\ newRuns'[client'[d].run].key = client'[d].key
        <4>1. CASE d = c
          BY <4>1, <1>1, <2>4, <2>5, <3>2
        <4>2. CASE d # c
          BY <4>2, <2>5, <3>3 DEF StartInv, RowsAreHeld
        <4> QED
          BY <4>1, <4>2
      <3>5. ASSUME NEW d \in Clients, NEW e \in Clients, client'[d].pc = "commit",
                   client'[e].pc = "commit", client'[d].run = client'[e].run
            PROVE  d = e
        <4>1. CASE d # c /\ e # c
          BY <4>1, <3>5, <2>5 DEF StartInv, RowsAreHeld
        <4>2. CASE d = c \/ e = c
          BY <4>2, <3>5, <2>5, <3>1
        <4> QED
          BY <4>1, <4>2
      <3> QED
        BY <3>4, <3>5 DEF RowsAreHeld
    <2> QED
      BY <2>6, <2>8, <2>9, <2>10, <2>11 DEF StartInv
  <1>4. CASE ~Free(k)
    <2>1. client' = [client EXCEPT ![c].pc = "lookup"] /\ UNCHANGED newRuns
      BY <1>4 DEF InsertOrConflict
    <2>2. /\ client' \in [Clients -> StartRequest]
          /\ \A d \in Clients \ {c} : client'[d] = client[d]
          /\ client'[c].pc = "lookup" /\ client'[c].key = k
      BY <1>2, <2>1, StartTypes DEF StartRequest
    <2>3. StartTypeOK' /\ AnswersAreRows'
      BY <1>1, <2>1, <2>2 DEF StartInv, StartTypeOK, AnswersAreRows, StartRequest
    <2> QED
      BY <1>1, <2>1, <2>2, <2>3, NoRowWritten
  <1> QED
    BY <1>3, <1>4

LEMMA LookUpKeepsInv ==
    ASSUME StartInv, NEW c \in Clients, LookUp(c)
    PROVE  StartInv'
  <1>1. PICK r \in With(client[c].key, "committed") : Answer(c, r)
    BY DEF LookUp
  <1>2. client[c].key \in Keys /\ UNCHANGED <<newRuns, startFaults>>
    BY DEF LookUp, StartInv, RowsAreHeld
  <1>3. /\ r \in DOMAIN newRuns /\ r \in 1..MaxNewRuns
        /\ newRuns[r].key = client[c].key /\ newRuns[r].state = "committed"
    BY StartTypes DEF With
  <1>4. /\ client' \in [Clients -> StartRequest] /\ client'[c] = NoRequestYet
        /\ \A d \in Clients \ {c} : client'[d] = client[d]
        /\ answers' = answers \cup {<<client[c].key, r>>}
    BY <1>1, StartTypes DEF Answer
  <1>5. StartTypeOK'
    BY <1>2, <1>3, <1>4 DEF StartInv, StartTypeOK, StartRequest
  <1>6. AnswersAreRows'
    BY <1>2, <1>3, <1>4 DEF StartInv, AnswersAreRows
  <1> QED
    BY <1>2, <1>4, <1>5, <1>6, NoRowWritten DEF NoRequestYet

\* The transaction ends: the row is held no more.
LEMMA EndKeepsInv ==
    ASSUME StartInv, NEW c \in Clients, client[c].pc = "commit",
           NEW e \in StartedRow, e.key = client[c].key,
           \/ e.state = "undone"
           \/ e.state = "committed" /\ e.announced = 1,
           newRuns' = [newRuns EXCEPT ![client[c].run] = e],
           client' = [client EXCEPT ![c] = NoRequestYet],
           \/ UNCHANGED answers
           \/ e.state = "committed" /\ answers' = answers \cup {<<client[c].key, client[c].run>>},
           startFaults' \in 0..MaxStartFaults
    PROVE  StartInv'
  <1> DEFINE r == client[c].run
  <1>1. /\ r \in DOMAIN newRuns /\ r \in 1..MaxNewRuns /\ newRuns[r].state = "open"
        /\ newRuns[r].key = client[c].key /\ client[c].key \in Keys
    BY StartTypes DEF StartInv, RowsAreHeld
  <1>2. /\ newRuns' \in Seq(StartedRow) /\ Len(newRuns') = Len(newRuns) /\ newRuns'[r] = e
        /\ DOMAIN newRuns' = DOMAIN newRuns
        /\ \A i \in DOMAIN newRuns : i # r => newRuns'[i] = newRuns[i]
    <2>1. [newRuns EXCEPT ![r] = e] \in Seq(StartedRow) /\ Len([newRuns EXCEPT ![r] = e]) = Len(newRuns)
      BY <1>1, StartTypes, ExceptSeq
    <2> QED
      BY <1>1, <2>1, StartTypes
  <1>3. /\ client' \in [Clients -> StartRequest] /\ client'[c].pc = "idle"
        /\ \A d \in Clients \ {c} : client'[d] = client[d]
    BY StartTypes DEF NoRequestYet
  <1>4. StartTypeOK'
    BY <1>1, <1>2, <1>3, StartTypes DEF StartInv, StartTypeOK, StartedRow, StartRequest
  <1>5. RowsAreHeld'
    <2>1. \A d \in Clients \ {c} : client[d].pc = "commit" => client[d].run # r
      BY DEF StartInv, RowsAreHeld
    <2>2. \A d \in Clients : client'[d].pc # "idle" => d # c
      BY <1>3
    <2> QED
      BY <1>2, <1>3, <2>1, <2>2 DEF StartInv, RowsAreHeld
  <1>6. KeysAreUnique'
    BY <1>1, <1>2 DEF StartInv, KeysAreUnique
  <1>7. AnnouncedOnce'
    BY <1>1, <1>2 DEF StartInv, AnnouncedOnce
  <1>8. AnswersAreRows'
    BY <1>1, <1>2 DEF StartInv, AnswersAreRows
  <1> QED
    BY <1>4, <1>5, <1>6, <1>7, <1>8 DEF StartInv

LEMMA CommitKeepsInv ==
    ASSUME StartInv, NEW c \in Clients, CommitStart(c) \/ AbortStart(c)
    PROVE  StartInv'
  <1> DEFINE r == client[c].run
  <1>1. /\ client[c].pc = "commit" /\ r \in DOMAIN newRuns /\ newRuns[r] \in StartedRow
        /\ newRuns[r].state = "open" /\ newRuns[r].key = client[c].key
        /\ newRuns[r].announced = 0
    BY StartTypes, SMTT(30) DEF CommitStart, AbortStart, StartInv, RowsAreHeld, AnnouncedOnce
  <1>2. CASE CommitStart(c)
    <2> DEFINE e == [newRuns[r] EXCEPT !.state = "committed", !.announced = @ + 1]
    <2>1. e \in StartedRow /\ e.key = client[c].key /\ e.state = "committed" /\ e.announced = 1
      <3>1. ASSUME NEW f \in StartedRow, f.announced = 0
            PROVE  LET g == [f EXCEPT !.state = "committed", !.announced = @ + 1] IN
                   g \in StartedRow /\ g.key = f.key /\ g.state = "committed" /\ g.announced = 1
        <4>1. [f EXCEPT !.state = "committed", !.announced = @ + 1]
                 = [f EXCEPT !.state = "committed", !.announced = 1]
          BY <3>1 DEF StartedRow
        <4>2. LET g == [f EXCEPT !.state = "committed", !.announced = 1] IN
              g \in StartedRow /\ g.key = f.key /\ g.state = "committed" /\ g.announced = 1
          BY DEF StartedRow
        <4> QED
          BY <4>1, <4>2
      <3> QED
        BY <1>1, <3>1
    <2>2. newRuns' = [newRuns EXCEPT ![r] = e]
      BY <1>1, <1>2, StartTypes DEF CommitStart
    <2>3. /\ client' = [client EXCEPT ![c] = NoRequestYet]
          /\ answers' = answers \cup {<<client[c].key, r>>}
          /\ startFaults' \in 0..MaxStartFaults
      BY <1>2 DEF CommitStart, Answer, StartInv, StartTypeOK
    <2> HIDE DEF e
    <2> QED
      BY <1>1, <2>1, <2>2, <2>3, EndKeepsInv
  <1>3. CASE AbortStart(c)
    <2> DEFINE e == [newRuns[r] EXCEPT !.state = "undone"]
    <2>1. e \in StartedRow /\ e.key = client[c].key /\ e.state = "undone"
      BY <1>1 DEF StartedRow
    <2>2. newRuns' = [newRuns EXCEPT ![r] = e]
      BY <1>1, <1>3, StartTypes DEF AbortStart
    <2>3. /\ client' = [client EXCEPT ![c] = NoRequestYet] /\ UNCHANGED answers
          /\ startFaults' \in 0..MaxStartFaults
      BY <1>3, StartTypes DEF AbortStart, StartInv, StartTypeOK
    <2> HIDE DEF e
    <2> QED
      BY <1>1, <2>1, <2>2, <2>3, EndKeepsInv
  <1> QED
    BY <1>2, <1>3

LEMMA StartInvariant == StartSpec => []StartInv
  <1>1. StartInit => StartInv
    <2> SUFFICES ASSUME StartInit PROVE StartInv
      OBVIOUS
    <2>1. StartTypeOK
      BY StartAssumption DEF StartInit, StartTypeOK, NoRequestYet
    <2>2. RowsAreHeld /\ KeysAreUnique /\ AnnouncedOnce /\ AnswersAreRows
      BY DEF StartInit, NoRequestYet, RowsAreHeld, KeysAreUnique, AnnouncedOnce, AnswersAreRows
    <2> QED
      BY <2>1, <2>2 DEF StartInv
  <1>2. StartInv /\ [StartNext]_startVars => StartInv'
    <2> SUFFICES ASSUME StartInv, [StartNext]_startVars PROVE StartInv'
      OBVIOUS
    <2>1. ASSUME NEW c \in Clients,
                 \/ FindExisting(c) \/ InsertOrConflict(c) \/ LookUp(c)
                 \/ CommitStart(c) \/ AbortStart(c)
          PROVE  StartInv'
      BY <2>1, FindKeepsInv, InsertKeepsInv, LookUpKeepsInv, CommitKeepsInv
    <2>2. CASE UNCHANGED startVars
      BY <2>2 DEF startVars, StartInv, StartTypeOK, RowsAreHeld, KeysAreUnique, AnnouncedOnce,
                  AnswersAreRows
    <2> QED
      BY <2>1, <2>2 DEF StartNext
  <1> QED
    BY <1>1, <1>2, PTL DEF StartSpec

-----------------------------------------------------------------------------
(* The theorem.                                                            *)

\* src/lib/store/runs.ts, startRun: however many requests arrive with one key, and whichever
\* of their transactions are rolled back, all are answered with one run, which is in the
\* table and announced once (OneRunPerKey).
THEOREM KeyedStartsAreOne == StartSpec => []OneRunPerKey
  <1>1. StartInv => OneRunPerKey
    <2> SUFFICES ASSUME StartInv PROVE OneRunPerKey
      OBVIOUS
    <2>1. \A a, b \in answers : a[1] = b[1] => a[2] = b[2]
      BY DEF StartInv, AnswersAreRows, KeysAreUnique
    <2>2. \A a \in answers : newRuns[a[2]].state = "committed" /\ newRuns[a[2]].announced = 1
      BY DEF StartInv, AnswersAreRows, AnnouncedOnce
    <2> QED
      BY <2>1, <2>2 DEF OneRunPerKey
  <1> QED
    BY <1>1, StartInvariant, PTL

\* startRun: no request holds, or is answered with, a row that does not exist (StartTypeOK).
THEOREM StartRunTypes == StartSpec => []StartTypeOK
  <1>1. StartInv => StartTypeOK
    BY DEF StartInv
  <1> QED
    BY <1>1, StartInvariant, PTL

-----------------------------------------------------------------------------
(***************************************************************************)
(* UsageBudget: for every limit, any offers of usage, any number of calls  *)
(* at once, and of faults.                                                 *)
(***************************************************************************)

PendingUsage == [usage : Offers, amount : [Resources -> Nat], cost : Nat]
OpenCall == [pc : {"total", "exhaust"}, usage : Offers]

\* A sum is that of the last usage of its resource, and sums do not shrink.
SumsGrow ==
    \A i \in DOMAIN pending :
        /\ \A r \in Resources : pending[i].amount[r] > 0 =>
              \E j \in 1..i : /\ pending[j].usage.resource = r
                              /\ pending[j].amount[r] = pending[i].amount[r]
        /\ \A j \in i..Len(pending) : /\ pending[i].cost <= pending[j].cost
                                      /\ \A r \in Resources : pending[i].amount[r] <= pending[j].amount[r]

\* A body that has been told has a usage that exceeds the budget, and holds a live run.
BodiesAreTold ==
    /\ body = "none" => pending = <<>>
    /\ body # "none" => metering = "live"
    /\ body = "thrown" => Exceeding # {}

\* A run is ended for its budget when the totals exceed it.
EndedIsOver ==
    metering = "exhausted" \/ (\E c \in Recorders : recorder[c].pc = "exhaust") => OverBudget

\* A limit that is exceeded has a call that has still to find out, or to tell.
OverIsSeen ==
    metering \in {"live", "failed"} /\ unchecked = 0 =>
        /\ \A r \in DOMAIN Limit : metered[r] > Limit[r] =>
              \E c \in Recorders : \/ recorder[c].pc = "exhaust"
                                   \/ recorder[c].pc = "total" /\ recorder[c].usage.resource = r
        /\ meteredCost > CostLimit => \E c \in Recorders : recorder[c].pc # "idle"

BudgetInv == UsageTypeOK /\ SumsGrow /\ BodiesAreTold /\ EndedIsOver /\ OverIsSeen

-----------------------------------------------------------------------------
(* Usages and their sums.                                                  *)

LEMMA UsagesAreTyped ==
    ASSUME UsageTypeOK
    PROVE  /\ metered \in [Resources -> Nat] /\ meteredCost \in Nat
           /\ recorder \in [Recorders -> {NoCall} \cup OpenCall]
           /\ pending \in Seq(PendingUsage) /\ DOMAIN pending = 1..Len(pending) /\ Len(pending) \in Nat
           /\ usages \in 0..MaxUsages /\ unchecked \in 0..MaxUsageFaults
           /\ MaxUsages \in Nat /\ MaxUsageFaults \in Nat /\ CostLimit \in Nat
           /\ DOMAIN Limit \subseteq Resources /\ \A r \in DOMAIN Limit : Limit[r] \in Nat
           /\ \A u \in Offers : u.resource \in Resources /\ u.amount \in Nat /\ u.cost \in Nat
  BY UsageAssumption DEF UsageTypeOK, OpenCall, PendingUsage, Resources

LEMMA CallTypes ==
    ASSUME UsageTypeOK, NEW c \in Recorders
    PROVE  /\ recorder[c] = NoCall <=> recorder[c].pc = "idle"
           /\ recorder[c].pc \in {"idle", "total", "exhaust"}
           /\ recorder[c].pc # "idle" => recorder[c].usage \in Offers
  <1>1. recorder[c] \in {NoCall} \cup OpenCall
    BY UsagesAreTyped
  <1>2. CASE recorder[c] = NoCall
    BY <1>2 DEF NoCall
  <1>3. CASE recorder[c] \in OpenCall
    <2>1. recorder[c].pc \in {"total", "exhaust"} /\ recorder[c].usage \in Offers
      BY <1>3 DEF OpenCall
    <2>2. recorder[c].pc # NoCall.pc
      BY <2>1 DEF NoCall
    <2> QED
      BY <2>1, <2>2
  <1> QED
    BY <1>1, <1>2, <1>3

\* The sums of a sequence of pending usages.
LEMMA SumTypes ==
    ASSUME NEW q \in Seq(PendingUsage)
    PROVE  /\ CostOf(q) \in Nat /\ \A r \in Resources : AmountOf(q, r) \in Nat
           /\ q # <<>> => /\ Len(q) \in DOMAIN q /\ CostOf(q) = q[Len(q)].cost
                          /\ \A r \in Resources : AmountOf(q, r) = q[Len(q)].amount[r]
  <1>1. CASE q = <<>>
    BY <1>1 DEF CostOf, AmountOf
  <1>2. CASE q # <<>>
    <2>1. Len(q) \in DOMAIN q /\ q[Len(q)] \in PendingUsage
      BY <1>2
    <2> QED
      BY <1>2, <2>1 DEF CostOf, AmountOf, PendingUsage
  <1> QED
    BY <1>1, <1>2

\* What Insert writes.
LEMMA Inserting ==
    ASSUME UsageTypeOK, NEW q \in Seq(PendingUsage), Insert(q)
    PROVE  /\ metered' \in [Resources -> Nat] /\ meteredCost' \in Nat
           /\ \A r \in Resources : metered'[r] = metered[r] + AmountOf(q, r)
           /\ meteredCost' = meteredCost + CostOf(q)
  BY UsagesAreTyped, SumTypes, SMTT(30) DEF Insert

LEMMA OverStaysOver ==
    ASSUME UsageTypeOK, OverBudget, meteredCost' \in Nat, meteredCost' >= meteredCost,
           metered' \in [Resources -> Nat], \A r \in Resources : metered'[r] >= metered[r]
    PROVE  OverBudget'
  <1>1. CASE meteredCost > CostLimit
    BY <1>1, UsagesAreTyped DEF OverBudget
  <1>2. CASE \E r \in DOMAIN Limit : metered[r] > Limit[r]
    <2>1. PICK r \in DOMAIN Limit : metered[r] > Limit[r]
      BY <1>2
    <2>2. metered'[r] > Limit[r]
      BY <2>1, UsagesAreTyped
    <2> QED
      BY <2>2 DEF OverBudget
  <1> QED
    BY <1>1, <1>2 DEF OverBudget

-----------------------------------------------------------------------------
(* recordUsage.                                                            *)

LEMMA InsertKeepsBudget ==
    ASSUME BudgetInv, NEW c \in Recorders, NEW u \in Offers, InsertUsage(c, u)
    PROVE  BudgetInv'
  <1>1. /\ recorder[c] = NoCall /\ body = "none" /\ usages < MaxUsages /\ usages' = usages + 1
        /\ metered' = [metered EXCEPT ![u.resource] = @ + u.amount]
        /\ meteredCost' = meteredCost + u.cost
        /\ recorder' = [recorder EXCEPT ![c] = [pc |-> "total", usage |-> u]]
        /\ UNCHANGED <<metering, body, pending, unchecked>>
    BY DEF InsertUsage, Spend
  <1>2. UsageTypeOK
    BY DEF BudgetInv
  <1>3. u.resource \in Resources /\ u.amount \in Nat /\ u.cost \in Nat
    BY <1>2, UsagesAreTyped
  <1>4. /\ metered' \in [Resources -> Nat] /\ meteredCost' \in Nat /\ meteredCost' >= meteredCost
        /\ \A r \in Resources : metered'[r] >= metered[r]
        /\ \A r \in Resources : r # u.resource => metered'[r] = metered[r]
    <2>1. metered[u.resource] \in Nat /\ meteredCost \in Nat /\ \A r \in Resources : metered[r] \in Nat
      BY <1>2, <1>3, UsagesAreTyped
    <2>2. metered \in [Resources -> Nat]
      BY <1>2, UsagesAreTyped
    <2>3. meteredCost' \in Nat /\ meteredCost' >= meteredCost
      BY <1>1, <1>3, <2>1
    <2>4. metered' \in [Resources -> Nat] /\ metered'[u.resource] = metered[u.resource] + u.amount
          /\ \A r \in Resources : r # u.resource => metered'[r] = metered[r]
      BY <1>1, <1>3, <2>1, <2>2
    <2> QED
      BY <1>3, <2>1, <2>3, <2>4
  <1>5. /\ recorder' \in [Recorders -> {NoCall} \cup OpenCall]
        /\ recorder'[c].pc = "total" /\ recorder'[c].usage = u
        /\ \A d \in Recorders \ {c} : recorder'[d] = recorder[d]
    BY <1>1, <1>2, UsagesAreTyped DEF OpenCall
  <1>6. UsageTypeOK'
    BY <1>1, <1>2, <1>4, <1>5, UsagesAreTyped DEF UsageTypeOK, OpenCall
  <1>7. SumsGrow' /\ BodiesAreTold'
    BY <1>1 DEF BudgetInv, SumsGrow, BodiesAreTold
  <1>8. EndedIsOver'
    <2>1. (\E d \in Recorders : recorder'[d].pc = "exhaust")
            => (\E d \in Recorders : recorder[d].pc = "exhaust")
      BY <1>5
    <2>2. OverBudget => OverBudget'
      BY <1>2, <1>4, OverStaysOver
    <2> QED
      BY <1>1, <2>1, <2>2 DEF BudgetInv, EndedIsOver
  <1>9. OverIsSeen'
    <2> SUFFICES ASSUME metering \in {"live", "failed"}, unchecked = 0
                 PROVE  /\ \A r \in DOMAIN Limit : metered'[r] > Limit[r] =>
                             \E d \in Recorders : \/ recorder'[d].pc = "exhaust"
                                                  \/ /\ recorder'[d].pc = "total"
                                                     /\ recorder'[d].usage.resource = r
                        /\ \E d \in Recorders : recorder'[d].pc # "idle"
      BY <1>1 DEF OverIsSeen
    <2>1. recorder'[c].pc # "idle"
      BY <1>5
    <2>2. recorder[c].pc = "idle"
      BY <1>1 DEF NoCall
    <2>3. ASSUME NEW r \in DOMAIN Limit, metered'[r] > Limit[r]
          PROVE  \E d \in Recorders : \/ recorder'[d].pc = "exhaust"
                                      \/ /\ recorder'[d].pc = "total"
                                         /\ recorder'[d].usage.resource = r
      <3>1. CASE r = u.resource
        BY <1>5, <3>1
      <3>2. CASE r # u.resource
        <4>1. metered[r] > Limit[r]
          BY <1>2, <1>4, <2>3, <3>2, UsagesAreTyped
        <4>2. PICK d \in Recorders : \/ recorder[d].pc = "exhaust"
                                     \/ recorder[d].pc = "total" /\ recorder[d].usage.resource = r
          BY <1>1, <4>1 DEF BudgetInv, OverIsSeen
        <4>3. d # c
          BY <2>2, <4>2
        <4> QED
          BY <1>5, <4>2, <4>3
      <3> QED
        BY <3>1, <3>2
    <2> QED
      BY <2>1, <2>3
  <1> QED
    BY <1>6, <1>7, <1>8, <1>9 DEF BudgetInv

LEMMA TotalsKeepBudget ==
    ASSUME BudgetInv, NEW c \in Recorders, GetUsageTotals(c)
    PROVE  BudgetInv'
  <1>1. UsageTypeOK
    BY DEF BudgetInv
  <1>2. PICK u \in Offers : u = recorder[c].usage
    BY <1>1, CallTypes DEF GetUsageTotals
  <1>3. /\ recorder[c].pc = "total"
        /\ recorder' = [recorder EXCEPT ![c] = IF Exhausted(u, metered[u.resource], meteredCost)
                                                 THEN [pc |-> "exhaust", usage |-> u] ELSE NoCall]
        /\ UNCHANGED <<metered, meteredCost, metering, body, pending, usages, unchecked>>
    BY <1>2 DEF GetUsageTotals
  <1>4. /\ recorder' \in [Recorders -> {NoCall} \cup OpenCall]
        /\ Exhausted(u, metered[u.resource], meteredCost) => recorder'[c].pc = "exhaust"
        /\ ~Exhausted(u, metered[u.resource], meteredCost) => recorder'[c].pc = "idle"
        /\ \A d \in Recorders \ {c} : recorder'[d] = recorder[d]
    BY <1>1, <1>3, UsagesAreTyped DEF OpenCall, NoCall
  <1>5. UsageTypeOK'
    BY <1>1, <1>3, <1>4 DEF UsageTypeOK, OpenCall
  <1>6. SumsGrow' /\ BodiesAreTold'
    BY <1>3 DEF BudgetInv, SumsGrow, BodiesAreTold, Exceeding
  <1>7. EndedIsOver'
    <2>1. Exhausted(u, metered[u.resource], meteredCost) => OverBudget
      BY DEF Exhausted, OverBudget
    <2>2. OverBudget' = OverBudget
      BY <1>3 DEF OverBudget
    <2>3. (\E d \in Recorders : recorder'[d].pc = "exhaust")
            => OverBudget \/ (\E d \in Recorders : recorder[d].pc = "exhaust")
      BY <1>4, <2>1
    <2> QED
      BY <1>3, <2>2, <2>3 DEF BudgetInv, EndedIsOver
  <1>8. OverIsSeen'
    <2> SUFFICES ASSUME metering \in {"live", "failed"}, unchecked = 0
                 PROVE  /\ \A r \in DOMAIN Limit : metered[r] > Limit[r] =>
                             \E d \in Recorders : \/ recorder'[d].pc = "exhaust"
                                                  \/ /\ recorder'[d].pc = "total"
                                                     /\ recorder'[d].usage.resource = r
                        /\ meteredCost > CostLimit => \E d \in Recorders : recorder'[d].pc # "idle"
      BY <1>3 DEF OverIsSeen
    <2>1. ASSUME NEW r \in DOMAIN Limit, metered[r] > Limit[r]
          PROVE  \E d \in Recorders : \/ recorder'[d].pc = "exhaust"
                                      \/ /\ recorder'[d].pc = "total"
                                         /\ recorder'[d].usage.resource = r
      <3>1. PICK d \in Recorders : \/ recorder[d].pc = "exhaust"
                                   \/ recorder[d].pc = "total" /\ recorder[d].usage.resource = r
        BY <2>1 DEF BudgetInv, OverIsSeen
      <3>2. CASE d # c
        BY <1>4, <3>1, <3>2
      <3>3. CASE d = c
        <4>1. u.resource = r
          BY <1>2, <1>3, <3>1, <3>3
        <4>2. Exhausted(u, metered[u.resource], meteredCost)
          BY <2>1, <4>1 DEF Exhausted
        <4> QED
          BY <1>4, <4>2
      <3> QED
        BY <3>2, <3>3
    <2>2. ASSUME meteredCost > CostLimit PROVE recorder'[c].pc # "idle"
      <3>1. Exhausted(u, metered[u.resource], meteredCost)
        BY <2>2 DEF Exhausted
      <3> QED
        BY <1>4, <3>1
    <2> QED
      BY <2>1, <2>2
  <1> QED
    BY <1>5, <1>6, <1>7, <1>8 DEF BudgetInv

\* A call ends when it has ended the run, or another has, or it is counted.
LEMMA CallsEndKeepBudget ==
    ASSUME BudgetInv, NEW c \in Recorders, ExhaustRunBudget(c) \/ CallBreaks(c)
    PROVE  BudgetInv'
  <1>1. UsageTypeOK
    BY DEF BudgetInv
  <1>2. /\ recorder' = [recorder EXCEPT ![c] = NoCall]
        /\ UNCHANGED <<metered, meteredCost, body, pending, usages>>
    BY DEF ExhaustRunBudget, CallBreaks
  <1>3. /\ unchecked' \in 0..MaxUsageFaults
        /\ \/ metering' = metering /\ (unchecked' > 0 \/ metering \notin {"live", "failed"})
           \/ metering' = "exhausted" /\ recorder[c].pc = "exhaust" /\ body = "none"
    BY <1>1, UsagesAreTyped DEF ExhaustRunBudget, CallBreaks, UsageTypeOK
  <1>4. /\ recorder' \in [Recorders -> {NoCall} \cup OpenCall]
        /\ recorder'[c].pc = "idle" /\ \A d \in Recorders \ {c} : recorder'[d] = recorder[d]
    BY <1>1, <1>2, UsagesAreTyped DEF NoCall
  <1>5. UsageTypeOK'
    BY <1>1, <1>2, <1>3, <1>4 DEF UsageTypeOK, OpenCall
  <1>6. SumsGrow'
    BY <1>2 DEF BudgetInv, SumsGrow
  <1>7. BodiesAreTold'
    BY <1>2, <1>3 DEF BudgetInv, BodiesAreTold, Exceeding
  <1>8. EndedIsOver'
    <2>1. OverBudget' = OverBudget
      BY <1>2 DEF OverBudget
    <2>2. (\E d \in Recorders : recorder'[d].pc = "exhaust")
            => (\E d \in Recorders : recorder[d].pc = "exhaust")
      BY <1>4
    <2> QED
      BY <1>3, <2>1, <2>2 DEF BudgetInv, EndedIsOver
  <1>9. OverIsSeen'
    BY <1>3, <1>5 DEF OverIsSeen, UsageTypeOK
  <1> QED
    BY <1>5, <1>6, <1>7, <1>8, <1>9 DEF BudgetInv

-----------------------------------------------------------------------------
(* The usage of a transactional body.                                      *)

LEMMA PendingGrows ==
    ASSUME UsageTypeOK, NEW u \in Offers
    PROVE  \E e \in PendingUsage :
             /\ Pended(pending, u) = Append(pending, e)
             /\ Append(pending, e) \in Seq(PendingUsage)
             /\ e.usage = u /\ e.cost = CostOf(pending) + u.cost
             /\ e.amount[u.resource] = AmountOf(pending, u.resource) + u.amount
             /\ \A r \in Resources : /\ r # u.resource => e.amount[r] = AmountOf(pending, r)
                                     /\ e.amount[r] >= AmountOf(pending, r)
             /\ e.cost >= CostOf(pending)
  <1>1. /\ u.resource \in Resources /\ u.amount \in Nat /\ u.cost \in Nat
        /\ pending \in Seq(PendingUsage)
    BY UsagesAreTyped
  <1>2. CostOf(pending) \in Nat /\ \A r \in Resources : AmountOf(pending, r) \in Nat
    BY <1>1, SumTypes
  <1>3. PICK f \in [Resources -> Nat] :
          f = [r \in Resources |-> IF r = u.resource THEN AmountOf(pending, r) + u.amount
                                   ELSE AmountOf(pending, r)]
    <2>1. \A r \in Resources : (IF r = u.resource THEN AmountOf(pending, r) + u.amount
                                ELSE AmountOf(pending, r)) \in Nat
      BY <1>1, <1>2
    <2> QED
      BY <2>1
  <1>4. /\ f[u.resource] = AmountOf(pending, u.resource) + u.amount
        /\ \A r \in Resources : /\ r # u.resource => f[r] = AmountOf(pending, r)
                                /\ f[r] >= AmountOf(pending, r)
    BY <1>1, <1>2, <1>3
  <1>5. PICK n \in Nat : n = CostOf(pending) + u.cost
    BY <1>1, <1>2
  <1>6. PICK e : e = [usage |-> u, cost |-> n, amount |-> f]
    OBVIOUS
  <1>7. e \in PendingUsage /\ e.usage = u /\ e.cost = n /\ e.amount = f
    BY <1>6 DEF PendingUsage
  <1>8. Pended(pending, u) = Append(pending, e)
    BY <1>3, <1>5, <1>6 DEF Pended
  <1>9. n >= CostOf(pending)
    BY <1>1, <1>2, <1>5
  <1>10. Append(pending, e) \in Seq(PendingUsage)
    BY <1>1, <1>7
  <1> QED
    BY <1>4, <1>5, <1>7, <1>8, <1>9, <1>10

\* No sum is above that of the last entry.
LEMMA LastSums ==
    ASSUME UsageTypeOK, SumsGrow, NEW i \in DOMAIN pending
    PROVE  /\ pending # <<>> /\ pending[i].cost \in Nat /\ pending[i].cost <= CostOf(pending)
           /\ \A r \in Resources : pending[i].amount[r] \in Nat
                                   /\ pending[i].amount[r] <= AmountOf(pending, r)
  <1>1. pending \in Seq(PendingUsage) /\ pending # <<>> /\ Len(pending) \in i..Len(pending)
    BY UsagesAreTyped
  <1>2. pending[i] \in PendingUsage
    BY <1>1
  <1>3. pending[i].cost \in Nat /\ \A r \in Resources : pending[i].amount[r] \in Nat
    BY <1>2 DEF PendingUsage
  <1>4. CostOf(pending) = pending[Len(pending)].cost
        /\ \A r \in Resources : AmountOf(pending, r) = pending[Len(pending)].amount[r]
    BY <1>1, SumTypes
  <1> QED
    BY <1>1, <1>3, <1>4 DEF SumsGrow

LEMMA PendKeepsBudget ==
    ASSUME BudgetInv, NEW u \in Offers, PendUsage(u)
    PROVE  BudgetInv'
  <1>1. UsageTypeOK /\ SumsGrow /\ BodiesAreTold
    BY DEF BudgetInv
  <1>2. /\ body \in {"open", "thrown"} /\ usages < MaxUsages /\ usages' = usages + 1
        /\ body' = (IF Exhausted(u, metered[u.resource] + AmountOf(pending', u.resource),
                                 meteredCost + CostOf(pending')) THEN "thrown" ELSE body)
        /\ UNCHANGED <<metered, meteredCost, metering, recorder, unchecked>>
    BY DEF PendUsage, Spend
  <1>3. PICK e \in PendingUsage :
          /\ pending' = Append(pending, e) /\ pending' \in Seq(PendingUsage)
          /\ e.usage = u
          /\ \A r \in Resources : /\ r # u.resource => e.amount[r] = AmountOf(pending, r)
                                  /\ e.amount[r] >= AmountOf(pending, r)
          /\ e.cost >= CostOf(pending)
    <2>1. pending' = Pended(pending, u)
      BY DEF PendUsage
    <2> QED
      BY <1>1, <2>1, PendingGrows
  <1>4. PICK n \in Nat : n = Len(pending)
    BY <1>1, UsagesAreTyped
  <1>5. /\ DOMAIN pending = 1..n /\ DOMAIN pending' = 1..(n + 1) /\ Len(pending') = n + 1
        /\ pending'[n + 1] = e /\ \A i \in 1..n : pending'[i] = pending[i]
    BY <1>1, <1>3, <1>4, UsagesAreTyped
  <1>6. e.cost \in Nat /\ \A r \in Resources : e.amount[r] \in Nat
    BY DEF PendingUsage
  <1>7. UsageTypeOK'
    <2>1. usages' \in 0..MaxUsages
      BY <1>1, <1>2, UsagesAreTyped
    <2>2. body' \in {"none", "open", "thrown"}
      BY <1>2
    <2> QED
      BY <1>1, <1>2, <1>3, <2>1, <2>2 DEF UsageTypeOK, PendingUsage
  <1>8. ASSUME NEW i \in 1..(n + 1), NEW r \in Resources, pending'[i].amount[r] > 0
        PROVE  \E j \in 1..i : /\ pending'[j].usage.resource = r
                               /\ pending'[j].amount[r] = pending'[i].amount[r]
    <2>1. CASE i \in 1..n
      <3>1. PICK j \in 1..i : /\ pending[j].usage.resource = r
                              /\ pending[j].amount[r] = pending[i].amount[r]
        BY <1>1, <1>5, <1>8, <2>1 DEF SumsGrow
      <3>2. j \in 1..n
        BY <2>1
      <3> QED
        BY <1>5, <2>1, <3>1, <3>2
    <2>2. CASE i = n + 1 /\ r = u.resource
      BY <1>3, <1>5, <2>2
    <2>3. CASE i = n + 1 /\ r # u.resource
      <3>1. AmountOf(pending, r) = e.amount[r] /\ e.amount[r] > 0
        BY <1>3, <1>5, <1>8, <2>3
      <3>2. pending # <<>>
        BY <3>1 DEF AmountOf
      <3>3. n \in 1..n /\ pending[n].amount[r] = e.amount[r]
        BY <1>1, <1>4, <1>5, <3>1, <3>2, UsagesAreTyped, SumTypes
      <3>4. PICK j \in 1..n : /\ pending[j].usage.resource = r
                              /\ pending[j].amount[r] = pending[n].amount[r]
        BY <1>1, <1>5, <3>1, <3>3 DEF SumsGrow
      <3>5. j \in 1..i /\ pending'[j] = pending[j]
        BY <1>5, <2>3, <3>4
      <3> QED
        BY <1>5, <2>3, <3>3, <3>4, <3>5
    <2> QED
      BY <2>1, <2>2, <2>3
  <1>9. ASSUME NEW i \in 1..(n + 1), NEW j \in i..(n + 1)
        PROVE  /\ pending'[i].cost <= pending'[j].cost
               /\ \A r \in Resources : pending'[i].amount[r] <= pending'[j].amount[r]
    <2>1. CASE j \in 1..n
      <3>1. i \in 1..n /\ j \in i..Len(pending)
        BY <1>4, <2>1
      <3>2. /\ pending[i].cost <= pending[j].cost
            /\ \A r \in Resources : pending[i].amount[r] <= pending[j].amount[r]
        BY <1>1, <1>5, <3>1 DEF SumsGrow
      <3> QED
        BY <1>5, <2>1, <3>1, <3>2
    <2>2. CASE j = n + 1 /\ i \in 1..n
      <3>1. /\ pending[i].cost \in Nat /\ pending[i].cost <= CostOf(pending)
            /\ \A r \in Resources : pending[i].amount[r] \in Nat
                                    /\ pending[i].amount[r] <= AmountOf(pending, r)
        BY <1>1, <1>5, <2>2, LastSums
      <3>2. CostOf(pending) \in Nat /\ \A r \in Resources : AmountOf(pending, r) \in Nat
        BY <1>1, UsagesAreTyped, SumTypes
      <3>3. /\ pending[i].cost <= e.cost
            /\ \A r \in Resources : pending[i].amount[r] <= e.amount[r]
        BY <1>3, <1>6, <3>1, <3>2
      <3> QED
        BY <1>5, <2>2, <3>3
    <2>3. CASE j = n + 1 /\ i = n + 1
      BY <1>5, <1>6, <2>3
    <2> QED
      BY <2>1, <2>2, <2>3
  <1>10. SumsGrow'
    BY <1>5, <1>8, <1>9 DEF SumsGrow
  <1>11. BodiesAreTold'
    <2>1. \A i \in Exceeding : i \in Exceeding'
      BY <1>2, <1>5 DEF Exceeding
    <2>2. ASSUME body' # body PROVE n + 1 \in Exceeding'
      <3>1. Exhausted(u, metered[u.resource] + AmountOf(pending', u.resource),
                      meteredCost + CostOf(pending'))
        BY <1>2, <2>2
      <3>2. AmountOf(pending', u.resource) = e.amount[u.resource] /\ CostOf(pending') = e.cost
        BY <1>5 DEF AmountOf, CostOf
      <3> QED
        BY <1>2, <1>3, <1>5, <3>1, <3>2 DEF Exceeding
    <2>3. body' # "none" /\ (body' = "thrown" => body' # body \/ body = "thrown")
      BY <1>2
    <2>4. body' = "thrown" => Exceeding' # {}
      BY <1>1, <2>1, <2>2, <2>3 DEF BodiesAreTold
    <2> QED
      BY <1>1, <1>2, <2>3, <2>4 DEF BodiesAreTold
  <1>12. EndedIsOver' /\ OverIsSeen'
    BY <1>2 DEF BudgetInv, EndedIsOver, OverIsSeen, OverBudget
  <1> QED
    BY <1>7, <1>10, <1>11, <1>12 DEF BudgetInv

\* The end of a transaction that inserts q, or nothing.
LEMMA EndTypes ==
    ASSUME UsageTypeOK, EndBody, metering' \in {"live", "exhausted", "failed", "ended"},
           metered' \in [Resources -> Nat], meteredCost' \in Nat
    PROVE  UsageTypeOK' /\ SumsGrow' /\ BodiesAreTold'
  <1>1. body' = "none" /\ pending' = <<>> /\ UNCHANGED <<recorder, usages, unchecked>>
    BY DEF EndBody
  <1>2. pending' \in Seq(PendingUsage) /\ DOMAIN pending' = {}
    BY <1>1
  <1>3. UsageTypeOK'
    BY <1>1, <1>2 DEF UsageTypeOK, PendingUsage
  <1>4. SumsGrow' /\ BodiesAreTold'
    BY <1>1, <1>2 DEF SumsGrow, BodiesAreTold
  <1> QED
    BY <1>3, <1>4

LEMMA ExceedingIsOver ==
    ASSUME UsageTypeOK, SumsGrow, NEW i \in Exceeding, NEW q \in Seq(PendingUsage), Insert(q),
           CostOf(q) >= pending[i].cost, \A r \in Resources : AmountOf(q, r) >= pending[i].amount[r]
    PROVE  OverBudget'
  <1>1. PICK u \in Offers : u = pending[i].usage
    <2>1. pending \in Seq(PendingUsage) /\ i \in DOMAIN pending
      BY UsagesAreTyped DEF Exceeding
    <2>2. pending[i] \in PendingUsage
      BY <2>1
    <2> QED
      BY <2>2 DEF PendingUsage
  <1>2. Exhausted(u, metered[u.resource] + pending[i].amount[u.resource], meteredCost + pending[i].cost)
    BY <1>1 DEF Exceeding
  <1>3. /\ metered' \in [Resources -> Nat] /\ meteredCost' \in Nat
        /\ \A r \in Resources : metered'[r] = metered[r] + AmountOf(q, r)
        /\ meteredCost' = meteredCost + CostOf(q)
    BY Inserting
  <1>4. /\ i \in DOMAIN pending /\ pending[i].cost \in Nat
        /\ \A r \in Resources : pending[i].amount[r] \in Nat
    BY LastSums DEF Exceeding
  <1>5. CostOf(q) \in Nat /\ \A r \in Resources : AmountOf(q, r) \in Nat
    BY SumTypes
  <1>6. /\ meteredCost \in Nat /\ CostLimit \in Nat
        /\ \A r \in Resources : metered[r] \in Nat
        /\ \A r \in DOMAIN Limit : r \in Resources /\ Limit[r] \in Nat
    BY UsagesAreTyped
  <1>7. CASE meteredCost + pending[i].cost > CostLimit
    <2>1. meteredCost' > CostLimit
      BY <1>3, <1>4, <1>5, <1>6, <1>7
    <2> QED
      BY <2>1 DEF OverBudget
  <1>8. CASE u.resource \in DOMAIN Limit
             /\ metered[u.resource] + pending[i].amount[u.resource] > Limit[u.resource]
    <2>1. metered'[u.resource] > Limit[u.resource]
      BY <1>3, <1>4, <1>5, <1>6, <1>8, SMTT(30)
    <2> QED
      BY <1>8, <2>1 DEF OverBudget
  <1> QED
    BY <1>2, <1>7, <1>8 DEF Exhausted

LEMMA CommitKeepsBudget ==
    ASSUME BudgetInv, CommitBody
    PROVE  BudgetInv'
  <1>1. UsageTypeOK /\ SumsGrow /\ BodiesAreTold /\ OverIsSeen /\ EndedIsOver
    BY DEF BudgetInv
  <1>2. body # "none" /\ EndBody /\ metering = "live"
        /\ UNCHANGED <<recorder, usages, unchecked>>
    BY <1>1 DEF CommitBody, EndBody, BodiesAreTold
  <1>3. CASE Exceeding # {}
    <2>1. PICK i \in Exceeding : metering' = "exhausted" /\ Insert(SubSeq(pending, 1, i))
      BY <1>3 DEF CommitBody
    <2>2. PICK q : q = SubSeq(pending, 1, i)
      OBVIOUS
    <2>3. /\ q \in Seq(PendingUsage) /\ Len(q) = i /\ q # <<>> /\ q[Len(q)] = pending[i]
          /\ i \in DOMAIN pending
      <3>1. pending \in Seq(PendingUsage) /\ i \in 1..Len(pending)
        BY <1>1, UsagesAreTyped DEF Exceeding
      <3>2. q \in Seq(PendingUsage) /\ Len(q) = i /\ q[i] = pending[i]
        BY <2>2, <3>1
      <3> QED
        BY <3>1, <3>2
    <2>4. CostOf(q) = pending[i].cost /\ \A r \in Resources : AmountOf(q, r) = pending[i].amount[r]
      BY <2>3, SumTypes
    <2>5. pending[i].cost \in Nat /\ \A r \in Resources : pending[i].amount[r] \in Nat
      BY <1>1, <2>3, LastSums
    <2>6. Insert(q)
      BY <2>1, <2>2
    <2>7. OverBudget'
      <3>1. CostOf(q) >= pending[i].cost /\ \A r \in Resources : AmountOf(q, r) >= pending[i].amount[r]
        BY <2>4, <2>5
      <3> QED
        BY <1>1, <2>3, <2>6, <3>1, ExceedingIsOver
    <2>8. metered' \in [Resources -> Nat] /\ meteredCost' \in Nat
      BY <1>1, <2>3, <2>6, Inserting
    <2>9. UsageTypeOK' /\ SumsGrow' /\ BodiesAreTold'
      BY <1>1, <1>2, <2>1, <2>8, EndTypes
    <2>10. EndedIsOver' /\ OverIsSeen'
      BY <2>1, <2>7 DEF EndedIsOver, OverIsSeen
    <2> QED
      BY <2>9, <2>10 DEF BudgetInv
  <1>4. CASE Exceeding = {}
    <2>1. Insert(pending) /\ metering' = metering
      BY <1>4 DEF CommitBody
    <2>2. /\ metered' \in [Resources -> Nat] /\ meteredCost' \in Nat
          /\ \A r \in Resources : metered'[r] = metered[r] + AmountOf(pending, r)
          /\ meteredCost' = meteredCost + CostOf(pending)
      BY <1>1, <2>1, Inserting, UsagesAreTyped
    <2>3. /\ CostOf(pending) \in Nat /\ \A r \in Resources : AmountOf(pending, r) \in Nat
          /\ pending # <<>> =>
                /\ Len(pending) \in DOMAIN pending /\ CostOf(pending) = pending[Len(pending)].cost
                /\ \A r \in Resources : AmountOf(pending, r) = pending[Len(pending)].amount[r]
      BY <1>1, SumTypes, UsagesAreTyped
    <2>4. /\ meteredCost \in Nat /\ CostLimit \in Nat /\ \A r \in Resources : metered[r] \in Nat
          /\ \A r \in DOMAIN Limit : r \in Resources /\ Limit[r] \in Nat
      BY <1>1, UsagesAreTyped
    <2>5. UsageTypeOK' /\ SumsGrow' /\ BodiesAreTold'
      BY <1>1, <1>2, <2>1, <2>2, EndTypes
    <2>6. EndedIsOver'
      <3>1. OverBudget => OverBudget'
        BY <1>1, <2>2, <2>3, <2>4, OverStaysOver
      <3> QED
        BY <1>1, <1>2, <2>1, <3>1 DEF EndedIsOver
    <2>7. ASSUME NEW r \in DOMAIN Limit, metered'[r] > Limit[r] PROVE metered[r] > Limit[r]
      <3>1. r \in Resources /\ metered'[r] = metered[r] + AmountOf(pending, r)
        BY <2>2, <2>4
      <3>2. CASE AmountOf(pending, r) > 0
        <4>1. PICK n \in DOMAIN pending : n = Len(pending)
                                          /\ pending[n].amount[r] = AmountOf(pending, r)
          BY <2>3, <3>1, <3>2 DEF AmountOf
        <4>2. PICK j \in 1..n : /\ pending[j].usage.resource = r
                                /\ pending[j].amount[r] = pending[n].amount[r]
          BY <1>1, <3>1, <3>2, <4>1 DEF SumsGrow
        <4>3. j \in DOMAIN pending
          BY <1>1, <4>1, <4>2, UsagesAreTyped
        <4>4. Exhausted(pending[j].usage, metered[r] + pending[j].amount[r],
                        meteredCost + pending[j].cost)
          BY <2>7, <3>1, <4>1, <4>2 DEF Exhausted
        <4>5. j \in Exceeding
          BY <4>2, <4>3, <4>4 DEF Exceeding
        <4> QED
          BY <1>4, <4>5
      <3>3. CASE AmountOf(pending, r) = 0
        BY <2>4, <2>7, <3>1, <3>3
      <3> QED
        BY <2>3, <3>1, <3>2, <3>3
    <2>8. ASSUME meteredCost' > CostLimit PROVE meteredCost > CostLimit
      <3>1. CASE pending = <<>>
        <4>1. CostOf(pending) = 0
          BY <3>1 DEF CostOf
        <4> QED
          BY <2>2, <2>4, <2>8, <4>1
      <3>2. CASE pending # <<>>
        <4>1. PICK n \in DOMAIN pending : pending[n].cost = CostOf(pending)
          BY <2>3, <3>2
        <4>2. Exhausted(pending[n].usage,
                        metered[pending[n].usage.resource] + pending[n].amount[pending[n].usage.resource],
                        meteredCost + pending[n].cost)
          BY <2>2, <2>8, <4>1 DEF Exhausted
        <4>3. n \in Exceeding
          BY <4>1, <4>2 DEF Exceeding
        <4> QED
          BY <1>4, <4>3
      <3> QED
        BY <3>1, <3>2
    <2>9. OverIsSeen'
      BY <1>1, <1>2, <2>1, <2>7, <2>8 DEF OverIsSeen
    <2> QED
      BY <2>5, <2>6, <2>9 DEF BudgetInv
  <1> QED
    BY <1>3, <1>4

LEMMA CommitExhaustedKeepsBudget ==
    ASSUME BudgetInv, CommitExhausted
    PROVE  BudgetInv'
  <1>1. UsageTypeOK /\ SumsGrow /\ BodiesAreTold
    BY DEF BudgetInv
  <1>2. body = "thrown" /\ EndBody /\ metering' = "exhausted" /\ Insert(pending)
    BY DEF CommitExhausted
  <1>3. PICK i \in Exceeding : TRUE
    BY <1>1, <1>2 DEF BodiesAreTold
  <1>4. /\ pending \in Seq(PendingUsage) /\ i \in DOMAIN pending
        /\ pending[i].cost \in Nat /\ CostOf(pending) \in Nat /\ pending[i].cost <= CostOf(pending)
        /\ \A r \in Resources : /\ pending[i].amount[r] \in Nat /\ AmountOf(pending, r) \in Nat
                                /\ pending[i].amount[r] <= AmountOf(pending, r)
    BY <1>1, <1>3, UsagesAreTyped, LastSums, SumTypes DEF Exceeding
  <1>5. OverBudget'
    <2>1. CostOf(pending) >= pending[i].cost
          /\ \A r \in Resources : AmountOf(pending, r) >= pending[i].amount[r]
      BY <1>4
    <2> QED
      BY <1>1, <1>2, <1>3, <1>4, <2>1, ExceedingIsOver
  <1>6. metered' \in [Resources -> Nat] /\ meteredCost' \in Nat
    BY <1>1, <1>2, <1>4, Inserting
  <1>7. UsageTypeOK' /\ SumsGrow' /\ BodiesAreTold'
    BY <1>1, <1>2, <1>6, EndTypes
  <1>8. EndedIsOver' /\ OverIsSeen'
    BY <1>2, <1>5 DEF EndedIsOver, OverIsSeen
  <1> QED
    BY <1>7, <1>8 DEF BudgetInv

\* The body fails, or nothing is recorded at all.
LEMMA QuietKeepsBudget ==
    ASSUME BudgetInv, FailBody \/ BeginBody \/ RunEnds \/ Revive \/ UNCHANGED usageVars
    PROVE  BudgetInv'
  <1>1. UsageTypeOK /\ SumsGrow /\ BodiesAreTold /\ EndedIsOver /\ OverIsSeen
    BY DEF BudgetInv
  <1>2. UNCHANGED <<metered, meteredCost, recorder, unchecked>>
    BY DEF FailBody, EndBody, BeginBody, RunEnds, Revive, usageVars
  <1>3. /\ metering' = "exhausted" => metering = "exhausted"
        /\ metering' \in {"live", "failed"} => metering \in {"live", "failed"}
        /\ metering' \in {"live", "exhausted", "failed", "ended"}
    BY <1>1 DEF FailBody, EndBody, BeginBody, RunEnds, Revive, usageVars, BodiesAreTold, UsageTypeOK
  <1>4. EndedIsOver' /\ OverIsSeen'
    BY <1>1, <1>2, <1>3 DEF EndedIsOver, OverIsSeen, OverBudget
  <1>5. CASE FailBody
    BY <1>1, <1>2, <1>3, <1>4, <1>5, UsagesAreTyped, EndTypes DEF FailBody, BudgetInv
  <1>6. CASE BeginBody \/ RunEnds \/ Revive \/ UNCHANGED usageVars
    <2>1. UNCHANGED <<pending, usages>> /\ body' \in {body, "open"}
      BY <1>6 DEF BeginBody, RunEnds, Revive, usageVars
    <2>2. UsageTypeOK'
      BY <1>1, <1>2, <1>3, <2>1 DEF UsageTypeOK
    <2>3. SumsGrow'
      BY <1>1, <2>1 DEF SumsGrow
    <2>4. BodiesAreTold'
      BY <1>1, <1>2, <1>6, <2>1
      DEF BodiesAreTold, Exceeding, BeginBody, RunEnds, Revive, usageVars
    <2> QED
      BY <1>4, <2>2, <2>3, <2>4 DEF BudgetInv
  <1> QED
    BY <1>5, <1>6

LEMMA BudgetInitInv == UsageInit => BudgetInv
  <1> SUFFICES ASSUME UsageInit PROVE BudgetInv
    OBVIOUS
  <1>1. UsageTypeOK
    BY UsageAssumption DEF UsageInit, UsageTypeOK
  <1>2. SumsGrow /\ BodiesAreTold
    BY DEF UsageInit, SumsGrow, BodiesAreTold
  <1>3. EndedIsOver
    BY DEF UsageInit, EndedIsOver, NoCall
  <1>4. OverIsSeen
    BY <1>1, UsagesAreTyped DEF UsageInit, OverIsSeen
  <1> QED
    BY <1>1, <1>2, <1>3, <1>4 DEF BudgetInv

LEMMA BudgetInvariant == UsageSpec => []BudgetInv
  <1>1. BudgetInv /\ [UsageNext]_usageVars => BudgetInv'
    BY InsertKeepsBudget, TotalsKeepBudget, CallsEndKeepBudget, PendKeepsBudget, CommitKeepsBudget,
       CommitExhaustedKeepsBudget, QuietKeepsBudget
    DEF UsageNext
  <1> QED
    BY <1>1, BudgetInitInv, PTL DEF UsageSpec

\* src/lib/store/usage.ts, recordUsage: the totals are numbers, and the calls and the
\* pending usages are of the offers (UsageTypeOK).
THEOREM UsageTypes == UsageSpec => []UsageTypeOK
  <1>1. BudgetInv => UsageTypeOK
    BY DEF BudgetInv
  <1> QED
    BY <1>1, BudgetInvariant, PTL

\* src/lib/store/usage.ts and execution.ts: a run is ended for its budget only when its totals
\* exceed it, and a run whose totals exceed it goes on only while a call has still to look
\* at them, or after one was cut off (BudgetIsEnforced).
THEOREM BudgetsAreEnforced == UsageSpec => []BudgetIsEnforced
  <1>1. BudgetInv => BudgetIsEnforced
    <2> SUFFICES ASSUME BudgetInv PROVE BudgetIsEnforced
      OBVIOUS
    <2>1. UsageTypeOK /\ unchecked \in Nat
      BY UsagesAreTyped DEF BudgetInv
    <2>2. \A c \in Recorders : recorder[c].pc # "idle" => recorder[c] # NoCall
      BY DEF NoCall
    <2>3. ASSUME metering = "live", OverBudget, ~(unchecked > 0)
          PROVE  \E c \in Recorders : recorder[c].pc # "idle"
      BY <2>1, <2>3 DEF BudgetInv, OverIsSeen, OverBudget
    <2> QED
      BY <2>2, <2>3 DEF BudgetInv, EndedIsOver, BudgetIsEnforced
  <1> QED
    BY <1>1, BudgetInvariant, PTL

-----------------------------------------------------------------------------
(***************************************************************************)
(* RunTrees: for any finite number of runs, of requests and of crashes.    *)
(***************************************************************************)

LineageRow == [status : {"live", "failed", "ended"}, parent : RunIds \cup {NoRunId},
               supersededBy : RunIds \cup {NoRunId}]

\* Rows refer to rows that were inserted before, and so does the walk.
RefersToRows ==
    /\ \A r \in Rows : lineage[r].parent \in Rows \cup {NoRunId}
    /\ starting \subseteq Rows /\ stopped \subseteq Rows /\ excused \subseteq Rows
    /\ \A i \in DOMAIN walk : walk[i][2] \in Rows

TreesTypeInv == TreesTypeOK /\ RefersToRows

\* A child that will be canceled will have its own children listed right after.
CancelsAreFollowed ==
    \A i \in DOMAIN walk : walk[i][1] = "cancel" =>
        i + 1 \in DOMAIN walk /\ walk[i + 1] = <<"list", walk[i][2]>>


\* The tree of a row, as a function of the rows.
ClosedIn(l, S) == S \subseteq DOMAIN l /\ \A c \in DOMAIN l : l[c].parent \in S => c \in S
TreeIn(l, r) == {d \in DOMAIN l : \A S \in SUBSET (DOMAIN l) : ClosedIn(l, S) /\ r \in S => d \in S}

\* The walk will still come to d.
Ahead(l, w, d) ==
    \E i \in DOMAIN w : /\ d \in TreeIn(l, w[i][2])
                        /\ w[i][1] = "list" => d # w[i][2]
Excused(l, E, d) == \E e \in E : d \in TreeIn(l, e)

SettledIn(l, w, E, d) == l[d].status = "ended" \/ Excused(l, E, d) \/ Ahead(l, w, d)

\* Only the run that is being terminated waits for a walk.
Remaining(r) == IF r = root THEN walk ELSE <<>>

\* What is below a stopped run has ended, or its walk comes to it, or is excused.
StoppedSettle ==
    \A r \in stopped : \A d \in TreeIn(lineage, r) : SettledIn(lineage, Remaining(r), excused, d)

TreesInv == TreesTypeInv /\ CancelsAreFollowed /\ StoppedSettle

-----------------------------------------------------------------------------
(* Trees.                                                                  *)

LEMMA TreeOfRows == \A r : Tree(r) = TreeIn(lineage, r)
  BY DEF Tree, ClosedSets, TreeIn, ClosedIn, Rows

\* The tree of a row is the least set with the row that has the children of its members.
LEMMA TreeIsLeast ==
    ASSUME NEW l, NEW r \in DOMAIN l
    PROVE  /\ r \in TreeIn(l, r) /\ ClosedIn(l, TreeIn(l, r))
           /\ \A S : ClosedIn(l, S) /\ r \in S => TreeIn(l, r) \subseteq S
  <1>1. r \in TreeIn(l, r) /\ TreeIn(l, r) \subseteq DOMAIN l
    BY DEF TreeIn
  <1>2. ASSUME NEW c \in DOMAIN l, l[c].parent \in TreeIn(l, r)
        PROVE  c \in TreeIn(l, r)
    BY <1>2 DEF TreeIn, ClosedIn
  <1>3. \A S : ClosedIn(l, S) /\ r \in S => TreeIn(l, r) \subseteq S
    BY DEF TreeIn, ClosedIn
  <1> QED
    BY <1>1, <1>2, <1>3 DEF ClosedIn

LEMMA TreesNest ==
    ASSUME NEW l, NEW r \in DOMAIN l, NEW c \in TreeIn(l, r)
    PROVE  c \in DOMAIN l /\ TreeIn(l, c) \subseteq TreeIn(l, r)
  <1>1. c \in DOMAIN l
    BY DEF TreeIn
  <1> QED
    BY <1>1, TreeIsLeast

\* A run below r is a child of r or below one.
LEMMA TreeOfChildren ==
    ASSUME NEW l, NEW r \in DOMAIN l, NEW d \in TreeIn(l, r), d # r
    PROVE  \E k \in DOMAIN l : l[k].parent = r /\ d \in TreeIn(l, k)
  <1> DEFINE Kids == {k \in DOMAIN l : l[k].parent = r}
             S == {r} \cup {c \in DOMAIN l : \E k \in Kids : c \in TreeIn(l, k)}
  <1>1. ASSUME NEW c \in DOMAIN l, l[c].parent \in S
        PROVE  \E k \in Kids : c \in TreeIn(l, k)
    <2>1. CASE l[c].parent = r
      <3>1. c \in Kids /\ c \in TreeIn(l, c)
        BY <2>1, TreeIsLeast
      <3> QED
        BY <3>1
    <2>2. ASSUME NEW k \in Kids, l[c].parent \in TreeIn(l, k)
          PROVE  c \in TreeIn(l, k)
      BY <2>2, TreeIsLeast DEF ClosedIn
    <2> QED
      BY <1>1, <2>1, <2>2
  <1>2. ClosedIn(l, S)
    BY <1>1 DEF ClosedIn
  <1>3. TreeIn(l, r) \subseteq S
    BY <1>2, TreeIsLeast
  <1> QED
    BY <1>3

LEMMA SameTrees ==
    ASSUME NEW l, NEW m, DOMAIN m = DOMAIN l, \A r \in DOMAIN l : m[r].parent = l[r].parent
    PROVE  \A r : TreeIn(m, r) = TreeIn(l, r)
  BY DEF TreeIn, ClosedIn

\* A row that is added belongs to the trees of its parent, and no other row changes trees.
LEMMA TreesGrow ==
    ASSUME NEW l, NEW m, NEW n, n \notin DOMAIN l, DOMAIN m = DOMAIN l \cup {n},
           \A r \in DOMAIN l : m[r].parent = l[r].parent /\ l[r].parent # n,
           NEW r \in DOMAIN l
    PROVE  /\ TreeIn(l, r) \subseteq TreeIn(m, r)
           /\ TreeIn(m, r) \subseteq TreeIn(l, r) \cup {n}
           /\ n \in TreeIn(m, r) /\ m[n].parent # n => m[n].parent \in TreeIn(l, r)
           /\ m[n].parent \in TreeIn(l, r) => n \in TreeIn(m, r)
  <1>1. r \in DOMAIN m /\ r # n
    OBVIOUS
  <1>2. TreeIn(l, r) \subseteq TreeIn(m, r)
    <2>1. ClosedIn(l, TreeIn(m, r) \cap DOMAIN l)
      BY <1>1, TreeIsLeast DEF ClosedIn
    <2>2. r \in TreeIn(m, r) \cap DOMAIN l
      BY <1>1, TreeIsLeast
    <2> QED
      BY <2>1, <2>2, TreeIsLeast
  <1>3. r \in TreeIn(l, r) /\ ClosedIn(l, TreeIn(l, r))
    BY TreeIsLeast
  <1>4. TreeIn(m, r) \subseteq TreeIn(l, r) \cup {n}
    <2>1. ClosedIn(m, TreeIn(l, r) \cup {n})
      BY <1>3 DEF ClosedIn
    <2> QED
      BY <1>1, <1>3, <2>1, TreeIsLeast
  <1>5. ASSUME m[n].parent \notin TreeIn(l, r), m[n].parent # n PROVE n \notin TreeIn(m, r)
    <2>1. ClosedIn(m, TreeIn(l, r))
      BY <1>3, <1>5 DEF ClosedIn
    <2>2. TreeIn(m, r) \subseteq TreeIn(l, r)
      BY <1>1, <1>3, <2>1, TreeIsLeast
    <2> QED
      BY <2>2 DEF TreeIn
  <1>6. m[n].parent \in TreeIn(l, r) => n \in TreeIn(m, r)
    <2>1. ClosedIn(m, TreeIn(m, r)) /\ n \in DOMAIN m
      BY <1>1, TreeIsLeast
    <2> QED
      BY <1>2, <2>1 DEF ClosedIn
  <1> QED
    BY <1>2, <1>4, <1>5, <1>6

LEMMA SettledStays ==
    ASSUME NEW l, NEW m, NEW w, NEW E, NEW d \in DOMAIN l, DOMAIN m = DOMAIN l,
           \A r \in DOMAIN l : m[r].parent = l[r].parent,
           l[d].status = "ended" => m[d].status = "ended",
           SettledIn(l, w, E, d)
    PROVE  SettledIn(m, w, E, d)
  <1>1. \A r : TreeIn(m, r) = TreeIn(l, r)
    BY SameTrees
  <1> QED
    BY <1>1 DEF SettledIn, Excused, Ahead

LEMMA SettledGrows ==
    ASSUME NEW l, NEW m, NEW w, NEW E, NEW F,
           NEW n, n \notin DOMAIN l, DOMAIN m = DOMAIN l \cup {n},
           \A r \in DOMAIN l : m[r].parent = l[r].parent /\ l[r].parent # n,
           E \subseteq F, E \subseteq DOMAIN l, \A i \in DOMAIN w : w[i][2] \in DOMAIN l,
           NEW d \in DOMAIN l, l[d].status = "ended" => m[d].status = "ended",
           SettledIn(l, w, E, d)
    PROVE  SettledIn(m, w, F, d)
  <1>1. \A r \in DOMAIN l : TreeIn(l, r) \subseteq TreeIn(m, r)
    BY TreesGrow
  <1> QED
    BY <1>1 DEF SettledIn, Excused, Ahead

LEMMA SettledAtNew ==
    ASSUME NEW l, NEW m, NEW w, NEW E, NEW F,
           NEW n, n \notin DOMAIN l, DOMAIN m = DOMAIN l \cup {n},
           \A r \in DOMAIN l : m[r].parent = l[r].parent /\ l[r].parent # n,
           E \subseteq F, E \subseteq DOMAIN l, \A i \in DOMAIN w : w[i][2] \in DOMAIN l,
           m[n].parent \in DOMAIN l, l[m[n].parent].status = "ended" => n \in F,
           SettledIn(l, w, E, m[n].parent)
    PROVE  SettledIn(m, w, F, n)
  <1> DEFINE d == m[n].parent
  <1>1. \A r \in DOMAIN l : /\ TreeIn(l, r) \subseteq TreeIn(m, r)
                            /\ m[n].parent \in TreeIn(l, r) => n \in TreeIn(m, r)
    BY TreesGrow
  <1>2. n \in TreeIn(m, n)
    BY TreeIsLeast
  <1>3. CASE l[d].status = "ended"
    BY <1>2, <1>3 DEF SettledIn, Excused
  <1>4. CASE Excused(l, E, d)
    BY <1>1, <1>4 DEF SettledIn, Excused
  <1>5. CASE Ahead(l, w, d)
    <2>1. PICK i \in DOMAIN w : d \in TreeIn(l, w[i][2])
      BY <1>5 DEF Ahead
    <2>2. n \in TreeIn(m, w[i][2]) /\ n # w[i][2]
      BY <1>1, <2>1
    <2> QED
      BY <2>2 DEF SettledIn, Ahead
  <1> QED
    BY <1>3, <1>4, <1>5 DEF SettledIn

-----------------------------------------------------------------------------
(* Type correctness.                                                       *)

LEMMA TreesAreTyped ==
    ASSUME TreesTypeInv
    PROVE  /\ lineage \in Seq(LineageRow) /\ walk \in Seq({"cancel", "list"} \X RunIds)
           /\ Rows = 1..Len(lineage) /\ Rows \subseteq RunIds
           /\ RunIds \subseteq Nat /\ NoRunId = 0 /\ 0 \notin RunIds
           /\ MaxRequests \in Nat /\ MaxTreeEvents \in Nat
           /\ requests \in Nat /\ treeEvents \in Nat
  <1>1. Cardinality(RunIds) \in Nat
    BY TreesAssumption, FS_CardinalityType
  <1>2. RunIds \subseteq Nat /\ NoRunId = 0 /\ 0 \notin RunIds
    BY <1>1, TreesAssumption
  <1> QED
    BY <1>2, TreesAssumption DEF TreesTypeInv, TreesTypeOK, LineageRow, Rows

\* A cancellation changes no parent and revives nobody.
LEMMA HardCancels ==
    ASSUME TreesTypeInv, NEW S
    PROVE  /\ HardCancel(S) \in Seq(LineageRow) /\ Len(HardCancel(S)) = Len(lineage)
           /\ DOMAIN HardCancel(S) = Rows
           /\ \A r \in Rows : /\ HardCancel(S)[r].parent = lineage[r].parent
                              /\ lineage[r].status = "ended" => HardCancel(S)[r].status = "ended"
                              /\ r \in S => HardCancel(S)[r].status = "ended"
  <1>1. lineage \in Seq(LineageRow) /\ Rows = 1..Len(lineage) /\ Len(lineage) \in Nat
    BY TreesAreTyped
  <1>2. ASSUME NEW r \in Rows
        PROVE  /\ HardCancel(S)[r] \in LineageRow
               /\ HardCancel(S)[r].parent = lineage[r].parent
               /\ lineage[r].status = "ended" => HardCancel(S)[r].status = "ended"
               /\ r \in S => HardCancel(S)[r].status = "ended"
    <2>1. lineage[r] \in LineageRow
      BY <1>1
    <2> QED
      BY <2>1 DEF HardCancel, LineageRow
  <1>3. DOMAIN HardCancel(S) = 1..Len(lineage)
    BY <1>1 DEF HardCancel
  <1>4. HardCancel(S) = [r \in 1..Len(lineage) |-> HardCancel(S)[r]]
    BY <1>1 DEF HardCancel
  <1>5. HardCancel(S) \in Seq(LineageRow) /\ Len(HardCancel(S)) = Len(lineage)
    BY <1>1, <1>2, <1>3, <1>4
  <1> QED
    BY <1>1, <1>2, <1>3, <1>5

\* Rows are added at the end.
LEMMA RowIsAdded ==
    ASSUME TreesTypeInv, NextId \in RunIds, NEW p \in Rows \cup {NoRunId}, NEW l \in Seq(LineageRow),
           Len(l) = Len(lineage), \A r \in Rows : l[r].parent = lineage[r].parent,
           lineage' = Append(l, NewRow(p))
    PROVE  /\ lineage' \in Seq(LineageRow) /\ Rows' \subseteq RunIds
           /\ Rows' = Rows \cup {NextId} /\ NextId \notin Rows
           /\ \A r \in Rows : lineage'[r] = l[r] /\ lineage'[r].parent = lineage[r].parent
           /\ lineage'[NextId] = NewRow(p) /\ lineage'[NextId].parent = p
           /\ \A r \in Rows' : lineage'[r].parent \in Rows \cup {NoRunId}
  <1>1. /\ Rows = 1..Len(lineage) /\ Len(lineage) \in Nat /\ Rows \subseteq RunIds
        /\ lineage \in Seq(LineageRow)
    BY TreesAreTyped
  <1>2. NewRow(p) \in LineageRow /\ NewRow(p).parent = p
    BY <1>1 DEF NewRow, LineageRow
  <1>3. /\ lineage' \in Seq(LineageRow) /\ DOMAIN lineage' = 1..NextId
        /\ lineage'[NextId] = NewRow(p) /\ \A r \in Rows : lineage'[r] = l[r]
    BY <1>1, <1>2 DEF NextId
  <1>4. Rows' = Rows \cup {NextId} /\ NextId \notin Rows
    BY <1>1, <1>3 DEF Rows, NextId
  <1>5. \A r \in Rows : lineage[r].parent \in Rows \cup {NoRunId}
    BY DEF TreesTypeInv, RefersToRows
  <1> QED
    BY <1>1, <1>2, <1>3, <1>4, <1>5

-----------------------------------------------------------------------------
(* The invariant is inductive.                                             *)

LEMMA RunIsARow ==
    ASSUME TreesTypeInv, NEW r \in Rows
    PROVE  /\ lineage[r] \in LineageRow /\ r \in RunIds /\ r \in DOMAIN lineage
           /\ \A d \in TreeIn(lineage, r) : d \in Rows
  BY TreesAreTyped DEF TreeIn, Rows

\* The rows stay the same rows with the same parents.
LEMMA RewriteKeepsInv ==
    ASSUME TreesInv, lineage' \in Seq(LineageRow), Rows' = Rows,
           \A r \in Rows : /\ lineage'[r].parent = lineage[r].parent
                           /\ lineage[r].status = "ended" => lineage'[r].status = "ended",
           UNCHANGED <<root, walk, stopped, excused>>, starting' \subseteq Rows,
           requests' \in 0..MaxRequests, treeEvents' \in 0..MaxTreeEvents
    PROVE  TreesInv'
  <1>1. TreesTypeInv'
    <2>1. RefersToRows'
      BY DEF TreesInv, TreesTypeInv, RefersToRows
    <2>2. Rows \subseteq RunIds
      BY TreesAreTyped DEF TreesInv
    <2> QED
      BY <2>1, <2>2 DEF TreesInv, TreesTypeInv, TreesTypeOK, LineageRow
  <1>2. CancelsAreFollowed'
    BY DEF TreesInv, CancelsAreFollowed
  <1>3. \A r : TreeIn(lineage', r) = TreeIn(lineage, r)
    BY SameTrees DEF Rows
  <1>4. ASSUME NEW r \in stopped, NEW d \in TreeIn(lineage, r)
        PROVE  SettledIn(lineage', Remaining(r), excused, d)
    <2>1. SettledIn(lineage, Remaining(r), excused, d) /\ d \in Rows
      BY DEF TreesInv, StoppedSettle, TreeIn, Rows
    <2> QED
      BY <2>1, SettledStays DEF Rows
  <1> QED
    BY <1>1, <1>2, <1>3, <1>4 DEF TreesInv, StoppedSettle, Remaining

\* A row is added, after rows may have been canceled.
LEMMA AddKeepsInv ==
    ASSUME TreesInv, NextId \in RunIds, NEW p \in Rows \cup {NoRunId}, NEW l \in Seq(LineageRow),
           Len(l) = Len(lineage), \A r \in Rows : l[r].parent = lineage[r].parent,
           lineage' = Append(l, NewRow(p)), UNCHANGED <<root, walk>>,
           p \in Rows /\ l[p].status = "ended" => NextId \in excused',
           excused \subseteq excused', excused' \subseteq excused \cup {NextId},
           starting' \subseteq Rows, stopped' \subseteq Rows,
           \A r \in stopped' : \A d \in TreeIn(lineage, r) : SettledIn(l, Remaining(r), excused, d),
           requests' \in 0..MaxRequests, treeEvents' \in 0..MaxTreeEvents
    PROVE  TreesInv'
  <1> DEFINE n == NextId
  <1>1. TreesTypeInv /\ RefersToRows
    BY DEF TreesInv, TreesTypeInv
  <1>2. /\ lineage' \in Seq(LineageRow) /\ Rows' \subseteq RunIds
        /\ Rows' = Rows \cup {n} /\ n \notin Rows
        /\ \A r \in Rows : lineage'[r] = l[r] /\ lineage'[r].parent = lineage[r].parent
        /\ lineage'[n].parent = p
        /\ \A r \in Rows' : lineage'[r].parent \in Rows \cup {NoRunId}
    BY <1>1, RowIsAdded
  <1> HIDE DEF n
  <1>3. TreesTypeInv'
    <2>1. RefersToRows'
      BY <1>1, <1>2 DEF RefersToRows, n
    <2>2. TreesTypeOK'
      BY <1>1, <1>2, <2>1 DEF RefersToRows, TreesTypeInv, TreesTypeOK, LineageRow
    <2> QED
      BY <2>1, <2>2 DEF TreesTypeInv
  <1>4. CancelsAreFollowed'
    BY DEF TreesInv, CancelsAreFollowed
  <1>5. DOMAIN l = Rows /\ DOMAIN lineage = Rows /\ DOMAIN lineage' = Rows \cup {n}
        /\ n # NoRunId
    BY <1>1, <1>2, TreesAreTyped DEF Rows
  <1>6. \A r : TreeIn(l, r) = TreeIn(lineage, r)
    BY <1>5, SameTrees
  <1>7. \A r \in Rows : lineage'[r].parent = l[r].parent /\ l[r].parent # n
    BY <1>1, <1>2, <1>5 DEF RefersToRows
  <1>9. /\ n \notin DOMAIN l /\ DOMAIN lineage' = DOMAIN l \cup {n}
        /\ \A r \in DOMAIN l : lineage'[r].parent = l[r].parent /\ l[r].parent # n
    BY <1>2, <1>5, <1>7
  <1>8. ASSUME NEW r \in stopped', NEW d \in TreeIn(lineage', r)
        PROVE  SettledIn(lineage', Remaining(r), excused', d)
    <2> PICK w : w = Remaining(r)
      OBVIOUS
    <2>1. r \in Rows /\ excused \subseteq Rows /\ \A i \in DOMAIN w : w[i][2] \in Rows
      BY <1>1 DEF RefersToRows, Remaining
    <2>2. /\ TreeIn(lineage', r) \subseteq TreeIn(l, r) \cup {n}
          /\ n \in TreeIn(lineage', r) => p \in TreeIn(l, r)
      <3>1. p # n
        BY <1>2, <1>5
      <3>2. r \in DOMAIN l
        BY <1>5, <2>1
      <3>3. /\ TreeIn(lineage', r) \subseteq TreeIn(l, r) \cup {n}
            /\ n \in TreeIn(lineage', r) /\ lineage'[n].parent # n
                 => lineage'[n].parent \in TreeIn(l, r)
        <4>1. PICK m : m = lineage'
          OBVIOUS
        <4>2. /\ n \notin DOMAIN l /\ DOMAIN m = DOMAIN l \cup {n}
              /\ \A c \in DOMAIN l : m[c].parent = l[c].parent /\ l[c].parent # n
          BY <1>9, <4>1
        <4>3. TreeIn(m, r) \subseteq TreeIn(l, r) \cup {n}
          BY <3>2, <4>2, TreesGrow
        <4>4. n \in TreeIn(m, r) /\ m[n].parent # n => m[n].parent \in TreeIn(l, r)
          BY <3>2, <4>2, TreesGrow
        <4> QED
          BY <4>1, <4>3, <4>4
      <3> QED
        BY <1>2, <3>1, <3>3
    <2>3. CASE d \in TreeIn(l, r)
      <3>1. SettledIn(l, w, excused, d) /\ d \in DOMAIN l
        BY <1>6, <2>3 DEF TreeIn
      <3>2. l[d].status = "ended" => lineage'[d].status = "ended"
        BY <1>2, <1>5, <3>1
      <3>3. excused \subseteq DOMAIN l /\ \A i \in DOMAIN w : w[i][2] \in DOMAIN l
        BY <1>5, <2>1
      <3>4. PICK m : m = lineage'
        OBVIOUS
      <3>5. PICK F : F = excused'
        OBVIOUS
      <3>6. /\ DOMAIN m = DOMAIN l \cup {n}
            /\ \A c \in DOMAIN l : m[c].parent = l[c].parent /\ l[c].parent # n
            /\ excused \subseteq F /\ (l[d].status = "ended" => m[d].status = "ended")
        BY <1>9, <3>2, <3>4, <3>5
      <3>7. SettledIn(m, w, F, d)
        BY <1>9, <3>1, <3>3, <3>6, SettledGrows
      <3> QED
        BY <3>4, <3>5, <3>7
    <2>4. CASE d = n
      <3>1. p \in TreeIn(l, r)
        BY <2>2, <2>4
      <3>2. SettledIn(l, w, excused, p) /\ p \in DOMAIN l
        BY <1>6, <3>1 DEF TreeIn
      <3>3. l[p].status = "ended" => n \in excused'
        BY <1>5, <3>2 DEF n
      <3>4. excused \subseteq DOMAIN l /\ \A i \in DOMAIN w : w[i][2] \in DOMAIN l
        BY <1>5, <2>1
      <3>5. PICK m : m = lineage'
        OBVIOUS
      <3>6. PICK F : F = excused'
        OBVIOUS
      <3>7. /\ n \notin DOMAIN l /\ DOMAIN m = DOMAIN l \cup {n}
            /\ \A c \in DOMAIN l : m[c].parent = l[c].parent /\ l[c].parent # n
            /\ excused \subseteq F
        BY <1>9, <3>5, <3>6
      <3>8. /\ m[n].parent \in DOMAIN l /\ SettledIn(l, w, excused, m[n].parent)
            /\ l[m[n].parent].status = "ended" => n \in F
        BY <1>2, <3>2, <3>3, <3>5, <3>6
      <3>9. SettledIn(m, w, F, n)
        BY <3>4, <3>7, <3>8, SettledAtNew
      <3> QED
        BY <2>4, <3>5, <3>6, <3>9
    <2> QED
      BY <2>2, <2>3, <2>4
  <1> QED
    BY <1>3, <1>4, <1>8 DEF TreesInv, StoppedSettle, Remaining

LEMMA RunsKeepInv ==
    ASSUME TreesInv, NEW r \in Rows, RunEndsIn(r) \/ BeginChild(r) \/ ReviveRun(r)
    PROVE  TreesInv'
  <1>1. TreesTypeInv /\ starting \subseteq Rows /\ lineage[r] \in LineageRow
        /\ lineage \in Seq(LineageRow) /\ Rows = 1..Len(lineage)
    BY TreesAreTyped, RunIsARow DEF TreesInv, TreesTypeInv, RefersToRows
  <1>2. requests' \in 0..MaxRequests /\ treeEvents' \in 0..MaxTreeEvents
    BY <1>1, TreesAreTyped DEF RunEndsIn, BeginChild, ReviveRun, Event, Request, TreesTypeInv, TreesTypeOK
  <1>3. UNCHANGED <<root, walk, stopped, excused>> /\ starting' \subseteq Rows
    BY <1>1 DEF RunEndsIn, BeginChild, ReviveRun
  <1>4. CASE BeginChild(r)
    BY <1>1, <1>2, <1>3, <1>4, RewriteKeepsInv DEF BeginChild, Rows
  <1>5. CASE RunEndsIn(r) \/ ReviveRun(r)
    <2>1. PICK s \in {"live", "failed", "ended"} : lineage' = [lineage EXCEPT ![r].status = s]
      BY <1>5 DEF RunEndsIn, ReviveRun
    <2>2. lineage[r].status # "ended"
      BY <1>5 DEF RunEndsIn, ReviveRun, Live
    <2>3. lineage' \in Seq(LineageRow) /\ Rows' = Rows
      BY <1>1, <2>1, SMTT(30) DEF Rows, LineageRow
    <2>4. \A d \in Rows : /\ lineage'[d].parent = lineage[d].parent
                          /\ lineage[d].status = "ended" => lineage'[d].status = "ended"
      <3>1. \A d \in Rows \ {r} : lineage'[d] = lineage[d]
        BY <1>1, <2>1
      <3>2. lineage'[r].parent = lineage[r].parent
        BY <1>1, <2>1 DEF LineageRow
      <3> QED
        BY <2>2, <3>1, <3>2
    <2> QED
      BY <1>2, <1>3, <2>3, <2>4, RewriteKeepsInv
  <1> QED
    BY <1>4, <1>5

LEMMA InsertChildKeepsInv ==
    ASSUME TreesInv, NEW r \in Rows, InsertChild(r)
    PROVE  TreesInv'
  <1>1. /\ TreesTypeInv /\ starting \subseteq Rows /\ stopped \subseteq Rows
        /\ lineage \in Seq(LineageRow)
    BY TreesAreTyped DEF TreesInv, TreesTypeInv, RefersToRows
  <1>2. /\ NextId \in RunIds /\ lineage' = Append(lineage, NewRow(r))
        /\ excused' = IF lineage[r].status = "ended" THEN excused \cup {NextId} ELSE excused
        /\ starting' \subseteq Rows /\ UNCHANGED <<root, walk, stopped, requests, treeEvents>>
    BY <1>1 DEF InsertChild
  <1>3. requests' \in 0..MaxRequests /\ treeEvents' \in 0..MaxTreeEvents
    BY <1>1, <1>2 DEF TreesTypeInv, TreesTypeOK
  <1>4. \A s \in stopped' : \A d \in TreeIn(lineage, s) : SettledIn(lineage, Remaining(s), excused, d)
    BY <1>2 DEF TreesInv, StoppedSettle
  <1>5. /\ lineage[r].status = "ended" => NextId \in excused'
        /\ excused \subseteq excused' /\ excused' \subseteq excused \cup {NextId}
    BY <1>2
  <1> QED
    BY <1>1, <1>2, <1>3, <1>4, <1>5, AddKeepsInv

LEMMA BranchKeepsInv ==
    ASSUME TreesInv, NEW r \in Rows, Rewind(r) \/ Fork(r)
    PROVE  TreesInv'
  <1>1. /\ TreesTypeInv /\ starting \subseteq Rows /\ stopped \subseteq Rows
        /\ lineage \in Seq(LineageRow) /\ Rows = 1..Len(lineage) /\ NoRunId \notin Rows
        /\ r \in RunIds
    BY TreesAreTyped, RunIsARow DEF TreesInv, TreesTypeInv, RefersToRows
  <1>2. NextId \in RunIds /\ UNCHANGED <<root, walk, starting, excused, treeEvents>>
    BY DEF Rewind, Fork
  <1>3. requests' \in 0..MaxRequests /\ treeEvents' \in 0..MaxTreeEvents
    BY <1>1, <1>2, TreesAreTyped, SMTT(30) DEF Rewind, Fork, Request, TreesTypeInv, TreesTypeOK
  <1>4. \A s \in stopped : \A d \in TreeIn(lineage, s) : SettledIn(lineage, Remaining(s), excused, d)
    BY DEF TreesInv, StoppedSettle
  <1>5. CASE Fork(r)
    <2>1. lineage' = Append(lineage, NewRow(NoRunId)) /\ stopped' = stopped
      BY <1>5 DEF Fork
    <2> QED
      BY <1>1, <1>2, <1>3, <1>4, <2>1, AddKeepsInv
  <1>6. CASE Rewind(r)
    <2>1. PICK c : /\ c = (IF Live(r) THEN HardCancel(Tree(r)) ELSE lineage)
                   /\ lineage' = Append([c EXCEPT ![r].supersededBy = NextId], NewRow(NoRunId))
      BY <1>6 DEF Rewind, CanceledWith
    <2>2. /\ c \in Seq(LineageRow) /\ Len(c) = Len(lineage)
          /\ \A d \in Rows : /\ c[d].parent = lineage[d].parent
                             /\ lineage[d].status = "ended" => c[d].status = "ended"
                             /\ Live(r) /\ d \in Tree(r) => c[d].status = "ended"
      BY <1>1, <2>1, HardCancels
    <2>3. PICK l : l = [c EXCEPT ![r].supersededBy = NextId]
      OBVIOUS
    <2>4. /\ l \in Seq(LineageRow) /\ Len(l) = Len(lineage)
          /\ \A d \in Rows : l[d].parent = c[d].parent /\ l[d].status = c[d].status
      <3>1. \A d \in Rows : c[d] \in LineageRow
        BY <1>1, <2>2
      <3>2. \A d \in Rows \ {r} : l[d] = c[d]
        BY <1>1, <2>2, <2>3
      <3>3. l[r] = [c[r] EXCEPT !.supersededBy = NextId]
        BY <1>1, <2>2, <2>3
      <3>4. l[r] \in LineageRow /\ l[r].parent = c[r].parent /\ l[r].status = c[r].status
        BY <1>2, <3>1, <3>3 DEF LineageRow
      <3>5. DOMAIN l = Rows
        BY <1>1, <2>2, <2>3
      <3>6. l \in Seq(LineageRow) /\ Len(l) = Len(lineage)
        <4>1. \A d \in 1..Len(lineage) : l[d] \in LineageRow
          BY <1>1, <3>1, <3>2, <3>4
        <4>2. Len(lineage) \in Nat /\ DOMAIN c = 1..Len(lineage) /\ c = [d \in DOMAIN c |-> c[d]]
          BY <1>1, <2>2
        <4>3. DOMAIN l = 1..Len(lineage) /\ l = [d \in DOMAIN l |-> l[d]]
          BY <2>3, <4>2
        <4> QED
          BY <4>1, <4>2, <4>3
      <3> QED
        BY <3>2, <3>4, <3>6
    <2>5. DOMAIN l = Rows /\ DOMAIN lineage = Rows
      BY <1>1, <2>4 DEF Rows
    <2>6. stopped' = IF Live(r) THEN stopped \cup {r} ELSE stopped
      BY <1>6 DEF Rewind
    <2>7. ASSUME NEW s \in stopped', NEW d \in TreeIn(lineage, s)
          PROVE  SettledIn(l, Remaining(s), excused, d)
      <3>1. d \in Rows
        BY <2>5 DEF TreeIn
      <3>2. CASE s \in stopped
        <4>1. SettledIn(lineage, Remaining(s), excused, d)
          BY <1>4, <3>2
        <4>2. lineage[d].status = "ended" => l[d].status = "ended"
          BY <2>2, <2>4, <3>1
        <4>3. \A e \in Rows : l[e].parent = lineage[e].parent
          BY <2>2, <2>4
        <4> QED
          BY <2>5, <3>1, <4>1, <4>2, <4>3, SettledStays
      <3>3. CASE Live(r) /\ s = r
        BY <2>2, <2>4, <3>1, <3>3, TreeOfRows DEF SettledIn
      <3> QED
        BY <2>6, <3>2, <3>3
    <2>8. stopped' \subseteq Rows
      BY <1>1, <2>6
    <2>9. lineage' = Append(l, NewRow(NoRunId)) /\ \A d \in Rows : l[d].parent = lineage[d].parent
      BY <2>1, <2>2, <2>3, <2>4
    <2> QED
      BY <1>1, <1>2, <1>3, <2>4, <2>7, <2>8, <2>9, AddKeepsInv
  <1> QED
    BY <1>5, <1>6

-----------------------------------------------------------------------------
(* The walk of a termination.                                              *)

LEMMA BeginKeepsInv ==
    ASSUME TreesInv, NEW r \in Rows, BeginTermination(r)
    PROVE  TreesInv'
  <1>1. TreesTypeInv /\ RefersToRows /\ r \in RunIds
    BY RunIsARow DEF TreesInv, TreesTypeInv
  <1>2. /\ walk = <<>> /\ root' = r /\ walk' = <<<<"list", r>>>> /\ lineage' = HardCancel({r})
        /\ stopped' = stopped \cup {r} /\ UNCHANGED <<starting, excused, treeEvents>>
    BY DEF BeginTermination
  <1>3. /\ lineage' \in Seq(LineageRow) /\ DOMAIN lineage' = Rows
        /\ \A d \in Rows : /\ lineage'[d].parent = lineage[d].parent
                           /\ lineage[d].status = "ended" => lineage'[d].status = "ended"
                           /\ d \in {r} => lineage'[d].status = "ended"
    BY <1>1, <1>2, HardCancels
  <1>4. requests' \in 0..MaxRequests
    BY <1>1, TreesAreTyped DEF BeginTermination, Request, TreesTypeInv, TreesTypeOK
  <1>5. walk' \in Seq({"cancel", "list"} \X RunIds) /\ DOMAIN walk' = {1} /\ walk'[1] = <<"list", r>>
    BY <1>1, <1>2
  <1>6. TreesTypeInv'
    <2>1. RefersToRows'
      <3>1. Rows' = Rows /\ stopped' \subseteq Rows /\ \A i \in DOMAIN walk' : walk'[i][2] \in Rows
        <4>1. Rows' = Rows
          BY <1>3 DEF Rows
        <4>2. stopped' \subseteq Rows
          BY <1>1, <1>2 DEF RefersToRows
        <4> QED
          BY <1>5, <4>1, <4>2
      <3>2. \A d \in Rows : lineage'[d].parent \in Rows \cup {NoRunId}
        BY <1>1, <1>3 DEF RefersToRows
      <3> QED
        BY <1>1, <1>2, <3>1, <3>2 DEF RefersToRows
    <2>2. TreesTypeOK'
      BY <1>1, <1>2, <1>3, <1>4, <1>5 DEF TreesTypeInv, TreesTypeOK, LineageRow, Rows
    <2> QED
      BY <2>1, <2>2 DEF TreesTypeInv
  <1>7. CancelsAreFollowed'
    BY <1>5 DEF CancelsAreFollowed
  <1>8. \A s : TreeIn(lineage', s) = TreeIn(lineage, s)
    BY <1>3, SameTrees DEF Rows
  <1>9. ASSUME NEW s \in stopped', NEW d \in TreeIn(lineage, s)
        PROVE  SettledIn(lineage', Remaining(s)', excused, d)
    <2>1. d \in Rows /\ d \in DOMAIN lineage
      BY DEF TreeIn, Rows
    <2>2. CASE s \in stopped /\ s # r
      <3>1. Remaining(s) = <<>> /\ Remaining(s)' = <<>>
        BY <1>2, <2>2 DEF Remaining
      <3>2. SettledIn(lineage, <<>>, excused, d)
        BY <2>2, <3>1 DEF TreesInv, StoppedSettle
      <3>3. SettledIn(lineage', <<>>, excused, d)
        BY <1>3, <2>1, <3>2, SettledStays DEF Rows
      <3> QED
        BY <3>1, <3>3
    <2>3. CASE s = r
      <3>0. Remaining(s)' = walk'
        BY <1>2, <2>3 DEF Remaining
      <3>1. CASE d = r
        BY <1>3, <2>1, <3>1 DEF SettledIn
      <3>2. CASE d # r
        <4>1. d \in TreeIn(lineage', walk'[1][2]) /\ d # walk'[1][2] /\ 1 \in DOMAIN walk'
          BY <1>5, <1>8, <2>3, <3>2
        <4> QED
          BY <3>0, <4>1 DEF SettledIn, Ahead
      <3> QED
        BY <3>1, <3>2
    <2> QED
      BY <1>2, <2>2, <2>3
  <1> QED
    BY <1>2, <1>6, <1>7, <1>8, <1>9 DEF TreesInv, StoppedSettle

\* The head of the walk and the rest of it.
LEMMA WalkSplits ==
    ASSUME TreesInv, walk # <<>>
    PROVE  /\ DOMAIN walk = 1..Len(walk) /\ Len(walk) \in Nat \ {0} /\ Head(walk) = walk[1]
           /\ walk[1][1] \in {"cancel", "list"} /\ walk[1][2] \in Rows
           /\ Tail(walk) \in Seq({"cancel", "list"} \X RunIds)
           /\ DOMAIN Tail(walk) = 1..(Len(walk) - 1) /\ Len(Tail(walk)) = Len(walk) - 1
           /\ \A i \in 1..(Len(walk) - 1) : i + 1 \in DOMAIN walk /\ Tail(walk)[i] = walk[i + 1]
           /\ \A i \in DOMAIN walk : i # 1 =>
                 i - 1 \in DOMAIN Tail(walk) /\ Tail(walk)[i - 1] = walk[i]
           /\ \A i \in DOMAIN Tail(walk) : Tail(walk)[i][2] \in Rows
           /\ \A i \in DOMAIN Tail(walk) : Tail(walk)[i][1] = "cancel" =>
                 i + 1 \in DOMAIN Tail(walk) /\ Tail(walk)[i + 1] = <<"list", Tail(walk)[i][2]>>
  <1>1. walk \in Seq({"cancel", "list"} \X RunIds)
    BY TreesAreTyped DEF TreesInv
  <1>2. /\ DOMAIN walk = 1..Len(walk) /\ Len(walk) \in Nat \ {0} /\ Head(walk) = walk[1]
        /\ walk[1] \in {"cancel", "list"} \X RunIds
        /\ Tail(walk) \in Seq({"cancel", "list"} \X RunIds)
        /\ DOMAIN Tail(walk) = 1..(Len(walk) - 1) /\ Len(Tail(walk)) = Len(walk) - 1
        /\ \A i \in 1..(Len(walk) - 1) : i + 1 \in DOMAIN walk /\ Tail(walk)[i] = walk[i + 1]
    BY <1>1
  <1>3. \A i \in DOMAIN walk : i # 1 => /\ i - 1 \in 1..(Len(walk) - 1) /\ (i - 1) + 1 = i
    BY <1>2
  <1>4. \A i \in DOMAIN walk : walk[i][2] \in Rows
    BY DEF TreesInv, TreesTypeInv, RefersToRows
  <1>5. ASSUME NEW i \in DOMAIN Tail(walk), Tail(walk)[i][1] = "cancel"
        PROVE  i + 1 \in DOMAIN Tail(walk) /\ Tail(walk)[i + 1] = <<"list", Tail(walk)[i][2]>>
    <2>1. i + 1 \in DOMAIN walk /\ Tail(walk)[i] = walk[i + 1] /\ i \in 1..(Len(walk) - 1)
      BY <1>2
    <2>2. (i + 1) + 1 \in DOMAIN walk /\ walk[(i + 1) + 1] = <<"list", walk[i + 1][2]>>
      BY <1>5, <2>1 DEF TreesInv, CancelsAreFollowed
    <2>3. i + 1 \in 1..(Len(walk) - 1)
      BY <1>2, <2>1, <2>2
    <2> QED
      BY <1>2, <2>1, <2>2, <2>3
  <1> QED
    BY <1>2, <1>3, <1>4, <1>5

LEMMA CancelKeepsInv ==
    ASSUME TreesInv, CancelChild
    PROVE  TreesInv'
  <1> DEFINE c == walk[1][2]
  <1>1. TreesTypeInv /\ RefersToRows
    BY DEF TreesInv, TreesTypeInv
  <1>2. /\ walk # <<>> /\ walk[1][1] = "cancel" /\ walk' = Tail(walk)
        /\ lineage' = HardCancel({c}) /\ UNCHANGED <<starting, root, stopped, excused, requests, treeEvents>>
    BY WalkSplits DEF CancelChild
  <1>3. c \in Rows /\ 2 \in DOMAIN walk /\ walk[2] = <<"list", c>>
    <2>1. 1 \in DOMAIN walk /\ c \in Rows
      BY <1>2, WalkSplits
    <2>2. 1 + 1 \in DOMAIN walk /\ walk[1 + 1] = <<"list", c>>
      BY <1>2, <2>1 DEF TreesInv, CancelsAreFollowed
    <2> QED
      BY <2>1, <2>2
  <1>4. 1 \in DOMAIN walk' /\ walk'[1] = <<"list", c>>
    BY <1>2, <1>3, WalkSplits
  <1> HIDE DEF c
  <1>5. /\ lineage' \in Seq(LineageRow) /\ DOMAIN lineage' = Rows
        /\ \A d \in Rows : /\ lineage'[d].parent = lineage[d].parent
                           /\ lineage[d].status = "ended" => lineage'[d].status = "ended"
                           /\ d \in {c} => lineage'[d].status = "ended"
    BY <1>1, <1>2, HardCancels
  <1>6. TreesTypeInv'
    <2>1. RefersToRows'
      BY <1>1, <1>2, <1>5, WalkSplits DEF RefersToRows, Rows
    <2>2. walk' \in Seq({"cancel", "list"} \X RunIds)
      BY <1>2, WalkSplits
    <2>3. TreesTypeOK'
      BY <1>1, <1>2, <1>5, <2>2 DEF TreesTypeInv, TreesTypeOK, LineageRow, Rows
    <2> QED
      BY <2>1, <2>3 DEF TreesTypeInv
  <1>7. CancelsAreFollowed'
    BY <1>2, WalkSplits DEF CancelsAreFollowed
  <1>8. \A s : TreeIn(lineage', s) = TreeIn(lineage, s)
    BY <1>5, SameTrees DEF Rows
  <1>9. ASSUME NEW s \in stopped, NEW d \in TreeIn(lineage, s)
        PROVE  SettledIn(lineage', Remaining(s)', excused, d)
    <2>1. d \in Rows /\ d \in DOMAIN lineage /\ SettledIn(lineage, Remaining(s), excused, d)
      BY DEF TreeIn, Rows, TreesInv, StoppedSettle
    <2>5. CASE s # root
      <3>1. Remaining(s) = <<>> /\ Remaining(s)' = <<>>
        BY <1>2, <2>5 DEF Remaining
      <3>2. SettledIn(lineage', <<>>, excused, d)
        BY <1>5, <2>1, <3>1, SettledStays DEF Rows
      <3> QED
        BY <3>1, <3>2
    <2>2. CASE d = c
      BY <1>5, <2>1, <2>2 DEF SettledIn
    <2>3. ASSUME d # c, Ahead(lineage, walk, d) PROVE Ahead(lineage', walk', d)
      <3>1. PICK i \in DOMAIN walk : /\ d \in TreeIn(lineage, walk[i][2])
                                     /\ walk[i][1] = "list" => d # walk[i][2]
        BY <2>3 DEF Ahead
      <3>2. CASE i = 1
        <4>1. d \in TreeIn(lineage', walk'[1][2]) /\ d # walk'[1][2]
          BY <1>4, <1>8, <2>3, <3>1, <3>2 DEF c
        <4> QED
          BY <1>4, <4>1 DEF Ahead
      <3>3. CASE i # 1
        <4>1. i - 1 \in DOMAIN walk' /\ walk'[i - 1] = walk[i]
          BY <1>2, <3>3, WalkSplits
        <4> QED
          BY <1>8, <3>1, <4>1 DEF Ahead
      <3> QED
        BY <3>2, <3>3
    <2>4. CASE s = root /\ d # c
      <3>0. Remaining(s) = walk /\ Remaining(s)' = walk'
        BY <1>2, <2>4 DEF Remaining
      <3>1. lineage[d].status = "ended" => lineage'[d].status = "ended"
        BY <1>5, <2>1
      <3>2. Excused(lineage, excused, d) => Excused(lineage', excused, d)
        BY <1>8 DEF Excused
      <3> QED
        BY <2>1, <2>3, <2>4, <3>0, <3>1, <3>2 DEF SettledIn
    <2> QED
      BY <2>2, <2>4, <2>5
  <1> QED
    BY <1>2, <1>6, <1>7, <1>8, <1>9 DEF TreesInv, StoppedSettle

LEMMA BreakKeepsInv ==
    ASSUME TreesInv, WalkBreaks
    PROVE  TreesInv'
  <1>1. TreesTypeInv /\ RefersToRows
    BY DEF TreesInv, TreesTypeInv
  <1>2. /\ root' = NoRunId /\ walk' = <<>> /\ stopped' = stopped \ {root}
        /\ UNCHANGED <<lineage, starting, excused, requests>>
    BY DEF WalkBreaks
  <1>3. treeEvents' \in 0..MaxTreeEvents
    BY <1>1, TreesAreTyped DEF WalkBreaks, Event, TreesTypeInv, TreesTypeOK
  <1>4. RefersToRows'
    BY <1>1, <1>2 DEF RefersToRows, Rows
  <1>5. TreesTypeOK'
    BY <1>1, <1>2, <1>3 DEF TreesTypeInv, TreesTypeOK, Rows
  <1>6. \A s \in stopped' : Remaining(s) = <<>> /\ Remaining(s)' = <<>>
    BY <1>2 DEF Remaining
  <1> QED
    BY <1>2, <1>4, <1>5, <1>6 DEF TreesInv, TreesTypeInv, CancelsAreFollowed, StoppedSettle

\* Half of the visits are cancellations, each followed by the listing of the same run.
LEMMA Halving ==
    /\ \A j \in Nat \ {0} : /\ (2 * j - 1) % 2 = 1 /\ ((2 * j - 1) + 1) \div 2 = j
                            /\ (2 * j) % 2 = 0 /\ (2 * j + 1) \div 2 = j
    /\ \A i \in Nat \ {0} : /\ (i + 1) \div 2 \in Nat \ {0}
                            /\ i % 2 = 1 => i = 2 * ((i + 1) \div 2) - 1
                            /\ i % 2 # 1 => i = 2 * ((i + 1) \div 2)
  OBVIOUS

LEMMA VisitsAlternate ==
    ASSUME NEW n \in Nat, NEW S \in SUBSET RunIds, NEW q \in [1..n -> S]
    PROVE  /\ Visits(q) \in Seq({"cancel", "list"} \X RunIds)
           /\ DOMAIN Visits(q) = 1..(2 * n) /\ Len(Visits(q)) = 2 * n
           /\ \A j \in 1..n : /\ 2 * j - 1 \in 1..(2 * n) /\ 2 * j \in 1..(2 * n)
                              /\ Visits(q)[2 * j - 1] = <<"cancel", q[j]>>
                              /\ Visits(q)[2 * j] = <<"list", q[j]>>
           /\ \A i \in 1..(2 * n) : /\ Visits(q)[i][2] \in S
                                    /\ Visits(q)[i][1] = "cancel" =>
                                         /\ i + 1 \in 1..(2 * n)
                                         /\ Visits(q)[i + 1] = <<"list", Visits(q)[i][2]>>
  <1>1. Len(q) = n /\ q \in Seq(S)
    OBVIOUS
  <1>2. Visits(q) = [i \in 1..(2 * n) |-> <<IF i % 2 = 1 THEN "cancel" ELSE "list", q[(i + 1) \div 2]>>]
    BY <1>1 DEF Visits
  <1>3. ASSUME NEW j \in 1..n
        PROVE  /\ 2 * j - 1 \in 1..(2 * n) /\ 2 * j \in 1..(2 * n)
               /\ Visits(q)[2 * j - 1] = <<"cancel", q[j]>>
               /\ Visits(q)[2 * j] = <<"list", q[j]>>
    <2>1. 2 * j - 1 \in 1..(2 * n) /\ 2 * j \in 1..(2 * n) /\ j \in Nat \ {0}
      OBVIOUS
    <2>2. /\ (2 * j - 1) % 2 = 1 /\ ((2 * j - 1) + 1) \div 2 = j
          /\ (2 * j) % 2 = 0 /\ (2 * j + 1) \div 2 = j
      BY <2>1, Halving
    <2> QED
      BY <1>2, <2>1, <2>2
  <1>4. ASSUME NEW i \in 1..(2 * n)
        PROVE  \E j \in 1..n : i = 2 * j - 1 \/ i = 2 * j
    <2>1. PICK j : j = (i + 1) \div 2
      OBVIOUS
    <2>2. j \in Nat \ {0} /\ (i = 2 * j - 1 \/ i = 2 * j)
      BY <2>1, Halving
    <2> QED
      BY <2>2
  <1>5. ASSUME NEW i \in 1..(2 * n)
        PROVE  /\ Visits(q)[i] \in {"cancel", "list"} \X S
               /\ Visits(q)[i][2] \in S
               /\ Visits(q)[i][1] = "cancel" => /\ i + 1 \in 1..(2 * n)
                                                /\ Visits(q)[i + 1] = <<"list", Visits(q)[i][2]>>
    <2>1. PICK j \in 1..n : i = 2 * j - 1 \/ i = 2 * j
      BY <1>4
    <2>2. q[j] \in S
      OBVIOUS
    <2>3. CASE i = 2 * j - 1
      <3>1. i + 1 = 2 * j
        BY <2>3
      <3>2. Visits(q)[i] = <<"cancel", q[j]>>
        BY <1>3, <2>3
      <3>3. i + 1 \in 1..(2 * n) /\ Visits(q)[i + 1] = <<"list", q[j]>>
        BY <1>3, <3>1
      <3> QED
        BY <2>2, <3>2, <3>3
    <2>4. CASE i = 2 * j
      <3>1. Visits(q)[i] = <<"list", q[j]>>
        BY <1>3, <2>4
      <3> QED
        BY <2>2, <3>1
    <2> QED
      BY <2>1, <2>3, <2>4
  <1>6. Visits(q) \in Seq({"cancel", "list"} \X RunIds)
    <2>1. 2 * n \in Nat /\ \A i \in 1..(2 * n) : Visits(q)[i] \in {"cancel", "list"} \X RunIds
      BY <1>5
    <2>2. Visits(q) = [i \in 1..(2 * n) |-> Visits(q)[i]]
      BY <1>2
    <2> QED
      BY <2>1, <2>2
  <1>7. DOMAIN Visits(q) = 1..(2 * n) /\ 2 * n \in Nat
    BY <1>2
  <1>8. Len(Visits(q)) = 2 * n
    BY <1>6, <1>7
  <1> QED
    BY <1>3, <1>5, <1>6, <1>7, <1>8

\* The listing of c is replaced by the visits of its children, which come to all below it.
LEMMA ListKeepsInv ==
    ASSUME TreesInv, ListChildren
    PROVE  TreesInv'
  <1>1. TreesTypeInv /\ RefersToRows
    BY DEF TreesInv, TreesTypeInv
  <1>2. walk # <<>> /\ UNCHANGED <<lineage, starting, stopped, excused, requests, treeEvents>>
        /\ root' = IF walk' = <<>> THEN NoRunId ELSE root
    BY DEF ListChildren
  <1>3. PICK c \in Rows : c = walk[1][2] /\ walk[1][1] = "list"
    BY <1>2, WalkSplits DEF ListChildren
  <1> DEFINE Kids == Children(c)
  <1>4. PICK q \in InCreationOrder(Kids) : walk' = Visits(q) \o Tail(walk)
    BY <1>2, <1>3, WalkSplits DEF ListChildren
  <1>5. PICK n \in Nat : n = Cardinality(Kids)
    <2>1. Kids \subseteq RunIds
      BY <1>1, TreesAreTyped DEF Children
    <2> QED
      BY <2>1, TreesAssumption, FS_Subset, FS_CardinalityType
  <1>6. /\ q \in [1..n -> Kids] /\ \A k \in Kids : \E j \in 1..n : q[j] = k
        /\ Kids \subseteq Rows /\ \A k \in Rows : lineage[k].parent = c => k \in Kids
    BY <1>4, <1>5 DEF InCreationOrder, Children
  <1>7. Kids \in SUBSET RunIds
    BY <1>1, <1>6, TreesAreTyped
  <1> HIDE DEF Kids
  <1>8. PICK V : V = Visits(q)
    OBVIOUS
  <1>9. /\ V \in Seq({"cancel", "list"} \X RunIds) /\ Len(V) = 2 * n /\ DOMAIN V = 1..(2 * n)
        /\ \A j \in 1..n : 2 * j - 1 \in 1..(2 * n) /\ V[2 * j - 1] = <<"cancel", q[j]>>
        /\ \A i \in 1..(2 * n) : /\ V[i][2] \in Kids
                                 /\ V[i][1] = "cancel" => /\ i + 1 \in 1..(2 * n)
                                                          /\ V[i + 1] = <<"list", V[i][2]>>
    <2>1. n \in Nat /\ Kids \in SUBSET RunIds /\ q \in [1..n -> Kids]
      BY <1>6, <1>7
    <2>2. /\ Visits(q) \in Seq({"cancel", "list"} \X RunIds) /\ Len(Visits(q)) = 2 * n
          /\ DOMAIN Visits(q) = 1..(2 * n)
          /\ \A j \in 1..n : /\ 2 * j - 1 \in 1..(2 * n)
                             /\ Visits(q)[2 * j - 1] = <<"cancel", q[j]>>
          /\ \A i \in 1..(2 * n) : /\ Visits(q)[i][2] \in Kids
                                   /\ Visits(q)[i][1] = "cancel" =>
                                        /\ i + 1 \in 1..(2 * n)
                                        /\ Visits(q)[i + 1] = <<"list", Visits(q)[i][2]>>
      BY <2>1, VisitsAlternate
    <2> QED
      BY <1>8, <2>2
  <1>10. PICK t \in Seq({"cancel", "list"} \X RunIds), m \in Nat :
            /\ t = Tail(walk) /\ Len(t) = m /\ DOMAIN t = 1..m
            /\ \A i \in DOMAIN walk : i # 1 => i - 1 \in 1..m /\ t[i - 1] = walk[i]
            /\ \A i \in 1..m : t[i][2] \in Rows
            /\ \A i \in 1..m : t[i][1] = "cancel" => i + 1 \in 1..m /\ t[i + 1] = <<"list", t[i][2]>>
    <2>1. PICK m \in Nat : m = Len(walk) - 1
      <3>1. Len(walk) \in Nat \ {0}
        BY <1>2, WalkSplits
      <3> QED
        BY <3>1
    <2>2. PICK t \in Seq({"cancel", "list"} \X RunIds) : t = Tail(walk)
      BY <1>2, WalkSplits
    <2>3. /\ Len(t) = m /\ DOMAIN t = 1..m
          /\ \A i \in DOMAIN walk : i # 1 => i - 1 \in 1..m /\ t[i - 1] = walk[i]
      BY <1>2, <2>1, <2>2, WalkSplits
    <2>4. \A i \in DOMAIN t : /\ t[i][2] \in Rows
                              /\ t[i][1] = "cancel" => i + 1 \in DOMAIN t /\ t[i + 1] = <<"list", t[i][2]>>
      BY <1>2, <2>2, WalkSplits
    <2>5. /\ \A i \in 1..m : t[i][2] \in Rows
          /\ \A i \in 1..m : t[i][1] = "cancel" => i + 1 \in 1..m /\ t[i + 1] = <<"list", t[i][2]>>
      BY <2>3, <2>4
    <2> QED
      BY <2>2, <2>3, <2>5, Zenon
  <1>11. /\ walk' \in Seq({"cancel", "list"} \X RunIds) /\ DOMAIN walk' = 1..(2 * n + m)
         /\ \A i \in 1..(2 * n) : i \in 1..(2 * n + m) /\ walk'[i] = V[i]
         /\ \A i \in 1..m : i + 2 * n \in 1..(2 * n + m) /\ walk'[i + 2 * n] = t[i]
    <2>1. walk' = V \o t /\ 2 * n \in Nat
      BY <1>4, <1>8, <1>10
    <2>2. walk' \in Seq({"cancel", "list"} \X RunIds) /\ Len(walk') = 2 * n + m
      BY <1>9, <1>10, <2>1, ConcatProperties
    <2>3. DOMAIN walk' = 1..(2 * n + m)
      BY <2>2
    <2>4. \A i \in 1..(2 * n) : i \in 1..(2 * n + m) /\ walk'[i] = V[i]
      BY <1>9, <1>10, <2>1
    <2>5. \A i \in 1..m : i + 2 * n \in 1..(2 * n + m) /\ walk'[i + 2 * n] = t[i]
      BY <1>9, <1>10, <2>1
    <2> QED
      BY <2>2, <2>3, <2>4, <2>5
  <1>12. ASSUME NEW i \in 1..(2 * n + m)
         PROVE  i \in 1..(2 * n) \/ \E j \in 1..m : i = j + 2 * n
    <2>1. CASE i > 2 * n
      <3>1. i - 2 * n \in 1..m /\ i = (i - 2 * n) + 2 * n
        BY <2>1
      <3> QED
        BY <3>1
    <2> QED
      BY <2>1
  <1>13. ASSUME NEW i \in 1..(2 * n + m)
         PROVE  /\ walk'[i][2] \in Rows
                /\ walk'[i][1] = "cancel" => /\ i + 1 \in 1..(2 * n + m)
                                             /\ walk'[i + 1] = <<"list", walk'[i][2]>>
    <2>1. CASE i \in 1..(2 * n)
      <3>1. walk'[i] = V[i] /\ V[i][2] \in Rows
        BY <1>6, <1>9, <1>11, <2>1
      <3>2. ASSUME V[i][1] = "cancel"
            PROVE  i + 1 \in 1..(2 * n + m) /\ walk'[i + 1] = <<"list", V[i][2]>>
        <4>1. i + 1 \in 1..(2 * n) /\ V[i + 1] = <<"list", V[i][2]>>
          BY <1>9, <2>1, <3>2
        <4> QED
          BY <1>11, <4>1
      <3> QED
        BY <3>1, <3>2
    <2>2. ASSUME NEW j \in 1..m, i = j + 2 * n
          PROVE  /\ walk'[i][2] \in Rows
                 /\ walk'[i][1] = "cancel" => /\ i + 1 \in 1..(2 * n + m)
                                              /\ walk'[i + 1] = <<"list", walk'[i][2]>>
      <3>1. walk'[i] = t[j] /\ t[j][2] \in Rows
        BY <1>10, <1>11, <2>2
      <3>2. ASSUME t[j][1] = "cancel"
            PROVE  i + 1 \in 1..(2 * n + m) /\ walk'[i + 1] = <<"list", t[j][2]>>
        <4>1. j + 1 \in 1..m /\ t[j + 1] = <<"list", t[j][2]>>
          BY <1>10, <3>2
        <4>2. i + 1 = (j + 1) + 2 * n
          BY <2>2
        <4>3. (j + 1) + 2 * n \in 1..(2 * n + m) /\ walk'[(j + 1) + 2 * n] = t[j + 1]
          BY <1>11, <4>1
        <4> QED
          BY <4>1, <4>2, <4>3
      <3> QED
        BY <3>1, <3>2
    <2> QED
      BY <1>12, <2>1, <2>2
  <1>14. TreesTypeInv'
    <2>1. RefersToRows'
      BY <1>1, <1>2, <1>11, <1>13 DEF RefersToRows, Rows
    <2>2. TreesTypeOK'
      BY <1>1, <1>2, <1>11 DEF TreesTypeInv, TreesTypeOK, Rows
    <2> QED
      BY <2>1, <2>2 DEF TreesTypeInv
  <1>15. CancelsAreFollowed'
    BY <1>11, <1>13 DEF CancelsAreFollowed
  <1>16. ASSUME NEW d, Ahead(lineage, walk, d) PROVE Ahead(lineage, walk', d)
    <2>1. PICK i \in DOMAIN walk : /\ d \in TreeIn(lineage, walk[i][2])
                                   /\ walk[i][1] = "list" => d # walk[i][2]
      BY <1>16 DEF Ahead
    <2>2. CASE i = 1
      <3>1. d \in TreeIn(lineage, c) /\ d # c
        BY <1>3, <2>1, <2>2
      <3>2. PICK k \in Rows : lineage[k].parent = c /\ d \in TreeIn(lineage, k)
        BY <3>1, TreeOfChildren DEF Rows
      <3>3. PICK j \in 1..n : q[j] = k
        BY <1>6, <3>2
      <3>4. 2 * j - 1 \in 1..(2 * n) /\ V[2 * j - 1] = <<"cancel", k>>
        BY <1>9, <3>3
      <3>5. 2 * j - 1 \in DOMAIN walk' /\ walk'[2 * j - 1] = <<"cancel", k>>
        BY <1>11, <3>4
      <3>6. walk'[2 * j - 1][1] = "cancel" /\ walk'[2 * j - 1][2] = k
        BY <3>5
      <3>7. d \in TreeIn(lineage, walk'[2 * j - 1][2]) /\ walk'[2 * j - 1][1] # "list"
        BY <3>2, <3>6
      <3> QED
        BY <3>5, <3>7 DEF Ahead
    <2>3. CASE i # 1
      <3>1. i - 1 \in 1..m /\ t[i - 1] = walk[i]
        BY <1>10, <2>3
      <3>2. (i - 1) + 2 * n \in DOMAIN walk' /\ walk'[(i - 1) + 2 * n] = walk[i]
        BY <1>11, <3>1
      <3> QED
        BY <2>1, <3>2 DEF Ahead
    <2> QED
      BY <2>2, <2>3
  <1>17. StoppedSettle'
    <2>1. ASSUME NEW s \in stopped, NEW d \in TreeIn(lineage, s)
          PROVE  SettledIn(lineage, Remaining(s)', excused, d)
      <3>1. SettledIn(lineage, Remaining(s), excused, d)
        BY DEF TreesInv, StoppedSettle
      <3>2. CASE s = root
        <4>1. Remaining(s) = walk /\ Remaining(s)' = walk'
          BY <1>2, <3>2 DEF Remaining
        <4> QED
          BY <1>16, <3>1, <4>1 DEF SettledIn
      <3>3. CASE s # root
        <4>1. Remaining(s) = <<>>
          BY <3>3 DEF Remaining
        <4>2. ~Ahead(lineage, <<>>, d)
          BY DEF Ahead
        <4> QED
          BY <3>1, <4>1, <4>2 DEF SettledIn
      <3> QED
        BY <3>2, <3>3
    <2> QED
      BY <1>2, <2>1 DEF StoppedSettle
  <1> QED
    BY <1>14, <1>15, <1>17 DEF TreesInv

-----------------------------------------------------------------------------
(* The theorems.                                                           *)

LEMMA TreesInitInv == TreesInit => TreesInv
  <1> SUFFICES ASSUME TreesInit PROVE TreesInv
    OBVIOUS
  <1>1. lineage = <<NewRow(NoRunId)>> /\ root = NoRunId /\ walk = <<>>
        /\ stopped = {} /\ excused = {} /\ starting = {}
        /\ requests = 0 /\ treeEvents = 0
    BY DEF TreesInit
  <1>2. NewRow(NoRunId) \in LineageRow /\ NewRow(NoRunId).parent = NoRunId
    BY DEF NewRow, LineageRow
  <1>3. lineage \in Seq(LineageRow) /\ Rows = {1} /\ lineage[1].parent = NoRunId
    BY <1>1, <1>2 DEF Rows
  <1>4. 1 \in RunIds /\ MaxRequests \in Nat /\ MaxTreeEvents \in Nat
    BY TreesAssumption, FS_CardinalityType
  <1>5. RefersToRows
    BY <1>1, <1>3 DEF RefersToRows
  <1>6. TreesTypeOK
    BY <1>1, <1>3, <1>4 DEF TreesTypeOK, LineageRow
  <1>7. CancelsAreFollowed /\ StoppedSettle
    BY <1>1 DEF CancelsAreFollowed, StoppedSettle
  <1> QED
    BY <1>5, <1>6, <1>7 DEF TreesInv, TreesTypeInv

LEMMA TreesStepInv == TreesInv /\ [TreesNext]_treesVars => TreesInv'
  <1>1. ASSUME TreesInv, UNCHANGED treesVars PROVE TreesInv'
    <2>1. TreesTypeInv /\ lineage \in Seq(LineageRow) /\ starting \subseteq Rows
      BY <1>1, TreesAreTyped DEF TreesInv, TreesTypeInv, RefersToRows
    <2>2. requests \in 0..MaxRequests /\ treeEvents \in 0..MaxTreeEvents
      BY <2>1 DEF TreesTypeInv, TreesTypeOK
    <2>3. UNCHANGED <<lineage, root, walk, stopped, excused, starting, requests, treeEvents>> /\ Rows' = Rows
      BY <1>1 DEF treesVars, Rows
    <2> QED
      BY <1>1, <2>1, <2>2, <2>3, RewriteKeepsInv
  <1> QED
    BY <1>1, RunsKeepInv, InsertChildKeepsInv, BranchKeepsInv, BeginKeepsInv, ListKeepsInv,
       CancelKeepsInv, BreakKeepsInv
    DEF TreesNext

LEMMA TreesInvariant == TreesSpec => []TreesInv
  BY TreesInitInv, TreesStepInv, PTL DEF TreesSpec

\* workflow_runs and the walk of propagateCancellation keep their types (TreesTypeOK), which
\* needs that rows refer to rows.
THEOREM TreeTypes == TreesSpec => []TreesTypeOK
  <1>1. TreesInv => TreesTypeOK
    BY DEF TreesInv, TreesTypeInv
  <1> QED
    BY <1>1, TreesInvariant, PTL

\* src/lib/store/runs.ts, cancelTree, and src/routes/workflows/helpers.ts,
\* propagateCancellation: however deep a tree is and wherever its workers are, when the walk is
\* through, no run of it is live but those inserted below a run that had ended, and what
\* came of them; and no retry brings one back.
THEOREM StoppedTreesStayDown == TreesSpec => []StoppedTreesRest
  <1>1. TreesInv => StoppedTreesRest
    <2> SUFFICES ASSUME TreesInv, NEW r \in Rows, r \in stopped, r # root,
                        NEW d \in Tree(r), Live(d)
                 PROVE  \E e \in excused : d \in Tree(e)
      BY DEF StoppedTreesRest
    <2>1. SettledIn(lineage, <<>>, excused, d)
      BY TreeOfRows DEF TreesInv, StoppedSettle, Remaining
    <2>2. ~Ahead(lineage, <<>>, d) /\ lineage[d].status # "ended"
      BY DEF Ahead, Live
    <2> QED
      BY <2>1, <2>2, TreeOfRows DEF SettledIn, Excused
  <1> QED
    BY <1>1, TreesInvariant, PTL

-----------------------------------------------------------------------------
(***************************************************************************)
(* EventStream: for any finite number of transactions, and any number of   *)
(* broken connections.                                                     *)
(***************************************************************************)

WriterRecord == [state : {"idle", "begun", "inserted", "committed", "done", "aborted"},
                 at : Moments, id : Moments, seen : Moments]
StreamRecord == [open : BOOLEAN, listening : BOOLEAN, lastEventId : Moments,
                 sending : {"no", "reading", "writing"}, events : SUBSET Writers]

\* Each moment is the begin, the insert or the commit of one writer, and each writer
\* notifies once.
Begun == {w \in Writers : writer[w].state # "idle"}
Inserted == {w \in Writers : writer[w].state \notin {"idle", "begun"}}
Noticed == {w \in Inserted : w \in NotifiesInside \/ writer[w].state = "done"}

MomentsCount ==
    /\ stamp = Cardinality(Begun) + Cardinality(Inserted) + Cardinality(Visible)
    /\ notices <= Cardinality(Noticed)
    /\ \A w \in Writers : writer[w].state = "committed" => w \notin NotifiesInside

\* The connection knows the last event that the client has got.
LastIsKnown ==
    /\ stream.sending # "no" => stream.open
    /\ stream.open /\ received # <<>> => stream.lastEventId = writer[received[Len(received)]].id
    /\ stream.events \subseteq Visible

\* Over all its connections a client gets committed events only, in the order of their ids,
\* and so none twice.
EventsComeOnce ==
    /\ \A i \in DOMAIN received : received[i] \in Visible
    /\ \A i, j \in DOMAIN received : i < j => writer[received[i]].id < writer[received[j]].id

StreamInv == StreamTypeOK /\ MomentsCount /\ LastIsKnown /\ EventsComeOnce

-----------------------------------------------------------------------------

LEMMA WriterSetsAreFinite ==
    ASSUME NEW S \in SUBSET Writers
    PROVE  IsFiniteSet(S) /\ Cardinality(S) \in Nat /\ Cardinality(S) <= Cardinality(Writers)
<1>1. IsFiniteSet(Writers)
  BY StreamAssumption
<1>2. IsFiniteSet(S) /\ Cardinality(S) <= Cardinality(Writers)
  BY <1>1, FS_Subset
<1> QED
  BY <1>2, FS_CardinalityType

LEMMA WriterJoins ==
    ASSUME NEW S \in SUBSET Writers, NEW w \in Writers, w \notin S
    PROVE  Cardinality(S \cup {w}) = Cardinality(S) + 1
<1>1. IsFiniteSet(S)
  BY WriterSetsAreFinite
<1> QED
  BY <1>1, FS_AddElement

LEMMA StreamStarts == StreamInit => StreamInv
<1> SUFFICES ASSUME StreamInit PROVE StreamInv
  OBVIOUS
<1> USE DEF StreamInit
<1>1. Cardinality(Writers) \in Nat
  BY WriterSetsAreFinite
<1>2. Begun = {} /\ Inserted = {} /\ Visible = {} /\ Noticed = {}
  BY DEF Begun, Inserted, Visible, Noticed
<1>3. Cardinality({}) = 0
  BY FS_EmptySet
<1>4. 0 \in Moments
  BY <1>1 DEF Moments
<1>5. StreamTypeOK
  BY <1>1, <1>4, StreamAssumption DEF StreamTypeOK
<1>6. MomentsCount
  BY <1>2, <1>3 DEF MomentsCount
<1>7. LastIsKnown /\ EventsComeOnce
  BY DEF LastIsKnown, EventsComeOnce
<1> QED
  BY <1>5, <1>6, <1>7 DEF StreamInv

\* What is visible stays visible, with its id.
VisibleStays ==
    /\ Visible \subseteq Visible'
    /\ \A v \in Visible : writer'[v].id = writer[v].id

\* What a writer does leaves the connection alone.
LEMMA WritersKeepOrder ==
    ASSUME StreamTypeOK, LastIsKnown, EventsComeOnce, VisibleStays,
           UNCHANGED <<stream, received>>
    PROVE  LastIsKnown' /\ EventsComeOnce'
<1>1. received \in Seq(Writers)
  BY DEF StreamTypeOK
<1>2. \A i \in DOMAIN received : received[i] \in Visible /\ writer'[received[i]].id = writer[received[i]].id
  BY DEF EventsComeOnce, VisibleStays
<1>3. EventsComeOnce'
  <2>1. \A i \in DOMAIN received' : received'[i] \in Visible'
    BY <1>2 DEF VisibleStays
  <2>2. ASSUME NEW i \in DOMAIN received', NEW j \in DOMAIN received', i < j
        PROVE  writer'[received'[i]].id < writer'[received'[j]].id
    BY <2>2, <1>2 DEF EventsComeOnce
  <2> QED
    BY <2>1, <2>2 DEF EventsComeOnce
<1>4. LastIsKnown'
  <2>1. received # <<>> => Len(received) \in DOMAIN received
    BY <1>1
  <2>2. (stream.open /\ received # <<>>) => stream.lastEventId = writer'[received[Len(received)]].id
    BY <2>1, <1>2 DEF LastIsKnown
  <2>3. stream.events \subseteq Visible'
    BY DEF LastIsKnown, VisibleStays
  <2> QED
    BY <2>2, <2>3 DEF LastIsKnown
<1> QED
  BY <1>3, <1>4

LEMMA MomentsAreBounded ==
    ASSUME MomentsCount', stamp' \in Nat
    PROVE  stamp' \in Moments
<1>1. Begun' \in SUBSET Writers /\ Inserted' \in SUBSET Writers /\ Visible' \in SUBSET Writers
  BY DEF Begun, Inserted, Visible
<1>2. Cardinality(Writers) \in Nat
  BY WriterSetsAreFinite
<1>3. /\ Cardinality(Begun') \in Nat /\ Cardinality(Begun') <= Cardinality(Writers)
      /\ Cardinality(Inserted') \in Nat /\ Cardinality(Inserted') <= Cardinality(Writers)
      /\ Cardinality(Visible') \in Nat /\ Cardinality(Visible') <= Cardinality(Writers)
  BY <1>1, WriterSetsAreFinite
<1> QED
  BY <1>2, <1>3 DEF MomentsCount, Moments

LEMMA NoticesAreBounded ==
    ASSUME MomentsCount', notices' \in Nat
    PROVE  notices' \in 0..Cardinality(Writers)
<1>1. Noticed' \in SUBSET Writers
  BY DEF Noticed, Inserted
<1>2. Cardinality(Noticed') \in Nat /\ Cardinality(Noticed') <= Cardinality(Writers) /\ Cardinality(Writers) \in Nat
  BY <1>1, WriterSetsAreFinite
<1> QED
  BY <1>2 DEF MomentsCount

\* One writer's step, as its counts and its types see it.
LEMMA WritersCount ==
    ASSUME StreamInv, NEW w \in Writers,
           BeginWrite(w) \/ InsertEvent(w) \/ CommitEvent(w) \/ AbortWrite(w) \/ Notify(w)
    PROVE  MomentsCount' /\ VisibleStays /\ stamp' \in Nat /\ notices' \in Nat
<1> DEFINE B == Begun
           I == Inserted
           V == Visible
           N == Noticed
<1>1. writer \in [Writers -> WriterRecord]
  BY DEF StreamInv, StreamTypeOK, WriterRecord
<1>2. writer[w] \in WriterRecord
  BY <1>1
<1>3. B \in SUBSET Writers /\ I \in SUBSET Writers /\ V \in SUBSET Writers /\ N \in SUBSET Writers
  BY DEF Begun, Inserted, Visible, Noticed
<1>4. /\ Cardinality(B) \in Nat /\ Cardinality(I) \in Nat /\ Cardinality(V) \in Nat
      /\ Cardinality(N) \in Nat
  BY <1>3, WriterSetsAreFinite
<1>5. stamp \in Nat /\ notices \in Nat
  <2>1. Cardinality(Writers) \in Nat
    BY WriterSetsAreFinite
  <2> QED
    BY <2>1 DEF StreamInv, StreamTypeOK, Moments
<1>6. /\ stamp = Cardinality(B) + Cardinality(I) + Cardinality(V)
      /\ notices <= Cardinality(N)
      /\ \A v \in Writers : writer[v].state = "committed" => v \notin NotifiesInside
  BY DEF StreamInv, MomentsCount
<1>7. CASE BeginWrite(w)
  <2>1. /\ writer[w].state = "idle" /\ stamp' = stamp + 1 /\ notices' = notices
        /\ \A v \in Writers \ {w} : writer'[v] = writer[v]
        /\ writer'[w].state = "begun"
    BY <1>1, <1>2, <1>7 DEF BeginWrite, Stamp, WriterRecord
  <2>2. Begun' = B \cup {w} /\ w \notin B
    BY <2>1 DEF Begun
  <2>3. Inserted' = I /\ Visible' = V /\ Noticed' = N
    BY <2>1 DEF Inserted, Visible, Noticed
  <2>4. Cardinality(Begun') = Cardinality(B) + 1
    BY <2>2, <1>3, WriterJoins
  <2>5. VisibleStays
    BY <2>1, <2>3 DEF VisibleStays, Visible
  <2>6. \A v \in Writers : writer'[v].state = "committed" => v \notin NotifiesInside
    BY <2>1, <1>6
  <2> HIDE DEF B, I, V, N
  <2>7. /\ stamp' = Cardinality(Begun') + Cardinality(Inserted') + Cardinality(Visible')
        /\ notices' <= Cardinality(Noticed')
    BY <2>1, <2>3, <2>4, <1>4, <1>5, <1>6
  <2>8. MomentsCount'
    BY <2>6, <2>7 DEF MomentsCount
  <2> QED
    BY <2>1, <2>5, <2>8, <1>5
<1>8. CASE InsertEvent(w)
  <2>1. /\ writer[w].state = "begun" /\ stamp' = stamp + 1
        /\ notices' = IF w \in NotifiesInside THEN notices + 1 ELSE notices
        /\ \A v \in Writers \ {w} : writer'[v] = writer[v]
        /\ writer'[w].state = "inserted"
    BY <1>1, <1>2, <1>8 DEF InsertEvent, Stamp, WriterRecord
  <2>2. Inserted' = I \cup {w} /\ w \notin I /\ w \notin N
    BY <2>1 DEF Inserted, Noticed
  <2>3. Begun' = B /\ Visible' = V
    BY <2>1 DEF Begun, Visible
  <2>4. Cardinality(Inserted') = Cardinality(I) + 1
    BY <2>2, <1>3, WriterJoins
  <2>5. VisibleStays
    BY <2>1, <2>3 DEF VisibleStays, Visible
  <2>6. \A v \in Writers : writer'[v].state = "committed" => v \notin NotifiesInside
    BY <2>1, <1>6
  <2>7. Noticed' = IF w \in NotifiesInside THEN N \cup {w} ELSE N
    BY <2>1, <2>2 DEF Noticed, Inserted
  <2>8. Cardinality(N \cup {w}) = Cardinality(N) + 1
    BY <2>2, <1>3, WriterJoins
  <2> HIDE DEF B, I, V, N
  <2>9. /\ stamp' = Cardinality(Begun') + Cardinality(Inserted') + Cardinality(Visible')
        /\ notices' <= Cardinality(Noticed')
    BY <2>1, <2>3, <2>4, <2>7, <2>8, <1>4, <1>5, <1>6
  <2>10. MomentsCount'
    BY <2>6, <2>9 DEF MomentsCount
  <2> QED
    BY <2>1, <2>5, <2>10, <1>5
<1>9. CASE CommitEvent(w)
  <2>1. /\ writer[w].state = "inserted" /\ stamp' = stamp + 1 /\ notices' = notices
        /\ \A v \in Writers \ {w} : writer'[v] = writer[v]
        /\ writer'[w].state = IF w \in NotifiesInside THEN "done" ELSE "committed"
    BY <1>1, <1>2, <1>9 DEF CommitEvent, Stamp, WriterRecord
  <2>2. Visible' = V \cup {w} /\ w \notin V
    BY <2>1 DEF Visible
  <2>3. Begun' = B /\ Inserted' = I
    BY <2>1 DEF Begun, Inserted
  <2>4. Cardinality(Visible') = Cardinality(V) + 1
    BY <2>2, <1>3, WriterJoins
  <2>5. VisibleStays
    BY <2>1, <2>2 DEF VisibleStays, Visible
  <2>6. \A v \in Writers : writer'[v].state = "committed" => v \notin NotifiesInside
    BY <2>1, <1>6
  <2>7. Noticed' = N
    BY <2>1, <2>3 DEF Noticed, Inserted
  <2> HIDE DEF B, I, V, N
  <2>8. /\ stamp' = Cardinality(Begun') + Cardinality(Inserted') + Cardinality(Visible')
        /\ notices' <= Cardinality(Noticed')
    BY <2>1, <2>3, <2>4, <2>7, <1>4, <1>5, <1>6
  <2>9. MomentsCount'
    BY <2>6, <2>8 DEF MomentsCount
  <2> QED
    BY <2>1, <2>5, <2>9, <1>5
<1>10. CASE AbortWrite(w)
  <2>1. /\ writer[w].state = "inserted" /\ stamp' = stamp /\ notices' = notices
        /\ \A v \in Writers \ {w} : writer'[v] = writer[v]
        /\ writer'[w].state = "aborted"
    BY <1>1, <1>2, <1>10 DEF AbortWrite, WriterRecord
  <2>2. Begun' = B /\ Inserted' = I /\ Visible' = V
    BY <2>1 DEF Begun, Inserted, Visible
  <2>3. Noticed' = N
    BY <2>1, <2>2 DEF Noticed, Inserted
  <2>4. VisibleStays
    BY <2>1, <2>2 DEF VisibleStays, Visible
  <2>5. MomentsCount'
    BY <2>1, <2>2, <2>3, <1>6 DEF MomentsCount
  <2> QED
    BY <2>1, <2>4, <2>5, <1>5
<1>11. CASE Notify(w)
  <2>1. /\ writer[w].state = "committed" /\ stamp' = stamp /\ notices' \in {notices, notices + 1}
        /\ \A v \in Writers \ {w} : writer'[v] = writer[v]
        /\ writer'[w].state = "done" /\ writer'[w].id = writer[w].id
    BY <1>1, <1>2, <1>11 DEF Notify, WriterRecord
  <2>2. Begun' = B /\ Inserted' = I /\ Visible' = V
    BY <2>1 DEF Begun, Inserted, Visible
  <2>3. Noticed' = N \cup {w} /\ w \notin N
    BY <2>1, <2>2, <1>6 DEF Noticed, Inserted
  <2>4. VisibleStays
    BY <2>1, <2>2 DEF VisibleStays, Visible
  <2>5. Cardinality(Noticed') = Cardinality(N) + 1
    BY <2>3, <1>3, WriterJoins
  <2>6. \A v \in Writers : writer'[v].state = "committed" => v \notin NotifiesInside
    BY <2>1, <1>6
  <2> HIDE DEF B, I, V, N
  <2>7. /\ stamp' = Cardinality(Begun') + Cardinality(Inserted') + Cardinality(Visible')
        /\ notices' <= Cardinality(Noticed')
    BY <2>1, <2>2, <2>5, <1>4, <1>5, <1>6
  <2>8. MomentsCount'
    BY <2>6, <2>7 DEF MomentsCount
  <2> QED
    BY <2>1, <2>4, <2>8, <1>5
<1> QED
  BY <1>7, <1>8, <1>9, <1>10, <1>11

LEMMA WritersStep ==
    ASSUME StreamInv, NEW w \in Writers,
           BeginWrite(w) \/ InsertEvent(w) \/ CommitEvent(w) \/ AbortWrite(w) \/ Notify(w)
    PROVE  StreamInv'
<1>1. MomentsCount' /\ VisibleStays /\ stamp' \in Nat /\ notices' \in Nat
  BY WritersCount
<1>2. stamp' \in Moments
  BY <1>1, MomentsAreBounded
<1>3. notices' \in 0..Cardinality(Writers)
  BY <1>1, NoticesAreBounded
<1>4. UNCHANGED <<stream, received, streamFaults>>
  BY DEF BeginWrite, InsertEvent, CommitEvent, AbortWrite, Notify
<1>5. writer' \in [Writers -> WriterRecord]
  <2>1. writer \in [Writers -> WriterRecord]
    BY DEF StreamInv, StreamTypeOK, WriterRecord
  <2>2. writer[w] \in WriterRecord
    BY <2>1
  <2>3. CASE BeginWrite(w) \/ InsertEvent(w)
    BY <2>1, <2>2, <2>3, <1>2 DEF BeginWrite, InsertEvent, WriterRecord
  <2>4. CASE CommitEvent(w)
    BY <2>1, <2>2, <2>4, <1>2 DEF CommitEvent, WriterRecord
  <2>5. CASE AbortWrite(w) \/ Notify(w)
    BY <2>1, <2>2, <2>5 DEF AbortWrite, Notify, WriterRecord
  <2> QED
    BY <2>3, <2>4, <2>5
<1>6. StreamTypeOK'
  BY <1>2, <1>3, <1>4, <1>5 DEF StreamInv, StreamTypeOK, Moments, WriterRecord
<1>7. LastIsKnown' /\ EventsComeOnce'
  BY <1>1, <1>4, WritersKeepOrder DEF StreamInv
<1> QED
  BY <1>1, <1>6, <1>7 DEF StreamInv
-----------------------------------------------------------------------------
(* The connection.                                                         *)

\* The stream's record after a step that sets it whole.
LEMMA ConnectionStep ==
    ASSUME StreamInv, OpenStream \/ Notified \/ Polled \/ ReadEvents \/ StreamBreaks
    PROVE  StreamInv'
<1>1. /\ writer \in [Writers -> WriterRecord] /\ stream \in StreamRecord
      /\ received \in Seq(Writers) /\ notices \in 0..Cardinality(Writers)
      /\ stamp \in Moments /\ streamFaults \in 0..MaxStreamFaults
  BY DEF StreamInv, StreamTypeOK, WriterRecord, StreamRecord
<1>2. UNCHANGED <<stamp, writer, received>>
  BY DEF OpenStream, Notified, Polled, ReadEvents, StreamBreaks
<1>3. Begun' = Begun /\ Inserted' = Inserted /\ Visible' = Visible /\ Noticed' = Noticed
  BY <1>2 DEF Begun, Inserted, Visible, Noticed
<1>4. Cardinality(Writers) \in Nat /\ Cardinality(Noticed) \in Nat
  <2>1. Noticed \in SUBSET Writers
    BY DEF Noticed, Inserted
  <2> QED
    BY <2>1, WriterSetsAreFinite
<1>5. notices' \in 0..notices
  BY <1>1, <1>4 DEF OpenStream, Notified, Polled, ReadEvents, StreamBreaks
<1>6. streamFaults' \in 0..MaxStreamFaults
  BY <1>1, StreamAssumption DEF OpenStream, Notified, Polled, ReadEvents, StreamBreaks
<1>7. MomentsCount'
  <2>1. notices' <= Cardinality(Noticed)
    BY <1>1, <1>4, <1>5 DEF StreamInv, MomentsCount
  <2>2. stamp' = stamp
    BY <1>2
  <2>3. \A w \in Writers : writer'[w].state = "committed" => w \notin NotifiesInside
    BY <1>2 DEF StreamInv, MomentsCount
  <2>4. stamp = Cardinality(Begun) + Cardinality(Inserted) + Cardinality(Visible)
    BY DEF StreamInv, MomentsCount
  <2> QED
    BY <2>1, <2>2, <2>3, <2>4, <1>3 DEF MomentsCount
<1>8. EventsComeOnce'
  BY <1>2, <1>3 DEF StreamInv, EventsComeOnce
<1>9. Visible \subseteq Writers
  BY DEF Visible
<1>10. /\ stream.sending # "no" => stream.open
       /\ stream.open /\ received # <<>> => stream.lastEventId = writer[received[Len(received)]].id
       /\ stream.events \subseteq Visible
  BY DEF StreamInv, LastIsKnown
<1>11. stream' \in StreamRecord /\ LastIsKnown'
  <2>1. CASE OpenStream
    <3>1. PICK l \in BOOLEAN :
             stream' = [open |-> TRUE, listening |-> l, sending |-> "reading", events |-> {},
                        lastEventId |-> IF received = <<>> THEN 0 ELSE writer[received[Len(received)]].id]
      BY <2>1 DEF OpenStream
    <3>2. 0 \in Moments
      BY <1>4 DEF Moments
    <3>3. received # <<>> => received[Len(received)] \in Writers
      BY <1>1
    <3>4. received # <<>> => writer[received[Len(received)]].id \in Moments
      BY <1>1, <3>3 DEF WriterRecord
    <3>5. stream' \in StreamRecord
      BY <3>1, <3>2, <3>4 DEF StreamRecord
    <3>6. LastIsKnown'
      BY <3>1, <1>2 DEF LastIsKnown
    <3> QED
      BY <3>5, <3>6
  <2>2. CASE Notified \/ Polled
    <3>1. stream.open /\ (stream' = [stream EXCEPT !.sending = "reading"] \/ stream' = stream)
      BY <2>2 DEF Notified, Polled, Trigger
    <3>2. stream' \in StreamRecord
      BY <3>1, <1>1 DEF StreamRecord
    <3>3. /\ stream'.open = stream.open /\ stream'.events = stream.events
          /\ stream'.lastEventId = stream.lastEventId
      BY <3>1, <1>1 DEF StreamRecord
    <3>4. LastIsKnown'
      BY <3>1, <3>3, <1>2, <1>3, <1>10 DEF LastIsKnown
    <3> QED
      BY <3>2, <3>4
  <2>3. CASE ReadEvents
    <3>1. /\ stream.sending = "reading"
          /\ stream' = [stream EXCEPT !.sending = "writing", !.events = Visible]
      BY <2>3 DEF ReadEvents
    <3>2. stream' \in StreamRecord
      BY <3>1, <1>1, <1>9 DEF StreamRecord
    <3>3. /\ stream'.open = stream.open /\ stream'.events = Visible
          /\ stream'.lastEventId = stream.lastEventId
      BY <3>1, <1>1 DEF StreamRecord
    <3>4. LastIsKnown'
      BY <3>1, <3>3, <1>2, <1>3, <1>10 DEF LastIsKnown
    <3> QED
      BY <3>2, <3>4
  <2>4. CASE StreamBreaks
    <3>1. stream' = [stream EXCEPT !.open = FALSE, !.listening = FALSE,
                                   !.sending = "no", !.events = {}]
      BY <2>4 DEF StreamBreaks
    <3>2. stream' \in StreamRecord
      BY <3>1, <1>1 DEF StreamRecord
    <3>3. ~stream'.open /\ stream'.sending = "no" /\ stream'.events = {}
      BY <3>1, <1>1 DEF StreamRecord
    <3>4. LastIsKnown'
      BY <3>3 DEF LastIsKnown
    <3> QED
      BY <3>2, <3>4
  <2> QED
    BY <2>1, <2>2, <2>3, <2>4
<1>12. StreamTypeOK'
  BY <1>1, <1>2, <1>4, <1>5, <1>6, <1>11 DEF StreamTypeOK, WriterRecord, StreamRecord, Moments
<1> QED
  BY <1>7, <1>8, <1>11, <1>12 DEF StreamInv

\* What is sent is visible, comes after all that has been, and in the order of the ids.
LEMMA SendStep ==
    ASSUME StreamInv, SendEvents
    PROVE  StreamInv'
<1>1. /\ writer \in [Writers -> WriterRecord] /\ stream \in StreamRecord
      /\ received \in Seq(Writers)
  BY DEF StreamInv, StreamTypeOK, WriterRecord, StreamRecord
<1>2. UNCHANGED <<stamp, writer, notices, streamFaults>>
  BY DEF SendEvents
<1>3. Begun' = Begun /\ Inserted' = Inserted /\ Visible' = Visible /\ Noticed' = Noticed
  BY <1>2 DEF Begun, Inserted, Visible, Noticed
<1>4. PICK q \in InOrder(Sent) :
          /\ received' = received \o q
          /\ stream' = [stream EXCEPT !.sending = "no", !.events = {},
                           !.lastEventId = IF q = <<>> THEN @ ELSE writer[q[Len(q)]].id]
  BY DEF SendEvents
<1>5. /\ stream.open
      /\ (received # <<>>) => (stream.lastEventId = writer[received[Len(received)]].id)
      /\ stream.events \subseteq Visible
  BY DEF StreamInv, LastIsKnown, SendEvents
<1>6. Visible \subseteq Writers
  BY DEF Visible
<1>7. Sent \subseteq stream.events
  BY DEF Sent
<1>8. Cardinality(Sent) \in Nat
  <2>1. Sent \in SUBSET Writers
    BY <1>5, <1>6, <1>7
  <2> QED
    BY <2>1, WriterSetsAreFinite
<1>9. /\ q \in Seq(Sent) /\ Len(q) \in Nat /\ DOMAIN q = 1..Len(q)
      /\ \A i \in 1..Len(q) : q[i] \in Sent
      /\ \A i, j \in 1..Len(q) : i < j => writer[q[i]].at < writer[q[j]].at
  BY <1>4, <1>8 DEF InOrder
<1>10. \A i \in 1..Len(q) : q[i] \in stream.events /\ q[i] \in Visible /\ q[i] \in Writers
  BY <1>5, <1>6, <1>7, <1>9
<1>11. \A i, j \in 1..Len(q) : i < j => writer[q[i]].id < writer[q[j]].id
  BY <1>9, <1>10 DEF Sent
<1>12. \A i \in 1..Len(q) : writer[q[i]].id > stream.lastEventId
  BY <1>9 DEF Sent
<1>13. q \in Seq(Writers)
  BY <1>9, <1>10
<1>14. /\ received' \in Seq(Writers) /\ Len(received') = Len(received) + Len(q)
       /\ Len(received) \in Nat /\ DOMAIN received = 1..Len(received)
       /\ DOMAIN received' = 1..(Len(received) + Len(q))
       /\ \A i \in 1..Len(received) : received'[i] = received[i]
       /\ \A i \in Len(received) + 1..Len(received) + Len(q) : received'[i] = q[i - Len(received)]
  BY <1>1, <1>4, <1>13, ConcatProperties
<1>15. \A w \in Writers : writer[w].id \in Nat
  <2>1. Moments \subseteq Nat
    BY WriterSetsAreFinite DEF Moments
  <2>2. \A w \in Writers : writer[w] \in WriterRecord
    BY <1>1
  <2> QED
    BY <2>1, <2>2 DEF WriterRecord
<1>16. \A i \in 1..Len(received) : received[i] \in Writers /\ received[i] \in Visible
  BY <1>1, <1>14 DEF StreamInv, EventsComeOnce
<1>17. \A i \in 1..Len(received) : writer[received[i]].id <= writer[received[Len(received)]].id
  BY <1>1, <1>14, <1>15, <1>16, SMTT(30) DEF StreamInv, EventsComeOnce
<1>18. \A i \in 1..Len(received), j \in 1..Len(q) : writer[received[i]].id < writer[q[j]].id
  <2> SUFFICES ASSUME NEW i \in 1..Len(received), NEW j \in 1..Len(q)
               PROVE  writer[received[i]].id < writer[q[j]].id
    OBVIOUS
  <2>1. received # <<>> /\ Len(received) \in 1..Len(received)
    BY <1>14
  <2>2. /\ writer[received[i]].id \in Nat /\ writer[q[j]].id \in Nat
        /\ writer[received[Len(received)]].id \in Nat
    BY <2>1, <1>10, <1>15, <1>16
  <2>3. writer[q[j]].id > writer[received[Len(received)]].id
    BY <2>1, <1>5, <1>12
  <2>4. writer[received[i]].id <= writer[received[Len(received)]].id
    BY <1>17
  <2> QED
    BY <2>2, <2>3, <2>4
<1>19. EventsComeOnce'
  <2>1. ASSUME NEW i \in DOMAIN received'
        PROVE  received'[i] \in Visible'
    <3>1. CASE i \in 1..Len(received)
      BY <3>1, <1>3, <1>14, <1>16
    <3>2. CASE i \in Len(received) + 1..Len(received) + Len(q)
      <4>1. i - Len(received) \in 1..Len(q) /\ received'[i] = q[i - Len(received)]
        BY <3>2, <1>14, <1>9
      <4> QED
        BY <4>1, <1>3, <1>10
    <3> QED
      BY <3>1, <3>2, <1>14, <1>9
  <2>2. ASSUME NEW i \in DOMAIN received', NEW j \in DOMAIN received', i < j
        PROVE  writer'[received'[i]].id < writer'[received'[j]].id
    <3>1. CASE i \in 1..Len(received) /\ j \in 1..Len(received)
      <4>1. writer[received[i]].id < writer[received[j]].id
        BY <3>1, <2>2, <1>14 DEF StreamInv, EventsComeOnce
      <4> QED
        BY <4>1, <3>1, <1>2, <1>14
    <3>2. CASE i \in 1..Len(received) /\ j \in Len(received) + 1..Len(received) + Len(q)
      <4>1. j - Len(received) \in 1..Len(q) /\ received'[j] = q[j - Len(received)] /\ received'[i] = received[i]
        BY <3>2, <1>14, <1>9
      <4>2. writer[received[i]].id < writer[q[j - Len(received)]].id
        BY <4>1, <3>2, <1>18
      <4> QED
        BY <4>1, <4>2, <1>2
    <3>3. CASE i \in Len(received) + 1..Len(received) + Len(q) /\ j \in Len(received) + 1..Len(received) + Len(q)
      <4>1. /\ j - Len(received) \in 1..Len(q) /\ received'[j] = q[j - Len(received)]
            /\ i - Len(received) \in 1..Len(q) /\ received'[i] = q[i - Len(received)]
            /\ i - Len(received) < j - Len(received)
        BY <3>3, <2>2, <1>14, <1>9
      <4>2. writer[q[i - Len(received)]].id < writer[q[j - Len(received)]].id
        BY <4>1, <1>11
      <4> QED
        BY <4>1, <4>2, <1>2
    <3> QED
      BY <3>1, <3>2, <3>3, <2>2, <1>14, <1>9
  <2> QED
    BY <2>1, <2>2 DEF EventsComeOnce
<1>20. PICK last : last = IF q = <<>> THEN stream.lastEventId ELSE writer[q[Len(q)]].id
  OBVIOUS
<1>21. stream' = [stream EXCEPT !.sending = "no", !.events = {}, !.lastEventId = last]
  BY <1>1, <1>4, <1>20 DEF StreamRecord
<1>22. last \in Moments
  <2>1. stream.lastEventId \in Moments
    BY <1>1 DEF StreamRecord
  <2>2. q # <<>> => q[Len(q)] \in Writers
    BY <1>9, <1>10
  <2>3. q # <<>> => writer[q[Len(q)]].id \in Moments
    BY <2>2, <1>1 DEF WriterRecord
  <2> QED
    BY <2>1, <2>3, <1>20
<1>23. /\ stream' \in StreamRecord
       /\ stream'.sending = "no" /\ stream'.events = {} /\ stream'.lastEventId = last
  BY <1>1, <1>21, <1>22 DEF StreamRecord
<1>24. received' # <<>> => last = writer[received'[Len(received')]].id
  <2>1. CASE q = <<>>
    <3>1. received' = received
      BY <2>1, <1>1, <1>4
    <3> QED
      BY <3>1, <2>1, <1>5, <1>20
  <2>2. CASE q # <<>>
    <3>1. Len(q) \in 1..Len(q)
      BY <2>2, <1>9
    <3>2. received'[Len(received')] = q[Len(q)]
      BY <3>1, <1>9, <1>14
    <3> QED
      BY <3>2, <2>2, <1>20
  <2> QED
    BY <2>1, <2>2
<1>25. LastIsKnown'
  BY <1>2, <1>23, <1>24 DEF LastIsKnown
<1>26. MomentsCount'
  BY <1>2, <1>3 DEF StreamInv, MomentsCount
<1>27. StreamTypeOK'
  BY <1>2, <1>14, <1>23 DEF StreamInv, StreamTypeOK, StreamRecord, Moments
<1> QED
  BY <1>19, <1>25, <1>26, <1>27 DEF StreamInv

LEMMA StreamKeepsInv == StreamSpec => []StreamInv
<1>1. StreamInit => StreamInv
  BY StreamStarts
<1>2. ASSUME StreamInv, [StreamNext]_streamVars
      PROVE  StreamInv'
  <2>1. ASSUME NEW w \in Writers,
               BeginWrite(w) \/ InsertEvent(w) \/ CommitEvent(w) \/ AbortWrite(w) \/ Notify(w)
        PROVE  StreamInv'
    BY <1>2, <2>1, WritersStep
  <2>2. CASE OpenStream \/ Notified \/ Polled \/ ReadEvents \/ StreamBreaks
    BY <1>2, <2>2, ConnectionStep
  <2>3. CASE SendEvents
    BY <1>2, <2>3, SendStep
  <2>4. CASE UNCHANGED streamVars
    BY <1>2, <2>4 DEF streamVars, StreamInv, StreamTypeOK, MomentsCount, LastIsKnown, EventsComeOnce,
       Begun, Inserted, Noticed, Visible, Moments
  <2> QED
    BY <1>2, <2>1, <2>2, <2>3, <2>4 DEF StreamNext, Connection
<1> QED
  BY <1>1, <1>2, PTL DEF StreamSpec

\* src/routes/workflows.ts, the stream: its counters stay in their ranges (StreamTypeOK): one begin, one insert and one
\* commit per writer, and at most one notification of each.
THEOREM StreamTypes == StreamSpec => []StreamTypeOK
<1>1. StreamInv => StreamTypeOK
  BY DEF StreamInv
<1> QED
  BY <1>1, StreamKeepsInv, PTL

\* sendPendingEvents: across lost notifications, overlapping reads and reconnections, a client gets committed
\* events only, and none of them twice.
THEOREM StreamSendsOnce == StreamSpec => []EventsComeOnce
<1>1. StreamInv => EventsComeOnce
  BY DEF StreamInv
<1> QED
  BY <1>1, StreamKeepsInv, PTL

-----------------------------------------------------------------------------
(***************************************************************************)
(* Services: the composition that TLC checks.                              *)
(***************************************************************************)

\* Each disjunct of Next is a step of one service, or of the run, and leaves the others.
LEMMA OthersRest ==
    ASSUME [Next]_vars
    PROVE  /\ [OutboxNext]_outboxVars /\ [SchedulesNext]_cronVars /\ [LoopsNext]_loopVars
           /\ [UsageNext]_usageVars /\ [StreamNext]_streamVars /\ [StartNext]_startVars
           /\ [TreesNext]_treesVars
           /\ service' = service
  <1>1. CASE UNCHANGED vars
    BY <1>1 DEF vars
  <1>2. CASE Next
    <2>1. service' = service
      BY <1>2 DEF Next
    <2>2. OutboxNext \/ UNCHANGED outboxVars
      BY <1>2 DEF Next
    <2>3. SchedulesNext \/ UNCHANGED cronVars
      BY <1>2 DEF Next
    <2>4. LoopsNext \/ UNCHANGED loopVars
      BY <1>2 DEF Next
    <2>5. UsageNext \/ UNCHANGED usageVars
      BY <1>2 DEF Next
    <2>6. StreamNext \/ UNCHANGED streamVars
      BY <1>2 DEF Next
    <2>7. StartNext \/ UNCHANGED startVars
      BY <1>2 DEF Next
    <2>8. TreesNext \/ UNCHANGED treesVars
      BY <1>2 DEF Next
    <2> QED
      BY <2>1, <2>2, <2>3, <2>4, <2>5, <2>6, <2>7, <2>8
  <1> QED
    BY <1>1, <1>2

\* The composition is one in name only: a behaviour of it is one of every service by
\* itself, so that what TLC finds there it would find in each of them alone.
THEOREM ServicesStayApart ==
    Spec => OutboxSpec /\ SchedulesSpec /\ LoopsSpec /\ UsageSpec /\ StreamSpec /\ StartSpec /\ TreesSpec
  <1>1. Init => /\ OutboxInit /\ SchedulesInit /\ LoopsInit /\ UsageInit /\ StreamInit /\ StartInit
                /\ TreesInit
    BY DEF Init
  <1> QED
    BY <1>1, OthersRest, PTL
       DEF Spec, OutboxSpec, SchedulesSpec, LoopsSpec, UsageSpec, StreamSpec, StartSpec, TreesSpec

\* Every service is in a state of its types: schema.sql's columns, the flags of the loops,
\* the locals of requests and connections.
THEOREM ServiceTypes == Spec => []ServiceTypeOK
  <1>1. Init => service \in ServiceNames
    BY DEF Init
  <1>2. (service \in ServiceNames /\ [Next]_vars) => (service \in ServiceNames)'
    BY OthersRest
  <1>3. Spec => [](service \in ServiceNames)
    BY <1>1, <1>2, PTL DEF Spec
  <1>4. /\ service \in ServiceNames
        /\ OutboxTypeOK /\ SchedulesTypeOK /\ LoopsTypeOK /\ UsageTypeOK /\ StreamTypeOK /\ StartTypeOK
        /\ TreesTypeOK
        => ServiceTypeOK
    BY DEF ServiceTypeOK
  <1> QED
    BY <1>3, <1>4, ServicesStayApart, OutboxTypes, ScheduleTypes, LoopsTypes, UsageTypes, StreamTypes,
       StartRunTypes, TreeTypes, PTL
=============================================================================
