----------------------------- MODULE ChildJoin ------------------------------
(***************************************************************************)
(* A parent run at a step that starts child runs and waits for them: a       *)
(* "child" step, which starts one, or a "fanOut" step, which starts Width of  *)
(* them and goes on when its join is ready.                                  *)
(*                                                                         *)
(* The actors are the workers that execute the parent, the workers that end   *)
(* its children (each ends a child in one transaction and wakes the parent in *)
(* another), the expiry of the fan-out's waits, and operators, whose          *)
(* termination cancels the children one by one.  A child is a status; the     *)
(* parent is followed until it has left the step.                            *)
(***************************************************************************)
EXTENDS RunStore, Sequences, FiniteSets

CONSTANTS
    Kind,        \* "child" or "fanOut"
    Join, After, \* the step, and the step behind it
    Width,       \* how many children step.children asks for
    Quorum,      \* the count of the join; Width for a join of kind "all"
    FailFast,    \* failureMode = "fail-fast"
    HasTimeout,  \* step.timeoutMs is given
    MaxSlow,     \* bound: leases that expire under a working process
    MaxFaults,   \* bound: crashes and bodies that throw
    MaxRetries   \* bound: operator retries, of the parent and of its children

ASSUME JoinAssumption ==
    /\ Kind \in {"child", "fanOut"}
    /\ {Join, After} \subseteq Steps /\ Join # After
    /\ Width \in Nat \ {0} /\ Quorum \in 1..Width
    /\ Kind = "child" => Width = 1 /\ ~HasTimeout
    /\ {FailFast, HasTimeout} \subseteq BOOLEAN
    /\ {MaxSlow, MaxFaults, MaxRetries} \subseteq Nat

VARIABLES
    row,         \* the row of the parent
    children,    \* the children's rows, in the order of their creation
    wait,        \* wait[i]: the i-th wait of the step
    worker,      \* worker[w]: what process w keeps in memory of its tick
    waking,      \* waking[c]: how far whoever ended child c is in waking the parent
    expirer,     \* what the recovery loop keeps in memory of its pass
    terminator,  \* the children a termination of the parent has still to cancel
    slow, faults, retries

vars == <<row, children, wait, worker, waking, expirer, terminator, slow, faults, retries>>
counters == <<slow, faults, retries>>
others == <<waking, expirer, terminator>>

-----------------------------------------------------------------------------
(* Types and the initial state.                                            *)

Indices == 1..Width

\* index: the child index of its idempotency key.  ended: the child has been
\* terminal once (for the properties: an operator may retry a failed child).
Child == [index : Indices, ended : BOOLEAN,
          status : {"active", "completed", "failed", "canceled"}]

\* Width of a "child" step is 1: wait[1] is the wait under the key child:run:step.
Wait == [status : {"none", "open", "resumed", "expired", "canceled"}, child : Nat]

\* ids: the children that the worker has found or started so far.
Idle == [pc |-> "idle", ids |-> <<>>]
WorkerRecord == [pc : {"idle", "claimed", "starting", "resuming", "failing"}, ids : Seq(Nat)]

TypeOK == /\ row \in Row
          /\ children \in Seq(Child)
          /\ wait \in [Indices -> Wait]
          /\ worker \in [WorkerIds -> WorkerRecord]
          /\ waking \in [DOMAIN children -> {"no", "looking", "settling"}]
          /\ expirer \in [pc : {"resting", "selected", "marked", "settling"}, wait : Indices]
          /\ terminator \subseteq DOMAIN children
          /\ {slow, faults, retries} \subseteq Nat

Init == /\ row = InsertedRow(Join)
        /\ children = <<>>
        /\ wait = [i \in Indices |-> [status |-> "none", child |-> 0]]
        /\ worker = [w \in WorkerIds |-> Idle]
        /\ waking = <<>>
        /\ expirer = [pc |-> "resting", wait |-> 1]
        /\ terminator = {}
        /\ slow = 0 /\ faults = 0 /\ retries = 0

-----------------------------------------------------------------------------
(* What the actions share.                                                 *)

Waiting == row.status = "waiting" /\ row.step = Join
WaitsExist == \E i \in Indices : wait[i].status # "none"
Terminal(c) == children[c].status # "active"
With(cs, status) == {c \in DOMAIN cs : cs[c].status = status}

\* Mutant: a failed child counts towards the quorum.
JoinReadyOnAny(cs) == Cardinality(DOMAIN cs \ With(cs, "active")) >= Quorum
\* Mutant: the join waits for its quorum only.
JoinReadyOnQuorum(cs) == Cardinality(With(cs, "completed")) >= Quorum
\* getFanOutJoinState.ready, over the children of the waits.
JoinReady(cs) == \/ Cardinality(With(cs, "completed")) >= Quorum
                 \/ Cardinality(DOMAIN cs \ With(cs, "active")) = Width

\* GetFanOutWaitByChildRunId: the open waits that name child c.
OpenWaitOf(c) == {i \in Indices : wait[i].status = "open" /\ wait[i].child = c}
\* OpenFanOutWaits: one wait per child, in the order of the indices.
Opened(ids) == [i \in Indices |-> [status |-> "open", child |-> ids[i]]]

Commits(w) == HoldsLease(row, Join, w)
Tick(w) == worker' = [worker EXCEPT ![w] = Idle]
Goto(w, pc) == worker' = [worker EXCEPT ![w].pc = pc]

Ended(cs, c, status) == [cs EXCEPT ![c].status = status, ![c].ended = TRUE]

\* RequestCancelRun, mode "hard", of child c; the caller goes on to wake the parent.
HardCancelChild(c) ==
    IF children[c].status \in {"active", "failed"}
      THEN /\ children' = Ended(children, c, "canceled")
           /\ waking' = [waking EXCEPT ![c] = "looking"]
      ELSE UNCHANGED <<children, waking>>

-----------------------------------------------------------------------------
(* The workers of the parent.                                              *)

Claim(w) == /\ worker[w].pc = "idle"
            /\ row.step = Join
            /\ Claimable(row)
            /\ row' = Claimed(row, w)
            /\ Goto(w, "claimed")
            /\ UNCHANGED <<children, wait, others, counters>>

\* getChildRun and listChildRuns are ordered by the creation of the children.
ReadChildren(w) ==
    /\ worker[w].pc = "claimed"
    /\ LET found == [n \in 1..(IF Len(children) < Width THEN Len(children) ELSE Width) |-> n]
           next == IF Kind = "fanOut" /\ WaitsExist
                     THEN IF JoinReady(children) THEN "resuming" ELSE "failing"
                     ELSE IF Kind = "child" /\ found # <<>> /\ Terminal(1)
                            THEN "resuming" ELSE "starting"
       IN worker' = [worker EXCEPT ![w] = [pc |-> next, ids |-> found]]
    /\ UNCHANGED <<row, children, wait, others, counters>>

\* startRun, under no lease.  The idempotency key of a fan-out's child holds its
\* index; that of a "child" step has none.
\* Mutant: the children of a fan-out have none either.
StartChildUnkeyed(w) ==
    /\ worker[w].pc = "starting"
    /\ Len(worker[w].ids) < Width
    /\ children' = Append(children, [index |-> Len(worker[w].ids) + 1,
                                     status |-> "active", ended |-> FALSE])
    /\ waking' = Append(waking, "no")
    /\ worker' = [worker EXCEPT ![w].ids = Append(@, Len(children) + 1)]
    /\ UNCHANGED <<row, wait, expirer, terminator, counters>>
StartChild(w) ==
    LET i == Len(worker[w].ids) + 1
        same == {c \in DOMAIN children : Kind = "fanOut" /\ children[c].index = i}
        Found(c) == worker' = [worker EXCEPT ![w].ids = Append(@, c)]
    IN /\ worker[w].pc = "starting"
       /\ i <= Width
       /\ \/ \E c \in same : Found(c) /\ UNCHANGED <<children, waking>>
          \/ /\ same = {}
             /\ children' = Append(children, [index |-> i, status |-> "active", ended |-> FALSE])
             /\ waking' = Append(waking, "no")
             /\ Found(Len(children) + 1)
       /\ UNCHANGED <<row, wait, expirer, terminator, counters>>

\* openWait or openFanOutWaits; the keys of the waits are taken if there are any.
OpenWaits(w) ==
    /\ worker[w].pc = "starting"
    /\ Len(worker[w].ids) = Width
    /\ Commits(w)
    /\ IF WaitsExist
         THEN Goto(w, "failing") /\ UNCHANGED <<row, wait>>
         ELSE /\ row' = [Release(row) EXCEPT !.status = "waiting", !.due = TRUE]
              /\ wait' = Opened(worker[w].ids)
              /\ Tick(w)
    /\ UNCHANGED <<children, others, counters>>

AdvanceTaskStep(w) == /\ worker[w].pc = "resuming"
                      /\ Commits(w)
                      /\ row' = AdvancedRow(row, After)
                      /\ Tick(w)
                      /\ UNCHANGED <<children, wait, others, counters>>

\* step.input, step.children or step.resume throws.
BodyThrows(w) == /\ worker[w].pc \in {"starting", "resuming"}
                 /\ faults < MaxFaults
                 /\ faults' = faults + 1
                 /\ Goto(w, "failing")
                 /\ UNCHANGED <<row, children, wait, others, slow, retries>>

FailRun(w) == /\ worker[w].pc = "failing"
              /\ Commits(w)
              /\ row' = FailedRow(row)
              /\ Tick(w)
              /\ UNCHANGED <<children, wait, others, counters>>

LoseLease(w) == /\ \/ worker[w].pc \in {"resuming", "failing"}
                   \/ worker[w].pc = "starting" /\ Len(worker[w].ids) = Width
                /\ ~Commits(w)
                /\ Tick(w)
                /\ UNCHANGED <<row, children, wait, others, counters>>

Crash(w) == /\ worker[w].pc # "idle"
            /\ faults < MaxFaults
            /\ faults' = faults + 1
            /\ Tick(w)
            /\ UNCHANGED <<row, children, wait, others, slow, retries>>

-----------------------------------------------------------------------------
(* The children.                                                           *)

\* completeRun ends the child and goes on to wake the parent; failRun, and whatever
\* else ends a child without success, does not.
CompleteChild(c) == /\ ~Terminal(c)
                    /\ children' = Ended(children, c, "completed")
                    /\ waking' = [waking EXCEPT ![c] = "looking"]
                    /\ UNCHANGED <<row, wait, worker, expirer, terminator, counters>>

FailChild(c) == /\ ~Terminal(c)
                /\ children' = Ended(children, c, "failed")
                /\ UNCHANGED <<row, wait, worker, others, counters>>

\* wakeParentForChild looks for the open wait of the child; without one it resumes
\* the wait of a "child" step, whose key names the parent and not the child.
WakeParentForChild(c) ==
    LET resumes == Kind = "child" /\ wait[1].status = "open" /\ Waiting
    IN /\ waking[c] = "looking"
       /\ waking' = [waking EXCEPT ![c] = IF Kind = "fanOut" /\ OpenWaitOf(c) # {}
                                             THEN "settling" ELSE "no"]
       /\ IF resumes THEN wait' = [wait EXCEPT ![1].status = "resumed"]
                          /\ row' = AdvancedRow(row, Join)
                     ELSE UNCHANGED <<row, wait>>
       /\ UNCHANGED <<children, worker, expirer, terminator, counters>>

\* settleFanOutParent, one transaction: the wait of child c is settled; when the
\* failure mode asks for it the children that are left are canceled, and their waits
\* resumed; the parent is queued if its join is ready.
SettleFanOutParent(c, status) ==
    LET settled == [i \in Indices |->
                      IF wait[i].child = c /\ wait[i].status = "open"
                        THEN [wait[i] EXCEPT !.status = status] ELSE wait[i]]
        hasFailure == \/ With(children, "failed") \cup With(children, "canceled") # {}
                      \/ \E i \in Indices : settled[i].status = "expired"
        stops(d) == FailFast /\ hasFailure /\ ~Terminal(d)
    IN /\ children' = [d \in DOMAIN children |->
                         IF stops(d)
                           THEN [children[d] EXCEPT !.status = "canceled", !.ended = TRUE]
                           ELSE children[d]]
       /\ wait' = [i \in Indices |->
                     IF settled[i].status = "open" /\ stops(settled[i].child)
                       THEN [settled[i] EXCEPT !.status = "resumed"] ELSE settled[i]]
       /\ row' = IF JoinReady(children') /\ Waiting THEN AdvancedRow(row, Join) ELSE row

SettleWoken(c) == /\ waking[c] = "settling"
                  /\ waking' = [waking EXCEPT ![c] = "no"]
                  /\ SettleFanOutParent(c, "resumed")
                  /\ UNCHANGED <<worker, expirer, terminator, counters>>

\* The process that has ended child c dies before it has woken the parent.
CrashWaking(c) == /\ waking[c] # "no"
                  /\ faults < MaxFaults
                  /\ faults' = faults + 1
                  /\ waking' = [waking EXCEPT ![c] = "no"]
                  /\ UNCHANGED <<row, children, wait, worker, expirer, terminator, slow, retries>>

-----------------------------------------------------------------------------
(* The expiry of the waits.                                                *)

ExpireOpenWaits(i) == /\ expirer.pc = "resting"
                      /\ HasTimeout
                      /\ wait[i].status = "open"
                      /\ expirer' = [pc |-> "selected", wait |-> i]
                      /\ UNCHANGED <<row, children, wait, worker, waking, terminator, counters>>

MarkExpired == /\ expirer.pc = "selected"
               /\ wait' = [wait EXCEPT ![expirer.wait].status = "expired"]
               /\ expirer' = [expirer EXCEPT !.pc = "marked"]
               /\ UNCHANGED <<row, children, worker, waking, terminator, counters>>

\* requestCancelRun, its call of wakeParentForChild included, which finds no open wait.
CancelExpiredChild ==
    LET c == wait[expirer.wait].child IN
    /\ expirer.pc = "marked"
    /\ children' = IF Terminal(c) THEN children ELSE Ended(children, c, "canceled")
    /\ expirer' = [expirer EXCEPT !.pc = "settling"]
    /\ UNCHANGED <<row, wait, worker, waking, terminator, counters>>

SettleExpired == /\ expirer.pc = "settling"
                 /\ expirer' = [expirer EXCEPT !.pc = "resting"]
                 /\ SettleFanOutParent(wait[expirer.wait].child, "expired")
                 /\ UNCHANGED <<worker, waking, terminator, counters>>

ExpirerCrash == /\ expirer.pc # "resting"
                /\ faults < MaxFaults
                /\ faults' = faults + 1
                /\ expirer' = [expirer EXCEPT !.pc = "resting"]
                /\ UNCHANGED <<row, children, wait, worker, waking, terminator, slow, retries>>

-----------------------------------------------------------------------------
(* Operators, signals and time.                                            *)

\* Mutant: the children are taken from the definition, not from the store.
TerminateIndices ==
    /\ Cancelable(row)
    /\ row' = CanceledRow(row)
    /\ terminator' = Indices
    /\ UNCHANGED <<children, wait, worker, waking, expirer, counters>>

\* The termination of the parent: its row and waits, then the list of its children.
Terminate ==
    /\ Cancelable(row)
    /\ row' = CanceledRow(row)
    /\ wait' = [i \in Indices |-> IF wait[i].status = "open"
                                    THEN [wait[i] EXCEPT !.status = "canceled"] ELSE wait[i]]
    /\ terminator' = DOMAIN children
    /\ UNCHANGED <<children, worker, waking, expirer, counters>>

PropagateCancellation(c) == /\ c \in terminator
                            /\ terminator' = terminator \ {c}
                            /\ HardCancelChild(c)
                            /\ UNCHANGED <<row, wait, worker, expirer, counters>>

\* An operator cancels one child.
CancelChild(c) == /\ children[c].status \in {"active", "failed"}
                  /\ HardCancelChild(c)
                  /\ UNCHANGED <<row, wait, worker, expirer, terminator, counters>>

RetryRun == /\ retries < MaxRetries
            /\ retries' = retries + 1
            /\ \/ Retriable(row) /\ row' = RetriedRow(row) /\ UNCHANGED children
               \/ \E c \in With(children, "failed") :
                     children' = [children EXCEPT ![c].status = "active"] /\ UNCHANGED row
            /\ UNCHANGED <<wait, worker, others, slow, faults>>

\* CreateSignal and the graceful cancellation queue a waiting run, whatever it waits for.
Requeue == /\ row.status = "waiting"
           /\ row' = [row EXCEPT !.status = "queued", !.due = TRUE]
           /\ UNCHANGED <<children, wait, worker, others, counters>>

LeaseExpires == /\ row.lease = "live"
                /\ row' = [row EXCEPT !.lease = "expired"]
                /\ IF worker[row.owner].pc # "idle"
                     THEN slow < MaxSlow /\ slow' = slow + 1 ELSE UNCHANGED slow
                /\ UNCHANGED <<children, wait, worker, others, faults, retries>>

RecoverExpiredLeases == /\ Recoverable(row)
                        /\ row' = Recovered(row)
                        /\ UNCHANGED <<children, wait, worker, others, counters>>

-----------------------------------------------------------------------------
(* The specification.                                                      *)

WorkerStep(w) == \/ ReadChildren(w) \/ StartChild(w) \/ OpenWaits(w)
                 \/ AdvanceTaskStep(w) \/ FailRun(w) \/ LoseLease(w)

Wakes(c) == WakeParentForChild(c) \/ SettleWoken(c)

ExpirerStep == \/ MarkExpired \/ CancelExpiredChild \/ SettleExpired
               \/ \E i \in Indices : ExpireOpenWaits(i)

Next == \/ \E w \in WorkerIds : Claim(w) \/ WorkerStep(w) \/ BodyThrows(w) \/ Crash(w)
        \/ \E c \in DOMAIN children :
              \/ CompleteChild(c) \/ FailChild(c) \/ CancelChild(c)
              \/ Wakes(c) \/ CrashWaking(c) \/ PropagateCancellation(c)
        \/ ExpirerStep \/ ExpirerCrash
        \/ Terminate \/ RetryRun \/ Requeue
        \/ LeaseExpires \/ RecoverExpiredLeases

Spec == Init /\ [][Next]_vars

\* The loops poll for ever, what is under way goes on, and every child ends, although
\* not with success.
Fairness ==
    /\ \A w \in WorkerIds : WF_vars(WorkerStep(w))
    /\ WF_vars(\E w \in WorkerIds : Claim(w))
    /\ WF_vars(LeaseExpires)
    /\ WF_vars(ExpirerStep)
    /\ WF_vars(\E c \in DOMAIN children : Wakes(c))
    /\ WF_vars(\E c \in DOMAIN children : PropagateCancellation(c))
    /\ WF_vars(\E c \in DOMAIN children : CompleteChild(c) \/ FailChild(c))

LiveSpec == Spec /\ Fairness

-----------------------------------------------------------------------------
(* Properties.                                                             *)

\* The parent has left the step only with its quorum of results, or with a result of
\* every child: not by a signal, an operator's retry, an expiry or a stale look.
JoinHolds ==
    row.step = After =>
       \/ Cardinality(With(children, "completed")) >= Quorum
       \/ Cardinality({c \in DOMAIN children : children[c].ended}) >= Width

\* Crashed and superseded workers, which go on with what others have begun, start
\* each child of a fan-out once, and every wait is that of the child of its index.
ChildrenStartOnce ==
    /\ \A c, d \in DOMAIN children : children[c].index = children[d].index => c = d
    /\ \A i \in Indices : wait[i].child # 0 => children[wait[i].child].index = i

\* README.md:13, "hard terminate with cascading child cancellation": once a
\* termination is through, no child of the run is left running.
TerminatedTreeIsDown ==
    row.cancel = "hard" /\ terminator = {} =>
       \A c \in DOMAIN children : children[c].status # "active"

\* README.md:12, "wait durably for results": a parent does not wait for ever for
\* children that all end.
EveryJoinEnds == row.status = "waiting" ~> row.status # "waiting"

\* src/lib/workflow-engine.children.test.ts:155, "cancels remaining fan-out
\* children in fail-fast mode": the failure of a child ends the waiting of its parent.
FailFastEndsTheJoin ==
    FailFast /\ Waiting /\ With(children, "failed") # {} ~> ~Waiting
=============================================================================
