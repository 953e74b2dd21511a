------------------------------ MODULE RunTrees ------------------------------
(***************************************************************************)
(* How trees of runs grow and how they are stopped: the children that       *)
(* workers start, rewind and fork (src/lib/store/runs.ts, branchRun), and   *)
(* the termination of a run with all its descendants                        *)
(* (src/routes/workflows/operator-routes.ts, helpers.ts).                   *)
(*                                                                         *)
(* A rewind is one transaction that holds the source FOR UPDATE.  A         *)
(* termination is a walk over the tree, one statement at a time, while      *)
(* workers start children.                                                  *)
(***************************************************************************)
EXTENDS Naturals, Sequences, FiniteSets

CONSTANTS
    RunIds,         \* rows of workflow_runs, in the order in which they are inserted
    NoRunId,
    MaxRequests,    \* bound: rewinds, forks, terminations and retries of operators
    MaxStarting,    \* bound: workers that are about to start a child at the same time
    MaxTreeEvents   \* bound: runs that end by themselves, and walks that are cut off

ASSUME TreesAssumption ==
    /\ IsFiniteSet(RunIds) /\ RunIds # {} /\ RunIds = 1..Cardinality(RunIds) /\ NoRunId = 0
    /\ {MaxRequests, MaxStarting, MaxTreeEvents} \subseteq Nat

VARIABLES
    lineage,      \* the rows, in the order of their ids
    starting,     \* runs whose worker is about to start a child
    root,         \* the run whose termination is under way
    walk,         \* what that has still to do, in order
    stopped,      \* history: the runs that were terminated, or live when they were rewound, but
                  \* for those whose walk was cut off
    excused,      \* history: runs started when their parent had ended
    requests, treeEvents

treesVars == <<lineage, starting, root, walk, stopped, excused, requests, treeEvents>>

Rows == DOMAIN lineage

NewRow(parent) == [status |-> "live", parent |-> parent, supersededBy |-> NoRunId]

TreesTypeOK ==
    /\ lineage \in Seq([status : {"live", "failed", "ended"}, parent : RunIds \cup {NoRunId},
                        supersededBy : RunIds \cup {NoRunId}])
    /\ Rows \subseteq RunIds
    /\ starting \subseteq RunIds
    /\ root \in RunIds \cup {NoRunId}
    /\ walk \in Seq({"cancel", "list"} \X RunIds)
    /\ stopped \subseteq RunIds /\ excused \subseteq RunIds
    /\ requests \in 0..MaxRequests /\ treeEvents \in 0..MaxTreeEvents

\* One run has been started.
TreesInit == /\ lineage = <<NewRow(NoRunId)>>
             /\ starting = {} /\ root = NoRunId /\ walk = <<>> /\ stopped = {} /\ excused = {}
             /\ requests = 0 /\ treeEvents = 0

Live(r) == lineage[r].status = "live"
NextId == Len(lineage) + 1
Event == treeEvents < MaxTreeEvents /\ treeEvents' = treeEvents + 1
Request == requests < MaxRequests /\ requests' = requests + 1

-----------------------------------------------------------------------------
(* Runs, and the children that their workers start.                        *)

RunEndsIn(r) == /\ Live(r) /\ Event
                /\ \E s \in {"failed", "ended"} : lineage' = [lineage EXCEPT ![r].status = s]
                /\ UNCHANGED <<starting, root, walk, stopped, excused, requests>>

\* The body of a child step, or of a fan-out: the run is live when it begins, and nobody
\* asks again when the child is inserted.
BeginChild(r) == /\ Live(r) /\ r \notin starting /\ Cardinality(starting) < MaxStarting
                 /\ starting' = starting \cup {r}
                 /\ UNCHANGED <<lineage, root, walk, stopped, excused, requests, treeEvents>>
InsertChild(r) ==
    /\ r \in starting /\ NextId \in RunIds
    /\ lineage' = Append(lineage, NewRow(r))
    /\ excused' = IF lineage[r].status = "ended" THEN excused \cup {NextId} ELSE excused
    /\ starting' \in {starting, starting \ {r}}
    /\ UNCHANGED <<root, walk, stopped, requests, treeEvents>>

\* RetryRun, which asks for the status and nothing else.
ReviveRun(r) == /\ r \in Rows /\ lineage[r].status = "failed"
                /\ Request
                /\ lineage' = [lineage EXCEPT ![r].status = "live"]
                /\ UNCHANGED <<starting, root, walk, stopped, excused, treeEvents>>

-----------------------------------------------------------------------------
(* Rewind and fork.                                                        *)

Children(r) == {c \in Rows : lineage[c].parent = r}
\* With a run its children, too.
ClosedSets == {S \in SUBSET Rows : \A c \in Rows : lineage[c].parent \in S => c \in S}
\* All runs below r, and r.
Tree(r) == LET closed == ClosedSets IN
           {d \in Rows : \A S \in closed : r \in S => d \in S}

\* RequestCancelRun with mode "hard" on each of S.
HardCancel(S) == [r \in Rows |->
    IF r \in S /\ lineage[r].status # "ended" THEN [lineage[r] EXCEPT !.status = "ended"]
    ELSE lineage[r]]

\* Mutant: the rewind cancels the run and leaves its children alone.
SourceOnly(r) == {r}
\* cancelTree.
CanceledWith(r) == Tree(r)

\* branchRun in mode "rewind": a run that is not terminal is canceled with its tree; the
\* children of one that has failed are left alone.  The new run has no
\* parent.
Rewind(r) ==
    /\ r \in Rows /\ lineage[r].supersededBy = NoRunId
    /\ NextId \in RunIds /\ Request
    /\ lineage' = Append([(IF Live(r) THEN HardCancel(CanceledWith(r)) ELSE lineage)
                            EXCEPT ![r].supersededBy = NextId],
                         NewRow(NoRunId))
    /\ stopped' = IF Live(r) THEN stopped \cup {r} ELSE stopped
    /\ UNCHANGED <<starting, root, walk, excused, treeEvents>>

\* In mode "fork": the source must be terminal and is left as it is.
Fork(r) ==
    /\ r \in Rows /\ ~Live(r) /\ NextId \in RunIds /\ Request
    /\ lineage' = Append(lineage, NewRow(NoRunId))
    /\ UNCHANGED <<starting, root, walk, stopped, excused, treeEvents>>

-----------------------------------------------------------------------------
(* POST /terminate: requestCancelRun, then propagateCancellation.           *)

BeginTermination(r) ==
    /\ walk = <<>> /\ r \in Rows /\ lineage[r].status # "ended" /\ Request
    /\ lineage' = HardCancel({r})
    /\ root' = r /\ walk' = <<<<"list", r>>>>
    /\ stopped' = stopped \cup {r}
    /\ UNCHANGED <<starting, excused, treeEvents>>

\* ORDER BY created_at.
InCreationOrder(S) == {q \in [1..Cardinality(S) -> S] :
                          /\ \A i, j \in DOMAIN q : i < j => q[i] < q[j]
                          /\ \A c \in S : \E i \in DOMAIN q : q[i] = c}
\* Each child is canceled and its own children are listed before the next.
Visits(q) == [i \in 1..(2 * Len(q)) |-> <<IF i % 2 = 1 THEN "cancel" ELSE "list", q[(i + 1) \div 2]>>]

\* listChildRuns, for which there is one order.
ListChildren ==
    /\ walk # <<>> /\ Head(walk)[1] = "list"
    /\ \E q \in InCreationOrder(Children(Head(walk)[2])) : walk' = Visits(q) \o Tail(walk)
    /\ root' = IF walk' = <<>> THEN NoRunId ELSE root
    /\ UNCHANGED <<lineage, starting, stopped, excused, requests, treeEvents>>
CancelChild ==
    /\ walk # <<>> /\ Head(walk)[1] = "cancel"
    /\ lineage' = HardCancel({Head(walk)[2]})
    /\ walk' = Tail(walk)
    /\ UNCHANGED <<starting, root, stopped, excused, requests, treeEvents>>

\* A statement fails or the process dies: nobody takes the walk up again.
WalkBreaks == /\ walk # <<>> /\ Event
              /\ root' = NoRunId /\ walk' = <<>> /\ stopped' = stopped \ {root}
              /\ UNCHANGED <<lineage, starting, excused, requests>>

-----------------------------------------------------------------------------
(* The specification.                                                      *)

TreesNext ==
    \/ \E r \in Rows : \/ RunEndsIn(r) \/ BeginChild(r) \/ InsertChild(r) \/ ReviveRun(r)
                       \/ Rewind(r) \/ Fork(r) \/ BeginTermination(r)
    \/ ListChildren \/ CancelChild \/ WalkBreaks

TreesSpec == TreesInit /\ [][TreesNext]_treesVars

-----------------------------------------------------------------------------
(* Properties.                                                             *)

\* README.md:13, "hard terminate with cascading child cancellation": what has been
\* stopped stays down with all below it, whether by the rewind of a live run or by a
\* termination that is through, beside other terminations and whatever an operator retries, but for children whose
\* parent had ended already when they were inserted, and for what came of those.
StoppedTreesRest ==
    \A r \in Rows :
       r \in stopped /\ r # root =>
          \A d \in Tree(r) : Live(d) => \E e \in excused : d \in Tree(e)
=============================================================================
