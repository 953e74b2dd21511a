--------------------------- MODULE MCRunLifecycle ---------------------------
(* Small instances of RunLifecycle for TLC.                                *)
EXTENDS RunLifecycle, TLC

CONSTANTS w1, w2, shared, r1, r2, poll, nap, done

\* A task that may poll again at once, after a nap, or be done.
PollSteps == {poll, nap, done}
PollKind == poll :> "task" @@ nap :> "sleep" @@ done :> "end"
PollTransitions == poll :> {poll, nap, done} @@ nap :> {poll} @@ done :> {}
\* The same without loops: a task, a nap, the end.
LineTransitions == poll :> {nap, done} @@ nap :> {done} @@ done :> {}
PollTasks == {poll}
TwoAttempts == poll :> 2 @@ nap :> 0 @@ done :> 0

DistinctIds == w1 :> w1 @@ w2 :> w2
\* Two processes that were left with the same HIPPO_WORKER_ID.
SharedIds == w1 :> shared @@ w2 :> shared

\* Sound with shared ids, where nothing tells the processes apart, and for properties
\* without fairness.
Symmetry == Permutations({w1, w2})
=============================================================================
