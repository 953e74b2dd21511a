----------------------------- MODULE MCServices -----------------------------
(* Small instances of Services, for TLC.                                     *)
EXTENDS Services, TLC

CONSTANTS m1, m2, plain, d1, d2, s1, s2, unknown, p1, p2,
          worker, recovery, schedules, drain, calls, tokens, c1, c2, c3, e1, e2, k1,
          w1, w2, r1, poll, nap, done

\* One process is a fire time behind the database, which makes the fire time it has just
\* claimed its next one, and the other is one ahead.
SlowAndFast == p1 :> -1 @@ p2 :> 1

StopsInOrder == <<recovery, schedules, drain>>

CallsAndTokens == {[resource |-> calls, amount |-> 1, cost |-> 0],
                   [resource |-> tokens, amount |-> 1, cost |-> 1]}
OneCall == [r \in {calls} |-> 1]

FourRuns == 1..4

\* RunLifecycle: a task that may fail, naps, and ends, while workers crash on it.
OwnIds == w1 :> w1 @@ w2 :> w2
PollKind == poll :> "task" @@ nap :> "sleep" @@ done :> "end"
LineTransitions == poll :> {nap, done} @@ nap :> {done} @@ done :> {}
TwoAttempts == poll :> 2 @@ nap :> 0 @@ done :> 0
=============================================================================
