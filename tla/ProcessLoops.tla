---------------------------- MODULE ProcessLoops ----------------------------
(***************************************************************************)
(* The loops of one process and its shutdown: the worker loop with its      *)
(* wakeups (src/lib/worker.ts, src/lib/notifier.ts), the recovery, schedule  *)
(* and outbox loops (src/lib/recovery.ts, scheduler.ts, outbox.ts) and the  *)
(* order in which src/lib/process-runtime.ts stops them and ends the pool.  *)
(*                                                                         *)
(* JavaScript runs one callback at a time: an action is what happens        *)
(* between two awaits.  "ticking" counts the passes that really run, beside *)
(* the flag inFlight that the loops keep about them.                        *)
(***************************************************************************)
EXTENDS Naturals, Sequences, FiniteSets

CONSTANTS
    Worker,         \* the worker loop
    Timed,          \* the loops that a timer drives, in the order of their stops
    Unguarded       \* those whose tick has no catch: the outbox loop

Loops == {Worker} \cup {Timed[i] : i \in DOMAIN Timed}
\* The order of the stops in shutdown.
StopOrder == <<Worker>> \o Timed

ASSUME LoopsAssumption ==
    /\ Timed \in Seq(Loops) /\ Unguarded \subseteq Loops \ {Worker}
    /\ \A i, j \in DOMAIN StopOrder : StopOrder[i] = StopOrder[j] => i = j

VARIABLES
    loop,       \* per loop: active, inFlight and whether a timer is set
    ticking,    \* per loop: passes that run
    wakeRequested,
    listening,  \* listenForWakeups: connecting, done, failed, or stopped again
    shutdown,   \* "no", or how far it is: <<phase, number of the loop>>
    pool,       \* sql: "open" or "ended"
    process,    \* "up", or "dead" after an unhandled rejection
    owed        \* history: a wakeup that no pass has begun after

loopVars == <<loop, ticking, wakeRequested, listening, shutdown, pool, process, owed>>

Phases == {"no", "stopping", "unlistening", "awaiting", "closing", "done"}

LoopsTypeOK ==
    /\ loop \in [Loops -> [active : BOOLEAN, inFlight : BOOLEAN, timer : BOOLEAN]]
    /\ ticking \in [Loops -> Nat]
    /\ wakeRequested \in BOOLEAN /\ owed \in BOOLEAN
    /\ listening \in {"connecting", "yes", "failed", "stopped"}
    /\ shutdown \in [phase : Phases, at : 1..(Len(StopOrder) + 1)]
    /\ pool \in {"open", "ended"} /\ process \in {"up", "dead"}

\* Every loop begins with a tick.
LoopsInit ==
    /\ loop = [l \in Loops |-> [active |-> TRUE, inFlight |-> TRUE, timer |-> FALSE]]
    /\ ticking = [l \in Loops |-> 1]
    /\ wakeRequested = FALSE /\ owed = FALSE
    /\ listening = "connecting"
    /\ shutdown = [phase |-> "no", at |-> 1]
    /\ pool = "open" /\ process = "up"

-----------------------------------------------------------------------------
(* Ticks.                                                                  *)

\* tick, when it is not refused.
StartTick(l) == /\ loop' = [loop EXCEPT ![l].inFlight = TRUE, ![l].timer = FALSE]
                /\ ticking' = [ticking EXCEPT ![l] = @ + 1]
                /\ owed' = (owed /\ l # Worker)

\* Mutant: a wakeup during a pass is dropped, as the pass is looking for work already.
WakeDropped == /\ loop' = [loop EXCEPT ![Worker].timer = FALSE]
               /\ owed' = TRUE
               /\ UNCHANGED <<ticking, wakeRequested>>
\* A wakeup during a pass: the pass may have looked for work before there was any.
WakeLater == /\ loop' = [loop EXCEPT ![Worker].timer = FALSE]
             /\ wakeRequested' = TRUE /\ owed' = TRUE
             /\ UNCHANGED ticking

\* wake, on a notification.
Wake ==
    /\ process = "up" /\ listening = "yes"
    /\ \/ ~loop[Worker].active /\ UNCHANGED <<loop, ticking, wakeRequested, owed>>
       \/ loop[Worker].active /\ loop[Worker].inFlight /\ WakeLater
       \/ loop[Worker].active /\ ~loop[Worker].inFlight /\ StartTick(Worker) /\ UNCHANGED wakeRequested
    /\ UNCHANGED <<listening, shutdown, pool, process>>

\* The callback of the timer: tick, which a pass in flight would refuse.
TimerFires(l) ==
    /\ process = "up" /\ loop[l].timer
    /\ IF loop[l].active /\ ~loop[l].inFlight
         THEN StartTick(l) /\ UNCHANGED wakeRequested
         ELSE /\ loop' = [loop EXCEPT ![l].timer = l # Worker /\ loop[l].active]
              /\ wakeRequested' = IF l = Worker THEN loop[l].active ELSE wakeRequested
              /\ UNCHANGED <<ticking, owed>>
    /\ UNCHANGED <<listening, shutdown, pool, process>>

\* The finally of a tick: a wakeup that came meanwhile is answered by another tick, else
\* the timer is set, unless the loop is stopped.
Rest(l) == loop' = [loop EXCEPT ![l].inFlight = FALSE, ![l].timer = @ \/ loop[l].active]
EndTick(l) ==
    /\ process = "up" /\ ticking[l] > 0
    /\ IF l = Worker /\ wakeRequested
         THEN /\ wakeRequested' = FALSE
              /\ IF loop[l].active
                   THEN UNCHANGED <<loop, ticking>> /\ owed' = FALSE
                   ELSE /\ loop' = [loop EXCEPT ![l].inFlight = FALSE]
                        /\ ticking' = [ticking EXCEPT ![l] = @ - 1]
                        /\ UNCHANGED owed
         ELSE /\ Rest(l) /\ ticking' = [ticking EXCEPT ![l] = @ - 1]
              /\ UNCHANGED <<wakeRequested, owed>>
    /\ UNCHANGED <<listening, shutdown, pool, process>>

\* A pass that fails ends like any other, its error goes to onError.  The tick of the
\* outbox loop has no catch: nobody handles the rejection, and the process dies of it.
TickRejects(l) ==
    /\ process = "up" /\ ticking[l] > 0 /\ l \in Unguarded
    /\ process' = "dead"
    /\ UNCHANGED <<loop, ticking, wakeRequested, listening, shutdown, pool, owed>>

\* listenForWakeups resolves, or it fails and the worker goes on with its timer.
ListenSettles ==
    /\ process = "up" /\ listening = "connecting"
    /\ listening' \in {"yes", "failed"}
    /\ UNCHANGED <<loop, ticking, wakeRequested, shutdown, pool, process, owed>>

\* The connection that listens breaks.  Its client has no listener for "error", so node
\* throws the event: the process dies.
ListenerBreaks ==
    /\ process = "up" /\ listening = "yes"
    /\ process' = "dead"
    /\ UNCHANGED <<loop, ticking, wakeRequested, listening, shutdown, pool, owed>>

-----------------------------------------------------------------------------
(* shutdown.                                                               *)

Stopped == StopOrder[shutdown.at]

\* SIGTERM or SIGINT; a second one finds shuttingDown set.
Signal == /\ process = "up" /\ shutdown.phase = "no"
          /\ shutdown' = [phase |-> "stopping", at |-> 1]
          /\ UNCHANGED <<loop, ticking, wakeRequested, listening, pool, process, owed>>

StopFlags(l) == [loop EXCEPT ![l].active = FALSE, ![l].timer = FALSE]

\* The stop function of the loop, up to its first await.
StopLoop ==
    /\ process = "up" /\ shutdown.phase = "stopping"
    /\ loop' = StopFlags(Stopped)
    /\ shutdown' = [shutdown EXCEPT !.phase = IF Stopped = Worker THEN "unlistening" ELSE "awaiting"]
    /\ owed' = (owed /\ Stopped # Worker)
    /\ UNCHANGED <<ticking, wakeRequested, listening, pool, process>>

\* await stopListeningPromise, await stopListening: the connection is ended.
StopListening ==
    /\ process = "up" /\ shutdown.phase = "unlistening" /\ listening # "connecting"
    /\ listening' = "stopped"
    /\ shutdown' = [shutdown EXCEPT !.phase = "awaiting"]
    /\ UNCHANGED <<loop, ticking, wakeRequested, pool, process, owed>>

\* Mutant: the stop does not wait for the pass in flight.
SettledAlways == TRUE
\* inFlightPromise is null or has settled.
Settled == ~loop[Stopped].inFlight

\* await inFlightPromise, then the next stop, or the server and the pool.
AwaitInFlight ==
    /\ process = "up" /\ shutdown.phase = "awaiting" /\ Settled
    /\ shutdown' = [phase |-> IF shutdown.at < Len(StopOrder) THEN "stopping" ELSE "closing",
                    at |-> shutdown.at + 1]
    /\ UNCHANGED <<loop, ticking, wakeRequested, listening, pool, process, owed>>

\* stopServer, then sql.end().
EndPool == /\ process = "up" /\ shutdown.phase = "closing"
           /\ pool' = "ended"
           /\ shutdown' = [shutdown EXCEPT !.phase = "done"]
           /\ UNCHANGED <<loop, ticking, wakeRequested, listening, process, owed>>

-----------------------------------------------------------------------------
(* The specification.                                                      *)

Shutdown == StopLoop \/ StopListening \/ AwaitInFlight \/ EndPool

LoopsNext == \/ Wake \/ ListenSettles \/ ListenerBreaks \/ Signal \/ Shutdown
             \/ \E l \in Loops : TimerFires(l) \/ EndTick(l) \/ TickRejects(l)

LoopsSpec == LoopsInit /\ [][LoopsNext]_loopVars

-----------------------------------------------------------------------------
(* Properties.                                                             *)

\* src/lib/worker.test.ts:99, "coalesces wakeups received during an in-flight tick": a
\* wakeup that a pass may have come too early for is followed by another pass at once,
\* and not after the poll interval.
WakeupIsNotLost ==
    owed /\ process = "up" => loop[Worker].inFlight /\ wakeRequested

\* The pool is ended after the last pass: no statement of a loop finds it closed.
PoolOutlivesTicks ==
    pool = "ended" => \A l \in Loops : ticking[l] = 0 /\ ~loop[l].active
=============================================================================
