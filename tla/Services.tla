------------------------------ MODULE Services ------------------------------
(***************************************************************************)
(* What runs around the engine, and the run loop itself, side by side.  They *)
(* share nothing: a behaviour is one of the service that it has chosen at    *)
(* its start, while the others rest in their initial states.                *)
(***************************************************************************)
EXTENDS Outbox, Schedules, ProcessLoops, UsageBudget, EventStream, StartRun, RunTrees

\* The constants of RunLifecycle.
CONSTANTS Runs, Workers, WorkerIds, IdOf, Steps, StartAt, Kind, Transitions, RollSteps,
          SpendSteps, FatalSteps, MaxAttempts, MaxClaims, SlowClaims, MaxFaults, MaxRetries,
          NoStep, NoWorker, NoRun

VARIABLES service, row, attempts, continuedFrom, runWorker, claims, visits, retries, faults

runVars == <<row, attempts, continuedFrom, runWorker, claims, visits, retries, faults>>
vars == <<service, outboxVars, cronVars, loopVars, usageVars, streamVars, startVars, treesVars,
          runVars>>

Run == INSTANCE RunLifecycle WITH worker <- runWorker

ServiceNames == {"outbox", "schedules", "loops", "usage", "stream", "start", "trees", "run"}

Init == /\ service \in ServiceNames
        /\ OutboxInit /\ SchedulesInit /\ LoopsInit /\ UsageInit
        /\ StreamInit /\ StartInit /\ TreesInit /\ Run!Init

\* Every service is in a state of its types (the run: MCRunLifecycle).
ServiceTypeOK == /\ service \in ServiceNames
                 /\ OutboxTypeOK /\ SchedulesTypeOK /\ LoopsTypeOK /\ UsageTypeOK
                 /\ StreamTypeOK /\ StartTypeOK /\ TreesTypeOK

Next ==
    \/ /\ service = "outbox" /\ OutboxNext
       /\ UNCHANGED <<service, cronVars, loopVars, usageVars, streamVars, startVars, treesVars, runVars>>
    \/ /\ service = "schedules" /\ SchedulesNext
       /\ UNCHANGED <<service, outboxVars, loopVars, usageVars, streamVars, startVars, treesVars, runVars>>
    \/ /\ service = "loops" /\ LoopsNext
       /\ UNCHANGED <<service, outboxVars, cronVars, usageVars, streamVars, startVars, treesVars, runVars>>
    \/ /\ service = "usage" /\ UsageNext
       /\ UNCHANGED <<service, outboxVars, cronVars, loopVars, streamVars, startVars, treesVars, runVars>>
    \/ /\ service = "stream" /\ StreamNext
       /\ UNCHANGED <<service, outboxVars, cronVars, loopVars, usageVars, startVars, treesVars, runVars>>
    \/ /\ service = "start" /\ StartNext
       /\ UNCHANGED <<service, outboxVars, cronVars, loopVars, usageVars, streamVars, treesVars, runVars>>
    \/ /\ service = "trees" /\ TreesNext
       /\ UNCHANGED <<service, outboxVars, cronVars, loopVars, usageVars, streamVars, startVars, runVars>>
    \/ /\ service = "run" /\ Run!Next
       /\ UNCHANGED <<service, outboxVars, cronVars, loopVars, usageVars, streamVars, startVars,
                      treesVars>>

\* The fairness of each service, for the behaviours that have chosen it.
Fairness ==
    /\ WF_outboxVars(service = "outbox" /\ OutboxTimePasses)
    /\ \A d \in Drainers : WF_outboxVars(service = "outbox" /\ Drain(d))
    /\ WF_streamVars(service = "stream" /\ OpenStream)
    /\ WF_streamVars(service = "stream" /\ Connection)
    /\ WF_streamVars(service = "stream" /\ Polled)
    /\ \A w \in Workers : WF_runVars(service = "run" /\ Run!WorkerStep(w))
    /\ \A r \in Runs : /\ WF_runVars(service = "run" /\ \E w \in Workers : Run!Claim(w, r))
                      /\ WF_runVars(service = "run" /\ Run!BecomeDue(r))
                      /\ WF_runVars(service = "run" /\ Run!LeaseExpires(r))

Spec == Init /\ [][Next]_vars /\ Fairness

\* Every run that was started settles for good, whatever workers crash on it.
EveryRunSettles == Run!EveryRunSettles
=============================================================================
