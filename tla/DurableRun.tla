----------------------------- MODULE DurableRun -----------------------------
(***************************************************************************)
(* What the engine promises of a run, with no worker, lease, attempt, retry *)
(* or crash in sight: a run is at one step of its definition at a time,      *)
(* moves only along the transitions of the definition, stops in a final      *)
(* phase it never leaves, and after a failure goes on only from the step     *)
(* that failed.  RunLifecycle implements it.                                *)
(***************************************************************************)
CONSTANTS
    Runs, Steps, NoStep,
    StartAt,    \* the first step of the definition
    Transitions,   \* Transitions[s]: the steps the definition may transition to from s
    EndSteps,   \* the steps of kind "end"
    RollSteps   \* the steps whose body may return continueAsNew

VARIABLE phase  \* phase[r]: what a client that reads run r sees of it

Phases == [state : {"absent", "live", "failed", "completed", "canceled", "exhausted_budget"},
           at    : Steps \cup {NoStep}]

Init == phase = [r \in Runs |-> [state |-> "absent", at |-> NoStep]]

Live(r) == phase[r].state = "live"

Start(r) == /\ phase[r].state = "absent"
            /\ phase' = [phase EXCEPT ![r] = [state |-> "live", at |-> StartAt]]

Move(r) == /\ Live(r)
           /\ \E t \in Transitions[phase[r].at] : phase' = [phase EXCEPT ![r].at = t]

Finish(r) == /\ Live(r)
             /\ phase[r].at \in EndSteps
             /\ phase' = [phase EXCEPT ![r] = [state |-> "completed", at |-> NoStep]]

\* The successor starts in the step in which its source completes.
Roll(r, q) == /\ Live(r)
              /\ phase[r].at \in RollSteps
              /\ phase[q].state = "absent"
              /\ phase' = [phase EXCEPT ![r] = [state |-> "completed", at |-> NoStep],
                                        ![q] = [state |-> "live", at |-> StartAt]]

\* An end step has no body that could fail or spend.
Fail(r) == /\ Live(r)
           /\ phase[r].at \notin EndSteps
           /\ phase' = [phase EXCEPT ![r].state = "failed"]

Reopen(r) == /\ phase[r].state = "failed"
             /\ phase' = [phase EXCEPT ![r].state = "live"]

Cancel(r) == /\ phase[r].state \in {"live", "failed"}
             /\ phase' = [phase EXCEPT ![r].state = "canceled"]

Exhaust(r) == /\ Live(r)
              /\ phase' = [phase EXCEPT ![r] = [state |-> "exhausted_budget", at |-> NoStep]]

Next == \E r \in Runs :
          \/ Start(r) \/ Move(r) \/ Finish(r) \/ Fail(r)
          \/ Reopen(r) \/ Cancel(r) \/ Exhaust(r)
          \/ \E q \in Runs : Roll(r, q)

Spec == Init /\ [][Next]_phase
=============================================================================
