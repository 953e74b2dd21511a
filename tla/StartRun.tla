------------------------------ MODULE StartRun ------------------------------
(***************************************************************************)
(* Starts of runs with an idempotency key (src/lib/store/runs.ts, startRun): *)
(* one transaction of several statements, each of which sees what has been  *)
(* committed when it begins; UNIQUE (definition_name, idempotency_key)      *)
(* makes the transactions that insert the same key wait for each other.     *)
(***************************************************************************)
EXTENDS Naturals, Sequences, FiniteSets

CONSTANTS
    Keys,           \* pairs of a workflow and an idempotency key
    Clients,        \* requests that start a run
    NoKey,
    MaxNewRuns,     \* bound: rows that are inserted
    MaxStartFaults  \* bound: transactions that are cut off

ASSUME StartAssumption == NoKey \notin Keys /\ {MaxNewRuns, MaxStartFaults} \subseteq Nat

VARIABLES
    newRuns,      \* the rows inserted, with their key, whether their transaction is open,
                  \* committed or undone, and the number of their events run.started
    client,       \* per request: its next statement, its key, and the row it inserted
    answers,      \* history: the pairs of a key and the run that answered a request for it
    startFaults

startVars == <<newRuns, client, answers, startFaults>>

NoRequestYet == [pc |-> "idle", key |-> NoKey, run |-> 0]

StartTypeOK ==
    /\ newRuns \in Seq([key : Keys, state : {"open", "committed", "undone"}, announced : Nat])
    /\ Len(newRuns) <= MaxNewRuns
    /\ client \in [Clients -> [pc : {"idle", "insert", "commit", "lookup"},
                               key : Keys \cup {NoKey}, run : 0..MaxNewRuns]]
    /\ answers \subseteq Keys \X (1..MaxNewRuns)
    /\ startFaults \in 0..MaxStartFaults

StartInit == /\ newRuns = <<>>
             /\ client = [c \in Clients |-> NoRequestYet]
             /\ answers = {} /\ startFaults = 0

-----------------------------------------------------------------------------
(* startRun.                                                               *)

With(k, state) == {r \in DOMAIN newRuns : newRuns[r].key = k /\ newRuns[r].state = state}

Answer(c, r) == /\ answers' = answers \cup {<<client[c].key, r>>}
                /\ client' = [client EXCEPT ![c] = NoRequestYet]

\* StartRunIdempotent, its snapshot: existing_run is a row, or the statement goes on to
\* insert one.
FindExisting(c) ==
    /\ client[c].pc = "idle"
    /\ \E k \in Keys :
          IF With(k, "committed") # {}
            THEN answers' = answers \cup {<<k, r>> : r \in With(k, "committed")} /\ UNCHANGED client
            ELSE /\ client' = [client EXCEPT ![c] = [NoRequestYet EXCEPT !.pc = "insert", !.key = k]]
                 /\ UNCHANGED answers
    /\ UNCHANGED <<newRuns, startFaults>>

\* Mutant: the constraint is missing.
NoConflict(k) == TRUE
\* A row that has been committed since the snapshot is a conflict.
Free(k) == With(k, "committed") = {}

\* ON CONFLICT DO NOTHING: it waits for the transaction that has inserted the key, and
\* returns no row if that one commits.
InsertOrConflict(c) ==
    LET k == client[c].key IN
    /\ client[c].pc = "insert" /\ With(k, "open") = {}
    /\ IF Free(k)
         THEN /\ Len(newRuns) < MaxNewRuns
              /\ newRuns' = Append(newRuns, [key |-> k, state |-> "open", announced |-> 0])
              /\ client' = [client EXCEPT ![c].pc = "commit", ![c].run = Len(newRuns) + 1]
         ELSE client' = [client EXCEPT ![c].pc = "lookup"] /\ UNCHANGED newRuns
    /\ UNCHANGED <<answers, startFaults>>

\* GetRunByDefinitionAndIdempotencyKey sees what has been committed meanwhile.  As no row
\* is ever deleted, the InsertRun behind it is never reached.
LookUp(c) == /\ client[c].pc = "lookup"
             /\ \E r \in With(client[c].key, "committed") : Answer(c, r)
             /\ UNCHANGED <<newRuns, startFaults>>

\* The row was inserted: run.started, the notifications, the commit.
CommitStart(c) ==
    /\ client[c].pc = "commit"
    /\ newRuns' = [newRuns EXCEPT ![client[c].run].state = "committed",
                                  ![client[c].run].announced = @ + 1]
    /\ Answer(c, client[c].run)
    /\ UNCHANGED startFaults

\* notifyRunnable, which is awaited before the commit, fails, or the connection does.
AbortStart(c) ==
    /\ client[c].pc = "commit"
    /\ startFaults < MaxStartFaults /\ startFaults' = startFaults + 1
    /\ newRuns' = [newRuns EXCEPT ![client[c].run].state = "undone"]
    /\ client' = [client EXCEPT ![c] = NoRequestYet]
    /\ UNCHANGED answers

-----------------------------------------------------------------------------
(* The specification.                                                      *)

StartNext == \E c \in Clients : \/ FindExisting(c) \/ InsertOrConflict(c) \/ LookUp(c)
                                \/ CommitStart(c) \/ AbortStart(c)

StartSpec == StartInit /\ [][StartNext]_startVars

-----------------------------------------------------------------------------
(* Properties.                                                             *)

\* TODO.txt:51, "dedup duplicate starts durably": whatever requests arrive at once, also
\* when one of them is rolled back, all that name the same key are answered with the same
\* run, which is in the table and has been announced once.
OneRunPerKey ==
    /\ \A a, b \in answers : a[1] = b[1] => a[2] = b[2]
    /\ \A a \in answers : newRuns[a[2]].state = "committed" /\ newRuns[a[2]].announced = 1
=============================================================================
