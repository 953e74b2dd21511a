----------------------------- MODULE Schedules ------------------------------
(***************************************************************************)
(* Cron schedules: the scheduler loops that fire them                       *)
(* (src/lib/scheduler.ts, src/lib/store/schedules.ts) and the operators who *)
(* create, pause, resume and delete them                                    *)
(* (src/routes/workflows/schedules-operator-routes.ts).                     *)
(*                                                                         *)
(* A transaction claims what is due and writes the next fire times; only    *)
(* after its commit are the runs started, one by one.  The database decides *)
(* what is due, each process computes the next fire time with its own       *)
(* clock.  A pause and a resume read the list of schedules first and write  *)
(* what they have made of it later.                                         *)
(*                                                                         *)
(* A time is the number of an occurrence of the cron expression: every      *)
(* schedule has one at each time.                                           *)
(***************************************************************************)
EXTENDS Integers, Sequences, FiniteSets

CONSTANTS
    ScheduleIds,     \* rows of workflow_schedules
    Registered,      \* those whose workflow has a definition in the engine
    Schedulers,      \* processes that run the schedule loop
    Skew,            \* per scheduler: its clock minus that of the database
    MaxSkew,         \* at most this
    FireLimit,       \* the limit of one pass
    NoSchedule,
    LastTime,        \* bound: the last occurrence
    MaxOperations,   \* bound: requests of operators
    MaxSetBacks,     \* bound: per schedule, claims by a process whose clock is behind it
    MaxFireFaults    \* bound: crashes and starts of runs that fail

\* The fire times that can be written: one after the fastest clock.
Clocks == 0..(LastTime + 1 + MaxSkew)

ASSUME ScheduleAssumption ==
    /\ Registered \subseteq ScheduleIds /\ NoSchedule \notin ScheduleIds
    /\ IsFiniteSet(Schedulers)
    /\ MaxSkew \in Nat /\ Skew \in [Schedulers -> Int]
    /\ \A p \in Schedulers : Skew[p] <= MaxSkew
    /\ FireLimit \in Nat \ {0}
    /\ {LastTime, MaxOperations, MaxSetBacks, MaxFireFaults} \subseteq Nat

VARIABLES
    clock,       \* now() of the database
    cron,        \* per schedule: its row
    scheduler,   \* per process: what it has claimed and not started, oldest first
    operator,    \* the pause or resume that has read the list and not written yet
    claimedAt,   \* history: per schedule and time, how often that occurrence was claimed
    startedAt,   \* history: per schedule and time, how many runs were started for it
    setBacks,    \* history: per schedule, the claims by a clock before the fire time
    operations, resumes, fireFaults

cronVars == <<clock, cron, scheduler, operator, claimedAt, startedAt, setBacks,
              operations, resumes, fireFaults>>

NoRequest == [kind |-> "none", schedule |-> NoSchedule, next |-> 0]

SchedulesTypeOK ==
    /\ clock \in 0..LastTime
    /\ cron \in [ScheduleIds -> [exists : BOOLEAN, active : BOOLEAN, next : Clocks]]
    /\ scheduler \in [Schedulers -> Seq(ScheduleIds \X Clocks)]
    /\ operator \in [kind : {"none", "pause", "resume"}, schedule : ScheduleIds \cup {NoSchedule},
                     next : Clocks]
    /\ claimedAt \in [ScheduleIds \X Clocks -> Nat]
    /\ startedAt \in [ScheduleIds \X Clocks -> Nat]
    /\ setBacks \in [ScheduleIds -> 0..MaxSetBacks]
    /\ operations \in 0..MaxOperations /\ resumes \in 0..MaxOperations
    /\ fireFaults \in 0..MaxFireFaults

SchedulesInit ==
    /\ clock = 0
    /\ cron = [s \in ScheduleIds |-> [exists |-> FALSE, active |-> FALSE, next |-> 0]]
    /\ scheduler = [p \in Schedulers |-> <<>>]
    /\ operator = NoRequest
    /\ claimedAt = [o \in ScheduleIds \X Clocks |-> 0]
    /\ startedAt = [o \in ScheduleIds \X Clocks |-> 0]
    /\ setBacks = [s \in ScheduleIds |-> 0]
    /\ operations = 0 /\ resumes = 0 /\ fireFaults = 0

-----------------------------------------------------------------------------
(* Clocks.                                                                 *)

\* Mutant: currentDate itself counts.
NextFireAtOrNow(now) == now
\* getNextFireAt: the first occurrence after currentDate.
NextFireAt(now) == now + 1

ClockOf(p) == IF clock + Skew[p] < 0 THEN 0 ELSE clock + Skew[p]

ClockTicks == /\ clock < LastTime
              /\ clock' = clock + 1
              /\ UNCHANGED <<cron, scheduler, operator, claimedAt, startedAt, setBacks,
                             operations, resumes, fireFaults>>

-----------------------------------------------------------------------------
(* The schedule loop.                                                      *)

DueSchedules == {s \in ScheduleIds : cron[s].exists /\ cron[s].active /\ cron[s].next <= clock}

\* ORDER BY next_fire_at LIMIT :limit, as one of the lists it can return.
Claims == {q \in UNION {[1..n -> DueSchedules] : n \in 0..FireLimit} :
              /\ \A i, j \in DOMAIN q : /\ q[i] = q[j] => i = j
                                        /\ i < j => cron[q[i]].next <= cron[q[j]].next
              /\ Len(q) < FireLimit => \A s \in DueSchedules : \E i \in DOMAIN q : q[i] = s
              /\ \A s \in DueSchedules : \A i \in DOMAIN q :
                    cron[s].next < cron[q[i]].next => \E j \in DOMAIN q : q[j] = s}

\* fireDueSchedules: ClaimDueSchedules locks the rows, RescheduleAfterFire writes the
\* next fire times, all of one transaction.  The rows it returns are those before that.
\* The database has found the rows due: by the clock of a process that is behind, the
\* occurrence it claims may be still to come, and is the next one again.
FireDueSchedules(p) ==
    /\ scheduler[p] = <<>> /\ DueSchedules # {}
    /\ \E q \in Claims :
          LET taken == {q[i] : i \in DOMAIN q}
              early == {s \in taken : ClockOf(p) < cron[s].next} IN
          /\ \A s \in early : setBacks[s] < MaxSetBacks
          /\ setBacks' = [s \in ScheduleIds |-> IF s \in early THEN setBacks[s] + 1 ELSE setBacks[s]]
          /\ scheduler' = [scheduler EXCEPT ![p] = [i \in DOMAIN q |-> <<q[i], cron[q[i]].next>>]]
          /\ cron' = [s \in ScheduleIds |->
                        IF s \in taken THEN [cron[s] EXCEPT !.next = NextFireAt(ClockOf(p))]
                        ELSE cron[s]]
          /\ claimedAt' = [o \in DOMAIN claimedAt |->
                            IF o[1] \in taken /\ cron[o[1]].next = o[2]
                              THEN claimedAt[o] + 1 ELSE claimedAt[o]]
    /\ UNCHANGED <<clock, operator, startedAt, operations, resumes, fireFaults>>

\* The next schedule of the list: engine.startRun, without an idempotency key, or
\* nothing if the engine does not know the workflow.  An error goes to the catch of the
\* tick, and with it the rest of the list.
StartFired(p) ==
    /\ scheduler[p] # <<>>
    /\ \/ /\ Head(scheduler[p])[1] \in Registered
          /\ startedAt' = [startedAt EXCEPT ![Head(scheduler[p])] = @ + 1]
          /\ scheduler' = [scheduler EXCEPT ![p] = Tail(@)]
          /\ UNCHANGED fireFaults
       \/ /\ Head(scheduler[p])[1] \notin Registered
          /\ scheduler' = [scheduler EXCEPT ![p] = Tail(@)]
          /\ UNCHANGED <<startedAt, fireFaults>>
       \/ /\ Head(scheduler[p])[1] \in Registered
          /\ fireFaults < MaxFireFaults /\ fireFaults' = fireFaults + 1
          /\ scheduler' = [scheduler EXCEPT ![p] = <<>>]
          /\ UNCHANGED startedAt
    /\ UNCHANGED <<clock, cron, operator, claimedAt, setBacks, operations, resumes>>

SchedulerCrashes(p) ==
    /\ scheduler[p] # <<>>
    /\ fireFaults < MaxFireFaults /\ fireFaults' = fireFaults + 1
    /\ scheduler' = [scheduler EXCEPT ![p] = <<>>]
    /\ UNCHANGED <<clock, cron, operator, claimedAt, startedAt, setBacks, operations, resumes>>

-----------------------------------------------------------------------------
(* The routes of operators; their process has the clock of the database.    *)

Operate == operations < MaxOperations /\ operations' = operations + 1

\* POST /schedules: active is TRUE by default.  An id is used once.
CreateSchedule(s) ==
    /\ ~cron[s].exists /\ cron[s].next = 0
    /\ cron' = [cron EXCEPT ![s] = [exists |-> TRUE, active |-> TRUE, next |-> NextFireAt(clock)]]
    /\ UNCHANGED <<clock, scheduler, operator, claimedAt, startedAt, setBacks,
                   operations, resumes, fireFaults>>

DeleteSchedule(s) ==
    /\ cron[s].exists /\ Operate
    /\ cron' = [cron EXCEPT ![s].exists = FALSE]
    /\ UNCHANGED <<clock, scheduler, operator, claimedAt, startedAt, setBacks, resumes, fireFaults>>

\* POST /pause and /resume, first half: listSchedules, and for a resume the next fire
\* time of the clock, whatever the schedule is doing.
ReadSchedule(s) ==
    /\ operator = NoRequest /\ cron[s].exists /\ Operate
    /\ operator' \in {[kind |-> "pause", schedule |-> s, next |-> cron[s].next],
                      [kind |-> "resume", schedule |-> s, next |-> NextFireAt(clock)]}
    /\ UNCHANGED <<clock, cron, scheduler, claimedAt, startedAt, setBacks, resumes, fireFaults>>

\* Second half, UpdateScheduleActive: unconditional, but for a row that has been deleted.
WriteSchedule ==
    LET s == operator.schedule IN
    /\ operator # NoRequest
    /\ cron' = IF cron[s].exists
                 THEN [cron EXCEPT ![s].active = (operator.kind = "resume"), ![s].next = operator.next]
                 ELSE cron
    /\ resumes' = IF operator.kind = "resume" THEN resumes + 1 ELSE resumes
    /\ operator' = NoRequest
    /\ UNCHANGED <<clock, scheduler, claimedAt, startedAt, setBacks, operations, fireFaults>>

-----------------------------------------------------------------------------
(* The specification.                                                      *)

SchedulesNext == \/ ClockTicks \/ WriteSchedule
                 \/ \E p \in Schedulers : FireDueSchedules(p) \/ StartFired(p) \/ SchedulerCrashes(p)
                 \/ \E s \in ScheduleIds : CreateSchedule(s) \/ DeleteSchedule(s) \/ ReadSchedule(s)

SchedulesSpec == SchedulesInit /\ [][SchedulesNext]_cronVars

-----------------------------------------------------------------------------
(* Properties.                                                             *)

\* A list names a schedule once, so it holds an occurrence once.
Pending(o) == {p \in Schedulers : \E i \in DOMAIN scheduler[p] : scheduler[p][i] = o}
\* The claims of an occurrence for which no run was started, or will be.
Missed(o) == IF o[1] \in Registered
               THEN claimedAt[o] - startedAt[o] - Cardinality(Pending(o)) ELSE 0

\* Every process's loop claims what is due, and a claim writes the next fire time before it
\* starts anything.  So however many processes there are, and whatever their clocks show, an
\* occurrence starts one run, and one more at most for a resume, which may write a fire time
\* older than the row's, and for a claim by a clock that has not come to the occurrence yet
\* (schedules.ts:129), which may open it again.  The start comes after the commit of the
\* claim: a crash or a failed start loses the rest of one list, and nothing else is lost.
OneRunPerOccurrence ==
    \A o \in DOMAIN startedAt : /\ startedAt[o] <= 1 + resumes + setBacks[o[1]]
                                /\ Missed(o) <= fireFaults

\* The scheduler as TODO.txt:56 has it, "atomic claim and dispatch": a claim always comes to
\* its run.  It does not hold.
EveryClaimStarts == \A o \in DOMAIN startedAt : Missed(o) = 0

\* Only a resume opens an occurrence again.  It does not hold beside a clock that is behind.
OccurrencesStartOnce == \A o \in DOMAIN startedAt : startedAt[o] <= 1 + resumes
=============================================================================
