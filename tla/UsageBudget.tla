---------------------------- MODULE UsageBudget -----------------------------
(***************************************************************************)
(* Metered usage and the budget of one run (src/lib/store/usage.ts,         *)
(* budget.ts): recordUsage, which step bodies and the heartbeats of         *)
(* external sessions call, and the usage of a transactional body            *)
(* (src/lib/store/execution.ts).                                            *)
(*                                                                         *)
(* recordUsage is three statements that commit one by one: insert, read the *)
(* totals, end the run if they exceed the budget.  A transactional body     *)
(* keeps its usage in memory until its transaction ends.                    *)
(***************************************************************************)
EXTENDS Naturals, Sequences, FiniteSets

CONSTANTS
    Offers,          \* the usages that are recorded: [resource, amount, cost]
    Limit,           \* budget.resources: its domain need not have every resource
    CostLimit,       \* budget.costUsd
    Recorders,       \* calls of recordUsage under way
    MaxUsages,       \* bound: usages recorded
    MaxUsageFaults   \* bound: calls that end before their last statement

Resources == {u.resource : u \in Offers}

ASSUME UsageAssumption ==
    /\ \A u \in Offers : DOMAIN u = {"resource", "amount", "cost"} /\ {u.amount, u.cost} \subseteq Nat
    /\ DOMAIN Limit \subseteq Resources /\ \A r \in DOMAIN Limit : Limit[r] \in Nat
    /\ {CostLimit, MaxUsages, MaxUsageFaults} \subseteq Nat

VARIABLES
    metered,      \* per resource: the sum of amount in workflow_run_usage
    meteredCost,  \* the sum of cost_usd
    metering,     \* the run: "live", "exhausted", "failed" or "ended" in another way
    recorder,     \* per call: its next statement, and its usage
    body,         \* "none", "open": a transaction holds the run FOR UPDATE; "thrown": and
                  \* its body has been told that the budget is exhausted
    pending,      \* pendingUsage, of the transaction; each entry with the sums up to it
    usages,
    unchecked     \* calls that have inserted and not ended the run

usageVars == <<metered, meteredCost, metering, recorder, body, pending, usages, unchecked>>

NoCall == [pc |-> "idle"]

UsageTypeOK ==
    /\ metered \in [Resources -> Nat] /\ meteredCost \in Nat
    /\ metering \in {"live", "exhausted", "failed", "ended"}
    /\ recorder \in [Recorders -> {NoCall} \cup [pc : {"total", "exhaust"}, usage : Offers]]
    /\ body \in {"none", "open", "thrown"}
    /\ pending \in Seq([usage : Offers, amount : [Resources -> Nat], cost : Nat])
    /\ usages \in 0..MaxUsages /\ unchecked \in 0..MaxUsageFaults

UsageInit == /\ metered = [r \in Resources |-> 0] /\ meteredCost = 0
             /\ metering = "live"
             /\ recorder = [c \in Recorders |-> NoCall]
             /\ body = "none" /\ pending = <<>>
             /\ usages = 0 /\ unchecked = 0

-----------------------------------------------------------------------------
(* getBudgetExhaustion: the resource of this usage, and the cost.           *)

Exhausted(u, amount, cost) ==
    (u.resource \in DOMAIN Limit /\ amount > Limit[u.resource]) \/ cost > CostLimit

Spend == usages < MaxUsages /\ usages' = usages + 1

-----------------------------------------------------------------------------
(* recordUsage.                                                            *)

\* InsertUsage, whatever the status of the run.  Its foreign key waits for a transaction
\* that holds the run.
InsertUsage(c, u) ==
    /\ recorder[c] = NoCall /\ body = "none" /\ Spend
    /\ metered' = [metered EXCEPT ![u.resource] = @ + u.amount]
    /\ meteredCost' = meteredCost + u.cost
    /\ recorder' = [recorder EXCEPT ![c] = [pc |-> "total", usage |-> u]]
    /\ UNCHANGED <<metering, body, pending, unchecked>>

\* Mutant: the totals are trusted only by a call that is alone.
TotalsOfLoneCall(c) ==
    /\ recorder[c].pc = "total"
    /\ LET u == recorder[c].usage IN
       recorder' = [recorder EXCEPT ![c] =
           IF Exhausted(u, metered[u.resource], meteredCost)
              /\ \A d \in Recorders \ {c} : recorder[d] = NoCall
             THEN [pc |-> "exhaust", usage |-> u] ELSE NoCall]
    /\ UNCHANGED <<metered, meteredCost, metering, body, pending, usages, unchecked>>
\* GetUsageTotals.
GetUsageTotals(c) ==
    /\ recorder[c].pc = "total"
    /\ LET u == recorder[c].usage IN
       recorder' = [recorder EXCEPT ![c] =
           IF Exhausted(u, metered[u.resource], meteredCost)
             THEN [pc |-> "exhaust", usage |-> u] ELSE NoCall]
    /\ UNCHANGED <<metered, meteredCost, metering, body, pending, usages, unchecked>>

\* ExhaustRunBudget: a run that is not live is left alone, and the call throws.
ExhaustRunBudget(c) ==
    /\ recorder[c].pc = "exhaust" /\ body = "none"
    /\ recorder' = [recorder EXCEPT ![c] = NoCall]
    /\ IF metering = "live"
         THEN metering' = "exhausted" /\ UNCHANGED unchecked
         ELSE /\ UNCHANGED metering
              /\ IF metering = "failed"
                   THEN unchecked < MaxUsageFaults /\ unchecked' = unchecked + 1
                   ELSE UNCHANGED unchecked
    /\ UNCHANGED <<metered, meteredCost, body, pending, usages>>

\* The process dies, or a statement fails: what was inserted stays, and nobody looks at
\* the totals before the next usage.
CallBreaks(c) ==
    /\ recorder[c] # NoCall
    /\ unchecked < MaxUsageFaults /\ unchecked' = unchecked + 1
    /\ recorder' = [recorder EXCEPT ![c] = NoCall]
    /\ UNCHANGED <<metered, meteredCost, metering, body, pending, usages>>

-----------------------------------------------------------------------------
(* executeTransactionalTask.                                               *)

\* The sums of q, which are those of its last entry.
AmountOf(q, r) == IF q = <<>> THEN 0 ELSE q[Len(q)].amount[r]
CostOf(q) == IF q = <<>> THEN 0 ELSE q[Len(q)].cost
Pended(q, u) == Append(q, [usage |-> u, cost |-> CostOf(q) + u.cost,
                         amount |-> [r \in Resources |-> IF r = u.resource THEN AmountOf(q, r) + u.amount
                                                         ELSE AmountOf(q, r)]])

BeginBody == /\ metering = "live" /\ body = "none"
             /\ body' = "open"
             /\ UNCHANGED <<metered, meteredCost, metering, recorder, pending, usages, unchecked>>

\* recordUsage of the body: the totals of the table, of pendingUsage and of this usage.
PendUsage(u) ==
    /\ body \in {"open", "thrown"} /\ Spend
    /\ pending' = Pended(pending, u)
    /\ body' = IF Exhausted(u, metered[u.resource] + AmountOf(pending', u.resource),
                            meteredCost + CostOf(pending'))
                 THEN "thrown" ELSE body
    /\ UNCHANGED <<metered, meteredCost, metering, recorder, unchecked>>

\* The rows of q are inserted.
Insert(q) == /\ metered' = [r \in Resources |-> metered[r] + AmountOf(q, r)]
             /\ meteredCost' = meteredCost + CostOf(q)

\* The usages that exceed the budget when those before them are in the table.
Exceeding == {i \in DOMAIN pending :
                LET p == pending[i]  r == p.usage.resource IN
                Exhausted(p.usage, metered[r] + p.amount[r], meteredCost + p.cost)}

EndBody == body' = "none" /\ pending' = <<>> /\ UNCHANGED <<recorder, usages, unchecked>>

\* The body returns, even though it may have been told: its usages are recorded one by
\* one, up to the first that exceeds the budget.
CommitBody ==
    /\ body # "none" /\ EndBody
    /\ IF Exceeding = {}
         THEN Insert(pending) /\ UNCHANGED metering
         ELSE /\ metering' = "exhausted"
              /\ \E i \in Exceeding : /\ \A j \in Exceeding : i <= j
                                      /\ Insert(SubSeq(pending, 1, i))

\* It throws TransactionBudgetExceededError on: its writes are undone, and its usages are
\* inserted again, all of them.
CommitExhausted == /\ body = "thrown" /\ EndBody
                   /\ metering' = "exhausted" /\ Insert(pending)

\* It throws something else: the usages go with its writes, and the run is queued for
\* another attempt or failed.  If the connection breaks nothing remains at all.
FailBody == /\ body # "none" /\ EndBody
            /\ metering' \in {"live", "failed"}
            /\ UNCHANGED <<metered, meteredCost>>

-----------------------------------------------------------------------------
(* What else happens to the run.                                           *)

\* It completes, is canceled or fails: also while a call is under way.
RunEnds == /\ metering = "live" /\ body = "none"
           /\ metering' \in {"ended", "failed"}
           /\ UNCHANGED <<metered, meteredCost, recorder, body, pending, usages, unchecked>>

\* RetryRun.
Revive == /\ metering = "failed" /\ metering' = "live"
          /\ UNCHANGED <<metered, meteredCost, recorder, body, pending, usages, unchecked>>

-----------------------------------------------------------------------------
(* The specification.                                                      *)

UsageNext == \/ \E c \in Recorders : \/ \E u \in Offers : InsertUsage(c, u)
                                     \/ GetUsageTotals(c) \/ ExhaustRunBudget(c) \/ CallBreaks(c)
             \/ BeginBody \/ \E u \in Offers : PendUsage(u)
             \/ CommitBody \/ CommitExhausted \/ FailBody
             \/ RunEnds \/ Revive

UsageSpec == UsageInit /\ [][UsageNext]_usageVars

-----------------------------------------------------------------------------
(* Properties.                                                             *)

OverBudget == (\E r \in DOMAIN Limit : metered[r] > Limit[r]) \/ meteredCost > CostLimit

\* README.md:20, "auto-abort with exhausted_budget before LLM spend runs away": a run that
\* is ended for its budget has exceeded it in the table; and a run that has exceeded it
\* does not go on once the calls that recorded it have returned, unless one of them was
\* cut off or found the run failed.
BudgetIsEnforced ==
    /\ metering = "exhausted" => OverBudget
    /\ metering = "live" /\ OverBudget =>
          unchecked > 0 \/ \E c \in Recorders : recorder[c] # NoCall
=============================================================================
