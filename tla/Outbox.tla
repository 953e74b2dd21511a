------------------------------- MODULE Outbox -------------------------------
(***************************************************************************)
(* The outbox: messages that steps enqueue in workflow_outbox, and the      *)
(* drainers that hand them to the handler of their topic and mark them      *)
(* delivered (src/lib/outbox.ts, src/lib/store/outbox.ts).                  *)
(*                                                                         *)
(* A drainer claims a batch by moving its available_at 30 seconds ahead,    *)
(* then takes the messages one after the other: the handler is called and   *)
(* the message is marked in a statement of its own.  Claims do not lock     *)
(* anything: what is not marked in time is due again, for every drainer.    *)
(*                                                                         *)
(* Time is the order of available_at: outboxQueue holds the messages that   *)
(* are not delivered in that order, the first outboxDue of them are due.    *)
(***************************************************************************)
EXTENDS Naturals, Sequences, FiniteSets

CONSTANTS
    Messages,        \* rows of workflow_outbox
    Handled,         \* those whose topic has a handler
    Drainers,        \* processes that run the outbox loop
    DrainLimit,      \* the limit of one claim
    NoMessage,
    MaxDrainSlow,    \* bound: claims that expire while their drainer still works
    MaxDrainFaults   \* bound: handlers that throw, marks that fail, crashes

ASSUME OutboxAssumption ==
    /\ Handled \subseteq Messages /\ NoMessage \notin Messages
    /\ DrainLimit \in Nat \ {0} /\ IsFiniteSet(Drainers)
    /\ {MaxDrainSlow, MaxDrainFaults} \subseteq Nat

VARIABLES
    outbox,        \* per message: not enqueued yet, pending, or delivered_at set
    outboxQueue,   \* the pending messages in the order of available_at
    outboxDue,     \* how many of them have available_at <= now()
    drainer,       \* per process: the records of its batch, and the one at hand
    handedOver,    \* history: how often the handler of a message has succeeded
    drainSlow, drainFaults

outboxVars == <<outbox, outboxQueue, outboxDue, drainer, handedOver, drainSlow, drainFaults>>

IdleDrainer == [batch |-> {}, current |-> NoMessage, handed |-> FALSE]

OutboxTypeOK ==
    /\ outbox \in [Messages -> {"absent", "pending", "delivered"}]
    /\ outboxQueue \in Seq(Messages) /\ outboxDue \in 0..Len(outboxQueue)
    /\ drainer \in [Drainers -> [batch : SUBSET Messages, current : Messages \cup {NoMessage},
                                 handed : BOOLEAN]]
    /\ handedOver \in [Messages -> Nat]
    /\ drainSlow \in 0..MaxDrainSlow /\ drainFaults \in 0..MaxDrainFaults

OutboxInit ==
    /\ outbox = [m \in Messages |-> "absent"]
    /\ outboxQueue = <<>> /\ outboxDue = 0
    /\ drainer = [d \in Drainers |-> IdleDrainer]
    /\ handedOver = [m \in Messages |-> 0]
    /\ drainSlow = 0 /\ drainFaults = 0

-----------------------------------------------------------------------------
(* Enqueueing, and the passage of time.                                    *)

First(n) == SubSeq(outboxQueue, 1, n)
After(n) == SubSeq(outboxQueue, n + 1, Len(outboxQueue))

\* InsertOutbox: when the transaction of a transactional body commits, at once in every
\* other step.  COALESCE(availableAt, now()) is behind all that is due, an availableAt to
\* come behind all that has been claimed.
EnqueueOutbox(m) ==
    /\ outbox[m] = "absent"
    /\ outbox' = [outbox EXCEPT ![m] = "pending"]
    /\ \/ outboxQueue' = First(outboxDue) \o <<m>> \o After(outboxDue) /\ outboxDue' = outboxDue + 1
       \/ outboxQueue' = Append(outboxQueue, m) /\ UNCHANGED outboxDue
    /\ UNCHANGED <<drainer, handedOver, drainSlow, drainFaults>>

\* now() reaches the next available_at.  It is a slow drainer whose claim expires while
\* the message is still in its batch.
OutboxTimePasses ==
    /\ outboxDue < Len(outboxQueue)
    /\ outboxDue' = outboxDue + 1
    /\ IF \E d \in Drainers : outboxQueue[outboxDue + 1] \in drainer[d].batch
         THEN drainSlow < MaxDrainSlow /\ drainSlow' = drainSlow + 1
         ELSE UNCHANGED drainSlow
    /\ UNCHANGED <<outbox, outboxQueue, drainer, handedOver, drainFaults>>

-----------------------------------------------------------------------------
(* drainOutbox.                                                            *)

\* ClaimOutboxMessages: the oldest due messages, at most limit of them, whose
\* available_at becomes now() + 30 seconds.
ClaimSize == IF outboxDue < DrainLimit THEN outboxDue ELSE DrainLimit

\* Mutant: the claim leaves available_at alone.
ClaimWithoutLease(d) ==
    /\ drainer[d].batch = {} /\ outboxDue > 0
    /\ drainer' = [drainer EXCEPT ![d].batch = {outboxQueue[i] : i \in 1..ClaimSize}]
    /\ UNCHANGED <<outbox, outboxQueue, outboxDue, handedOver, drainSlow, drainFaults>>
ClaimOutboxMessages(d) ==
    /\ drainer[d].batch = {} /\ outboxDue > 0
    /\ drainer' = [drainer EXCEPT ![d].batch = {outboxQueue[i] : i \in 1..ClaimSize}]
    /\ outboxQueue' = After(ClaimSize) \o First(ClaimSize)
    /\ outboxDue' = outboxDue - ClaimSize
    /\ UNCHANGED <<outbox, handedOver, drainSlow, drainFaults>>

\* The record at hand is done with, well or badly: on to the next of the batch.
Leave(d) == drainer' = [drainer EXCEPT ![d] = [batch |-> @.batch \ {@.current},
                                               current |-> NoMessage, handed |-> FALSE]]

\* Mutant: a topic without a handler ends the pass.
NextRecordOrStop(d) ==
    /\ drainer[d].current = NoMessage
    /\ \E m \in drainer[d].batch :
          drainer' = IF m \in Handled
                       THEN [drainer EXCEPT ![d].current = m]
                       ELSE [drainer EXCEPT ![d].batch = {}]
    /\ UNCHANGED <<outbox, outboxQueue, outboxDue, handedOver, drainSlow, drainFaults>>
\* The next record of the batch, in the order in which the UPDATE has returned them,
\* which is no order.  A topic without a handler is reported and skipped.
NextRecord(d) ==
    /\ drainer[d].current = NoMessage
    /\ \E m \in drainer[d].batch :
          drainer' = IF m \in Handled
                       THEN [drainer EXCEPT ![d].current = m]
                       ELSE [drainer EXCEPT ![d].batch = @ \ {m}]
    /\ UNCHANGED <<outbox, outboxQueue, outboxDue, handedOver, drainSlow, drainFaults>>

\* The handler has done its work, or it throws: then onError is told and nothing is
\* marked.
Handle(d) ==
    /\ drainer[d].current # NoMessage /\ ~drainer[d].handed
    /\ \/ /\ handedOver' = [handedOver EXCEPT ![drainer[d].current] = @ + 1]
          /\ drainer' = [drainer EXCEPT ![d].handed = TRUE]
          /\ UNCHANGED drainFaults
       \/ /\ drainFaults < MaxDrainFaults /\ drainFaults' = drainFaults + 1
          /\ Leave(d)
          /\ UNCHANGED handedOver
    /\ UNCHANGED <<outbox, outboxQueue, outboxDue, drainSlow>>

\* Each message is in the queue once, as long as it is pending.
Position(m) == CHOOSE i \in DOMAIN outboxQueue : outboxQueue[i] = m
Without(m) == First(Position(m) - 1) \o After(Position(m))

\* Mutant: a late mark leaves the message where it was in the queue.
DeliverLate(m) ==
    /\ outbox' = [outbox EXCEPT ![m] = "delivered"]
    /\ outboxQueue' = Without(m)
    /\ UNCHANGED outboxDue
\* delivered_at = now() WHERE delivered_at IS NULL: the message is pending no more.
Deliver(m) ==
    /\ outbox' = [outbox EXCEPT ![m] = "delivered"]
    /\ outboxQueue' = Without(m)
    /\ outboxDue' = IF Position(m) <= outboxDue THEN outboxDue - 1 ELSE outboxDue

\* MarkOutboxDelivered: another drainer may have been first, and the statement may fail.
MarkOutboxDelivered(d) ==
    LET m == drainer[d].current IN
    /\ drainer[d].handed
    /\ Leave(d)
    /\ \/ outbox[m] = "pending" /\ Deliver(m) /\ UNCHANGED drainFaults
       \/ outbox[m] = "delivered" /\ UNCHANGED <<outbox, outboxQueue, outboxDue, drainFaults>>
       \/ /\ drainFaults < MaxDrainFaults /\ drainFaults' = drainFaults + 1
          /\ UNCHANGED <<outbox, outboxQueue, outboxDue>>
    /\ UNCHANGED <<handedOver, drainSlow>>

\* The process dies: its batch is due again when the 30 seconds are over.
DrainerCrashes(d) ==
    /\ drainer[d].batch # {}
    /\ drainFaults < MaxDrainFaults /\ drainFaults' = drainFaults + 1
    /\ drainer' = [drainer EXCEPT ![d] = IdleDrainer]
    /\ UNCHANGED <<outbox, outboxQueue, outboxDue, handedOver, drainSlow>>

-----------------------------------------------------------------------------
(* The specification.                                                      *)

Drain(d) == \/ ClaimOutboxMessages(d) \/ NextRecord(d) \/ Handle(d) \/ MarkOutboxDelivered(d)

OutboxNext == \/ \E m \in Messages : EnqueueOutbox(m)
              \/ OutboxTimePasses
              \/ \E d \in Drainers : Drain(d) \/ DrainerCrashes(d)

OutboxSpec == OutboxInit /\ [][OutboxNext]_outboxVars

\* The loop ticks for ever, handlers return, and available_at passes.
OutboxFairness == /\ WF_outboxVars(OutboxTimePasses)
                  /\ \A d \in Drainers : WF_outboxVars(Drain(d))

-----------------------------------------------------------------------------
(* Properties.                                                             *)

\* Delivery is at least once: whatever drainers do at the same time, neither a crash nor
\* an error between the two statements loses a message.  And it is handed over again only
\* at the price of a fault, or of a claim that was too short for its batch.
AtLeastOnceDelivery ==
    \A m \in Messages : /\ outbox[m] = "delivered" => handedOver[m] > 0
                        /\ handedOver[m] <= 1 + drainSlow + drainFaults

\* README.md:18, "drain loop delivers them later": every message that has a handler is
\* delivered, also behind messages that have none.
EveryMessageDelivered ==
    \A m \in Handled : outbox[m] = "pending" ~> outbox[m] = "delivered"
=============================================================================
