---------------------------- MODULE EventStream -----------------------------
(***************************************************************************)
(* The server-sent events of one run, GET /v1/runs/:runId/stream            *)
(* (src/routes/workflows.ts), beside the transactions that write the        *)
(* events.                                                                 *)
(*                                                                         *)
(* An event gets created_at when its transaction begins, its id from a      *)
(* sequence when it is inserted, and is visible when the transaction        *)
(* commits.  A connection reads all events in the order of created_at and   *)
(* sends those whose id is greater than the last one it has sent.  What     *)
(* makes it read: its opening, notifications, and every 5 seconds a timer;  *)
(* but nothing while it is reading already.                                 *)
(***************************************************************************)
EXTENDS Naturals, Sequences, FiniteSets

CONSTANTS
    Writers,            \* transactions, each of which writes one event
    NotifiesInside,     \* those that notify before they commit: withTransaction
    MaxStreamFaults     \* bound: connections that break

ASSUME StreamAssumption == /\ IsFiniteSet(Writers) /\ NotifiesInside \subseteq Writers
                           /\ MaxStreamFaults \in Nat

VARIABLES
    stamp,         \* the order of begins, inserts and commits
    writer,        \* per transaction: how far it is, and when it began, inserted, committed
    notices,       \* notifications of the run that have not reached the connection
    stream,        \* the connection: whether it is open and listens, lastEventId, and
                   \* what sendPendingEvents is at
    received,      \* the events that the client has got
    streamFaults

streamVars == <<stamp, writer, notices, stream, received, streamFaults>>

Moments == 0..(3 * Cardinality(Writers))

StreamTypeOK ==
    /\ stamp \in Moments
    /\ writer \in [Writers -> [state : {"idle", "begun", "inserted", "committed", "done", "aborted"},
                               at : Moments, id : Moments, seen : Moments]]
    /\ notices \in 0..Cardinality(Writers)
    /\ stream \in [open : BOOLEAN, listening : BOOLEAN, lastEventId : Moments,
                   sending : {"no", "reading", "writing"}, events : SUBSET Writers]
    /\ received \in Seq(Writers)
    /\ streamFaults \in 0..MaxStreamFaults

StreamInit ==
    /\ stamp = 0
    /\ writer = [w \in Writers |-> [state |-> "idle", at |-> 0, id |-> 0, seen |-> 0]]
    /\ notices = 0
    /\ stream = [open |-> FALSE, listening |-> FALSE, lastEventId |-> 0,
                 sending |-> "no", events |-> {}]
    /\ received = <<>>
    /\ streamFaults = 0

-----------------------------------------------------------------------------
(* Writers.                                                                *)

Stamp == stamp' = stamp + 1

BeginWrite(w) ==
    /\ writer[w].state = "idle" /\ Stamp
    /\ writer' = [writer EXCEPT ![w].state = "begun", ![w].at = stamp']
    /\ UNCHANGED <<notices, stream, received, streamFaults>>

\* InsertEvent, by itself or in the statement that moves the run.  The stamp serves as
\* the id.
InsertEvent(w) ==
    /\ writer[w].state = "begun" /\ Stamp
    /\ writer' = [writer EXCEPT ![w].state = "inserted", ![w].id = stamp']
    /\ notices' = IF w \in NotifiesInside THEN notices + 1 ELSE notices
    /\ UNCHANGED <<stream, received, streamFaults>>

CommitEvent(w) ==
    /\ writer[w].state = "inserted" /\ Stamp
    /\ writer' = [writer EXCEPT ![w].state = IF w \in NotifiesInside THEN "done" ELSE "committed",
                                ![w].seen = stamp']
    /\ UNCHANGED <<notices, stream, received, streamFaults>>

AbortWrite(w) == /\ writer[w].state = "inserted"
                 /\ writer' = [writer EXCEPT ![w].state = "aborted"]
                 /\ UNCHANGED <<stamp, notices, stream, received, streamFaults>>

\* notifyRunEvent after the commit; the process may die before it.
Notify(w) ==
    /\ writer[w].state = "committed"
    /\ writer' = [writer EXCEPT ![w].state = "done"]
    /\ notices' \in {notices, notices + 1}
    /\ UNCHANGED <<stamp, stream, received, streamFaults>>

Visible == {w \in Writers : writer[w].state \in {"committed", "done"}}

-----------------------------------------------------------------------------
(* The connection.                                                         *)

\* The route, up to its first read: LISTEN may fail, then there is only the timer.  The
\* client asks for what follows the last id it has got.
OpenStream ==
    /\ ~stream.open
    /\ \E l \in BOOLEAN :
          stream' = [open |-> TRUE, listening |-> l, sending |-> "reading", events |-> {},
                     lastEventId |-> IF received = <<>> THEN 0 ELSE writer[received[Len(received)]].id]
    /\ notices' = 0
    /\ UNCHANGED <<stamp, writer, received, streamFaults>>

\* sendPendingEvents, called while it is under way, does nothing.
Trigger == IF stream.sending = "no" THEN stream' = [stream EXCEPT !.sending = "reading"]
                                    ELSE UNCHANGED stream

Notified == /\ stream.open /\ stream.listening /\ notices > 0
            /\ notices' = notices - 1
            /\ Trigger
            /\ UNCHANGED <<stamp, writer, received, streamFaults>>

\* Mutant: a connection that listens needs no timer.
PolledWithoutListening == /\ stream.open /\ ~stream.listening /\ stream.sending = "no"
                          /\ Trigger
                          /\ UNCHANGED <<stamp, writer, notices, received, streamFaults>>
Polled == /\ stream.open /\ stream.sending = "no"
          /\ Trigger
          /\ UNCHANGED <<stamp, writer, notices, received, streamFaults>>

\* GetRunEvents.
ReadEvents == /\ stream.sending = "reading"
              /\ stream' = [stream EXCEPT !.sending = "writing", !.events = Visible]
              /\ UNCHANGED <<stamp, writer, notices, received, streamFaults>>

\* ORDER BY created_at, id.
InOrder(S) == {q \in [1..Cardinality(S) -> S] :
                  /\ \A i, j \in DOMAIN q : i < j => writer[q[i]].at < writer[q[j]].at
                  /\ \A w \in S : \E i \in DOMAIN q : q[i] = w}

\* The loop over the events, which nothing interrupts: lastEventId moves on with each
\* event that is sent, so that one is sent if its id is above that of all before it.
Sent == {w \in stream.events : /\ writer[w].id > stream.lastEventId
                               /\ \A v \in stream.events : writer[v].at < writer[w].at
                                                             => writer[v].id < writer[w].id}
SendEvents ==
    /\ stream.sending = "writing"
    /\ \E q \in InOrder(Sent) :
          /\ received' = received \o q
          /\ stream' = [stream EXCEPT !.sending = "no", !.events = {},
                           !.lastEventId = IF q = <<>> THEN @ ELSE writer[q[Len(q)]].id]
    /\ UNCHANGED <<stamp, writer, notices, streamFaults>>

\* The client or the server goes away, or GetRunEvents fails: nobody handles that
\* rejection, and the process dies of it.
StreamBreaks ==
    /\ stream.open
    /\ streamFaults < MaxStreamFaults /\ streamFaults' = streamFaults + 1
    /\ stream' = [stream EXCEPT !.open = FALSE, !.listening = FALSE,
                                !.sending = "no", !.events = {}]
    /\ UNCHANGED <<stamp, writer, notices, received>>

-----------------------------------------------------------------------------
(* The specification.                                                      *)

Connection == ReadEvents \/ SendEvents

StreamNext == \/ \E w \in Writers : \/ BeginWrite(w) \/ InsertEvent(w) \/ CommitEvent(w)
                                    \/ AbortWrite(w) \/ Notify(w)
              \/ OpenStream \/ Notified \/ Polled \/ Connection \/ StreamBreaks

StreamSpec == StreamInit /\ [][StreamNext]_streamVars

\* The client reconnects, the timer goes on, reads return.
StreamFairness == WF_streamVars(OpenStream) /\ WF_streamVars(Connection) /\ WF_streamVars(Polled)

-----------------------------------------------------------------------------
(* Properties.                                                             *)

Got(w) == \E i \in DOMAIN received : received[i] = w
Overlapped(v, w) == writer[v].at < writer[w].seen /\ writer[w].at < writer[v].seen

\* TODO.txt:213, "SSE of events as they happen": across reconnections and lost
\* notifications a client gets every event that commits.  Only one whose transaction
\* overlapped with that of an event with a greater id may be passed over.
EveryEventStreams ==
    \A w \in Writers :
       w \in Visible ~> \/ Got(w)
                        \/ \E v \in Writers : Got(v) /\ writer[v].id > writer[w].id /\ Overlapped(v, w)
=============================================================================
