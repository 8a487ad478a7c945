----------------------------- MODULE ExportWorker -----------------------------
(***************************************************************************)
(* promptrail.exporter: the bounded EventQueue, the daemon thread of       *)
(* ExportWorker that batches and sends, and shutdown, which joins the      *)
(* thread and drains the queue itself. The thread ("worker") and a caller  *)
(* of shutdown ("drainer") run the same _send_with_backoff, each on a      *)
(* batch of its own. Events are numbered as they are offered.              *)
(*                                                                         *)
(* The clock is reduced to whether a shutdown's deadline has passed: a     *)
(* process reads it when it acts. What the collector reads and whether its *)
(* answer arrives are two steps.                                           *)
(*                                                                         *)
(* Where a process (pc) can be:                                            *)
(*   off       the thread is not alive; no shutdown is under way           *)
(*   top       the thread is at the test of _stop                          *)
(*   get       in the queue's get, of the thread or of _drain_until        *)
(*   attempt   at the head of the retry loop                               *)
(*   request   in sender.send, nothing read by the collector               *)
(*   accepted  in sender.send, the collector has read the batch            *)
(*   backoff   an attempt failed                                           *)
(*   join      shutdown waits for the thread                               *)
(*   close     shutdown is about to close the sender                       *)
(***************************************************************************)
EXTENDS Sequences, Integers, FiniteSets

CONSTANTS
    MaxEvents,      \* bound on the events the application offers
    Bad,            \* events that cannot be serialized
    Capacity, BatchSize, MaxRetries,
    MaxShutdowns    \* bound on the calls of shutdown

ASSUME ExporterAssumption ==
    /\ {Capacity, BatchSize, MaxRetries} \subseteq Nat \ {0}
    /\ {MaxEvents, MaxShutdowns} \subseteq Nat
    /\ Bad \subseteq 1..MaxEvents

Processes == {"worker", "drainer"}

VARIABLES
    offered,        \* number of events offered so far
    queue,
    pc, batch,
    attempts,       \* of the batch, in _send_with_backoff
    watched,        \* the shutdown whose deadline the send heeds, 0 if none
    then,           \* where _send_with_backoff returns to
    stop, shutdowns,
    expired,        \* the last shutdown whose deadline has passed
    connected,      \* the sender has a connection
    received,       \* history: what the collector has read
    deliveries,     \* history: times it has read the batch being sent
    dropped_full, dropped_serialization, failed_exports

sends    == <<attempts, watched, then>>
stopping == <<stop, shutdowns, expired>>
drops    == <<dropped_full, dropped_serialization, failed_exports>>
vars == <<offered, queue, pc, batch, sends, stopping, connected, received,
          deliveries, drops>>

At(p, l) == pc[p] = l
Goto(p, l) == pc' = [pc EXCEPT ![p] = l]

Late(deadline) == deadline # 0 /\ deadline <= expired

\* A process is in sender.send.
Sending(p) == pc[p] \in {"request", "accepted"}

-----------------------------------------------------------------------------
Init ==
    /\ offered = 0 /\ queue = <<>>
    /\ pc = [p \in Processes |-> "off"]
    /\ batch = [p \in Processes |-> <<>>]
    /\ attempts = [p \in Processes |-> 0]
    /\ watched = [p \in Processes |-> 0]
    /\ then = [p \in Processes |-> "off"]
    /\ stop = FALSE /\ shutdowns = 0 /\ expired = 0
    /\ connected = FALSE
    /\ received = <<>> /\ deliveries = 0
    /\ dropped_full = 0 /\ dropped_serialization = 0 /\ failed_exports = 0

\* enqueue, at any time: a full queue drops the newest event.
Enqueue ==
    /\ offered < MaxEvents
    /\ offered' = offered + 1
    /\ IF Len(queue) < Capacity
       THEN queue' = Append(queue, offered') /\ UNCHANGED dropped_full
       ELSE dropped_full' = dropped_full + 1 /\ UNCHANGED queue
    /\ UNCHANGED <<pc, batch, sends, stopping, connected, received, deliveries,
                   dropped_serialization, failed_exports>>

\* start, by the thread that also shuts down.
Start ==
    /\ At("worker", "off") /\ At("drainer", "off")
    /\ Goto("worker", "top")
    /\ UNCHANGED <<offered, queue, batch, sends, stopping, connected, received,
                   deliveries, drops>>

-----------------------------------------------------------------------------
(* _send_with_backoff                                                      *)

\* The send returns: the caller goes on with an empty batch.
Done(p) ==
    /\ Goto(p, then[p])
    /\ batch' = [batch EXCEPT ![p] = <<>>]
    /\ attempts' = [attempts EXCEPT ![p] = 0]
    /\ deliveries' = 0
    /\ UNCHANGED <<watched, then>>

\* The call with batch b, which returns to l. A batch that does not encode is
\* dropped. The thread heeds the deadline of a shutdown that has been called,
\* and none if there is none yet.
Send(p, b, l) ==
    /\ IF \E i \in DOMAIN b : b[i] \in Bad
       THEN /\ dropped_serialization' = dropped_serialization + Len(b)
            /\ batch' = [batch EXCEPT ![p] = <<>>]
            /\ Goto(p, l)
            /\ UNCHANGED sends
       ELSE /\ batch' = [batch EXCEPT ![p] = b]
            /\ watched' = [watched EXCEPT ![p] = shutdowns]
            /\ then' = [then EXCEPT ![p] = l]
            /\ Goto(p, "attempt")
            /\ UNCHANGED <<attempts, dropped_serialization>>
    /\ UNCHANGED <<dropped_full, failed_exports, deliveries>>

CountFailure(p) ==
    /\ failed_exports' = failed_exports + Len(batch[p])
    /\ UNCHANGED <<dropped_full, dropped_serialization>>

\* The head of the loop: past the deadline the batch is given up.
Attempt(p) ==
    /\ At(p, "attempt")
    /\ IF Late(watched[p])
       THEN Done(p) /\ CountFailure(p) /\ UNCHANGED connected
       ELSE /\ attempts' = [attempts EXCEPT ![p] = @ + 1]
            /\ Goto(p, "request")
            /\ connected' = TRUE
            /\ UNCHANGED <<batch, watched, then, deliveries, drops>>
    /\ UNCHANGED <<offered, queue, stopping, received>>

\* The collector reads the request.
Accepted(p) ==
    /\ At(p, "request")
    /\ received' = received \o batch[p]
    /\ deliveries' = deliveries + 1
    /\ Goto(p, "accepted")
    /\ UNCHANGED <<offered, queue, batch, sends, stopping, connected, drops>>

\* Its answer arrives.
Confirmed(p) ==
    /\ At(p, "accepted")
    /\ Done(p)
    /\ UNCHANGED <<offered, queue, stopping, connected, received, drops>>

\* Faulty: a permanent rejection is not counted.
Rejected_Silent(p) ==
    /\ At(p, "request")
    /\ Done(p)
    /\ UNCHANGED <<offered, queue, stopping, connected, received, drops>>

\* An answer that is not worth a retry.
Rejected(p) ==
    /\ At(p, "request")
    /\ Done(p)
    /\ CountFailure(p)
    /\ UNCHANGED <<offered, queue, stopping, connected, received>>

\* An answer worth a retry, or a transport error, before or after the collector
\* read the request. A transport error closes the connection.
AttemptFails(p) ==
    /\ Sending(p)
    /\ Goto(p, "backoff")
    /\ CountFailure(p)
    /\ connected' \in BOOLEAN
    /\ UNCHANGED <<offered, queue, batch, sends, stopping, received, deliveries>>

\* Faulty: one attempt too many.
Backoff_Again(p) ==
    /\ At(p, "backoff")
    /\ IF attempts[p] > MaxRetries \/ Late(watched[p])
       THEN Done(p)
       ELSE Goto(p, "attempt") /\ UNCHANGED <<batch, sends, deliveries>>
    /\ UNCHANGED <<offered, queue, stopping, connected, received, drops>>

\* The sleep, unless the deadline leaves no time for it, and the loop's test.
Backoff(p) ==
    /\ At(p, "backoff")
    /\ IF attempts[p] = MaxRetries \/ Late(watched[p])
       THEN Done(p)
       ELSE Goto(p, "attempt") /\ UNCHANGED <<batch, sends, deliveries>>
    /\ UNCHANGED <<offered, queue, stopping, connected, received, drops>>

SendStep(p) ==
    \/ Attempt(p) \/ Accepted(p) \/ Confirmed(p) \/ Rejected(p)
    \/ AttemptFails(p) \/ Backoff(p)

-----------------------------------------------------------------------------
(* The thread: _run                                                        *)

\* The test of _stop. On the way out the thread sends what it has.
Top ==
    /\ At("worker", "top")
    /\ IF ~stop
       THEN Goto("worker", "get") /\ UNCHANGED <<batch, sends, drops, deliveries>>
       ELSE IF batch["worker"] # <<>>
       THEN Send("worker", batch["worker"], "off")
       ELSE Goto("worker", "off") /\ UNCHANGED <<batch, sends, drops, deliveries>>
    /\ UNCHANGED <<offered, queue, stopping, connected, received>>

\* The oldest event joins p's batch, which is sent when it is full.
Take(p, l) ==
    LET b == Append(batch[p], Head(queue)) IN
    /\ queue # <<>>
    /\ queue' = Tail(queue)
    /\ IF Len(b) >= BatchSize
       THEN Send(p, b, l)
       ELSE /\ batch' = [batch EXCEPT ![p] = b]
            /\ Goto(p, l)
            /\ UNCHANGED <<sends, drops, deliveries>>
    /\ UNCHANGED <<offered, stopping, connected, received>>

Collect == At("worker", "get") /\ Take("worker", "top")

\* Faulty: an incomplete batch waits until it is full.
Flush_OnlyFull ==
    /\ At("worker", "get") /\ queue = <<>>
    /\ Goto("worker", "top")
    /\ UNCHANGED <<offered, queue, batch, sends, stopping, connected, received,
                   deliveries, drops>>

\* Faulty: get has no timeout.
Flush_Blocks == FALSE /\ UNCHANGED vars

\* get times out on an empty queue: the batch is sent as it is.
Flush ==
    /\ At("worker", "get") /\ queue = <<>>
    /\ IF batch["worker"] # <<>>
       THEN Send("worker", batch["worker"], "top")
       ELSE Goto("worker", "top") /\ UNCHANGED <<batch, sends, drops, deliveries>>
    /\ UNCHANGED <<offered, queue, stopping, connected, received>>

-----------------------------------------------------------------------------
(* shutdown                                                                *)

Shutdown ==
    /\ At("drainer", "off")
    /\ shutdowns < MaxShutdowns
    /\ shutdowns' = shutdowns + 1
    /\ stop' = TRUE
    /\ Goto("drainer", "join")
    /\ UNCHANGED <<offered, queue, batch, sends, expired, connected, received,
                   deliveries, drops>>

\* Faulty: does not wait for the thread before it drains the queue.
Joined_Unwaited ==
    /\ At("drainer", "join")
    /\ Goto("drainer", "get")
    /\ UNCHANGED <<offered, queue, batch, sends, stopping, connected, received,
                   deliveries, drops>>

\* The thread is dead, or outlives the deadline: then shutdown returns at once.
Joined ==
    /\ At("drainer", "join")
    /\ \/ At("worker", "off") /\ Goto("drainer", "get")
       \/ ~At("worker", "off") /\ Late(shutdowns) /\ Goto("drainer", "off")
    /\ UNCHANGED <<offered, queue, batch, sends, stopping, connected, received,
                   deliveries, drops>>

Drain ==
    /\ At("drainer", "get") /\ ~Late(shutdowns)
    /\ Take("drainer", "get")

\* _drain_until leaves its loop. Past the deadline what it has taken is lost.
DrainEnds ==
    /\ At("drainer", "get")
    /\ queue = <<>> \/ Late(shutdowns)
    /\ IF batch["drainer"] # <<>> /\ ~Late(shutdowns)
       THEN Send("drainer", batch["drainer"], "close")
       ELSE /\ batch' = [batch EXCEPT !["drainer"] = <<>>]
            /\ Goto("drainer", "close")
            /\ UNCHANGED <<sends, drops, deliveries>>
    /\ UNCHANGED <<offered, queue, stopping, connected, received>>

Close ==
    /\ At("drainer", "close")
    /\ connected' = FALSE
    /\ Goto("drainer", "off")
    /\ UNCHANGED <<offered, queue, batch, sends, stopping, received, deliveries,
                   drops>>

\* The deadline of the last shutdown passes.
Expire ==
    /\ expired # shutdowns
    /\ expired' = shutdowns
    /\ UNCHANGED <<offered, queue, pc, batch, sends, stop, shutdowns, connected,
                   received, deliveries, drops>>

-----------------------------------------------------------------------------
Worker  == Top \/ Collect \/ Flush \/ SendStep("worker")
Drainer == Joined \/ Drain \/ DrainEnds \/ Close \/ SendStep("drainer")

Next == Enqueue \/ Start \/ Worker \/ Shutdown \/ Drainer \/ Expire

\* Threads are scheduled, a request has a timeout, time passes. Nothing
\* obliges the application to offer events, to start or to shut down.
Spec == Init /\ [][Next]_vars /\ WF_vars(Worker) /\ WF_vars(Drainer) /\ WF_vars(Expire)

-----------------------------------------------------------------------------
Waiting == batch["worker"] \o batch["drainer"] \o queue

Elements(s) == {s[i] : i \in DOMAIN s}

\* tests/runtime/test_exporter.py:136, the queue is not drained concurrently
\* with a blocked worker: one process at a time uses the sender's connection.
OneSender == \A p, q \in Processes : Sending(p) /\ Sending(q) => p = q

\* Until shutdown, an event that is neither waiting nor delivered is in one of
\* the counters of drops.
NoSilentLoss ==
    ~stop => Cardinality((1..offered) \ (Elements(Waiting) \cup Elements(received)))
                 <= dropped_full + dropped_serialization + failed_exports

\* The exporter is a best-effort channel.
Channel == INSTANCE EventChannel WITH
    Event <- 1..MaxEvents, Window <- Capacity + BatchSize,
    MaxDeliveries <- MaxRetries, waiting <- Waiting

ImplementsChannel == Channel!Spec

\* docs/runtime-sdk.md:150, an idle exporter sends a partial batch: an event
\* does not wait forever while the thread runs and nobody shuts it down.
EventsLeave ==
    \A e \in 1..MaxEvents :
        e \in Elements(Waiting) /\ ~At("worker", "off") ~> e \notin Elements(Waiting) \/ stop

\* The thread notices that it is to stop, however long sends take.
WorkerStops == stop ~> At("worker", "off")
===============================================================================
