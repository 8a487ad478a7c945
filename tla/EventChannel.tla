----------------------------- MODULE EventChannel -----------------------------
(***************************************************************************)
(* What the telemetry exporter promises the collector, whatever its        *)
(* threads do: events wait in the order in which they were accepted, only  *)
(* the oldest are delivered, together and at most MaxDeliveries times, and *)
(* they leave in that order too, delivered or not. Delivery is best effort *)
(* (docs/runtime-sdk.md:500).                                              *)
(***************************************************************************)
EXTENDS Sequences, Integers

CONSTANTS Event, Window, MaxDeliveries

VARIABLES
    waiting,        \* accepted and neither dropped nor done with
    received,       \* what the collector has read, with repetitions
    deliveries      \* of the oldest events

channel == <<waiting, received, deliveries>>

Init == waiting = <<>> /\ received = <<>> /\ deliveries = 0

Accept(e) ==
    /\ Len(waiting) < Window
    /\ waiting' = Append(waiting, e)
    /\ UNCHANGED <<received, deliveries>>

Deliver(n) ==
    /\ deliveries < MaxDeliveries
    /\ received' = received \o SubSeq(waiting, 1, n)
    /\ deliveries' = deliveries + 1
    /\ UNCHANGED waiting

Retire(n) ==
    /\ waiting' = SubSeq(waiting, n + 1, Len(waiting))
    /\ deliveries' = 0
    /\ UNCHANGED received

Next ==
    \/ \E e \in Event : Accept(e)
    \/ \E n \in 1..Len(waiting) : Deliver(n) \/ Retire(n)

Spec == Init /\ [][Next]_channel
===============================================================================
