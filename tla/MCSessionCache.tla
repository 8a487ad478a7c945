---------------------------- MODULE MCSessionCache ----------------------------
(* A session of two calls that may overlap: a conversation, how it goes on   *)
(* with a tool's result, a branch of it, and one of which a call is open.    *)
EXTENDS SessionCache

CONSTANTS c1, c2, m1, m2, alpha, beta

Said(id, role, size, tool) == [id |-> id, role |-> role, size |-> size, call |-> tool]

Opening == <<Said(1, "system", 1, 0), Said(2, "user", 3, 0)>>
Acted == Opening \o <<Said(3, "assistant", 3, 1), Said(4, "tool", 3, 1)>>

MCCalls == {c1, c2}
MCIntents == {
    Acted,
    Acted \o <<Said(5, "user", 1, 0)>>,
    Acted \o <<Said(5, "user", 1, 0), Said(6, "assistant", 4, 2), Said(7, "user", 2, 2)>>,
    Opening \o <<Said(8, "assistant", 3, 0), Said(9, "user", 1, 0)>>}
Route(id, provider, price, output, latency, guaranteed) ==
    [id |-> id, provider |-> provider, price |-> price, cache_price |-> 1, output |-> output,
     latency |-> latency, guaranteed |-> guaranteed, caches |-> TRUE]
MCRoutes == [m \in {m1, m2} |->
    IF m = m1 THEN {Route(1, alpha, 3, 0, 9, FALSE), Route(2, beta, 2, 0, 5, TRUE)}
    ELSE {Route(3, alpha, 2, 1, 4, FALSE), [Route(4, beta, 1, 2, 7, TRUE) EXCEPT !.caches = FALSE]}]
MCBudgets == {[required |-> 9, cost |-> 16], [required |-> 14, cost |-> 99],
              [required |-> 15, cost |-> 99]}
MCUsages == {[read |-> 0, write |-> 0], [read |-> 0, write |-> 3], [read |-> 4, write |-> 0]}
===============================================================================
