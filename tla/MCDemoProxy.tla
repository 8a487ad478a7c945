----------------------------- MODULE MCDemoProxy -----------------------------
(* DemoProxy for TLC: two requests, three models of two prices.            *)
EXTENDS DemoProxy

P(agent_cost) ==
    [agent_cost |-> agent_cost, call_cost |-> NoLimit,
     agent_latency |-> NoLimit, call_latency |-> NoLimit]

\* The demo's own policy, and one with a hard limit that a request can use up.
MCPolicies == {P(NoLimit), P(2)}

MCPrice == [m \in Models |-> IF m = CHOOSE n \in Models : TRUE THEN 2 ELSE 1]
=============================================================================
