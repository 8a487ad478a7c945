---------------------- MODULE MCPromptRailMiddleware ----------------------
(* PromptRailMiddleware for TLC: two model calls of an agent.              *)
EXTENDS PromptRailMiddleware

P(agent_cost, call_cost, agent_latency, call_latency) ==
    [agent_cost |-> agent_cost, call_cost |-> call_cost,
     agent_latency |-> agent_latency, call_latency |-> call_latency]

\* Room for one call and an overrun, and a deadline that passes.
MCPolicies == {P(2, NoLimit, NoLimit, NoLimit), P(NoLimit, NoLimit, 1, NoLimit)}
===========================================================================
