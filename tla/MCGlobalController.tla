------------------------ MODULE MCGlobalController ------------------------
(* GlobalController for TLC: three calls and the policies below.           *)
EXTENDS GlobalController, TLC

P(agent_cost, call_cost, agent_latency, call_latency) ==
    [agent_cost |-> agent_cost, call_cost |-> call_cost,
     agent_latency |-> agent_latency, call_latency |-> call_latency]

\* Room for one call and a half; a deadline shorter than two calls; both with
\* per-call limits.
MCPolicies == {P(3, NoLimit, NoLimit, NoLimit), P(NoLimit, NoLimit, 2, NoLimit),
               P(3, 2, 3, 1)}

CallSymmetry == Permutations(Calls)
===========================================================================
