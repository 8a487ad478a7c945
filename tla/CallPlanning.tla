---------------------------- MODULE CallPlanning ----------------------------
(***************************************************************************)
(* What prepare_call computes from a request's messages: the structure of  *)
(* the conversation (cache.py), the cost of a route (routing.py), the      *)
(* provider plan (routing.py) and the compaction (compaction.py).          *)
(*                                                                         *)
(* A message is [id, role, size, call]: size in tokens, call the id of the *)
(* tool call that an assistant's message makes or a tool's message         *)
(* answers, 0 if there is none. Indices start at 1. A route is             *)
(* [id, provider, price, cache_price, output, latency, guaranteed, caches]: *)
(* a price per token, one per token read from the cache, and the price of  *)
(* the predicted output.                                                   *)
(***************************************************************************)
EXTENDS Totals, Sequences, FiniteSetsExt

CONSTANTS
    Kept,           \* minimum_kept_tokens of the compactor and its planner
    RouterKept,     \* the 32 tokens that routing.py takes for it
    MinCompactable, \* minimum_compactable_tokens
    MaxTokens,      \* bound on the size of a message
    MaxPressure     \* bound on the weight of a message in compaction

ASSUME PlanningAssumption ==
    {Kept, RouterKept, MinCompactable, MaxTokens, MaxPressure} \subseteq Nat \ {0}

Message == [id : Nat, role : {"system", "user", "assistant", "tool"},
            size : 1..MaxTokens, call : Nat]

Greatest(S) == IF S = {} THEN 0 ELSE Max(S)

TotalTokens(msgs) == Total(DOMAIN msgs, [i \in DOMAIN msgs |-> msgs[i].size], MaxTokens)

-----------------------------------------------------------------------------
(* The structure of a conversation.                                        *)

LatestUser(msgs) ==
    Greatest({i \in DOMAIN msgs : msgs[i].role = "user" /\ msgs[i].call = 0})

\* The blocks of build_context_blocks: their types.
BlockType(m) == IF m.role = "system" THEN "protocol" ELSE m.role

\* The leading instructions.
Leading(msgs) ==
    Max({n \in 0..Len(msgs) : \A i \in 1..n : BlockType(msgs[i]) = "protocol"})

\* The prefix offered to the cache: all before the latest message of the user,
\* or the leading instructions.
ProposedPrefixCount(msgs) ==
    IF LatestUser(msgs) # 0 THEN LatestUser(msgs) - 1
    ELSE Leading(msgs)

\* The blocks that are immutable.
Immutable(msgs, i) == msgs[i].role = "system" \/ i = LatestUser(msgs)

\* Faulty: takes any message of the user, a tool's result among them.
CandidatePrefixCount_Any(msgs) ==
    LET users == {i \in DOMAIN msgs : BlockType(msgs[i]) = "user"}
    IN  IF users # {} THEN Max(users) - 1
        ELSE Leading(msgs)

\* The same prefix, recovered from the blocks when usage is observed.
CandidatePrefixCount(msgs) ==
    LET users == {i \in DOMAIN msgs : BlockType(msgs[i]) = "user" /\ Immutable(msgs, i)}
    IN  IF users # {} THEN Max(users) - 1
        ELSE Leading(msgs)

\* The latest message of the user, instructions, and calls without a result.
Protected(msgs) ==
    ({LatestUser(msgs)} \ {0})
    \cup {i \in DOMAIN msgs : msgs[i].role = "system"}
    \cup {i \in DOMAIN msgs :
              /\ msgs[i].role = "assistant" /\ msgs[i].call # 0
              /\ ~ \E j \in DOMAIN msgs :
                      msgs[j].role # "assistant" /\ msgs[j].call = msgs[i].call}

Compactable(msgs) ==
    {i \in DOMAIN msgs \ Protected(msgs) :
        msgs[i].role \in {"assistant", "tool"} /\ msgs[i].size >= MinCompactable}

-----------------------------------------------------------------------------
(* What compaction can reach.                                              *)

\* The tokens of a message above those that are kept of it.
Above(kept, msgs, i) == IF msgs[i].size > kept THEN msgs[i].size - kept ELSE 0

AboveOf(kept, msgs, S) == Total(S, [i \in DOMAIN msgs |-> Above(kept, msgs, i)], MaxTokens)

Capacity(msgs, i) == Above(Kept, msgs, i)

CapacityOf(msgs, S) == AboveOf(Kept, msgs, S)

MinimumReachable(msgs) == TotalTokens(msgs) - CapacityOf(msgs, Compactable(msgs))

\* The tokens to go for a context of required tokens.
Reduction(msgs, required) ==
    IF TotalTokens(msgs) > required THEN TotalTokens(msgs) - required ELSE 0

\* Whether the messages outside of the cached prefix can give that many, as
\* routing.py reckons it for the price of a call: with 32 tokens kept of each.
CachePreserved(msgs, required, cached) ==
    Reduction(msgs, required) <= AboveOf(RouterKept, msgs, Compactable(msgs) \ cached)

\* Faulty: compacts cached messages whenever there is something to reduce.
Eligible_All(msgs, required, cached) == Compactable(msgs)

\* The messages a plan may compact: cached ones only if the others are not
\* enough, with minimum_kept_tokens kept of each.
Eligible(msgs, required, cached) ==
    LET others == Compactable(msgs) \ cached
    IN  IF Reduction(msgs, required) <= CapacityOf(msgs, others)
        THEN others ELSE Compactable(msgs)

\* Faulty: what is left is not reduced within a round.
TakeShare_Stale(acc, i, cap, pressure, total) ==
    LET share == Max({1, (acc.left * pressure[i]) \div total})
        n == Min({cap[i] - acc.taken[i], share})
    IN  [taken |-> [acc.taken EXCEPT ![i] = @ + n],
         left |-> IF acc.left > n THEN acc.left - n ELSE 0]

\* One message takes its share of what is left, and at least one token.
TakeShare(acc, i, cap, pressure, total) ==
    LET share == Max({1, (acc.left * pressure[i]) \div total})
        n == Min({cap[i] - acc.taken[i], share, acc.left})
    IN  [taken |-> [acc.taken EXCEPT ![i] = @ + n], left |-> acc.left - n]

\* The messages that have capacity.
Active(acc, cap) == {i \in DOMAIN cap : cap[i] > acc.taken[i]}

\* A round: they take their shares in order, by their pressures at its start.
Round(acc, cap, pressure) ==
    LET active == Active(acc, cap)
        total == Total(active, pressure, MaxPressure)
        pass[n \in Nat] ==
            IF n = 0 THEN acc
            ELSE IF n \in active THEN TakeShare(pass[n - 1], n, cap, pressure, total)
            ELSE pass[n - 1]
    IN  IF acc.left = 0 THEN acc ELSE pass[Greatest(active)]

\* Rounds until nothing is left to reduce or nothing has capacity: a round that
\* is not the last takes a token or more.
WaterFill(reduction, cap, pressure) ==
    LET start == [taken |-> [i \in DOMAIN cap |-> 0], left |-> reduction]
        rounds[n \in Nat] ==
            IF n = 0 THEN start ELSE Round(rounds[n - 1], cap, pressure)
    IN  rounds[reduction].taken

-----------------------------------------------------------------------------
(* Routes.                                                                 *)

\* Tokens of the cached prefix are read at their own price.
PredictedCost(route, tokens, cached) ==
    cached * route.cache_price + (tokens - cached) * route.price + route.output

Fastest(routes) ==
    CHOOSE r \in routes : \A s \in routes :
        r.latency < s.latency \/ (r.latency = s.latency /\ r.id <= s.id)

Cheapest(routes, cost) ==
    Fastest({r \in routes : \A s \in routes : cost[r] <= cost[s]})

\* The fastest of the guaranteed routes, or of all.
GuaranteedRoute(routes) ==
    LET pool == {r \in routes : r.guaranteed}
    IN  Fastest(IF pool = {} THEN routes ELSE pool)

\* The routes of a provider plan: the previous provider's if the model is the
\* previous one, the guaranteed one when there is no time to explore, or the
\* cheapest first and the guaranteed one last.
ProviderPlan(routes, cheapest, sticky, slack) ==
    LET pinned == {r \in routes : r.provider = sticky}
        guaranteed == GuaranteedRoute(routes)
    IN  IF pinned # {} THEN pinned
        ELSE IF cheapest = guaranteed \/ ~slack THEN {guaranteed}
        ELSE routes
=============================================================================
