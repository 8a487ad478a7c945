---------------------------- MODULE SessionCache ----------------------------
(***************************************************************************)
(* promptrail.cache.PromptCacheCoordinator for one session, with the calls *)
(* of the gateway that read its state when they are prepared and write it  *)
(* when their usage is observed. Calls of a session may overlap: each      *)
(* keeps the analysis it was prepared with.                                *)
(*                                                                         *)
(* A prefix stands for its hash. The allocator may require any context, a  *)
(* provider may report any tokens as read or written, and the scores may   *)
(* prefer any feasible model.                                              *)
(***************************************************************************)
EXTENDS CallPlanning

CONSTANTS
    Calls,
    Intents,    \* the conversations that the calls of the session send
    Routes,     \* the catalog: a set of routes for each model
    Budgets,    \* budgets of the allocator: [required, cost]
    HardCost,   \* whether the policy has a hard cost limit
    Usages,     \* tokens that a provider reports as [read, write]
    None

ASSUME SessionAssumption ==
    /\ HardCost \in BOOLEAN /\ \A m \in DOMAIN Routes : Routes[m] # {}
    /\ \A msgs \in Intents : msgs \in Seq(Message)
    /\ \A b \in Budgets : b.required \in Nat

VARIABLES
    record,                         \* the session's _CacheRecord
    last_model_id, last_provider,
    call                            \* what each call's coroutine holds

vars == <<record, last_model_id, last_provider, call>>

Model == DOMAIN Routes

Becomes(c, v) == call' = [call EXCEPT ![c] = v]

-----------------------------------------------------------------------------
(* analyze                                                                 *)

\* The record is for a prefix of these messages.
ActiveExact(msgs) ==
    record # None /\ record.count <= Len(msgs) /\ SubSeq(msgs, 1, record.count) = record.prefix

\* _candidate_value: whether the cheapest route of the model reads the cache.
Value(m, msgs) ==
    LET hit(r) == ActiveExact(msgs) /\ m = record.model /\ r.provider = record.provider /\ r.caches
        read(r) == IF hit(r) THEN Min({TotalTokens(msgs), record.tokens}) ELSE 0
        best == Cheapest(Routes[m], [r \in Routes[m] |-> PredictedCost(r, TotalTokens(msgs), read(r))])
    IN  [exact |-> hit(best), provider |-> best.provider, tokens |-> read(best)]

\* _required_input_cost: the discount counts as long as the prefix is kept.
Discounted(r, analysis, required) ==
    LET value == analysis.value
    IN  IF /\ value.exact /\ value.provider = r.provider /\ r.caches
           /\ CachePreserved(analysis.msgs, required, analysis.cached)
        THEN Min({required, value.tokens}) ELSE 0

RequiredCost(r, analysis, required) ==
    PredictedCost(r, required, Discounted(r, analysis, required))

-----------------------------------------------------------------------------
Init ==
    /\ record = None
    /\ last_model_id = None /\ last_provider = None
    /\ call = [c \in Calls |-> [at |-> "idle"]]

\* The call is prepared up to its allocation: analyze, under the lock.
Analyze(c, msgs) ==
    /\ call[c].at = "idle"
    /\ Becomes(c, [at |-> "analysed", msgs |-> msgs,
                   cached |-> IF ActiveExact(msgs) THEN 1..record.count ELSE {},
                   values |-> [m \in Model |-> Value(m, msgs)],
                   last |-> [model |-> last_model_id, provider |-> last_provider]])
    /\ UNCHANGED <<record, last_model_id, last_provider>>

\* The allocator's budget, raised to the floor of compaction.
Required(c, b) == Max({b.required, MinimumReachable(call[c].msgs)})

\* A model whose cheapest route the hard limit allows, and the provider's plan.
Decision(c, b, m, slack) ==
    LET required == Required(c, b)
        analysis == [msgs |-> call[c].msgs, cached |-> call[c].cached, value |-> call[c].values[m]]
        route == Cheapest(Routes[m], [r \in Routes[m] |-> RequiredCost(r, analysis, required)])
        sticky == IF call[c].last.model = m THEN call[c].last.provider ELSE None
    IN  [cost |-> RequiredCost(route, analysis, required),
         discount |-> Discounted(route, analysis, required),
         routes |-> ProviderPlan(Routes[m], route, sticky, slack)]

\* The messages after compaction. What a summary takes is not what it was asked
\* for: nothing if it would not be shorter than its message, or any tokens.
Compacted(msgs, cut) ==
    [i \in DOMAIN msgs |->
        IF i \in DOMAIN cut THEN [msgs[i] EXCEPT !.size = @ - cut[i]] ELSE msgs[i]]

Cuts(msgs, taken) ==
    LET asked == {i \in DOMAIN taken : taken[i] > 0}
    IN  {cut \in [asked -> 0..MaxTokens] : \A i \in asked : cut[i] < msgs[i].size}

\* What is sent has to meet the target, for a decision the budget allows.
Plan(c, b, m, slack) ==
    /\ call[c].at = "analysed"
    /\ LET msgs == call[c].msgs
           required == Required(c, b)
           decision == Decision(c, b, m, slack)
           eligible == Eligible(msgs, required, call[c].cached)
           capacity == [i \in eligible |-> Capacity(msgs, i)]
       IN  /\ HardCost => decision.cost <= b.cost
           /\ \E pressure \in [eligible -> 1..MaxPressure] :
                LET taken == WaterFill(Reduction(msgs, required), capacity, pressure)
                IN  \E cut \in Cuts(msgs, taken) :
                        /\ TotalTokens(Compacted(msgs, cut)) <= required
                        /\ Becomes(c, [at |-> "prepared", msgs |-> msgs, cached |-> call[c].cached,
                                       model |-> m, sent |-> Compacted(msgs, cut), taken |-> taken,
                                       reduction |-> Reduction(msgs, required),
                                       discount |-> decision.discount, routes |-> decision.routes])
    /\ UNCHANGED <<record, last_model_id, last_provider>>

\* No model is feasible, or the target is not met: the call is released.
PlanRaises(c) ==
    /\ call[c].at = "analysed"
    /\ Becomes(c, [at |-> "raised"])
    /\ UNCHANGED <<record, last_model_id, last_provider>>

Rewritten(c) == {i \in DOMAIN call[c].msgs : call[c].sent[i] # call[c].msgs[i]}

\* Faulty: usage promotes the prefix that the call was prepared with.
Observed_Prepared(c) == call[c].msgs

\* observe_model analyzes what was sent, if that was compacted.
Observed(c) == IF Rewritten(c) = {} THEN call[c].msgs ELSE call[c].sent

\* A read says nothing of a prefix that was rewritten.
ReadOf(c, usage) == IF Rewritten(c) \cap call[c].cached # {} THEN 0 ELSE usage.read

\* observe: the provider's usage promotes the prefix of the observed messages.
Observe(c, r, usage) ==
    /\ call[c].at = "prepared"
    /\ r \in call[c].routes
    /\ last_model_id' = call[c].model
    /\ last_provider' = r.provider
    /\ LET msgs == Observed(c)
           prefix == SubSeq(msgs, 1, ProposedPrefixCount(msgs))
           tokens == Max({ReadOf(c, usage), usage.write})
       IN  record' = IF prefix # <<>> /\ r.caches /\ tokens > 0
                     THEN [model |-> call[c].model, provider |-> r.provider, prefix |-> prefix,
                           count |-> CandidatePrefixCount(msgs), tokens |-> tokens]
                     ELSE record
    /\ Becomes(c, [at |-> "observed", model |-> call[c].model, provider |-> r.provider,
                   sent |-> call[c].sent])

\* The time to live of the record is over: the next analyze drops it.
Expire ==
    /\ record # None
    /\ record' = None
    /\ UNCHANGED <<last_model_id, last_provider, call>>

Next ==
    \/ \E c \in Calls :
           \/ \E msgs \in Intents : Analyze(c, msgs)
           \/ \E b \in Budgets, m \in Model, slack \in BOOLEAN : Plan(c, b, m, slack)
           \/ PlanRaises(c)
           \/ \E m \in Model : \E r \in Routes[m], usage \in Usages : Observe(c, r, usage)
    \/ Expire

Spec == Init /\ [][Next]_vars

-----------------------------------------------------------------------------
\* The prefix a record stands for is the beginning of what was really sent, to
\* that model by that provider, however calls overlap and whatever compaction
\* rewrote; and the two ways to count its messages agree, for the record would
\* never match a conversation again.
RecordedWasSent ==
    record # None =>
        \E c \in Calls :
            /\ call[c].at = "observed"
            /\ call[c].model = record.model /\ call[c].provider = record.provider
            /\ SubSeq(call[c].sent, 1, record.count) = record.prefix

\* A call that was authorized with a discount for its cached prefix sends that
\* prefix as it is: compaction takes from other messages. This needs the router
\* not to expect more of them than compaction may take, Kept <= RouterKept: with
\* minimum_kept_tokens above 32 the code has calls that are priced with their
\* prefix and compact it.
DiscountIsKept ==
    \A c \in Calls : call[c].at = "prepared" /\ call[c].discount > 0 =>
        call[c].cached # {} /\ \A i \in call[c].cached : call[c].sent[i] = call[c].msgs[i]

\* The weighted water-filling gives exactly the reduction it was asked for, and
\* takes from no message more than it has, whatever the pressures.
ReductionIsExact ==
    \A c \in Calls : call[c].at = "prepared" =>
        /\ Total(DOMAIN call[c].taken, call[c].taken, MaxTokens) = call[c].reduction
        /\ \A i \in DOMAIN call[c].taken : call[c].taken[i] <= Capacity(call[c].msgs, i)
=============================================================================
