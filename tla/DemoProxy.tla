------------------------------ MODULE DemoProxy ------------------------------
(***************************************************************************)
(* demo/backend.py: the loopback proxy that serves a coding agent in two   *)
(* lanes. A thread of the HTTP server runs each request. One of the        *)
(* baseline lane is forwarded as it is. One of the managed lane is         *)
(* prepared by the gateway, forwarded to the model of its decision, sent   *)
(* again to another ranked model when a provider refuses it, and settled   *)
(* with the usage of the completed stream.                                 *)
(*                                                                         *)
(* All requests share one run, the cooldowns of models, the ranker's       *)
(* single prefetch worker and the ledger of events. prepare_call_sync runs *)
(* the coroutine in a loop of its own: nobody cancels it. What the         *)
(* controller's own model costs is recorded too and left out here.         *)
(*                                                                         *)
(* unknown is history: what was charged for answers without usage.         *)
(***************************************************************************)
EXTENDS PromptRailGateway, Sequences

CONSTANTS
    Models,     \* the catalog
    Price,      \* the predicted cost of the call with each model
    NoModel     \* the request has no decision

ASSUME DemoAssumption ==
    /\ IsFiniteSet(Models) /\ Models # {} /\ NoModel \notin Models
    /\ Price \in [Models -> 1..MaxAllocation]

VARIABLES
    request,        \* where the thread of the request is
    lane,
    queue, job,     \* the worker of the prefetches, and the future of each
    avoided,        \* models in cooldown when the request was ranked
    offered,        \* models the allocator found available
    model, alternatives,    \* the prepared decision and its alternatives
    attempted_models,
    cooldown,       \* models marked as unavailable, whose time is not over
    recorded,       \* cost in the ledger's usage event, -1 before that
    unknown

prefetching == <<queue, job, avoided>>
routing     == <<model, alternatives, attempted_models, cooldown>>
records     == <<recorded, unknown>>
demoVars == <<gatewayVars, request, lane, prefetching, offered, routing, records>>

\* relayed: the stream came to its completed response. refused: an error
\* status was passed on. cut: everything else.
Ended == {"relayed", "refused", "cut"}

Moves(c, to) == request' = [request EXCEPT ![c] = to]

Managed(c) == lane[c] = "managed"

CheapestOf(S) == CHOOSE p \in {Price[m] : m \in S} : \A m \in S : p <= Price[m]

-----------------------------------------------------------------------------
\* DemoService.__init__, which starts the run.
DemoInit ==
    /\ GatewayInit
    /\ request = [c \in Calls |-> "idle"] /\ lane = [c \in Calls |-> "none"]
    /\ queue = <<>> /\ job = [c \in Calls |-> "none"]
    /\ avoided = [c \in Calls |-> {}] /\ offered = [c \in Calls |-> {}]
    /\ model = [c \in Calls |-> NoModel] /\ alternatives = [c \in Calls |-> {}]
    /\ attempted_models = [c \in Calls |-> {}] /\ cooldown = {}
    /\ recorded = [c \in Calls |-> -1] /\ unknown = 0

\* The baseline lane has nothing to prepare.
AcceptBaseline(c) ==
    /\ request[c] = "idle"
    /\ lane' = [lane EXCEPT ![c] = "baseline"]
    /\ Moves(c, "sending")
    /\ UNCHANGED <<gatewayVars, prefetching, offered, routing, records>>

\* prepare of the managed lane: the run is looked at, the ranking prefetched
\* and prepare_call_sync entered. When the run is over it raises.
AcceptManaged(c) ==
    /\ request[c] = "idle"
    /\ lane' = [lane EXCEPT ![c] = "managed"]
    /\ IF Active
       THEN /\ Moves(c, "preparing")
            /\ queue' = Append(queue, c)
            /\ job' = [job EXCEPT ![c] = "queued"]
            /\ StartAnalysis(c)
       ELSE Moves(c, "cut") /\ UNCHANGED <<gatewayVars, queue, job>>
    /\ UNCHANGED <<avoided, offered, routing, records>>

\* The worker calls _rank_now, which leaves out the models in cooldown.
JobStarts ==
    /\ queue # <<>> /\ job[Head(queue)] = "queued"
    /\ job' = [job EXCEPT ![Head(queue)] = "running"]
    /\ avoided' = [avoided EXCEPT ![Head(queue)] = cooldown]
    /\ UNCHANGED <<gatewayVars, request, lane, queue, offered, routing, records>>

\* One scoring request per shortlisted model, or scores of an equal task: all
\* of them succeed within their transport attempts, or the job fails.
JobEnds ==
    /\ queue # <<>> /\ job[Head(queue)] = "running"
    /\ \E result \in {"scored", "failed"} :
           /\ result = "scored" => avoided[Head(queue)] # Models
           /\ job' = [job EXCEPT ![Head(queue)] = result]
    /\ queue' = Tail(queue)
    /\ UNCHANGED <<gatewayVars, request, lane, avoided, offered, routing, records>>

\* rank has taken the future and the future is done. Every way out of
\* prepare_call awaits that.
Ranked(c) == job[c] \in {"scored", "failed"}

\* OpenRouterAllocator.allocate reads the models that are available.
AllocatorAsked(c) ==
    /\ ThreadBegins(c)
    /\ offered' = [offered EXCEPT ![c] = Models \ cooldown]
    /\ UNCHANGED <<request, lane, prefetching, routing, records>>

AllocationRefused(c) ==
    /\ ThreadRefused(c)
    /\ UNCHANGED <<request, lane, prefetching, offered, routing, records>>

\* It raises when it has no model to offer, and raises an answer that would
\* admit none to the cheapest one.
AllocatorAnswers(c) ==
    /\ ThreadReturns(c)
    /\ c \in reserved' =>
           offered[c] # {} /\ budget'[c].cost >= CheapestOf(offered[c])
    /\ offered' = [offered EXCEPT ![c] = {}]
    /\ UNCHANGED <<request, lane, prefetching, routing, records>>

HardCost == policy.agent_cost # NoLimit \/ policy.call_cost # NoLimit

\* select_ranked: the models whose predicted cost the budget allows.
Feasible(c) == {m \in Models : HardCost => Price[m] <= budget[c].cost}

\* The scores of models in cooldown put them last.
Preferred(c) ==
    IF Feasible(c) \subseteq avoided[c] THEN Feasible(c) ELSE Feasible(c) \ avoided[c]

PrepareCall(c) ==
    /\ request[c] = "preparing"
    /\ \/ AnalysisFails(c) \/ SubmitAllocation(c) \/ Resume(c)
       \/ Ranked(c) /\ PlanFails(c)
    /\ UNCHANGED <<request, lane, prefetching, offered, routing, records>>

Decide(c) ==
    /\ request[c] = "preparing"
    /\ job[c] = "scored"
    /\ PlanCall(c)
    /\ \E m \in Preferred(c) :
           /\ model' = [model EXCEPT ![c] = m]
           /\ alternatives' = [alternatives EXCEPT ![c] = Feasible(c) \ {m}]
    /\ Moves(c, "sending")
    /\ avoided' = [avoided EXCEPT ![c] = {}]
    /\ UNCHANGED <<lane, queue, job, offered, attempted_models, cooldown, records>>

\* prepare_call raised: the prefetch is discarded and do_POST answers 502.
PrepareRaised(c) ==
    /\ request[c] = "preparing"
    /\ phase[c] = "raised" /\ Ranked(c)
    /\ Moves(c, "cut")
    /\ UNCHANGED <<gatewayVars, lane, prefetching, offered, routing, records>>

-----------------------------------------------------------------------------
\* The connection fails, or the client is gone, or the stream breaks: do_POST
\* records the error. The reservation is left as it is.
Raises(c) ==
    /\ request[c] \in {"sending", "rerouting", "streaming"}
    /\ Moves(c, "cut")
    /\ UNCHANGED <<gatewayVars, lane, prefetching, offered, routing, records>>

Accepted(c) ==
    /\ request[c] = "sending"
    /\ Moves(c, "streaming")
    /\ UNCHANGED <<gatewayVars, lane, prefetching, offered, routing, records>>

\* should_reroute_provider_error: not an account-wide status, and some
\* alternative is not in cooldown at this moment.
Reroutes(c, error) ==
    Managed(c) /\ error # "account" /\ alternatives[c] \ cooldown # {}

\* Faulty: only a server error gives the reservation back.
FailUpstream_ServerOnly(c, error) ==
    IF error = "server"
    THEN /\ FailModel(c, TRUE)
         /\ unknown' = unknown + (spent_cost_usd' - spent_cost_usd)
    ELSE UNCHANGED <<gatewayVars, unknown>>

\* fail_upstream: after a server error the billing is unknown.
FailUpstream(c, error) ==
    /\ FailModel(c, error = "server")
    /\ unknown' = unknown + (spent_cost_usd' - spent_cost_usd)

\* The provider answers with an error: the request is sent to another model,
\* or the error is passed on and the call failed.
Refused(c, error) ==
    /\ request[c] = "sending"
    /\ IF Reroutes(c, error)
       THEN /\ Moves(c, "rerouting")
            /\ attempted_models' = [attempted_models EXCEPT ![c] = @ \cup {model[c]}]
            /\ UNCHANGED <<gatewayVars, cooldown, unknown>>
       ELSE /\ Moves(c, "refused")
            /\ IF Managed(c)
               THEN /\ FailUpstream(c, error)
                    /\ cooldown' = IF error = "account" THEN cooldown
                                   ELSE cooldown \cup {model[c]}
               ELSE UNCHANGED <<gatewayVars, cooldown, unknown>>
            /\ UNCHANGED attempted_models
    /\ UNCHANGED <<lane, prefetching, offered, model, alternatives, recorded>>

\* reroute_prepared: the ranked decisions but the excluded ones.
Remaining(c, excluded) == ({model[c]} \cup alternatives[c]) \ excluded

\* Faulty: leaves the exclusion of earlier attempts to the cooldowns.
Reroute_CooldownOnly(c) ==
    /\ request[c] = "rerouting"
    /\ cooldown' = cooldown \cup {model[c]}
    /\ LET ranked == {model[c]} \cup alternatives[c]
       IN  \/ Moves(c, "cut") /\ UNCHANGED <<model, alternatives>>
           \/ \E m \in ranked \ cooldown' :
                  /\ model' = [model EXCEPT ![c] = m]
                  /\ alternatives' = [alternatives EXCEPT ![c] = ranked \ {m}]
                  /\ Moves(c, "sending")
    /\ UNCHANGED <<gatewayVars, lane, prefetching, offered, attempted_models, records>>

\* reroute_upstream: the budget is kept, the attempted
\* models and those in cooldown by now leave the ranking. It raises when no
\* model is left, or when the provider's plan for the next one does not fit.
Reroute(c) ==
    /\ request[c] = "rerouting"
    /\ cooldown' = cooldown \cup {model[c]}
    /\ LET ranked == Remaining(c, attempted_models[c] \cup cooldown')
       IN  \/ Moves(c, "cut") /\ UNCHANGED <<model, alternatives>>
           \/ \E m \in ranked :
                  /\ model' = [model EXCEPT ![c] = m]
                  /\ alternatives' = [alternatives EXCEPT ![c] = ranked \ {m}]
                  /\ Moves(c, "sending")
    /\ UNCHANGED <<gatewayVars, lane, prefetching, offered, attempted_models, records>>

\* EventLedger.record of the usage event.
Record(c, cost) == recorded' = [recorded EXCEPT ![c] = cost]

\* observe_model of the usage. It raises when the run is over, and also when
\* this usage ends the run; either is only written to the ledger. settle names
\* the model and the route of the decision itself (backend.py:1524), so that
\* observe_model has no other usage to refuse; the counts that a provider
\* reports are valid.
Observe(c, cost, latency) ==
    IF Active /\ c \in reserved THEN ObserveModel(c, cost, latency)
                                ELSE UNCHANGED gatewayVars

\* Faulty: observes first, and an exception skips the usage event.
Settle_ObserveFirst(c, cost, latency) ==
    /\ request[c] = "streaming"
    /\ IF Managed(c) THEN Observe(c, cost, latency) ELSE UNCHANGED gatewayVars
    /\ IF status' = "active" THEN Record(c, cost) ELSE UNCHANGED recorded
    /\ Moves(c, "relayed")
    /\ UNCHANGED <<lane, prefetching, offered, routing, unknown>>

\* The stream held a completed response: settle.
Settle(c, cost, latency) ==
    /\ request[c] = "streaming"
    /\ Record(c, cost)
    /\ IF Managed(c) THEN Observe(c, cost, latency) ELSE UNCHANGED gatewayVars
    /\ Moves(c, "relayed")
    /\ UNCHANGED <<lane, prefetching, offered, routing, unknown>>

\* It did not: nothing is settled.
Truncated(c) ==
    /\ request[c] = "streaming"
    /\ Moves(c, "cut")
    /\ UNCHANGED <<gatewayVars, lane, prefetching, offered, routing, records>>

\* rate_limited_models drops a cooldown whose time is over.
CooldownEnds(m) ==
    /\ m \in cooldown
    /\ cooldown' = cooldown \ {m}
    /\ UNCHANGED <<gatewayVars, request, lane, prefetching, offered, model,
                   alternatives, attempted_models, records>>

-----------------------------------------------------------------------------
Handler(c) ==
    \/ PrepareCall(c) \/ Decide(c) \/ PrepareRaised(c)
    \/ Raises(c) \/ Accepted(c) \/ Reroute(c) \/ Truncated(c)
    \/ \E error \in {"account", "client", "server"} : Refused(c, error)
    \/ \E cost \in 0..MaxUsage, latency \in 0..MaxLatency : Settle(c, cost, latency)

Allocation(c) == AllocatorAsked(c) \/ AllocationRefused(c) \/ AllocatorAnswers(c)

Worker == JobStarts \/ JobEnds

DemoNext ==
    \/ \E c \in Calls :
           AcceptBaseline(c) \/ AcceptManaged(c) \/ Handler(c) \/ Allocation(c)
    \/ Worker
    \/ \E m \in Models : CooldownEnds(m)

\* Threads run on, and each connection has a timeout.
DemoSpec ==
    /\ DemoInit /\ [][DemoNext]_demoVars
    /\ \A c \in Calls : WF_demoVars(Handler(c)) /\ WF_demoVars(Allocation(c))
    /\ WF_demoVars(Worker)

-----------------------------------------------------------------------------
\* Every request ends, however models fail, recover from their cooldown and
\* fail again while it is sent from one to the next (backend.py:1675).
RequestsEnd == \A c \in Calls : request[c] # "idle" ~> request[c] \in Ended

\* A managed request whose client got the provider's whole answer, be it a
\* completed response or an error status, leaves nothing of an active run's
\* budget reserved, also when it was sent to several models.
RelayedIsResolved ==
    Active => \A c \in reserved : request[c] \notin {"relayed", "refused"}

\* The ledger a user compares the lanes with never shows less than the
\* controller charged: what the run spent is recorded, but for the answers
\* whose billing is unknown, also when the usage of a call ends the run.
SpendIsRecorded ==
    spent_cost_usd <=
        unknown + Total({c \in Calls : Managed(c) /\ recorded[c] > 0}, recorded, MaxUsage)
=============================================================================
