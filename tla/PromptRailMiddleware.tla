------------------------ MODULE PromptRailMiddleware ------------------------
(***************************************************************************)
(* promptrail.langchain.PromptRailMiddleware: one invocation of an agent,  *)
(* from before_agent, which started the run, to after_agent or to the      *)
(* finish_run with which an application closes the run of a graph that     *)
(* raised. Model nodes come one at a time; a retry around one may prepare  *)
(* another call after a failure. Tools run in parallel and outlive a crash *)
(* of the graph, and so do threads of allocate_call.                       *)
(*                                                                         *)
(* attempted and charged are history.                                      *)
(***************************************************************************)
EXTENDS PromptRailGateway

CONSTANT NoCall     \* no model call is under way

ASSUME MiddlewareAssumption == NoCall \notin Calls

VARIABLES
    agent,          \* the node the graph is at
    current,        \* the call of the model node
    pending,        \* _pending, the calls whose usage waits for after_model
    tools_running,
    attempted,      \* calls that were sent to a provider
    charged         \* calls whose cost, known or not, was added to the run's

middleware == <<agent, current, pending, tools_running, attempted, charged>>
allVars == <<gatewayVars, middleware>>

Nodes == {"model", "preparing", "executing", "answered", "tools", "finishing",
          "crashed", "ended"}

\* An exception leaves the node: an outer retry runs it again or the graph ends.
Raise == agent' \in {"model", "crashed"} /\ current' = NoCall

\* What the controller resolves in this step is charged.
Charge == charged' = charged \cup (reserved \ reserved')

-----------------------------------------------------------------------------
MiddlewareInit ==
    /\ GatewayInit
    /\ agent = "model" /\ current = NoCall
    /\ pending = {} /\ tools_running = 0
    /\ attempted = {} /\ charged = {}

\* wrap_model_call up to prepare_call.
EnterModel(c) ==
    /\ agent = "model"
    /\ StartAnalysis(c)
    /\ agent' = "preparing" /\ current' = c
    /\ UNCHANGED <<pending, tools_running, attempted, charged>>

\* The graph is over its recursion limit, or something around it raises.
GiveUp ==
    /\ agent \in {"model", "answered"}
    /\ agent' = "crashed" /\ current' = NoCall
    /\ UNCHANGED <<gatewayVars, pending, tools_running, attempted, charged>>

Prepare ==
    /\ agent = "preparing"
    /\ PrepareStep(current)
    /\ UNCHANGED middleware

PrepareRaises ==
    /\ agent = "preparing"
    /\ phase[current] \in {"raised", "abandoned"}
    /\ Raise
    /\ UNCHANGED <<gatewayVars, pending, tools_running, attempted, charged>>

\* _routed_request raises: nothing was sent.
RoutingFails ==
    /\ agent = "preparing"
    /\ FailModel(current, FALSE)
    /\ Raise
    /\ UNCHANGED <<pending, tools_running, attempted, charged>>

\* The handler is called with the routed request.
CallProvider ==
    /\ agent = "preparing"
    /\ phase[current] = "prepared"
    /\ agent' = "executing"
    /\ attempted' = attempted \cup {current}
    /\ UNCHANGED <<gatewayVars, current, pending, tools_running, charged>>

\* Faulty: releases the call as if the provider had not been reached.
HandlerFails_Unbilled ==
    /\ agent = "executing"
    /\ FailModel(current, FALSE)
    /\ Raise
    /\ UNCHANGED <<pending, tools_running, attempted, charged>>

\* The handler or the usage extractor raises: the provider may have billed.
HandlerFails ==
    /\ agent = "executing"
    /\ FailModel(current, TRUE)
    /\ Charge
    /\ Raise
    /\ UNCHANGED <<pending, tools_running, attempted>>

\* The response and its usage are there: _store_pending.
ProviderAnswers ==
    /\ agent = "executing"
    /\ agent' = "answered"
    /\ pending' = pending \cup {current}
    /\ UNCHANGED <<gatewayVars, current, tools_running, attempted, charged>>

TakePending == current \in pending /\ pending' = pending \ {current}

\* The message calls tools, up to the bound on tools, or the agent is done.
Successors == {"finishing"} \cup (IF tool_calls < MaxTools THEN {"tools"} ELSE {})

\* after_model: the usage is settled, and the node raises if that failed the run.
AfterModel(cost, latency) ==
    /\ agent = "answered"
    /\ TakePending
    /\ ObserveModel(current, cost, latency)
    /\ Charge
    /\ agent' \in IF status' = "active" THEN Successors ELSE {"crashed"}
    /\ current' = NoCall
    /\ UNCHANGED <<tools_running, attempted>>

\* after_model with usage that observe_model refuses before it settles: it
\* names another model or a route outside the plan.
AfterModelRefused ==
    /\ agent = "answered"
    /\ TakePending
    /\ agent' = "crashed" /\ current' = NoCall
    /\ UNCHANGED <<gatewayVars, tools_running, attempted, charged>>

\* The tools node starts the tool calls of the model's message.
RunTools(n) ==
    /\ agent = "tools" /\ tools_running = 0
    /\ tool_calls + n <= MaxTools
    /\ tools_running' = n
    /\ UNCHANGED <<gatewayVars, agent, current, pending, attempted, charged>>

\* A tool returns or raises: wrap_tool_call's finally observes it, and raises
\* once the run is past its deadline or over.
ToolEnds ==
    /\ tools_running > 0
    /\ tools_running' = tools_running - 1
    /\ IF Active THEN ToolObserved ELSE UNCHANGED gatewayVars
    /\ agent' \in IF agent # "tools" THEN {agent}
                  ELSE IF status' # "active" THEN {"crashed"}
                  ELSE IF tools_running = 1 THEN {"model", "crashed"}
                  ELSE {"tools", "crashed"}
    /\ UNCHANGED <<current, pending, attempted, charged>>

\* after_agent: a finish_run that raises crashes the graph.
AfterAgent ==
    /\ agent = "finishing"
    /\ IF MayClose(TRUE) THEN CloseRun(TRUE) ELSE UNCHANGED gatewayVars
    /\ Charge
    /\ agent' = IF configured' THEN "crashed" ELSE "ended"
    /\ UNCHANGED <<current, pending, tools_running, attempted>>

\* The application closes the run of a graph that raised, as README.md:368
\* asks of it, and does it again when an allocation was still pending.
ApplicationCloses ==
    /\ agent = "crashed"
    /\ CloseRun(FALSE)
    /\ Charge
    /\ agent' = IF configured' THEN "crashed" ELSE "ended"
    /\ UNCHANGED <<current, pending, tools_running, attempted>>

\* Threads of allocate_call, also those that a cancellation left behind.
Threads == \E c \in Calls : ThreadStep(c) /\ UNCHANGED middleware

Time == ClockTicks /\ UNCHANGED middleware

Node ==
    \/ \E c \in Calls : EnterModel(c)
    \/ GiveUp \/ Prepare \/ PrepareRaises \/ RoutingFails
    \/ CallProvider \/ HandlerFails \/ ProviderAnswers
    \/ \E cost \in 0..MaxUsage, latency \in 0..MaxLatency : AfterModel(cost, latency)
    \/ AfterModelRefused
    \/ \E n \in 1..MaxTools : RunTools(n)
    \/ ToolEnds
    \/ AfterAgent

MiddlewareNext == Node \/ Threads \/ ApplicationCloses \/ Time

\* The event loop runs the graph on, the allocator's threads return and the
\* application closes the run.
MiddlewareSpec ==
    /\ MiddlewareInit /\ [][MiddlewareNext]_allVars
    /\ WF_allVars(Node) /\ WF_allVars(Threads) /\ WF_allVars(ApplicationCloses)

-----------------------------------------------------------------------------
\* Who can still close a reservation: the model node that prepared the call, or,
\* when the answer it left behind was not observed, finish_run alone.
WithNode(c) == c = current /\ agent \in {"preparing", "executing", "answered"}
Unobserved(c) == agent = "crashed" /\ c \in attempted \ charged

\* While the run is active a call holds a reservation only with the model node
\* that prepared it; or unobserved in a crashed graph, when the graph gave up
\* after the provider had answered or observe_model refused the usage; or lost,
\* when prepare_call was cancelled around its allocation. No other way out of
\* prepare_call, the provider or after_model leaves one, whatever raised there,
\* so a node that is run again never competes with reservations of its earlier
\* attempts but lost ones.
ReservationsOwned ==
    Active => \A c \in reserved :
        WithNode(c) \/ Unobserved(c) \/ phase[c] = "abandoned"

\* README.md:355, missing billing after an attempted request is charged: when
\* the invocation is over, every call that reached a provider was charged, with
\* its usage or in full, however the graph, the tools and cancelled threads
\* interleaved and wherever something raised.
AttemptedIsCharged == agent = "ended" => attempted \subseteq charged

\* The run of every invocation ends and the gateway forgets it.
RunIsClosed == <>(agent = "ended" /\ ~Active /\ ~configured)
=============================================================================
