-------------------------- MODULE PromptRailGateway --------------------------
(***************************************************************************)
(* prepare_call, observe_model, fail_model and finish_run of               *)
(* promptrail.gateway.PromptRailGateway for one run, over GlobalController. *)
(*                                                                         *)
(* prepare_call is a coroutine: phase[c] is where it stands. Whoever runs  *)
(* it may cancel it wherever it awaits. allocate_call runs in a thread     *)
(* that a cancellation does not stop: submitted holds the calls whose      *)
(* thread has not taken the controller's lock yet. Only one exception of   *)
(* a step is modelled as the step failing: which task raised and the       *)
(* awaiting of the others leave no trace in the state.                     *)
(*                                                                         *)
(* The phases of a call:                                                   *)
(*   idle        no prepare_call                                           *)
(*   analysing   output prediction, context analysis and ranking run       *)
(*   allocating  the coroutine awaits the thread of allocate_call          *)
(*   granted     the thread returned a budget, the coroutine has not run   *)
(*   planning    ranking, provider plan and compaction                     *)
(*   prepared    the caller has the PreparedCall                           *)
(*   closed      the caller settled or failed it                           *)
(*   raised      prepare_call raised                                       *)
(*   abandoned   prepare_call was cancelled around its allocation          *)
(***************************************************************************)
EXTENDS GlobalController

VARIABLES
    configured,     \* the gateway has the run in _runs
    submitted, phase

Phases == {"idle", "analysing", "allocating", "granted", "planning",
           "prepared", "closed", "raised", "abandoned"}

gateway == <<configured, submitted, phase>>

Become(c, p) == phase' = [phase EXCEPT ![c] = p]

-----------------------------------------------------------------------------
\* start_run: the controller's run, then the configuration.
GatewayInit ==
    /\ Init
    /\ configured = TRUE
    /\ submitted = {}
    /\ phase = [c \in Calls |-> "idle"]

\* prepare_call starts its three tasks. Without a configuration it raises.
StartAnalysis(c) ==
    /\ phase[c] = "idle"
    /\ configured
    /\ Become(c, "analysing")
    /\ UNCHANGED <<vars, configured, submitted>>

\* The prediction or the analysis of the context raises, or is cancelled.
AnalysisFails(c) ==
    /\ phase[c] = "analysing"
    /\ Become(c, "raised")
    /\ UNCHANGED <<vars, configured, submitted>>

\* allocate_call goes to a thread.
SubmitAllocation(c) ==
    /\ phase[c] = "analysing"
    /\ Become(c, "allocating")
    /\ submitted' = submitted \cup {c}
    /\ UNCHANGED <<vars, configured>>

\* The thread enters allocate_call and calls the allocator.
ThreadBegins(c) ==
    /\ c \in submitted
    /\ submitted' = submitted \ {c}
    /\ BeginAllocation(c)
    /\ UNCHANGED <<configured, phase>>

\* allocate_call refuses: the run is over or a limit is exhausted.
ThreadRefused(c) ==
    /\ c \in submitted
    /\ ~MayAllocate
    /\ submitted' = submitted \ {c}
    /\ IF phase[c] = "allocating" THEN Become(c, "raised") ELSE UNCHANGED phase
    /\ UNCHANGED <<vars, configured>>

\* The thread is back from allocate_call, with or without a budget.
ThreadReturns(c) ==
    /\ AllocatorReturns(c)
    /\ IF phase[c] = "allocating"
       THEN Become(c, IF c \in reserved' THEN "granted" ELSE "raised")
       ELSE UNCHANGED phase
    /\ UNCHANGED <<configured, submitted>>

\* The coroutine is cancelled at "await allocation_task". A thread that has
\* not started is withdrawn; a running one cannot be stopped, and a budget it
\* returned is lost with the coroutine.
CancelAllocation(c) ==
    /\ phase[c] \in {"allocating", "granted"}
    /\ Become(c, "abandoned")
    /\ submitted' \in {submitted, submitted \ {c}}
    /\ UNCHANGED <<vars, configured>>

\* The coroutine resumes with its budget and enters the try block.
Resume(c) ==
    /\ phase[c] = "granted"
    /\ Become(c, "planning")
    /\ UNCHANGED <<vars, configured, submitted>>

\* Ranking, provider plan and compaction succeed within the budget.
PlanCall(c) ==
    /\ phase[c] = "planning"
    /\ Become(c, "prepared")
    /\ UNCHANGED <<vars, configured, submitted>>

\* controller.fail_call, which raises when the run is over or the reservation
\* is gone.
Release(c, billing_unknown) ==
    IF Active /\ c \in reserved THEN FailCall(c, billing_unknown)
                                ELSE UNCHANGED vars

\* Faulty: the exception leaves the reservation alone.
PlanFails_Keeps(c) ==
    /\ phase[c] = "planning"
    /\ Become(c, "raised")
    /\ UNCHANGED <<vars, configured, submitted>>

\* A step of the plan raises or is cancelled: the handler releases the call.
PlanFails(c) ==
    /\ phase[c] = "planning"
    /\ Become(c, "raised")
    /\ Release(c, FALSE)
    /\ UNCHANGED <<configured, submitted>>

\* observe_model with usage of an authorized model and route. settle_call may
\* raise after it settled the call. Other usage raises before anything changes.
ObserveModel(c, cost, latency) ==
    /\ phase[c] = "prepared"
    /\ SettleCall(c, cost, latency)
    /\ Become(c, "closed")
    /\ UNCHANGED <<configured, submitted>>

FailModel(c, billing_unknown) ==
    /\ phase[c] = "prepared"
    /\ Release(c, billing_unknown)
    /\ Become(c, "closed")
    /\ UNCHANGED <<configured, submitted>>

Wanted(success) == IF success THEN "completed" ELSE "failed"

\* finish_run does not refuse: no allocation is pending, or the run has ended so.
MayClose(success) ==
    /\ configured
    /\ \/ Active /\ pending_allocations = {}
       \/ status = Wanted(success)

\* finish_run: the configuration goes unless the controller raised, which it
\* does for pending allocations, for a run that ended otherwise and for one
\* that is past its deadline.
CloseRun(success) ==
    /\ configured
    /\ \/ FinishRun(Wanted(success))
       \/ status = Wanted(success) /\ UNCHANGED vars
    /\ configured' = (status' # Wanted(success))
    /\ UNCHANGED <<submitted, phase>>

ToolObserved == ObserveTool /\ UNCHANGED gateway

ClockTicks == Tick /\ UNCHANGED gateway

-----------------------------------------------------------------------------
\* The steps of prepare_call and of its thread, once it was called.
PrepareStep(c) ==
    \/ AnalysisFails(c) \/ SubmitAllocation(c) \/ CancelAllocation(c)
    \/ Resume(c) \/ PlanCall(c) \/ PlanFails(c)

ThreadStep(c) == ThreadBegins(c) \/ ThreadRefused(c) \/ ThreadReturns(c)

gatewayVars == <<vars, gateway>>

=============================================================================
