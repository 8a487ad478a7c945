-------------------------- MODULE GlobalController --------------------------
(***************************************************************************)
(* One accounting scope (_Run) of promptrail.controller.GlobalController.  *)
(* Every method takes the controller's lock and touches a single run, so   *)
(* the runs do not interact and a locked section is one atomic action.     *)
(* allocate_call holds the lock twice and calls the Gemma allocator in     *)
(* between: BeginAllocation and CommitAllocation are its two sections.     *)
(* A method that raises before it changes anything is a stuttering step.   *)
(*                                                                         *)
(* Money is counted in whole units, time in ticks of the run's clock.      *)
(* dropped, resolved and overrun are history: no guard reads them.         *)
(***************************************************************************)
EXTENDS Totals

CONSTANTS
    Calls,          \* the call ids uuid4 may hand out
    NoLimit,        \* an optional hard limit that is None
    Policies,       \* the operating policies a run may be started with
    MaxAllocation,  \* bound on the cost of a decision of the allocator
    MaxUsage,       \* bound on the cost a provider reports
    MaxLatency,     \* bound on one call's allocated or reported latency
    MaxElapsed,     \* bound on the age of the run
    MaxTools        \* bound on the number of observed tools

Limit == {NoLimit} \cup (Nat \ {0})

Policy == [agent_cost : Limit, call_cost : Limit,
           agent_latency : Limit, call_latency : Limit]

ASSUME ControllerAssumption ==
    /\ IsFiniteSet(Calls)
    /\ NoLimit \notin Int
    /\ Policies \subseteq Policy
    /\ {MaxAllocation, MaxUsage, MaxLatency, MaxElapsed, MaxTools} \subseteq Nat

VARIABLES
    policy, status,         \* status is the RunStatus
    spent_cost_usd, completed_calls, tool_calls, next_sequence,
    allocating,             \* calls with a thread inside the allocator
    pending_allocations,    \* calls the run knows to be in the allocator
    reserved, budget,       \* the calls with a reservation, and its CallBudget
    finished_at,            \* age of the run when it ended, -1 before that
    elapsed,                \* _elapsed_ms of the run, now
    dropped,                \* issued calls that never got a reservation
    resolved,               \* calls whose reservation was settled or charged
    overrun                 \* usage settled above the settled call's budget

accounts == <<spent_cost_usd, completed_calls, tool_calls, reserved, budget>>
history  == <<dropped, resolved, overrun>>
allocation == <<next_sequence, allocating, pending_allocations>>
vars == <<policy, status, finished_at, elapsed, accounts, allocation, history>>

-----------------------------------------------------------------------------
(* Budgets and limits.                                                     *)

CallBudget == [cost : 0..MaxAllocation, latency : 0..MaxLatency]

\* What the allocator may answer. context_ok abstracts the checks on context
\* tokens and importance overrides: the answer respects the call's context.
Decision == [cost : 1..MaxAllocation, latency : 1..MaxLatency,
             context_ok : BOOLEAN]

Active == status = "active"

Within(amount, limit) == limit # NoLimit => amount <= limit

Costs == [c \in Calls |-> budget[c].cost]

ReservedCost == Total(reserved, Costs, MaxAllocation)

\* Faulty: forgets what concurrent calls hold in reserve.
CostRemains_Unreserved(n) == Within(spent_cost_usd + n, policy.agent_cost)
\* Faulty: the whole deadline, as if the run had just started.
LatencyRemains_Stale(n) == Within(n, policy.agent_latency)

\* Some of limit - spent - reserved, or of limit - elapsed, is at least n.
CostRemains(n) == Within(spent_cost_usd + ReservedCost + n, policy.agent_cost)
LatencyRemains(n) == Within(elapsed + n, policy.agent_latency)

ValidDecision(d) ==
    /\ d.context_ok
    /\ Within(d.cost, policy.call_cost)
    /\ Within(d.latency, policy.call_latency)
    /\ CostRemains(d.cost)
    /\ LatencyRemains(d.latency)

\* What allocate_call checks before it calls the allocator.
MayAllocate == Active /\ CostRemains(1) /\ LatencyRemains(1)

issued == allocating \cup reserved \cup dropped \cup resolved

PastDeadline == ~Within(elapsed, policy.agent_latency)

\* Faulty: fails the run without an end time.
FailIf_Untimed(failure) ==
    /\ status' = IF failure THEN "failed" ELSE status
    /\ UNCHANGED finished_at

\* Ends the run when failure holds and leaves it alone otherwise.
FailIf(failure) ==
    /\ status' = IF failure THEN "failed" ELSE status
    /\ finished_at' = IF failure THEN elapsed ELSE finished_at

\* Faulty: reads the reservation without removing it.
Resolve_Get(c) ==
    /\ c \in reserved
    /\ UNCHANGED reserved
    /\ completed_calls' = completed_calls + 1
    /\ resolved' = resolved \cup {c}

\* reserved.pop and completed_calls += 1.
Resolve(c) ==
    /\ c \in reserved
    /\ reserved' = reserved \ {c}
    /\ completed_calls' = completed_calls + 1
    /\ resolved' = resolved \cup {c}

\* The allocator's thread is back with a budget, or with none. Discards the
\* call from the pending allocations.
Return(c, granted, b) ==
    /\ c \in allocating
    /\ allocating' = allocating \ {c}
    /\ pending_allocations' = pending_allocations \ {c}
    /\ reserved' = IF granted THEN reserved \cup {c} ELSE reserved
    /\ budget' = IF granted THEN [budget EXCEPT ![c] = b] ELSE budget
    /\ dropped' = IF granted THEN dropped ELSE dropped \cup {c}
    /\ UNCHANGED <<policy, status, finished_at, elapsed, next_sequence,
                   spent_cost_usd, completed_calls, tool_calls, resolved,
                   overrun>>

-----------------------------------------------------------------------------
(* The methods.                                                            *)

\* start_run: the run as _Run's defaults make it.
Init ==
    /\ policy \in Policies
    /\ status = "active"
    /\ spent_cost_usd = 0 /\ completed_calls = 0 /\ tool_calls = 0
    /\ next_sequence = 1
    /\ allocating = {} /\ pending_allocations = {}
    /\ reserved = {}
    /\ budget = [c \in Calls |-> [cost |-> 0, latency |-> 0]]
    /\ finished_at = -1
    /\ elapsed = 0
    /\ dropped = {} /\ resolved = {} /\ overrun = 0

\* allocate_call up to the release of the lock before the allocator runs.
BeginAllocation(c) ==
    /\ MayAllocate
    /\ c \notin issued
    /\ next_sequence' = next_sequence + 1
    /\ allocating' = allocating \cup {c}
    /\ pending_allocations' = pending_allocations \cup {c}
    /\ UNCHANGED <<policy, status, finished_at, elapsed, accounts, history>>

\* Faulty: an exception of the allocator leaves the call pending.
AllocatorFails_Leaks(c) ==
    /\ c \in allocating
    /\ allocating' = allocating \ {c}
    /\ dropped' = dropped \cup {c}
    /\ UNCHANGED <<policy, status, finished_at, elapsed, next_sequence,
                   pending_allocations, accounts, resolved, overrun>>

\* The allocator raises: _discard_pending, whatever became of the run.
AllocatorFails(c) == Return(c, FALSE, budget[c])

\* Faulty: the run may have ended during the allocation.
CommitAllocation_Unchecked(c, d) ==
    Return(c, ValidDecision(d), [cost |-> d.cost, latency |-> d.latency])

\* The allocator answers d: the second locked section of allocate_call, which
\* computes what remains afresh.
CommitAllocation(c, d) ==
    Return(c, Active /\ ValidDecision(d),
           [cost |-> d.cost, latency |-> d.latency])

SettleCall(c, cost, latency) ==
    /\ Active
    /\ Resolve(c)
    /\ spent_cost_usd' = spent_cost_usd + cost
    /\ FailIf(\/ ~Within(cost, policy.call_cost)
              \/ ~Within(latency, policy.call_latency)
              \/ ~Within(spent_cost_usd + cost, policy.agent_cost)
              \/ PastDeadline)
    /\ overrun' = IF cost > budget[c].cost
                  THEN overrun + (cost - budget[c].cost) ELSE overrun
    /\ UNCHANGED <<policy, elapsed, allocation, tool_calls, budget, dropped>>

FailCall(c, billing_unknown) ==
    /\ Active
    /\ Resolve(c)
    /\ spent_cost_usd' =
           spent_cost_usd + (IF billing_unknown THEN budget[c].cost ELSE 0)
    /\ UNCHANGED <<policy, status, finished_at, elapsed, allocation,
                   tool_calls, budget, dropped, overrun>>

ObserveTool ==
    /\ Active
    /\ tool_calls < MaxTools
    /\ tool_calls' = tool_calls + 1
    /\ FailIf(PastDeadline)
    /\ UNCHANGED <<policy, elapsed, spent_cost_usd, completed_calls, reserved,
                   budget, allocation, history>>

\* Faulty: does not wait for pending allocations.
FinishRun_Eager(wanted) ==
    /\ Active
    /\ spent_cost_usd' = spent_cost_usd + ReservedCost
    /\ completed_calls' = completed_calls + Cardinality(reserved)
    /\ reserved' = {}
    /\ resolved' = resolved \cup reserved
    /\ status' = IF PastDeadline THEN "failed" ELSE wanted
    /\ finished_at' = elapsed
    /\ UNCHANGED <<policy, elapsed, tool_calls, budget, allocation, dropped,
                   overrun>>

\* finish_run: what is still reserved is charged in full. A run that is past
\* its deadline fails instead of completing.
FinishRun(wanted) ==
    /\ Active
    /\ pending_allocations = {}
    /\ spent_cost_usd' = spent_cost_usd + ReservedCost
    /\ completed_calls' = completed_calls + Cardinality(reserved)
    /\ reserved' = {}
    /\ resolved' = resolved \cup reserved
    /\ status' = IF PastDeadline THEN "failed" ELSE wanted
    /\ finished_at' = elapsed
    /\ UNCHANGED <<policy, elapsed, tool_calls, budget, allocation, dropped,
                   overrun>>

\* The monotonic clock.
Tick ==
    /\ Active
    /\ elapsed < MaxElapsed
    /\ elapsed' = elapsed + 1
    /\ UNCHANGED <<policy, status, finished_at, accounts, allocation, history>>

AllocatorReturns(c) ==
    AllocatorFails(c) \/ \E d \in Decision : CommitAllocation(c, d)

Next ==
    \/ \E c \in Calls :
           \/ BeginAllocation(c)
           \/ AllocatorReturns(c)
           \/ \E cost \in 0..MaxUsage, latency \in 0..MaxLatency :
                  SettleCall(c, cost, latency)
           \/ \E billing_unknown \in BOOLEAN : FailCall(c, billing_unknown)
    \/ ObserveTool
    \/ \E wanted \in {"completed", "failed"} : FinishRun(wanted)
    \/ Tick

\* The allocator answers or raises, as its HTTP client has a timeout. Nothing
\* obliges the agent to settle, to call tools or to finish.
Fairness == \A c \in Calls : WF_vars(AllocatorReturns(c))

Spec == Init /\ [][Next]_vars /\ Fairness

-----------------------------------------------------------------------------
(* What is correct about a run.                                            *)

\* The types of the run's fields. A run has an end time exactly when it is
\* over, as RunSnapshot reports it.
TypeOK ==
    /\ policy \in Policies
    /\ status \in {"active", "completed", "failed"}
    /\ spent_cost_usd \in Nat /\ completed_calls \in Nat /\ tool_calls \in Nat
    /\ next_sequence \in Nat \ {0}
    /\ allocating \subseteq Calls
    /\ pending_allocations \subseteq Calls
    /\ reserved \subseteq Calls
    /\ budget \in [Calls -> CallBudget]
    /\ finished_at \in Nat \cup {-1} /\ (finished_at = -1) = Active
    /\ elapsed \in Nat
    /\ dropped \subseteq Calls /\ resolved \subseteq Calls /\ overrun \in Nat

\* However the threads interleave around the unlocked allocator, what is spent
\* and reserved never passes the hard agent cost limit by more than what
\* providers charged beyond the allocation of a call.
SpendCovered ==
    policy.agent_cost # NoLimit =>
        spent_cost_usd + ReservedCost <= policy.agent_cost + overrun

\* A call is in one place at a time: in the allocator (and then the run knows,
\* so finish_run waits for it), reserved, resolved or without a reservation.
\* Each resolved call was counted once and sequence numbers have no gap.
CallsAccounted ==
    /\ pending_allocations = allocating
    /\ allocating \cap (reserved \cup dropped \cup resolved) = {}
    /\ reserved \cap (dropped \cup resolved) = {}
    /\ dropped \cap resolved = {}
    /\ completed_calls = Cardinality(resolved)
    /\ next_sequence = Cardinality(issued) + 1

\* A completed run has nothing outstanding, no allocation that may still come
\* back and no reservation, and it ended before its deadline.
CompletedRun ==
    status = "completed" =>
        /\ allocating = {} /\ reserved = {}
        /\ Within(finished_at, policy.agent_latency)

\* Once the run is over its accounts are final, whatever threads come back
\* from the allocator or settle late.
TerminalFrozen ==
    [][~Active => UNCHANGED <<status, finished_at, accounts>>]_vars

\* A reservation is only ever granted for what remains of the deadline when it
\* is granted, not when its allocation began.
GrantsFitDeadline ==
    [][\A c \in reserved' \ reserved :
           Active /\ Within(elapsed + budget'[c].latency, policy.agent_latency)]_vars
=============================================================================
