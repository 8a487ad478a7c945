----------------------- MODULE PromptRailGateway_proofs -----------------------
(* What GlobalController promises holds for any set of calls, any policies *)
(* and any bounds. The gateway and those who drive it, the middleware and  *)
(* the demo's proxy, keep that, and keep what they promise themselves.     *)
EXTENDS PromptRailMiddleware, DemoProxy, TotalsTheorems

USE DEF Active, MayAllocate

-----------------------------------------------------------------------------
(* Types.                                                                  *)

LEMMA BudgetBounds ==
    ASSUME NEW d \in Decision
    PROVE  [cost |-> d.cost, latency |-> d.latency] \in CallBudget
BY ControllerAssumption DEF Decision, CallBudget

LEMMA ReservedCostType ==
    ASSUME TypeOK
    PROVE  ReservedCost \in Nat
<1>1. IsFiniteSet(reserved)
  BY ControllerAssumption, FS_Subset DEF TypeOK
<1> QED
  BY <1>1, ControllerAssumption, TotalType DEF ReservedCost

LEMMA ReservedCardinality ==
    ASSUME TypeOK
    PROVE  IsFiniteSet(reserved) /\ Cardinality(reserved) \in Nat
BY ControllerAssumption, FS_Subset, FS_CardinalityType DEF TypeOK

LEMMA TypeInit == Init => TypeOK
BY ControllerAssumption DEF Init, TypeOK, CallBudget

LEMMA TypeStep == TypeOK /\ [Next]_vars => TypeOK'
<1> SUFFICES ASSUME TypeOK, [Next]_vars
             PROVE  TypeOK'
  OBVIOUS
<1> USE DEF TypeOK
<1>1. ASSUME NEW c \in Calls, BeginAllocation(c)
      PROVE  TypeOK'
  BY <1>1 DEF BeginAllocation, accounts, history
<1>2. ASSUME NEW c \in Calls, NEW granted \in BOOLEAN, NEW b \in CallBudget,
             Return(c, granted, b)
      PROVE  TypeOK'
  BY <1>2 DEF Return
<1>3. ASSUME NEW c \in Calls, AllocatorFails(c)
      PROVE  TypeOK'
  BY <1>2, <1>3 DEF AllocatorFails
<1>4. ASSUME NEW c \in Calls, NEW d \in Decision, CommitAllocation(c, d)
      PROVE  TypeOK'
  BY <1>2, <1>4, BudgetBounds DEF CommitAllocation
<1>5. ASSUME NEW c \in Calls, NEW cost \in 0..MaxUsage,
             NEW latency \in 0..MaxLatency, SettleCall(c, cost, latency)
      PROVE  TypeOK'
  BY <1>5, ControllerAssumption
     DEF SettleCall, Resolve, FailIf, allocation, CallBudget
<1>6. ASSUME NEW c \in Calls, NEW billing_unknown \in BOOLEAN,
             FailCall(c, billing_unknown)
      PROVE  TypeOK'
  BY <1>6, ControllerAssumption DEF FailCall, Resolve, allocation, CallBudget
<1>7. CASE ObserveTool
  BY <1>7 DEF ObserveTool, FailIf, allocation, history
<1>8. ASSUME NEW wanted \in {"completed", "failed"}, FinishRun(wanted)
      PROVE  TypeOK'
  BY <1>8, ReservedCostType, ReservedCardinality DEF FinishRun, allocation
<1>9. CASE Tick
  BY <1>9 DEF Tick, accounts, allocation, history
<1>10. CASE UNCHANGED vars
  BY <1>10 DEF vars, accounts, allocation, history
<1> QED
  BY <1>1, <1>3, <1>4, <1>5, <1>6, <1>7, <1>8, <1>9, <1>10
     DEF Next, AllocatorReturns

\* The run's fields keep their types, and it has an end time exactly when it
\* is over.
THEOREM TypeCorrect == Spec => []TypeOK
BY TypeInit, TypeStep, PTL DEF Spec

-----------------------------------------------------------------------------
(* Where a call is.                                                        *)

LEMMA IssuedFinite ==
    ASSUME TypeOK
    PROVE  /\ IsFiniteSet(issued) /\ Cardinality(issued) \in Nat
           /\ IsFiniteSet(resolved) /\ Cardinality(resolved) \in Nat
<1>1. issued \in SUBSET Calls /\ resolved \in SUBSET Calls
  BY DEF TypeOK, issued
<1> QED
  BY <1>1, ControllerAssumption, FS_Subset, FS_CardinalityType

\* A reservation that goes leaves the call resolved, and counted.
LEMMA ResolveAccounts ==
    ASSUME TypeOK, CallsAccounted, NEW c \in Calls, Resolve(c),
           UNCHANGED <<allocation, dropped>>
    PROVE  CallsAccounted'
<1>1. c \notin resolved /\ resolved' = resolved \cup {c}
  BY DEF CallsAccounted, Resolve
<1>2. Cardinality(resolved') = Cardinality(resolved) + 1
  BY <1>1, IssuedFinite, FS_AddElement
<1>3. issued' = issued
  BY DEF issued, Resolve, allocation
<1> QED
  BY <1>1, <1>2, <1>3 DEF CallsAccounted, Resolve, allocation

LEMMA FinishAccounts ==
    ASSUME TypeOK, CallsAccounted, NEW wanted, FinishRun(wanted)
    PROVE  CallsAccounted'
<1>1. Cardinality(resolved \cup reserved)
        = Cardinality(resolved) + Cardinality(reserved) - Cardinality(resolved \cap reserved)
  BY IssuedFinite, ReservedCardinality, FS_Union
<1>2. Cardinality(resolved \cap reserved) = 0
  <2>1. resolved \cap reserved = {}
    BY DEF CallsAccounted
  <2> QED
    BY <2>1, FS_EmptySet
<1>3. Cardinality(resolved') = completed_calls'
  BY <1>1, <1>2, IssuedFinite, ReservedCardinality DEF FinishRun, CallsAccounted
<1>4. issued' = issued
  BY DEF issued, FinishRun, allocation
<1> QED
  BY <1>3, <1>4 DEF FinishRun, CallsAccounted, allocation

LEMMA AccountedInit == Init => CallsAccounted
<1> SUFFICES ASSUME Init
             PROVE  CallsAccounted
  OBVIOUS
<1>1. issued = {} /\ resolved = {}
  BY DEF Init, issued
<1> QED
  BY <1>1, FS_EmptySet DEF Init, CallsAccounted

LEMMA AccountedStep == TypeOK /\ CallsAccounted /\ [Next]_vars => CallsAccounted'
<1> SUFFICES ASSUME TypeOK, CallsAccounted, [Next]_vars
             PROVE  CallsAccounted'
  OBVIOUS
<1>1. ASSUME NEW c \in Calls, BeginAllocation(c)
      PROVE  CallsAccounted'
  <2>1. issued' = issued \cup {c} /\ c \notin issued
    BY <1>1 DEF BeginAllocation, issued, accounts, history
  <2>2. Cardinality(issued') = Cardinality(issued) + 1
    BY <2>1, IssuedFinite, FS_AddElement
  <2>3. next_sequence' = Cardinality(issued') + 1
    BY <1>1, <2>2, IssuedFinite DEF BeginAllocation, CallsAccounted
  <2> QED
    BY <1>1, <2>1, <2>3
       DEF BeginAllocation, CallsAccounted, issued, accounts, history
<1>2. ASSUME NEW c, NEW granted \in BOOLEAN, NEW b, Return(c, granted, b)
      PROVE  CallsAccounted'
  <2>1. issued' = issued
    BY <1>2 DEF Return, issued
  <2>2. /\ pending_allocations' = allocating'
        /\ allocating' \cap (reserved' \cup dropped' \cup resolved') = {}
    BY <1>2 DEF Return, CallsAccounted
  <2>3. /\ reserved' \cap (dropped' \cup resolved') = {}
        /\ dropped' \cap resolved' = {}
    BY <1>2 DEF Return, CallsAccounted
  <2> QED
    BY <1>2, <2>1, <2>2, <2>3 DEF Return, CallsAccounted
<1>3. ASSUME NEW c, AllocatorFails(c)
      PROVE  CallsAccounted'
  BY <1>2, <1>3 DEF AllocatorFails
<1>4. ASSUME NEW c, NEW d, CommitAllocation(c, d)
      PROVE  CallsAccounted'
  <2>1. (Active /\ ValidDecision(d)) \in BOOLEAN
    BY DEF ValidDecision
  <2> QED
    BY <1>2, <1>4, <2>1 DEF CommitAllocation
<1>5. ASSUME NEW c \in Calls, NEW cost, NEW latency, SettleCall(c, cost, latency)
      PROVE  CallsAccounted'
  BY <1>5, ResolveAccounts DEF SettleCall
<1>6. ASSUME NEW c \in Calls, NEW billing_unknown, FailCall(c, billing_unknown)
      PROVE  CallsAccounted'
  BY <1>6, ResolveAccounts DEF FailCall
<1>7. ASSUME UNCHANGED <<reserved, completed_calls, allocation, dropped, resolved>>
      PROVE  CallsAccounted'
  BY <1>7 DEF CallsAccounted, issued, allocation
<1>8. CASE ObserveTool
  BY <1>7, <1>8 DEF ObserveTool, history
<1>9. ASSUME NEW wanted, FinishRun(wanted)
      PROVE  CallsAccounted'
  BY <1>9, FinishAccounts
<1>10. CASE Tick
  BY <1>7, <1>10 DEF Tick, accounts, history
<1>11. CASE UNCHANGED vars
  BY <1>7, <1>11 DEF vars, accounts, history
<1> QED
  BY <1>1, <1>3, <1>4, <1>5, <1>6, <1>8, <1>9, <1>10, <1>11
     DEF Next, AllocatorReturns

\* Every call is in one place, each resolved call was counted once and no
\* allocation is pending without a thread that will discard it.
THEOREM CallsAreAccounted == Spec => []CallsAccounted
<1>1. Init => TypeOK /\ CallsAccounted
  BY TypeInit, AccountedInit
<1>2. TypeOK /\ CallsAccounted /\ [Next]_vars => (TypeOK /\ CallsAccounted)'
  BY TypeStep, AccountedStep
<1> QED
  BY <1>1, <1>2, PTL DEF Spec

-----------------------------------------------------------------------------
(* What is spent and reserved.                                             *)

LEMMA CostOf ==
    ASSUME TypeOK, NEW c \in Calls
    PROVE  Costs[c] \in Nat /\ Costs[c] <= MaxAllocation /\ Costs[c] = budget[c].cost
BY ControllerAssumption DEF TypeOK, Costs, CallBudget

LEMMA BoundTypes == MaxAllocation \in Nat
BY ControllerAssumption

\* A reservation that goes takes its cost out of what is reserved.
LEMMA ReservedCostResolve ==
    ASSUME TypeOK, NEW c \in Calls, Resolve(c), UNCHANGED budget
    PROVE  ReservedCost = ReservedCost' + budget[c].cost
<1>1. IsFiniteSet(reserved) /\ c \in reserved /\ reserved' = reserved \ {c}
  BY ReservedCardinality DEF Resolve
<1>2. PICK n \in Nat : n = Costs[c] /\ n <= MaxAllocation /\ n = budget[c].cost
  BY CostOf
<1>3. Total(reserved, Costs, MaxAllocation)
        = Total(reserved \ {c}, Costs, MaxAllocation) + n
  <2>1. PICK f : f = Costs
    OBVIOUS
  <2>2. f[c] = n /\ n <= MaxAllocation
    BY <1>2, <2>1
  <2>3. IsFiniteSet(reserved) /\ c \in reserved
    BY <1>1
  <2>4. Total(reserved, f, MaxAllocation) = Total(reserved \ {c}, f, MaxAllocation) + n
    BY <2>2, <2>3, BoundTypes, TotalRemove
  <2> QED
    BY <2>1, <2>4
<1>4. Costs' = Costs
  BY DEF Costs
<1> QED
  BY <1>1, <1>2, <1>3, <1>4 DEF ReservedCost

\* A reservation that is granted adds its cost to what is reserved.
LEMMA ReservedCostGrant ==
    ASSUME TypeOK, CallsAccounted, NEW c \in Calls, NEW b \in CallBudget,
           Return(c, TRUE, b)
    PROVE  ReservedCost' = ReservedCost + b.cost
<1>1. /\ IsFiniteSet(reserved) /\ c \notin reserved
      /\ reserved' = reserved \cup {c} /\ budget' = [budget EXCEPT ![c] = b]
  BY ReservedCardinality DEF Return, CallsAccounted
<1>2. PICK n \in Nat : n = b.cost /\ n <= MaxAllocation
  BY ControllerAssumption DEF CallBudget
<1>3. Costs'[c] = n
  BY <1>1, <1>2 DEF Costs, TypeOK
<1>4. Total(reserved \cup {c}, Costs', MaxAllocation)
        = Total(reserved, Costs', MaxAllocation) + n
  <2>1. PICK f : f = Costs'
    OBVIOUS
  <2>2. Total(reserved \cup {c}, f, MaxAllocation) = Total(reserved, f, MaxAllocation) + n
    <3>1. Joins(c, n, reserved, f, MaxAllocation)
      BY <1>1, <1>2, <1>3, <2>1, BoundTypes DEF Joins
    <3> QED
      BY <3>1, TotalJoins
  <2> QED
    BY <2>1, <2>2
<1>5. \A x \in reserved : Costs'[x] = Costs[x]
  BY <1>1 DEF Costs, TypeOK
<1>6. Total(reserved, Costs', MaxAllocation) = Total(reserved, Costs, MaxAllocation)
  BY <1>5, BoundTypes, TotalCongruence
<1> QED
  BY <1>1, <1>2, <1>4, <1>6 DEF ReservedCost

\* What neither the reservations nor their budgets change is the same total.
LEMMA ReservedCostSame ==
    ASSUME UNCHANGED <<reserved, budget>>
    PROVE  ReservedCost' = ReservedCost
BY DEF ReservedCost, Costs

LEMMA AgentCostType ==
    ASSUME TypeOK
    PROVE  policy.agent_cost # NoLimit => policy.agent_cost \in Nat
BY ControllerAssumption DEF TypeOK, Policy, Limit

LEMMA SpendInit == Init => SpendCovered
<1> SUFFICES ASSUME Init
             PROVE  SpendCovered
  OBVIOUS
<1>1. TypeOK
  BY TypeInit
<1>2. ReservedCost = 0
  BY ControllerAssumption, TotalEmpty DEF Init, ReservedCost
<1> QED
  BY <1>1, <1>2, AgentCostType DEF Init, SpendCovered

LEMMA SpendStep ==
    TypeOK /\ CallsAccounted /\ SpendCovered /\ [Next]_vars => SpendCovered'
<1> SUFFICES ASSUME TypeOK, CallsAccounted, SpendCovered, [Next]_vars,
                    policy'.agent_cost # NoLimit
             PROVE  spent_cost_usd' + ReservedCost' <= policy'.agent_cost + overrun'
  BY DEF SpendCovered
<1>0. policy' = policy
  BY DEF Next, BeginAllocation, AllocatorReturns, AllocatorFails,
         CommitAllocation, Return, SettleCall, FailCall, ObserveTool,
         FinishRun, Tick, vars
<1> DEFINE limit == policy.agent_cost
<1>a. /\ limit # NoLimit /\ limit \in Nat
      /\ spent_cost_usd + ReservedCost <= limit + overrun
  BY <1>0, AgentCostType DEF SpendCovered
<1>b. spent_cost_usd \in Nat /\ overrun \in Nat /\ ReservedCost \in Nat
  BY ReservedCostType DEF TypeOK
<1>c. ReservedCost' \in Nat
  <2>1. IsFiniteSet(reserved')
    BY TypeStep, ControllerAssumption, FS_Subset DEF TypeOK
  <2> QED
    BY <2>1, BoundTypes, TotalType DEF ReservedCost
<1> HIDE DEF limit
<1>d. SUFFICES spent_cost_usd' + ReservedCost' <= limit + overrun'
  BY <1>0 DEF limit
<1>e. ASSUME UNCHANGED <<reserved, budget, spent_cost_usd, overrun>>
      PROVE  spent_cost_usd' + ReservedCost' <= limit + overrun'
  BY <1>a, <1>e, ReservedCostSame
<1>1. ASSUME NEW c \in Calls, BeginAllocation(c)
      PROVE  spent_cost_usd' + ReservedCost' <= limit + overrun'
  BY <1>1, <1>e DEF BeginAllocation, accounts, history
<1>2. ASSUME NEW c \in Calls, AllocatorFails(c)
      PROVE  spent_cost_usd' + ReservedCost' <= limit + overrun'
  BY <1>2, <1>e DEF AllocatorFails, Return
<1>3. ASSUME NEW c \in Calls, NEW d \in Decision, CommitAllocation(c, d)
      PROVE  spent_cost_usd' + ReservedCost' <= limit + overrun'
  <2>1. CASE Active /\ ValidDecision(d)
    <3>1. [cost |-> d.cost, latency |-> d.latency] \in CallBudget
      BY BudgetBounds
    <3>2. ReservedCost' = ReservedCost + d.cost
      <4>1. Return(c, TRUE, [cost |-> d.cost, latency |-> d.latency])
        BY <1>3, <2>1 DEF CommitAllocation
      <4> QED
        BY <3>1, <4>1, ReservedCostGrant
    <3>3. spent_cost_usd + ReservedCost + d.cost <= limit
      BY <2>1, <1>a DEF ValidDecision, CostRemains, Within, limit
    <3>4. d.cost \in Nat
      BY ControllerAssumption DEF Decision
    <3>5. spent_cost_usd' = spent_cost_usd /\ overrun' = overrun
      BY <1>3 DEF CommitAllocation, Return
    <3> QED
      BY <1>a, <1>b, <3>2, <3>3, <3>4, <3>5
  <2>2. CASE ~(Active /\ ValidDecision(d))
    BY <1>3, <2>2, <1>e DEF CommitAllocation, Return
  <2> QED
    BY <2>1, <2>2
<1>4. ASSUME NEW c \in Calls, NEW cost \in 0..MaxUsage, NEW latency,
             SettleCall(c, cost, latency)
      PROVE  spent_cost_usd' + ReservedCost' <= limit + overrun'
  <2>1. ReservedCost = ReservedCost' + budget[c].cost
    BY <1>4, ReservedCostResolve DEF SettleCall
  <2>2. /\ spent_cost_usd' = spent_cost_usd + cost
        /\ overrun' = IF cost > budget[c].cost
                      THEN overrun + (cost - budget[c].cost) ELSE overrun
    BY <1>4 DEF SettleCall
  <2>3. cost \in Nat /\ budget[c].cost \in Nat
    BY ControllerAssumption, CostOf
  <2> QED
    BY <1>a, <1>b, <1>c, <2>1, <2>2, <2>3
<1>5. ASSUME NEW c \in Calls, NEW billing_unknown \in BOOLEAN,
             FailCall(c, billing_unknown)
      PROVE  spent_cost_usd' + ReservedCost' <= limit + overrun'
  <2>1. ReservedCost = ReservedCost' + budget[c].cost
    BY <1>5, ReservedCostResolve DEF FailCall
  <2>2. /\ spent_cost_usd' = spent_cost_usd + (IF billing_unknown THEN budget[c].cost ELSE 0)
        /\ overrun' = overrun
    BY <1>5 DEF FailCall
  <2>3. budget[c].cost \in Nat
    BY CostOf
  <2> QED
    BY <1>a, <1>b, <1>c, <2>1, <2>2, <2>3
<1>6. CASE ObserveTool
  BY <1>6, <1>e DEF ObserveTool, history
<1>7. ASSUME NEW wanted, FinishRun(wanted)
      PROVE  spent_cost_usd' + ReservedCost' <= limit + overrun'
  <2>1. ReservedCost' = 0
    BY <1>7, ControllerAssumption, TotalEmpty DEF FinishRun, ReservedCost
  <2>2. spent_cost_usd' = spent_cost_usd + ReservedCost /\ overrun' = overrun
    BY <1>7 DEF FinishRun
  <2> QED
    BY <1>a, <1>b, <2>1, <2>2
<1>8. CASE Tick
  BY <1>8, <1>e DEF Tick, accounts, history
<1>9. CASE UNCHANGED vars
  BY <1>9, <1>e DEF vars, accounts, history
<1> QED
  BY <1>1, <1>2, <1>3, <1>4, <1>5, <1>6, <1>7, <1>8, <1>9
     DEF Next, AllocatorReturns

\* Concurrent allocations never commit more than the hard agent cost limit
\* beyond what providers overran their calls by.
THEOREM SpendIsCovered == Spec => []SpendCovered
<1>1. Init => TypeOK /\ CallsAccounted /\ SpendCovered
  BY TypeInit, AccountedInit, SpendInit
<1>2. TypeOK /\ CallsAccounted /\ SpendCovered /\ [Next]_vars
        => (TypeOK /\ CallsAccounted /\ SpendCovered)'
  BY TypeStep, AccountedStep, SpendStep
<1> QED
  BY <1>1, <1>2, PTL DEF Spec

-----------------------------------------------------------------------------
(* How a run ends.                                                         *)

LEMMA FrozenStep ==
    [Next]_vars => (~Active => UNCHANGED <<status, finished_at, accounts, policy>>)
<1> SUFFICES ASSUME [Next]_vars, ~Active
             PROVE  UNCHANGED <<status, finished_at, accounts, policy>>
  OBVIOUS
<1> USE DEF accounts
<1>1. ASSUME NEW c, AllocatorReturns(c)
      PROVE  UNCHANGED <<status, finished_at, accounts, policy>>
  BY <1>1 DEF AllocatorReturns, AllocatorFails, CommitAllocation, Return
<1>2. CASE UNCHANGED vars
  BY <1>2 DEF vars
<1> QED
  BY <1>1, <1>2 DEF Next, BeginAllocation, SettleCall, FailCall, ObserveTool,
                    FinishRun, Tick

LEMMA CompletedStep ==
    TypeOK /\ CallsAccounted /\ CompletedRun /\ [Next]_vars => CompletedRun'
<1> SUFFICES ASSUME TypeOK, CallsAccounted, CompletedRun, [Next]_vars,
                    status' = "completed"
             PROVE  /\ allocating' = {} /\ reserved' = {}
                    /\ Within(finished_at', policy'.agent_latency)
  BY DEF CompletedRun
<1>1. CASE Active
  <2>1. ASSUME NEW wanted, FinishRun(wanted)
        PROVE  /\ allocating' = {} /\ reserved' = {}
               /\ Within(finished_at', policy'.agent_latency)
    BY <2>1, <1>1 DEF FinishRun, CallsAccounted, PastDeadline, Within, allocation
  <2>2. \E wanted : FinishRun(wanted)
    BY <1>1 DEF Next, BeginAllocation, AllocatorReturns, AllocatorFails,
                CommitAllocation, Return, SettleCall, FailCall, FailIf,
                ObserveTool, Tick, vars
  <2> QED
    BY <2>1, <2>2
<1>2. CASE ~Active
  <2>1. UNCHANGED <<status, finished_at, accounts, policy>>
    BY <1>2, FrozenStep
  <2>2. allocating = {} /\ reserved = {} /\ Within(finished_at, policy.agent_latency)
    BY <2>1 DEF CompletedRun
  <2>3. allocating' = {}
    BY <1>2, <2>2 DEF Next, BeginAllocation, AllocatorReturns, AllocatorFails,
                      CommitAllocation, Return, SettleCall, FailCall,
                      ObserveTool, FinishRun, Tick, vars, allocation
  <2> QED
    BY <2>1, <2>2, <2>3 DEF accounts, Within
<1> QED
  BY <1>1, <1>2

\* A completed run has nothing outstanding and met its deadline.
THEOREM CompletedRunIsClean == Spec => []CompletedRun
<1>1. Init => CompletedRun
  BY DEF Init, CompletedRun
<1> QED
  BY <1>1, TypeCorrect, CallsAreAccounted, CompletedStep, PTL DEF Spec

\* The accounts of a run that ended are final.
THEOREM TerminalIsFrozen == Spec => TerminalFrozen
<1>1. [Next]_vars => [~Active => UNCHANGED <<status, finished_at, accounts>>]_vars
  BY FrozenStep
<1> QED
  BY <1>1, PTL DEF Spec, TerminalFrozen

-----------------------------------------------------------------------------
(* What a grant promises.                                                  *)

LEMMA GrantStep ==
    ASSUME TypeOK, [Next]_vars, NEW x \in reserved' \ reserved
    PROVE  Active /\ Within(elapsed + budget'[x].latency, policy.agent_latency)
<1>1. ASSUME NEW c \in Calls, NEW d \in Decision, CommitAllocation(c, d)
      PROVE  Active /\ Within(elapsed + budget'[x].latency, policy.agent_latency)
  <2>1. Active /\ ValidDecision(d) /\ x = c
    BY <1>1 DEF CommitAllocation, Return
  <2>2. budget'[x].latency = d.latency
    BY <1>1, <2>1 DEF CommitAllocation, Return, TypeOK
  <2>3. LatencyRemains(d.latency)
    BY <2>1 DEF ValidDecision
  <2> QED
    BY <2>1, <2>2, <2>3 DEF LatencyRemains
<1>2. ASSUME NEW c, AllocatorFails(c)
      PROVE  FALSE
  BY <1>2 DEF AllocatorFails, Return
<1>3. \E c \in Calls : AllocatorReturns(c)
  BY DEF Next, BeginAllocation, SettleCall, FailCall, Resolve, ObserveTool,
         FinishRun, Tick, vars, accounts
<1> QED
  BY <1>1, <1>2, <1>3 DEF AllocatorReturns

\* A reservation is granted within what remains of the deadline at that moment,
\* however long its allocation took.
THEOREM GrantsAreTimely == Spec => GrantsFitDeadline
<1>1. TypeOK /\ [Next]_vars
        => [\A c \in reserved' \ reserved :
               Active /\ Within(elapsed + budget'[c].latency, policy.agent_latency)]_vars
  BY GrantStep
<1> QED
  BY <1>1, TypeCorrect, PTL DEF Spec, GrantsFitDeadline

-----------------------------------------------------------------------------
(* The gateway over the controller.                                        *)

GatewayTypeOK ==
    /\ configured \in BOOLEAN
    /\ submitted \subseteq Calls
    /\ phase \in [Calls -> Phases]

\* Where the thread of a call can be. Until the thread has entered
\* allocate_call the controller does not know the call; and only the end of a
\* coroutine lets go of a reservation while the run is active.
ThreadsMatch ==
    \A c \in Calls :
        /\ c \in submitted => c \notin issued
        /\ c \in submitted \cup allocating => phase[c] \in {"allocating", "abandoned"}
        /\ phase[c] \in {"idle", "analysing"} => c \notin issued
        /\ phase[c] = "allocating" => c \notin reserved
        /\ Active /\ phase[c] \in {"granted", "planning", "prepared"} => c \in reserved

\* A prepare_call that raised, and a call its caller closed, hold nothing of an
\* active run's budget.
HeldByPhase ==
    Active => \A c \in reserved :
        phase[c] \in {"granted", "planning", "prepared", "abandoned"}

GatewayInv ==
    /\ TypeOK /\ CallsAccounted
    /\ GatewayTypeOK /\ ThreadsMatch /\ HeldByPhase

\* What agents, threads and applications may do with a gateway.
GatewayNext ==
    \/ \E c \in Calls :
           \/ StartAnalysis(c) \/ PrepareStep(c) \/ ThreadStep(c)
           \/ \E cost \in 0..MaxUsage, latency \in 0..MaxLatency :
                  ObserveModel(c, cost, latency)
           \/ \E billing_unknown \in BOOLEAN : FailModel(c, billing_unknown)
    \/ \E success \in BOOLEAN : CloseRun(success)
    \/ ToolObserved \/ ClockTicks

LEMMA GatewayImplements == [GatewayNext]_gatewayVars => [Next]_vars
<1> SUFFICES ASSUME [GatewayNext]_gatewayVars
             PROVE  [Next]_vars
  OBVIOUS
<1>1. ASSUME NEW c \in Calls, StartAnalysis(c) \/ PrepareStep(c)
      PROVE  [Next]_vars
  BY <1>1 DEF StartAnalysis, PrepareStep, AnalysisFails, SubmitAllocation,
              CancelAllocation, Resume, PlanCall, PlanFails, Release, Next
<1>2. ASSUME NEW c \in Calls, ThreadStep(c)
      PROVE  [Next]_vars
  BY <1>2 DEF ThreadStep, ThreadBegins, ThreadRefused, ThreadReturns, Next
<1>3. ASSUME NEW c \in Calls, NEW cost \in 0..MaxUsage, NEW latency \in 0..MaxLatency,
             ObserveModel(c, cost, latency)
      PROVE  [Next]_vars
  BY <1>3 DEF ObserveModel, Next
<1>4. ASSUME NEW c \in Calls, NEW billing_unknown \in BOOLEAN, FailModel(c, billing_unknown)
      PROVE  [Next]_vars
  BY <1>4 DEF FailModel, Release, Next
<1>5. ASSUME NEW success \in BOOLEAN, CloseRun(success)
      PROVE  [Next]_vars
  BY <1>5 DEF CloseRun, Wanted, Next
<1>6. CASE ToolObserved \/ ClockTicks
  BY <1>6 DEF ToolObserved, ClockTicks, Next
<1>7. CASE UNCHANGED gatewayVars
  BY <1>7 DEF gatewayVars
<1> QED
  BY <1>1, <1>2, <1>3, <1>4, <1>5, <1>6, <1>7 DEF GatewayNext

LEMMA GatewayInitially == GatewayInit => GatewayInv
<1> SUFFICES ASSUME GatewayInit
             PROVE  GatewayInv
  OBVIOUS
<1>1. TypeOK /\ CallsAccounted
  BY TypeInit, AccountedInit DEF GatewayInit
<1>2. GatewayTypeOK /\ ThreadsMatch /\ HeldByPhase
  BY DEF GatewayInit, Init, GatewayTypeOK, Phases, ThreadsMatch, issued, HeldByPhase
<1> QED
  BY <1>1, <1>2 DEF GatewayInv

LEMMA GatewayTypeStep ==
    GatewayTypeOK /\ [GatewayNext]_gatewayVars => GatewayTypeOK'
BY DEF GatewayTypeOK, GatewayNext, gatewayVars, gateway, Phases, Become,
       StartAnalysis, PrepareStep, AnalysisFails, SubmitAllocation, CancelAllocation,
       Resume, PlanCall, PlanFails, ThreadStep, ThreadBegins, ThreadRefused,
       ThreadReturns, ObserveModel, FailModel, CloseRun, ToolObserved, ClockTicks

\* A step of one call's coroutine that the controller does not see.
LEMMA CoroutineStep ==
    ASSUME GatewayInv, NEW c \in Calls, NEW p \in Phases,
           UNCHANGED <<vars, configured>>, Become(c, p),
           submitted' \subseteq submitted \cup {c},
           c \in submitted' => c \notin issued,
           c \in submitted' \cup allocating => p \in {"allocating", "abandoned"},
           p \in {"idle", "analysing"} => c \notin issued,
           p = "allocating" => c \notin reserved,
           Active /\ p \in {"granted", "planning", "prepared"} => c \in reserved,
           Active /\ c \in reserved => p \in {"granted", "planning", "prepared", "abandoned"}
    PROVE  ThreadsMatch' /\ HeldByPhase'
<1>1. UNCHANGED <<issued, allocating, reserved, status>>
  BY DEF issued, vars, accounts, allocation, history
<1>2. phase' \in [Calls -> Phases] /\ phase'[c] = p
      /\ \A x \in Calls \ {c} : phase'[x] = phase[x]
  BY DEF Become, GatewayInv, GatewayTypeOK
<1>3. ThreadsMatch'
  <2> SUFFICES ASSUME NEW x \in Calls
               PROVE  /\ x \in submitted' => x \notin issued'
                      /\ x \in submitted' \cup allocating' => phase'[x] \in {"allocating", "abandoned"}
                      /\ phase'[x] \in {"idle", "analysing"} => x \notin issued'
                      /\ phase'[x] = "allocating" => x \notin reserved'
                      /\ Active' /\ phase'[x] \in {"granted", "planning", "prepared"} => x \in reserved'
    BY DEF ThreadsMatch
  <2>1. CASE x = c
    BY <1>1, <1>2, <2>1
  <2>2. CASE x # c
    BY <1>1, <1>2, <2>2 DEF GatewayInv, ThreadsMatch
  <2> QED
    BY <2>1, <2>2
<1>4. HeldByPhase'
  BY <1>1, <1>2 DEF GatewayInv, HeldByPhase, TypeOK
<1> QED
  BY <1>3, <1>4

\* A coroutine lets go of its reservation and is done with the call.
LEMMA ResolveStep ==
    ASSUME GatewayInv, NEW c \in Calls, NEW p \in {"closed", "raised"},
           phase[c] \in {"planning", "prepared"},
           Become(c, p), Resolve(c), UNCHANGED <<submitted, allocating, dropped>>,
           Active
    PROVE  ThreadsMatch' /\ HeldByPhase'
<1>1. issued' = issued
  BY DEF issued, Resolve
<1>2. phase' \in [Calls -> Phases] /\ phase'[c] = p
      /\ \A x \in Calls \ {c} : phase'[x] = phase[x]
  BY DEF Become, GatewayInv, GatewayTypeOK, Phases
<1>3. ThreadsMatch'
  BY <1>1, <1>2 DEF GatewayInv, ThreadsMatch, Resolve
<1>4. HeldByPhase'
  BY <1>2 DEF GatewayInv, HeldByPhase, Resolve, TypeOK
<1> QED
  BY <1>3, <1>4

LEMMA ReleaseStep ==
    ASSUME GatewayInv, NEW c \in Calls, NEW p \in {"closed", "raised"},
           NEW billing_unknown, phase[c] \in {"planning", "prepared"},
           Become(c, p), Release(c, billing_unknown), UNCHANGED <<configured, submitted>>
    PROVE  ThreadsMatch' /\ HeldByPhase'
<1>1. CASE Active
  <2>1. FailCall(c, billing_unknown)
    BY <1>1 DEF Release, GatewayInv, ThreadsMatch
  <2> QED
    BY <1>1, <2>1, ResolveStep DEF FailCall, allocation
<1>2. CASE ~Active
  BY <1>2, CoroutineStep DEF Release, GatewayInv, ThreadsMatch, GatewayTypeOK, Phases
<1> QED
  BY <1>1, <1>2

LEMMA GatewayStep == GatewayInv /\ [GatewayNext]_gatewayVars => GatewayInv'
<1> SUFFICES ASSUME GatewayInv, [GatewayNext]_gatewayVars
             PROVE  GatewayInv'
  OBVIOUS
<1>0. /\ TypeOK' /\ CallsAccounted' /\ GatewayTypeOK'
  BY GatewayImplements, TypeStep, AccountedStep, GatewayTypeStep DEF GatewayInv
<1> SUFFICES ThreadsMatch' /\ HeldByPhase'
  BY <1>0 DEF GatewayInv
<1> USE DEF GatewayInv
<1>1. ASSUME NEW c \in Calls, StartAnalysis(c)
      PROVE  ThreadsMatch' /\ HeldByPhase'
  BY <1>1, CoroutineStep DEF StartAnalysis, ThreadsMatch, issued, Phases, GatewayTypeOK
<1>2. ASSUME NEW c \in Calls, AnalysisFails(c)
      PROVE  ThreadsMatch' /\ HeldByPhase'
  BY <1>2, CoroutineStep DEF AnalysisFails, ThreadsMatch, issued, Phases, GatewayTypeOK
<1>3. ASSUME NEW c \in Calls, SubmitAllocation(c)
      PROVE  ThreadsMatch' /\ HeldByPhase'
  BY <1>3, CoroutineStep DEF SubmitAllocation, ThreadsMatch, issued, Phases, GatewayTypeOK
<1>4. ASSUME NEW c \in Calls, CancelAllocation(c)
      PROVE  ThreadsMatch' /\ HeldByPhase'
  BY <1>4, CoroutineStep DEF CancelAllocation, ThreadsMatch, issued, Phases, GatewayTypeOK
<1>5. ASSUME NEW c \in Calls, Resume(c)
      PROVE  ThreadsMatch' /\ HeldByPhase'
  BY <1>5, CoroutineStep DEF Resume, ThreadsMatch, issued, Phases, GatewayTypeOK
<1>6. ASSUME NEW c \in Calls, PlanCall(c)
      PROVE  ThreadsMatch' /\ HeldByPhase'
  BY <1>6, CoroutineStep DEF PlanCall, ThreadsMatch, issued, Phases, GatewayTypeOK
<1>7. ASSUME NEW c \in Calls, PlanFails(c)
      PROVE  ThreadsMatch' /\ HeldByPhase'
  <2>1. PICK billing_unknown : Release(c, billing_unknown)
    BY <1>7, Zenon DEF PlanFails
  <2>2. phase[c] \in {"planning", "prepared"} /\ Become(c, "raised")
        /\ UNCHANGED <<configured, submitted>>
    BY <1>7 DEF PlanFails
  <2> QED
    BY <2>1, <2>2, ReleaseStep
<1>8. ASSUME NEW c \in Calls, NEW billing_unknown \in BOOLEAN, FailModel(c, billing_unknown)
      PROVE  ThreadsMatch' /\ HeldByPhase'
  BY <1>8, ReleaseStep DEF FailModel, Phases
<1>9. ASSUME NEW c \in Calls, NEW cost \in 0..MaxUsage, NEW latency \in 0..MaxLatency,
             ObserveModel(c, cost, latency)
      PROVE  ThreadsMatch' /\ HeldByPhase'
  BY <1>9, ResolveStep DEF ObserveModel, SettleCall, allocation, FailIf, Phases
<1>10. ASSUME NEW c \in Calls, ThreadBegins(c)
       PROVE  ThreadsMatch' /\ HeldByPhase'
  BY <1>10 DEF ThreadBegins, BeginAllocation, ThreadsMatch, HeldByPhase,
               issued, GatewayTypeOK, TypeOK, accounts, history
<1>11. ASSUME NEW c \in Calls, ThreadRefused(c)
       PROVE  ThreadsMatch' /\ HeldByPhase'
  BY <1>11 DEF ThreadRefused, ThreadsMatch, HeldByPhase, Become,
               issued, GatewayTypeOK, TypeOK, vars, accounts, allocation, history
<1>12. ASSUME NEW c \in Calls, ThreadReturns(c)
       PROVE  ThreadsMatch' /\ HeldByPhase'
  <2>1. PICK granted, b : Return(c, granted, b)
    BY <1>12 DEF ThreadReturns, AllocatorReturns, AllocatorFails, CommitAllocation,
                 ValidDecision
  <2>2. reserved' \in {reserved, reserved \cup {c}} /\ issued' = issued /\ c \in allocating
    BY <2>1 DEF Return, issued
  <2>3. status' = status /\ allocating' = allocating \ {c} /\ submitted' = submitted
    BY <1>12, <2>1 DEF ThreadReturns, Return
  <2>4. c \notin submitted /\ c \notin reserved /\ phase[c] \in {"allocating", "abandoned"}
    BY <2>2 DEF ThreadsMatch, issued, CallsAccounted
  <2>5. /\ phase'[c] \in {"granted", "raised", "abandoned"}
        /\ phase'[c] = "granted" => c \in reserved'
        /\ phase'[c] = "raised" => c \notin reserved'
        /\ \A x \in Calls \ {c} : phase'[x] = phase[x]
    BY <1>12, <2>4 DEF ThreadReturns, Become, GatewayTypeOK
  <2>6. ThreadsMatch'
    BY <2>2, <2>3, <2>4, <2>5 DEF ThreadsMatch
  <2>7. HeldByPhase'
    BY <2>2, <2>3, <2>5 DEF HeldByPhase, TypeOK
  <2> QED
    BY <2>6, <2>7
<1>13. ASSUME NEW success \in BOOLEAN, CloseRun(success)
       PROVE  ThreadsMatch' /\ HeldByPhase'
  BY <1>13 DEF CloseRun, FinishRun, Wanted, ThreadsMatch, HeldByPhase,
               issued, vars, accounts, allocation, history
<1>14. CASE ToolObserved
  BY <1>14 DEF ToolObserved, gateway, ObserveTool, FailIf, ThreadsMatch,
               HeldByPhase, issued, TypeOK, allocation, history
<1>15. CASE ClockTicks
  BY <1>15 DEF ClockTicks, gateway, Tick, ThreadsMatch,
               HeldByPhase, issued, accounts, allocation, history
<1>16. CASE UNCHANGED gatewayVars
  BY <1>16 DEF gatewayVars, gateway, vars, ThreadsMatch,
               HeldByPhase, issued, accounts, allocation, history
<1> QED
  BY <1>1, <1>2, <1>3, <1>4, <1>5, <1>6, <1>7, <1>8, <1>9, <1>10, <1>11,
     <1>12, <1>13, <1>14, <1>15, <1>16 DEF GatewayNext, PrepareStep, ThreadStep

-----------------------------------------------------------------------------
(* The middleware over the gateway.                                        *)

MiddlewareTypeOK ==
    /\ agent \in Nodes
    /\ current \in Calls \cup {NoCall}
    /\ pending \subseteq Calls /\ tools_running \in Nat
    /\ attempted \subseteq Calls /\ charged \subseteq Calls

\* The run stays active under the model node, as tools run in their own node
\* and go on only after a crash.
NodeRuns ==
    /\ agent \in {"preparing", "executing", "answered"} => current \in Calls
    /\ agent \in {"executing", "answered"} => phase[current] = "prepared"
    /\ agent \notin {"tools", "crashed", "ended"} => tools_running = 0 /\ Active

\* A call that reached a provider is charged, or still reserved in an active
\* run: by the model node, or after a crash of it.
AttemptedIsHeld ==
    \/ attempted \subseteq charged
    \/ /\ Active /\ tools_running = 0
       /\ attempted \subseteq charged \cup reserved
       /\ \/ agent \in {"executing", "answered"} /\ attempted \subseteq charged \cup {current}
          \/ agent = "crashed"

\* A prepare_call that is under way belongs to the model node, which executes
\* only what it attempted; and what was charged holds no reservation.
NodeOwns ==
    /\ \A c \in Calls :
           phase[c] \in {"analysing", "allocating", "granted", "planning"} =>
               c = current /\ agent = "preparing"
    /\ agent \in {"executing", "answered"} => current \in attempted
    /\ charged \subseteq resolved

MiddlewareInv ==
    /\ GatewayInv
    /\ MiddlewareTypeOK /\ NodeRuns /\ AttemptedIsHeld /\ AttemptedIsCharged
    /\ NodeOwns /\ ReservationsOwned

LEMMA MiddlewareImplements ==
    MiddlewareTypeOK /\ NodeRuns /\ [MiddlewareNext]_allVars => [GatewayNext]_gatewayVars
<1> SUFFICES ASSUME MiddlewareTypeOK, NodeRuns, [MiddlewareNext]_allVars
             PROVE  [GatewayNext]_gatewayVars
  OBVIOUS
<1>1. ASSUME NEW c \in Calls, EnterModel(c)
      PROVE  [GatewayNext]_gatewayVars
  BY <1>1 DEF EnterModel, GatewayNext
<1>2. CASE GiveUp \/ PrepareRaises \/ CallProvider \/ ProviderAnswers \/ AfterModelRefused
  BY <1>2 DEF GiveUp, PrepareRaises, CallProvider, ProviderAnswers, AfterModelRefused
<1>3. CASE Prepare
  BY <1>3 DEF Prepare, NodeRuns, GatewayNext
<1>4. CASE RoutingFails
  <2>1. \E billing_unknown \in BOOLEAN : FailModel(current, billing_unknown)
    BY <1>4, Zenon DEF RoutingFails
  <2>2. current \in Calls
    BY <1>4 DEF RoutingFails, NodeRuns
  <2> QED
    BY <2>1, <2>2 DEF GatewayNext
<1>5. CASE HandlerFails
  <2>1. \E billing_unknown \in BOOLEAN : FailModel(current, billing_unknown)
    BY <1>5, Zenon DEF HandlerFails
  <2>2. current \in Calls
    BY <1>5 DEF HandlerFails, NodeRuns
  <2> QED
    BY <2>1, <2>2 DEF GatewayNext
<1>6. ASSUME NEW cost \in 0..MaxUsage, NEW latency \in 0..MaxLatency,
             AfterModel(cost, latency)
      PROVE  [GatewayNext]_gatewayVars
  BY <1>6 DEF AfterModel, NodeRuns, GatewayNext
<1>7. ASSUME NEW n, RunTools(n)
      PROVE  [GatewayNext]_gatewayVars
  BY <1>7 DEF RunTools
<1>8. CASE ToolEnds
  BY <1>8 DEF ToolEnds, GatewayNext
<1>9. CASE AfterAgent
  <2>1. (\E success \in BOOLEAN : CloseRun(success)) \/ UNCHANGED gatewayVars
    BY <1>9, Zenon DEF AfterAgent
  <2> QED
    BY <2>1 DEF GatewayNext
<1>10. CASE ApplicationCloses
  <2>1. \E success \in BOOLEAN : CloseRun(success)
    BY <1>10, Zenon DEF ApplicationCloses
  <2> QED
    BY <2>1 DEF GatewayNext
<1>11. CASE Threads
  BY <1>11 DEF Threads, GatewayNext
<1>12. CASE Time \/ UNCHANGED allVars
  BY <1>12 DEF Time, GatewayNext, allVars
<1> QED
  BY <1>1, <1>2, <1>3, <1>4, <1>5, <1>6, <1>7, <1>8, <1>9, <1>10, <1>11, <1>12
     DEF MiddlewareNext, Node

LEMMA MiddlewareTypeStep ==
    ASSUME TypeOK, MiddlewareTypeOK, NodeRuns, [MiddlewareNext]_allVars
    PROVE  MiddlewareTypeOK'
<1> USE DEF MiddlewareTypeOK, Nodes
<1>1. ASSUME NEW c \in Calls, EnterModel(c)
      PROVE  MiddlewareTypeOK'
  BY <1>1 DEF EnterModel
<1>2. CASE GiveUp \/ PrepareRaises \/ CallProvider \/ ProviderAnswers \/ AfterModelRefused
  BY <1>2 DEF GiveUp, PrepareRaises, CallProvider, ProviderAnswers, AfterModelRefused,
              Raise, TakePending, NodeRuns
<1>3. CASE Prepare \/ RoutingFails \/ HandlerFails
  BY <1>3 DEF Prepare, RoutingFails, HandlerFails, Raise, Charge, middleware, TypeOK
<1>4. ASSUME NEW cost \in 0..MaxUsage, NEW latency \in 0..MaxLatency,
             AfterModel(cost, latency)
      PROVE  MiddlewareTypeOK'
  BY <1>4 DEF AfterModel, TakePending, Successors, Charge, TypeOK
<1>5. ASSUME NEW n \in 1..MaxTools, RunTools(n)
      PROVE  MiddlewareTypeOK'
  BY <1>5, ControllerAssumption DEF RunTools
<1>6. CASE ToolEnds
  BY <1>6 DEF ToolEnds
<1>7. CASE AfterAgent \/ ApplicationCloses
  BY <1>7 DEF AfterAgent, ApplicationCloses, Charge, TypeOK
<1>8. CASE Threads \/ Time \/ UNCHANGED allVars
  BY <1>8 DEF Threads, Time, allVars, middleware
<1> QED
  BY <1>1, <1>2, <1>3, <1>4, <1>5, <1>6, <1>7, <1>8 DEF MiddlewareNext, Node

\* A caller that fails its call of an active run lets go of its reservation.
LEMMA FailModelReleases ==
    ASSUME GatewayInv, Active, NEW c \in Calls, NEW billing_unknown,
           FailModel(c, billing_unknown)
    PROVE  c \in reserved /\ reserved' = reserved \ {c} /\ status' = status
<1>1. c \in reserved
  BY DEF FailModel, GatewayInv, ThreadsMatch
<1> QED
  BY <1>1 DEF FailModel, Release, FailCall, Resolve

\* A thread neither ends the run nor takes a reservation away, and the phase of
\* a prepared call is its caller's.
LEMMA ThreadStepKeeps ==
    ASSUME GatewayInv, NEW c \in Calls, ThreadStep(c)
    PROVE  /\ status' = status /\ reserved \subseteq reserved'
           /\ \A x \in Calls : phase[x] = "prepared" => phase'[x] = "prepared"
<1>1. CASE ThreadBegins(c)
  BY <1>1 DEF ThreadBegins, BeginAllocation, accounts
<1>2. CASE ThreadRefused(c)
  BY <1>2 DEF ThreadRefused, Become, GatewayInv, GatewayTypeOK, vars, accounts
<1>3. CASE ThreadReturns(c)
  BY <1>3 DEF ThreadReturns, AllocatorReturns, AllocatorFails, CommitAllocation, Return,
              Become, GatewayInv, GatewayTypeOK
<1> QED
  BY <1>1, <1>2, <1>3 DEF ThreadStep

LEMMA PrepareStepKeeps ==
    ASSUME GatewayInv, Active, NEW c \in Calls, PrepareStep(c)
    PROVE  status' = status
BY DEF PrepareStep, AnalysisFails, SubmitAllocation, CancelAllocation, Resume, PlanCall,
       PlanFails, Release, FailCall, vars

LEMMA NodeRunsStep ==
    ASSUME GatewayInv, MiddlewareTypeOK, NodeRuns, [MiddlewareNext]_allVars
    PROVE  NodeRuns'
<1> USE DEF NodeRuns
<1>1. ASSUME NEW c \in Calls, EnterModel(c)
      PROVE  NodeRuns'
  BY <1>1 DEF EnterModel, StartAnalysis, vars
<1>2. CASE GiveUp \/ PrepareRaises
  BY <1>2 DEF GiveUp, PrepareRaises, Raise, gatewayVars, vars
<1>3. CASE CallProvider \/ ProviderAnswers \/ AfterModelRefused
  BY <1>3 DEF CallProvider, ProviderAnswers, AfterModelRefused, gatewayVars, gateway, vars
<1>4. CASE Prepare
  BY <1>4, PrepareStepKeeps DEF Prepare, middleware
<1>5. CASE RoutingFails \/ HandlerFails
  <2>1. PICK billing_unknown : FailModel(current, billing_unknown)
    BY <1>5, Zenon DEF RoutingFails, HandlerFails
  <2>2. Active /\ current \in Calls /\ tools_running = 0
    BY <1>5 DEF RoutingFails, HandlerFails
  <2>3. status' = status
    BY <2>1, <2>2, FailModelReleases
  <2> QED
    BY <1>5, <2>2, <2>3 DEF RoutingFails, HandlerFails, Raise
<1>6. ASSUME NEW cost, NEW latency, AfterModel(cost, latency)
      PROVE  NodeRuns'
  BY <1>6 DEF AfterModel, Successors
<1>7. ASSUME NEW n, RunTools(n)
      PROVE  NodeRuns'
  BY <1>7 DEF RunTools
<1>8. CASE ToolEnds
  BY <1>8 DEF ToolEnds, MiddlewareTypeOK
<1>9. CASE AfterAgent \/ ApplicationCloses
  BY <1>9 DEF AfterAgent, ApplicationCloses
<1>10. CASE Threads
  BY <1>10, ThreadStepKeeps DEF Threads, middleware
<1>11. CASE Time
  BY <1>11 DEF Time, ClockTicks, Tick, gateway, middleware
<1>12. CASE UNCHANGED allVars
  BY <1>12 DEF allVars, middleware, gatewayVars, gateway, vars
<1> QED
  BY <1>1, <1>2, <1>3, <1>4, <1>5, <1>6, <1>7, <1>8, <1>9, <1>10, <1>11, <1>12
     DEF MiddlewareNext, Node

LEMMA AttemptedStep ==
    ASSUME MiddlewareInv, [MiddlewareNext]_allVars
    PROVE  AttemptedIsHeld' /\ AttemptedIsCharged'
<1> USE DEF MiddlewareInv, AttemptedIsHeld, AttemptedIsCharged
<1>0. GatewayInv /\ MiddlewareTypeOK /\ NodeRuns
  OBVIOUS
<1>1. ASSUME attempted \subseteq charged, attempted' = attempted, charged \subseteq charged'
      PROVE  AttemptedIsHeld' /\ AttemptedIsCharged'
  BY <1>1
<1>2. ASSUME NEW c \in Calls, EnterModel(c)
      PROVE  AttemptedIsHeld' /\ AttemptedIsCharged'
  BY <1>1, <1>2 DEF EnterModel
<1>3. CASE GiveUp \/ AfterModelRefused
  BY <1>3 DEF GiveUp, AfterModelRefused, gatewayVars, vars, accounts
<1>4. CASE Prepare \/ PrepareRaises \/ RoutingFails
  BY <1>1, <1>4 DEF Prepare, PrepareRaises, RoutingFails, middleware
<1>5. CASE CallProvider
  <2>1. current \in reserved /\ UNCHANGED <<reserved, status>>
    BY <1>5 DEF CallProvider, NodeRuns, GatewayInv, ThreadsMatch, gatewayVars, vars, accounts
  <2> QED
    BY <1>5, <2>1 DEF CallProvider, NodeRuns
<1>6. CASE HandlerFails
  <2>1. FailModel(current, TRUE) /\ Active /\ current \in Calls
    BY <1>6 DEF HandlerFails, NodeRuns
  <2>2. PICK billing_unknown : FailModel(current, billing_unknown)
    BY <2>1, Zenon
  <2>3. current \in reserved /\ reserved' = reserved \ {current}
    BY <2>1, <2>2, FailModelReleases
  <2> QED
    BY <1>6, <2>3 DEF HandlerFails, Charge, Raise
<1>7. CASE ProviderAnswers
  BY <1>7 DEF ProviderAnswers, gatewayVars, vars, accounts
<1>8. ASSUME NEW cost, NEW latency, AfterModel(cost, latency)
      PROVE  AttemptedIsHeld' /\ AttemptedIsCharged'
  <2>1. charged' = charged \cup {current} /\ attempted' = attempted /\ agent = "answered"
    BY <1>8 DEF AfterModel, ObserveModel, SettleCall, Resolve, Charge
  <2> QED
    BY <2>1
<1>9. ASSUME NEW n, RunTools(n)
      PROVE  AttemptedIsHeld' /\ AttemptedIsCharged'
  BY <1>1, <1>9 DEF RunTools
<1>10. CASE ToolEnds
  BY <1>1, <1>10 DEF ToolEnds
<1>11. CASE AfterAgent
  BY <1>1, <1>11 DEF AfterAgent, Charge
<1>12. CASE ApplicationCloses
  <2>1. CASE attempted \subseteq charged
    BY <1>1, <1>12, <2>1 DEF ApplicationCloses, Charge
  <2>2. CASE Active
    <3>1. reserved' = {}
      BY <1>12, <2>2 DEF ApplicationCloses, CloseRun, FinishRun, Wanted
    <3> QED
      BY <1>12, <2>2, <3>1 DEF ApplicationCloses, Charge
  <2> QED
    BY <2>1, <2>2
<1>13. CASE Threads
  BY <1>0, <1>13, ThreadStepKeeps DEF Threads, middleware
<1>14. CASE Time \/ UNCHANGED allVars
  BY <1>14 DEF Time, ClockTicks, Tick, accounts, allVars, gatewayVars, vars, middleware
<1> QED
  BY <1>2, <1>3, <1>4, <1>5, <1>6, <1>7, <1>8, <1>9, <1>10, <1>11, <1>12, <1>13, <1>14
     DEF MiddlewareNext, Node

\* The controller resolves what it takes from the reservations, for good.
LEMMA ResolvedGrows ==
    ASSUME [Next]_vars
    PROVE  resolved \cup (reserved \ reserved') \subseteq resolved'
BY DEF Next, BeginAllocation, AllocatorReturns, AllocatorFails, CommitAllocation, Return,
       SettleCall, FailCall, Resolve, ObserveTool, FinishRun, Tick, vars, accounts, history

\* Only the coroutine that a step belongs to moves, and only its own call.
LEMMA FailModelMoves ==
    ASSUME GatewayInv, NEW c \in Calls, NEW billing_unknown, FailModel(c, billing_unknown)
    PROVE  phase'[c] = "closed" /\ \A x \in Calls \ {c} : phase'[x] = phase[x]
BY DEF FailModel, Become, GatewayInv, GatewayTypeOK

LEMMA PrepareStepMoves ==
    ASSUME GatewayInv, NEW c \in Calls, PrepareStep(c)
    PROVE  /\ reserved' \subseteq reserved /\ status' = status
           /\ \A x \in Calls \ {c} : phase'[x] = phase[x]
BY DEF PrepareStep, AnalysisFails, SubmitAllocation, CancelAllocation, Resume, PlanCall,
       PlanFails, Release, FailCall, Resolve, Become, GatewayInv, GatewayTypeOK, vars,
       accounts

\* A thread may bring its call a reservation. The coroutine it answers to was
\* allocating, or abandoned it and stays so.
LEMMA ThreadStepMoves ==
    ASSUME GatewayInv, NEW c \in Calls, ThreadStep(c)
    PROVE  /\ reserved' \subseteq reserved \cup {c}
           /\ c \in reserved' \ reserved => phase[c] \in {"allocating", "abandoned"}
           /\ \A x \in Calls :
                  \/ phase'[x] = phase[x]
                  \/ phase[x] = "allocating" /\ phase'[x] \in {"granted", "raised"}
<1>1. phase \in [Calls -> Phases]
      /\ (c \in allocating => phase[c] \in {"allocating", "abandoned"})
  BY DEF GatewayInv, GatewayTypeOK, ThreadsMatch
<1>2. CASE ThreadBegins(c)
  <2>1. reserved' = reserved /\ phase' = phase
    BY <1>2 DEF ThreadBegins, BeginAllocation, accounts
  <2> QED
    BY <2>1
<1>3. CASE ThreadRefused(c)
  <2>1. reserved' = reserved
    BY <1>3 DEF ThreadRefused, vars, accounts
  <2>2. \/ phase' = phase
        \/ phase[c] = "allocating" /\ phase' = [phase EXCEPT ![c] = "raised"]
    BY <1>3 DEF ThreadRefused, Become
  <2> QED
    BY <1>1, <2>1, <2>2
<1>4. CASE ThreadReturns(c)
  <2>1. c \in allocating /\ reserved' \in {reserved, reserved \cup {c}}
    BY <1>4 DEF ThreadReturns, AllocatorReturns, AllocatorFails, CommitAllocation, Return
  <2>2. \/ phase' = phase
        \/ /\ phase[c] = "allocating"
           /\ \E p \in {"granted", "raised"} : phase' = [phase EXCEPT ![c] = p]
    BY <1>4 DEF ThreadReturns, Become
  <2> QED
    BY <1>1, <2>1, <2>2
<1> QED
  BY <1>2, <1>3, <1>4 DEF ThreadStep

LEMMA NodeOwnsStep ==
    ASSUME MiddlewareInv, [MiddlewareNext]_allVars
    PROVE  NodeOwns'
<1> USE DEF MiddlewareInv, NodeOwns
<1>0. GatewayInv /\ MiddlewareTypeOK /\ NodeRuns
  OBVIOUS
<1>r. resolved \cup (reserved \ reserved') \subseteq resolved'
  BY <1>0, MiddlewareImplements, GatewayImplements, ResolvedGrows
<1>1. ASSUME NEW c \in Calls, EnterModel(c)
      PROVE  NodeOwns'
  BY <1>1, <1>r DEF EnterModel, StartAnalysis, Become, GatewayInv, GatewayTypeOK
<1>2. CASE GiveUp \/ PrepareRaises \/ CallProvider \/ ProviderAnswers \/ AfterModelRefused
  BY <1>2, <1>r DEF GiveUp, PrepareRaises, CallProvider, ProviderAnswers, AfterModelRefused,
                    Raise, NodeRuns, gatewayVars, gateway
<1>3. CASE Prepare
  <2>1. PrepareStep(current) /\ current \in Calls
    BY <1>3 DEF Prepare, NodeRuns
  <2> QED
    BY <1>0, <1>3, <1>r, <2>1, PrepareStepMoves DEF Prepare, middleware
<1>4. CASE RoutingFails \/ HandlerFails
  <2>1. PICK billing_unknown : FailModel(current, billing_unknown)
    BY <1>4, Zenon DEF RoutingFails, HandlerFails
  <2>2. current \in Calls /\ agent \in {"preparing", "executing"}
    BY <1>4 DEF RoutingFails, HandlerFails, NodeRuns
  <2>3. phase'[current] = "closed" /\ \A x \in Calls \ {current} : phase'[x] = phase[x]
    BY <1>0, <2>1, <2>2, FailModelMoves
  <2>4. /\ agent' \in {"model", "crashed"} /\ attempted' = attempted
        /\ charged' \subseteq charged \cup (reserved \ reserved')
    BY <1>4 DEF RoutingFails, HandlerFails, Raise, Charge
  <2> QED
    BY <1>r, <2>2, <2>3, <2>4
<1>5. ASSUME NEW cost, NEW latency, AfterModel(cost, latency)
      PROVE  NodeOwns'
  BY <1>5, <1>r DEF AfterModel, ObserveModel, Become, Successors, Charge, NodeRuns,
                    GatewayInv, GatewayTypeOK
<1>6. ASSUME NEW n, RunTools(n)
      PROVE  NodeOwns'
  BY <1>6, <1>r DEF RunTools, gatewayVars, gateway
<1>7. CASE ToolEnds
  BY <1>7, <1>r DEF ToolEnds, ToolObserved, gatewayVars, gateway
<1>8. CASE AfterAgent \/ ApplicationCloses
  BY <1>8, <1>r DEF AfterAgent, ApplicationCloses, CloseRun, Charge, gatewayVars, gateway
<1>9. CASE Threads
  BY <1>0, <1>9, <1>r, ThreadStepMoves DEF Threads, middleware
<1>10. CASE Time \/ UNCHANGED allVars
  BY <1>10, <1>r DEF Time, ClockTicks, gateway, middleware, allVars, gatewayVars
<1> QED
  BY <1>1, <1>2, <1>3, <1>4, <1>5, <1>6, <1>7, <1>8, <1>9, <1>10 DEF MiddlewareNext, Node

LEMMA OwnedStep ==
    ASSUME MiddlewareInv, [MiddlewareNext]_allVars
    PROVE  ReservationsOwned'
<1> USE DEF MiddlewareInv, ReservationsOwned, WithNode, Unobserved
<1>0. GatewayInv /\ MiddlewareTypeOK /\ NodeRuns /\ TypeOK
  BY DEF GatewayInv
<1>1. ASSUME NEW c \in Calls, EnterModel(c)
      PROVE  ReservationsOwned'
  BY <1>1 DEF EnterModel, StartAnalysis, Become, GatewayInv, GatewayTypeOK, TypeOK, vars,
              accounts
<1>2. CASE GiveUp \/ AfterModelRefused
  <2>1. UNCHANGED <<reserved, status, phase, attempted, charged>> /\ agent' = "crashed"
    BY <1>2 DEF GiveUp, AfterModelRefused, gatewayVars, gateway, vars, accounts
  <2>2. ASSUME NEW c \in reserved, WithNode(c)
        PROVE  c \in attempted \ charged
    <3>1. agent = "answered"
      BY <1>2, <2>2 DEF GiveUp, AfterModelRefused
    <3>2. c \in attempted /\ c \notin resolved
      BY <2>2, <3>1 DEF NodeOwns, GatewayInv, CallsAccounted
    <3> QED
      BY <3>2 DEF NodeOwns
  <2> QED
    BY <2>1, <2>2
<1>3. CASE Prepare
  <2>1. PrepareStep(current) /\ current \in Calls /\ UNCHANGED middleware
    BY <1>3 DEF Prepare, NodeRuns
  <2>2. /\ reserved' \subseteq reserved /\ status' = status
        /\ \A x \in Calls \ {current} : phase'[x] = phase[x]
    BY <1>0, <2>1, PrepareStepMoves
  <2> QED
    BY <1>0, <1>3, <2>1, <2>2 DEF Prepare, TypeOK, middleware
<1>4. CASE PrepareRaises
  <2>1. UNCHANGED <<reserved, status, phase>>
    BY <1>4 DEF PrepareRaises, gatewayVars, gateway, vars, accounts
  <2> QED
    BY <1>4, <2>1 DEF PrepareRaises, GatewayInv, HeldByPhase
<1>5. CASE RoutingFails \/ HandlerFails
  <2>1. PICK billing_unknown : FailModel(current, billing_unknown)
    BY <1>5, Zenon DEF RoutingFails, HandlerFails
  <2>2. current \in Calls /\ agent \in {"preparing", "executing"} /\ Active
    BY <1>5 DEF RoutingFails, HandlerFails, NodeRuns
  <2>3. reserved' = reserved \ {current} /\ status' = status
    BY <1>0, <2>1, <2>2, FailModelReleases
  <2>4. \A x \in Calls \ {current} : phase'[x] = phase[x]
    BY <1>0, <2>1, <2>2, FailModelMoves
  <2> QED
    BY <1>0, <2>2, <2>3, <2>4 DEF TypeOK
<1>6. CASE CallProvider \/ ProviderAnswers
  BY <1>6 DEF CallProvider, ProviderAnswers, gatewayVars, gateway, vars, accounts
<1>7. ASSUME NEW cost, NEW latency, AfterModel(cost, latency)
      PROVE  ReservationsOwned'
  <2>1. /\ reserved' = reserved \ {current} /\ agent = "answered" /\ Active
        /\ \A x \in Calls \ {current} : phase'[x] = phase[x]
    BY <1>0, <1>7 DEF AfterModel, ObserveModel, SettleCall, Resolve, Become, GatewayInv,
                      GatewayTypeOK
  <2> QED
    BY <1>0, <2>1 DEF TypeOK
<1>8. ASSUME NEW n, RunTools(n)
      PROVE  ReservationsOwned'
  BY <1>8 DEF RunTools, gatewayVars, gateway, vars, accounts
<1>9. CASE ToolEnds
  <2>1. reserved' = reserved /\ (Active' => Active) /\ phase' = phase
    BY <1>9 DEF ToolEnds, ToolObserved, ObserveTool, FailIf, allocation, gatewayVars, gateway, vars,
                accounts
  <2> QED
    BY <1>9, <2>1 DEF ToolEnds
<1>10. CASE AfterAgent \/ ApplicationCloses
  <2>1. Active' => Active /\ reserved' = reserved /\ (configured' \/ agent = "finishing")
    BY <1>10 DEF AfterAgent, ApplicationCloses, CloseRun, FinishRun, Wanted, gatewayVars, vars,
                 accounts
  <2>2. phase' = phase /\ charged' = charged \cup (reserved \ reserved') /\ attempted' = attempted
    BY <1>10 DEF AfterAgent, ApplicationCloses, CloseRun, Charge, gatewayVars, gateway
  <2> QED
    BY <1>10, <2>1, <2>2 DEF AfterAgent, ApplicationCloses
<1>11. CASE Threads
  <2>1. PICK c \in Calls : ThreadStep(c) /\ UNCHANGED middleware
    BY <1>11 DEF Threads
  <2>2. /\ reserved' \subseteq reserved \cup {c} /\ status' = status
        /\ c \in reserved' \ reserved => phase[c] \in {"allocating", "abandoned"}
        /\ \A x \in Calls : phase[x] = "abandoned" => phase'[x] = "abandoned"
    BY <1>0, <2>1, ThreadStepMoves, ThreadStepKeeps
  <2> QED
    BY <1>0, <2>1, <2>2 DEF NodeOwns, TypeOK, middleware
<1>12. CASE Time \/ UNCHANGED allVars
  BY <1>12 DEF Time, ClockTicks, Tick, gateway, accounts, allVars, gatewayVars, vars, middleware
<1> QED
  BY <1>1, <1>2, <1>3, <1>4, <1>5, <1>6, <1>7, <1>8, <1>9, <1>10, <1>11, <1>12
     DEF MiddlewareNext, Node

LEMMA MiddlewareInitially == MiddlewareInit => MiddlewareInv
BY GatewayInitially
   DEF MiddlewareInit, MiddlewareInv, MiddlewareTypeOK, Nodes, NodeRuns, NodeOwns,
       AttemptedIsHeld, AttemptedIsCharged, ReservationsOwned, GatewayInit, Init

LEMMA MiddlewareStep == MiddlewareInv /\ [MiddlewareNext]_allVars => MiddlewareInv'
<1> SUFFICES ASSUME MiddlewareInv, [MiddlewareNext]_allVars
             PROVE  MiddlewareInv'
  OBVIOUS
<1>1. GatewayInv /\ MiddlewareTypeOK /\ NodeRuns /\ TypeOK
  BY DEF MiddlewareInv, GatewayInv
<1>2. GatewayInv'
  BY <1>1, MiddlewareImplements, GatewayStep
<1>3. MiddlewareTypeOK' /\ NodeRuns'
  BY <1>1, MiddlewareTypeStep, NodeRunsStep
<1> QED
  BY <1>2, <1>3, AttemptedStep, NodeOwnsStep, OwnedStep DEF MiddlewareInv

LEMMA MiddlewareInvariant == MiddlewareSpec => []MiddlewareInv
BY MiddlewareInitially, MiddlewareStep, PTL DEF MiddlewareSpec

\* However an agent, its tools and cancelled threads interleave, a call of an
\* active run holds a reservation only with the model node that prepared it, or
\* with finish_run when its answer was not observed or its preparation was
\* cancelled around the allocation.
THEOREM ReservationsAreOwned == MiddlewareSpec => []ReservationsOwned
<1>1. MiddlewareInv => ReservationsOwned
  BY DEF MiddlewareInv
<1> QED
  BY <1>1, MiddlewareInvariant, PTL

\* When an invocation is over, every call that reached a provider was charged.
THEOREM AttemptedAreCharged == MiddlewareSpec => []AttemptedIsCharged
<1>1. MiddlewareInv => AttemptedIsCharged
  BY DEF MiddlewareInv
<1> QED
  BY <1>1, MiddlewareInvariant, PTL

\* The middleware and the gateway drive the controller as its specification
\* says: each of their steps is a step of it or leaves it alone.
THEOREM MiddlewareDrivesController == MiddlewareSpec => Init /\ [][Next]_vars
<1>1. MiddlewareInit => Init
  BY DEF MiddlewareInit, GatewayInit
<1>2. MiddlewareInv /\ [MiddlewareNext]_allVars => [Next]_vars
  BY MiddlewareImplements, GatewayImplements DEF MiddlewareInv
<1> QED
  BY <1>1, <1>2, MiddlewareInvariant, PTL DEF MiddlewareSpec

\* So the hard limit on the cost of an agent holds in the composition: what its
\* calls spent and reserve passes it by no more than providers charged beyond
\* the allocation of a call.
THEOREM MiddlewareSpendIsCovered == MiddlewareSpec => []SpendCovered
<1>1. Init => TypeOK /\ CallsAccounted /\ SpendCovered
  BY TypeInit, AccountedInit, SpendInit
<1>2. TypeOK /\ CallsAccounted /\ SpendCovered /\ [Next]_vars
        => (TypeOK /\ CallsAccounted /\ SpendCovered)'
  BY TypeStep, AccountedStep, SpendStep
<1> QED
  BY <1>1, <1>2, MiddlewareDrivesController, PTL

-----------------------------------------------------------------------------
(* The proxy of the demo over the gateway.                                 *)

RequestsTyped ==
    /\ request \in [Calls -> {"idle", "preparing", "sending", "rerouting", "streaming"} \cup Ended]
    /\ lane \in [Calls -> {"none", "baseline", "managed"}]
    /\ recorded \in [Calls -> (0..MaxUsage) \cup {-1}]
    /\ unknown \in Nat

\* Where a request's call is in the gateway: only the managed lane has one,
\* the proxy sends what was prepared, and closes the call of an active run
\* before it passes an answer on. A usage event is written once, at the end.
RequestsMatch ==
    \A c \in Calls :
        /\ request[c] = "idle" => lane[c] = "none"
        /\ lane[c] # "managed" => phase[c] = "idle"
        /\ request[c] = "preparing" => lane[c] = "managed"
        /\ lane[c] = "managed" /\ request[c] \in {"sending", "rerouting", "streaming"} =>
               phase[c] = "prepared"
        /\ Active /\ request[c] \in {"relayed", "refused"} => phase[c] \in {"idle", "closed"}
        /\ request[c] # "relayed" => recorded[c] = -1

DemoInv == GatewayInv /\ RequestsTyped /\ RequestsMatch /\ SpendIsRecorded

LEMMA DemoImplements == [DemoNext]_demoVars => [GatewayNext]_gatewayVars
<1> SUFFICES ASSUME [DemoNext]_demoVars
             PROVE  [GatewayNext]_gatewayVars
  OBVIOUS
<1>1. ASSUME NEW c \in Calls, AcceptBaseline(c) \/ AcceptManaged(c)
      PROVE  [GatewayNext]_gatewayVars
  BY <1>1 DEF AcceptBaseline, AcceptManaged, GatewayNext
<1>2. ASSUME NEW c \in Calls, PrepareCall(c) \/ Decide(c)
      PROVE  [GatewayNext]_gatewayVars
  BY <1>2 DEF PrepareCall, Decide, PrepareStep, GatewayNext
<1>3. ASSUME NEW c \in Calls,
             PrepareRaised(c) \/ Raises(c) \/ Accepted(c) \/ Reroute(c) \/ Truncated(c)
      PROVE  [GatewayNext]_gatewayVars
  BY <1>3 DEF PrepareRaised, Raises, Accepted, Reroute, Truncated
<1>4. ASSUME NEW c \in Calls, NEW error, Refused(c, error)
      PROVE  [GatewayNext]_gatewayVars
  <2>1. UNCHANGED gatewayVars \/ FailModel(c, error = "server")
    BY <1>4 DEF Refused, FailUpstream
  <2>2. (error = "server") \in BOOLEAN
    OBVIOUS
  <2> QED
    BY <2>1, <2>2 DEF GatewayNext
<1>5. ASSUME NEW c \in Calls, NEW cost \in 0..MaxUsage, NEW latency \in 0..MaxLatency,
             Settle(c, cost, latency)
      PROVE  [GatewayNext]_gatewayVars
  BY <1>5 DEF Settle, Observe, GatewayNext
<1>6. ASSUME NEW c \in Calls, Allocation(c)
      PROVE  [GatewayNext]_gatewayVars
  BY <1>6 DEF Allocation, AllocatorAsked, AllocationRefused, AllocatorAnswers, ThreadStep,
              GatewayNext
<1>7. CASE Worker
  BY <1>7 DEF Worker, JobStarts, JobEnds
<1>8. ASSUME NEW m, CooldownEnds(m)
      PROVE  [GatewayNext]_gatewayVars
  BY <1>8 DEF CooldownEnds
<1>9. CASE UNCHANGED demoVars
  BY <1>9 DEF demoVars
<1> QED
  BY <1>1, <1>2, <1>3, <1>4, <1>5, <1>6, <1>7, <1>8, <1>9 DEF DemoNext, Handler

LEMMA RequestsTypedStep ==
    ASSUME TypeOK, RequestsTyped, [DemoNext]_demoVars,
           spent_cost_usd' \in Nat, spent_cost_usd <= spent_cost_usd'
    PROVE  RequestsTyped'
<1> USE DEF RequestsTyped, Ended, Moves, routing, records, prefetching
<1>0. spent_cost_usd \in Nat
  BY DEF TypeOK
<1>1. ASSUME NEW c \in Calls, AcceptBaseline(c) \/ AcceptManaged(c)
      PROVE  RequestsTyped'
  BY <1>1 DEF AcceptBaseline, AcceptManaged
<1>2. ASSUME NEW c \in Calls, PrepareCall(c) \/ Decide(c) \/ PrepareRaised(c)
      PROVE  RequestsTyped'
  BY <1>2 DEF PrepareCall, Decide, PrepareRaised
<1>3. ASSUME NEW c \in Calls, Raises(c) \/ Accepted(c) \/ Reroute(c) \/ Truncated(c)
      PROVE  RequestsTyped'
  BY <1>3 DEF Raises, Accepted, Reroute, Truncated
<1>4. ASSUME NEW c \in Calls, NEW error, Refused(c, error)
      PROVE  RequestsTyped'
  <2>1. unknown' = unknown \/ unknown' = unknown + (spent_cost_usd' - spent_cost_usd)
    BY <1>4 DEF Refused, FailUpstream
  <2>2. unknown' \in Nat
    BY <1>0, <2>1
  <2> QED
    BY <1>4, <2>2 DEF Refused
<1>5. ASSUME NEW c \in Calls, NEW cost \in 0..MaxUsage, NEW latency, Settle(c, cost, latency)
      PROVE  RequestsTyped'
  BY <1>5 DEF Settle, Record
<1>6. ASSUME NEW c \in Calls, Allocation(c)
      PROVE  RequestsTyped'
  BY <1>6 DEF Allocation, AllocatorAsked, AllocationRefused, AllocatorAnswers
<1>7. CASE Worker
  BY <1>7 DEF Worker, JobStarts, JobEnds
<1>8. ASSUME NEW m, CooldownEnds(m)
      PROVE  RequestsTyped'
  BY <1>8 DEF CooldownEnds
<1>9. CASE UNCHANGED demoVars
  BY <1>9 DEF demoVars
<1> QED
  BY <1>1, <1>2, <1>3, <1>4, <1>5, <1>6, <1>7, <1>8, <1>9 DEF DemoNext, Handler

\* A thread moves only a call whose coroutine awaits it.
LEMMA ThreadStepPhase ==
    ASSUME GatewayTypeOK, NEW c \in Calls, ThreadStep(c)
    PROVE  \A x \in Calls : phase[x] # "allocating" => phase'[x] = phase[x]
BY DEF ThreadStep, ThreadBegins, ThreadRefused, ThreadReturns, Become, GatewayTypeOK

LEMMA RequestsMatchStep ==
    ASSUME GatewayInv, RequestsTyped, RequestsMatch, [DemoNext]_demoVars
    PROVE  RequestsMatch'
<1> USE DEF RequestsMatch, Moves, routing, records, prefetching
<1>0. /\ ~Active => ~Active'
      /\ phase \in [Calls -> Phases]
      /\ request \in [Calls -> {"idle", "preparing", "sending", "rerouting", "streaming",
                                "relayed", "refused", "cut"}]
      /\ lane \in [Calls -> {"none", "baseline", "managed"}]
      /\ recorded \in [Calls -> (0..MaxUsage) \cup {-1}]
  <2>1. [Next]_vars
    BY DemoImplements, GatewayImplements
  <2> QED
    BY <2>1, FrozenStep DEF GatewayInv, GatewayTypeOK, RequestsTyped, Ended
<1>1. ASSUME NEW c \in Calls, AcceptBaseline(c)
      PROVE  RequestsMatch'
  BY <1>0, <1>1 DEF AcceptBaseline, gatewayVars, gateway
<1>2. ASSUME NEW c \in Calls, AcceptManaged(c)
      PROVE  RequestsMatch'
  BY <1>0, <1>2 DEF AcceptManaged, StartAnalysis, Become, gatewayVars, gateway
<1>3. ASSUME NEW c \in Calls, PrepareCall(c)
      PROVE  RequestsMatch'
  BY <1>0, <1>3 DEF PrepareCall, AnalysisFails, SubmitAllocation, Resume, PlanFails, Become
<1>4. ASSUME NEW c \in Calls, Decide(c)
      PROVE  RequestsMatch'
  BY <1>0, <1>4 DEF Decide, PlanCall, Become
<1>5. ASSUME NEW c \in Calls,
             PrepareRaised(c) \/ Raises(c) \/ Accepted(c) \/ Reroute(c) \/ Truncated(c)
      PROVE  RequestsMatch'
  BY <1>0, <1>5 DEF PrepareRaised, Raises, Accepted, Reroute, Truncated, gatewayVars, gateway
<1>6. ASSUME NEW c \in Calls, NEW error, Refused(c, error)
      PROVE  RequestsMatch'
  <2>1. CASE UNCHANGED gatewayVars /\ request' = [request EXCEPT ![c] = "rerouting"]
    BY <1>0, <1>6, <2>1 DEF Refused, gatewayVars, gateway
  <2>2. CASE UNCHANGED gatewayVars /\ lane[c] # "managed"
    BY <1>0, <1>6, <2>2 DEF Refused, gatewayVars, gateway
  <2>3. CASE /\ FailUpstream(c, error) /\ lane[c] = "managed"
             /\ request' = [request EXCEPT ![c] = "refused"]
    <3>1. phase' = [phase EXCEPT ![c] = "closed"]
      BY <2>3 DEF FailUpstream, FailModel, Become
    <3>2. request[c] = "sending" /\ lane' = lane /\ recorded' = recorded
      BY <1>6 DEF Refused
    <3> QED
      BY <1>0, <2>3, <3>1, <3>2
  <2> QED
    BY <1>6, <2>1, <2>2, <2>3 DEF Refused, Managed
<1>7. ASSUME NEW c \in Calls, NEW cost \in 0..MaxUsage, NEW latency, Settle(c, cost, latency)
      PROVE  RequestsMatch'
  <2>1. CASE UNCHANGED gatewayVars
    <3>1. lane[c] = "managed" => ~Active
      BY <1>7, <2>1 DEF Settle, Observe, Managed, ObserveModel, SettleCall, Resolve, gatewayVars,
                        vars, accounts, GatewayInv, ThreadsMatch
    <3> QED
      BY <1>0, <1>7, <2>1, <3>1 DEF Settle, Record, gatewayVars, gateway
  <2>2. CASE ObserveModel(c, cost, latency) /\ lane[c] = "managed"
    BY <1>0, <1>7, <2>2 DEF Settle, Record, ObserveModel, Become
  <2> QED
    BY <1>7, <2>1, <2>2 DEF Settle, Observe, Managed
<1>8. ASSUME NEW c \in Calls, Allocation(c)
      PROVE  RequestsMatch'
  <2>1. ThreadStep(c) /\ UNCHANGED <<request, lane, recorded>>
    BY <1>8 DEF Allocation, AllocatorAsked, AllocationRefused, AllocatorAnswers, ThreadStep
  <2> QED
    BY <1>0, <2>1, ThreadStepPhase DEF GatewayInv
<1>9. CASE Worker
  BY <1>0, <1>9 DEF Worker, JobStarts, JobEnds, gatewayVars, gateway
<1>10. ASSUME NEW m, CooldownEnds(m)
       PROVE  RequestsMatch'
  BY <1>0, <1>10 DEF CooldownEnds, gatewayVars, gateway
<1>11. CASE UNCHANGED demoVars
  BY <1>0, <1>11 DEF demoVars, gatewayVars, gateway
<1> QED
  BY <1>1, <1>2, <1>3, <1>4, <1>5, <1>6, <1>7, <1>8, <1>9, <1>10, <1>11 DEF DemoNext, Handler

-----------------------------------------------------------------------------
(* What the ledger of the demo holds against what the controller charged.  *)

RecordedCalls == {c \in Calls : Managed(c) /\ recorded[c] > 0}

RecordedCost == Total(RecordedCalls, recorded, MaxUsage)

\* The controller takes no charge back.
LEMMA SpendGrows ==
    ASSUME TypeOK, [Next]_vars
    PROVE  spent_cost_usd' \in Nat /\ spent_cost_usd <= spent_cost_usd'
<1>1. TypeOK'
  BY TypeStep
<1>2. spent_cost_usd \in Nat /\ spent_cost_usd' \in Nat
  BY <1>1 DEF TypeOK
<1>3. ASSUME NEW c \in Calls, BeginAllocation(c) \/ AllocatorReturns(c)
      PROVE  spent_cost_usd' = spent_cost_usd
  BY <1>3 DEF BeginAllocation, AllocatorReturns, AllocatorFails, CommitAllocation, Return, accounts
<1>4. ASSUME NEW c \in Calls, NEW cost \in 0..MaxUsage, NEW latency, SettleCall(c, cost, latency)
      PROVE  spent_cost_usd <= spent_cost_usd'
  BY <1>2, <1>4, ControllerAssumption DEF SettleCall
<1>5. ASSUME NEW c \in Calls, NEW b, FailCall(c, b)
      PROVE  spent_cost_usd <= spent_cost_usd'
  <2>1. budget[c].cost \in Nat
    BY ControllerAssumption DEF TypeOK, CallBudget
  <2> QED
    BY <1>2, <1>5, <2>1 DEF FailCall
<1>6. ASSUME NEW wanted, FinishRun(wanted)
      PROVE  spent_cost_usd <= spent_cost_usd'
  BY <1>2, <1>6, ReservedCostType DEF FinishRun
<1>7. ASSUME ObserveTool \/ Tick \/ UNCHANGED vars
      PROVE  spent_cost_usd' = spent_cost_usd
  BY <1>7 DEF ObserveTool, Tick, vars, accounts
<1> QED
  BY <1>2, <1>3, <1>4, <1>5, <1>6, <1>7 DEF Next

\* A step that writes no usage event, and changes the lane only of a request
\* that has none, leaves the recorded cost alone.
LEMMA RecordedCostSame ==
    ASSUME recorded' = recorded,
           \A c \in Calls : recorded[c] > 0 => lane'[c] = lane[c]
    PROVE  RecordedCost' = RecordedCost
<1>1. RecordedCalls' = RecordedCalls
  BY DEF RecordedCalls, Managed
<1> QED
  BY <1>1 DEF RecordedCost

LEMMA RecordedCostType ==
    ASSUME RequestsTyped
    PROVE  IsFiniteSet(RecordedCalls) /\ RecordedCost \in Nat /\ MaxUsage \in Nat
<1>1. IsFiniteSet(RecordedCalls) /\ MaxUsage \in Nat
  BY ControllerAssumption, FS_Subset DEF RecordedCalls
<1> QED
  BY <1>1, TotalType DEF RecordedCost

\* The usage event of a request adds what it says if the lane is managed.
LEMMA RecordedCostAdds ==
    ASSUME RequestsTyped, NEW c \in Calls, NEW cost \in 0..MaxUsage,
           recorded[c] = -1, recorded' = [recorded EXCEPT ![c] = cost], lane' = lane
    PROVE  RecordedCost' = RecordedCost + (IF Managed(c) THEN cost ELSE 0)
<1>1. IsFiniteSet(RecordedCalls) /\ RecordedCost \in Nat /\ MaxUsage \in Nat
  BY RecordedCostType
<1> DEFINE f == [recorded EXCEPT ![c] = cost]
<1>2. c \notin RecordedCalls
  BY DEF RecordedCalls
<1>3. recorded \in [Calls -> (0..MaxUsage) \cup {-1}]
  BY DEF RequestsTyped
<1>4. f[c] = cost /\ cost \in Nat /\ cost <= MaxUsage /\ \A x \in Calls \ {c} : f[x] = recorded[x]
  BY <1>1, <1>3
<1>5. \A x \in RecordedCalls : f[x] = recorded[x]
  BY <1>2, <1>4 DEF RecordedCalls
<1>6. RecordedCost' = Total(RecordedCalls', f, MaxUsage)
  BY DEF RecordedCost
<1>7. RecordedCalls' = {x \in Calls : Managed(x) /\ f[x] > 0}
  BY DEF RecordedCalls, Managed
<1> HIDE DEF f
<1>8. Total(RecordedCalls, f, MaxUsage) = RecordedCost
  BY <1>1, <1>5, TotalCongruence DEF RecordedCost
<1>9. CASE Managed(c) /\ cost > 0
  <2>1. RecordedCalls' = RecordedCalls \cup {c}
    BY <1>4, <1>7, <1>9 DEF RecordedCalls
  <2>2. Total(RecordedCalls \cup {c}, f, MaxUsage) = Total(RecordedCalls, f, MaxUsage) + cost
    <3>1. Joins(c, cost, RecordedCalls, f, MaxUsage)
      BY <1>1, <1>2, <1>4 DEF Joins
    <3> QED
      BY <3>1, TotalJoins
  <2> QED
    BY <1>6, <1>8, <1>9, <2>1, <2>2
<1>10. CASE ~(Managed(c) /\ cost > 0)
  <2>1. RecordedCalls' = RecordedCalls
    BY <1>2, <1>4, <1>7, <1>10 DEF RecordedCalls
  <2> QED
    BY <1>1, <1>4, <1>6, <1>8, <1>10, <2>1
<1> QED
  BY <1>9, <1>10

\* Only the call that is charged changes what is spent, and of prepare_call
\* nothing is charged.
LEMMA UnchargedSteps ==
    ASSUME TypeOK, NEW c \in Calls,
           \/ StartAnalysis(c) \/ PrepareStep(c) \/ ThreadStep(c)
           \/ UNCHANGED gatewayVars
    PROVE  spent_cost_usd' = spent_cost_usd
<1>1. CASE PlanFails(c)
  BY <1>1 DEF PlanFails, Release, FailCall, vars, accounts, TypeOK
<1>2. CASE ThreadStep(c)
  BY <1>2 DEF ThreadStep, ThreadBegins, ThreadRefused, ThreadReturns, BeginAllocation,
              AllocatorReturns, AllocatorFails, CommitAllocation, Return, vars, accounts
<1>3. CASE StartAnalysis(c) \/ UNCHANGED gatewayVars
  BY <1>3 DEF StartAnalysis, gatewayVars, vars, accounts
<1>4. CASE PrepareStep(c) /\ ~PlanFails(c)
  BY <1>4 DEF PrepareStep, AnalysisFails, SubmitAllocation, CancelAllocation, Resume, PlanCall,
              vars, accounts
<1> QED
  BY <1>1, <1>2, <1>3, <1>4

LEMMA SpendIsRecordedStep ==
    ASSUME TypeOK, RequestsTyped, RequestsMatch, SpendIsRecorded, [DemoNext]_demoVars
    PROVE  SpendIsRecorded'
<1>0. /\ spent_cost_usd <= unknown + RecordedCost
      /\ spent_cost_usd \in Nat /\ unknown \in Nat /\ RecordedCost \in Nat
  BY RecordedCostType
     DEF SpendIsRecorded, RecordedCost, RecordedCalls, TypeOK, RequestsTyped
<1> SUFFICES spent_cost_usd' <= unknown' + RecordedCost'
  BY DEF SpendIsRecorded, RecordedCost, RecordedCalls
<1>1. ASSUME spent_cost_usd' = spent_cost_usd, UNCHANGED <<lane, unknown, recorded>>
      PROVE  spent_cost_usd' <= unknown' + RecordedCost'
  BY <1>0, <1>1, RecordedCostSame
<1>2. ASSUME NEW c \in Calls, AcceptBaseline(c) \/ AcceptManaged(c)
      PROVE  spent_cost_usd' <= unknown' + RecordedCost'
  <2>1. spent_cost_usd' = spent_cost_usd
    <3>1. UNCHANGED gatewayVars \/ StartAnalysis(c)
      BY <1>2 DEF AcceptBaseline, AcceptManaged
    <3> QED
      BY <3>1, UnchargedSteps
  <2>2. UNCHANGED <<unknown, recorded>>
    BY <1>2 DEF AcceptBaseline, AcceptManaged, records
  <2>3. recorded[c] = -1
    BY <1>2 DEF AcceptBaseline, AcceptManaged, RequestsMatch
  <2>4. \A x \in Calls : recorded[x] > 0 => lane'[x] = lane[x]
    BY <1>2, <2>3 DEF AcceptBaseline, AcceptManaged, RequestsTyped
  <2> QED
    BY <1>0, <2>1, <2>2, <2>4, RecordedCostSame
<1>3. ASSUME NEW c \in Calls, PrepareCall(c) \/ Decide(c)
      PROVE  spent_cost_usd' <= unknown' + RecordedCost'
  <2>1. PrepareStep(c) /\ UNCHANGED <<lane, unknown, recorded>>
    BY <1>3 DEF PrepareCall, Decide, PrepareStep, records
  <2> QED
    BY <1>1, <2>1, UnchargedSteps
<1>4. ASSUME NEW c \in Calls,
             PrepareRaised(c) \/ Raises(c) \/ Accepted(c) \/ Reroute(c) \/ Truncated(c)
      PROVE  spent_cost_usd' <= unknown' + RecordedCost'
  <2>1. UNCHANGED gatewayVars /\ UNCHANGED <<lane, unknown, recorded>>
    BY <1>4 DEF PrepareRaised, Raises, Accepted, Reroute, Truncated, records
  <2> QED
    BY <1>1, <2>1, UnchargedSteps
<1>5. ASSUME NEW c \in Calls, NEW error, Refused(c, error)
      PROVE  spent_cost_usd' <= unknown' + RecordedCost'
  <2>1. lane' = lane /\ recorded' = recorded
    BY <1>5 DEF Refused
  <2>2. RecordedCost' = RecordedCost
    BY <2>1, RecordedCostSame
  <2>3. CASE UNCHANGED gatewayVars /\ UNCHANGED unknown
    BY <1>1, <2>1, <2>3, UnchargedSteps
  <2>4. CASE FailUpstream(c, error)
    <3>1. unknown' = unknown + (spent_cost_usd' - spent_cost_usd)
      BY <2>4 DEF FailUpstream
    <3>2. spent_cost_usd' \in Nat
      BY DemoImplements, GatewayImplements, SpendGrows
    <3>3. \A s, t, u, r \in Nat : s <= u + r => t <= (u + (t - s)) + r
      OBVIOUS
    <3>4. spent_cost_usd' <= (unknown + (spent_cost_usd' - spent_cost_usd)) + RecordedCost
      BY <1>0, <3>2, <3>3
    <3> QED
      BY <2>2, <3>1, <3>4
  <2> QED
    BY <1>5, <2>3, <2>4 DEF Refused
<1>6. ASSUME NEW c \in Calls, NEW cost \in 0..MaxUsage, NEW latency, Settle(c, cost, latency)
      PROVE  spent_cost_usd' <= unknown' + RecordedCost'
  <2>1. /\ recorded[c] = -1 /\ recorded' = [recorded EXCEPT ![c] = cost]
        /\ lane' = lane /\ unknown' = unknown
    BY <1>6 DEF Settle, Record, RequestsMatch
  <2>2. RecordedCost' = RecordedCost + (IF Managed(c) THEN cost ELSE 0)
    BY <2>1, RecordedCostAdds
  <2>3. cost \in Nat
    BY RecordedCostType
  <2>4. CASE UNCHANGED gatewayVars
    <3>1. spent_cost_usd' = spent_cost_usd
      BY <2>4, UnchargedSteps
    <3> QED
      BY <1>0, <2>1, <2>2, <2>3, <3>1
  <2>5. CASE Managed(c) /\ ObserveModel(c, cost, latency)
    <3>1. spent_cost_usd' = spent_cost_usd + cost
      BY <2>5 DEF ObserveModel, SettleCall
    <3> QED
      BY <1>0, <2>1, <2>2, <2>3, <2>5, <3>1
  <2> QED
    BY <1>6, <2>4, <2>5 DEF Settle, Observe
<1>7. ASSUME NEW c \in Calls, Allocation(c)
      PROVE  spent_cost_usd' <= unknown' + RecordedCost'
  <2>1. ThreadStep(c) /\ UNCHANGED <<lane, unknown, recorded>>
    BY <1>7 DEF Allocation, AllocatorAsked, AllocationRefused, AllocatorAnswers, ThreadStep, records
  <2> QED
    BY <1>1, <2>1, UnchargedSteps
<1>8. ASSUME Worker \/ (\E m \in Models : CooldownEnds(m)) \/ UNCHANGED demoVars
      PROVE  spent_cost_usd' <= unknown' + RecordedCost'
  <2>1. UNCHANGED <<vars, lane, unknown, recorded>>
    BY <1>8 DEF Worker, JobStarts, JobEnds, CooldownEnds, demoVars, gatewayVars, records
  <2> QED
    BY <1>1, <2>1 DEF vars, accounts
<1> QED
  BY <1>2, <1>3, <1>4, <1>5, <1>6, <1>7, <1>8 DEF DemoNext, Handler

LEMMA DemoInitially == DemoInit => DemoInv
<1> SUFFICES ASSUME DemoInit
             PROVE  DemoInv
  OBVIOUS
<1>1. GatewayInv /\ spent_cost_usd = 0 /\ status = "active"
  BY GatewayInitially DEF DemoInit, GatewayInit, Init
<1>2. RequestsTyped /\ RequestsMatch
  BY DEF DemoInit, GatewayInit, RequestsTyped, RequestsMatch, Ended
<1>3. SpendIsRecorded
  BY <1>1, <1>2, RecordedCostType
     DEF SpendIsRecorded, RecordedCost, RecordedCalls, DemoInit
<1> QED
  BY <1>1, <1>2, <1>3 DEF DemoInv

LEMMA DemoStep == DemoInv /\ [DemoNext]_demoVars => DemoInv'
<1> SUFFICES ASSUME DemoInv, [DemoNext]_demoVars
             PROVE  DemoInv'
  OBVIOUS
<1>1. TypeOK /\ GatewayInv /\ RequestsTyped /\ RequestsMatch /\ SpendIsRecorded
  BY DEF DemoInv, GatewayInv
<1>2. GatewayInv'
  BY <1>1, DemoImplements, GatewayStep
<1>3. RequestsTyped'
  BY <1>1, DemoImplements, GatewayImplements, SpendGrows, RequestsTypedStep
<1> QED
  BY <1>1, <1>2, <1>3, RequestsMatchStep, SpendIsRecordedStep DEF DemoInv

LEMMA DemoInvariant == DemoSpec => []DemoInv
BY DemoInitially, DemoStep, PTL DEF DemoSpec

\* A request of the proxy whose client got the whole answer has nothing of an
\* active run's budget reserved, however often it was sent again.
THEOREM RelayedAreResolved == DemoSpec => []RelayedIsResolved
<1>1. DemoInv => RelayedIsResolved
  BY DEF DemoInv, GatewayInv, HeldByPhase, RequestsMatch, RelayedIsResolved, TypeOK
<1> QED
  BY <1>1, DemoInvariant, PTL

\* The ledger of the demo shows what the run spent, but for what was charged
\* for answers whose billing is unknown.
THEOREM SpendIsInLedger == DemoSpec => []SpendIsRecorded
<1>1. DemoInv => SpendIsRecorded
  BY DEF DemoInv
<1> QED
  BY <1>1, DemoInvariant, PTL

\* The proxy drives the controller as its specification says, so the hard
\* limit on the cost of an agent holds for the requests of its threads too.
THEOREM DemoDrivesController ==
    DemoSpec => Init /\ [][Next]_vars /\ []SpendCovered
<1>1. DemoInit => Init
  BY DEF DemoInit, GatewayInit
<1>2. [DemoNext]_demoVars => [Next]_vars
  BY DemoImplements, GatewayImplements
<1>3. Init => TypeOK /\ CallsAccounted /\ SpendCovered
  BY TypeInit, AccountedInit, SpendInit
<1>4. TypeOK /\ CallsAccounted /\ SpendCovered /\ [Next]_vars
        => (TypeOK /\ CallsAccounted /\ SpendCovered)'
  BY TypeStep, AccountedStep, SpendStep
<1> QED
  BY <1>1, <1>2, <1>3, <1>4, PTL DEF DemoSpec
=============================================================================
