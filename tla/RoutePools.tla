----------------------------- MODULE RoutePools -----------------------------
(***************************************************************************)
(* The candidate pools of one user and route id in the routing API: the    *)
(* setups and the scheduled updates that select and store them, document   *)
(* by document and without a transaction, and the requests that are        *)
(* answered from them.                                                     *)
(*                                                                         *)
(* A writer is a user's setup or one run of the scheduled update of        *)
(* routes. A setup is a request that waits for it, or a run of a setup     *)
(* job: a container begins one for every job that is dispatched, and the   *)
(* endpoint of the job another one, also while the first is at work.       *)
(* Where a writer (at) can be:                                             *)
(*   idle      not begun                                                   *)
(*   select    it completes its catalog with the profiles of the models,   *)
(*             and waits for the model selector and the embeddings         *)
(*   pools     it writes the pools, one route at a time                    *)
(*   policy    it is about to write the policy, which names the versions   *)
(*   purge     it is about to delete the pools of other routes             *)
(*   schedule  a setup is about to write the file of the scheduled update; *)
(*             an update is about to write back the file it has read       *)
(*   finish    the run of a job is about to report that it succeeded       *)
(*   done      it has ended, or failed                                     *)
(*                                                                         *)
(* The version of a pool is a hash of its route and its models, so the     *)
(* models stand for it. A request reads the policy, asks the routing       *)
(* worker (a service of its own, which reads the pools) and checks what    *)
(* the worker answers against the policy it read. It ranks the pool under  *)
(* the budget that it reads in the meantime, which this module chooses.    *)
(*                                                                         *)
(* A strategy is what the metadata of a request, a job, a policy or a      *)
(* schedule name as routing_strategy: catalog_wide, or route_pool for      *)
(* anything else and nothing.                                              *)
(***************************************************************************)
EXTENDS BudgetScoring, FiniteSets

CONSTANTS
    Routes,         \* names of routes a user may set up
    Catalog,        \* CATALOG_ROUTE_NAME
    Provider,       \* of a model
    MinRoutes,
    MinCandidates, MaxCandidates,
    Wanted,         \* candidates_per_route of a job
    Required,       \* metadata.required_providers
    MaxOccurrences, \* metadata.max_model_route_occurrences
    Exempt,         \* metadata.route_occurrence_exempt_providers
    Jobs, NoJob,
    Setups,         \* processes that run jobs
    Waiting,        \* those of them that serve setups which wait
    Updates,
    Requests

Writers == Setups \cup Updates

ASSUME PoolsAssumption ==
    /\ Catalog \notin Routes /\ Setups \cap Updates = {}
    /\ DOMAIN Provider = Models /\ IsFiniteSet(Models)
    /\ NoJob \notin Jobs /\ Waiting \subseteq Setups
    /\ MinRoutes \in Nat \ {0}
    /\ MinCandidates \in Nat \ {0} /\ MaxCandidates \in Nat
    /\ Wanted \in MinCandidates..MaxCandidates

VARIABLES
    pools,      \* route_candidate_pools: the models of a route, {} if none
    policy,     \* route_policies
    schedule,   \* the file of the scheduled update
    job,        \* candidate_selection_jobs
    writer, request,
    writing,    \* history: writers at work on pools and policy, by themselves
    settled     \* history: what the last such writer has written

store == <<pools, policy, schedule>>
history == <<writing, settled>>
vars == <<store, job, writer, request, history>>

NoPools == [r \in Routes |-> {}]

\* The routes of an assignment of pools.
Named(assignment) == {r \in Routes : assignment[r] # {}}

Strategies == {"route_pool", "catalog_wide"}

\* routingStrategy of the document, none before a catalog-wide setup has set it,
\* and the strategy of its metadata.
NoPolicy == [routes |-> {}, versions |-> NoPools, routingStrategy |-> "none",
             strategy |-> "route_pool", catalog |-> {}]
NoSchedule == [routes |-> {}, catalog |-> {}, strategy |-> "route_pool", enabled |-> FALSE]
NoSetup == [wrote |-> "none", strategy |-> "route_pool", pools |-> NoPools]

\* A job that is dispatched is due for a run until a container begins it.
NewJob == [status |-> "none", due |-> FALSE, strategy |-> "route_pool", routes |-> {}]

IdleWriter == [at |-> "idle", job |-> NoJob, strategy |-> "route_pool",
               routes |-> {}, catalog |-> {}, enabled |-> TRUE,
               pools |-> NoPools, left |-> {}]
\* named is history: the models of the policy that the request read.
IdleRequest == [at |-> "idle", policy |-> NoPolicy, named |-> {}, usable |-> {},
                model |-> NoModel, budget |-> [remaining |-> 0, weight |-> 0,
                                              price |-> PriceMin]]

WriterAt(w, l) == writer[w].at = l
WriterGoto(w, l) == writer' = [writer EXCEPT ![w].at = l]
WriterEnds(w) == writer' = [writer EXCEPT ![w] = [IdleWriter EXCEPT !.at = "done"]]

Init ==
    /\ pools = NoPools /\ policy = NoPolicy /\ schedule = NoSchedule
    /\ job = [j \in Jobs |-> NewJob]
    /\ writer = [w \in Writers |-> IdleWriter]
    /\ request = [q \in Requests |-> IdleRequest]
    /\ writing = {} /\ settled = NoSetup

-----------------------------------------------------------------------------
(* What the selector may return.                                           *)

\* validate_complete_candidate_pool, and the required providers of a route.
CompletePool(models) ==
    /\ Cardinality(models) \in MinCandidates..MaxCandidates
    /\ Required \subseteq {Provider[m] : m \in models}

\* validate_modal_selector_candidates: a complete pool for every route, and
\* no model in too many of them.
ValidSelection(routes, assignment) ==
    /\ \A r \in routes : CompletePool(assignment[r])
    /\ \A m \in Models :
          Provider[m] \notin Exempt =>
              Cardinality({r \in routes : m \in assignment[r]}) <= MaxOccurrences

\* require_setup_inputs.
SetupRoutes == {S \in SUBSET Routes : Cardinality(S) >= MinRoutes}

ValidCatalog(catalog) == Cardinality(catalog) >= MinCandidates

\* hydrate_model_catalog: what is left of the catalog without the models that
\* have no complete profile has to be enough.
Hydrated(least) ==
    {catalog \in SUBSET Models : ValidCatalog(catalog) /\ Cardinality(catalog) >= least}

Selections(routes, catalog) ==
    {a \in [Routes -> SUBSET catalog] :
         Named(a) = routes /\ ValidSelection(routes, a)}

-----------------------------------------------------------------------------
(* Jobs.                                                                   *)

\* A user asks for a setup that runs in the background.
CreateJob(j) ==
    /\ job[j].status = "none"
    /\ \E routes \in SetupRoutes, strategy \in Strategies :
           job' = [job EXCEPT ![j] = [@ EXCEPT
               !.status = "queued", !.strategy = strategy, !.routes = routes]]
    /\ UNCHANGED <<store, writer, request, history>>

\* The same request hands the job to a container, with the job as it is now.
\* It may fail to, and the job stays as it is.
DispatchJob(j) ==
    /\ job[j].status = "queued"
    /\ job' = [job EXCEPT ![j] = [@ EXCEPT !.status = "dispatching", !.due = TRUE]]
    /\ UNCHANGED <<store, writer, request, history>>

\* A container begins the job it was handed, whatever has become of the job;
\* the endpoint begins a job unless it has succeeded.
BeginJob(w, j) ==
    /\ writer[w].at = "idle"
    /\ \/ job[j].due /\ job' = [job EXCEPT ![j] = [@ EXCEPT !.status = "running", !.due = FALSE]]
       \/ /\ job[j].status \notin {"none", "succeeded"}
          /\ job' = [job EXCEPT ![j].status = "running"]
    /\ \E catalog \in Hydrated(Wanted) :
           writer' = [writer EXCEPT ![w] = [@ EXCEPT
               !.at = "select", !.job = j, !.strategy = job[j].strategy,
               !.routes = job[j].routes, !.catalog = catalog]]
    /\ UNCHANGED <<store, request, history>>

\* What a writer reports of its job when it ends.
Reports(w, status) ==
    job' = [j \in Jobs |-> IF j = writer[w].job THEN [job[j] EXCEPT !.status = status]
                           ELSE job[j]]

FinishJob(w) ==
    /\ WriterAt(w, "finish")
    /\ Reports(w, "succeeded")
    /\ WriterEnds(w)
    /\ UNCHANGED <<store, request, history>>

-----------------------------------------------------------------------------
(* Writers.                                                                *)

\* The schedule a writer leaves.
Row(w, enabled) == [routes |-> writer[w].routes, catalog |-> writer[w].catalog,
                    strategy |-> writer[w].strategy, enabled |-> enabled]

\* A user's setup that waits names routes.
BeginSetup(w) ==
    /\ WriterAt(w, "idle")
    /\ \E routes \in SetupRoutes, catalog \in Hydrated(MinCandidates), strategy \in Strategies :
           writer' = [writer EXCEPT ![w] = [@ EXCEPT
               !.at = "select", !.strategy = strategy, !.routes = routes, !.catalog = catalog]]
    /\ UNCHANGED <<store, job, request, history>>

\* The update is due, or somebody asks for it: it has read the file.
BeginUpdate(w) ==
    /\ WriterAt(w, "idle") /\ schedule.routes # {}
    /\ writer' = [writer EXCEPT ![w] = [@ EXCEPT
           !.at = "select", !.strategy = schedule.strategy, !.routes = schedule.routes,
           !.catalog = schedule.catalog, !.enabled = schedule.enabled]]
    /\ UNCHANGED <<store, job, request, history>>

\* The update finds its catalog invalid, and disables the update it has read.
Disable(w) ==
    /\ w \in Updates /\ WriterAt(w, "select") /\ writer[w].enabled
    /\ schedule' = Row(w, FALSE)
    /\ WriterEnds(w)
    /\ UNCHANGED <<pools, policy, job, request, history>>

\* A writer begins to write: it is by itself unless another one is at work.
Enter(w) ==
    LET busy == \E v \in Writers \ {w} : writer[v].at \in {"pools", "policy", "purge"}
    IN /\ writing' = IF busy THEN {} ELSE {w}
       /\ settled' = NoSetup

\* What a writer writes: only the run of a job looks at the strategy.
Writes(w) == IF writer[w].job = NoJob THEN "route_pool" ELSE writer[w].strategy

\* The selector has answered with pools for the routes, and the worker has
\* embedded them; with the catalog-wide strategy there is nothing to select.
Selected(w) ==
    /\ WriterAt(w, "select")
    /\ IF Writes(w) = "catalog_wide"
       THEN WriterGoto(w, "policy")
       ELSE \E a \in Selections(writer[w].routes, writer[w].catalog) :
                writer' = [writer EXCEPT ![w] = [@ EXCEPT
                    !.at = "pools", !.pools = a, !.left = writer[w].routes]]
    /\ Enter(w)
    /\ UNCHANGED <<store, job, request>>

\* Faulty: the pools are written, but not that of a route which has one.
WritePool_Once(w, r) ==
    pools' = [pools EXCEPT ![r] = IF @ = {} THEN writer[w].pools[r] ELSE @]

WritePool(w, r) == pools' = [pools EXCEPT ![r] = writer[w].pools[r]]

WritePools(w) ==
    /\ WriterAt(w, "pools")
    /\ \E r \in writer[w].left :
           /\ WritePool(w, r)
           /\ writer' = [writer EXCEPT ![w] = [@ EXCEPT
                  !.left = writer[w].left \ {r},
                  !.at = IF writer[w].left = {r} THEN "policy" ELSE "pools"]]
    /\ UNCHANGED <<policy, schedule, job, request, history>>

\* The policy of pools takes the metadata of its writer, and leaves the catalog
\* and the routingStrategy of the document it updates as they are; the
\* catalog-wide policy sets all of it.
NewPolicy(w) ==
    IF Writes(w) = "catalog_wide"
    THEN [routes |-> {Catalog}, versions |-> NoPools, routingStrategy |-> "catalog_wide",
          strategy |-> "catalog_wide", catalog |-> writer[w].catalog]
    ELSE [policy EXCEPT !.routes = writer[w].routes, !.versions = writer[w].pools,
                        !.strategy = writer[w].strategy]

WritePolicy(w) ==
    /\ WriterAt(w, "policy")
    /\ policy' = NewPolicy(w)
    /\ WriterGoto(w, "purge")
    /\ UNCHANGED <<pools, schedule, job, request, history>>

\* Faulty: no pool is deleted.
Kept_All(w) == Routes

\* The routes whose pools are not deleted.
Kept(w) == Named(writer[w].pools)

\* The run of a job goes on to report it; a setup that waits answers.
AfterWriting(w) == IF writer[w].job = NoJob THEN "done" ELSE "finish"

Leaves(w, l) == IF l = "done" THEN WriterEnds(w) ELSE WriterGoto(w, l)

Purge(w) ==
    /\ WriterAt(w, "purge")
    /\ pools' = [r \in Routes |-> IF r \in Kept(w) THEN pools[r] ELSE {}]
    /\ \/ Leaves(w, "schedule")
       \/ w \in Setups /\ Leaves(w, AfterWriting(w))
    /\ settled' = IF w \in writing
                  THEN [wrote |-> Writes(w), strategy |-> writer[w].strategy,
                        pools |-> writer[w].pools]
                  ELSE NoSetup
    /\ writing' = writing \ {w}
    /\ UNCHANGED <<policy, schedule, job, request>>

\* save_route_update_job: a setup with an update_schedule.
SaveSchedule(w) ==
    /\ WriterAt(w, "schedule")
    /\ schedule' = Row(w, TRUE)
    /\ Leaves(w, AfterWriting(w))
    /\ UNCHANGED <<pools, policy, job, request, history>>

\* An update writes back the row that it has read.
WriteBack(w) ==
    /\ WriterAt(w, "schedule")
    /\ schedule' = Row(w, writer[w].enabled)
    /\ WriterEnds(w)
    /\ UNCHANGED <<pools, policy, job, request, history>>

Working == {"select", "pools", "policy", "purge", "schedule", "finish"}

\* A writer raises, wherever it is, and reports that; or its container dies,
\* and the job stays as it is.
Fail(w) ==
    /\ writer[w].at \in Working
    /\ Reports(w, "failed") \/ UNCHANGED job
    /\ WriterEnds(w)
    /\ writing' = writing \ {w}
    /\ UNCHANGED <<store, request, settled>>

-----------------------------------------------------------------------------
(* Requests.                                                               *)

\* The strategy of the metadata counts when the document has none of its own.
RoutingStrategy(p) ==
    IF p.routingStrategy = "none" THEN p.strategy ELSE p.routingStrategy

NamedModels(p) ==
    IF RoutingStrategy(p) = "catalog_wide" THEN p.catalog ELSE UNION {p.versions[r] : r \in Routes}

\* lerouter_route has read the policy; without one it answers 404.
ReadPolicy(q) ==
    /\ request[q].at = "idle" /\ policy.routes # {}
    /\ request' = [request EXCEPT ![q] = [@ EXCEPT
           !.at = "routed", !.policy = policy, !.named = NamedModels(policy)]]
    /\ UNCHANGED <<store, job, writer, history>>

\* Faulty: the pool that the worker ranked is not compared with the policy's.
Ranks_Any(seen, r, models) == models # {}

\* The worker has ranked the exact pool that the policy names for its route.
Ranks(seen, r, models) == models # {} /\ models = seen.versions[r]

\* The worker reads the pools of the routes of a policy, and chooses one.
RankedPools(seen) == {n \in seen.routes \ {Catalog} : Ranks(seen, n, pools[n])}

\* With a catalog it is given the models, and ranks all of them.
RankedCatalog(seen) == IF Catalog \in seen.routes THEN seen.catalog ELSE {}

Ranked(q) ==
    LET seen == request[q].policy IN
    IF RoutingStrategy(seen) = "catalog_wide" THEN RankedCatalog(seen)
    ELSE UNION {pools[r] : r \in RankedPools(seen)}

\* The worker answers for one of the routes, and the best of the candidates
\* that can serve the request is selected: under the budget, and after the
\* model that served the session before.
Answer(q) ==
    /\ request[q].at = "routed"
    /\ \E usable \in (SUBSET Ranked(q)) \ {{}}, b \in FoundBudgets,
           previous \in Models \cup {NoModel} :
           request' = [request EXCEPT ![q] =
               [@ EXCEPT !.at = "answered", !.policy = NoPolicy, !.usable = usable,
                         !.budget = b, !.model = Best(b, usable, previous)]]
    /\ UNCHANGED <<store, job, writer, history>>

\* The worker fails, answers for another version or with no proper ranking, or
\* no candidate fits the request.
Refuse(q) ==
    /\ request[q].at = "routed"
    /\ request' = [request EXCEPT ![q] = IdleRequest]
    /\ UNCHANGED <<store, job, writer, history>>

-----------------------------------------------------------------------------
Next ==
    \/ \E j \in Jobs : CreateJob(j) \/ DispatchJob(j)
    \/ \E w \in Waiting : BeginSetup(w)
    \/ \E w \in Setups : SaveSchedule(w) \/ FinishJob(w) \/ \E j \in Jobs : BeginJob(w, j)
    \/ \E w \in Updates : BeginUpdate(w) \/ Disable(w) \/ WriteBack(w)
    \/ \E w \in Writers :
          \/ Selected(w) \/ WritePools(w) \/ WritePolicy(w)
          \/ Purge(w) \/ Fail(w)
    \/ \E q \in Requests : ReadPolicy(q) \/ Answer(q) \/ Refuse(q)

Spec == Init /\ [][Next]_vars

-----------------------------------------------------------------------------
(* Properties                                                              *)

\* What a writer that worked by itself has written.
Stored(s) ==
    /\ policy.versions = s.pools
    /\ pools = s.pools
    /\ policy.routes = IF s.wrote = "catalog_wide" THEN {Catalog} ELSE Named(s.pools)

\* A setup or an update that nobody else's writes overlapped leaves exactly
\* its own pools, and a policy that names them, whatever earlier writers left
\* behind that died or overlapped. Requests are routed the way it wrote, but
\* for two ways in which pools are stored and not served: the policy has been
\* catalog-wide before, or the metadata of its writer asked for catalog_wide
\* where only a job looks at that.
SettledIsStored ==
    settled # NoSetup =>
        /\ Stored(settled)
        /\ RoutingStrategy(policy) # settled.wrote =>
               /\ settled.wrote = "route_pool"
               /\ policy.catalog # {} \/ settled.strategy = "catalog_wide"

\* Without exception: a setup that reports its routes as saved has them served.
SavedIsServed ==
    settled # NoSetup => Stored(settled) /\ RoutingStrategy(policy) = settled.wrote

\* A request is answered with a model of the pools that the policy named when
\* the request read it, with writers at work while the worker ranks.
AnswerIsNamed ==
    \A q \in Requests : request[q].at = "answered" => request[q].model \in request[q].named

\* A request that costs more than its share makes the next one of its kind no
\* dearer: what remains, the weight and the shadow price that it leaves make
\* the scoring select the same model or one that debits no more.
OverspendMakesCheaper ==
    \A q \in Requests : request[q].at = "answered" =>
        LET b == request[q].budget
            m == request[q].model
            d == ExpectedDebit[m]
        IN d <= b.remaining /\ Overspends(b, d) =>
               ExpectedDebit[Best(NextBudget(b, d), request[q].usable, m)] <= d
=============================================================================
