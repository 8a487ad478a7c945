# PromptRail: TLA+ specifications and proofs

Line references are to the repository (`src/promptrail/...` is the Python
package, `frontend/...` the web application and its routing API, `demo/...` the
proxy of the demo). The modules are translated from the code; where a doc or a
comment says otherwise, the difference is listed in section 3.

## 1. The system

PromptRail budgets, routes and observes the model calls of agents. It is a
Python library used inside an agent's process, a telemetry exporter in the same
process, a demo that puts the library behind an HTTP proxy, and a hosted
service: a routing API on Modal (`frontend/lerouter_modal_api.py`) over MongoDB,
a Next.js application for accounts and billing, and a plugin that routes the
calls of a Hermes agent on a user's machine.

| Component | State it keeps | Operations | Talks to | Correct if | Module |
|---|---|---|---|---|---|
| Global controller (`controller.py`) | per run: policy, status, spend, counters, pending allocations, reservations | `start_run`, `allocate_call`, `settle_call`, `fail_call`, `observe_tool`, `finish_run` | allocator, called **without** the lock | concurrent calls never commit more than the limits; a call is counted once; a finished run is final | GlobalController |
| Gateway (`gateway.py`) | configuration per run | `start_run`, `prepare_call` (coroutine), `observe_model`, `fail_model`, `finish_run`, `reroute_prepared` | controller in a thread, predictor, ranker, cache, compactor | a reservation always has somebody who will settle or release it | PromptRailGateway, DemoProxy |
| LangChain middleware (`langchain.py`) | `_pending` usage per call, private state of the graph | `before_agent`, `wrap_model_call`, `after_model`, `wrap_tool_call`, `after_agent` | gateway | what was sent to a provider is charged; the run is closed | PromptRailMiddleware |
| Router, provider plan (`routing.py`, `clients.py`), cache (`cache.py`), compaction (`compaction.py`) | record per session | costs, feasible models, provider plan; `analyze`, `observe`; `compact` | gateway | a discounted prefix is what the provider has, and is sent as it is | CallPlanning, SessionCache |
| Policy and budget allocators (`policy.py`, `budgeting.py`) | none | validation, one request to the model | controller | an answer respects the request | |
| Telemetry exporter (`exporter/`) | bounded queue, daemon thread, connection, counters | `enqueue`, `start`, `shutdown` | collector over HTTP | bounded, ordered, drops are counted, stops when told to | ExportWorker, EventChannel |
| Runtime client (`sdk.py`), tracing (`tracing/`), context (`context.py`) | open runs, open spans per trace, context variables | run start and end, `on_start`, `on_end`, `shutdown` | exporter | a run ends with its trace, once, and its events are in order | RuntimeClient |
| Privacy, integrations, historical import | none | sanitize, wrap, convert | runtime client | nothing private leaves | |
| Demo proxy (`demo/backend.py`) | cooldowns of models, a prefetch worker, a ledger of events | requests of two lanes | gateway, providers, coding agent | every request ends; the ledger says what was spent | DemoProxy |
| Demo runner, web session | processes, sockets | start, measure | proxy | | |
| Workflow budgets (`lerouter_modal_api.py`, `workflow_budget.py`) | collections of runs, scopes and reservations | create, authorize, reserve, start, settle, fail, cancel, finish | MongoDB, concurrent requests | no scope of the hierarchy passes its maximum | WorkflowBudgets |
| Usage and route budgets of the routing API | budget per route, totals per user, a log per call | `write_usage_log`, `openai_chat_completions`, setup | MongoDB transactions, providers | a call is debited once; a route stays within its budget | UsageLog, ServedCalls |
| Candidate pools of the routing API | jobs, pools per route, the policy that names them, the file of scheduled updates | setups, jobs, updates, `lerouter_route` | remote functions, routing worker | a request is answered from the pools its policy names | RoutePools, BudgetScoring |
| Hermes plugin (`hermes-installer/plugin.py`) | its ledger of usage | select, activate, execute, verify, log | routing API, provider | no response without its log | HermesPlugin |
| Credit ledger, auto top-up (`store.js`, `autoTopUp.js`, `billing/webhook/route.js`) | balance, payments, lock of an attempt | debit by usage, credit by Stripe event, top up | MongoDB, Stripe | a payment is credited once, no debit is lost | CreditLedger |
| Request authority, entitlements, credentials | keys, policies, connections, receipts | authorize, hydrate, rotate, revoke | MongoDB | a request uses what its tenant owns | |
| Web application, installer, adapter, CLI, benchmarks | pages, files, one-shot scripts | | the store, the gateway | | |

What makes them hard:

* the controller releases its lock around a slow remote call, and everything it
  computed before may be stale after it;
* `prepare_call` runs the controller in a thread that cancelling the coroutine
  does not stop, so that a grant may come back to nobody;
* tools and graph nodes raise at any point, after money may have been spent;
* the calls of a session overlap between reading its cache record and writing it;
* spans end in any order, also before the client knows of them, while callbacks
  and events happen outside the locks;
* the exporter's thread and a caller of `shutdown` use one queue and one
  connection, with answers that are lost, retries and a deadline;
* requests of the routing API race on documents: each statement is atomic, an
  endpoint is not, and a request may die between two statements; a transaction
  is tried again, and its answer may be lost after it was committed;
* setups, repeated jobs and scheduled updates rewrite the same pools, policy and
  files, with no transaction, while requests are answered from them;
* usage, top-ups and Stripe's events race on the balance of a user, and Stripe
  delivers events late, again, and before its own answers arrive.

`PROJECT.json` lists every hazard at its line with the properties that look for it.

## 2. Modules

```
Totals ------------- sums over finite sets       TotalsTheorems
  |
  |-- GlobalController                                         MCGlobalController
  |     |
  |   PromptRailGateway
  |     |-- PromptRailMiddleware \                              MCPromptRailMiddleware
  |     |-- DemoProxy ------------- PromptRailGateway_proofs   MCDemoProxy
  |
  |-- WorkflowBudgets ------ \                                 MCWorkflowBudgets
  |                            RoutingApi_proofs
  |   BudgetScoring            /
  |     |                     /
  |   RoutePools ----------- /                                 MCRoutePools
  |
  |-- UsageLog
  |     |
  |   ServedCalls
  |     |
  |   HermesPlugin                HermesPlugin_proofs          MCHermesPlugin
  |
  |-- CallPlanning
        |
      SessionCache                SessionCache_proofs          MCSessionCache

EventChannel  <== implements ==  ExportWorker
                                  ExportWorker_proofs

CreditLedger                      CreditLedger_proofs          MCCreditLedger

RuntimeClient                     RuntimeClient_proofs         MCRuntimeClient
```

**GlobalController** models one run of the controller (runs share the lock and
nothing else). A method is one action because it holds the lock throughout, except
`allocate_call`, which is `BeginAllocation` (up to the unlock),
`CommitAllocation` or `AllocatorFails` (after the allocator's answer or
exception). `Return` is what the second section and `_discard_pending` have in
common. `FailIf` is the part of a settlement or observation that ends a run; a
method that raises before it writes is no step. `dropped`, `resolved` and
`overrun` are history variables for the properties, read by no guard. Costs and
latencies are small integers; the context tokens and importance of a decision are
one Boolean, whether it respects them.

**PromptRailGateway** extends the controller with `prepare_call` as a coroutine:
`phase` is the `await` it stands at, `submitted` the calls whose thread has not
entered `allocate_call` yet. A cancellation at `await allocation_task` withdraws
a thread that has not started and leaves a running one alone. `observe_model`,
`fail_model` and `finish_run` are the controller's methods with what the gateway
adds: `configured` is the run's entry in `_runs`, which `finish_run` removes only
after the controller's `finish_run` returned.

**PromptRailMiddleware** extends the gateway with one invocation of an agent: the
node the graph is at, the call of its model node, the pending usages, tools in
flight. Each hook is the actions between its calls of the gateway. Outside the
hooks, a node may be retried or crash the graph; then the application closes the
run with `finish_run(success=False)`, as README.md:368 asks. That the graph visits
one model node at a time and the tools node in between is LangChain's loop, as the
code uses it.

**DemoProxy** extends the gateway with the threads of the proxy's HTTP server. All
requests share one run, which the demo never finishes. `request` is where the
thread of a request is: waiting for the single prefetch worker
(`queue`, `job`), in `prepare_call_sync`, with a provider, streaming, settling.
`Remaining` is `reroute_prepared`: the ranked decisions but those whose model is in
`attempted_models` or in cooldown. `cooldown` is shared; a
model leaves it when its time is over. `recorded` is the usage event of a request in
the ledger, `unknown` history: what was charged for streams without usage.

**CallPlanning** holds the pure functions that `prepare_call` uses: the structure of a
conversation (which messages are protected, which go together with a tool call), what a
route costs with and without a cached prefix, which models are feasible under a hard
cost limit, the provider plan (sticky, direct, within a deadline) and the compaction
(eligible messages, water-filling of the target over them, check of the target).
**SessionCache** is the cache coordinator over it: `analyze` when a call is prepared,
`observe` when its usage is reported, with calls that overlap, each with the analysis
it was prepared with, and the expiry of the record. A prefix stands for its hash, and sizes, budgets and the pressures of messages are natural numbers.

**RuntimeClient** models the span registry, the runs and `shutdown`. A process is a span, a
user of `with run(...)` or of an implicit run, or the caller of `shutdown`. The registry and the
client have a lock each, and what happens between and after them (the callback to the client,
the queueing of an event) are steps of their own. A span may be older than the client. The end of a span finishes the
run it was registered with or, without one, that of the context in which it ends.
`trace_active_counts`, `trace_to_run`, `trace_root_ended` and `started_runs` are the code's;
`missed` (traces with a span from before), `late` (runs that began during a shutdown) and
`log` are history.

**ExportWorker** models the queue, the thread and callers of `shutdown`, one at a
time. `pc` is where the two processes are in `_run`, `shutdown`, `_drain_until`
and `_send_with_backoff`; they share the actions of the last. Whether the collector read a
request and whether its answer arrived are two steps, so that a delivered batch
may be sent again. The clock is one fact, which shutdown's deadline has passed
(`expired`); a send heeds the deadline that it read when it began (`watched`).
`received` and `deliveries` are history. **EventChannel** is what the exporter
promises the collector: a bounded channel, the oldest events delivered together
and at most `MaxDeliveries` times, leaving in order. The refinement mapping of
`Channel` takes for the channel's waiting events the worker's batch, the
drainer's batch and the queue, one after the other.

**WorkflowBudgets** models one workflow run, its tree of scopes and its
reservations. A statement or a MongoDB transaction is one step, and
what an endpoint read in an earlier one is kept in a request variable: `parents`
(a scope about to be created), `quotes` (authorized, not yet reserved), `claims` (a
reservation read in order to be finalized), `closing` and `run_phase` (a scope or
run checked and about to be finished). Requests may stop between steps: no fairness
is assumed. `chain[s]` is `scopeIds`, the scope and its ancestors. The filters of
the conditional updates are `Affordable` and `StillDue`.

**UsageLog** models the transaction of `write_usage_log` for the calls of one user and
route: a post reads a snapshot, and its commit fails with a conflict if the budget was written
since, is tried again up to `MaxAttempts` times, and may lose its answer; without a budget
(no setup has written one yet) it is refused. Spend is
counted finer than the grain to which the API rounds it, and the routing fee
rounds again. A setup rewrites the budget in two steps. **ServedCalls** adds the calls that
the API executes itself, whose task goes on when the client leaves, and **HermesPlugin** the
calls of the plugin, which holds a response back until its post was answered as
expected, and posts of others who hold the call's accounting token.

**BudgetScoring** is the ranking of candidates under a budget as operators: the share of a request in
what remains, the malus by the shadow price, and the update of the price from what a request
cost. **RoutePools** composes it with the writers and readers of the pools. A setup job is queued,
dispatched, begun by its container and possibly by its `/run` endpoint again; a writer goes through
`select`, `pools`, `policy`, `purge`, `schedule` and `finish`, and each document it writes is a step at
which another writer, its own death or a request may come in between. A version is a hash of a
route and its models, so the models stand for it. A setup that waits and an update keep the strategy
that their metadata name, in the policy and the schedule, although only the run of a job writes by it
(`Writes`); `RoutingStrategy` is what a request makes of the policy. `settled` (what a writer whose work nobody
overlapped has written) and the `named` of a request are history.

**CreditLedger** models the account of one user: the balance, the lock of automatic
top-ups and the `creditedAt` of each payment. Workers serve one request at a
time, and each statement of the database is a step: `request[k]` says where
worker k stands in `insertUsageAndUpdateUser`, `updateUserBudget`,
`triggerAutoTopUp`, `creditStripePayment` or one of the webhook's other handlers, and
what it read. A credit is the same four steps for an event and for an attempt to
top up. Stripe is modelled as the code relies on it: an idempotency key names a
window of fifteen minutes and is charged once, its answer may not arrive, an event comes
until it is answered with 200 and possibly again. A top-up's payment intent is never
confirmed a second time by the application, so a failed one stays failed. `Fail`
is a process that dies or a statement that raises, which in an attempt is caught.
`credits`, `applied` and `logged` are history, and so is what the code is known to go wrong
after: two requests about one session at once (`raced`), a balance read while another request had
yet to write the one it had read, or a debit that died after its log (`spoiled`), a credit that died after its mark
(`dropped`).

**Totals** defines the sum of a function over a finite set as the number of its
units (pairs of an element and a number up to its value). TLC computes it, and
what it adds up to is provable from facts about cardinalities.

Definitions named `Name_Variant`, marked "Faulty", are not part of any
specification: each is a version of `Name` with a plausible bug, to see which
property would notice (`mutants` in `PROJECT.json`).

## 3. Runs

| Run | Question | Result |
|---|---|---|
| `controller` | safety of a run with three concurrent calls | holds, 181,919 states |
| `middleware` | is every call that reached a provider charged, who owns a reservation, is the run closed, whatever is cancelled or raises | holds, 11,646 states |
| `demo` | does every request of the proxy end, does an answered one keep a reservation, does the ledger show what was spent | holds, 572,322 states |
| `cache` | was a recorded prefix sent, is a discounted one kept, does compaction reach its target exactly | holds, 54,299 states |
| `runtime` | are spans counted right in any order, do runs start and end once, does shutdown end the runs it can know of, do the runs of traces end | holds, 170,840 states |
| `exporter` | one user of the connection, counted drops, refinement of the channel; do events leave, does the thread stop | holds, 185,280 states |
| `workflow` | maxima, ledger and outcomes under racing requests | holds, 782,448 states |
| `usage` | is a call debited once, does a route stay within its budget, is no response delivered without its log | holds, 4,481,550 states |
| `pools` | what a writer by itself leaves, what a request is answered from, how overspending moves the next choice | holds, 5,656,836 states |
| `saved_is_served` | is a setup that reports its routes as saved served? | violated |
| `ledger` | types, credits without payment, double credits and exactness of the balance, with overlapping and failing requests | holds, 3,694,080 states |
| `ledger_progress` | is a payment that was made credited, with overlapping and failing requests? | holds, 719,362 states |

### Bounds, and why they are enough

* *Controller*: three calls, so that one can be in the allocator, one reserved and
  one settling at once. `agent_cost` 3 with decisions of 1 or 2 units: two calls
  fit only in some combinations, three never with a 2 among them. A provider may
  report up to 3, more than any allocation, so that overruns occur. A deadline of 2
  or 3 ticks with ages up to 3 lets it pass before, during and after an allocation.
  The policies combine an aggregate cost limit, a deadline and per-call limits;
  absent limits are `NoLimit`.
* *Middleware*: two calls (a retry after a failed call, or a second turn), two
  tools in parallel, allocations of 1 against a limit of 2, and usages of up to 2, so that
  a call overruns and the run fails under the graph. Two coroutines are
  enough for a thread of one to come back after the other has finished the run.
* *Demo*: two requests, each of either lane, and three models of two prices, so that a
  request is sent on twice and one model is in cooldown by the other's doing; a policy without
  limits, as the demo has it, and one with a limit of 2 that a single request can use up.
* *Cache*: two overlapping calls over a conversation, its continuation, a branch of it and
  one in which a tool call is open, so that a record matches, is too long, or is for something
  else; two models with two routes each, of which one does not cache. Messages have up to
  `MaxTokens` = 4 tokens and pressures up to `MaxPressure` = 2, so that the shares
  of a reduction differ and one message's capacity is used up before the others'.
* *Runtime*: a trace of a root and a child, either older than the client, a user inside or
  outside of the trace, and `EndedCap` 1, so that the memory of ended runs overflows.
* *Exporter*: four events through a queue of two with batches of two, so that the
  queue is full while a batch is in flight; event 2 cannot be encoded and spoils the
  batch it is in; two attempts; two shutdowns with a restart in between.
* *Workflow*: a root and a scope below it, two calls, maxima of at most 2, two
  finalizing requests at a time. Two calls of 1 or 2 suffice to exhaust the root
  from the leaf and from the root itself, and a reservation can be settled, failed and cancelled
  by two racing requests. Deeper trees and more calls are the theorems' matter.
* *Usage*: a call of the plugin that another holder of its token posts too, and one that
  the API executes; two attempts, two setups; budgets of 4 and 6 against spends of 3 and 4 (`MaxSpend`)
  with a grain of 2 and a fee of a half, so that rounding goes both ways and a budget does for one
  call only.
* *Pools*: two routes (symmetric) over two models of two providers. Two processes may run one job,
  one of them may serve a waiting setup too, an update runs with them, and a request is
  answered meanwhile: enough for each pair of writers to overlap at each document. The
  dearer model has the better score, a budget of 3 is used up by one choice of it, and the
  price is between 0 and 5, starting at 3.
* *Ledger*: two workers, since each race of the code is between two requests; one session
  and two windows (one for progress), so that a lock goes stale and a second
  window has its own charge; usages of 1 against credits of 1 and 2 and a threshold of
  1, so that usage empties the balance and starts top-ups before and after it; two events
  more than delivery needs; one failing request.

Deadlock is not checked: a run ends, an agent ends, an exporter may be stopped, and a
finished workflow run, like an account, a session or a budget whose bounds are used up, has no steps. What
must not get stuck is a liveness property. Symmetry is used only where no liveness is checked.

### Fairness

* Controller: the allocator answers or raises. Its HTTP clients have a timeout
  (`clients.py:73-107`), and `allocate_call` takes the lock again in either case. Nothing is
  assumed of the agent, which may never settle or finish.
* Middleware: the event loop runs the graph on (`Node`), threads of the pool return,
  and the application closes the run of a crashed graph, the one thing README.md:368
  asks of it. `RunIsClosed` depends on that last assumption.
* Demo: the threads of requests and the prefetch worker run on, and a connection to a provider
  ends: it has a timeout of 600 seconds, and providers end their streams. Models may fail, leave their
  cooldown and fail again forever; `RequestsEnd` holds because of `attempted_models`.
* Runtime: threads run on, the application ends the spans and leaves the contexts that it began,
  and a shutdown that was called goes on. Nobody has to call it.
* Exporter: both threads are scheduled, a request ends (socket timeout, `exporter/http.py`),
  and time passes. The collector may fail forever and the application may never call anything.
* Ledger: a request that was begun goes on, unless it fails, and Stripe delivers an event
  until it is answered with 200, which its documentation promises and the code relies on.
  Nobody has to pay, to use or to wait for the next window.
* Cache, workflow, usage, pools: none, their properties are safety.

### What the runs found

`saved_is_served`: `save_candidate_pool` writes routes and versions into the policy and leaves
`routingStrategy` and `modelCatalog` alone (`lerouter_modal_api.py:3126`). After a catalog-wide
setup, a setup or update of pools answers `"saved": True` while the policy still says
`catalog_wide` and its routes are no longer the catalog's, so every request is
refused with 502 (`lerouter_modal_api.py:8032-8041`). `SettledIsStored` is the same property
with the ways in which the code gets there as exceptions, and holds. There is a second one: a setup
that waits selects pools whatever its metadata say (`:7484-7501`) and stores them with the policy (`:3132`), and
`lerouter_route` takes `metadata.routing_strategy` for the strategy of a policy without a
`routingStrategy` (`:7874-7880`). With `catalog_wide` in the metadata the pools are reported as saved,
and each request is refused for want of a catalog (`:7893`).

### What the models follow the code in

Places where the code does less than one would expect, or than a doc says. The models do what
the code does, and the properties say what holds nevertheless.

* Controller: `fail_call` charges the full reservation (`controller.py:281`) without the
  comparison of `settle_call`, so an active run may be above `hard_agent_cost_limit_usd` after another
  call overran (README.md:340); `SpendCovered` is the bound that holds. A settlement that
  breaks a limit fails the run (`controller.py:267`) with the other calls' reservations in
  place, and nobody charges them (README.md:357).
* Gateway and middleware: `ReservationsOwned` names who may hold a reservation of an active run: the model
  node that prepared it; a call whose `prepare_call` was cancelled around its allocation; and a
  call whose answer was not observed, because `observe_model` refused its usage after `after_model` had
  taken it from the pending ones (`langchain.py:477`, `gateway.py:321-326`) or the graph gave up before.
  The last two have nobody but `finish_run`, which charges them in full.
* Planning: what a call costs is reckoned with 32 tokens kept of each message (`routing.py:275`, `:466`), and
  compaction keeps `minimum_kept_tokens` (`gateway.py:77`, 32 unless configured). `DiscountIsKept` holds for `Kept <=
  RouterKept`. With a larger minimum the code gives a call the discount for its cached prefix and then
  compacts that prefix: TLC shows it with `Kept = 2` and `RouterKept = 1`.
* Planning: a plan may pin a sticky route, or go direct to the guaranteed one, although only
  the cheapest route was checked against the call's cost budget (`routing.py:345-407`, README.md:363-364).
* Demo: a request that breaks off between the grant and the provider's whole answer leaves its
  reservation; the run is never finished. `RelayedIsResolved` excludes it for requests that were answered.
* Exporter: when the thread outlives the timeout, `shutdown` returns without
  `sender.close()` (`exporter/worker.py:64`), which `runtime-sdk-architecture.md:117` promises.
* Runtime: a run that begins while shutdown is under way is not ended by it, nor are the
  events of another thread waited for; `ShutdownEndsRuns` names both exceptions. A span that
  began before the client is counted down when it ends (`opentelemetry.py:258`), although it was
  never counted. At zero the trace forgets its run and that its root ended while registered spans of it are open;
  of a trace with four spans, another run may then begin, and the old run's last span ends a run that
  nobody began: its end is queued without a start. `RunsPaired` leaves out the runs of such
  traces (`Undisturbed`), and `SpansCounted` says what holds of them: the count is never too large.
* Workflow: `finish_workflow_scope` looks for unsettled reservations and updates the scope
  in two statements (`lerouter_modal_api.py:7735-7741`), so that a call reserved in between
  is in a finished scope. A reservation whose request dies has no expiry (`:8220`).
* Usage: the API rounds a spend to 8 digits while the plugin demands that the answer agrees to
  1e-12, so that a response may be billed and withheld. A log refused with 409 because the budget is
  exhausted leaves the spend of a provider that already ran unaccounted. A setup that changes the
  accounting mode makes a repeated post a conflict, and of two overlapping setups one can lose a
  debit (the run has one setup at a time). `estimate_spend_usd` (`:5559`) reads `usage` only, so a Gemini response is charged for
  the estimated prompt. `hermes_lerouter_adapter.log_usage` (188-226) sends no accounting
  token, which the API requires (`:7336-7350`).
* Plugin: it executes the first candidate only, so that its loop over candidates never goes
  on; an exception of `_activate_entry` escapes without a log. A streaming client of the API gets
  errors as the assistant's text, with status 200.
* Pools: a job that succeeded may be begun again by its container and then be reported
  as running or failed (`:6798`); one whose container dies stays "running". `SettledIsStored` is about
  writers that nobody overlapped: with overlap, a policy may name pools that another writer has deleted.
* Ledger: an attempt to top up records Stripe's answer with `creditedAt: null`
  (`autoTopUp.js:52`). In the same fifteen minutes Stripe repeats the first answer, so a
  second attempt credits the first payment again; an attempt whose event was faster does too.

Three properties of the ledger leave out executions in which the code is known to go wrong, which
the histories record, and say that nothing else does. `creditStripePayment` reads `creditedAt` (`store.js:921`) and
sets it in a later statement without a condition, so two deliveries served at once both credit:
`SessionCreditedOnce` is about sessions that were not `raced`. A debit reads the balance (`store.js:659`)
and writes it without a condition, so two usages served at once spend it twice, and a request that dies between its log and
its debit is not charged: `BalanceMatches` is about executions that are not `spoiled`. A payment is
marked (`store.js:936`) before it is added to the balance, so a request that dies in between
loses the credit, and the event that comes again is answered at once: `PaidIsCredited` is about payments that were not
`dropped`. `TypeOK`, no negative balance, and `OnlyPaidCredited` hold without exception.

## 4. Proofs

Eight modules hold theorems; every one is checked by TLAPS for all values of the
constants allowed by the named assumptions. Each inductive invariant was checked by TLC on the
component's run before it was proved.

### Assumptions

They are stated with the constants, evaluated by each run, and as weak as the code allows:
calls, scopes and models are finitely many; `NoLimit`, `NoCall`, `NoLog`, `NoPayment`, `NoJob` and
`NoModel` are not what they stand for the absence of; limits are positive integers (as
`OperatingPolicy` validates) and bounds are naturals. Besides,

* `LedgerAssumption`: sessions are not numbers (which windows are), and amounts are positive;
* `UsageAssumption`: the grain, the divisor of the fee and the attempts are positive;
* `ExporterAssumption`: capacity, batch size and retries are positive (`config.py:75`, `exporter/worker.py:30-33`);
* `RuntimeAssumption`: a child that knows its parent is in the parent's trace, spans, users and the caller of
  `shutdown` are finitely many, the run id that a span generates is no user's, and `EndedCap` is positive;
* `PlanningAssumption`, `SessionAssumption`: what is kept, sizes and pressures are positive, conversations
  are sequences of messages, a required reduction is a natural number, and a model has a route;
* `ScoringAssumption`: no two models have the same rank (it is their position in the worker's answer),
  qualities, debits and savings are natural numbers of units, and `PriceMin <= PriceMax`;
* `PoolsAssumption`: the name of the catalog is not that of a route, a complete pool is not empty,
  and setups and updates are different processes.

The number of coroutines, posts, transactions, shutdowns, routes, writers and requests is arbitrary.

One theorem has a hypothesis besides: `DiscountsAreKept` that `Kept <= RouterKept`. Without it it
is false, as section 3 says.

### Theorems

| Theorem | Module | States |
|---|---|---|
| `TypeCorrect` | controller, workflow, ledger, runtime client | `TypeOK` |
| `CallsAreAccounted`, `SpendIsCovered`, `CompletedRunIsClean` | controller | the invariants of the `controller` run |
| `TerminalIsFrozen`, `GrantsAreTimely` | controller | its action properties |
| `MiddlewareDrivesController` | middleware | each step of the gateway and the middleware is a step of the controller, or none |
| `MiddlewareSpendIsCovered` | middleware | `SpendCovered` of a run that an agent drives |
| `ReservationsAreOwned`, `AttemptedAreCharged` | middleware | the invariants of the `middleware` run |
| `DemoDrivesController` | demo | each step of the proxy is a step of the controller, or none |
| `RelayedAreResolved`, `SpendIsInLedger` | demo | the invariants of the `demo` run |
| `RecordIsOfWhatWasSent`, `DiscountsAreKept`, `ReductionsAreExact` | cache | the invariants of the `cache` run |
| `SpansAreCounted`, `RunsArePaired` | runtime client | the invariants of the `runtime` run |
| `ShutdownEndsEveryRun` | runtime client | its action property |
| `SenderIsUsedByOne`, `LossesAreCounted` | exporter | the invariants of the `exporter` run |
| `ExporterIsAChannel` | exporter | its refinement of `EventChannel` |
| `MaximumHolds`, `LedgerIsKept`, `RunMaximumHolds` | workflow | the invariants of the `workflow` run |
| `OutcomesAreFinal` | workflow | its action property |
| `UsageIsSummed`, `GrantHolds`, `DeliveredAreLogged` | plugin | the invariants of the `usage` run |
| `LoneSetupIsStored`, `AnswersAreNamed`, `OverspendingSlowsSpending` | pools | the invariants of the `pools` run |
| `OnlyPaidIsCredited`, `SessionIsCreditedOnce`, `BalanceIsExact` | ledger | the invariants of the `ledger` run |

### How they are proved

* *Totals* (`TotalsTheorems`): a total is natural, of nothing is zero, grows by
  the value of an element that joins, shrinks by that of one that leaves, and depends
  only on the values over the set. Each is a fact about the cardinality of
  the set of units.
* *Controller* (`PromptRailGateway_proofs`). The inductive invariant is `TypeOK /\
  CallsAccounted /\ SpendCovered`. `SpendCovered` alone is not inductive: that a
  grant adds exactly its own cost to what is reserved needs the call to be new
  to `reserved` (`CallsAccounted`). The step that
  matters is `CommitAllocation`: it computes what remains afresh, so the allocation
  fits whatever happened meanwhile. A settlement moves a budget from reserved
  to spent and what it exceeds to `overrun`. `CompletedRun` adds that
  `FinishRun` waits for the pending allocations, and `TerminalFrozen` and
  `GrantsFitDeadline` are action properties from the guards of the second section.
* *Gateway and middleware* (the same module). The proof goes in two steps down:
  a step of the middleware is one of the gateway (`GatewayNext`: anything that agents, threads
  and applications may do with it), and that is one of the controller, so that the
  controller's theorems carry over. `GatewayInv` adds `ThreadsMatch`, where the thread of a call
  can be: the controller does not know a call until its thread has entered
  `allocate_call`, and while the run is active only the end of a coroutine lets go of a
  reservation. `MiddlewareInv` adds that the run is active and no tool at work under the model node
  (`NodeRuns`) and that a call that was sent to a provider and not charged yet is reserved
  in an active run (`AttemptedIsHeld`): by the model node, which will settle it, or after a
  crash, which leaves it to `finish_run`. For `ReservationsOwned`, `NodeOwns` says that a `prepare_call` under way
  is that of the model node; every other way out of the node closes the reservation of its call first.
* *Demo* (the same module). The threads of the proxy too use the gateway only by `GatewayNext`
  (`DemoImplements`), so that `GatewayInv` holds and the controller's theorems carry over. `RequestsMatch`
  relates where a request is to the phase of its call: while it is with providers, whatever models it is
  sent on to, its call stays prepared, and before an answer or an error is passed on in an active run the
  call is closed, so that by `GatewayInv` nothing of it is reserved. It also says that the event of a request is written
  once, at its end, which is why the sum of the ledger grows with each charge. `SpendIsRecorded` is then
  inductive: a charge adds to the ledger or, for an answer without usage, to `unknown`.
* *Exporter* (`ExportWorker_proofs`). `TakeTurns` says where the two processes can be at a time:
  the drainer sends only when the thread is off, because it has joined it. `BatchesFit` and
  `AttemptsFit` bound what is in a batch and how often it was sent or read. `LossIsCounted` is
  what makes `NoSilentLoss` inductive: before a shutdown no deadline passes, and a failed batch
  that still waits for another attempt is counted already (`Retried`), before it is lost. Lemmas on
  the elements of sequences (of a concatenation, a head, a tail) carry the counts. For the
  refinement, what waits in the channel is one batch, the other batch and the queue, of which a
  send delivers a prefix; each action is a step of the channel or a stutter.
* *Session cache and planning* (`SessionCache_proofs`). The water-filling and the leading prefix are
  recursive functions on the naturals. The library's induction theorem takes an operator,
  which no prover here instantiates, but a set of naturals without a least element is empty
  (`LeastNatural`), so that a set which contains 0 and with each number the next is all of them (`InductiveSet`).
  `Recursion` derives from this that a function defined by `CHOOSE` satisfies its
  equations: by induction there are functions up to each n, and they agree. For the reduction, each turn
  of a message (`TakeShareKeeps`) and hence each round (`RoundKeeps`) keeps what was taken plus what
  remains, within the capacities, and a round takes at least one token while any capacity is left; so
  as many rounds as there are tokens to take suffice (`WaterFillIsExact`), and the capacities of the
  eligible messages do suffice when a plan asks for it (`ReductionIsReachable`). For
  the session, `SessionInv` says what a call relies on between `analyze` and `observe`, whatever other calls
  write to the record: a discount means that the messages matched are not compacted, and compaction
  touches only eligible ones (`CompactedShape`). That what `observe` records was sent
  needs that the prefix which `analyze` offers and the one that `observe` recovers from the blocks of the
  request are the same messages (`PrefixCountsAgree`).
* *Runtime client* (`RuntimeClient_proofs`). The inductive invariant `RuntimeInv` says where the registry
  has a span in each of its places (`SpansPlaced`), who owns a run (`UsersPlaced`, `RunsHeld`), that
  the spans of a trace of which none was missed have the run of the trace (`TracesKept`), and that a run is not both
  open and remembered as ended (`RunsApart`); `SpansCounted` is a conjunct. `RunsPaired` follows
  from a stronger relation per run (`Paired`) of its log to whoever may still end it:
  nobody before it was queued as started, one actor afterwards, and nobody when it was queued as
  ended. The memory of ended runs may forget, which matters only for runs that somebody could
  still end, and there is none. For the shutdown, `Balanced` counts starts that were queued or are about to be
  against ends, and `OpenInHand` says that what is open was collected or began later.
* *Workflow budgets* (`RoutingApi_proofs`). The inductive invariant is `TypeOK /\
  Consistent /\ WithinMaximum /\ LedgerMatches`. `Consistent` says what requests
  under way rely on: a quote is the only one of its call, a
  claim is about a reservation that exists and debits at most its limit, a scope that does
  not exist has no maximum, and the root is in the chain of each reservation. That no
  balance becomes negative needs the filter of `StillDue`; the maximum is kept by
  the filter of `Affordable`, not by the authorization; the ledger is kept because `StillDue`
  compares the status again; the run's maximum follows from the ledger at the root.
* *Usage and plugin* (`HermesPlugin_proofs`). `UsageInv` has `SnapshotsTell`: a transaction
  whose snapshot is still the budget is about a call without a log, since each log that was inserted
  since has counted a request of the budget. Without it a second post of a call could be debited again.
  `SetupTells`: what a setup has read of a budget that it will refill (that it is missing or
  exhausted) is still so, for one setup is at work at a time and an exhausted budget is debited
  nothing. `AnswersTell`: a post is answered with the log of the facts that it states. `PluginInv` adds, per call, which post
  it waits for and what it may tell its agent.
* *Pools and scoring* (the same module). `ByItself` says what a writer that nobody overlapped
  has written when: its pools but those that are left, then the policy, with nobody else
  at work. `PolicyTells` is about the fields that a later writer of pools does not reset: a
  policy has a strategy of its own only with a catalog. `RequestTells` keeps the names that a request read.
  `NoDearer` is `OverspendMakesCheaper` as a fact about all budgets and candidates. The best
  candidate exists, for candidates are finitely many and ordered (`BestIsFirst`). After a
  request that took more than its share, less remains per weight at no lower a price
  (`LessPerWeight`), so that the malus per debit is no less steep (`Steeper`, also where the share is so
  small that `Huge` stands for its inverse); the model that was chosen keeps its lead over each
  dearer one (`LeadKept`), the more so as leaving it now costs its cache.
* *Credit ledger* (`CreditLedger_proofs`). The inductive invariant is `TypeOK /\
  Consistent /\ OnlyPaidCredited`. `Consistent` is what a request under way may rely on
  between its statements: a debit has read a balance that covers it (hence balances stay
  natural, although they are written from old values), a request that is about to credit works on
  a payment that was made, and Stripe's repeated answer is about a payment in that state. It
  is kept because a payment that was made stays made (`PaidStays`) and because
  `WriteStatus` puts back a mark only if there was one, which needs `OnlyPaidCredited`.
  The other two need nothing of how many requests there are. `BalanceInv`: until something has spoiled
  it, at most one request has read the balance to write it, what it has read is still the balance, and
  the balance is what was credited less what was used, but for a usage that is logged and about to be
  debited (`Owed`). A step keeps it because what one request adds to the balance is accounted for (`BalanceFrame`).
  `SessionInv`: of a session that was not raced there is one request at a time, which writes back the mark that it read, or
  marks what was not marked and then credits what was not credited; only a request about a
  session changes what is stored of it (`SessionFrame`), for a top-up's payment is a window.

What the proofs found in the models: `UsageSummed` did not go through at first, because `Begin` let a
transaction go on without a budget; the code refuses it with `route_budget_state_missing`
(`lerouter_modal_api.py:6079-6102`), and now the model does. `RunsPaired` turned out to be false for
traces with spans from before the client, which the run's trace of two spans is too small to show; section 3
has the behaviour, and the property now names the exception.

### Only model-checked

The liveness properties: `RunIsClosed`, `RequestsEnd`, `EventsLeave`, `WorkerStops`, `TracedRunsEnd` and
`PaidIsCredited`. TLAPS does not reason about fairness and `ENABLED`. Every invariant and every action
property that a run checks is proved, and so is the refinement of `EventChannel`.

## 5. What is not modelled

* Policy validation, the allocators' documents, privacy filters, event encoding, the bytes of a
  request: pure functions, which callers see succeed or raise.
* Router: scores and latencies, which may prefer any feasible model here, and the HTTP clients. Compaction:
  how much a summary takes (any tokens short of the whole message), the retrieval store, and tools as part of the cached prefix.
* Runtime client: a second `initialize`, nested contexts, the header maps of propagation,
  the events of single spans (`observe_otel_event`) and the integrations, which open spans like others.
* Demo: rewriting of bodies and streams, start and stop of its servers, the usage of the
  controller's own model in the ledger, the runner and the web session.
* Floating point: amounts are whole units, so that the tolerances of comparisons
  and the drift of sums are left out; rounding to a grain is modelled where a property depends on it (UsageLog).
* Workflow budgets: predictions and ranking behind an authorization, idempotent answers of
  repeated creations, and two requests finishing the same run at once.
* Usage: the shadow price and weight of the budget (BudgetScoring has them), a missing
  user, an explicit `remaining`, a disabled plugin, and the handler of a duplicate key, which a transaction that
  always writes the budget cannot reach.
* Pools: a schedule that a user writes without a setup (`POST /agent/route-update-jobs`,
  `lerouter_modal_api.py:7626`), the embeddings and the polling of a job, views of the Modal volume that are stale in another
  container, and the MongoDB copies of the job and schedule files, which are read only when a file is
  missing. `load_candidate_pool` and its variants have no caller.
* Ledger: the copy of the balance in `userBudgets` (nothing decides by it), the
  running total `budgetUsd`, subscriptions, changes of the billing settings, and usage without
  a charge. Two users share nothing.
* Request authority, entitlements and credentials: not yet (section 6).
* The web application, installer, adapter, CLI, benchmarks, historical import and numeric
  parts of the routing API: presentation, files, scripts, arithmetic.

## 6. Plan

Modelled, in the order of importance: the controller, the gateway over it, the middleware and the demo
over both, the exporter and its channel, the workflow budgets, the credit ledger, the runtime client,
the session cache and planning, usage of the routing API with the plugin, and the pools. Proved: all of
their safety properties, for all values of the constants.

Models to come if time allows: `RequestAuthority` (authorization, rotation and revocation of connections,
receipts), the installer's polling of a setup job, and the demo's web session.
