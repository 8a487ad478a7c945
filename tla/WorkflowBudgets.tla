---------------------------- MODULE WorkflowBudgets ----------------------------
(***************************************************************************)
(* The hierarchical budgets of frontend/lerouter_modal_api.py: one         *)
(* workflow run, its tree of scopes and the reservations of its calls.     *)
(* Each scope has a maximum; a call reserves its limit in its scope and in *)
(* every ancestor, and its spend is settled in all of them.                *)
(*                                                                         *)
(* Endpoints run concurrently. Every statement and every transaction of    *)
(* the database is one step; what an endpoint read before it is kept in    *)
(* parents, quotes, claims, closing and run_phase. A request may stop      *)
(* after any of its steps. An endpoint that answers an error or repeats a  *)
(* finished answer without changing anything is a stuttering step. One     *)
(* request at a time finishes the run; the other endpoints race with       *)
(* themselves too.                                                         *)
(*                                                                         *)
(* Money is counted in whole units: the tolerances of the comparisons of   *)
(* floating-point amounts are left out.                                    *)
(***************************************************************************)
EXTENDS Totals

CONSTANTS
    Scopes, Root,   \* scope ids, and the one created with the run
    Calls,          \* reservation ids
    MaxUsd,         \* bound on the maximum of a scope
    MaxClaims       \* bound on the requests to finalize that race

ASSUME WorkflowAssumption ==
    /\ IsFiniteSet(Scopes) /\ IsFiniteSet(Calls)
    /\ Root \in Scopes
    /\ MaxUsd \in Nat /\ MaxClaims \in Nat

VARIABLES
    run_active, run_phase,      \* where the endpoint that finishes the run is
    chain,                      \* a scope and its ancestors; {} before it exists
    scope_active,
    maxUsd, spentUsd, reservedUsd,
    status,                     \* of the reservations
    scopeIds, callLimitUsd, spendUsd,
    parents,                    \* scopes found active by requests to create one below
    quotes,                     \* route requests between authorization and reservation
    claims,                     \* requests to finalize a reservation they have read
    closing                     \* scopes that were seen without unsettled reservations

scopes       == <<chain, scope_active, maxUsd, spentUsd, reservedUsd>>
reservations == <<status, scopeIds, callLimitUsd, spendUsd>>
run          == <<run_active, run_phase>>
requests     == <<parents, quotes, claims, closing>>
workflow_vars == <<run, scopes, reservations, requests>>

Outcomes  == {"settled", "failed", "cancelled"}
Unsettled == {"reserved", "started"}
Created == {s \in Scopes : chain[s] # {}}

Quote == [call : Calls, scope : Scopes, limit : 1..MaxUsd]
Claim == [call : Calls, outcome : Outcomes, debit : 0..MaxUsd]

\* What a scope can still pay for.
Available(s) == maxUsd[s] - spentUsd[s] - reservedUsd[s]

\* workflow_scope_chain: the run, the scope and its ancestors are active.
ChainActive(s) == s \in Created /\ run_active /\ \A a \in chain[s] : scope_active[a]

RequiredStatus(outcome) == IF outcome = "cancelled" THEN "reserved" ELSE "started"

\* Adds f(call) to the scopes of the call.
Move(f, c, amount) == [s \in Scopes |-> IF s \in scopeIds[c] THEN f[s] + amount ELSE f[s]]

-----------------------------------------------------------------------------
\* create_workflow_run: the run and its root scope, in one transaction.
WorkflowInit ==
    /\ run_active = TRUE /\ run_phase = "idle"
    /\ chain = [s \in Scopes |-> IF s = Root THEN {Root} ELSE {}]
    /\ scope_active = [s \in Scopes |-> s = Root]
    /\ \E max \in 1..MaxUsd : maxUsd = [s \in Scopes |-> IF s = Root THEN max ELSE 0]
    /\ spentUsd = [s \in Scopes |-> 0] /\ reservedUsd = [s \in Scopes |-> 0]
    /\ status = [c \in Calls |-> "none"]
    /\ scopeIds = [c \in Calls |-> {}]
    /\ callLimitUsd = [c \in Calls |-> 0] /\ spendUsd = [c \in Calls |-> 0]
    /\ parents = {} /\ quotes = {} /\ claims = {} /\ closing = {}

\* create_workflow_scope reads the chain of the parent and then inserts the
\* scope, by when the parent or the run may be finished.
ReadParent(parent) ==
    /\ ChainActive(parent)
    /\ parents' = parents \cup {parent}
    /\ UNCHANGED <<run, scopes, reservations, quotes, claims, closing>>

CreateScope(s, parent, max) ==
    /\ s \notin Created /\ parent \in parents
    /\ max <= maxUsd[parent]
    /\ parents' = parents \ {parent}
    /\ chain' = [chain EXCEPT ![s] = chain[parent] \cup {s}]
    /\ scope_active' = [scope_active EXCEPT ![s] = TRUE]
    /\ maxUsd' = [maxUsd EXCEPT ![s] = max]
    /\ UNCHANGED <<run, spentUsd, reservedUsd, reservations, quotes, claims, closing>>

\* The route endpoint reads the chain and what is available in it, and
\* authorizes a candidate for a call limit. The rows are read one after the
\* other: here together, since nothing read lasts until the reservation anyway.
Authorize(c, s, limit) ==
    /\ status[c] = "none" /\ \A q \in quotes : q.call # c
    /\ ChainActive(s)
    /\ \A a \in chain[s] : limit <= Available(a)
    /\ quotes' = quotes \cup {[call |-> c, scope |-> s, limit |-> limit]}
    /\ UNCHANGED <<run, scopes, reservations, parents, claims, closing>>

\* Faulty: trusts what was available when the call was authorized.
Affordable_Quoted(q) == \A a \in chain[q.scope] : scope_active[a]

\* Faulty: asks the call's own scope only.
Affordable_LeafOnly(q) ==
    /\ \A a \in chain[q.scope] : scope_active[a]
    /\ Available(q.scope) >= q.limit

\* The filter of the update of every scope of the chain.
Affordable(q) == \A a \in chain[q.scope] : scope_active[a] /\ Available(a) >= q.limit

\* reserve_workflow_call: the transaction, if every scope can afford the call.
Reserve(q) ==
    /\ q \in quotes
    /\ Affordable(q)
    /\ quotes' = quotes \ {q}
    /\ reservedUsd' = [s \in Scopes |->
           IF s \in chain[q.scope] THEN reservedUsd[s] + q.limit ELSE reservedUsd[s]]
    /\ status' = [status EXCEPT ![q.call] = "reserved"]
    /\ scopeIds' = [scopeIds EXCEPT ![q.call] = chain[q.scope]]
    /\ callLimitUsd' = [callLimitUsd EXCEPT ![q.call] = q.limit]
    /\ UNCHANGED <<run, chain, scope_active, maxUsd, spentUsd, spendUsd, parents,
                   claims, closing>>

\* Faulty: does not look at the status it replaces.
Start_Always(c) ==
    /\ status[c] # "none"
    /\ status' = [status EXCEPT ![c] = "started"]
    /\ UNCHANGED <<run, scopes, scopeIds, callLimitUsd, spendUsd, requests>>

\* start_workflow_reservation.
Start(c) ==
    /\ status[c] = "reserved"
    /\ status' = [status EXCEPT ![c] = "started"]
    /\ UNCHANGED <<run, scopes, scopeIds, callLimitUsd, spendUsd, requests>>

\* finalize_workflow_reservation reads the reservation: to settle it with its
\* usage, to fail it with its limit or to cancel it.
ReadClaim(c, outcome, debit) ==
    /\ Cardinality(claims) < MaxClaims
    /\ status[c] = RequiredStatus(outcome)
    /\ debit <= callLimitUsd[c]
    /\ (outcome = "failed") => (debit = callLimitUsd[c])
    /\ (outcome = "cancelled") => (debit = 0)
    /\ claims' = claims \cup {[call |-> c, outcome |-> outcome, debit |-> debit]}
    /\ UNCHANGED <<run, scopes, reservations, parents, quotes, closing>>

\* Faulty: relies on the status it read.
StillDue_Read(k) == TRUE

\* Faulty: settles what is reserved, whatever the reservation has become.
StillDue_Funded(k) == \A s \in scopeIds[k.call] : reservedUsd[s] >= callLimitUsd[k.call]

\* The filters of the transaction: another request may have finalized or
\* started the reservation since it was read.
StillDue(k) ==
    /\ status[k.call] = RequiredStatus(k.outcome)
    /\ \A s \in scopeIds[k.call] : reservedUsd[s] >= callLimitUsd[k.call]

\* The transaction. It is abandoned if a filter matches nothing.
Finalize(k) ==
    /\ k \in claims
    /\ claims' = claims \ {k}
    /\ IF StillDue(k)
       THEN /\ status' = [status EXCEPT ![k.call] = k.outcome]
            /\ spendUsd' = [spendUsd EXCEPT ![k.call] = k.debit]
            /\ spentUsd' = Move(spentUsd, k.call, k.debit)
            /\ reservedUsd' = Move(reservedUsd, k.call, -callLimitUsd[k.call])
       ELSE UNCHANGED <<status, spendUsd, spentUsd, reservedUsd>>
    /\ UNCHANGED <<run, chain, scope_active, maxUsd, scopeIds, callLimitUsd,
                   parents, quotes, closing>>

\* finish_workflow_scope looks for unsettled reservations of the scope, then
\* updates it.
CheckScope(s) ==
    /\ s \in Created \ closing
    /\ \A c \in Calls : s \in scopeIds[c] => status[c] \notin Unsettled
    /\ closing' = closing \cup {s}
    /\ UNCHANGED <<run, scopes, reservations, parents, quotes, claims>>

FinishScope(s) ==
    /\ s \in closing
    /\ closing' = closing \ {s}
    /\ scope_active' = [scope_active EXCEPT ![s] = FALSE]
    /\ UNCHANGED <<run, chain, maxUsd, spentUsd, reservedUsd, reservations,
                   parents, quotes, claims>>

\* finish_workflow_run: the check, the scopes and then the run. A request that
\* stops half-way leaves a run whose scopes are finished; another one starts
\* with its own check.
CheckRun ==
    /\ \A c \in Calls : status[c] \notin Unsettled
    /\ run_phase' = "checked"
    /\ UNCHANGED <<run_active, scopes, reservations, requests>>

FinishScopes ==
    /\ run_phase = "checked"
    /\ run_phase' = "scopes"
    /\ scope_active' = [s \in Scopes |-> FALSE]
    /\ UNCHANGED <<run_active, chain, maxUsd, spentUsd, reservedUsd,
                   reservations, requests>>

FinishRun ==
    /\ run_phase = "scopes"
    /\ run_phase' = "idle"
    /\ run_active' = FALSE
    /\ UNCHANGED <<scopes, reservations, requests>>

WorkflowNext ==
    \/ \E parent \in Scopes : ReadParent(parent)
    \/ \E s, parent \in Scopes, max \in 1..MaxUsd : CreateScope(s, parent, max)
    \/ \E c \in Calls, s \in Scopes, limit \in 1..MaxUsd : Authorize(c, s, limit)
    \/ \E q \in quotes : Reserve(q)
    \/ \E c \in Calls : Start(c)
    \/ \E c \in Calls, outcome \in Outcomes, debit \in 0..MaxUsd : ReadClaim(c, outcome, debit)
    \/ \E k \in claims : Finalize(k)
    \/ \E s \in Scopes : CheckScope(s) \/ FinishScope(s)
    \/ CheckRun \/ FinishScopes \/ FinishRun

WorkflowSpec == WorkflowInit /\ [][WorkflowNext]_workflow_vars

-----------------------------------------------------------------------------
TypeOK ==
    /\ run_active \in BOOLEAN /\ run_phase \in {"idle", "checked", "scopes"}
    /\ chain \in [Scopes -> SUBSET Scopes]
    /\ \A s \in Created : s \in chain[s] /\ Root \in chain[s]
    /\ scope_active \in [Scopes -> BOOLEAN]
    /\ maxUsd \in [Scopes -> 0..MaxUsd]
    /\ spentUsd \in [Scopes -> Nat] /\ reservedUsd \in [Scopes -> Nat]
    /\ status \in [Calls -> {"none"} \cup Unsettled \cup Outcomes]
    /\ scopeIds \in [Calls -> SUBSET Scopes]
    /\ callLimitUsd \in [Calls -> 0..MaxUsd] /\ spendUsd \in [Calls -> 0..MaxUsd]
    /\ parents \subseteq Created
    /\ quotes \subseteq Quote /\ claims \subseteq Claim /\ closing \subseteq Scopes

\* No scope ever commits more than its maximum, with what is spent and what is
\* reserved, however many calls are authorized against the same balance.
WithinMaximum == \A s \in Scopes : spentUsd[s] + reservedUsd[s] <= maxUsd[s]

Of(s, states) == {c \in Calls : s \in scopeIds[c] /\ status[c] \in states}

\* The balance of every scope is the sum of its calls: each reservation was
\* taken and given back once, and its spend was added once, in every scope of
\* its chain, although requests repeat, race and stop half-way.
LedgerMatches ==
    \A s \in Scopes :
        /\ reservedUsd[s] = Total(Of(s, Unsettled), callLimitUsd, MaxUsd)
        /\ spentUsd[s] = Total(Of(s, Outcomes), spendUsd, MaxUsd)

\* The calls of the run, in whatever scope, spend at most the run's maximum.
RunWithinMaximum ==
    Total({c \in Calls : status[c] \in Outcomes}, spendUsd, MaxUsd) <= maxUsd[Root]

\* A reservation is finalized once: its outcome and its spend never change.
OutcomeIsFinal ==
    [][\A c \in Calls : status[c] \in Outcomes =>
           status'[c] = status[c] /\ spendUsd'[c] = spendUsd[c]]_workflow_vars
================================================================================
