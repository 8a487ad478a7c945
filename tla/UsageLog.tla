------------------------------ MODULE UsageLog ------------------------------
(***************************************************************************)
(* Usage accounting of the routing API for one user and one route: the     *)
(* transaction of write_usage_log, which debits the route's budget, adds   *)
(* to the user's totals and inserts the log of a routing call, against     *)
(* other transactions and against the setup that rewrites the budget.      *)
(*                                                                         *)
(* A post is one request to log a call: the caller's own, or one more of   *)
(* any holder of the call's accounting token. A transaction reads a        *)
(* snapshot, and its commit succeeds only if nobody has written to the     *)
(* budget since: every usage log writes to it.                             *)
(*                                                                         *)
(* Where a post (at) can be:                                               *)
(*   none      not made                                                    *)
(*   begin     verified, about to begin a transaction                      *)
(*   commit    it has read its snapshot (seen) and is about to write       *)
(*   ok        answered with the log                                       *)
(*   refused   answered with 409 or 422                                    *)
(*   failed    answered with 503, with nothing said of the log             *)
(*                                                                         *)
(* Money is counted finer than the grain to which the API rounds it. The   *)
(* shadow price and the weight of the budget, which only rank candidates,  *)
(* are left out.                                                           *)
(***************************************************************************)
EXTENDS Totals

CONSTANTS
    Calls,          \* routing call ids
    NoLog,
    Grain,          \* 8 decimals, in units of the 12 that clients send
    FeeDivisor,     \* 1 / ROUTING_FEE_RATE
    MaxAttempts,    \* USAGE_LOG_TRANSACTION_MAX_ATTEMPTS
    MaxSpend,       \* bound on the spend of a response
    Budgets,        \* budgets that a setup may name
    MaxSetups       \* bound on setups

Modes == {"routing_fee", "provider_spend"}

\* Rounding, twice for a fee, adds less than that to a spend.
MaxCharge == MaxSpend + 2 * Grain

Log == [success : BOOLEAN, spend : 0..MaxCharge, mode : Modes, debit : 0..MaxCharge]

ASSUME UsageAssumption ==
    /\ {Grain, FeeDivisor, MaxAttempts} \subseteq Nat \ {0}
    /\ {MaxSpend, MaxSetups} \subseteq Nat
    /\ Budgets \subseteq Nat /\ IsFiniteSet(Calls) /\ NoLog \notin Log

VARIABLES
    budget,     \* the document of user_budget_states
    total,      \* the user's totalSpendUsd and totalRequests
    logs,       \* route_usage_logs: NoLog, or the log of a call
    post,
    setup,      \* a setup between its read and its write
    setups,     \* bound
    granted     \* history: the largest budget that was set up

database == <<budget, total, logs>>
setting == <<setup, setups, granted>>
usageVars == <<database, post, setting>>

Posts == Calls \X {"own", "again"}
CallOf(p) == p[1]

\* x / d, to the nearest multiple of the grain.
Rounded(x, d) == Grain * ((2 * x + d * Grain) \div (2 * d * Grain))

\* verified_usage_spend_usd: what the API takes a spend for.
Verified(x) == Rounded(x, 1)

Fee(spend) == Rounded(spend, FeeDivisor)

Debit(mode, spend) == IF mode = "provider_spend" THEN spend ELSE Fee(spend)

NoBudget == [exists |-> FALSE, remaining |-> 0, spent |-> 0, requests |-> 0,
             mode |-> "routing_fee"]

NoPost == [at |-> "none", success |-> FALSE, spend |-> 0, attempt |-> 0,
           seen |-> NoBudget]

PostAt(p, l) == post[p].at = l
Answer(p, l) ==
    post' = [post EXCEPT ![p] = [@ EXCEPT !.at = l, !.attempt = 0, !.seen = NoBudget]]

UsageInit ==
    /\ budget = NoBudget
    /\ total = [spent |-> 0, requests |-> 0]
    /\ logs = [c \in Calls |-> NoLog]
    /\ post = [p \in Posts |-> NoPost]
    /\ setup = [at |-> "none", seen |-> NoBudget]
    /\ setups = 0 /\ granted = 0

-----------------------------------------------------------------------------
(* persist_budget_metadata_from_setup: a read, and a write that does not   *)
(* depend on what was read still being so. One setup at a time.            *)

SetupReads ==
    /\ setup.at = "none" /\ setups < MaxSetups
    /\ setup' = [at |-> "write", seen |-> budget]
    /\ setups' = setups + 1
    /\ UNCHANGED <<database, post, granted>>

\* Faulty: every setup refills the budget, less what it saw spent.
NewRemaining_Refill(b) == IF b > setup.seen.spent THEN b - setup.seen.spent ELSE 0

\* The budget of a new route, and of one that is exhausted, is what remains
\* of the budget that is set up. Any other keeps what remains of it.
NewRemaining(b) ==
    IF ~setup.seen.exists THEN b
    ELSE IF setup.seen.remaining <= 0 /\ setup.seen.spent < b
         THEN b - setup.seen.spent
    ELSE budget.remaining

SetupWrites ==
    /\ setup.at = "write"
    /\ \E b \in Budgets, m \in Modes :
           /\ budget' = [budget EXCEPT !.exists = TRUE, !.mode = m,
                                       !.remaining = NewRemaining(b)]
           /\ granted' = IF b > granted THEN b ELSE granted
    /\ setup' = [setup EXCEPT !.at = "none", !.seen = NoBudget]
    /\ UNCHANGED <<total, logs, post, setups>>

-----------------------------------------------------------------------------
(* A post.                                                                 *)

\* What lerouter_usage_log makes of a post, in the call's place: the claim of
\* the token is the call's. A failure has a spend if it comes with tokens.
Received(success, spend) ==
    [NoPost EXCEPT !.at = "begin", !.success = success, !.attempt = 1,
                   !.spend = Verified(spend)]

\* require_idempotent_usage_match, which compares with the mode of today.
Matches(log, p, b) ==
    /\ log.success = post[p].success
    /\ log.spend = post[p].spend
    /\ log.mode = b.mode
    /\ log.debit = Debit(b.mode, post[p].spend)

\* Faulty: the call's log is not looked up.
Existing_None(c) == NoLog

Existing(c) == logs[c]

\* A transaction begins: it reads the budget, without which it is refused, and
\* the call's log if there is one.
Begin(p) ==
    LET existing == Existing(CallOf(p)) IN
    /\ PostAt(p, "begin")
    /\ IF ~budget.exists THEN Answer(p, "refused")
       ELSE IF existing # NoLog
       THEN Answer(p, IF Matches(existing, p, budget) THEN "ok" ELSE "refused")
       ELSE post' = [post EXCEPT ![p] = [@ EXCEPT !.at = "commit", !.seen = budget]]
    /\ UNCHANGED <<database, setting>>

DebitOf(p) == Debit(post[p].seen.mode, post[p].spend)

\* Faulty: the update does not ask for the debit to be covered.
Affordable_Any(p) == TRUE

Affordable(p) == post[p].seen.remaining >= DebitOf(p)

\* The update matches no document: 409 route_budget_exhausted.
Exhausted(p) ==
    /\ PostAt(p, "commit") /\ ~Affordable(p)
    /\ Answer(p, "refused")
    /\ UNCHANGED <<database, setting>>

\* Faulty: a transaction commits on a stale snapshot.
Isolated_Never(p) == TRUE

\* Nobody has written to the budget since the snapshot.
Isolated(p) == budget = post[p].seen

\* The log that is inserted for a post.
LogOf(p) ==
    [success |-> post[p].success, spend |-> post[p].spend,
     mode |-> post[p].seen.mode, debit |-> DebitOf(p)]

\* The transaction commits. Its answer may be lost on the way, which is no
\* error that is tried again.
Commit(p) ==
    /\ PostAt(p, "commit") /\ Isolated(p) /\ Affordable(p)
    /\ budget' = [post[p].seen EXCEPT !.remaining = @ - DebitOf(p),
                                      !.spent = @ + DebitOf(p),
                                      !.requests = @ + 1]
    /\ total' = [spent |-> total.spent + Fee(post[p].spend),
                 requests |-> total.requests + 1]
    /\ logs' = [logs EXCEPT ![CallOf(p)] = LogOf(p)]
    /\ \E answer \in {"ok", "failed"} : Answer(p, answer)
    /\ UNCHANGED setting

\* A write conflict, or another transient error: the transaction is aborted,
\* and begun again while attempts are left.
Abort(p) ==
    /\ \E l \in {"begin", "commit"} : PostAt(p, l)
    /\ post' = [post EXCEPT
           ![p] = IF post[p].attempt < MaxAttempts
                  THEN [post[p] EXCEPT !.at = "begin", !.attempt = @ + 1,
                                       !.seen = NoBudget]
                  ELSE [post[p] EXCEPT !.at = "failed", !.attempt = 0,
                                       !.seen = NoBudget]]
    /\ UNCHANGED <<database, setting>>

Serve(p) == Begin(p) \/ Exhausted(p) \/ Commit(p) \/ Abort(p)

-----------------------------------------------------------------------------
(* Properties                                                              *)

Logged == {c \in Calls : logs[c] # NoLog}

Debits == [c \in Calls |-> IF c \in Logged THEN logs[c].debit ELSE 0]
Fees == [c \in Calls |-> IF c \in Logged THEN Fee(logs[c].spend) ELSE 0]

\* The budget has been debited for the calls that are logged, once each, and
\* the user's totals are the sums of the same logs: whatever transactions
\* overlapped, were tried again or lost their answer.
UsageSummed ==
    /\ budget.requests = Cardinality(Logged)
    /\ total.requests = Cardinality(Logged)
    /\ budget.spent = Total(Logged, Debits, MaxCharge)
    /\ total.spent = Total(Logged, Fees, MaxCharge)

\* No more is spent on a route than the largest budget it was set up with, and
\* a setup that rewrites the budget while calls are debited does not change it.
WithinGrant ==
    /\ budget.remaining >= 0
    /\ budget.remaining + budget.spent <= granted
=============================================================================
