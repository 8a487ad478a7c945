----------------------------- MODULE CreditLedger -----------------------------
(***************************************************************************)
(* The credits of one user of the web application: the balance that usage  *)
(* debits (api/usage-log), that Stripe's events credit                     *)
(* (api/billing/webhook) and that automatic top-ups refill                 *)
(* (lib/autoTopUp.js), over the statements of lib/store.js.                *)
(*                                                                         *)
(* A worker is a process that serves one request at a time. Each statement *)
(* of the database is one step; request[k] is where worker k stands, the   *)
(* payment it is about and what it has read (seen).                        *)
(*                                                                         *)
(* Where a request (at) can be:                                            *)
(*   begin     triggerAutoTopUp is about to take the lock                  *)
(*   create    it is about to ask Stripe for a payment                     *)
(*   record    it has Stripe's answer                                      *)
(*   session   creditStripePayment is about to read the payment            *)
(*   user      it is about to read the user's balance                      *)
(*   mark      it is about to mark the payment as credited                 *)
(*   apply     it is about to write the new balance                        *)
(*   finish    an attempt to top up is about to release the lock           *)
(*   debit     insertUsageAndUpdateUser is about to read the balance       *)
(*   log       it is about to insert the usage                             *)
(*   write     it is about to write the new balance                        *)
(*   status    an event has read a payment that it does not credit         *)
(*   failed    an event is about to record a failed top-up                 *)
(*   budget    updateUserBudget has read the balance it writes back        *)
(*                                                                         *)
(* Time is the number of the fifteen-minute window that the idempotency    *)
(* key of a top-up names; the lock goes stale after fifteen minutes too.   *)
(* The copy of the balance in userBudgets, which nothing reads to decide,  *)
(* is left out. credits, applied, logged, raced, spoiled and dropped are    *)
(* history.                                                                *)
(***************************************************************************)
EXTENDS Integers, FiniteSets

CONSTANTS
    Workers,
    Sessions,           \* checkout sessions, open from the start
    NoPayment,
    MaxWindow,          \* bound on time
    AutoTopUp,          \* autoTopUpEnabled, with a saved payment method
    ThresholdUsd, TopUpUsd, SessionUsd, SpendUsd,
    MaxUsages,          \* bound on requests that spend
    MaxDuplicates,      \* bound on events that need not have been delivered
    MaxFailures         \* bound on requests that die or raise half-way

Windows == 1..MaxWindow

\* A payment is a checkout session, or the PaymentIntent of a window's top-up.
Payments == Sessions \cup Windows

ASSUME LedgerAssumption ==
    /\ Sessions \cap Int = {} /\ NoPayment \notin Payments
    /\ MaxWindow \in Nat \ {0} /\ AutoTopUp \in BOOLEAN
    /\ {TopUpUsd, SessionUsd, SpendUsd} \subseteq Nat \ {0}
    /\ ThresholdUsd \in Nat /\ ThresholdUsd < TopUpUsd
    /\ {MaxUsages, MaxDuplicates, MaxFailures} \subseteq Nat

VARIABLES
    balance,            \* budgetRemainingUsd
    inFlight,           \* window of autoTopUpInFlightAt, 0 if unset
    creditedAt,         \* whether a payment has its creditedAt
    request,
    stripe,             \* the payments at Stripe
    answer,             \* Stripe's answer to the idempotency key of a window
    delayed,            \* sessions that were completed before they were paid
    acknowledged,       \* payments whose event of success was answered with 200
    window, usages, duplicates, failures,
    credits, applied,   \* times a payment was added to the balance; their sum
    raced,              \* sessions with two requests under way at once
    spoiled,            \* a balance was read while another request had yet to
                        \* write its own, or a debit died after its log
    dropped,            \* payments whose credit died after they were marked
    logged              \* number of usages in usageLogs

external == <<stripe, answer, delayed>>
mishaps  == <<raced, spoiled, dropped>>
history  == <<credits, applied, mishaps>>
bounds   == <<usages, duplicates, failures>>
vars == <<balance, inFlight, creditedAt, request, external, acknowledged, window,
          bounds, history, logged>>

Amount(p) == IF p \in Sessions THEN SessionUsd ELSE TopUpUsd

Idle == [at |-> "idle", kind |-> "none", payment |-> NoPayment, seen |-> 0]

At(k, l) == request[k].at = l

Goto(k, l) == request' = [request EXCEPT ![k].at = l]

Saw(k, l, v) == request' = [request EXCEPT ![k].at = l, ![k].seen = v]

\* What the request goes on with after a top-up or a credit: a usage that had
\* too little before it is debited now, everything else is over.
Left(k) == IF request[k].kind = "pre"
           THEN [Idle EXCEPT !.at = "debit", !.kind = "usage"] ELSE Idle

Leave(k) == request' = [request EXCEPT ![k] = Left(k)]

\* It has read the balance, and will write what it makes of it.
Holding(k) == request[k].at \in {"mark", "apply", "log", "write", "budget"}

\* Request k reads the balance to write it.
Reads(k) == spoiled' = (spoiled \/ \E j \in Workers \ {k} : Holding(j))

\* A request about payment p begins.
Concerns(p) ==
    raced' = IF p \in Sessions /\ \E k \in Workers : request[k].payment = p
             THEN raced \cup {p} ELSE raced

-----------------------------------------------------------------------------
Init ==
    /\ balance = 0 /\ inFlight = 0
    /\ creditedAt = [p \in Payments |-> FALSE]
    /\ request = [k \in Workers |-> Idle]
    /\ stripe = [p \in Payments |-> IF p \in Sessions THEN "open" ELSE "none"]
    /\ answer = [w \in Windows |-> "none"]
    /\ delayed = {} /\ acknowledged = {}
    /\ window = 1
    /\ usages = 0 /\ duplicates = 0 /\ failures = 0
    /\ credits = [p \in Payments |-> 0] /\ applied = 0 /\ logged = 0
    /\ raced = {} /\ spoiled = FALSE /\ dropped = {}

-----------------------------------------------------------------------------
(* Stripe and the clock.                                                   *)

\* The customer pays, completes the checkout with a slow payment, or lets the
\* session expire.
Checkout(s) ==
    /\ stripe[s] = "open"
    /\ \E outcome \in {"paid", "pending", "failed"} :
           /\ stripe' = [stripe EXCEPT ![s] = outcome]
           /\ delayed' = IF outcome = "pending" THEN delayed \cup {s} ELSE delayed
    /\ UNCHANGED <<balance, inFlight, creditedAt, request, answer, acknowledged,
                   window, bounds, history, logged>>

\* A slow payment is made, or fails.
Clear(p) ==
    /\ stripe[p] = "pending"
    /\ \E outcome \in {"paid", "failed"} : stripe' = [stripe EXCEPT ![p] = outcome]
    /\ UNCHANGED <<balance, inFlight, creditedAt, request, answer, delayed,
                   acknowledged, window, bounds, history, logged>>

NextWindow ==
    /\ window < MaxWindow
    /\ window' = window + 1
    /\ UNCHANGED <<balance, inFlight, creditedAt, request, external, acknowledged,
                   bounds, history, logged>>

-----------------------------------------------------------------------------
(* Requests begin.                                                         *)

\* Stripe delivers the event that p was paid until it is acknowledged.
Due(p) ==
    /\ stripe[p] = "paid" /\ p \notin acknowledged
    /\ \A k \in Workers : request[k].kind = "event" => request[k].payment # p

Event(p, at, seen) == [at |-> at, kind |-> "event", payment |-> p, seen |-> seen]

\* checkout.session.completed, async_payment_succeeded, payment_intent.succeeded.
Deliver(p) ==
    /\ Due(p)
    /\ \E k \in Workers :
           /\ At(k, "idle")
           /\ request' = [request EXCEPT ![k] = Event(p, "session", 0)]
    /\ Concerns(p)
    /\ UNCHANGED <<balance, inFlight, creditedAt, external, acknowledged, window,
                   bounds, credits, applied, spoiled, dropped, logged>>

\* upsertSessionStatus reads the session of an event that credits nothing.
Status(p) == IF creditedAt[p] THEN 1 ELSE 0

\* Any event may come late, or again: of a payment that was made, of a session
\* that was not paid when it was completed or that failed, of a failed top-up.
DeliverAgain(k, p) ==
    /\ At(k, "idle")
    /\ duplicates < MaxDuplicates
    /\ duplicates' = duplicates + 1
    /\ \/ /\ stripe[p] = "paid"
          /\ request' = [request EXCEPT ![k] = Event(p, "session", 0)]
       \/ /\ p \in Sessions /\ (p \in delayed \/ stripe[p] = "failed")
          /\ request' = [request EXCEPT ![k] = Event(p, "status", Status(p))]
       \/ /\ p \in Windows /\ stripe[p] = "failed"
          /\ request' = [request EXCEPT ![k] = Event(p, "failed", 0)]
    /\ Concerns(p)
    /\ UNCHANGED <<balance, inFlight, creditedAt, external, acknowledged, window,
                   usages, failures, credits, applied, spoiled, dropped, logged>>

\* api/usage-log with a completion: a balance that does not cover it is topped
\* up first.
Use(k) ==
    /\ At(k, "idle")
    /\ usages < MaxUsages
    /\ usages' = usages + 1
    /\ request' = [request EXCEPT ![k] =
           IF balance < SpendUsd THEN [Idle EXCEPT !.at = "begin", !.kind = "pre"]
                                 ELSE [Idle EXCEPT !.at = "debit", !.kind = "usage"]]
    /\ UNCHANGED <<balance, inFlight, creditedAt, external, acknowledged, window,
                   duplicates, failures, history, logged>>

\* updateUserBudget reads the balance that it writes back with the settings.
ReadBudget(k) ==
    /\ At(k, "idle")
    /\ usages < MaxUsages
    /\ usages' = usages + 1
    /\ request' = [request EXCEPT ![k] = [Idle EXCEPT !.at = "budget", !.kind = "budget",
                                                      !.seen = balance]]
    /\ Reads(k)
    /\ UNCHANGED <<balance, inFlight, creditedAt, external, acknowledged, window,
                   duplicates, failures, credits, applied, raced, dropped, logged>>

-----------------------------------------------------------------------------
(* triggerAutoTopUp                                                        *)

Low == AutoTopUp /\ balance <= ThresholdUsd

\* beginAutoTopUpAttempt takes the lock, which may be stale in the next window.
BeginAttempt(k) ==
    /\ At(k, "begin")
    /\ Low /\ (inFlight = 0 \/ inFlight < window)
    /\ inFlight' = window
    /\ Goto(k, "create")
    /\ UNCHANGED <<balance, creditedAt, external, acknowledged, window, bounds,
                   history, logged>>

\* There is nothing to top up, or an attempt is in flight.
SkipAttempt(k) ==
    /\ At(k, "begin")
    /\ ~Low \/ (inFlight # 0 /\ window - inFlight <= 1)
    /\ Leave(k)
    /\ UNCHANGED <<balance, inFlight, creditedAt, external, acknowledged, window,
                   bounds, history, logged>>

\* paymentIntents.create: Stripe charges once for an idempotency key and repeats
\* its first answer for it. The answer may not arrive.
CreateIntent(k) ==
    /\ At(k, "create")
    /\ IF answer[window] = "none"
       THEN \E outcome \in {"paid", "pending", "failed"} :
                /\ answer' = [answer EXCEPT ![window] = outcome]
                /\ stripe' = [stripe EXCEPT ![window] = outcome]
       ELSE UNCHANGED <<answer, stripe>>
    /\ \/ /\ answer'[window] # "failed"
          /\ request' = [request EXCEPT ![k] = [@ EXCEPT !.at = "record", !.payment = window]]
       \/ Goto(k, "finish")
    /\ UNCHANGED <<balance, inFlight, creditedAt, delayed, acknowledged, window,
                   bounds, history, logged>>

\* Faulty: credits whatever Stripe answered.
RecordIntent_Unpaid(k) ==
    LET p == request[k].payment IN
    /\ At(k, "record")
    /\ creditedAt' = [creditedAt EXCEPT ![p] = FALSE]
    /\ Goto(k, "session")
    /\ UNCHANGED <<balance, inFlight, external, acknowledged, window, bounds,
                   history, logged>>

\* The payment is recorded as not credited yet, and credited if it was made.
RecordIntent(k) ==
    LET p == request[k].payment IN
    /\ At(k, "record")
    /\ creditedAt' = [creditedAt EXCEPT ![p] = FALSE]
    /\ Goto(k, IF answer[p] = "paid" THEN "session" ELSE "finish")
    /\ UNCHANGED <<balance, inFlight, external, acknowledged, window, bounds,
                   history, logged>>

\* finishAutoTopUpAttempt releases the lock, whoever holds it.
FinishAttempt(k) ==
    /\ At(k, "finish")
    /\ inFlight' = 0
    /\ Leave(k)
    /\ UNCHANGED <<balance, creditedAt, external, acknowledged, window, bounds,
                   history, logged>>

-----------------------------------------------------------------------------
(* creditStripePayment and the other events                                *)

\* The event is answered with 200.
Acknowledge(k) ==
    acknowledged' = IF request[k].kind = "event"
                    THEN acknowledged \cup {request[k].payment} ELSE acknowledged

\* Faulty: does not look whether the payment was credited.
ReadPayment_Always(k) ==
    /\ At(k, "session")
    /\ Goto(k, "user")
    /\ UNCHANGED <<balance, inFlight, creditedAt, external, acknowledged, window,
                   bounds, history, logged>>

\* A payment that was credited is not credited again.
ReadPayment(k) ==
    /\ At(k, "session")
    /\ IF creditedAt[request[k].payment]
       THEN Leave(k) /\ Acknowledge(k)
       ELSE Goto(k, "user") /\ UNCHANGED acknowledged
    /\ UNCHANGED <<balance, inFlight, creditedAt, external, window, bounds,
                   history, logged>>

ReadUser(k) ==
    /\ At(k, "user")
    /\ Saw(k, "mark", balance) /\ Reads(k)
    /\ UNCHANGED <<balance, inFlight, creditedAt, external, acknowledged, window,
                   bounds, credits, applied, raced, dropped, logged>>

MarkCredited(k) ==
    /\ At(k, "mark")
    /\ creditedAt' = [creditedAt EXCEPT ![request[k].payment] = TRUE]
    /\ Goto(k, "apply")
    /\ UNCHANGED <<balance, inFlight, external, acknowledged, window, bounds,
                   history, logged>>

\* The new balance, from the one that was read. A top-up releases its lock.
ApplyCredit(k) ==
    LET p == request[k].payment IN
    /\ At(k, "apply")
    /\ balance' = request[k].seen + Amount(p)
    /\ inFlight' = IF p \in Windows THEN 0 ELSE inFlight
    /\ credits' = [credits EXCEPT ![p] = @ + 1]
    /\ applied' = applied + Amount(p)
    /\ Leave(k) /\ Acknowledge(k)
    /\ UNCHANGED <<creditedAt, external, window, bounds, mishaps, logged>>

\* Faulty: stamps the session that it records.
WriteStatus_Stamps(k) ==
    /\ At(k, "status")
    /\ creditedAt' = [creditedAt EXCEPT ![request[k].payment] = TRUE]
    /\ Leave(k)
    /\ UNCHANGED <<balance, inFlight, external, acknowledged, window, bounds,
                   history, logged>>

\* upsertSessionStatus writes the creditedAt that it read.
WriteStatus(k) ==
    /\ At(k, "status")
    /\ creditedAt' = [creditedAt EXCEPT ![request[k].payment] = (request[k].seen = 1)]
    /\ Leave(k)
    /\ UNCHANGED <<balance, inFlight, external, acknowledged, window, bounds,
                   history, logged>>

\* markAutoTopUpFailed records the payment, and then finishes the attempt.
WriteFailed(k) ==
    /\ At(k, "failed")
    /\ creditedAt' = [creditedAt EXCEPT ![request[k].payment] = FALSE]
    /\ Goto(k, "finish")
    /\ UNCHANGED <<balance, inFlight, external, acknowledged, window, bounds,
                   history, logged>>

-----------------------------------------------------------------------------
(* insertUsageAndUpdateUser and updateUserBudget                           *)

\* Faulty: does not ask whether the balance covers the usage.
ReadBalance_Unchecked(k) ==
    /\ At(k, "debit")
    /\ Saw(k, "log", balance) /\ Reads(k)
    /\ UNCHANGED <<balance, inFlight, creditedAt, external, acknowledged, window,
                   bounds, credits, applied, raced, dropped, logged>>

\* A balance that does not cover the usage is refused (402).
ReadBalance(k) ==
    /\ At(k, "debit")
    /\ IF balance < SpendUsd THEN Leave(k) /\ UNCHANGED spoiled
                             ELSE Saw(k, "log", balance) /\ Reads(k)
    /\ UNCHANGED <<balance, inFlight, creditedAt, external, acknowledged, window,
                   bounds, credits, applied, raced, dropped, logged>>

LogUsage(k) ==
    /\ At(k, "log")
    /\ logged' = logged + 1
    /\ Goto(k, "write")
    /\ UNCHANGED <<balance, inFlight, creditedAt, external, acknowledged, window,
                   bounds, history>>

\* Faulty: logs the usage and leaves the balance alone.
WriteDebit_Free(k) ==
    /\ At(k, "write")
    /\ request' = [request EXCEPT ![k] = [Idle EXCEPT !.at = "begin", !.kind = "post"]]
    /\ UNCHANGED <<balance, inFlight, creditedAt, external, acknowledged, window,
                   bounds, history, logged>>

\* The new balance, from the one that was read; then a top-up is considered.
\* The Math.max(0, ...) of store.js:685 is left out: what was read covers the
\* usage, or TypeOK would not hold.
WriteDebit(k) ==
    /\ At(k, "write")
    /\ balance' = request[k].seen - SpendUsd
    /\ request' = [request EXCEPT ![k] = [Idle EXCEPT !.at = "begin", !.kind = "post"]]
    /\ UNCHANGED <<inFlight, creditedAt, external, acknowledged, window, bounds,
                   history, logged>>

WriteBudget(k) ==
    /\ At(k, "budget")
    /\ balance' = request[k].seen
    /\ Leave(k)
    /\ UNCHANGED <<inFlight, creditedAt, external, acknowledged, window, bounds,
                   history, logged>>

\* A request dies, or a statement raises: the exception handler of an attempt
\* finishes it, every other request is over.
Attempting(k) ==
    /\ request[k].kind \in {"pre", "post"}
    /\ request[k].at \in {"create", "record", "session", "user", "mark", "apply"}

Fail(k) ==
    /\ ~At(k, "idle")
    /\ failures < MaxFailures
    /\ failures' = failures + 1
    /\ \/ request' = [request EXCEPT ![k] = Idle]
       \/ Attempting(k) /\ Goto(k, "finish")
    /\ spoiled' = (spoiled \/ At(k, "write"))
    /\ dropped' = IF At(k, "apply") THEN dropped \cup {request[k].payment} ELSE dropped
    /\ UNCHANGED <<balance, inFlight, creditedAt, external, acknowledged, window,
                   usages, duplicates, credits, applied, raced, logged>>

-----------------------------------------------------------------------------
\* A request that has begun goes on.
Step(k) ==
    \/ BeginAttempt(k) \/ SkipAttempt(k) \/ CreateIntent(k) \/ RecordIntent(k)
    \/ FinishAttempt(k)
    \/ ReadPayment(k) \/ ReadUser(k) \/ MarkCredited(k) \/ ApplyCredit(k)
    \/ WriteStatus(k) \/ WriteFailed(k)
    \/ ReadBalance(k) \/ LogUsage(k) \/ WriteDebit(k) \/ WriteBudget(k)

Next ==
    \/ \E s \in Sessions : Checkout(s)
    \/ \E p \in Payments : Clear(p) \/ Deliver(p)
    \/ \E k \in Workers, p \in Payments : DeliverAgain(k, p)
    \/ \E k \in Workers : Use(k) \/ ReadBudget(k) \/ Step(k) \/ Fail(k)
    \/ NextWindow

\* Requests are served, and Stripe delivers an event until it is acknowledged.
Spec ==
    /\ Init /\ [][Next]_vars
    /\ \A k \in Workers : WF_vars(Step(k))
    /\ \A p \in Payments : WF_vars(Deliver(p))

-----------------------------------------------------------------------------
Places == {"idle", "begin", "create", "record", "session", "user", "mark", "apply",
           "finish", "debit", "log", "write", "status", "failed", "budget"}

Kinds == {"none", "event", "pre", "post", "usage", "budget"}

Request == [at : Places, kind : Kinds, payment : Payments \cup {NoPayment}, seen : Nat]

\* Balances, dates and requests have their types, and the balance is never
\* negative, although debits and credits write what they computed earlier.
TypeOK ==
    /\ balance \in Nat /\ inFlight \in 0..MaxWindow
    /\ creditedAt \in [Payments -> BOOLEAN]
    /\ request \in [Workers -> Request]
    /\ stripe \in [Payments -> {"none", "open", "pending", "paid", "failed"}]
    /\ answer \in [Windows -> {"none", "pending", "paid", "failed"}]
    /\ delayed \subseteq Sessions /\ acknowledged \subseteq Payments
    /\ window \in Windows
    /\ usages \in 0..MaxUsages /\ duplicates \in 0..MaxDuplicates
    /\ failures \in 0..MaxFailures
    /\ credits \in [Payments -> Nat] /\ applied \in Nat /\ logged \in Nat
    /\ raced \subseteq Sessions /\ spoiled \in BOOLEAN /\ dropped \subseteq Payments

\* Credits are only ever given for a payment that Stripe has received, in
\* whatever order events, answers and repeated requests arrive.
OnlyPaidCredited == \A p \in Payments : creditedAt[p] \/ credits[p] > 0 => stripe[p] = "paid"

\* store.js:659 and 927: debits, credits and budgets write balances that they
\* compute from what they have read. At rest the balance is what was credited
\* less what was used, whatever else overlaps or fails, unless two of them ever
\* had read it at once, or a request died between its log and its debit.
BalanceMatches ==
    ~spoiled /\ (\A k \in Workers : At(k, "idle")) => balance = applied - SpendUsd * logged

\* store.js:923, a payment that has its creditedAt is not credited again,
\* whatever events of it come late or twice, and whatever else overlaps or
\* fails, unless two requests about the session ever overlapped.
SessionCreditedOnce == \A s \in Sessions \ raced : credits[s] <= 1

\* ProductDashboard.js:1015, "Your credits will appear after Stripe confirms
\* the webhook.": a payment that was made is added to the balance, whatever
\* overlaps or fails, unless the request that had marked it died.
PaidIsCredited == \A p \in Payments : stripe[p] = "paid" ~> credits[p] > 0 \/ p \in dropped
===============================================================================
