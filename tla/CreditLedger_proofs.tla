-------------------------- MODULE CreditLedger_proofs --------------------------
(* The credits of a user for any number of workers, payments and failures. *)
EXTENDS CreditLedger, TLAPS

\* What a request under way relies on: a debit has read a balance that covers
\* it, a request about to credit a payment works on one that was made, and an
\* event writes back a creditedAt that was there.
SoundIn(r, st) ==
    /\ r.at \in {"log", "write"} => r.seen >= SpendUsd
    /\ r.at \in {"record", "failed"} => r.payment \in Windows
    /\ r.at \in {"session", "user", "mark", "apply"} =>
           r.payment \in Payments /\ st[r.payment] = "paid"
    /\ r.at = "status" => r.payment \in Payments /\ (r.seen = 1 => st[r.payment] = "paid")
    /\ r.kind = "event" => r.payment \in Payments

Sound == \A k \in Workers : SoundIn(request[k], stripe)

\* The answer that Stripe repeats for a window is about the window's payment.
Answered ==
    \A w \in Windows : /\ answer[w] = "none" => stripe[w] = "none"
                       /\ answer[w] = "paid" => stripe[w] = "paid"

Consistent == Answered /\ Sound

-----------------------------------------------------------------------------
(* Types.                                                                  *)

LEMMA Parameters ==
    /\ Sessions \cap Windows = {} /\ NoPayment \notin Payments
    /\ Windows \subseteq Nat \ {0} /\ Windows \subseteq Payments /\ Sessions \subseteq Payments
    /\ 1 \in Windows /\ Windows = 1..MaxWindow /\ MaxWindow \in Nat
    /\ TopUpUsd \in Nat /\ SessionUsd \in Nat /\ SpendUsd \in Nat
    /\ MaxUsages \in Nat /\ MaxDuplicates \in Nat /\ MaxFailures \in Nat
BY LedgerAssumption DEF Windows, Payments

MishapsOK == raced \subseteq Sessions /\ spoiled \in BOOLEAN /\ dropped \subseteq Payments

LEMMA TypeInit == Init => TypeOK
<1> SUFFICES ASSUME Init
             PROVE  TypeOK
  OBVIOUS
<1>1. request \in [Workers -> Request]
  BY DEF Init, Idle, Request, Places, Kinds
<1>2. spoiled \in BOOLEAN
  BY DEF Init
<1> QED
  BY <1>1, <1>2, Parameters DEF Init, TypeOK

\* The requests keep their type when one of them is replaced by another.
LEMMA ReplaceType ==
    ASSUME request \in [Workers -> Request], NEW k \in Workers, NEW r \in Request
    PROVE  [request EXCEPT ![k] = r] \in [Workers -> Request]
OBVIOUS

LEMMA GotoType ==
    ASSUME request \in [Workers -> Request], NEW k \in Workers, NEW l \in Places, Goto(k, l)
    PROVE  request' \in [Workers -> Request]
BY DEF Goto, Request

LEMMA SawType ==
    ASSUME request \in [Workers -> Request], NEW k \in Workers, NEW l \in Places,
           NEW v \in Nat, Saw(k, l, v)
    PROVE  request' \in [Workers -> Request]
BY DEF Saw, Request

LEMMA LeaveType ==
    ASSUME request \in [Workers -> Request], NEW k \in Workers, Leave(k)
    PROVE  request' \in [Workers -> Request]
<1>1. Left(k) \in Request
  BY DEF Left, Idle, Request, Places, Kinds
<1> QED
  BY <1>1 DEF Leave

LEMMA EventType ==
    ASSUME NEW p \in Payments, NEW at \in Places, NEW seen \in Nat
    PROVE  Event(p, at, seen) \in Request
BY DEF Event, Request, Kinds

LEMMA AmountType == \A p \in Payments : Amount(p) \in Nat
BY Parameters DEF Amount

LEMMA CountType ==
    ASSUME NEW c \in [Payments -> Nat], NEW p \in Payments
    PROVE  [c EXCEPT ![p] = @ + 1] \in [Payments -> Nat]
OBVIOUS

LEMMA UsageType ==
    /\ [Idle EXCEPT !.at = "begin", !.kind = "pre"] \in Request
    /\ [Idle EXCEPT !.at = "debit", !.kind = "usage"] \in Request
BY DEF Idle, Request, Places, Kinds

LEMMA SpendType ==
    ASSUME TypeOK, MishapsOK', usages < MaxUsages, usages' = usages + 1,
           request' \in [Workers -> Request],
           UNCHANGED <<balance, inFlight, creditedAt, external, acknowledged, window,
                       duplicates, failures, credits, applied, logged>>
    PROVE  TypeOK'
<1>1. usages' \in 0..MaxUsages
  BY Parameters DEF TypeOK
<1> QED
  BY <1>1 DEF TypeOK, MishapsOK, external

\* What has gone wrong keeps its type.
LEMMA MishapsStep == TypeOK /\ Consistent /\ [Next]_vars => MishapsOK'
<1> SUFFICES ASSUME TypeOK, Consistent, [Next]_vars
             PROVE  MishapsOK'
  OBVIOUS
<1>1. MishapsOK
  BY DEF TypeOK, MishapsOK
<1>2. CASE UNCHANGED mishaps
  BY <1>1, <1>2 DEF MishapsOK, mishaps
<1>3. ASSUME NEW k \in Workers, Reads(k), UNCHANGED <<raced, dropped>>
      PROVE  MishapsOK'
  <2>1. spoiled' \in BOOLEAN
    BY <1>3, Zenon DEF Reads
  <2> QED
    BY <1>1, <1>3, <2>1 DEF MishapsOK
<1>4. ASSUME NEW p \in Payments, Concerns(p), UNCHANGED <<spoiled, dropped>>
      PROVE  MishapsOK'
  BY <1>1, <1>4 DEF Concerns, MishapsOK
<1>5. ASSUME NEW k \in Workers, Fail(k)
      PROVE  MishapsOK'
  <2>1. spoiled' \in BOOLEAN
    BY <1>5, Zenon DEF Fail
  <2>2. At(k, "apply") => request[k].payment \in Payments
    BY DEF Consistent, Sound, SoundIn, At
  <2> QED
    BY <1>1, <1>5, <2>1, <2>2 DEF Fail, MishapsOK
<1>6. ASSUME NEW p \in Payments, Deliver(p) \/ \E k \in Workers : DeliverAgain(k, p)
      PROVE  MishapsOK'
  BY <1>4, <1>6 DEF Deliver, DeliverAgain
<1>7. ASSUME NEW k \in Workers, ReadUser(k) \/ ReadBudget(k)
      PROVE  MishapsOK'
  BY <1>3, <1>7 DEF ReadUser, ReadBudget
<1>8. ASSUME NEW k \in Workers, ReadBalance(k)
      PROVE  MishapsOK'
  BY <1>2, <1>3, <1>8 DEF ReadBalance, mishaps
<1>9. ASSUME NEW k \in Workers, Step(k), ~ReadUser(k), ~ReadBalance(k)
      PROVE  UNCHANGED mishaps
  BY <1>9 DEF Step, BeginAttempt, SkipAttempt, CreateIntent, RecordIntent, FinishAttempt,
       ReadPayment, MarkCredited, ApplyCredit, WriteStatus, WriteFailed, LogUsage,
       WriteDebit, WriteBudget, history
<1>10. ASSUME NEW k \in Workers, Use(k)
       PROVE  UNCHANGED mishaps
  BY <1>10 DEF Use, history
<1>11. ASSUME NEW p \in Payments, Clear(p)
       PROVE  UNCHANGED mishaps
  BY <1>11 DEF Clear, history
<1>12. ASSUME NEW t \in Sessions, Checkout(t)
       PROVE  UNCHANGED mishaps
  BY <1>12 DEF Checkout, history
<1>13. CASE NextWindow \/ UNCHANGED vars
  BY <1>2, <1>13 DEF NextWindow, vars, history
<1> QED
  BY <1>2, <1>5, <1>6, <1>7, <1>8, <1>9, <1>10, <1>11, <1>12, <1>13 DEF Next

LEMMA TypeStep == TypeOK /\ Consistent /\ [Next]_vars => TypeOK'
<1> SUFFICES ASSUME TypeOK, Consistent, [Next]_vars
             PROVE  TypeOK'
  OBVIOUS
<1>m. MishapsOK'
  BY MishapsStep
<1> USE Parameters, <1>m DEF MishapsOK
<1>0. /\ request \in [Workers -> Request] /\ balance \in Nat
      /\ creditedAt \in [Payments -> BOOLEAN]
  BY DEF TypeOK
<1>2. ASSUME NEW s \in Sessions, Checkout(s) PROVE TypeOK'
  BY <1>2 DEF Checkout, TypeOK, history, bounds
<1>3. ASSUME NEW p \in Payments, Clear(p) PROVE TypeOK'
  BY <1>3 DEF Clear, TypeOK, history, bounds
<1>4. ASSUME NEW p \in Payments, Deliver(p) PROVE TypeOK'
  <2>1. Event(p, "session", 0) \in Request
    BY EventType DEF Places
  <2>2. request' \in [Workers -> Request]
    BY <1>4, <1>0, <2>1, ReplaceType DEF Deliver
  <2> QED
    BY <1>4, <2>2 DEF Deliver, TypeOK, history, bounds, external
<1>5. ASSUME NEW k \in Workers, NEW p \in Payments, DeliverAgain(k, p) PROVE TypeOK'
  <2>1. /\ Event(p, "session", 0) \in Request /\ Event(p, "failed", 0) \in Request
        /\ Event(p, "status", Status(p)) \in Request
    BY EventType DEF Places, Status
  <2>2. request' \in [Workers -> Request]
    BY <1>5, <1>0, <2>1, ReplaceType DEF DeliverAgain
  <2> QED
    BY <1>5, <2>2 DEF DeliverAgain, TypeOK, history, bounds, external
<1>6. ASSUME NEW k \in Workers, Use(k) PROVE TypeOK'
  <2>1. request' \in [Workers -> Request]
    <3>1. PICK r \in {[Idle EXCEPT !.at = "begin", !.kind = "pre"],
                      [Idle EXCEPT !.at = "debit", !.kind = "usage"]} :
             request' = [request EXCEPT ![k] = r]
      BY <1>6 DEF Use
    <3>2. r \in Request
      BY UsageType
    <3> QED
      BY <1>0, <3>1, <3>2, ReplaceType, Zenon
  <2> QED
    BY <1>6, <2>1, SpendType DEF Use, history
<1>7. ASSUME NEW k \in Workers, ReadBudget(k) PROVE TypeOK'
  <2>1. request' \in [Workers -> Request]
    BY <1>7, <1>0 DEF ReadBudget, Idle, Request, Places, Kinds
  <2> QED
    BY <1>7, <2>1, SpendType DEF ReadBudget
<1>8. ASSUME NEW k \in Workers, BeginAttempt(k) PROVE TypeOK'
  <2>1. request' \in [Workers -> Request]
    BY <1>8, <1>0, GotoType DEF BeginAttempt, Places
  <2> QED
    BY <1>8, <2>1 DEF BeginAttempt, TypeOK, history, bounds, external
<1>9. ASSUME NEW k \in Workers, SkipAttempt(k) PROVE TypeOK'
  <2>1. request' \in [Workers -> Request]
    BY <1>9, <1>0, LeaveType DEF SkipAttempt
  <2> QED
    BY <1>9, <2>1 DEF SkipAttempt, TypeOK, history, bounds, external
<1>10. ASSUME NEW k \in Workers, CreateIntent(k) PROVE TypeOK'
  <2>1. request' \in [Workers -> Request]
    <3>1. window \in Payments
      BY DEF TypeOK
    <3>2. CASE Goto(k, "finish")
      BY <3>2, <1>0, GotoType DEF Places
    <3>3. CASE request' = [request EXCEPT ![k] = [@ EXCEPT !.at = "record", !.payment = window]]
      <4>1. [request[k] EXCEPT !.at = "record", !.payment = window] \in Request
        BY <3>1, <1>0 DEF Request, Places
      <4> QED
        BY <3>3, <4>1, <1>0
    <3> QED
      BY <3>2, <3>3, <1>10 DEF CreateIntent
  <2>2. /\ stripe' \in [Payments -> {"none", "open", "pending", "paid", "failed"}]
        /\ answer' \in [Windows -> {"none", "pending", "paid", "failed"}]
    BY <1>10 DEF CreateIntent, TypeOK
  <2> QED
    BY <1>10, <2>1, <2>2 DEF CreateIntent, TypeOK, history, bounds
<1>11. ASSUME NEW k \in Workers, RecordIntent(k) PROVE TypeOK'
  <2>1. request' \in [Workers -> Request]
    BY <1>11, <1>0, GotoType DEF RecordIntent, Places
  <2> QED
    BY <1>11, <2>1 DEF RecordIntent, TypeOK, history, bounds, external
<1>12. ASSUME NEW k \in Workers, FinishAttempt(k) PROVE TypeOK'
  <2>1. request' \in [Workers -> Request]
    BY <1>12, <1>0, LeaveType DEF FinishAttempt
  <2> QED
    BY <1>12, <2>1 DEF FinishAttempt, TypeOK, history, bounds, external
<1>13. ASSUME NEW k \in Workers, ReadPayment(k) PROVE TypeOK'
  <2>1. request' \in [Workers -> Request]
    BY <1>13, <1>0, GotoType, LeaveType DEF ReadPayment, Places
  <2>2. request[k].payment \in Payments
    BY <1>13 DEF ReadPayment, At, Consistent, Sound, SoundIn
  <2>3. acknowledged' = acknowledged \/ Acknowledge(k)
    BY <1>13 DEF ReadPayment
  <2>4. acknowledged' \subseteq Payments
    BY <2>2, <2>3 DEF Acknowledge, TypeOK
  <2> QED
    BY <1>13, <2>1, <2>4 DEF ReadPayment, TypeOK, history, bounds, external
<1>14. ASSUME NEW k \in Workers, ReadUser(k) PROVE TypeOK'
  <2>1. request' \in [Workers -> Request]
    BY <1>14, <1>0, SawType DEF ReadUser, Places
  <2> QED
    BY <1>14, <2>1 DEF ReadUser, TypeOK, history, bounds, external
<1>15. ASSUME NEW k \in Workers, MarkCredited(k) PROVE TypeOK'
  <2>1. request' \in [Workers -> Request]
    BY <1>15, <1>0, GotoType DEF MarkCredited, Places
  <2> QED
    BY <1>15, <2>1 DEF MarkCredited, TypeOK, history, bounds, external
<1>16. ASSUME NEW k \in Workers, ApplyCredit(k) PROVE TypeOK'
  <2>1. request' \in [Workers -> Request]
    BY <1>16, <1>0, LeaveType DEF ApplyCredit
  <2>2. request[k].payment \in Payments /\ request[k].seen \in Nat
    BY <1>16, <1>0 DEF ApplyCredit, At, Consistent, Sound, SoundIn, Request
  <2>3. acknowledged' \subseteq Payments
    BY <1>16, <2>2 DEF ApplyCredit, Acknowledge, TypeOK
  <2>4. balance' \in Nat /\ applied' \in Nat /\ credits' \in [Payments -> Nat]
    <3>1. Amount(request[k].payment) \in Nat
      BY <2>2, AmountType
    <3>2. /\ balance' = request[k].seen + Amount(request[k].payment)
          /\ applied' = applied + Amount(request[k].payment)
          /\ credits' = [credits EXCEPT ![request[k].payment] = @ + 1]
      BY <1>16 DEF ApplyCredit
    <3>3. applied \in Nat /\ credits \in [Payments -> Nat]
      BY DEF TypeOK
    <3>4. balance' \in Nat /\ applied' \in Nat
      BY <2>2, <3>1, <3>2, <3>3
    <3>5. credits' \in [Payments -> Nat]
      BY <2>2, <3>2, <3>3, CountType
    <3> QED
      BY <3>4, <3>5
  <2> QED
    BY <1>16, <2>1, <2>3, <2>4 DEF ApplyCredit, TypeOK, bounds, external
<1>17. ASSUME NEW k \in Workers, WriteStatus(k) PROVE TypeOK'
  <2>1. request' \in [Workers -> Request]
    BY <1>17, <1>0, LeaveType DEF WriteStatus
  <2> QED
    BY <1>17, <2>1 DEF WriteStatus, TypeOK, history, bounds, external
<1>18. ASSUME NEW k \in Workers, WriteFailed(k) PROVE TypeOK'
  <2>1. request' \in [Workers -> Request]
    BY <1>18, <1>0, GotoType DEF WriteFailed, Places
  <2> QED
    BY <1>18, <2>1 DEF WriteFailed, TypeOK, history, bounds, external
<1>19. ASSUME NEW k \in Workers, ReadBalance(k) PROVE TypeOK'
  <2>1. request' \in [Workers -> Request]
    BY <1>19, <1>0, LeaveType, SawType DEF ReadBalance, Places
  <2> QED
    BY <1>19, <2>1 DEF ReadBalance, TypeOK, history, bounds, external
<1>20. ASSUME NEW k \in Workers, LogUsage(k) PROVE TypeOK'
  <2>1. request' \in [Workers -> Request]
    BY <1>20, <1>0, GotoType DEF LogUsage, Places
  <2> QED
    BY <1>20, <2>1 DEF LogUsage, TypeOK, history, bounds, external
<1>21. ASSUME NEW k \in Workers, WriteDebit(k) PROVE TypeOK'
  <2>1. request' \in [Workers -> Request]
    BY <1>21, <1>0 DEF WriteDebit, Idle, Request, Places, Kinds
  <2>2. balance' \in Nat
    BY <1>21, <1>0 DEF WriteDebit, At, Consistent, Sound, SoundIn, Request
  <2> QED
    BY <1>21, <2>1, <2>2 DEF WriteDebit, TypeOK, history, bounds, external
<1>22. ASSUME NEW k \in Workers, WriteBudget(k) PROVE TypeOK'
  <2>1. request' \in [Workers -> Request]
    BY <1>22, <1>0, LeaveType DEF WriteBudget
  <2>2. balance' \in Nat
    BY <1>22, <1>0 DEF WriteBudget, Request
  <2> QED
    BY <1>22, <2>1, <2>2 DEF WriteBudget, TypeOK, history, bounds, external
<1>23. ASSUME NEW k \in Workers, Fail(k) PROVE TypeOK'
  <2>1. Idle \in Request
    BY DEF Idle, Request, Places, Kinds
  <2>2. request' \in [Workers -> Request]
    BY <1>23, <1>0, <2>1, ReplaceType, GotoType DEF Fail, Places
  <2> QED
    BY <1>23, <2>2 DEF Fail, TypeOK, history, bounds, external
<1>24. ASSUME NextWindow PROVE TypeOK'
  BY <1>24 DEF NextWindow, TypeOK, history, bounds, external
<1>25. ASSUME UNCHANGED vars PROVE TypeOK'
  BY <1>25 DEF vars, TypeOK, history, bounds, external
<1> QED
  BY <1>2, <1>3, <1>4, <1>5, <1>6, <1>7, <1>8, <1>9, <1>10, <1>11, <1>12, <1>13,
     <1>14, <1>15, <1>16, <1>17, <1>18, <1>19, <1>20, <1>21, <1>22, <1>23, <1>24,
     <1>25 DEF Next, Step

-----------------------------------------------------------------------------
(* What a request relies on.                                               *)

\* A payment that was made stays made.
Stays == \A p \in Payments : stripe[p] = "paid" => stripe'[p] = "paid"

LEMMA PaidStays == TypeOK /\ Answered /\ [Next]_vars => Stays
<1> SUFFICES ASSUME TypeOK, Answered, [Next]_vars
             PROVE  Stays
  OBVIOUS
<1> USE Parameters
<1>1. stripe \in [Payments -> {"none", "open", "pending", "paid", "failed"}] /\ window \in Windows
  BY DEF TypeOK
<1>2. ASSUME NEW s \in Sessions, Checkout(s) PROVE Stays
  BY <1>1, <1>2 DEF Checkout, Stays
<1>3. ASSUME NEW p \in Payments, Clear(p) PROVE Stays
  BY <1>1, <1>3 DEF Clear, Stays
<1>4. ASSUME NEW k \in Workers, CreateIntent(k) PROVE Stays
  <2>1. answer[window] = "none" => stripe[window] # "paid"
    BY <1>1 DEF Answered
  <2> QED
    BY <1>1, <1>4, <2>1 DEF CreateIntent, Stays
<1>5. CASE UNCHANGED stripe
  BY <1>5 DEF Stays
<1>6. ASSUME NEW p \in Payments, Deliver(p) PROVE UNCHANGED stripe
  BY <1>6 DEF Deliver, external
<1>7. ASSUME NEW k \in Workers, NEW p \in Payments, DeliverAgain(k, p) PROVE UNCHANGED stripe
  BY <1>7 DEF DeliverAgain, external
<1>8. ASSUME NEW k \in Workers, Use(k) \/ ReadBudget(k) \/ Fail(k) PROVE UNCHANGED stripe
  BY <1>8 DEF Use, ReadBudget, Fail, external
<1>9. ASSUME NEW k \in Workers, Step(k), ~CreateIntent(k) PROVE UNCHANGED stripe
  BY <1>9 DEF Step, BeginAttempt, SkipAttempt, RecordIntent, FinishAttempt, ReadPayment,
       ReadUser, MarkCredited, ApplyCredit, WriteStatus, WriteFailed, ReadBalance,
       LogUsage, WriteDebit, WriteBudget, external
<1>10. CASE NextWindow \/ UNCHANGED vars
  BY <1>5, <1>10 DEF NextWindow, vars, external
<1> QED
  BY <1>2, <1>3, <1>4, <1>5, <1>6, <1>7, <1>8, <1>9, <1>10 DEF Next

\* The requests stay sound when one of them is replaced by a sound one.
LEMMA ReplaceSound ==
    ASSUME request \in [Workers -> Request], Sound, Stays, NEW k \in Workers, NEW r,
           SoundIn(r, stripe'), request' = [request EXCEPT ![k] = r]
    PROVE  Sound'
<1>1. ASSUME NEW j \in Workers, j # k PROVE SoundIn(request'[j], stripe')
  <2>1. request'[j] = request[j]
    BY <1>1
  <2>2. SoundIn(request[j], stripe)
    BY DEF Sound
  <2> QED
    BY <2>1, <2>2 DEF SoundIn, Stays
<1>2. request'[k] = r
  OBVIOUS
<1> QED
  BY <1>1, <1>2 DEF Sound

\* A place to which any request of a payment that was made can go.
LEMMA GotoSound ==
    ASSUME request \in [Workers -> Request], Sound, Stays, NEW k \in Workers, NEW l,
           SoundIn([request[k] EXCEPT !.at = l], stripe'), Goto(k, l)
    PROVE  Sound'
BY ReplaceSound DEF Goto

LEMMA SawSound ==
    ASSUME request \in [Workers -> Request], Sound, Stays, NEW k \in Workers, NEW l, NEW v,
           SoundIn([request[k] EXCEPT !.at = l, !.seen = v], stripe'), Saw(k, l, v)
    PROVE  Sound'
<1>1. request' = [request EXCEPT ![k] = [request[k] EXCEPT !.at = l, !.seen = v]]
  BY DEF Saw
<1> QED
  BY <1>1, ReplaceSound

LEMMA LeaveSound ==
    ASSUME request \in [Workers -> Request], Sound, Stays, NEW k \in Workers, Leave(k)
    PROVE  Sound'
<1>1. SoundIn(Left(k), stripe')
  BY DEF SoundIn, Left, Idle
<1> QED
  BY <1>1, ReplaceSound DEF Leave

LEMMA SoundStep == TypeOK /\ Consistent /\ OnlyPaidCredited /\ [Next]_vars => Sound'
<1> SUFFICES ASSUME TypeOK, Consistent, OnlyPaidCredited, [Next]_vars
             PROVE  Sound'
  OBVIOUS
<1> USE Parameters
<1>0. /\ request \in [Workers -> Request] /\ Sound /\ Stays
      /\ \A k \in Workers : SoundIn(request[k], stripe) /\ request[k] \in Request
  BY PaidStays DEF TypeOK, Consistent, Sound
<1>1. CASE UNCHANGED request
  BY <1>0, <1>1 DEF Sound, SoundIn, Stays
<1>2. ASSUME NEW s \in Sessions, Checkout(s) PROVE Sound'
  BY <1>1, <1>2 DEF Checkout
<1>3. ASSUME NEW p \in Payments, Clear(p) PROVE Sound'
  BY <1>1, <1>3 DEF Clear
<1>4. ASSUME NEW p \in Payments, Deliver(p) PROVE Sound'
  <2>1. stripe' = stripe /\ stripe[p] = "paid"
    BY <1>4 DEF Deliver, Due, external
  <2>2. SoundIn(Event(p, "session", 0), stripe')
    BY <2>1 DEF SoundIn, Event
  <2> QED
    BY <1>0, <1>4, <2>2, ReplaceSound DEF Deliver
<1>5. ASSUME NEW k \in Workers, NEW p \in Payments, DeliverAgain(k, p) PROVE Sound'
  <2>1. stripe' = stripe
    BY <1>5 DEF DeliverAgain, external
  <2>2. SoundIn(Event(p, "status", Status(p)), stripe')
        /\ (p \in Windows => SoundIn(Event(p, "failed", 0), stripe'))
    BY <2>1 DEF SoundIn, Event, Status, OnlyPaidCredited
  <2>3. stripe[p] = "paid" => SoundIn(Event(p, "session", 0), stripe')
    BY <2>1 DEF SoundIn, Event
  <2> QED
    BY <1>0, <1>5, <2>2, <2>3, ReplaceSound DEF DeliverAgain
<1>6. ASSUME NEW k \in Workers, Use(k) PROVE Sound'
  <2>1. /\ SoundIn([Idle EXCEPT !.at = "begin", !.kind = "pre"], stripe')
        /\ SoundIn([Idle EXCEPT !.at = "debit", !.kind = "usage"], stripe')
    BY DEF SoundIn, Idle
  <2> QED
    BY <1>0, <1>6, <2>1, ReplaceSound DEF Use
<1>7. ASSUME NEW k \in Workers, ReadBudget(k) PROVE Sound'
  <2>1. SoundIn([Idle EXCEPT !.at = "budget", !.kind = "budget", !.seen = balance], stripe')
    BY DEF SoundIn, Idle
  <2> QED
    BY <1>0, <1>7, <2>1, ReplaceSound DEF ReadBudget
<1>8. ASSUME NEW k \in Workers, BeginAttempt(k) PROVE Sound'
  <2>1. SoundIn([request[k] EXCEPT !.at = "create"], stripe')
    BY <1>0 DEF SoundIn, Request
  <2> QED
    BY <1>0, <1>8, <2>1, GotoSound DEF BeginAttempt
<1>9. ASSUME NEW k \in Workers, SkipAttempt(k) \/ FinishAttempt(k) \/ WriteStatus(k)
                                \/ WriteBudget(k)
      PROVE  Sound'
  BY <1>0, <1>9, LeaveSound DEF SkipAttempt, FinishAttempt, WriteStatus, WriteBudget
<1>10. ASSUME NEW k \in Workers, CreateIntent(k) PROVE Sound'
  <2>1. window \in Windows /\ window \in Payments
    BY DEF TypeOK
  <2>2. SoundIn([request[k] EXCEPT !.at = "record", !.payment = window], stripe')
    BY <1>0, <2>1 DEF SoundIn, Request
  <2>3. SoundIn([request[k] EXCEPT !.at = "finish"], stripe')
    BY <1>0 DEF SoundIn, Request
  <2>4. CASE Goto(k, "finish")
    BY <1>0, <2>3, <2>4, GotoSound
  <2>5. CASE request' = [request EXCEPT ![k] = [@ EXCEPT !.at = "record", !.payment = window]]
    BY <1>0, <2>2, <2>5, ReplaceSound
  <2> QED
    BY <1>10, <2>4, <2>5 DEF CreateIntent
<1>11. ASSUME NEW k \in Workers, RecordIntent(k) PROVE Sound'
  <2>1. request[k].at = "record" /\ request[k].payment \in Windows /\ stripe' = stripe
    BY <1>0, <1>11 DEF RecordIntent, At, SoundIn, external
  <2>2. answer[request[k].payment] = "paid" => stripe[request[k].payment] = "paid"
    BY <2>1 DEF Consistent, Answered
  <2>3. SoundIn([request[k] EXCEPT !.at = "finish"], stripe')
    BY <1>0, <2>1 DEF SoundIn, Request
  <2>4. answer[request[k].payment] = "paid" =>
            SoundIn([request[k] EXCEPT !.at = "session"], stripe')
    BY <1>0, <2>1, <2>2 DEF SoundIn, Request
  <2> QED
    BY <1>0, <1>11, <2>3, <2>4, GotoSound DEF RecordIntent
<1>12. ASSUME NEW k \in Workers, ReadPayment(k) PROVE Sound'
  <2>1. SoundIn([request[k] EXCEPT !.at = "user"], stripe')
    BY <1>0, <1>12 DEF ReadPayment, At, SoundIn, Request, external
  <2> QED
    BY <1>0, <1>12, <2>1, GotoSound, LeaveSound DEF ReadPayment
<1>13. ASSUME NEW k \in Workers, ReadUser(k) PROVE Sound'
  <2>1. SoundIn([request[k] EXCEPT !.at = "mark", !.seen = balance], stripe')
    BY <1>0, <1>13 DEF ReadUser, At, SoundIn, Request, external
  <2> QED
    BY <1>0, <1>13, <2>1, SawSound DEF ReadUser
<1>14. ASSUME NEW k \in Workers, MarkCredited(k) PROVE Sound'
  <2>1. SoundIn([request[k] EXCEPT !.at = "apply"], stripe')
    BY <1>0, <1>14 DEF MarkCredited, At, SoundIn, Request, external
  <2> QED
    BY <1>0, <1>14, <2>1, GotoSound DEF MarkCredited
<1>15. ASSUME NEW k \in Workers, ApplyCredit(k) PROVE Sound'
  BY <1>0, <1>15, LeaveSound DEF ApplyCredit
<1>16. ASSUME NEW k \in Workers, WriteFailed(k) PROVE Sound'
  <2>1. SoundIn([request[k] EXCEPT !.at = "finish"], stripe')
    BY <1>0 DEF SoundIn, Request
  <2> QED
    BY <1>0, <1>16, <2>1, GotoSound DEF WriteFailed
<1>17. ASSUME NEW k \in Workers, ReadBalance(k) PROVE Sound'
  <2>1. ~(balance < SpendUsd) => SoundIn([request[k] EXCEPT !.at = "log", !.seen = balance], stripe')
    BY <1>0, <1>17 DEF SoundIn, Request, TypeOK
  <2> QED
    BY <1>0, <1>17, <2>1, LeaveSound, SawSound DEF ReadBalance
<1>18. ASSUME NEW k \in Workers, LogUsage(k) PROVE Sound'
  <2>1. SoundIn([request[k] EXCEPT !.at = "write"], stripe')
    BY <1>0, <1>18 DEF LogUsage, At, SoundIn, Request
  <2> QED
    BY <1>0, <1>18, <2>1, GotoSound DEF LogUsage
<1>19. ASSUME NEW k \in Workers, WriteDebit(k) PROVE Sound'
  <2>1. SoundIn([Idle EXCEPT !.at = "begin", !.kind = "post"], stripe')
    BY DEF SoundIn, Idle
  <2> QED
    BY <1>0, <1>19, <2>1, ReplaceSound DEF WriteDebit
<1>20. ASSUME NEW k \in Workers, Fail(k) PROVE Sound'
  <2>1. SoundIn(Idle, stripe')
    BY DEF SoundIn, Idle
  <2>2. SoundIn([request[k] EXCEPT !.at = "finish"], stripe')
    BY <1>0 DEF SoundIn, Request
  <2> QED
    BY <1>0, <1>20, <2>1, <2>2, ReplaceSound, GotoSound DEF Fail
<1>21. CASE NextWindow \/ UNCHANGED vars
  BY <1>1, <1>21 DEF NextWindow, vars
<1> QED
  BY <1>2, <1>3, <1>4, <1>5, <1>6, <1>7, <1>8, <1>9, <1>10, <1>11, <1>12, <1>13,
     <1>14, <1>15, <1>16, <1>17, <1>18, <1>19, <1>20, <1>21 DEF Next, Step

LEMMA AnsweredStep == TypeOK /\ Answered /\ [Next]_vars => Answered'
<1> SUFFICES ASSUME TypeOK, Answered, [Next]_vars
             PROVE  Answered'
  OBVIOUS
<1> USE Parameters
<1>1. /\ stripe \in [Payments -> {"none", "open", "pending", "paid", "failed"}]
      /\ answer \in [Windows -> {"none", "pending", "paid", "failed"}] /\ window \in Windows
  BY DEF TypeOK
<1>2. ASSUME NEW s \in Sessions, Checkout(s) PROVE Answered'
  BY <1>1, <1>2 DEF Checkout, Answered
<1>3. ASSUME NEW p \in Payments, Clear(p) PROVE Answered'
  BY <1>1, <1>3 DEF Clear, Answered
<1>4. ASSUME NEW k \in Workers, CreateIntent(k) PROVE Answered'
  BY <1>1, <1>4 DEF CreateIntent, Answered
<1>5. CASE UNCHANGED <<stripe, answer>>
  BY <1>5 DEF Answered
<1>6. ASSUME NEW p \in Payments, Deliver(p) PROVE UNCHANGED <<stripe, answer>>
  BY <1>6 DEF Deliver, external
<1>7. ASSUME NEW k \in Workers, NEW p \in Payments, DeliverAgain(k, p)
      PROVE  UNCHANGED <<stripe, answer>>
  BY <1>7 DEF DeliverAgain, external
<1>8. ASSUME NEW k \in Workers, Use(k) \/ ReadBudget(k) \/ Fail(k)
      PROVE  UNCHANGED <<stripe, answer>>
  BY <1>8 DEF Use, ReadBudget, Fail, external
<1>9. ASSUME NEW k \in Workers, Step(k), ~CreateIntent(k)
      PROVE  UNCHANGED <<stripe, answer>>
  BY <1>9 DEF Step, BeginAttempt, SkipAttempt, RecordIntent, FinishAttempt, ReadPayment,
       ReadUser, MarkCredited, ApplyCredit, WriteStatus, WriteFailed, ReadBalance,
       LogUsage, WriteDebit, WriteBudget, external
<1>10. CASE NextWindow \/ UNCHANGED vars
  BY <1>5, <1>10 DEF NextWindow, vars, external
<1> QED
  BY <1>2, <1>3, <1>4, <1>5, <1>6, <1>7, <1>8, <1>9, <1>10 DEF Next

-----------------------------------------------------------------------------
(* Only payments that were made are credited.                              *)

LEMMA OnlyPaidStep == TypeOK /\ Consistent /\ OnlyPaidCredited /\ [Next]_vars => OnlyPaidCredited'
<1> SUFFICES ASSUME TypeOK, Consistent, OnlyPaidCredited, [Next]_vars
             PROVE  OnlyPaidCredited'
  OBVIOUS
<1> USE Parameters
<1>0. /\ Stays /\ \A k \in Workers : SoundIn(request[k], stripe)
      /\ creditedAt \in [Payments -> BOOLEAN] /\ credits \in [Payments -> Nat]
  BY PaidStays DEF TypeOK, Consistent, Sound
<1>1. CASE UNCHANGED <<creditedAt, credits>>
  BY <1>0, <1>1 DEF OnlyPaidCredited, Stays
<1>2. ASSUME NEW k \in Workers, RecordIntent(k) \/ WriteFailed(k) PROVE OnlyPaidCredited'
  BY <1>0, <1>2 DEF RecordIntent, WriteFailed, OnlyPaidCredited, Stays, history
<1>3. ASSUME NEW k \in Workers, MarkCredited(k) PROVE OnlyPaidCredited'
  <2>1. stripe[request[k].payment] = "paid"
    BY <1>0, <1>3 DEF MarkCredited, At, SoundIn
  <2> QED
    BY <1>0, <1>3, <2>1 DEF MarkCredited, OnlyPaidCredited, Stays, history
<1>4. ASSUME NEW k \in Workers, ApplyCredit(k) PROVE OnlyPaidCredited'
  <2>1. stripe[request[k].payment] = "paid"
    BY <1>0, <1>4 DEF ApplyCredit, At, SoundIn
  <2>2. /\ creditedAt' = creditedAt
        /\ credits' = [credits EXCEPT ![request[k].payment] = @ + 1]
    BY <1>4 DEF ApplyCredit
  <2>3. \A p \in Payments : p # request[k].payment => credits'[p] = credits[p]
    BY <1>0, <2>2
  <2> QED
    BY <1>0, <2>1, <2>2, <2>3 DEF OnlyPaidCredited, Stays
<1>5. ASSUME NEW k \in Workers, WriteStatus(k) PROVE OnlyPaidCredited'
  <2>1. request[k].seen = 1 => stripe[request[k].payment] = "paid"
    BY <1>0, <1>5 DEF WriteStatus, At, SoundIn
  <2> QED
    BY <1>0, <1>5, <2>1 DEF WriteStatus, OnlyPaidCredited, Stays, history
<1>6. ASSUME NEW k \in Workers, Step(k), ~RecordIntent(k), ~WriteFailed(k),
             ~MarkCredited(k), ~ApplyCredit(k), ~WriteStatus(k)
      PROVE  UNCHANGED <<creditedAt, credits>>
  BY <1>6 DEF Step, BeginAttempt, SkipAttempt, CreateIntent, FinishAttempt, ReadPayment,
       ReadUser, ReadBalance, LogUsage, WriteDebit, WriteBudget, history
<1>7. ASSUME NEW k \in Workers, Use(k) \/ ReadBudget(k) \/ Fail(k)
      PROVE  UNCHANGED <<creditedAt, credits>>
  BY <1>7 DEF Use, ReadBudget, Fail, history
<1>8. ASSUME NEW k \in Workers, NEW p \in Payments, DeliverAgain(k, p)
      PROVE  UNCHANGED <<creditedAt, credits>>
  BY <1>8 DEF DeliverAgain, history
<1>9. ASSUME NEW p \in Payments, Clear(p) \/ Deliver(p)
      PROVE  UNCHANGED <<creditedAt, credits>>
  BY <1>9 DEF Clear, Deliver, history
<1>10. ASSUME NEW s \in Sessions, Checkout(s) PROVE UNCHANGED <<creditedAt, credits>>
  BY <1>10 DEF Checkout, history
<1>11. CASE NextWindow \/ UNCHANGED vars
  BY <1>1, <1>11 DEF NextWindow, vars, history
<1> QED
  BY <1>1, <1>2, <1>3, <1>4, <1>5, <1>6, <1>7, <1>8, <1>9, <1>10, <1>11 DEF Next

-----------------------------------------------------------------------------
Inv == TypeOK /\ Consistent /\ OnlyPaidCredited

LEMMA InitInv == Init => Inv
<1> SUFFICES ASSUME Init
             PROVE  Consistent /\ OnlyPaidCredited
  BY TypeInit DEF Inv
<1>1. Consistent
  BY Parameters DEF Init, Consistent, Answered, Sound, SoundIn, Idle
<1>2. OnlyPaidCredited
  BY DEF Init, OnlyPaidCredited
<1> QED
  BY <1>1, <1>2

LEMMA InvStep == Inv /\ [Next]_vars => Inv'
BY TypeStep, SoundStep, AnsweredStep, OnlyPaidStep DEF Inv, Consistent

\* store.js and the routes of api/billing, with requests in any order and
\* failing anywhere: the stored state keeps its types, and a balance never goes
\* below zero although it is written from values that were read earlier.
THEOREM TypeCorrect == Spec => []TypeOK
<1>1. Inv => TypeOK
  BY DEF Inv
<1> QED
  BY InitInv, InvStep, <1>1, PTL DEF Spec

\* route.js of api/billing/webhook and autoTopUp.js: whatever events, answers,
\* repetitions and failures there are, credits are added, and a payment is
\* marked as credited, only if Stripe has received the money.
THEOREM OnlyPaidIsCredited == Spec => []OnlyPaidCredited
<1>1. Inv => OnlyPaidCredited
  BY DEF Inv
<1> QED
  BY InitInv, InvStep, <1>1, PTL DEF Spec

-----------------------------------------------------------------------------
(* The balance.                                                            *)

\* What r owes of the usage that it has logged.
OwedBy(r) == IF r.at = "write" THEN SpendUsd ELSE 0

Owed == IF \E k \in Workers : At(k, "write") THEN SpendUsd ELSE 0

\* What n usages cost.
Spent(n) == SpendUsd * n

\* The balance b is what was credited, less the usages, and what is owed.
Exact(b, c, n, o) == b = c - Spent(n) + o

\* A balance, less the credits c and the usages n that it stands for and r owes.
Net(b, c, n, r) == b - c + Spent(n) - OwedBy(r)

HoldsIn(r) == r.at \in {"mark", "apply", "log", "write", "budget"}

\* Until something spoils it, at most one request has read the balance to write
\* it, what it has read still is the balance, and the balance is what was
\* credited and not used, but for a usage that is logged and about to be debited.
BalanceInv ==
    ~spoiled =>
        /\ \A k \in Workers : Holding(k) => request[k].seen = balance
        /\ \A j, k \in Workers : Holding(j) /\ Holding(k) => j = k
        /\ Exact(balance, applied, logged, Owed)

LEMMA SpentType == \A n \in Nat : Spent(n) \in Int /\ Spent(n + 1) = Spent(n) + SpendUsd
BY Parameters DEF Spent

\* One request is replaced by x; what it adds to the balance is accounted for.
LEMMA BalanceFrame ==
    ASSUME TypeOK, TypeOK', BalanceInv, NEW k \in Workers, NEW x,
           request' = [request EXCEPT ![k] = x],
           ~spoiled' => ~spoiled,
           ~spoiled' /\ HoldsIn(x) => x.seen = balance' /\ \A j \in Workers \ {k} : ~Holding(j),
           ~spoiled' => balance' = balance \/ Holding(k),
           ~spoiled' => Net(balance', applied', logged', x)
                            = Net(balance, applied, logged, request[k])
    PROVE  BalanceInv'
<1> SUFFICES ASSUME ~spoiled'
             PROVE  /\ \A j \in Workers : Holding(j)' => request'[j].seen = balance'
                    /\ \A i, j \in Workers : Holding(i)' /\ Holding(j)' => i = j
                    /\ Exact(balance', applied', logged', Owed')
  BY DEF BalanceInv
<1> USE Parameters
<1>1. /\ \A j \in Workers : Holding(j) => request[j].seen = balance
      /\ \A i, j \in Workers : Holding(i) /\ Holding(j) => i = j
      /\ Exact(balance, applied, logged, Owed)
  BY DEF BalanceInv
<1>2. request'[k] = x /\ \A j \in Workers \ {k} : request'[j] = request[j]
  BY DEF TypeOK
<1>3. /\ Holding(k)' <=> HoldsIn(x)
      /\ \A j \in Workers \ {k} : Holding(j)' <=> Holding(j)
      /\ \A j \in Workers : At(j, "write") => Holding(j)
  BY <1>2 DEF Holding, HoldsIn, At
<1>4. \A j \in Workers : Holding(j)' => request'[j].seen = balance'
  BY <1>1, <1>2, <1>3
<1>5. \A i, j \in Workers : Holding(i)' /\ Holding(j)' => i = j
  BY <1>1, <1>3
<1>6. Owed' - OwedBy(x) = Owed - OwedBy(request[k])
  <2>1. CASE \E j \in Workers \ {k} : At(j, "write")
    <3>1. ~At(k, "write") /\ x.at # "write" /\ \E j \in Workers : At(j, "write")'
      BY <1>1, <1>2, <1>3, <2>1 DEF At, HoldsIn
    <3> QED
      BY <2>1, <3>1 DEF Owed, OwedBy, At
  <2>2. CASE \A j \in Workers \ {k} : ~At(j, "write")
    <3>1. \A j \in Workers \ {k} : ~At(j, "write")'
      BY <1>2, <2>2 DEF At
    <3>2. Owed = OwedBy(request[k])
      BY <2>2 DEF Owed, OwedBy, At
    <3>3. Owed' = OwedBy(x)
      BY <1>2, <3>1 DEF Owed, OwedBy, At
    <3> QED
      BY <3>2, <3>3 DEF OwedBy
  <2> QED
    BY <2>1, <2>2
<1>7. Exact(balance', applied', logged', Owed')
  <2>1. PICK b \in Int, c \in Int, s \in Int, b2 \in Int, c2 \in Int, s2 \in Int :
            /\ b = balance /\ c = applied /\ s = Spent(logged)
            /\ b2 = balance' /\ c2 = applied' /\ s2 = Spent(logged')
    <3>1. /\ balance \in Int /\ applied \in Int /\ logged \in Nat
          /\ balance' \in Int /\ applied' \in Int /\ logged' \in Nat
      BY DEF TypeOK
    <3>2. Spent(logged) \in Int /\ Spent(logged') \in Int
      BY <3>1, SpentType, Zenon
    <3> QED
      BY <3>1, <3>2, Zenon
  <2>2. PICK o \in Int, o2 \in Int, d \in Int, d2 \in Int :
            o = Owed /\ o2 = Owed' /\ d = OwedBy(request[k]) /\ d2 = OwedBy(x)
    <3>1. Owed \in Int /\ Owed' \in Int /\ OwedBy(request[k]) \in Int /\ OwedBy(x) \in Int
      BY DEF Owed, OwedBy
    <3> QED
      BY <3>1, Zenon
  <2>3. b2 - c2 + s2 - d2 = b - c + s - d
    BY <2>1, <2>2 DEF Net
  <2>4. o2 - d2 = o - d
    BY <1>6, <2>2
  <2>5. b = c - s + o
    BY <1>1, <2>1, <2>2 DEF Exact
  <2>6. b2 = c2 - s2 + o2
    BY <2>3, <2>4, <2>5
  <2> QED
    BY <2>1, <2>2, <2>6 DEF Exact
<1> QED
  BY <1>4, <1>5, <1>7

\* A request that has not logged a usage goes where it holds no balance.
LEMMA BalanceQuiet ==
    ASSUME TypeOK, TypeOK', BalanceInv, NEW k \in Workers, NEW x, ~HoldsIn(x),
           request' = [request EXCEPT ![k] = x],
           ~spoiled' => ~spoiled /\ ~At(k, "write"),
           UNCHANGED <<balance, applied, logged>>
    PROVE  BalanceInv'
<1>1. ~spoiled' => OwedBy(x) = 0 /\ OwedBy(request[k]) = 0
  BY DEF OwedBy, HoldsIn, At
<1>2. ~spoiled' => Net(balance', applied', logged', x) = Net(balance, applied, logged, request[k])
  BY <1>1 DEF Net
<1> QED
  BY <1>1, <1>2, BalanceFrame

\* A request reads the balance.
LEMMA BalanceRead ==
    ASSUME TypeOK, TypeOK', BalanceInv, NEW k \in Workers, NEW x,
           request' = [request EXCEPT ![k] = x], x.seen = balance, x.at # "write",
           ~At(k, "write"), Reads(k), UNCHANGED <<balance, applied, logged>>
    PROVE  BalanceInv'
<1>1. OwedBy(x) = 0 /\ OwedBy(request[k]) = 0
  BY DEF OwedBy, At
<1>2. ~spoiled' => ~spoiled /\ \A j \in Workers \ {k} : ~Holding(j)
  BY Zenon DEF Reads
<1>3. Net(balance', applied', logged', x) = Net(balance, applied, logged, request[k])
  BY <1>1 DEF Net
<1> QED
  BY <1>1, <1>2, <1>3, BalanceFrame

LEMMA GotoBalance ==
    ASSUME TypeOK, TypeOK', BalanceInv, NEW k \in Workers, NEW l, Goto(k, l),
           l \notin {"mark", "apply", "log", "write", "budget"},
           ~spoiled' => ~spoiled /\ ~At(k, "write"),
           UNCHANGED <<balance, applied, logged>>
    PROVE  BalanceInv'
<1>1. ~HoldsIn([request[k] EXCEPT !.at = l])
  BY DEF HoldsIn, TypeOK, Request
<1> QED
  BY <1>1, BalanceQuiet DEF Goto

LEMMA LeaveBalance ==
    ASSUME TypeOK, TypeOK', BalanceInv, NEW k \in Workers, Leave(k), ~At(k, "write"),
           UNCHANGED <<balance, applied, logged, spoiled>>
    PROVE  BalanceInv'
<1>1. ~HoldsIn(Left(k))
  BY DEF HoldsIn, Left, Idle
<1> QED
  BY <1>1, BalanceQuiet DEF Leave

LEMMA BalanceStep == Inv /\ BalanceInv /\ [Next]_vars => BalanceInv'
<1> SUFFICES ASSUME Inv, BalanceInv, [Next]_vars
             PROVE  BalanceInv'
  OBVIOUS
<1> DEFINE R == [Idle EXCEPT !.at = "begin", !.kind = "post"]
           Q == <<balance, applied, logged>>
<1>0. /\ TypeOK /\ TypeOK' /\ spoiled \in BOOLEAN
      /\ \A k \in Workers : request[k] \in Request
  BY InvStep DEF Inv, TypeOK
<1>h. ASSUME NEW k \in Workers, Holding(k), ~spoiled
      PROVE  request[k].seen = balance /\ \A j \in Workers \ {k} : ~Holding(j)
  BY <1>h DEF BalanceInv
<1>1. ASSUME UNCHANGED <<balance, applied, logged, request, spoiled>>
      PROVE  BalanceInv'
  BY <1>1 DEF BalanceInv, Holding, Owed, At
<1>2. ASSUME NEW s \in Sessions, Checkout(s) PROVE BalanceInv'
  BY <1>1, <1>2 DEF Checkout, history, mishaps
<1>3. ASSUME NEW p \in Payments, Clear(p) PROVE BalanceInv'
  BY <1>1, <1>3 DEF Clear, history, mishaps
<1>4. CASE NextWindow \/ UNCHANGED vars
  BY <1>1, <1>4 DEF NextWindow, vars, history, mishaps
<1>5. ASSUME NEW p \in Payments, Deliver(p) PROVE BalanceInv'
  <2>1. PICK k \in Workers : At(k, "idle") /\ request' = [request EXCEPT ![k] = Event(p, "session", 0)]
    BY <1>5 DEF Deliver
  <2>2. ~HoldsIn(Event(p, "session", 0)) /\ ~At(k, "write")
    BY <2>1 DEF HoldsIn, Event, At
  <2> QED
    BY <1>0, <1>5, <2>1, <2>2, BalanceQuiet DEF Deliver
<1>6. ASSUME NEW k \in Workers, NEW p \in Payments, DeliverAgain(k, p) PROVE BalanceInv'
  <2>1. PICK x \in {Event(p, "session", 0), Event(p, "status", Status(p)), Event(p, "failed", 0)} :
            request' = [request EXCEPT ![k] = x]
    BY <1>6 DEF DeliverAgain
  <2>2. ~HoldsIn(x) /\ ~At(k, "write")
    BY <1>6, <2>1 DEF DeliverAgain, HoldsIn, Event, At
  <2> QED
    BY <1>0, <1>6, <2>1, <2>2, BalanceQuiet DEF DeliverAgain
<1>7. ASSUME NEW k \in Workers, Use(k) PROVE BalanceInv'
  <2>1. PICK x \in {[Idle EXCEPT !.at = "begin", !.kind = "pre"],
                    [Idle EXCEPT !.at = "debit", !.kind = "usage"]} :
            request' = [request EXCEPT ![k] = x]
    BY <1>7 DEF Use
  <2>2. ~HoldsIn(x) /\ ~At(k, "write")
    BY <1>7, <2>1 DEF Use, HoldsIn, Idle, At
  <2> QED
    BY <1>0, <1>7, <2>1, <2>2, BalanceQuiet DEF Use, history, mishaps
<1>8. ASSUME NEW k \in Workers, ReadBudget(k) PROVE BalanceInv'
  <2> DEFINE x == [Idle EXCEPT !.at = "budget", !.kind = "budget", !.seen = balance]
  <2>1. x.seen = balance /\ x.at # "write" /\ ~At(k, "write")
    BY <1>8 DEF ReadBudget, Idle, At
  <2>2. request' = [request EXCEPT ![k] = x] /\ Reads(k) /\ UNCHANGED Q
    BY <1>8 DEF ReadBudget
  <2> QED
    BY <1>0, <2>1, <2>2, BalanceRead
<1>9. ASSUME NEW k \in Workers,
             BeginAttempt(k) \/ RecordIntent(k) \/ WriteFailed(k)
      PROVE  BalanceInv'
  <2>1. PICK l \in {"create", "session", "finish"} : Goto(k, l)
    BY <1>9 DEF BeginAttempt, RecordIntent, WriteFailed
  <2>2. ~At(k, "write") /\ UNCHANGED <<Q, spoiled>>
    BY <1>9 DEF BeginAttempt, RecordIntent, WriteFailed, At, history, mishaps
  <2> QED
    BY <1>0, <2>1, <2>2, GotoBalance
<1>10. ASSUME NEW k \in Workers,
              SkipAttempt(k) \/ FinishAttempt(k) \/ WriteStatus(k)
       PROVE  BalanceInv'
  <2>1. Leave(k) /\ ~At(k, "write") /\ UNCHANGED <<Q, spoiled>>
    BY <1>10 DEF SkipAttempt, FinishAttempt, WriteStatus, At, history, mishaps
  <2> QED
    BY <1>0, <2>1, LeaveBalance
<1>11. ASSUME NEW k \in Workers, CreateIntent(k) PROVE BalanceInv'
  <2>1. ~At(k, "write") /\ UNCHANGED <<Q, spoiled>>
    BY <1>11 DEF CreateIntent, At, history, mishaps
  <2>2. CASE Goto(k, "finish")
    BY <1>0, <2>1, <2>2, GotoBalance
  <2>3. CASE request' = [request EXCEPT ![k] = [@ EXCEPT !.at = "record", !.payment = window]]
    <3>1. ~HoldsIn([request[k] EXCEPT !.at = "record", !.payment = window])
      BY <1>0 DEF HoldsIn, Request
    <3> QED
      BY <1>0, <2>1, <2>3, <3>1, BalanceQuiet
  <2> QED
    BY <1>11, <2>2, <2>3 DEF CreateIntent
<1>12. ASSUME NEW k \in Workers, ReadPayment(k) PROVE BalanceInv'
  <2>1. ~At(k, "write") /\ UNCHANGED <<Q, spoiled>> /\ (Goto(k, "user") \/ Leave(k))
    BY <1>12 DEF ReadPayment, At, history, mishaps
  <2> QED
    BY <1>0, <2>1, GotoBalance, LeaveBalance
<1>13. ASSUME NEW k \in Workers, NEW l \in {"mark", "log"}, ~At(k, "write"),
              Saw(k, l, balance), Reads(k), UNCHANGED Q
       PROVE  BalanceInv'
  <2> DEFINE x == [request[k] EXCEPT !.at = l, !.seen = balance]
  <2>1. x.seen = balance /\ x.at # "write"
    BY <1>0 DEF Request
  <2>2. request' = [request EXCEPT ![k] = x]
    BY <1>13 DEF Saw
  <2> QED
    BY <1>0, <1>13, <2>1, <2>2, BalanceRead
<1>14. ASSUME NEW k \in Workers, ReadUser(k) PROVE BalanceInv'
  BY <1>13, <1>14 DEF ReadUser, At
<1>15. ASSUME NEW k \in Workers, ReadBalance(k) PROVE BalanceInv'
  <2>1. CASE Leave(k) /\ UNCHANGED spoiled
    BY <1>0, <1>15, <2>1, LeaveBalance DEF ReadBalance, At
  <2>2. CASE Saw(k, "log", balance) /\ Reads(k)
    BY <1>13, <1>15, <2>2 DEF ReadBalance, At
  <2> QED
    BY <1>15, <2>1, <2>2 DEF ReadBalance
<1>16. ASSUME NEW k \in Workers, MarkCredited(k) PROVE BalanceInv'
  <2> DEFINE x == [request[k] EXCEPT !.at = "apply"]
  <2>1. request' = [request EXCEPT ![k] = x] /\ UNCHANGED <<Q, spoiled>> /\ Holding(k)
    BY <1>16 DEF MarkCredited, Goto, At, Holding, history, mishaps
  <2>2. x.seen = request[k].seen /\ OwedBy(x) = 0 /\ OwedBy(request[k]) = 0
    BY <1>0, <1>16 DEF MarkCredited, At, OwedBy, Request
  <2>3. Net(balance', applied', logged', x) = Net(balance, applied, logged, request[k])
    BY <2>1, <2>2 DEF Net
  <2> QED
    BY <1>0, <1>h, <2>1, <2>2, <2>3, BalanceFrame
<1>17. ASSUME NEW k \in Workers, LogUsage(k) PROVE BalanceInv'
  <2> DEFINE x == [request[k] EXCEPT !.at = "write"]
  <2>1. /\ request' = [request EXCEPT ![k] = x] /\ Holding(k)
        /\ UNCHANGED <<balance, applied, spoiled>> /\ logged' = logged + 1
    BY <1>17 DEF LogUsage, Goto, At, Holding, history, mishaps
  <2>2. x.seen = request[k].seen /\ OwedBy(x) = SpendUsd /\ OwedBy(request[k]) = 0
    BY <1>0, <1>17 DEF LogUsage, At, OwedBy, Request
  <2>3. Net(balance', applied', logged', x) = Net(balance, applied, logged, request[k])
    <3>1. Spent(logged') = Spent(logged) + SpendUsd /\ Spent(logged) \in Int
      BY <1>0, <2>1, SpentType DEF TypeOK
    <3> QED
      BY <1>0, <2>1, <2>2, <3>1, Parameters DEF Net, TypeOK
  <2> QED
    BY <1>0, <1>h, <2>1, <2>2, <2>3, BalanceFrame
<1>18. ASSUME NEW k \in Workers, ApplyCredit(k) PROVE BalanceInv'
  <2>1. PICK a \in Nat : /\ balance' = request[k].seen + a
                         /\ applied' = applied + a
    BY <1>18, AmountType DEF ApplyCredit, Inv, Consistent, Sound, SoundIn, At
  <2>2. /\ request' = [request EXCEPT ![k] = Left(k)] /\ UNCHANGED <<logged, spoiled>>
        /\ Holding(k)
    BY <1>18 DEF ApplyCredit, Leave, Holding, At, history, mishaps
  <2>3. OwedBy(Left(k)) = 0 /\ OwedBy(request[k]) = 0 /\ ~HoldsIn(Left(k))
    BY <1>18 DEF ApplyCredit, Left, Idle, OwedBy, HoldsIn, At
  <2>4. ~spoiled' => Net(balance', applied', logged', Left(k))
                        = Net(balance, applied, logged, request[k])
    <3>1. Spent(logged') = Spent(logged) /\ Spent(logged) \in Int
      BY <1>0, <2>2, SpentType DEF TypeOK
    <3>2. SUFFICES ASSUME ~spoiled
                   PROVE  Net(balance', applied', logged', Left(k))
                             = Net(balance, applied, logged, request[k])
      BY <2>2
    <3>3. request[k].seen = balance
      BY <1>h, <2>2, <3>2
    <3> QED
      BY <1>0, <2>1, <2>3, <3>1, <3>3 DEF Net, TypeOK
  <2> QED
    BY <1>0, <2>2, <2>3, <2>4, BalanceFrame
<1>19. ASSUME NEW k \in Workers, WriteDebit(k) PROVE BalanceInv'
  <2>1. /\ request' = [request EXCEPT ![k] = R] /\ UNCHANGED <<applied, logged, spoiled>>
        /\ balance' = request[k].seen - SpendUsd /\ Holding(k)
    BY <1>19 DEF WriteDebit, Holding, At, history, mishaps
  <2>2. OwedBy(R) = 0 /\ OwedBy(request[k]) = SpendUsd /\ ~HoldsIn(R)
    BY <1>19 DEF WriteDebit, Idle, OwedBy, HoldsIn, At
  <2>3. ~spoiled' => Net(balance', applied', logged', R)
                        = Net(balance, applied, logged, request[k])
    <3>1. Spent(logged') = Spent(logged) /\ Spent(logged) \in Int
      BY <1>0, <2>1, SpentType DEF TypeOK
    <3>2. SUFFICES ASSUME ~spoiled
                   PROVE  Net(balance', applied', logged', R)
                             = Net(balance, applied, logged, request[k])
      BY <2>1
    <3>3. request[k].seen = balance
      BY <1>h, <2>1, <3>2
    <3>4. PICK b \in Int, c \in Int, s \in Int, u \in Int :
              b = balance /\ c = applied /\ s = Spent(logged) /\ u = SpendUsd
      BY <1>0, <3>1, Parameters DEF TypeOK
    <3>5. /\ Net(balance', applied', logged', R) = (b - u) - c + s - 0
          /\ Net(balance, applied, logged, request[k]) = b - c + s - u
      BY <2>1, <2>2, <3>1, <3>3, <3>4 DEF Net
    <3> QED
      BY <3>5
  <2> QED
    BY <1>0, <2>1, <2>2, <2>3, BalanceFrame
<1>20. ASSUME NEW k \in Workers, WriteBudget(k) PROVE BalanceInv'
  <2>1. /\ request' = [request EXCEPT ![k] = Left(k)]
        /\ UNCHANGED <<applied, logged, spoiled>>
        /\ balance' = request[k].seen /\ Holding(k)
    BY <1>20 DEF WriteBudget, Leave, Holding, At, history, mishaps
  <2>2. OwedBy(Left(k)) = 0 /\ OwedBy(request[k]) = 0 /\ ~HoldsIn(Left(k))
    BY <1>20 DEF WriteBudget, Left, Idle, OwedBy, HoldsIn, At
  <2>3. ~spoiled' => Net(balance', applied', logged', Left(k))
                        = Net(balance, applied, logged, request[k])
    BY <1>h, <2>1, <2>2 DEF Net
  <2> QED
    BY <1>0, <2>1, <2>2, <2>3, BalanceFrame
<1>21. ASSUME NEW k \in Workers, Fail(k) PROVE BalanceInv'
  <2>1. PICK x \in {Idle, [request[k] EXCEPT !.at = "finish"]} :
            request' = [request EXCEPT ![k] = x]
    BY <1>21 DEF Fail, Goto
  <2>2. ~HoldsIn(x)
    BY <1>0, <2>1 DEF HoldsIn, Idle, Request
  <2>3. ~spoiled' => ~spoiled /\ ~At(k, "write")
    BY <1>21, Zenon DEF Fail
  <2> QED
    BY <1>0, <1>21, <2>1, <2>2, <2>3, BalanceQuiet DEF Fail
<1> QED
  BY <1>2, <1>3, <1>4, <1>5, <1>6, <1>7, <1>8, <1>9, <1>10, <1>11, <1>12, <1>14, <1>15,
     <1>16, <1>17, <1>18, <1>19, <1>20, <1>21 DEF Next, Step

LEMMA BalanceInit == Init => BalanceInv
<1> SUFFICES ASSUME Init
             PROVE  BalanceInv
  OBVIOUS
<1>1. \A k \in Workers : ~Holding(k) /\ ~At(k, "write")
  BY DEF Init, Holding, At, Idle
<1>2. Exact(balance, applied, logged, Owed)
  BY <1>1, Parameters DEF Init, Exact, Owed, Spent
<1> QED
  BY <1>1, <1>2 DEF BalanceInv

\* store.js:659, 684 and 927: however many requests overlap, fail or are
\* repeated, the balance is what was credited less what was used, unless a
\* balance was read while another request had yet to write the one it had read,
\* or a request died between its log and its debit.
THEOREM BalanceIsExact == Spec => []BalanceMatches
<1>1. Inv /\ BalanceInv => BalanceMatches
  <2> SUFFICES ASSUME Inv, BalanceInv, ~spoiled, \A k \in Workers : At(k, "idle")
               PROVE  balance = applied - SpendUsd * logged
    BY DEF BalanceMatches
  <2>1. Owed = 0
    BY DEF Owed, At
  <2>2. balance = applied - Spent(logged)
    <3>1. Spent(logged) \in Int /\ applied \in Int
      BY SpentType DEF Inv, TypeOK
    <3> QED
      BY <2>1, <3>1 DEF BalanceInv, Exact
  <2> QED
    BY <2>2 DEF Spent
<1> QED
  BY InitInv, InvStep, BalanceInit, BalanceStep, <1>1, PTL DEF Spec

-----------------------------------------------------------------------------
(* The sessions.                                                           *)

\* What a request r about session s relies on, if s is marked (m) as credited
\* and was credited n times.
SessionIn(r, s, m, n) ==
    r.payment = s =>
        /\ r.at \in {"user", "mark"} => ~m
        /\ r.at = "apply" => m /\ n = 0
        /\ r.at = "status" => (r.seen = 1 <=> m)

\* One request at a time is about session s, and a session that was credited is
\* marked.
SessionInv(s) ==
    /\ credits[s] # 0 => credits[s] = 1 /\ creditedAt[s]
    /\ \A j, k \in Workers : request[j].payment = s /\ request[k].payment = s => j = k
    /\ \A k \in Workers : SessionIn(request[k], s, creditedAt[s], credits[s])

SessionsInv == \A s \in Sessions \ raced : SessionInv(s)

\* One request is replaced by x; only a request about s changes what is stored of s.
LEMMA SessionFrame ==
    ASSUME TypeOK, NEW s \in Sessions, SessionInv(s), NEW k \in Workers, NEW x,
           request' = [request EXCEPT ![k] = x],
           x.payment = s => request[k].payment = s \/ \A j \in Workers : request[j].payment # s,
           request[k].payment = s \/ (creditedAt'[s] = creditedAt[s] /\ credits'[s] = credits[s]),
           credits'[s] # 0 => credits'[s] = 1 /\ creditedAt'[s],
           SessionIn(x, s, creditedAt'[s], credits'[s])
    PROVE  SessionInv(s)'
<1>1. request'[k] = x /\ \A j \in Workers \ {k} : request'[j] = request[j]
  BY DEF TypeOK
<1>2. \A i, j \in Workers : request'[i].payment = s /\ request'[j].payment = s => i = j
  BY <1>1 DEF SessionInv
<1>3. ASSUME NEW j \in Workers
      PROVE  SessionIn(request'[j], s, creditedAt'[s], credits'[s])
  <2>1. CASE j = k
    BY <1>1, <2>1
  <2>2. CASE j # k /\ request[j].payment # s
    BY <1>1, <2>2 DEF SessionIn
  <2>3. CASE j # k /\ request[j].payment = s
    <3>1. request[k].payment # s
      BY <2>3 DEF SessionInv
    <3>2. SessionIn(request[j], s, creditedAt[s], credits[s])
      BY DEF SessionInv
    <3> QED
      BY <1>1, <2>3, <3>1, <3>2
  <2> QED
    BY <2>1, <2>2, <2>3
<1> QED
  BY <1>2, <1>3 DEF SessionInv

\* A request goes where it relies on nothing that is stored of s.
LEMMA SessionQuiet ==
    ASSUME TypeOK, NEW s \in Sessions, SessionInv(s), NEW k \in Workers, NEW x,
           request' = [request EXCEPT ![k] = x],
           x.payment = s => request[k].payment = s \/ \A j \in Workers : request[j].payment # s,
           x.payment = s => x.at \notin {"user", "mark", "apply", "status"},
           creditedAt'[s] = creditedAt[s], credits' = credits
    PROVE  SessionInv(s)'
<1>1. SessionIn(x, s, creditedAt'[s], credits'[s])
  BY DEF SessionIn
<1>2. credits'[s] # 0 => credits'[s] = 1 /\ creditedAt'[s]
  BY DEF SessionInv
<1> QED
  BY <1>1, <1>2, SessionFrame

LEMMA GotoSession ==
    ASSUME TypeOK, NEW s \in Sessions, SessionInv(s), NEW k \in Workers, NEW l, Goto(k, l),
           l \notin {"user", "mark", "apply", "status"},
           creditedAt'[s] = creditedAt[s], credits' = credits
    PROVE  SessionInv(s)'
<1>1. /\ [request[k] EXCEPT !.at = l].payment = request[k].payment
      /\ [request[k] EXCEPT !.at = l].at = l
  BY DEF TypeOK, Request
<1> QED
  BY <1>1, SessionQuiet DEF Goto

\* The request is over, or goes on with what is not about a payment.
LEMMA LeaveSession ==
    ASSUME TypeOK, NEW s \in Sessions, SessionInv(s), NEW k \in Workers, Leave(k),
           creditedAt'[s] = creditedAt[s], credits' = credits
    PROVE  SessionInv(s)'
<1>1. Left(k).payment # s
  BY Parameters DEF Left, Idle, Payments
<1> QED
  BY <1>1, SessionQuiet DEF Leave

LEMMA SessionStep ==
    ASSUME Inv, [Next]_vars, NEW s \in Sessions, s \notin raced', SessionInv(s)
    PROVE  SessionInv(s)'
<1>0. /\ TypeOK /\ s \in Payments /\ s \notin Windows /\ s # NoPayment
      /\ \A k \in Workers : request[k] \in Request
      /\ \A k \in Workers : SoundIn(request[k], stripe)
      /\ creditedAt \in [Payments -> BOOLEAN] /\ credits \in [Payments -> Nat]
  BY Parameters DEF Inv, Consistent, Sound, TypeOK
<1>1. ASSUME UNCHANGED <<creditedAt, request, credits>>
      PROVE  SessionInv(s)'
  BY <1>1 DEF SessionInv
<1>2. ASSUME NEW t \in Sessions, Checkout(t) PROVE SessionInv(s)'
  BY <1>1, <1>2 DEF Checkout, history
<1>3. ASSUME NEW p \in Payments, Clear(p) PROVE SessionInv(s)'
  BY <1>1, <1>3 DEF Clear, history
<1>4. CASE NextWindow \/ UNCHANGED vars
  BY <1>1, <1>4 DEF NextWindow, vars, history
<1>5. ASSUME NEW p \in Payments, Concerns(p), p = s
      PROVE  \A j \in Workers : request[j].payment # s
  BY <1>5 DEF Concerns
<1>6. ASSUME NEW p \in Payments, Deliver(p) PROVE SessionInv(s)'
  <2>1. PICK k \in Workers : request' = [request EXCEPT ![k] = Event(p, "session", 0)]
    BY <1>6 DEF Deliver
  <2>2. Event(p, "session", 0).payment = p /\ Event(p, "session", 0).at = "session"
    BY DEF Event
  <2> QED
    BY <1>0, <1>5, <1>6, <2>1, <2>2, SessionQuiet DEF Deliver
<1>7. ASSUME NEW k \in Workers, NEW p \in Payments, DeliverAgain(k, p) PROVE SessionInv(s)'
  <2>1. PICK x \in {Event(p, "session", 0), Event(p, "status", Status(p)), Event(p, "failed", 0)} :
            request' = [request EXCEPT ![k] = x]
    BY <1>7 DEF DeliverAgain
  <2>2. x.payment = p /\ x.at \in {"session", "status", "failed"}
        /\ (x.at = "status" => x.seen = Status(p))
    BY <2>1 DEF Event
  <2>3. SessionIn(x, s, creditedAt[s], credits[s])
    BY <2>2 DEF SessionIn, Status
  <2>4. UNCHANGED <<creditedAt, credits>> /\ Concerns(p)
    BY <1>7 DEF DeliverAgain
  <2>5. credits[s] # 0 => credits[s] = 1 /\ creditedAt[s]
    BY DEF SessionInv
  <2> QED
    BY <1>0, <1>5, <2>1, <2>2, <2>3, <2>4, <2>5, SessionFrame
<1>8. ASSUME NEW k \in Workers, Use(k) \/ ReadBudget(k) \/ WriteDebit(k) \/ Fail(k)
      PROVE  SessionInv(s)'
  <2>1. UNCHANGED <<creditedAt, credits>>
    BY <1>8 DEF Use, ReadBudget, WriteDebit, Fail, history
  <2>2. CASE Goto(k, "finish")
    BY <1>0, <2>1, <2>2, GotoSession
  <2>3. CASE ~Goto(k, "finish")
    <3>0. ASSUME NEW x, x.payment = NoPayment, request' = [request EXCEPT ![k] = x]
          PROVE  SessionInv(s)'
      BY <1>0, <2>1, <3>0, SessionQuiet
    <3>1. CASE Use(k)
      <4>1. PICK x \in {[Idle EXCEPT !.at = "begin", !.kind = "pre"],
                        [Idle EXCEPT !.at = "debit", !.kind = "usage"]} :
                request' = [request EXCEPT ![k] = x]
        BY <3>1 DEF Use
      <4>2. x.payment = NoPayment
        BY <4>1 DEF Idle
      <4> QED
        BY <3>0, <4>1, <4>2
    <3>2. CASE ReadBudget(k)
      <4> DEFINE x == [Idle EXCEPT !.at = "budget", !.kind = "budget", !.seen = balance]
      <4>1. x.payment = NoPayment
        BY DEF Idle
      <4>2. request' = [request EXCEPT ![k] = x]
        BY <3>2 DEF ReadBudget
      <4> QED
        BY <3>0, <4>1, <4>2
    <3>3. CASE WriteDebit(k)
      <4> DEFINE x == [Idle EXCEPT !.at = "begin", !.kind = "post"]
      <4>1. x.payment = NoPayment
        BY DEF Idle
      <4>2. request' = [request EXCEPT ![k] = x]
        BY <3>3 DEF WriteDebit
      <4> QED
        BY <3>0, <4>1, <4>2
    <3>4. CASE Fail(k)
      <4>1. request' = [request EXCEPT ![k] = Idle] /\ Idle.payment = NoPayment
        BY <2>3, <3>4 DEF Fail, Idle
      <4> QED
        BY <3>0, <4>1
    <3> QED
      BY <1>8, <3>1, <3>2, <3>3, <3>4
  <2> QED
    BY <2>2, <2>3
<1>9. ASSUME NEW k \in Workers,
             BeginAttempt(k) \/ RecordIntent(k) \/ WriteFailed(k) \/ LogUsage(k)
      PROVE  SessionInv(s)'
  <2>1. PICK l \in {"create", "session", "finish", "write"} : Goto(k, l)
    BY <1>9 DEF BeginAttempt, RecordIntent, WriteFailed, LogUsage
  <2>2. creditedAt'[s] = creditedAt[s] /\ credits' = credits
    BY <1>0, <1>9 DEF BeginAttempt, RecordIntent, WriteFailed, LogUsage, At, SoundIn, history
  <2> QED
    BY <1>0, <2>1, <2>2, GotoSession
<1>10. ASSUME NEW k \in Workers, SkipAttempt(k) \/ FinishAttempt(k) \/ WriteBudget(k)
       PROVE  SessionInv(s)'
  BY <1>0, <1>10, LeaveSession DEF SkipAttempt, FinishAttempt, WriteBudget, history
<1>11. ASSUME NEW k \in Workers, CreateIntent(k) PROVE SessionInv(s)'
  <2>1. UNCHANGED <<creditedAt, credits>>
    BY <1>11 DEF CreateIntent, history
  <2>2. CASE Goto(k, "finish")
    BY <1>0, <2>1, <2>2, GotoSession
  <2>3. CASE request' = [request EXCEPT ![k] = [@ EXCEPT !.at = "record", !.payment = window]]
    <3>1. [request[k] EXCEPT !.at = "record", !.payment = window].payment # s
      BY <1>0 DEF Request, TypeOK
    <3> QED
      BY <1>0, <2>1, <2>3, <3>1, SessionQuiet
  <2> QED
    BY <1>11, <2>2, <2>3 DEF CreateIntent
<1>12. ASSUME NEW k \in Workers, ReadPayment(k) PROVE SessionInv(s)'
  <2>1. UNCHANGED <<creditedAt, credits>>
    BY <1>12 DEF ReadPayment, history
  <2>2. CASE Leave(k)
    BY <1>0, <2>1, <2>2, LeaveSession
  <2>3. CASE Goto(k, "user") /\ ~creditedAt[request[k].payment]
    <3> DEFINE x == [request[k] EXCEPT !.at = "user"]
    <3>1. x.payment = request[k].payment /\ x.at = "user"
      BY <1>0 DEF Request
    <3>2. SessionIn(x, s, creditedAt'[s], credits'[s])
      BY <2>1, <2>3, <3>1 DEF SessionIn
    <3>3. request' = [request EXCEPT ![k] = x]
      BY <2>3 DEF Goto
    <3>4. credits'[s] # 0 => credits'[s] = 1 /\ creditedAt'[s]
      BY <2>1 DEF SessionInv
    <3> QED
      BY <1>0, <2>1, <3>1, <3>2, <3>3, <3>4, SessionFrame
  <2> QED
    BY <1>12, <2>2, <2>3 DEF ReadPayment
<1>13. ASSUME NEW k \in Workers, ReadUser(k) PROVE SessionInv(s)'
  <2> DEFINE x == [request[k] EXCEPT !.at = "mark", !.seen = balance]
  <2>1. x.payment = request[k].payment /\ x.at = "mark"
    BY <1>0 DEF Request
  <2>2. request' = [request EXCEPT ![k] = x] /\ UNCHANGED <<creditedAt, credits>>
    BY <1>13 DEF ReadUser, Saw
  <2>3. SessionIn(x, s, creditedAt'[s], credits'[s])
    BY <1>13, <2>1, <2>2 DEF SessionInv, SessionIn, ReadUser, At
  <2>4. credits'[s] # 0 => credits'[s] = 1 /\ creditedAt'[s]
    BY <2>2 DEF SessionInv
  <2> QED
    BY <1>0, <2>1, <2>2, <2>3, <2>4, SessionFrame
<1>14. ASSUME NEW k \in Workers, MarkCredited(k) PROVE SessionInv(s)'
  <2> DEFINE x == [request[k] EXCEPT !.at = "apply"]
  <2>1. x.payment = request[k].payment /\ x.at = "apply"
    BY <1>0 DEF Request
  <2>2. /\ request' = [request EXCEPT ![k] = x] /\ credits' = credits
        /\ creditedAt' = [creditedAt EXCEPT ![request[k].payment] = TRUE]
    BY <1>14 DEF MarkCredited, Goto, history
  <2>3. request[k].payment = s => creditedAt'[s] /\ credits'[s] = 0
    BY <1>0, <1>14, <2>2 DEF SessionInv, SessionIn, MarkCredited, At
  <2>4. request[k].payment # s => creditedAt'[s] = creditedAt[s]
    BY <1>0, <2>2
  <2>5. SessionIn(x, s, creditedAt'[s], credits'[s])
    BY <2>1, <2>3 DEF SessionIn
  <2>6. credits'[s] # 0 => credits'[s] = 1 /\ creditedAt'[s]
    BY <2>2, <2>3, <2>4 DEF SessionInv
  <2> QED
    BY <1>0, <2>1, <2>2, <2>4, <2>5, <2>6, SessionFrame
<1>15. ASSUME NEW k \in Workers, ApplyCredit(k) PROVE SessionInv(s)'
  <2>1. Left(k).payment # s
    BY <1>0 DEF Left, Idle
  <2>2. /\ request' = [request EXCEPT ![k] = Left(k)] /\ creditedAt' = creditedAt
        /\ credits' = [credits EXCEPT ![request[k].payment] = @ + 1]
    BY <1>15 DEF ApplyCredit, Leave
  <2>3. request[k].payment = s => creditedAt[s] /\ credits'[s] = 1
    BY <1>0, <1>15, <2>2 DEF SessionInv, SessionIn, ApplyCredit, At
  <2>4. request[k].payment # s => credits'[s] = credits[s]
    BY <1>0, <2>2
  <2>5. SessionIn(Left(k), s, creditedAt'[s], credits'[s])
    BY <2>1 DEF SessionIn
  <2>6. credits'[s] # 0 => credits'[s] = 1 /\ creditedAt'[s]
    BY <2>2, <2>3, <2>4 DEF SessionInv
  <2> QED
    BY <1>0, <2>1, <2>2, <2>4, <2>5, <2>6, SessionFrame
<1>16. ASSUME NEW k \in Workers, WriteStatus(k) PROVE SessionInv(s)'
  <2>1. creditedAt'[s] = creditedAt[s] /\ credits' = credits
    BY <1>0, <1>16 DEF WriteStatus, SessionInv, SessionIn, At, history
  <2> QED
    BY <1>0, <1>16, <2>1, LeaveSession DEF WriteStatus
<1>17. ASSUME NEW k \in Workers, ReadBalance(k) PROVE SessionInv(s)'
  <2>1. UNCHANGED <<creditedAt, credits>>
    BY <1>17 DEF ReadBalance
  <2>2. CASE Leave(k)
    BY <1>0, <2>1, <2>2, LeaveSession
  <2>3. CASE Saw(k, "log", balance)
    <3> DEFINE x == [request[k] EXCEPT !.at = "log", !.seen = balance]
    <3>1. x.payment = request[k].payment /\ x.at = "log"
      BY <1>0 DEF Request
    <3>2. request' = [request EXCEPT ![k] = x]
      BY <2>3 DEF Saw
    <3> QED
      BY <1>0, <2>1, <3>1, <3>2, SessionQuiet
  <2> QED
    BY <1>17, <2>2, <2>3 DEF ReadBalance
<1> QED
  BY <1>2, <1>3, <1>4, <1>6, <1>7, <1>8, <1>9, <1>10, <1>11, <1>12, <1>13, <1>14, <1>15,
     <1>16, <1>17 DEF Next, Step

\* A session that was raced stays raced.
LEMMA RacedStays == [Next]_vars => raced \subseteq raced'
<1> SUFFICES ASSUME [Next]_vars
             PROVE  raced \subseteq raced'
  OBVIOUS
<1>1. CASE raced' = raced
  BY <1>1
<1>2. ASSUME NEW p \in Payments, Deliver(p) \/ \E k \in Workers : DeliverAgain(k, p)
      PROVE  raced \subseteq raced'
  BY <1>2 DEF Deliver, DeliverAgain, Concerns
<1>3. ASSUME NEW k \in Workers, Step(k)
      PROVE  raced' = raced
  BY <1>3 DEF Step, BeginAttempt, SkipAttempt, CreateIntent, RecordIntent, FinishAttempt,
       ReadPayment, ReadUser, MarkCredited, ApplyCredit, WriteStatus, WriteFailed,
       ReadBalance, LogUsage, WriteDebit, WriteBudget, history, mishaps
<1>4. ASSUME NEW k \in Workers, Use(k) \/ ReadBudget(k) \/ Fail(k)
      PROVE  raced' = raced
  BY <1>4 DEF Use, ReadBudget, Fail, history, mishaps
<1>5. ASSUME NEW p \in Payments, Clear(p)
      PROVE  raced' = raced
  BY <1>5 DEF Clear, history, mishaps
<1>6. ASSUME NEW s \in Sessions, Checkout(s)
      PROVE  raced' = raced
  BY <1>6 DEF Checkout, history, mishaps
<1>7. CASE NextWindow \/ UNCHANGED vars
  BY <1>1, <1>7 DEF NextWindow, vars, history, mishaps
<1> QED
  BY <1>1, <1>2, <1>3, <1>4, <1>5, <1>6, <1>7 DEF Next

LEMMA SessionsStep == Inv /\ SessionsInv /\ [Next]_vars => SessionsInv'
BY SessionStep, RacedStays DEF SessionsInv

LEMMA SessionsInit == Init => SessionsInv
BY Parameters DEF Init, SessionsInv, SessionInv, SessionIn, Idle, Payments

\* store.js:923 and 936: however many events of a session come late, again or
\* out of order, and whatever else overlaps or fails, it is credited once, unless
\* two requests about it ever were under way at once.
THEOREM SessionIsCreditedOnce == Spec => []SessionCreditedOnce
<1>1. Inv /\ SessionsInv => SessionCreditedOnce
  BY Parameters DEF Inv, TypeOK, SessionsInv, SessionInv, SessionCreditedOnce
<1> QED
  BY InitInv, InvStep, SessionsInit, SessionsStep, <1>1, PTL DEF Spec
=============================================================================
