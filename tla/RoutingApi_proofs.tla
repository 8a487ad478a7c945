-------------------------- MODULE RoutingApi_proofs --------------------------
(* What the routing API promises, for any scopes, calls, maximum, routes,    *)
(* models, prices and writers: the budgets of a run and of its scopes hold;  *)
(* a request is answered from the pools it read, a setup that nobody         *)
(* overlapped is stored whole, and a request that takes more than its share  *)
(* makes the next one no dearer.                                             *)
EXTENDS RoutePools, WorkflowBudgets, TotalsTheorems

-----------------------------------------------------------------------------
(* Budgets of a workflow run.                                              *)

\* What requests under way rely on: the scope and the limit of a reservation
\* are those of its one quote, a claim is about a reservation that exists and
\* debits at most what it reserved, and a scope has no maximum before it
\* exists.
Consistent ==
    /\ \A s \in Scopes : s \notin Created => maxUsd[s] = 0
    /\ \A q \in quotes : status[q.call] = "none" /\ q.scope \in Created
    /\ \A q, r \in quotes : q.call = r.call => q = r
    /\ \A k \in claims : status[k.call] # "none" /\ k.debit <= callLimitUsd[k.call]
    /\ \A c \in Calls : status[c] # "none" => Root \in scopeIds[c]

-----------------------------------------------------------------------------
(* Types.                                                                  *)

LEMMA TypeInit == WorkflowInit => TypeOK
<1> SUFFICES ASSUME WorkflowInit
             PROVE  TypeOK
  OBVIOUS
<1>1. PICK max \in 1..MaxUsd : maxUsd = [s \in Scopes |-> IF s = Root THEN max ELSE 0]
  BY DEF WorkflowInit
<1>2. maxUsd \in [Scopes -> 0..MaxUsd]
  BY <1>1, WorkflowAssumption
<1> QED
  BY <1>2, WorkflowAssumption DEF WorkflowInit, TypeOK, Created

LEMMA MoveType ==
    ASSUME NEW f \in [Scopes -> Nat], NEW c, NEW amount \in Int,
           \A s \in scopeIds[c] : s \in Scopes => f[s] + amount >= 0
    PROVE  Move(f, c, amount) \in [Scopes -> Nat]
BY DEF Move

LEMMA TypeStep == TypeOK /\ Consistent /\ [WorkflowNext]_workflow_vars => TypeOK'
<1> SUFFICES ASSUME TypeOK, Consistent, [WorkflowNext]_workflow_vars
             PROVE  TypeOK'
  OBVIOUS
<1> USE DEF run, scopes, reservations, requests
<1>1. ASSUME NEW parent \in Scopes, ReadParent(parent)
      PROVE  TypeOK'
  BY <1>1 DEF ReadParent, ChainActive, TypeOK, Created
<1>2. ASSUME NEW s \in Scopes, NEW parent \in Scopes, NEW max \in 1..MaxUsd,
             CreateScope(s, parent, max)
      PROVE  TypeOK'
  <2>1. /\ chain' \in [Scopes -> SUBSET Scopes]
        /\ Created' = Created \cup {s}
        /\ \A a \in Created' : a \in chain'[a] /\ Root \in chain'[a]
    BY <1>2 DEF CreateScope, TypeOK, Created
  <2>2. maxUsd' \in [Scopes -> 0..MaxUsd]
    BY <1>2, WorkflowAssumption DEF CreateScope, TypeOK
  <2> QED
    BY <1>2, <2>1, <2>2 DEF CreateScope, TypeOK
<1>3. ASSUME NEW c \in Calls, NEW s \in Scopes, NEW limit \in 1..MaxUsd,
             Authorize(c, s, limit)
      PROVE  TypeOK'
  BY <1>3 DEF Authorize, TypeOK, Created, Quote
<1>4. ASSUME NEW q \in quotes, Reserve(q)
      PROVE  TypeOK'
  <2>1. q.call \in Calls /\ q.scope \in Scopes /\ q.limit \in 1..MaxUsd
    BY DEF TypeOK, Quote
  <2>2. reservedUsd' \in [Scopes -> Nat]
    BY <1>4, <2>1, WorkflowAssumption DEF Reserve, TypeOK
  <2>3. callLimitUsd' \in [Calls -> 0..MaxUsd]
    BY <1>4, <2>1, WorkflowAssumption DEF Reserve, TypeOK
  <2> QED
    BY <1>4, <2>1, <2>2, <2>3 DEF Reserve, TypeOK, Created, Unsettled
<1>5. ASSUME NEW c \in Calls, Start(c)
      PROVE  TypeOK'
  BY <1>5 DEF Start, TypeOK, Created, Unsettled
<1>6. ASSUME NEW c \in Calls, NEW outcome \in Outcomes, NEW debit \in 0..MaxUsd,
             ReadClaim(c, outcome, debit)
      PROVE  TypeOK'
  BY <1>6 DEF ReadClaim, TypeOK, Created, Claim
<1>7. ASSUME NEW k \in claims, Finalize(k)
      PROVE  TypeOK'
  <2>1. k.call \in Calls /\ k.outcome \in Outcomes /\ k.debit \in 0..MaxUsd
    BY DEF TypeOK, Claim
  <2>2. CASE StillDue(k)
    <3>1. spentUsd' \in [Scopes -> Nat]
      <4>1. spentUsd' = Move(spentUsd, k.call, k.debit)
        BY <1>7, <2>2 DEF Finalize
      <4> QED
        BY <2>1, <4>1, MoveType, WorkflowAssumption DEF TypeOK
    <3>2. reservedUsd' \in [Scopes -> Nat]
      <4>1. reservedUsd' = Move(reservedUsd, k.call, -callLimitUsd[k.call])
        BY <1>7, <2>2 DEF Finalize
      <4>2. callLimitUsd[k.call] \in Nat
        BY <2>1, WorkflowAssumption DEF TypeOK
      <4>3. \A s \in scopeIds[k.call] :
                s \in Scopes => reservedUsd[s] + (-callLimitUsd[k.call]) >= 0
        BY <2>2, <4>2 DEF StillDue, TypeOK
      <4> QED
        BY <4>1, <4>2, <4>3, MoveType DEF TypeOK
    <3> QED
      BY <1>7, <2>1, <2>2, <3>1, <3>2 DEF Finalize, TypeOK, Created
  <2>3. CASE ~StillDue(k)
    BY <1>7, <2>3 DEF Finalize, TypeOK, Created
  <2> QED
    BY <2>2, <2>3
<1>8. ASSUME NEW s \in Scopes, CheckScope(s)
      PROVE  TypeOK'
  BY <1>8 DEF CheckScope, TypeOK, Created
<1>9. ASSUME NEW s \in Scopes, FinishScope(s)
      PROVE  TypeOK'
  BY <1>9 DEF FinishScope, TypeOK, Created
<1>10. CASE CheckRun
  BY <1>10 DEF CheckRun, TypeOK, Created
<1>11. CASE FinishScopes
  BY <1>11 DEF FinishScopes, TypeOK, Created
<1>12. CASE FinishRun
  BY <1>12 DEF FinishRun, TypeOK, Created
<1>13. CASE UNCHANGED workflow_vars
  BY <1>13 DEF workflow_vars, TypeOK, Created
<1> QED
  BY <1>1, <1>2, <1>3, <1>4, <1>5, <1>6, <1>7, <1>8, <1>9, <1>10, <1>11, <1>12,
     <1>13 DEF WorkflowNext

LEMMA ConsistentInit == WorkflowInit => Consistent
BY DEF WorkflowInit, Consistent, Created

LEMMA ConsistentStep == TypeOK /\ Consistent /\ [WorkflowNext]_workflow_vars => Consistent'
<1> SUFFICES ASSUME TypeOK, Consistent, [WorkflowNext]_workflow_vars
             PROVE  Consistent'
  OBVIOUS
<1> USE DEF run, scopes, reservations, requests
<1>1. ASSUME UNCHANGED <<chain, maxUsd, quotes, claims, scopeIds, callLimitUsd>>,
             \A c \in Calls : (status'[c] = "none") = (status[c] = "none")
      PROVE  Consistent'
  <2>1. \A q \in quotes : q.call \in Calls
    BY DEF TypeOK, Quote
  <2>2. \A k \in claims : k.call \in Calls
    BY DEF TypeOK, Claim
  <2> QED
    BY <1>1, <2>1, <2>2 DEF Consistent, Created
<1>2. ASSUME NEW parent \in Scopes, ReadParent(parent)
      PROVE  Consistent'
  BY <1>1, <1>2 DEF ReadParent
<1>3. ASSUME NEW s \in Scopes, NEW parent \in Scopes, NEW max \in 1..MaxUsd,
             CreateScope(s, parent, max)
      PROVE  Consistent'
  <2>1. Created' = Created \cup {s}
    BY <1>3 DEF CreateScope, TypeOK, Created
  <2>2. \A a \in Scopes : a \notin Created' => maxUsd'[a] = 0
    BY <1>3, <2>1 DEF CreateScope, Consistent, TypeOK
  <2> QED
    BY <1>3, <2>1, <2>2 DEF CreateScope, Consistent
<1>4. ASSUME NEW c \in Calls, NEW s \in Scopes, NEW limit \in 1..MaxUsd,
             Authorize(c, s, limit)
      PROVE  Consistent'
  BY <1>4 DEF Authorize, ChainActive, Consistent, Created
<1>5. ASSUME NEW q \in quotes, Reserve(q)
      PROVE  Consistent'
  <2>1. q.call \in Calls /\ q.scope \in Scopes
    BY DEF TypeOK, Quote
  <2>2. /\ \A r \in quotes' : r.call # q.call
        /\ \A k \in claims : k.call # q.call
    BY <1>5 DEF Reserve, Consistent
  <2>3. Root \in chain[q.scope]
    BY DEF Consistent, TypeOK
  <2>4. status' = [status EXCEPT ![q.call] = "reserved"] /\ Created' = Created
    BY <1>5 DEF Reserve, Created
  <2>5. \A r \in quotes' : status'[r.call] = "none" /\ r.scope \in Created'
    BY <1>5, <2>2, <2>4 DEF Reserve, Consistent, TypeOK, Quote
  <2>6. \A k \in claims' : status'[k.call] # "none" /\ k.debit <= callLimitUsd'[k.call]
    BY <1>5, <2>2, <2>4 DEF Reserve, Consistent, TypeOK, Claim
  <2>7. \A c \in Calls : status'[c] # "none" => Root \in scopeIds'[c]
    BY <1>5, <2>1, <2>3, <2>4 DEF Reserve, Consistent, TypeOK
  <2> QED
    BY <1>5, <2>4, <2>5, <2>6, <2>7 DEF Reserve, Consistent
<1>6. ASSUME NEW c \in Calls, Start(c)
      PROVE  Consistent'
  BY <1>1, <1>6 DEF Start, TypeOK
<1>7. ASSUME NEW c \in Calls, NEW outcome \in Outcomes, NEW debit \in 0..MaxUsd,
             ReadClaim(c, outcome, debit)
      PROVE  Consistent'
  <2>1. status[c] # "none"
    BY <1>7 DEF ReadClaim, RequiredStatus
  <2> QED
    BY <1>7, <2>1 DEF ReadClaim, Consistent, Created
<1>8. ASSUME NEW k \in claims, Finalize(k)
      PROVE  Consistent'
  <2>1. k.call \in Calls /\ k.outcome \in Outcomes
    BY DEF TypeOK, Claim
  <2>2. \A c \in Calls : (status'[c] = "none") = (status[c] = "none")
    BY <1>8, <2>1 DEF Finalize, TypeOK, Consistent, Outcomes
  <2>3. \A j \in quotes : j.call \in Calls
    BY DEF TypeOK, Quote
  <2>4. \A j \in claims : j.call \in Calls
    BY DEF TypeOK, Claim
  <2> QED
    BY <1>8, <2>2, <2>3, <2>4 DEF Finalize, Consistent, Created
<1>9. ASSUME NEW s \in Scopes, CheckScope(s) \/ FinishScope(s)
      PROVE  Consistent'
  BY <1>1, <1>9 DEF CheckScope, FinishScope
<1>10. CASE CheckRun \/ FinishScopes \/ FinishRun
  BY <1>1, <1>10 DEF CheckRun, FinishScopes, FinishRun
<1>11. CASE UNCHANGED workflow_vars
  BY <1>1, <1>11 DEF workflow_vars
<1> QED
  BY <1>2, <1>3, <1>4, <1>5, <1>6, <1>7, <1>8, <1>9, <1>10, <1>11 DEF WorkflowNext

\* The rows of the collections keep their types: no balance of a scope is ever
\* negative.
THEOREM TypeCorrect == WorkflowSpec => []TypeOK
<1>1. WorkflowInit => TypeOK /\ Consistent
  BY TypeInit, ConsistentInit
<1>2. TypeOK /\ Consistent /\ [WorkflowNext]_workflow_vars => (TypeOK /\ Consistent)'
  BY TypeStep, ConsistentStep
<1> QED
  BY <1>1, <1>2, PTL DEF WorkflowSpec

-----------------------------------------------------------------------------
(* The maximum of each scope.                                              *)

LEMMA WithinStep ==
    TypeOK /\ Consistent /\ WithinMaximum /\ [WorkflowNext]_workflow_vars => WithinMaximum'
<1> SUFFICES ASSUME TypeOK, Consistent, WithinMaximum, [WorkflowNext]_workflow_vars
             PROVE  WithinMaximum'
  OBVIOUS
<1> USE DEF run, scopes, reservations, requests
<1>1. ASSUME UNCHANGED <<maxUsd, spentUsd, reservedUsd>>
      PROVE  WithinMaximum'
  BY <1>1 DEF WithinMaximum
<1>2. ASSUME NEW s \in Scopes, NEW parent \in Scopes, NEW max \in 1..MaxUsd,
             CreateScope(s, parent, max)
      PROVE  WithinMaximum'
  <2>1. maxUsd[s] = 0
    BY <1>2 DEF CreateScope, Consistent
  <2>2. \A a \in Scopes : maxUsd[a] \in Int /\ maxUsd[a] <= maxUsd'[a]
    BY <1>2, <2>1, WorkflowAssumption DEF CreateScope, TypeOK
  <2> QED
    BY <1>2, <2>2, WorkflowAssumption DEF CreateScope, WithinMaximum, TypeOK
<1>3. ASSUME NEW q \in quotes, Reserve(q)
      PROVE  WithinMaximum'
  <2>1. q.limit \in Nat /\ q.scope \in Scopes
    BY WorkflowAssumption DEF TypeOK, Quote
  <2>2. \A s \in chain[q.scope] : maxUsd[s] - spentUsd[s] - reservedUsd[s] >= q.limit
    BY <1>3 DEF Reserve, Affordable, Available
  <2> QED
    BY <1>3, <2>1, <2>2, WorkflowAssumption DEF Reserve, WithinMaximum, TypeOK
<1>4. ASSUME NEW k \in claims, Finalize(k)
      PROVE  WithinMaximum'
  <2>1. k.call \in Calls /\ k.debit \in Nat /\ callLimitUsd[k.call] \in Nat
    BY WorkflowAssumption DEF TypeOK, Claim
  <2>2. k.debit <= callLimitUsd[k.call]
    BY DEF Consistent
  <2>3. CASE StillDue(k)
    BY <1>4, <2>1, <2>2, <2>3, WorkflowAssumption
       DEF Finalize, Move, WithinMaximum, TypeOK
  <2>4. CASE ~StillDue(k)
    BY <1>1, <1>4, <2>4 DEF Finalize
  <2> QED
    BY <2>3, <2>4
<1>5. ASSUME NEW c \in Calls, NEW outcome, NEW debit, ReadClaim(c, outcome, debit)
      PROVE  WithinMaximum'
  BY <1>1, <1>5 DEF ReadClaim
<1>6. ASSUME NEW c, NEW s, NEW limit, Authorize(c, s, limit)
      PROVE  WithinMaximum'
  BY <1>1, <1>6 DEF Authorize
<1>7. ASSUME NEW s, ReadParent(s) \/ CheckScope(s) \/ FinishScope(s) \/ Start(s)
      PROVE  WithinMaximum'
  BY <1>1, <1>7 DEF ReadParent, CheckScope, FinishScope, Start
<1>8. CASE CheckRun \/ FinishScopes \/ FinishRun
  BY <1>1, <1>8 DEF CheckRun, FinishScopes, FinishRun
<1>9. CASE UNCHANGED workflow_vars
  BY <1>1, <1>9 DEF workflow_vars
<1> QED
  BY <1>2, <1>3, <1>4, <1>5, <1>6, <1>7, <1>8, <1>9 DEF WorkflowNext

\* No scope commits more than its maximum, however many requests are authorized
\* against the same balance and whatever happens to their reservations.
THEOREM MaximumHolds == WorkflowSpec => []WithinMaximum
<1>1. WorkflowInit => TypeOK /\ Consistent /\ WithinMaximum
  <2>1. ASSUME WorkflowInit
        PROVE  WithinMaximum
    BY <2>1, WorkflowAssumption DEF WorkflowInit, WithinMaximum
  <2> QED
    BY <2>1, TypeInit, ConsistentInit
<1>2. TypeOK /\ Consistent /\ WithinMaximum /\ [WorkflowNext]_workflow_vars
        => (TypeOK /\ Consistent /\ WithinMaximum)'
  BY TypeStep, ConsistentStep, WithinStep
<1> QED
  BY <1>1, <1>2, PTL DEF WorkflowSpec

-----------------------------------------------------------------------------
(* The outcome of a reservation.                                           *)

LEMMA FinalStep ==
    ASSUME TypeOK, Consistent, [WorkflowNext]_workflow_vars,
           NEW c \in Calls, status[c] \in Outcomes
    PROVE  status'[c] = status[c] /\ spendUsd'[c] = spendUsd[c]
<1> USE DEF run, scopes, reservations, requests
<1>1. status[c] \notin Unsettled \cup {"none"}
  BY DEF Outcomes, Unsettled
<1>2. ASSUME NEW q \in quotes, Reserve(q)
      PROVE  status'[c] = status[c] /\ spendUsd'[c] = spendUsd[c]
  BY <1>1, <1>2 DEF Reserve, Consistent, TypeOK
<1>3. ASSUME NEW d \in Calls, Start(d)
      PROVE  status'[c] = status[c] /\ spendUsd'[c] = spendUsd[c]
  BY <1>1, <1>3 DEF Start, TypeOK, Unsettled
<1>4. ASSUME NEW k \in claims, Finalize(k)
      PROVE  status'[c] = status[c] /\ spendUsd'[c] = spendUsd[c]
  <2>1. StillDue(k) => k.call # c
    BY <1>1 DEF StillDue, RequiredStatus, Unsettled
  <2> QED
    BY <1>4, <2>1 DEF Finalize, TypeOK
<1>5. ASSUME NEW d, NEW outcome, NEW debit, ReadClaim(d, outcome, debit)
      PROVE  status'[c] = status[c] /\ spendUsd'[c] = spendUsd[c]
  BY <1>5 DEF ReadClaim
<1>6. ASSUME NEW d, NEW s, NEW limit,
             Authorize(d, s, limit) \/ CreateScope(s, d, limit)
      PROVE  status'[c] = status[c] /\ spendUsd'[c] = spendUsd[c]
  BY <1>6 DEF Authorize, CreateScope
<1>7. ASSUME NEW s, ReadParent(s) \/ CheckScope(s) \/ FinishScope(s)
      PROVE  status'[c] = status[c] /\ spendUsd'[c] = spendUsd[c]
  BY <1>7 DEF ReadParent, CheckScope, FinishScope
<1>8. CASE CheckRun \/ FinishScopes \/ FinishRun \/ UNCHANGED workflow_vars
  BY <1>8 DEF CheckRun, FinishScopes, FinishRun, workflow_vars
<1> QED
  BY <1>2, <1>3, <1>4, <1>5, <1>6, <1>7, <1>8 DEF WorkflowNext

\* A reservation is finalized once, although any number of requests to settle,
\* fail or cancel it have read it before.
THEOREM OutcomesAreFinal == WorkflowSpec => OutcomeIsFinal
<1>1. WorkflowInit => TypeOK /\ Consistent
  BY TypeInit, ConsistentInit
<1>2. TypeOK /\ Consistent /\ [WorkflowNext]_workflow_vars => (TypeOK /\ Consistent)'
  BY TypeStep, ConsistentStep
<1>3. TypeOK /\ Consistent /\ [WorkflowNext]_workflow_vars
        => [\A c \in Calls : status[c] \in Outcomes =>
               status'[c] = status[c] /\ spendUsd'[c] = spendUsd[c]]_workflow_vars
  BY FinalStep
<1> QED
  BY <1>1, <1>2, <1>3, PTL DEF WorkflowSpec, OutcomeIsFinal

-----------------------------------------------------------------------------
(* The ledger.                                                             *)

LEMMA OfFinite ==
    ASSUME TypeOK, NEW s, NEW states
    PROVE  IsFiniteSet(Of(s, states))
BY WorkflowAssumption, FS_Subset DEF Of

LEMMA ReserveLedger ==
    ASSUME TypeOK, Consistent, LedgerMatches, NEW q \in quotes, Reserve(q)
    PROVE  LedgerMatches'
<1> DEFINE c == q.call
<1>1. c \in Calls /\ q.limit \in Nat /\ q.limit <= MaxUsd /\ MaxUsd \in Nat
  BY WorkflowAssumption DEF TypeOK, Quote
<1>2. /\ status[c] = "none"
      /\ status' = [status EXCEPT ![c] = "reserved"]
      /\ scopeIds' = [scopeIds EXCEPT ![c] = chain[q.scope]]
      /\ callLimitUsd' = [callLimitUsd EXCEPT ![c] = q.limit]
      /\ UNCHANGED <<spentUsd, spendUsd>>
  BY DEF Reserve, Consistent
<1>3. ASSUME NEW s \in Scopes
      PROVE  spentUsd'[s] = Total(Of(s, Outcomes)', spendUsd', MaxUsd)
  <2>1. Of(s, Outcomes)' = Of(s, Outcomes)
    BY <1>1, <1>2 DEF Of, TypeOK, Outcomes
  <2> QED
    BY <1>2, <2>1 DEF LedgerMatches
<1>4. ASSUME NEW s \in Scopes
      PROVE  reservedUsd'[s] = Total(Of(s, Unsettled)', callLimitUsd', MaxUsd)
  <2>1. c \notin Of(s, Unsettled)
    BY <1>2 DEF Of, Unsettled
  <2>2. Total(Of(s, Unsettled), callLimitUsd', MaxUsd) = reservedUsd[s]
    <3>1. \A d \in Of(s, Unsettled) : callLimitUsd[d] = callLimitUsd'[d]
      BY <1>2, <2>1 DEF Of, TypeOK
    <3>2. Total(Of(s, Unsettled), callLimitUsd, MaxUsd)
            = Total(Of(s, Unsettled), callLimitUsd', MaxUsd)
      BY <1>1, <3>1, TotalCongruence
    <3> QED
      BY <3>2 DEF LedgerMatches
  <2>3. CASE s \in chain[q.scope]
    <3>1. Of(s, Unsettled)' = Of(s, Unsettled) \cup {c}
      BY <1>1, <1>2, <2>3 DEF Of, TypeOK, Unsettled
    <3>2. callLimitUsd'[c] = q.limit
      BY <1>1, <1>2 DEF TypeOK
    <3>3. Total(Of(s, Unsettled) \cup {c}, callLimitUsd', MaxUsd)
            = Total(Of(s, Unsettled), callLimitUsd', MaxUsd) + q.limit
      <4>1. Joins(c, q.limit, Of(s, Unsettled), callLimitUsd', MaxUsd)
        BY <1>1, <2>1, <3>2, OfFinite DEF Joins
      <4> QED
        BY <4>1, TotalJoins
    <3>4. reservedUsd'[s] = reservedUsd[s] + q.limit
      BY <2>3 DEF Reserve
    <3> QED
      BY <2>2, <3>1, <3>3, <3>4
  <2>4. CASE s \notin chain[q.scope]
    <3>1. Of(s, Unsettled)' = Of(s, Unsettled)
      BY <1>1, <1>2, <2>4 DEF Of, TypeOK, Unsettled
    <3>2. reservedUsd'[s] = reservedUsd[s]
      BY <2>4 DEF Reserve
    <3> QED
      BY <2>2, <3>1, <3>2
  <2> QED
    BY <2>3, <2>4
<1> QED
  BY <1>3, <1>4 DEF LedgerMatches

\* What a scope holds for call c is given back, and its debit is kept.
LEMMA FinalizeLedger ==
    ASSUME TypeOK, Consistent, LedgerMatches, NEW k \in claims, Finalize(k),
           StillDue(k)
    PROVE  LedgerMatches'
<1> DEFINE c == k.call
           limit == callLimitUsd[c]
<1>1. /\ c \in Calls /\ k.outcome \in Outcomes
      /\ k.debit \in Nat /\ k.debit <= MaxUsd
      /\ limit \in Nat /\ limit <= MaxUsd /\ MaxUsd \in Nat
  BY WorkflowAssumption DEF TypeOK, Claim
<1>2. /\ status' = [status EXCEPT ![c] = k.outcome]
      /\ spendUsd' = [spendUsd EXCEPT ![c] = k.debit]
      /\ spentUsd' = Move(spentUsd, c, k.debit)
      /\ reservedUsd' = Move(reservedUsd, c, -limit)
      /\ UNCHANGED <<scopeIds, callLimitUsd>>
  BY DEF Finalize
<1>3. status[c] \in Unsettled /\ status[c] \notin Outcomes
  BY DEF StillDue, RequiredStatus, Unsettled, Outcomes
<1>4. k.outcome \notin Unsettled
  BY <1>1 DEF Unsettled, Outcomes
<1> HIDE DEF limit
<1>5. ASSUME NEW s \in Scopes
      PROVE  reservedUsd'[s] = Total(Of(s, Unsettled)', callLimitUsd', MaxUsd)
  <2>1. reservedUsd[s] = Total(Of(s, Unsettled), callLimitUsd, MaxUsd)
    BY DEF LedgerMatches
  <2>2. CASE s \in scopeIds[c]
    <3>1. c \in Of(s, Unsettled) /\ Of(s, Unsettled)' = Of(s, Unsettled) \ {c}
      BY <1>1, <1>2, <1>3, <1>4, <2>2 DEF Of, TypeOK
    <3>2. Total(Of(s, Unsettled), callLimitUsd, MaxUsd)
            = Total(Of(s, Unsettled) \ {c}, callLimitUsd, MaxUsd) + limit
      BY <1>1, <3>1, OfFinite, TotalRemove DEF limit
    <3>3. reservedUsd'[s] = reservedUsd[s] - limit
      BY <1>1, <1>2, <2>2 DEF Move, TypeOK
    <3>4. Total(Of(s, Unsettled) \ {c}, callLimitUsd, MaxUsd) \in Nat
      BY <1>1, OfFinite, FS_Subset, TotalType
    <3> QED
      BY <1>1, <1>2, <2>1, <3>1, <3>2, <3>3, <3>4
  <2>3. CASE s \notin scopeIds[c]
    <3>1. Of(s, Unsettled)' = Of(s, Unsettled)
      BY <1>1, <1>2, <2>3 DEF Of, TypeOK
    <3>2. reservedUsd'[s] = reservedUsd[s]
      BY <1>2, <2>3 DEF Move
    <3> QED
      BY <1>2, <2>1, <3>1, <3>2
  <2> QED
    BY <2>2, <2>3
<1>6. ASSUME NEW s \in Scopes
      PROVE  spentUsd'[s] = Total(Of(s, Outcomes)', spendUsd', MaxUsd)
  <2>1. c \notin Of(s, Outcomes)
    BY <1>3 DEF Of
  <2>2. Total(Of(s, Outcomes), spendUsd', MaxUsd) = spentUsd[s]
    <3>1. \A d \in Of(s, Outcomes) : spendUsd[d] = spendUsd'[d]
      BY <1>2, <2>1 DEF Of, TypeOK
    <3>2. Total(Of(s, Outcomes), spendUsd, MaxUsd)
            = Total(Of(s, Outcomes), spendUsd', MaxUsd)
      BY <1>1, <3>1, TotalCongruence
    <3> QED
      BY <3>2 DEF LedgerMatches
  <2>3. CASE s \in scopeIds[c]
    <3>1. Of(s, Outcomes)' = Of(s, Outcomes) \cup {c}
      BY <1>1, <1>2, <2>3 DEF Of, TypeOK
    <3>2. spendUsd'[c] = k.debit
      BY <1>1, <1>2 DEF TypeOK
    <3>3. Total(Of(s, Outcomes) \cup {c}, spendUsd', MaxUsd)
            = Total(Of(s, Outcomes), spendUsd', MaxUsd) + k.debit
      <4>1. Joins(c, k.debit, Of(s, Outcomes), spendUsd', MaxUsd)
        BY <1>1, <2>1, <3>2, OfFinite DEF Joins
      <4> QED
        BY <4>1, TotalJoins
    <3>4. spentUsd'[s] = spentUsd[s] + k.debit
      BY <1>2, <2>3 DEF Move
    <3> QED
      BY <2>2, <3>1, <3>3, <3>4
  <2>4. CASE s \notin scopeIds[c]
    <3>1. Of(s, Outcomes)' = Of(s, Outcomes)
      BY <1>1, <1>2, <2>4 DEF Of, TypeOK
    <3>2. spentUsd'[s] = spentUsd[s]
      BY <1>2, <2>4 DEF Move
    <3> QED
      BY <2>2, <3>1, <3>2
  <2> QED
    BY <2>3, <2>4
<1> QED
  BY <1>5, <1>6 DEF LedgerMatches

LEMMA LedgerStep ==
    TypeOK /\ Consistent /\ LedgerMatches /\ [WorkflowNext]_workflow_vars => LedgerMatches'
<1> SUFFICES ASSUME TypeOK, Consistent, LedgerMatches, [WorkflowNext]_workflow_vars
             PROVE  LedgerMatches'
  OBVIOUS
<1> USE DEF run, scopes, reservations, requests
<1>1. ASSUME UNCHANGED <<spentUsd, reservedUsd, reservations>>
      PROVE  LedgerMatches'
  BY <1>1 DEF LedgerMatches, Of
<1>2. ASSUME NEW q \in quotes, Reserve(q)
      PROVE  LedgerMatches'
  BY <1>2, ReserveLedger
<1>3. ASSUME NEW c \in Calls, Start(c)
      PROVE  LedgerMatches'
  <2>1. \A s \in Scopes : /\ Of(s, Unsettled)' = Of(s, Unsettled)
                          /\ Of(s, Outcomes)' = Of(s, Outcomes)
    BY <1>3 DEF Start, Of, Unsettled, Outcomes, TypeOK
  <2> QED
    BY <1>3, <2>1 DEF Start, LedgerMatches
<1>4. ASSUME NEW k \in claims, Finalize(k)
      PROVE  LedgerMatches'
  <2>1. CASE StillDue(k)
    BY <1>4, <2>1, FinalizeLedger
  <2>2. CASE ~StillDue(k)
    BY <1>1, <1>4, <2>2 DEF Finalize
  <2> QED
    BY <2>1, <2>2
<1>5. ASSUME NEW c, NEW outcome, NEW debit, ReadClaim(c, outcome, debit)
      PROVE  LedgerMatches'
  BY <1>1, <1>5 DEF ReadClaim
<1>6. ASSUME NEW c, NEW s, NEW limit,
             Authorize(c, s, limit) \/ CreateScope(s, c, limit)
      PROVE  LedgerMatches'
  BY <1>1, <1>6 DEF Authorize, CreateScope
<1>7. ASSUME NEW s, ReadParent(s) \/ CheckScope(s) \/ FinishScope(s)
      PROVE  LedgerMatches'
  BY <1>1, <1>7 DEF ReadParent, CheckScope, FinishScope
<1>8. CASE CheckRun \/ FinishScopes \/ FinishRun \/ UNCHANGED workflow_vars
  BY <1>1, <1>8 DEF CheckRun, FinishScopes, FinishRun, workflow_vars
<1> QED
  BY <1>2, <1>3, <1>4, <1>5, <1>6, <1>7, <1>8 DEF WorkflowNext

LEMMA LedgerInit == WorkflowInit => LedgerMatches
<1> SUFFICES ASSUME WorkflowInit, NEW s \in Scopes
             PROVE  /\ reservedUsd[s] = Total(Of(s, Unsettled), callLimitUsd, MaxUsd)
                    /\ spentUsd[s] = Total(Of(s, Outcomes), spendUsd, MaxUsd)
  BY DEF LedgerMatches
<1>1. Of(s, Unsettled) = {} /\ Of(s, Outcomes) = {}
  BY DEF WorkflowInit, Of
<1>2. reservedUsd[s] = 0 /\ spentUsd[s] = 0
  BY DEF WorkflowInit
<1> QED
  BY <1>1, <1>2, TotalEmpty, WorkflowAssumption

\* The balances of every scope are the sums of the reservations below it.
THEOREM LedgerIsKept == WorkflowSpec => []LedgerMatches
<1>1. WorkflowInit => TypeOK /\ Consistent /\ LedgerMatches
  BY TypeInit, ConsistentInit, LedgerInit
<1>2. TypeOK /\ Consistent /\ LedgerMatches /\ [WorkflowNext]_workflow_vars
        => (TypeOK /\ Consistent /\ LedgerMatches)'
  BY TypeStep, ConsistentStep, LedgerStep
<1> QED
  BY <1>1, <1>2, PTL DEF WorkflowSpec

\* The root is in the chain of every call, so that what its maximum bounds is
\* the spend of the whole run.
THEOREM RunMaximumHolds == WorkflowSpec => []RunWithinMaximum
<1>1. WorkflowInit => TypeOK /\ Consistent /\ LedgerMatches /\ WithinMaximum
  <2>1. ASSUME WorkflowInit
        PROVE  WithinMaximum
    BY <2>1, WorkflowAssumption DEF WorkflowInit, WithinMaximum
  <2> QED
    BY <2>1, TypeInit, ConsistentInit, LedgerInit
<1>2. TypeOK /\ Consistent /\ LedgerMatches /\ WithinMaximum /\ [WorkflowNext]_workflow_vars
        => (TypeOK /\ Consistent /\ LedgerMatches /\ WithinMaximum)'
  BY TypeStep, ConsistentStep, LedgerStep, WithinStep
<1>3. TypeOK /\ Consistent /\ LedgerMatches /\ WithinMaximum => RunWithinMaximum
  <2> SUFFICES ASSUME TypeOK, Consistent, LedgerMatches, WithinMaximum
               PROVE  RunWithinMaximum
    OBVIOUS
  <2>1. {c \in Calls : status[c] \in Outcomes} = Of(Root, Outcomes)
    BY DEF Of, Consistent, Outcomes
  <2>2. spentUsd[Root] = Total(Of(Root, Outcomes), spendUsd, MaxUsd)
    BY WorkflowAssumption DEF LedgerMatches
  <2>3. spentUsd[Root] <= maxUsd[Root]
    <3>1. /\ spentUsd[Root] \in Nat /\ reservedUsd[Root] \in Nat
          /\ maxUsd[Root] \in Int
      BY WorkflowAssumption DEF TypeOK
    <3> QED
      BY <3>1, WorkflowAssumption DEF WithinMaximum
  <2> QED
    BY <2>1, <2>2, <2>3 DEF RunWithinMaximum
<1> QED
  BY <1>1, <1>2, <1>3, PTL DEF WorkflowSpec

-----------------------------------------------------------------------------
(* Pools of routes.                                                        *)

-----------------------------------------------------------------------------
(* The best of the candidates                                              *)

Better(b, m, n, previous) ==
    \/ Score(b, m, previous) > Score(b, n, previous)
    \/ Score(b, m, previous) = Score(b, n, previous) /\ Rank[m] < Rank[n]

LEMMA ScoringTypes ==
    /\ NoModel \notin Models
    /\ Quality \in [Models -> Nat] /\ ExpectedDebit \in [Models -> Nat]
    /\ CacheSavings \in [Models -> Nat] /\ Rank \in [Models -> Nat]
    /\ \A m, n \in Models : Rank[m] = Rank[n] => m = n
    /\ RequestWeight \in Nat \ {0} /\ Huge \in Nat \ {0}
    /\ LearningRate \in Nat /\ PriceMin \in Nat /\ PriceMax \in Nat /\ PriceMin <= PriceMax
    /\ Grants \subseteq Nat /\ Predicted \subseteq Nat /\ Stated \subseteq Nat /\ Prices \subseteq Nat
BY ScoringAssumption

\* The malus of a debit, over a positive denominator.
LEMMA MalusTypes ==
    ASSUME NEW b \in Budget
    PROVE  /\ b.remaining \in Nat /\ b.weight \in Nat /\ b.price \in Nat
           /\ Planning(b) \in Nat \ {0} /\ RequestWeight * b.remaining \in Nat
           /\ Num(b) \in Nat /\ Den(b) \in Nat \ {0}
<1>1. /\ b.remaining \in Nat /\ b.weight \in Nat /\ b.price \in Nat
      /\ RequestWeight \in Nat \ {0} /\ Huge \in Nat \ {0}
  BY ScoringTypes DEF Budget
<1>2. Planning(b) \in Nat \ {0}
  BY <1>1 DEF Planning
<1>3. RequestWeight * b.remaining \in Nat
  BY <1>1
<1>4. Num(b) \in Nat
  BY <1>1, <1>2 DEF Num
<1>5. Den(b) \in Nat \ {0}
  <2>1. CASE b.remaining = 0
    <3>1. RequestWeight * b.remaining * Huge = 0
      BY <1>1, <2>1
    <3>2. Scarce(b)
      BY <1>2, <3>1 DEF Scarce
    <3> QED
      BY <3>2 DEF Den
  <2>2. CASE b.remaining # 0
    <3>1. RequestWeight * b.remaining \in Nat \ {0}
      BY <1>1, <2>2
    <3> QED
      BY <3>1 DEF Den
  <2> QED
    BY <2>1, <2>2
<1> QED
  BY <1>1, <1>2, <1>3, <1>4, <1>5

LEMMA ScoreType ==
    ASSUME NEW b \in Budget, NEW m \in Models, NEW previous
    PROVE  SwitchCost(m, previous) \in Nat /\ Score(b, m, previous) \in Int
<1>1. Quality[m] \in Nat /\ ExpectedDebit[m] \in Nat
  BY ScoringTypes
<1>2. SwitchCost(m, previous) \in Nat
  BY ScoringTypes DEF SwitchCost
<1>3. Num(b) \in Nat /\ Den(b) \in Nat
  BY MalusTypes
<1> QED
  BY <1>1, <1>2, <1>3 DEF Score

\* The order of the candidates has a first.
LEMMA BestIsFirst ==
    ASSUME NEW b \in Budget, NEW C, C \subseteq Models, C # {}, IsFiniteSet(C), NEW previous
    PROVE  /\ Best(b, C, previous) \in C
           /\ \A n \in C \ {Best(b, C, previous)} : Better(b, Best(b, C, previous), n, previous)
<1> DEFINE S(m) == Score(b, m, previous)
           Above(m) == {n \in C : Better(b, n, m, previous)}
<1>1. \A m \in C : S(m) \in Int /\ Rank[m] \in Nat
  BY ScoreType, ScoringTypes
<1>2. \A m, n \in C : m # n => Rank[m] # Rank[n]
  BY ScoringTypes
<1>3. PICK m \in C : \A n \in C : ~(Above(n) \subseteq Above(m) /\ Above(n) # Above(m))
  <2> DEFINE T == {Above(m) : m \in C}
  <2>1. IsWellFoundedOn(StrictSubsetOrdering(C), FiniteSubsetsOf(C))
    BY FS_StrictSubsetOrderingWellFounded
  <2>2. FiniteSubsetsOf(C) = SUBSET C
    BY FS_FiniteSubsetsOfFinite
  <2>3. T \subseteq FiniteSubsetsOf(C) /\ T # {}
    <3>1. \A n \in C : Above(n) \in SUBSET C
      OBVIOUS
    <3> HIDE DEF Above
    <3>2. T \subseteq SUBSET C
      BY <3>1
    <3>3. T # {}
      BY C # {}
    <3> QED
      BY <2>2, <3>2, <3>3
  <2>4. PICK x \in T : \A y \in T : ~(<<y, x>> \in StrictSubsetOrdering(C))
    <3> HIDE DEF T
    <3> QED
      BY <2>1, <2>3, WFMin
  <2>5. PICK m \in C : x = Above(m)
    OBVIOUS
  <2>6. \A n \in C : ~(Above(n) \subseteq Above(m) /\ Above(n) # Above(m))
    <3> SUFFICES ASSUME NEW n \in C, Above(n) \subseteq Above(m), Above(n) # Above(m)
                 PROVE  FALSE
      OBVIOUS
    <3>1. Above(n) \in T /\ Above(n) \in SUBSET C /\ Above(m) \in SUBSET C
      OBVIOUS
    <3> HIDE DEF Above
    <3>2. <<Above(n), Above(m)>> \in StrictSubsetOrdering(C)
      BY <3>1 DEF StrictSubsetOrdering
    <3> QED
      BY <2>4, <2>5, <3>1, <3>2
  <2> QED
    BY <2>6
<1>4. \A n \in C : n \notin Above(m)
  <2> SUFFICES ASSUME NEW n \in C, n \in Above(m)
               PROVE  FALSE
    OBVIOUS
  <2>1. Better(b, n, m, previous)
    OBVIOUS
  <2>2. \A o \in C : Better(b, o, n, previous) => Better(b, o, m, previous)
    BY <1>1, <2>1 DEF Better
  <2>3. Above(n) \subseteq Above(m)
    BY <2>2
  <2>4. ~Better(b, n, n, previous)
    BY <1>1 DEF Better
  <2>5. n \notin Above(n)
    BY <2>4
  <2> QED
    BY <1>3, <2>3, <2>5
<1>5. \A n \in C \ {m} : Better(b, m, n, previous)
  <2> TAKE n \in C \ {m}
  <2>1. ~Better(b, n, m, previous)
    BY <1>4
  <2> QED
    BY <1>1, <1>2, <2>1 DEF Better
<1>6. Best(b, C, previous) = CHOOSE k \in C : \A n \in C \ {k} : Better(b, k, n, previous)
  BY DEF Best, Better
<1> QED
  BY <1>5, <1>6

-----------------------------------------------------------------------------
(* After a request that took more than its share                           *)

LEMMA Products ==
    ASSUME NEW x \in Nat, NEW y \in Nat, NEW z \in Nat, NEW u \in Nat, x <= y, z <= u
    PROVE  x * z \in Nat /\ x * z <= y * u
<1>1. x * z \in Nat /\ x * u \in Nat /\ y * u \in Nat
  OBVIOUS
<1>2. x * z <= x * u
  OBVIOUS
<1>3. x * u <= y * u
  OBVIOUS
<1> QED
  BY <1>1, <1>2, <1>3

LEMMA Cancels ==
    ASSUME NEW x \in Int, NEW y \in Int, NEW z \in Nat \ {0}, x * z <= y * z
    PROVE  x <= y
<1> SUFFICES ASSUME x >= y + 1
             PROVE  FALSE
  OBVIOUS
<1>1. x * z >= (y + 1) * z
  OBVIOUS
<1>2. (y + 1) * z = y * z + z
  OBVIOUS
<1> QED
  BY <1>1, <1>2

\* Less remains per weight than before.
LEMMA LessPerWeight ==
    ASSUME NEW b \in Budget, NEW d \in Nat, d <= b.remaining, Overspends(b, d)
    PROVE  /\ NextBudget(b, d) \in Budget
           /\ b.price <= NextBudget(b, d).price
           /\ NextBudget(b, d).remaining * Planning(b)
                  <= b.remaining * Planning(NextBudget(b, d))
<1> DEFINE nb == NextBudget(b, d)
           W == RequestWeight
           R == b.remaining
           P == Planning(b)
<1>1. /\ W \in Nat \ {0} /\ R \in Nat /\ P \in Nat \ {0} /\ W * R \in Nat
      /\ LearningRate \in Nat /\ b.price \in PriceMin..PriceMax /\ b.weight \in Nat
      /\ PriceMin \in Nat /\ PriceMax \in Nat /\ PriceMin <= PriceMax
  BY MalusTypes, ScoringTypes DEF Budget
<1>2. d * P >= W * R /\ d * P \in Nat
  BY <1>1 DEF Overspends
<1>3. Gradient(b, d) \in Nat
  <2>1. d * P - W * R \in Nat
    BY <1>1, <1>2
  <2>2. LearningRate * (d * P - W * R) \in Nat
    BY <1>1, <2>1
  <2>3. \A x \in Nat, y \in Nat \ {0} : x \div y \in Nat
    OBVIOUS
  <2> HIDE DEF P, W, R
  <2>4. (LearningRate * (d * P - W * R)) \div P \in Nat
    BY <1>1, <2>2, <2>3
  <2> QED
    BY <2>4 DEF Gradient, P, W, R
<1>4. Price(b, d) \in PriceMin..PriceMax /\ b.price <= Price(b, d)
  BY <1>1, <1>3 DEF Price, Clamp
<1>5. /\ nb.remaining = R - d /\ nb.price = Price(b, d)
      /\ nb.weight = IF b.weight > W THEN b.weight - W ELSE 0
  BY DEF NextBudget
<1>6. nb \in Budget
  <2>1. R - d \in Nat /\ (IF b.weight > W THEN b.weight - W ELSE 0) \in Nat
    BY <1>1
  <2> QED
    BY <1>4, <2>1 DEF NextBudget, Budget
<1>7. (R - d) * P <= R * Planning(nb)
  <2>1. Planning(nb) \in Nat \ {0} /\ Planning(nb) >= W
    BY <1>1, <1>5, <1>6, MalusTypes DEF Planning
  <2>2. CASE b.weight > W
    <3>1. P = b.weight /\ Planning(nb) >= P - W /\ P - W \in Nat
      BY <1>1, <1>5, <2>2 DEF Planning
    <3> HIDE DEF P, R, W, nb
    <3>2. (R - d) * P = R * P - d * P /\ R * (P - W) = R * P - W * R
      BY <1>1
    <3>3. R * P \in Nat
      BY <1>1
    <3>4. (R - d) * P <= R * (P - W)
      BY <1>1, <1>2, <3>2, <3>3
    <3>5. R * (P - W) <= R * Planning(nb)
      BY <1>1, <2>1, <3>1, Products
    <3>6. R * (P - W) \in Int /\ R * Planning(nb) \in Int /\ (R - d) * P \in Int
      BY <1>1, <2>1
    <3> QED
      BY <3>4, <3>5, <3>6
  <2>3. CASE ~(b.weight > W)
    <3>1. P = W
      BY <1>1, <2>3 DEF Planning
    <3>2. R - d \in Nat /\ R - d <= R
      BY <1>1
    <3> HIDE DEF P, R, W, nb
    <3> QED
      BY <1>1, <2>1, <3>1, <3>2, Products
  <2> QED
    BY <2>2, <2>3
<1> QED
  BY <1>4, <1>5, <1>6, <1>7

\* A higher price over a lower share is a steeper malus.
LEMMA Steeper ==
    ASSUME NEW b \in Budget, NEW c \in Budget, b.price <= c.price,
           c.remaining * Planning(b) <= b.remaining * Planning(c)
    PROVE  Num(b) * Den(c) <= Num(c) * Den(b)
<1> DEFINE W == RequestWeight
           H == Huge
           p == b.price
           q == c.price
           P == Planning(b)
           Q == Planning(c)
           R == b.remaining
           S == c.remaining
<1>1. /\ W \in Nat \ {0} /\ H \in Nat \ {0} /\ p \in Nat /\ q \in Nat
      /\ P \in Nat \ {0} /\ Q \in Nat \ {0} /\ R \in Nat /\ S \in Nat
      /\ p <= q /\ S * P <= R * Q
  BY MalusTypes, ScoringTypes
<1>2. /\ Scarce(b) <=> W * R * H <= P
      /\ Scarce(c) <=> W * S * H <= Q
      /\ Num(b) = IF Scarce(b) THEN p * H ELSE p * P
      /\ Den(b) = IF Scarce(b) THEN 1 ELSE W * R
      /\ Num(c) = IF Scarce(c) THEN q * H ELSE q * Q
      /\ Den(c) = IF Scarce(c) THEN 1 ELSE W * S
  BY DEF Scarce, Num, Den
<1> HIDE DEF W, H, p, q, P, Q, R, S
<1>3. /\ W * R \in Nat /\ W * S \in Nat /\ W * R * H \in Nat /\ W * S * H \in Nat
      /\ p * H \in Nat /\ q * H \in Nat /\ p * P \in Nat /\ q * Q \in Nat
      /\ R * Q \in Nat /\ S * P \in Nat
  BY <1>1
<1>4. CASE Scarce(b) /\ Scarce(c)
  <2>1. p * H <= q * H
    BY <1>1, Products
  <2> QED
    BY <1>2, <1>3, <1>4, <2>1
<1>5. CASE ~Scarce(b) /\ Scarce(c)
  <2>1. P <= W * R * H
    BY <1>1, <1>2, <1>3, <1>5
  <2>2. p * P <= q * (W * R * H)
    BY <1>1, <1>3, <2>1, Products
  <2>3. q * (W * R * H) = (q * H) * (W * R)
    BY <1>1
  <2>4. Num(b) * Den(c) = p * P /\ Num(c) * Den(b) = (q * H) * (W * R)
    BY <1>2, <1>3, <1>5
  <2> QED
    BY <2>2, <2>3, <2>4
<1>6. CASE ~Scarce(b) /\ ~Scarce(c)
  <2>1. p * (S * P) <= q * (R * Q)
    BY <1>1, <1>3, Products
  <2>2. W * (p * (S * P)) <= W * (q * (R * Q))
    <3>1. p * (S * P) \in Nat /\ q * (R * Q) \in Nat
      BY <1>1, <1>3
    <3> QED
      BY <1>1, <2>1, <3>1, Products
  <2>3. W * (p * (S * P)) = (p * P) * (W * S) /\ W * (q * (R * Q)) = (q * Q) * (W * R)
    BY <1>1
  <2>4. Num(b) * Den(c) = (p * P) * (W * S) /\ Num(c) * Den(b) = (q * Q) * (W * R)
    BY <1>2, <1>6
  <2> QED
    BY <2>2, <2>3, <2>4
<1>7. CASE Scarce(b) /\ ~Scarce(c)
  \* A larger share is not scarce when the smaller one is not.
  <2>1. (W * S * H) * P = (W * H) * (S * P)
    BY <1>1
  <2>2. (W * H) * (S * P) <= (W * H) * (R * Q)
    <3>1. W * H \in Nat
      BY <1>1
    <3> QED
      BY <1>1, <1>3, <3>1, Products
  <2>3. (W * H) * (R * Q) = (W * R * H) * Q
    BY <1>1
  <2>4. (W * R * H) * Q <= P * Q
    BY <1>1, <1>2, <1>3, <1>7, Products
  <2>5. (W * S * H) * P <= Q * P
    <3>1. /\ (W * S * H) * P \in Nat /\ (W * H) * (R * Q) \in Nat /\ P * Q \in Nat
          /\ P * Q = Q * P
      BY <1>1, <1>3
    <3> QED
      BY <2>1, <2>2, <2>3, <2>4, <3>1
  <2>6. W * S * H <= Q
    BY <1>1, <1>3, <2>5, Cancels
  <2> QED
    BY <1>2, <1>7, <2>6
<1> QED
  BY <1>4, <1>5, <1>6, <1>7

\* A lead X at the slope N / D is no smaller a lead at a steeper one.
LEMMA LeadKept ==
    ASSUME NEW X \in Int, NEW Y \in Int, X <= Y, NEW e \in Nat, NEW N \in Nat, NEW N2 \in Nat,
           NEW D \in Nat \ {0}, NEW D2 \in Nat \ {0},
           N * D2 <= N2 * D, X * D + e * N >= 0
    PROVE  /\ Y * D2 + e * N2 >= 0
           /\ Y * D2 + e * N2 = 0 => X * D + e * N = 0
<1> DEFINE old == X * D + e * N
           new == X * D2 + e * N2
<1>1. /\ old \in Int /\ new \in Int /\ Y * D2 + e * N2 \in Int /\ Y * D2 \in Int /\ X * D2 \in Int
      /\ e * N2 \in Int
  OBVIOUS
<1>2. old * D2 = X * D * D2 + e * (N * D2)
  OBVIOUS
<1>3. new * D = X * D * D2 + e * (N2 * D)
  OBVIOUS
<1>4. e * (N * D2) <= e * (N2 * D)
  <2>1. N * D2 \in Nat /\ N2 * D \in Nat
    OBVIOUS
  <2> QED
    BY <2>1, Products
<1>5. old * D2 <= new * D
  <2>1. X * D * D2 \in Int /\ e * (N * D2) \in Int /\ e * (N2 * D) \in Int
    OBVIOUS
  <2> HIDE DEF old, new
  <2> QED
    BY <1>2, <1>3, <1>4, <2>1
<1>6. X * D2 <= Y * D2
  <2>1. Y - X \in Nat /\ (Y - X) * D2 \in Nat /\ (Y - X) * D2 = Y * D2 - X * D2
    OBVIOUS
  <2> QED
    BY <1>1, <2>1
<1>7. Y * D2 + e * N2 >= new
  BY <1>1, <1>6
<1>8. old >= 0
  OBVIOUS
<1> HIDE DEF old, new
<1>9. new >= 0
  <2>1. 0 * D <= old * D2
    <3>1. old \in Nat
      BY <1>1, <1>8
    <3> QED
      BY <3>1
  <2>2. old * D2 \in Int /\ new * D \in Int /\ 0 * D = 0
    BY <1>1
  <2>3. 0 * D <= new * D
    BY <1>5, <2>1, <2>2
  <2> QED
    BY <1>1, <2>3, Cancels
<1>10. new = 0 => old = 0
  <2> SUFFICES ASSUME new = 0
               PROVE  old = 0
    OBVIOUS
  <2>1. old * D2 <= 0 * D2
    BY <1>1, <1>5
  <2>2. old <= 0
    BY <1>1, <2>1, Cancels
  <2> QED
    BY <1>1, <1>8, <2>2
<1>11. Y * D2 + e * N2 = 0 => old = 0
  BY <1>1, <1>7, <1>9, <1>10
<1> QED
  BY <1>1, <1>7, <1>9, <1>11 DEF old

LEMMA NoDearer ==
    ASSUME NEW b \in Budget, NEW C, C \subseteq Models, C # {}, IsFiniteSet(C),
           NEW previous \in Models \cup {NoModel}, NEW m, m = Best(b, C, previous),
           ExpectedDebit[m] <= b.remaining, Overspends(b, ExpectedDebit[m])
    PROVE  ExpectedDebit[Best(NextBudget(b, ExpectedDebit[m]), C, m)] <= ExpectedDebit[m]
<1> DEFINE d == ExpectedDebit[m]
           c == NextBudget(b, d)
           k == Best(c, C, m)
<1>1. /\ m \in C /\ m \in Models /\ d \in Nat
      /\ \A n \in C \ {m} : Better(b, m, n, previous)
  BY BestIsFirst, ScoringTypes
<1>2. c \in Budget /\ b.price <= c.price /\ c.remaining * Planning(b) <= b.remaining * Planning(c)
  BY <1>1, LessPerWeight
<1>3. Num(b) * Den(c) <= Num(c) * Den(b)
  BY <1>2, Steeper
<1>4. /\ k \in C /\ k \in Models /\ ExpectedDebit[k] \in Nat
      /\ \A n \in C \ {k} : Better(c, k, n, m)
  <2> HIDE DEF c
  <2> QED
    BY <1>2, BestIsFirst, ScoringTypes
<1> SUFFICES ASSUME ExpectedDebit[k] > d
             PROVE  FALSE
  BY <1>1, <1>4
<1> HIDE DEF c, k
<1>5. k # m
  BY <1>1, <1>4
<1>6. Better(b, m, k, previous) /\ Better(c, k, m, m)
  BY <1>1, <1>4, <1>5
<1> DEFINE e == ExpectedDebit[k] - d
           X == Quality[m] - SwitchCost(m, previous) - (Quality[k] - SwitchCost(k, previous))
           Y == Quality[m] - SwitchCost(m, m) - (Quality[k] - SwitchCost(k, m))
<1>7. /\ Quality[m] \in Nat /\ Quality[k] \in Nat /\ Rank[m] \in Nat /\ Rank[k] \in Nat
      /\ CacheSavings \in [Models -> Nat]
  BY <1>1, <1>4, ScoringTypes
<1>8. /\ SwitchCost(m, previous) \in Nat /\ SwitchCost(k, previous) \in Nat
      /\ SwitchCost(m, m) = 0 /\ SwitchCost(k, m) = CacheSavings[m] /\ CacheSavings[m] \in Nat
  BY <1>1, <1>4, <1>5, <1>7, ScoreType DEF SwitchCost
<1>9. SwitchCost(k, previous) <= SwitchCost(m, previous) + CacheSavings[m]
  <2>1. CASE previous = m
    BY <1>7, <1>8, <2>1
  <2>2. CASE previous # m /\ previous \in Models
    <3>1. SwitchCost(m, previous) = CacheSavings[previous] /\ CacheSavings[previous] \in Nat
      BY <1>7, <2>2 DEF SwitchCost
    <3>2. SwitchCost(k, previous) = CacheSavings[previous] \/ SwitchCost(k, previous) = 0
      BY DEF SwitchCost
    <3> QED
      BY <1>8, <3>1, <3>2
  <2>3. CASE previous \notin Models
    BY <1>8, <2>3 DEF SwitchCost
  <2> QED
    BY <2>1, <2>2, <2>3
<1>10. e \in Nat /\ X \in Int /\ Y \in Int /\ X <= Y
  BY <1>1, <1>4, <1>7, <1>8, <1>9
<1>11. /\ Num(b) \in Nat /\ Num(c) \in Nat /\ Den(b) \in Nat \ {0} /\ Den(c) \in Nat \ {0}
  BY <1>2, MalusTypes
<1>12. Score(b, m, previous) - Score(b, k, previous) = X * Den(b) + e * Num(b)
  <2>1. \A qm, qk, D, N, dm, dk \in Int :
            (qm * D - dm * N) - (qk * D - dk * N) = (qm - qk) * D + (dk - dm) * N
    OBVIOUS
  <2>2. /\ Quality[m] - SwitchCost(m, previous) \in Int
        /\ Quality[k] - SwitchCost(k, previous) \in Int
    BY <1>7, <1>8
  <2> QED
    BY <1>1, <1>4, <1>11, <2>1, <2>2 DEF Score
<1>13. Score(c, m, m) - Score(c, k, m) = Y * Den(c) + e * Num(c)
  <2>1. \A qm, qk, D, N, dm, dk \in Int :
            (qm * D - dm * N) - (qk * D - dk * N) = (qm - qk) * D + (dk - dm) * N
    OBVIOUS
  <2>2. Quality[m] - SwitchCost(m, m) \in Int /\ Quality[k] - SwitchCost(k, m) \in Int
    BY <1>7, <1>8
  <2> QED
    BY <1>1, <1>4, <1>11, <2>1, <2>2 DEF Score
<1>14. /\ Score(b, m, previous) \in Int /\ Score(b, k, previous) \in Int
       /\ Score(c, m, m) \in Int /\ Score(c, k, m) \in Int
  BY <1>1, <1>2, <1>4, ScoreType
<1>15. X * Den(b) + e * Num(b) >= 0
  BY <1>6, <1>12, <1>14 DEF Better
<1> HIDE DEF e, X, Y
<1>16. /\ Y * Den(c) + e * Num(c) >= 0
       /\ Y * Den(c) + e * Num(c) = 0 => X * Den(b) + e * Num(b) = 0
  <2>1. PICK N \in Nat, N2 \in Nat, D \in Nat \ {0}, D2 \in Nat \ {0} :
            N = Num(b) /\ N2 = Num(c) /\ D = Den(b) /\ D2 = Den(c)
    BY <1>11
  <2>2. N * D2 <= N2 * D /\ X * D + e * N >= 0
    BY <1>3, <1>15, <2>1
  <2>3. Y * D2 + e * N2 >= 0 /\ (Y * D2 + e * N2 = 0 => X * D + e * N = 0)
    BY <1>10, <2>2, LeadKept
  <2> QED
    BY <2>1, <2>3
\* The first of equals has the lower rank, before and after.
<1>17. Y * Den(c) + e * Num(c) = 0 /\ Rank[k] < Rank[m]
  BY <1>6, <1>13, <1>14, <1>16 DEF Better
<1>18. Rank[m] < Rank[k]
  BY <1>6, <1>12, <1>14, <1>16, <1>17 DEF Better
<1> QED
  BY <1>7, <1>17, <1>18

-----------------------------------------------------------------------------
(* The invariant                                                           *)

Pools == [Routes -> SUBSET Models]
Policy == [routes : SUBSET (Routes \cup {Catalog}), versions : Pools,
           routingStrategy : {"none", "catalog_wide"}, strategy : Strategies,
           catalog : SUBSET Models]
Schedule == [routes : SUBSET Routes, catalog : SUBSET Models, strategy : Strategies,
             enabled : BOOLEAN]
Job == [status : {"none", "queued", "dispatching", "running", "succeeded", "failed"},
        due : BOOLEAN, strategy : Strategies, routes : SUBSET Routes]
Writer == [at : {"idle", "select", "pools", "policy", "purge", "schedule", "finish", "done"},
           job : Jobs \cup {NoJob}, strategy : Strategies, routes : SUBSET Routes,
           catalog : SUBSET Models, enabled : BOOLEAN, pools : Pools, left : SUBSET Routes]
Request == [at : {"idle", "routed", "answered"}, policy : Policy, named : SUBSET Models,
            usable : SUBSET Models, model : Models \cup {NoModel}, budget : Budget]

PoolsTypeOK ==
    /\ pools \in Pools /\ policy \in Policy /\ schedule \in Schedule
    /\ job \in [Jobs -> Job] /\ writer \in [Writers -> Writer]
    /\ request \in [Requests -> Request]
    /\ writing \subseteq Writers

\* A request keeps the names that it read, and has its answer from them.
RequestTells(q) ==
    /\ request[q].at = "routed" => request[q].named = NamedModels(request[q].policy)
    /\ request[q].at = "answered" =>
          /\ request[q].model \in request[q].named
          /\ LET b == request[q].budget
                 m == request[q].model
                 d == ExpectedDebit[m]
             IN d <= b.remaining /\ Overspends(b, d) =>
                    ExpectedDebit[Best(NextBudget(b, d), request[q].usable, m)] <= d

\* What the writer x writes.
WrittenBy(x) == IF x.job = NoJob THEN "route_pool" ELSE x.strategy

\* A writer has pools for exactly the routes it names; without pools it has a
\* catalog.
Tells(x) ==
    /\ x.at \in {"idle", "select"} => x.pools = NoPools
    /\ x.at = "idle" => x.job = NoJob
    /\ x.at \in Working /\ WrittenBy(x) = "catalog_wide" => x.catalog # {} /\ x.pools = NoPools
    /\ x.at \in {"pools", "policy", "purge"} /\ WrittenBy(x) = "route_pool" =>
          Named(x.pools) = x.routes
    /\ x.at = "pools" => WrittenBy(x) = "route_pool"

WriterTells(w) == Tells(writer[w])

Busy(w) == writer[w].at \in {"pools", "policy", "purge"}

\* Requests are routed the way x wrote, or one of the two exceptions holds.
RoutedAs(p, wrote, strategy) ==
    RoutingStrategy(p) # wrote =>
        wrote = "route_pool" /\ (p.catalog # {} \/ strategy = "catalog_wide")

\* What a writer that is by itself has written so far.
HasWritten(w) ==
    LET x == writer[w] IN
    /\ \A r \in Named(x.pools) : (x.at = "pools" /\ r \in x.left) \/ pools[r] = x.pools[r]
    /\ x.at = "purge" =>
          /\ policy.versions = x.pools
          /\ policy.routes = IF WrittenBy(x) = "catalog_wide" THEN {Catalog} ELSE x.routes
          /\ RoutedAs(policy, WrittenBy(x), x.strategy)

ByItself ==
    /\ settled # NoSetup => \A w \in Writers : ~Busy(w)
    /\ \A w \in writing : Busy(w) /\ (\A v \in Writers \ {w} : ~Busy(v)) /\ HasWritten(w)

\* The document has a strategy of its own only with a catalog.
PolicyTells ==
    policy.routingStrategy = "none" \/ (policy.routingStrategy = "catalog_wide" /\ policy.catalog # {})

PoolsInv ==
    /\ PoolsTypeOK
    /\ \A q \in Requests : RequestTells(q)
    /\ \A w \in Writers : WriterTells(w)
    /\ ByItself /\ PolicyTells /\ SettledIsStored

LEMMA NoPoolsType == NoPools \in Pools /\ Named(NoPools) = {}
BY DEF NoPools, Pools, Named

LEMMA BudgetsFound == FoundBudgets \subseteq Budget /\ IdleRequest.budget \in Budget
<1>1. SetupBudgets \subseteq Budget
  <2> SUFFICES ASSUME NEW g \in Grants, NEW n \in Predicted, NEW s \in Stated,
                      NEW p \in Prices \cap (PriceMin..PriceMax)
               PROVE  [remaining |-> g, weight |-> PlannedWeight(n, s), price |-> p] \in Budget
    BY DEF SetupBudgets
  <2>1. g \in Nat /\ n \in Nat /\ s \in Nat /\ RequestWeight \in Nat
    BY ScoringTypes
  <2>2. n * RequestWeight \in Nat
    BY <2>1
  <2> QED
    BY <2>1, <2>2 DEF PlannedWeight, Budget
<1>2. ASSUME NEW b \in SetupBudgets, NEW m \in Models, ExpectedDebit[m] <= b.remaining
      PROVE  NextBudget(b, ExpectedDebit[m]) \in Budget
  <2> DEFINE d == ExpectedDebit[m]
  <2>1. b.remaining \in Nat /\ b.weight \in Nat /\ d \in Nat /\ RequestWeight \in Nat
        /\ Planning(b) \in Nat \ {0}
        /\ LearningRate \in Nat /\ b.price \in Nat /\ PriceMin \in Nat /\ PriceMax \in Nat
        /\ PriceMin <= PriceMax
    BY <1>1, ScoringTypes, MalusTypes
  <2> HIDE DEF d
  <2>2. b.remaining - d \in Nat
    BY <1>2, <2>1 DEF d
  <2>3. (IF b.weight > RequestWeight THEN b.weight - RequestWeight ELSE 0) \in Nat
    BY <2>1
  <2>4. Gradient(b, d) \in Int
    <3>1. LearningRate * (d * Planning(b) - RequestWeight * b.remaining) \in Int
      BY <2>1
    <3>2. \A x \in Int, y \in Nat \ {0} : x \div y \in Int
      OBVIOUS
    <3> QED
      BY <2>1, <3>1, <3>2 DEF Gradient
  <2>5. Price(b, d) \in PriceMin..PriceMax
    BY <2>1, <2>4 DEF Price, Clamp
  <2> QED
    BY <2>2, <2>3, <2>5 DEF NextBudget, Budget, d
<1>3. FoundBudgets \subseteq Budget
  BY <1>1, <1>2 DEF FoundBudgets
<1>4. PriceMin \in PriceMin..PriceMax
  BY ScoringTypes
<1> QED
  BY <1>3, <1>4 DEF IdleRequest, Budget

LEMMA IdleTypes ==
    /\ IdleWriter \in Writer /\ NoPolicy \in Policy /\ NoSchedule \in Schedule
    /\ NewJob \in Job /\ IdleRequest \in Request
<1>1. NoPolicy \in Policy
  BY NoPoolsType DEF NoPolicy, Policy, Strategies
<1>2. IdleWriter \in Writer
  BY NoPoolsType DEF IdleWriter, Writer, Strategies
<1>3. NoSchedule \in Schedule /\ NewJob \in Job
  BY DEF NoSchedule, Schedule, NewJob, Job, Strategies
<1>4. IdleRequest \in Request
  BY <1>1, BudgetsFound DEF IdleRequest, Request
<1> QED
  BY <1>1, <1>2, <1>3, <1>4

\* What is left of a catalog is enough, so it is not empty.
LEMMA CatalogIsLeft ==
    ASSUME NEW least, NEW catalog \in Hydrated(least)
    PROVE  catalog \in SUBSET Models /\ catalog # {}
<1>1. catalog \in SUBSET Models /\ Cardinality(catalog) >= MinCandidates /\ MinCandidates \in Nat \ {0}
  BY PoolsAssumption DEF Hydrated, ValidCatalog
<1>2. Cardinality({}) = 0
  BY FS_EmptySet
<1> QED
  BY <1>1, <1>2

LEMMA SelectionIsNamed ==
    ASSUME NEW routes, NEW catalog \in SUBSET Models, NEW a \in Selections(routes, catalog)
    PROVE  a \in Pools /\ Named(a) = routes
BY DEF Selections, Pools

-----------------------------------------------------------------------------
(* Steps of a writer                                                       *)

\* What a writer does to itself.
Becomes(w, x) == x \in Writer /\ Tells(x) /\ writer' = [writer EXCEPT ![w] = x]

LEMMA WriterStep ==
    ASSUME PoolsTypeOK, \A v \in Writers : WriterTells(v), NEW w \in Writers, NEW x, Becomes(w, x)
    PROVE  /\ writer' \in [Writers -> Writer] /\ \A v \in Writers : WriterTells(v)'
           /\ writer'[w] = x /\ \A v \in Writers \ {w} : writer'[v] = writer[v]
BY DEF PoolsTypeOK, Becomes, WriterTells

LEMMA EndedBecomes ==
    ASSUME NEW w \in Writers, WriterEnds(w)
    PROVE  Becomes(w, [IdleWriter EXCEPT !.at = "done"])
<1>1. [IdleWriter EXCEPT !.at = "done"] \in Writer
  BY IdleTypes DEF Writer
<1>2. Tells([IdleWriter EXCEPT !.at = "done"])
  BY DEF Tells, IdleWriter, Working
<1> QED
  BY <1>1, <1>2 DEF WriterEnds, Becomes

\* Beyond its writes a writer keeps what it tells.
LEMMA GoneBecomes ==
    ASSUME PoolsTypeOK, NEW w \in Writers, WriterTells(w), NEW l \in {"schedule", "finish"},
           writer[w].at \in Working, WriterGoto(w, l)
    PROVE  Becomes(w, [writer[w] EXCEPT !.at = l])
<1> DEFINE x == [writer[w] EXCEPT !.at = l]
<1>1. writer[w] \in Writer
  BY DEF PoolsTypeOK
<1>2. /\ x \in Writer /\ x.at = l /\ WrittenBy(x) = WrittenBy(writer[w])
      /\ x.catalog = writer[w].catalog /\ x.pools = writer[w].pools
  BY <1>1 DEF Writer, WrittenBy
<1>3. writer' = [writer EXCEPT ![w] = x]
  BY DEF WriterGoto
<1> HIDE DEF x
<1>4. Tells(x)
  BY <1>2 DEF WriterTells, Tells, Working
<1> QED
  BY <1>2, <1>3, <1>4 DEF Becomes, x

\* A writer that begins.
LEMMA BegunBecomes ==
    ASSUME NEW w \in Writers, NEW x \in Writer, x.at = "select", x.pools = NoPools,
           WrittenBy(x) = "catalog_wide" => x.catalog # {},
           writer' = [writer EXCEPT ![w] = x]
    PROVE  Becomes(w, x)
BY DEF Becomes, Tells

-----------------------------------------------------------------------------
(* Steps that write nothing                                                *)

\* Nobody begins to write, and who is by itself is where it was.
LEMMA QuietStep ==
    ASSUME PoolsInv, pools' = pools, policy' = policy, settled' = settled, writing' \subseteq writing,
           \A v \in Writers : Busy(v)' => Busy(v),
           \A v \in writing' : writer'[v] = writer[v]
    PROVE  ByItself' /\ PolicyTells' /\ SettledIsStored'
<1>1. /\ settled # NoSetup => \A v \in Writers : ~Busy(v)
      /\ \A v \in writing : Busy(v) /\ (\A u \in Writers \ {v} : ~Busy(u)) /\ HasWritten(v)
  BY DEF PoolsInv, ByItself
<1>2. \A v \in writing' : Busy(v)' /\ HasWritten(v)'
  BY <1>1 DEF Busy, HasWritten, RoutedAs
<1>3. ByItself'
  BY <1>1, <1>2 DEF ByItself
<1>4. PolicyTells' /\ SettledIsStored'
  BY DEF PoolsInv, PolicyTells, SettledIsStored, Stored
<1> QED
  BY <1>3, <1>4

\* A writer that is not at work on pools and policy does not become so.
LEMMA QuietWriter ==
    ASSUME PoolsInv, NEW w \in Writers, NEW x, Becomes(w, x),
           x.at \notin {"pools", "policy", "purge"},
           UNCHANGED <<pools, policy, request, settled>>,
           writing' = writing \/ writing' = writing \ {w},
           ~Busy(w) \/ writing' = writing \ {w},
           schedule' \in Schedule, job' \in [Jobs -> Job]
    PROVE  PoolsInv'
<1>1. /\ PoolsTypeOK /\ \A v \in Writers : WriterTells(v)
      /\ writing \subseteq Writers /\ \A v \in writing : Busy(v)
  BY DEF PoolsInv, ByItself, PoolsTypeOK
<1>2. /\ writer' \in [Writers -> Writer] /\ \A v \in Writers : WriterTells(v)'
      /\ writer'[w] = x /\ \A v \in Writers \ {w} : writer'[v] = writer[v]
  BY <1>1, WriterStep
<1>3. \A v \in Writers : Busy(v)' => Busy(v)
  BY <1>2 DEF Busy
<1>4. w \notin writing' /\ writing' \subseteq writing
  BY <1>1
<1>5. ByItself' /\ PolicyTells' /\ SettledIsStored'
  <2>1. \A v \in writing' : writer'[v] = writer[v]
    BY <1>1, <1>2, <1>4
  <2> QED
    BY <1>3, <1>4, <2>1, QuietStep
<1>6. PoolsTypeOK'
  BY <1>1, <1>2, <1>4 DEF PoolsTypeOK
<1>7. \A q \in Requests : RequestTells(q)'
  BY DEF PoolsInv, RequestTells
<1> QED
  BY <1>2, <1>5, <1>6, <1>7 DEF PoolsInv

LEMMA JobStep ==
    ASSUME PoolsInv, NEW j \in Jobs, CreateJob(j) \/ DispatchJob(j)
    PROVE  PoolsInv'
<1>1. /\ PoolsTypeOK /\ job[j] \in Job /\ job \in [Jobs -> Job]
      /\ pools' = pools /\ policy' = policy /\ schedule' = schedule /\ writer' = writer
      /\ request' = request /\ writing' = writing /\ settled' = settled
  BY DEF PoolsInv, PoolsTypeOK, CreateJob, DispatchJob, store, history
<1>2. job' \in [Jobs -> Job]
  <2>1. CASE CreateJob(j)
    <3>1. PICK routes \in SetupRoutes, strategy \in Strategies :
             job' = [job EXCEPT ![j] = [job[j] EXCEPT
                         !.status = "queued", !.strategy = strategy, !.routes = routes]]
      BY <2>1 DEF CreateJob, Strategies
    <3>2. routes \in SUBSET Routes
      BY DEF SetupRoutes
    <3>3. [job[j] EXCEPT !.status = "queued", !.strategy = strategy, !.routes = routes] \in Job
      BY <1>1, <3>2 DEF Job
    <3> QED
      BY <1>1, <3>1, <3>3
  <2>2. CASE DispatchJob(j)
    <3>1. job' = [job EXCEPT ![j] = [job[j] EXCEPT !.status = "dispatching", !.due = TRUE]]
      BY <2>2 DEF DispatchJob
    <3>2. [job[j] EXCEPT !.status = "dispatching", !.due = TRUE] \in Job
      BY <1>1 DEF Job
    <3> QED
      BY <1>1, <3>1, <3>2
  <2> QED
    BY <2>1, <2>2
<1>3. PoolsTypeOK'
  BY <1>1, <1>2 DEF PoolsTypeOK
<1>4. ByItself' /\ PolicyTells' /\ SettledIsStored'
  BY <1>1, QuietStep DEF Busy
<1> QED
  BY <1>1, <1>3, <1>4 DEF PoolsInv, WriterTells, RequestTells

\* A report of a job.
LEMMA ReportType ==
    ASSUME PoolsTypeOK, NEW w \in Writers, NEW result \in {"succeeded", "failed"}, Reports(w, result)
    PROVE  job' \in [Jobs -> Job]
<1>1. \A j \in Jobs : [job[j] EXCEPT !.status = result] \in Job
  BY DEF PoolsTypeOK, Job
<1> QED
  BY <1>1 DEF Reports, PoolsTypeOK

LEMMA BeginStep ==
    ASSUME PoolsInv, NEW w \in Writers,
           BeginSetup(w) \/ BeginUpdate(w) \/ \E j \in Jobs : BeginJob(w, j)
    PROVE  PoolsInv'
<1>1. /\ PoolsTypeOK /\ WriterTells(w) /\ writer[w] \in Writer /\ schedule \in Schedule
      /\ job \in [Jobs -> Job] /\ writer[w].at = "idle" /\ writer[w].job = NoJob
      /\ writer[w].pools = NoPools
      /\ writer[w].enabled \in BOOLEAN /\ writer[w].job \in Jobs \cup {NoJob}
      /\ UNCHANGED <<store, request, history>>
  BY DEF PoolsInv, PoolsTypeOK, BeginSetup, BeginUpdate, BeginJob, WriterAt, WriterTells, Tells, Writer
<1>2. /\ UNCHANGED <<pools, policy, request, settled>> /\ writing' = writing
      /\ schedule' \in Schedule /\ ~Busy(w)
  BY <1>1 DEF store, history, Busy
<1>3. CASE BeginSetup(w)
  <2>1. PICK routes \in SetupRoutes, catalog \in Hydrated(MinCandidates),
             strategy \in Strategies :
           writer' = [writer EXCEPT ![w] = [writer[w] EXCEPT
               !.at = "select", !.strategy = strategy, !.routes = routes, !.catalog = catalog]]
    BY <1>3 DEF BeginSetup
  <2>2. routes \in SUBSET Routes /\ catalog \in SUBSET Models /\ catalog # {}
    BY CatalogIsLeft DEF SetupRoutes
  <2> DEFINE x == [writer[w] EXCEPT !.at = "select", !.strategy = strategy,
                       !.routes = routes, !.catalog = catalog]
  <2>3. /\ x \in Writer /\ x.at = "select" /\ x.pools = NoPools
        /\ WrittenBy(x) = "catalog_wide" => x.catalog # {}
    BY <1>1, <2>2 DEF Writer
  <2>4. \E y : Becomes(w, y) /\ y.at = "select"
    BY <2>1, <2>3, BegunBecomes
  <2>5. job' \in [Jobs -> Job]
    BY <1>1, <1>3 DEF BeginSetup
  <2> QED
    BY <1>2, <2>4, <2>5, QuietWriter
<1>4. CASE BeginUpdate(w)
  <2>1. writer' = [writer EXCEPT ![w] = [writer[w] EXCEPT
           !.at = "select", !.strategy = schedule.strategy, !.routes = schedule.routes,
           !.catalog = schedule.catalog, !.enabled = schedule.enabled]]
    BY <1>4 DEF BeginUpdate
  <2>2. schedule.routes \in SUBSET Routes /\ schedule.catalog \in SUBSET Models
        /\ schedule.enabled \in BOOLEAN /\ schedule.strategy \in Strategies
    BY <1>1 DEF Schedule
  <2> DEFINE x == [writer[w] EXCEPT !.at = "select", !.strategy = schedule.strategy,
                       !.routes = schedule.routes, !.catalog = schedule.catalog, !.enabled = schedule.enabled]
  <2>3. /\ x \in Writer /\ x.at = "select" /\ x.pools = NoPools
        /\ WrittenBy(x) # "catalog_wide"
    BY <1>1, <2>2 DEF Writer, WrittenBy
  <2>4. \E y : Becomes(w, y) /\ y.at = "select"
    BY <2>1, <2>3, BegunBecomes
  <2>5. job' \in [Jobs -> Job]
    BY <1>1, <1>4 DEF BeginUpdate
  <2> QED
    BY <1>2, <2>4, <2>5, QuietWriter
<1>5. ASSUME NEW j \in Jobs, BeginJob(w, j)
      PROVE  PoolsInv'
  <2>1. PICK catalog \in Hydrated(Wanted) :
           writer' = [writer EXCEPT ![w] = [writer[w] EXCEPT
               !.at = "select", !.job = j, !.strategy = job[j].strategy,
               !.routes = job[j].routes, !.catalog = catalog]]
    BY <1>5 DEF BeginJob
  <2>2. catalog \in SUBSET Models /\ catalog # {}
    BY CatalogIsLeft
  <2>3. job[j] \in Job /\ job[j].strategy \in Strategies /\ job[j].routes \in SUBSET Routes
    BY <1>1 DEF Job
  <2> DEFINE x == [writer[w] EXCEPT !.at = "select", !.job = j, !.strategy = job[j].strategy,
                       !.routes = job[j].routes, !.catalog = catalog]
  <2>4. /\ x \in Writer /\ x.at = "select" /\ x.pools = NoPools
        /\ WrittenBy(x) = "catalog_wide" => x.catalog # {}
    BY <1>1, <2>2, <2>3 DEF Writer
  <2>5. \E y : Becomes(w, y) /\ y.at = "select"
    BY <2>1, <2>4, BegunBecomes
  <2>6. job' \in [Jobs -> Job]
    <3>1. /\ [job[j] EXCEPT !.status = "running", !.due = FALSE] \in Job
          /\ [job[j] EXCEPT !.status = "running"] \in Job
      BY <2>3 DEF Job
    <3>2. \/ job' = [job EXCEPT ![j] = [job[j] EXCEPT !.status = "running", !.due = FALSE]]
          \/ job' = [job EXCEPT ![j] = [job[j] EXCEPT !.status = "running"]]
      BY <1>5 DEF BeginJob
    <3> QED
      BY <1>1, <3>1, <3>2
  <2> QED
    BY <1>2, <2>5, <2>6, QuietWriter
<1> QED
  BY <1>3, <1>4, <1>5

\* A writer ends, or goes on beyond its writes.
LEMMA EndStep ==
    ASSUME PoolsInv, NEW w \in Writers,
           Disable(w) \/ SaveSchedule(w) \/ WriteBack(w) \/ FinishJob(w) \/ Fail(w)
    PROVE  PoolsInv'
<1>1. /\ PoolsTypeOK /\ WriterTells(w) /\ writer[w] \in Writer /\ schedule \in Schedule
      /\ job \in [Jobs -> Job]
      /\ writer[w].routes \in SUBSET Routes /\ writer[w].catalog \in SUBSET Models
      /\ writer[w].enabled \in BOOLEAN /\ writer[w].strategy \in Strategies
  BY DEF PoolsInv, PoolsTypeOK, Writer
<1>2. UNCHANGED <<pools, policy, request, settled>>
  BY DEF Disable, SaveSchedule, WriteBack, FinishJob, Fail, store, history
<1>3. schedule' \in Schedule
  <2>1. \A e \in BOOLEAN : Row(w, e) \in Schedule
    BY <1>1 DEF Row, Schedule
  <2> QED
    BY <1>1, <2>1 DEF Disable, SaveSchedule, WriteBack, FinishJob, Fail, store
<1>4. job' \in [Jobs -> Job]
  BY <1>1, ReportType DEF Disable, SaveSchedule, WriteBack, FinishJob, Fail
<1>5. \E x : Becomes(w, x) /\ x.at \notin {"pools", "policy", "purge"}
  <2>1. CASE WriterEnds(w)
    <3>1. [IdleWriter EXCEPT !.at = "done"].at = "done"
      BY DEF IdleWriter
    <3> QED
      BY <2>1, <3>1, EndedBecomes
  <2>2. CASE SaveSchedule(w) /\ ~WriterEnds(w)
    <3>1. WriterGoto(w, "finish") /\ writer[w].at \in Working
      BY <2>2 DEF SaveSchedule, Leaves, AfterWriting, WriterAt, Working
    <3>2. [writer[w] EXCEPT !.at = "finish"].at = "finish"
      BY <1>1 DEF Writer
    <3> QED
      BY <1>1, <3>1, <3>2, GoneBecomes
  <2> QED
    BY <2>1, <2>2 DEF Disable, WriteBack, FinishJob, Fail
<1>6. /\ writing' = writing \/ writing' = writing \ {w}
      /\ ~Busy(w) \/ writing' = writing \ {w}
  BY DEF Disable, SaveSchedule, WriteBack, FinishJob, Fail, WriterAt, Busy, history
<1> QED
  BY <1>2, <1>3, <1>4, <1>5, <1>6, QuietWriter

-----------------------------------------------------------------------------
(* Steps that write                                                        *)

\* Who writes is by itself, or nobody is, and nothing is settled.
LEMMA WritersApart ==
    ASSUME PoolsInv, NEW w \in Writers, Busy(w)
    PROVE  /\ settled = NoSetup /\ writing \subseteq {w}
           /\ w \in writing => (\A v \in Writers \ {w} : ~Busy(v)) /\ HasWritten(w)
BY DEF PoolsInv, PoolsTypeOK, ByItself

LEMMA BusyStep ==
    ASSUME PoolsInv, NEW w \in Writers, NEW x, Becomes(w, x),
           x.at \in {"pools", "policy", "purge"}, settled' = NoSetup, writing' \subseteq {w},
           w \in writing' => \A v \in Writers \ {w} : ~Busy(v),
           w \in writing' => HasWritten(w)',
           pools' \in Pools, policy' \in Policy, PolicyTells',
           UNCHANGED <<schedule, job, request>>
    PROVE  PoolsInv'
<1>1. PoolsTypeOK /\ \A v \in Writers : WriterTells(v)
  BY DEF PoolsInv
<1>2. /\ writer' \in [Writers -> Writer] /\ \A v \in Writers : WriterTells(v)'
      /\ writer'[w] = x /\ \A v \in Writers \ {w} : writer'[v] = writer[v]
  BY <1>1, WriterStep
<1>3. ByItself'
  <2>1. Busy(w)' /\ \A v \in Writers \ {w} : ~Busy(v) => ~Busy(v)'
    BY <1>2 DEF Busy
  <2>2. ASSUME NEW v \in writing'
        PROVE  Busy(v)' /\ (\A u \in Writers \ {v} : ~Busy(u)') /\ HasWritten(v)'
    <3>1. v = w
      OBVIOUS
    <3> QED
      BY <2>1, <3>1
  <2> QED
    BY <2>2 DEF ByItself
<1>4. SettledIsStored'
  BY DEF SettledIsStored
<1>5. PoolsTypeOK'
  BY <1>1, <1>2 DEF PoolsTypeOK
<1>6. \A q \in Requests : RequestTells(q)'
  BY DEF PoolsInv, RequestTells
<1> QED
  BY <1>2, <1>3, <1>4, <1>5, <1>6 DEF PoolsInv

LEMMA SelectedStep ==
    ASSUME PoolsInv, NEW w \in Writers, Selected(w)
    PROVE  PoolsInv'
<1>1. /\ PoolsTypeOK /\ WriterTells(w) /\ writer[w] \in Writer /\ writer[w].at = "select"
      /\ pools \in Pools /\ policy \in Policy /\ PolicyTells
      /\ UNCHANGED <<pools, policy, schedule, job, request>>
  BY DEF PoolsInv, PoolsTypeOK, Selected, WriterAt, store
<1>2. /\ writer[w].pools = NoPools /\ Writes(w) = WrittenBy(writer[w])
      /\ WrittenBy(writer[w]) = "catalog_wide" => writer[w].catalog # {}
  BY <1>1 DEF WriterTells, Tells, Working, Writes, WrittenBy
<1>3. settled' = NoSetup /\ writing' \subseteq {w}
  BY DEF Selected, Enter
<1>4. w \in writing' => \A v \in Writers \ {w} : ~Busy(v)
  BY DEF Selected, Enter, Busy
<1>5. PolicyTells'
  BY <1>1 DEF PolicyTells
<1>6. CASE WrittenBy(writer[w]) = "catalog_wide"
  <2> DEFINE x == [writer[w] EXCEPT !.at = "policy"]
  <2>1. writer' = [writer EXCEPT ![w] = x]
    BY <1>2, <1>6 DEF Selected, WriterGoto
  <2>2. x \in Writer /\ x.at = "policy" /\ x.pools = NoPools /\ WrittenBy(x) = "catalog_wide"
        /\ x.catalog # {}
    BY <1>1, <1>2, <1>6 DEF Writer, WrittenBy
  <2> HIDE DEF x
  <2>3. Becomes(w, x)
    BY <2>1, <2>2 DEF Becomes, Tells, Working
  <2>4. writer'[w] = x
    BY <1>1, <2>1 DEF PoolsTypeOK
  <2>5. HasWritten(w)'
    BY <2>2, <2>4, NoPoolsType DEF HasWritten
  <2> QED
    BY <1>1, <1>3, <1>4, <1>5, <2>2, <2>3, <2>5, BusyStep
<1>7. CASE WrittenBy(writer[w]) # "catalog_wide"
  <2>1. PICK a \in Selections(writer[w].routes, writer[w].catalog) :
           writer' = [writer EXCEPT ![w] = [writer[w] EXCEPT
               !.at = "pools", !.pools = a, !.left = writer[w].routes]]
    BY <1>2, <1>7 DEF Selected
  <2>2. a \in Pools /\ Named(a) = writer[w].routes
    BY <1>1, SelectionIsNamed DEF Writer
  <2> DEFINE x == [writer[w] EXCEPT !.at = "pools", !.pools = a, !.left = writer[w].routes]
  <2>3. x \in Writer /\ x.at = "pools" /\ x.pools = a /\ x.left = writer[w].routes
        /\ WrittenBy(x) = "route_pool" /\ x.routes = writer[w].routes
    BY <1>1, <1>7, <2>2 DEF Writer, Strategies, WrittenBy
  <2>4. writer' = [writer EXCEPT ![w] = x]
    BY <2>1
  <2> HIDE DEF x
  <2>5. Becomes(w, x)
    BY <2>2, <2>3, <2>4 DEF Becomes, Tells, Working
  <2>6. writer'[w] = x
    BY <1>1, <2>4 DEF PoolsTypeOK
  <2>7. HasWritten(w)'
    BY <2>2, <2>3, <2>6 DEF HasWritten, Named
  <2> QED
    BY <1>1, <1>3, <1>4, <1>5, <2>3, <2>5, <2>7, BusyStep
<1> QED
  BY <1>6, <1>7

LEMMA WritePoolsStep ==
    ASSUME PoolsInv, NEW w \in Writers, WritePools(w)
    PROVE  PoolsInv'
<1>1. /\ PoolsTypeOK /\ WriterTells(w) /\ writer[w] \in Writer /\ writer[w].at = "pools"
      /\ pools \in Pools /\ policy \in Policy /\ PolicyTells
      /\ UNCHANGED <<policy, schedule, job, request, writing, settled>>
  BY DEF PoolsInv, PoolsTypeOK, WritePools, WriterAt, history
<1>2. WrittenBy(writer[w]) = "route_pool" /\ Named(writer[w].pools) = writer[w].routes
      /\ writer[w].pools \in Pools /\ writer[w].left \in SUBSET Routes
  BY <1>1 DEF WriterTells, Tells, Writer
<1>3. /\ settled = NoSetup /\ writing \subseteq {w}
      /\ w \in writing => (\A v \in Writers \ {w} : ~Busy(v)) /\ HasWritten(w)
  BY <1>1, WritersApart DEF Busy
<1>4. PICK r \in writer[w].left :
         /\ pools' = [pools EXCEPT ![r] = writer[w].pools[r]]
         /\ writer' = [writer EXCEPT ![w] = [writer[w] EXCEPT
                !.left = writer[w].left \ {r},
                !.at = IF writer[w].left = {r} THEN "policy" ELSE "pools"]]
  BY DEF WritePools, WritePool
<1> DEFINE x == [writer[w] EXCEPT !.left = writer[w].left \ {r},
                     !.at = IF writer[w].left = {r} THEN "policy" ELSE "pools"]
<1>5. /\ x \in Writer /\ x.at \in {"pools", "policy"} /\ x.pools = writer[w].pools
      /\ WrittenBy(x) = "route_pool" /\ x.routes = writer[w].routes
      /\ x.left = writer[w].left \ {r} /\ (x.at = "policy" => writer[w].left = {r})
  BY <1>1, <1>2 DEF Writer, WrittenBy
<1>6. writer' = [writer EXCEPT ![w] = x]
  BY <1>4
<1> HIDE DEF x
<1>7. Becomes(w, x) /\ writer'[w] = x
  BY <1>1, <1>2, <1>5, <1>6 DEF Becomes, Tells, Working, PoolsTypeOK
<1>8. pools' \in Pools /\ pools'[r] = writer[w].pools[r]
      /\ \A n \in Routes \ {r} : pools'[n] = pools[n]
  BY <1>1, <1>2, <1>4 DEF Pools
<1>9. w \in writing' => HasWritten(w)'
  <2> SUFFICES ASSUME w \in writing
               PROVE  HasWritten(w)'
    BY <1>1
  <2>1. \A n \in Named(writer[w].pools) : n \in writer[w].left \/ pools[n] = writer[w].pools[n]
    BY <1>1, <1>3 DEF HasWritten
  <2>2. \A n \in Named(x.pools) : (x.at = "pools" /\ n \in x.left) \/ pools'[n] = x.pools[n]
    BY <1>5, <1>8, <2>1 DEF Named
  <2> QED
    BY <1>5, <1>7, <2>2 DEF HasWritten, Named
<1>10. PolicyTells'
  BY <1>1 DEF PolicyTells
<1>11. /\ x.at \in {"pools", "policy", "purge"} /\ settled' = NoSetup /\ writing' \subseteq {w}
       /\ w \in writing' => \A v \in Writers \ {w} : ~Busy(v)
  BY <1>1, <1>3, <1>5
<1> QED
  BY <1>1, <1>7, <1>8, <1>9, <1>10, <1>11, BusyStep

LEMMA WritePolicyStep ==
    ASSUME PoolsInv, NEW w \in Writers, WritePolicy(w)
    PROVE  PoolsInv'
<1>1. /\ PoolsTypeOK /\ WriterTells(w) /\ writer[w] \in Writer /\ writer[w].at = "policy"
      /\ pools \in Pools /\ policy \in Policy /\ PolicyTells /\ policy' = NewPolicy(w)
      /\ UNCHANGED <<pools, schedule, job, request, writing, settled>>
  BY DEF PoolsInv, PoolsTypeOK, WritePolicy, WriterAt, history
<1>2. /\ writer[w].strategy \in Strategies /\ writer[w].pools \in Pools
      /\ writer[w].routes \in SUBSET Routes /\ writer[w].catalog \in SUBSET Models
  BY <1>1 DEF Writer
<1> DEFINE wrote == WrittenBy(writer[w])
<1>3. /\ wrote = "catalog_wide" => writer[w].catalog # {} /\ writer[w].pools = NoPools
      /\ wrote = "route_pool" => Named(writer[w].pools) = writer[w].routes
      /\ wrote \in Strategies /\ Writes(w) = wrote
      /\ wrote = "catalog_wide" => writer[w].strategy = "catalog_wide"
  BY <1>1, <1>2 DEF WriterTells, Tells, Working, Writes, WrittenBy, Strategies
<1> HIDE DEF wrote
<1>4. /\ settled = NoSetup /\ writing \subseteq {w}
      /\ w \in writing => (\A v \in Writers \ {w} : ~Busy(v)) /\ HasWritten(w)
  BY <1>1, WritersApart DEF Busy
<1>5. /\ policy' \in Policy /\ PolicyTells' /\ policy'.versions = writer[w].pools
      /\ policy'.routes = IF wrote = "catalog_wide" THEN {Catalog} ELSE writer[w].routes
      /\ RoutedAs(policy', wrote, writer[w].strategy)
  <2>1. CASE wrote = "catalog_wide"
    <3>1. policy' = [routes |-> {Catalog}, versions |-> NoPools, routingStrategy |-> "catalog_wide",
                     strategy |-> "catalog_wide", catalog |-> writer[w].catalog]
      BY <1>1, <1>3, <2>1 DEF NewPolicy
    <3> QED
      BY <1>2, <1>3, <2>1, <3>1, NoPoolsType
      DEF Policy, Strategies, PolicyTells, RoutedAs, RoutingStrategy
  <2>2. CASE wrote # "catalog_wide"
    <3>1. policy' = [policy EXCEPT !.routes = writer[w].routes, !.versions = writer[w].pools,
                                   !.strategy = writer[w].strategy]
      BY <1>1, <1>3, <2>2 DEF NewPolicy
    <3>2. /\ policy' \in Policy /\ policy'.versions = writer[w].pools
          /\ policy'.routes = writer[w].routes /\ policy'.strategy = writer[w].strategy
          /\ policy'.routingStrategy = policy.routingStrategy /\ policy'.catalog = policy.catalog
      BY <1>1, <1>2, <3>1 DEF Policy
    <3>3. PolicyTells'
      BY <1>1, <3>2 DEF PolicyTells
    <3>4. wrote = "route_pool" /\ (writer[w].strategy # "catalog_wide" => writer[w].strategy = wrote)
      BY <1>2, <1>3, <2>2 DEF Strategies
    <3>5. RoutedAs(policy', wrote, writer[w].strategy)
      BY <3>2, <3>3, <3>4 DEF RoutedAs, RoutingStrategy, PolicyTells
    <3> QED
      BY <2>2, <3>2, <3>3, <3>5
  <2> QED
    BY <2>1, <2>2
<1> DEFINE x == [writer[w] EXCEPT !.at = "purge"]
<1>6. /\ x \in Writer /\ x.at = "purge" /\ x.pools = writer[w].pools /\ x.catalog = writer[w].catalog
      /\ WrittenBy(x) = wrote /\ x.strategy = writer[w].strategy /\ x.routes = writer[w].routes
  BY <1>1 DEF Writer, WrittenBy, wrote
<1>7. writer' = [writer EXCEPT ![w] = x]
  BY DEF WritePolicy, WriterGoto
<1> HIDE DEF x
<1>8. Becomes(w, x) /\ writer'[w] = x
  BY <1>1, <1>3, <1>6, <1>7 DEF Becomes, Tells, Working, PoolsTypeOK
<1>9. w \in writing' => HasWritten(w)'
  <2> SUFFICES ASSUME w \in writing
               PROVE  HasWritten(w)'
    BY <1>1
  <2>1. \A n \in Named(writer[w].pools) : pools[n] = writer[w].pools[n]
    BY <1>1, <1>4 DEF HasWritten
  <2>2. \A n \in Named(x.pools) : pools'[n] = x.pools[n]
    BY <1>1, <1>6, <2>1
  <2> QED
    BY <1>5, <1>6, <1>8, <2>2 DEF HasWritten, Named, RoutedAs
<1>10. /\ x.at \in {"pools", "policy", "purge"} /\ settled' = NoSetup /\ writing' \subseteq {w}
       /\ w \in writing' => \A v \in Writers \ {w} : ~Busy(v)
  BY <1>1, <1>4, <1>6
<1> QED
  BY <1>1, <1>5, <1>8, <1>9, <1>10, BusyStep

LEMMA PurgeStep ==
    ASSUME PoolsInv, NEW w \in Writers, Purge(w)
    PROVE  PoolsInv'
<1>1. /\ PoolsTypeOK /\ WriterTells(w) /\ writer[w] \in Writer /\ writer[w].at = "purge"
      /\ pools \in Pools /\ policy \in Policy /\ PolicyTells
      /\ pools' = [r \in Routes |-> IF r \in Kept(w) THEN pools[r] ELSE {}]
      /\ writing' = writing \ {w}
      /\ UNCHANGED <<policy, schedule, job, request>>
  BY DEF PoolsInv, PoolsTypeOK, Purge, WriterAt
<1> DEFINE wrote == WrittenBy(writer[w])
<1>2. /\ writer[w].pools \in Pools /\ wrote \in Strategies /\ Writes(w) = wrote
      /\ wrote = "catalog_wide" => writer[w].pools = NoPools
      /\ wrote = "route_pool" => Named(writer[w].pools) = writer[w].routes
  BY <1>1 DEF Writer, WriterTells, Tells, Working, Writes, WrittenBy, Strategies
<1>3. /\ settled = NoSetup /\ writing \subseteq {w}
      /\ w \in writing => (\A v \in Writers \ {w} : ~Busy(v)) /\ HasWritten(w)
  BY <1>1, WritersApart DEF Busy
<1>4. PICK x : Becomes(w, x) /\ x.at \notin {"pools", "policy", "purge"}
  <2>1. WriterEnds(w) \/ WriterGoto(w, "schedule") \/ WriterGoto(w, "finish")
    BY DEF Purge, Leaves, AfterWriting
  <2>2. CASE WriterEnds(w)
    <3>1. [IdleWriter EXCEPT !.at = "done"].at = "done"
      BY DEF IdleWriter
    <3> QED
      BY <2>2, <3>1, EndedBecomes
  <2>3. ASSUME NEW l \in {"schedule", "finish"}, WriterGoto(w, l)
        PROVE  \E x : Becomes(w, x) /\ x.at \notin {"pools", "policy", "purge"}
    <3>1. [writer[w] EXCEPT !.at = l].at = l
      BY <1>1 DEF Writer
    <3>2. writer[w].at \in Working
      BY <1>1 DEF Working
    <3>3. Becomes(w, [writer[w] EXCEPT !.at = l])
      BY <1>1, <2>3, <3>2, GoneBecomes
    <3> QED
      BY <3>1, <3>3
  <2> QED
    BY <2>1, <2>2, <2>3
<1>5. /\ writer' \in [Writers -> Writer] /\ \A v \in Writers : WriterTells(v)'
      /\ writer'[w] = x /\ \A v \in Writers \ {w} : writer'[v] = writer[v]
  BY <1>1, <1>4, WriterStep DEF PoolsInv
<1>6. pools' \in Pools /\ PolicyTells' /\ writing' = {}
  BY <1>1, <1>3 DEF Pools, PolicyTells
<1>7. PoolsTypeOK'
  BY <1>1, <1>5, <1>6 DEF PoolsTypeOK
<1>8. ByItself' /\ SettledIsStored'
  <2>1. CASE w \notin writing
    <3>1. settled' = NoSetup
      BY <2>1 DEF Purge
    <3> QED
      BY <1>6, <3>1 DEF ByItself, SettledIsStored
  <2>2. CASE w \in writing
    <3>1. settled' = [wrote |-> wrote, strategy |-> writer[w].strategy, pools |-> writer[w].pools]
      BY <1>2, <2>2 DEF Purge
    <3>2. /\ settled'.wrote = wrote /\ settled'.pools = writer[w].pools
          /\ settled'.strategy = writer[w].strategy
      BY <3>1
    <3>3. pools' = writer[w].pools
      <4>1. \A r \in Kept(w) : pools[r] = writer[w].pools[r]
        BY <1>1, <1>3, <2>2 DEF HasWritten, Kept
      <4>2. \A r \in Routes \ Kept(w) : writer[w].pools[r] = {}
        BY DEF Kept, Named
      <4>3. \A r \in Routes : pools'[r] = writer[w].pools[r]
        BY <1>1, <4>1, <4>2
      <4> QED
        BY <1>2, <1>6, <4>3 DEF Pools
    <3>4. /\ policy.versions = writer[w].pools
          /\ policy.routes = IF wrote = "catalog_wide" THEN {Catalog} ELSE writer[w].routes
          /\ RoutedAs(policy, wrote, writer[w].strategy)
      BY <1>1, <1>3, <2>2 DEF HasWritten
    <3>5. RoutedAs(policy', wrote, writer[w].strategy)
      BY <1>1, <3>4 DEF RoutedAs
    <3>6. wrote # "catalog_wide" => writer[w].routes = Named(writer[w].pools)
      BY <1>2 DEF Strategies
    <3> HIDE DEF wrote
    <3>7. SettledIsStored'
      BY <1>1, <3>2, <3>3, <3>4, <3>5, <3>6 DEF SettledIsStored, Stored, Named, RoutedAs
    <3>8. \A v \in Writers : ~Busy(v)'
      <4>1. \A v \in Writers \ {w} : ~Busy(v)'
        BY <1>3, <1>5, <2>2 DEF Busy
      <4>2. ~Busy(w)'
        BY <1>4, <1>5 DEF Busy
      <4> QED
        BY <4>1, <4>2
    <3> QED
      BY <1>6, <3>7, <3>8 DEF ByItself
  <2> QED
    BY <2>1, <2>2
<1>9. \A q \in Requests : RequestTells(q)'
  BY <1>1 DEF PoolsInv, RequestTells
<1> QED
  BY <1>5, <1>6, <1>7, <1>8, <1>9 DEF PoolsInv

-----------------------------------------------------------------------------
(* Requests                                                                *)

\* What a request does to itself.
LEMMA RequestStep ==
    ASSUME PoolsInv, NEW q \in Requests, NEW x \in Request,
           request' = [request EXCEPT ![q] = x], RequestTells(q)',
           UNCHANGED <<store, job, writer, history>>
    PROVE  PoolsInv'
<1>1. /\ PoolsTypeOK /\ UNCHANGED <<pools, policy, schedule, job, writer, writing, settled>>
  BY DEF PoolsInv, store, history
<1>2. PoolsTypeOK'
  BY <1>1 DEF PoolsTypeOK
<1>3. \A p \in Requests : RequestTells(p)'
  <2>1. \A p \in Requests \ {q} : request'[p] = request[p]
    BY <1>1 DEF PoolsTypeOK
  <2>2. \A p \in Requests : RequestTells(p)
    BY DEF PoolsInv
  <2>3. \A p \in Requests \ {q} : RequestTells(p)'
    BY <2>1, <2>2 DEF RequestTells
  <2> QED
    BY <2>3
<1>4. ByItself' /\ PolicyTells' /\ SettledIsStored'
  BY <1>1, QuietStep DEF Busy
<1>5. \A w \in Writers : WriterTells(w)'
  BY <1>1 DEF PoolsInv, WriterTells
<1> QED
  BY <1>2, <1>3, <1>4, <1>5 DEF PoolsInv

\* The models that are ranked are those that the request found named.
LEMMA RankedAreNamed ==
    ASSUME PoolsInv, NEW q \in Requests, request[q].at = "routed"
    PROVE  Ranked(q) \subseteq request[q].named /\ Ranked(q) \subseteq Models
<1> DEFINE p == request[q].policy
<1>1. p \in Policy /\ request[q].named = NamedModels(p) /\ request[q].named \subseteq Models
  BY DEF PoolsInv, PoolsTypeOK, Request, RequestTells
<1>2. p.routes \subseteq Routes \cup {Catalog}
  BY <1>1 DEF Policy
<1> HIDE DEF p
<1>3. Ranked(q) = IF RoutingStrategy(p) = "catalog_wide" THEN RankedCatalog(p)
                  ELSE UNION {pools[r] : r \in RankedPools(p)}
  BY DEF Ranked, p
<1>4. RankedCatalog(p) \subseteq p.catalog
  BY DEF RankedCatalog
<1>5. \A r \in RankedPools(p) : r \in Routes /\ pools[r] = p.versions[r]
  BY <1>2 DEF RankedPools, Ranks
<1>6. Ranked(q) \subseteq NamedModels(p)
  BY <1>3, <1>4, <1>5 DEF NamedModels
<1> QED
  BY <1>1, <1>6

LEMMA RequestsStep ==
    ASSUME PoolsInv, NEW q \in Requests, ReadPolicy(q) \/ Answer(q) \/ Refuse(q)
    PROVE  PoolsInv'
<1>1. /\ PoolsTypeOK /\ RequestTells(q) /\ request[q] \in Request /\ policy \in Policy
      /\ request \in [Requests -> Request]
      /\ UNCHANGED <<store, job, writer, history>>
  BY DEF PoolsInv, PoolsTypeOK, ReadPolicy, Answer, Refuse
<1>2. CASE ReadPolicy(q)
  <2> DEFINE x == [request[q] EXCEPT !.at = "routed", !.policy = policy, !.named = NamedModels(policy)]
  <2>1. NamedModels(policy) \subseteq Models
    BY <1>1 DEF NamedModels, Policy, Pools
  <2>2. request' = [request EXCEPT ![q] = x]
    BY <1>2 DEF ReadPolicy
  <2>3. x \in Request /\ x.at = "routed" /\ x.policy = policy /\ x.named = NamedModels(policy)
    BY <1>1, <2>1 DEF Request
  <2> HIDE DEF x
  <2>4. request'[q] = x
    BY <1>1, <2>2
  <2>5. RequestTells(q)'
    BY <2>3, <2>4 DEF RequestTells, NamedModels
  <2> QED
    BY <1>1, <2>2, <2>3, <2>5, RequestStep
<1>3. CASE Answer(q)
  <2>1. PICK usable \in (SUBSET Ranked(q)) \ {{}}, b \in FoundBudgets,
             previous \in Models \cup {NoModel} :
           request' = [request EXCEPT ![q] =
               [request[q] EXCEPT !.at = "answered", !.policy = NoPolicy, !.usable = usable,
                         !.budget = b, !.model = Best(b, usable, previous)]]
    BY <1>3 DEF Answer
  <2>2. usable \subseteq Models /\ usable \subseteq request[q].named /\ usable # {}
    BY <1>3, RankedAreNamed DEF Answer
  <2>3. IsFiniteSet(usable)
    BY <2>2, PoolsAssumption, FS_Subset
  <2>4. b \in Budget
    BY BudgetsFound
  <2> DEFINE m == Best(b, usable, previous)
  <2>5. m \in usable
    BY <2>2, <2>3, <2>4, BestIsFirst
  <2>6. ExpectedDebit[m] <= b.remaining /\ Overspends(b, ExpectedDebit[m])
            => ExpectedDebit[Best(NextBudget(b, ExpectedDebit[m]), usable, m)] <= ExpectedDebit[m]
    BY <2>2, <2>3, <2>4, NoDearer
  <2> DEFINE x == [request[q] EXCEPT !.at = "answered", !.policy = NoPolicy, !.usable = usable,
                       !.budget = b, !.model = m]
  <2>7. request' = [request EXCEPT ![q] = x]
    BY <2>1
  <2>8. m \in Models
    BY <2>2, <2>5
  <2> HIDE DEF m
  <2>9. /\ x \in Request /\ x.at = "answered" /\ x.usable = usable /\ x.budget = b
        /\ x.model = m /\ x.named = request[q].named
    BY <1>1, <2>2, <2>4, <2>8, IdleTypes DEF Request
  <2> HIDE DEF x
  <2>10. request'[q] = x
    BY <1>1, <2>7
  <2>11. RequestTells(q)'
    BY <2>2, <2>5, <2>6, <2>9, <2>10 DEF RequestTells
  <2> QED
    BY <1>1, <2>7, <2>9, <2>11, RequestStep
<1>4. CASE Refuse(q)
  <2>1. request' = [request EXCEPT ![q] = IdleRequest]
    BY <1>4 DEF Refuse
  <2>2. IdleRequest \in Request /\ IdleRequest.at = "idle"
    BY IdleTypes DEF IdleRequest
  <2>3. request'[q] = IdleRequest
    BY <1>1, <2>1
  <2>4. RequestTells(q)'
    BY <2>2, <2>3 DEF RequestTells
  <2> QED
    BY <1>1, <2>1, <2>2, <2>4, RequestStep
<1> QED
  BY <1>2, <1>3, <1>4

-----------------------------------------------------------------------------
(* Theorems                                                                *)

LEMMA PoolsInit == Init => PoolsInv
<1> SUFFICES ASSUME Init
             PROVE  PoolsInv
  OBVIOUS
<1> USE DEF Init
<1>1. PoolsTypeOK
  BY IdleTypes, NoPoolsType DEF PoolsTypeOK
<1>2. \A q \in Requests : RequestTells(q)
  BY DEF RequestTells, IdleRequest
<1>3. \A w \in Writers : WriterTells(w)
  BY DEF WriterTells, Tells, IdleWriter, Working
<1>4. ByItself /\ PolicyTells /\ SettledIsStored
  BY DEF ByItself, PolicyTells, SettledIsStored, NoPolicy
<1> QED
  BY <1>1, <1>2, <1>3, <1>4 DEF PoolsInv

LEMMA PoolsStep == PoolsInv /\ [Next]_vars => PoolsInv'
<1> SUFFICES ASSUME PoolsInv, [Next]_vars
             PROVE  PoolsInv'
  OBVIOUS
<1>1. ASSUME NEW j \in Jobs, CreateJob(j) \/ DispatchJob(j)
      PROVE  PoolsInv'
  BY <1>1, JobStep
<1>2. ASSUME NEW w \in Waiting, BeginSetup(w)
      PROVE  PoolsInv'
  BY <1>2, BeginStep, PoolsAssumption DEF Writers
<1>3. ASSUME NEW w \in Setups, SaveSchedule(w) \/ FinishJob(w) \/ \E j \in Jobs : BeginJob(w, j)
      PROVE  PoolsInv'
  BY <1>3, EndStep, BeginStep DEF Writers
<1>4. ASSUME NEW w \in Updates, BeginUpdate(w) \/ Disable(w) \/ WriteBack(w)
      PROVE  PoolsInv'
  BY <1>4, EndStep, BeginStep DEF Writers
<1>5. ASSUME NEW w \in Writers,
             Selected(w) \/ WritePools(w) \/ WritePolicy(w) \/ Purge(w) \/ Fail(w)
      PROVE  PoolsInv'
  BY <1>5, SelectedStep, WritePoolsStep, WritePolicyStep, PurgeStep, EndStep
<1>6. ASSUME NEW q \in Requests, ReadPolicy(q) \/ Answer(q) \/ Refuse(q)
      PROVE  PoolsInv'
  BY <1>6, RequestsStep
<1>7. CASE UNCHANGED vars
  <2> USE DEF vars, store, history
  <2>1. \A v \in Writers : WriterTells(v)' /\ (Busy(v)' <=> Busy(v))
    BY <1>7 DEF PoolsInv, WriterTells, Busy
  <2>2. PoolsTypeOK' /\ \A q \in Requests : RequestTells(q)'
    BY <1>7 DEF PoolsInv, PoolsTypeOK, RequestTells
  <2>3. ByItself' /\ PolicyTells' /\ SettledIsStored'
    BY <1>7, <2>1, QuietStep
  <2> QED
    BY <2>1, <2>2, <2>3 DEF PoolsInv
<1> QED
  BY <1>1, <1>2, <1>3, <1>4, <1>5, <1>6, <1>7 DEF Next

\* The store, the writers and the requests keep the invariant.
THEOREM PoolsInvariant == Spec => []PoolsInv
BY PoolsInit, PoolsStep, PTL DEF Spec

\* A setup or an update that no other one overlapped leaves exactly its pools
\* and a policy that names them, whatever earlier writers left half written:
\* save_candidate_pool writes the pools, then the policy, then deletes the
\* pools of other routes, one document at a time, for any number of writers.
\* lerouter_route then takes the way it wrote, unless pools were written over a
\* catalog-wide policy or with metadata that ask for catalog_wide.
THEOREM LoneSetupIsStored == Spec => []SettledIsStored
<1>1. PoolsInv => SettledIsStored
  BY DEF PoolsInv
<1> QED
  BY <1>1, PoolsInvariant, PTL

\* lerouter_route answers with a model that the policy it read had named,
\* however many setups write pools and policy while the worker ranks: it ranks
\* only a pool of the version that the policy names.
THEOREM AnswersAreNamed == Spec => []AnswerIsNamed
<1>1. PoolsInv => AnswerIsNamed
  BY DEF PoolsInv, RequestTells, AnswerIsNamed
<1> QED
  BY <1>1, PoolsInvariant, PTL

\* A request that takes more than its share of the budget makes the next one
\* of its kind no dearer: the rule by which calculate_budget_controller_update
\* moves the shadow price, and budget_aware_scoring that ranks under it, for
\* any models, prices, weights and learning rate.
THEOREM OverspendingSlowsSpending == Spec => []OverspendMakesCheaper
<1>1. PoolsInv => OverspendMakesCheaper
  BY DEF PoolsInv, RequestTells, OverspendMakesCheaper
<1> QED
  BY <1>1, PoolsInvariant, PTL

==============================================================================
