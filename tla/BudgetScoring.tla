--------------------------- MODULE BudgetScoring ---------------------------
(***************************************************************************)
(* How the routing API ranks candidates under a route's budget             *)
(* (budget_aware_scoring), and how the budget and its shadow price follow  *)
(* what a request has cost (calculate_budget_controller_update).           *)
(*                                                                         *)
(* A request takes the share of the remaining budget that its weight has   *)
(* in the remaining weight. A candidate loses quality by the part of the   *)
(* share it would use, times the shadow price. Money, quality and prices   *)
(* are integers; scores are compared over their common denominator. Every  *)
(* request weighs the same.                                                *)
(***************************************************************************)
EXTENDS Integers

CONSTANTS
    Models,
    NoModel,
    Quality,        \* biencoder_score
    Rank,           \* biencoder_rank: the order that equal scores keep
    ExpectedDebit,  \* of the budget, in its spendAccountingMode
    CacheSavings,   \* of a model that goes on with a conversation
    RequestWeight,
    LearningRate, PriceMin, PriceMax,
    Grants,         \* budgets that a setup may name
    Predicted,      \* requests of a period, by the history that comes with it
    Stated,         \* weight that it says remains, 0 if it says nothing
    Prices,         \* shadow prices that it may name
    Huge            \* 1 / 1e-12

ASSUME ScoringAssumption ==
    /\ NoModel \notin Models
    /\ {Quality, ExpectedDebit, CacheSavings} \subseteq [Models -> Nat]
    /\ Rank \in [Models -> Nat]
    /\ \A m, n \in Models : Rank[m] = Rank[n] => m = n
    /\ {RequestWeight, Huge} \subseteq Nat \ {0}
    /\ {LearningRate, PriceMin, PriceMax} \subseteq Nat /\ PriceMin <= PriceMax
    /\ {Grants, Predicted, Stated, Prices} \subseteq SUBSET Nat

\* The state that normalize_budget_state accepts.
Budget == [remaining : Nat, weight : Nat, price : PriceMin..PriceMax]

\* planning_weight: a request never plans with less than its own weight.
Planning(b) == IF b.weight > RequestWeight THEN b.weight ELSE RequestWeight

\* The malus of a debit d is d * Num / Den: the shadow price times the part
\* that d is of the share, which is taken to be at least 1 / Huge.
Scarce(b) == RequestWeight * b.remaining * Huge <= Planning(b)
Num(b) == IF Scarce(b) THEN b.price * Huge ELSE b.price * Planning(b)
Den(b) == IF Scarce(b) THEN 1 ELSE RequestWeight * b.remaining

\* What a candidate loses because the cache of the conversation is another's.
SwitchCost(m, previous) ==
    IF previous \in Models \ {m} THEN CacheSavings[previous] ELSE 0

\* final_score, times Den.
Score(b, m, previous) ==
    (Quality[m] - SwitchCost(m, previous)) * Den(b) - ExpectedDebit[m] * Num(b)

\* The first of the candidates once they are sorted by their scores.
Best(b, candidates, previous) ==
    CHOOSE m \in candidates :
        \A n \in candidates \ {m} :
            \/ Score(b, m, previous) > Score(b, n, previous)
            \/ Score(b, m, previous) = Score(b, n, previous) /\ Rank[m] < Rank[n]

Clamp(x) == IF x < PriceMin THEN PriceMin ELSE IF x > PriceMax THEN PriceMax ELSE x

\* The debit takes more than the share of the request.
Overspends(b, debit) == debit * Planning(b) >= RequestWeight * b.remaining

\* What the debit takes beyond the share, in the unit of the shadow price.
Gradient(b, debit) ==
    (LearningRate * (debit * Planning(b) - RequestWeight * b.remaining))
        \div Planning(b)

\* Faulty: what is taken beyond the share lowers the price.
Price_Descends(b, debit) == Clamp(b.price - Gradient(b, debit))

Price(b, debit) == Clamp(b.price + Gradient(b, debit))

\* The budget after a debit that it covers.
NextBudget(b, debit) ==
    [remaining |-> b.remaining - debit,
     weight |-> IF b.weight > RequestWeight THEN b.weight - RequestWeight ELSE 0,
     price |-> Price(b, debit)]

-----------------------------------------------------------------------------
(* The budgets that a request may find.                                    *)

\* compute_budget_fields_from_history: the weight of the requests that the
\* period is predicted to have, or what is said to remain of it.
PlannedWeight(n, stated) ==
    IF stated > 0 /\ stated < n * RequestWeight THEN stated ELSE n * RequestWeight

\* budget_metadata_fields: a price that is out of bounds is refused.
SetupBudgets ==
    {[remaining |-> g, weight |-> PlannedWeight(n, s), price |-> p] :
        g \in Grants, n \in Predicted, s \in Stated, p \in Prices \cap (PriceMin..PriceMax)}

\* As it was set up, or after a request.
FoundBudgets ==
    SetupBudgets \cup
    UNION {{NextBudget(b, ExpectedDebit[m]) :
                m \in {n \in Models : ExpectedDebit[n] <= b.remaining}} : b \in SetupBudgets}
=============================================================================
