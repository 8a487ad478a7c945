--------------------------- MODULE TotalsTheorems ---------------------------
(* What Total adds up to.                                                  *)
EXTENDS Totals, FiniteSetTheorems, TLAPS

\* A total is a natural number.
LEMMA TotalType ==
    ASSUME NEW S, IsFiniteSet(S), NEW max \in Nat, NEW f
    PROVE  IsFiniteSet(Units(S, f, max)) /\ Total(S, f, max) \in Nat
<1>1. IsFiniteSet(S \X (1..max))
  <2>1. IsFiniteSet(1..max)
    BY FS_Interval
  <2> QED
    BY <2>1, FS_Product
<1>2. IsFiniteSet(Units(S, f, max))
  BY <1>1, FS_Subset DEF Units
<1> QED
  BY <1>2, FS_CardinalityType DEF Total

\* Nothing adds up to zero.
LEMMA TotalEmpty ==
    ASSUME NEW max \in Nat, NEW f
    PROVE  Total({}, f, max) = 0
<1>1. Units({}, f, max) = {}
  BY DEF Units
<1> QED
  BY <1>1, FS_EmptySet DEF Total

\* An element that is new to the set, and its value.
Joins(x, n, S, f, max) ==
    /\ IsFiniteSet(S) /\ x \notin S
    /\ max \in Nat /\ n \in Nat /\ n <= max /\ f[x] = n

\* It adds its own value to the total.
LEMMA TotalJoins ==
    ASSUME NEW x, NEW n, NEW S, NEW f, NEW max, Joins(x, n, S, f, max)
    PROVE  Total(S \cup {x}, f, max) = Total(S, f, max) + n
<1>0. /\ IsFiniteSet(S) /\ x \notin S
      /\ max \in Nat /\ n \in Nat /\ n <= max /\ f[x] = n
  BY DEF Joins
<1> DEFINE A == Units(S, f, max)
           B == {x} \X (1..n)
<1>1. Units(S \cup {x}, f, max) = A \cup B
  BY <1>0 DEF Units
<1>2. A \cap B = {}
  BY <1>0 DEF Units
<1>3. IsFiniteSet(A) /\ Cardinality(A) \in Nat
  BY <1>0, TotalType DEF Total
<1>4. IsFiniteSet(B) /\ Cardinality(B) = n
  <2>1. IsFiniteSet(1..n) /\ Cardinality(1..n) = n
    BY <1>0, FS_Interval
  <2>2. IsFiniteSet({x}) /\ Cardinality({x}) = 1
    BY FS_Singleton
  <2>3. IsFiniteSet(B) /\ Cardinality(B) = Cardinality({x}) * Cardinality(1..n)
    BY <2>1, <2>2, FS_Product
  <2> QED
    BY <1>0, <2>1, <2>2, <2>3
<1>5. Cardinality(A \cup B) = Cardinality(A) + Cardinality(B) - Cardinality(A \cap B)
  BY <1>3, <1>4, FS_Union
<1>6. Cardinality(A \cap B) = 0
  BY <1>2, FS_EmptySet
<1>7. Cardinality(A \cup B) = Cardinality(A) + n
  BY <1>0, <1>3, <1>4, <1>5, <1>6
<1> QED
  BY <1>1, <1>7 DEF Total

LEMMA TotalAdd ==
    ASSUME NEW S, IsFiniteSet(S), NEW max \in Nat, NEW f,
           NEW x, x \notin S, NEW n \in Nat, n <= max, f[x] = n
    PROVE  Total(S \cup {x}, f, max) = Total(S, f, max) + n
<1>1. Joins(x, n, S, f, max)
  BY DEF Joins
<1> QED
  BY <1>1, TotalJoins

\* An element that leaves the set takes its own value with it.
LEMMA TotalRemove ==
    ASSUME NEW S, IsFiniteSet(S), NEW max \in Nat, NEW f,
           NEW x, x \in S, NEW n \in Nat, n <= max, f[x] = n
    PROVE  Total(S, f, max) = Total(S \ {x}, f, max) + n
<1> DEFINE R == S \ {x}
<1>1. IsFiniteSet(R)
  BY FS_RemoveElement
<1>2. x \notin R
  OBVIOUS
<1>3. S = R \cup {x}
  OBVIOUS
<1> HIDE DEF R
<1>4. Total(R \cup {x}, f, max) = Total(R, f, max) + n
  <2>1. Joins(x, n, R, f, max)
    BY <1>1, <1>2 DEF Joins
  <2> QED
    BY <2>1, TotalJoins
<1>5. Total(S, f, max) = Total(R, f, max) + n
  BY <1>3, <1>4
<1> QED
  BY <1>5 DEF R

\* Only the values over the set matter.
LEMMA TotalCongruence ==
    ASSUME NEW S, NEW max \in Nat, NEW f, NEW g,
           \A x \in S : f[x] = g[x]
    PROVE  Total(S, f, max) = Total(S, g, max)
<1>1. Units(S, f, max) = Units(S, g, max)
  BY DEF Units
<1> QED
  BY <1>1 DEF Total

\* A function that is nowhere less sums to no less.
LEMMA TotalMonotone ==
    ASSUME NEW S, IsFiniteSet(S), NEW max \in Nat, NEW f, NEW g,
           \A x \in S : f[x] \in Int /\ g[x] \in Int /\ f[x] <= g[x]
    PROVE  Total(S, f, max) <= Total(S, g, max)
<1>1. Units(S, f, max) \subseteq Units(S, g, max)
  BY DEF Units
<1>2. IsFiniteSet(Units(S, g, max))
  BY TotalType
<1> QED
  BY <1>1, <1>2, FS_Subset DEF Total
=============================================================================
