------------------------- MODULE SessionCache_proofs -------------------------
(* What holds of every session, whatever its conversations and its routes,   *)
(* and what compaction takes from any messages under any pressures.          *)
EXTENDS SessionCache, TotalsTheorems, WellFoundedInduction

(* Induction. A set of naturals has a least element: a set of counterexamples *)
(* that has none is empty.                                                    *)

LEMMA LeastNatural ==
    ASSUME NEW S \in SUBSET Nat, S # {}
    PROVE  \E n \in S : \A m \in S : n <= m
<1> DEFINE R == OpToRel(<, Nat)
<1>1. IsWellFoundedOn(R, Nat)
  BY NatLessThanWellFounded, Zenon
<1>2. \A x, y \in Nat : x < y => <<x, y>> \in R
  BY DEF OpToRel
<1> HIDE DEF R
<1>3. PICK n \in S : \A m \in S : ~ (<<m, n>> \in R)
  BY <1>1, WFMin
<1>4. \A m \in S : ~ (m < n)
  BY <1>2, <1>3
<1> QED
  BY <1>4

\* What holds of 0, and of n + 1 if of n, holds of every natural: as a set.
LEMMA InductiveSet ==
    ASSUME NEW S, 0 \in S, \A n \in Nat : n \in S => n + 1 \in S
    PROVE  Nat \subseteq S
<1> SUFFICES ASSUME Nat \ S # {} PROVE FALSE
  OBVIOUS
<1>1. PICK n \in Nat \ S : \A m \in Nat \ S : n <= m
  BY LeastNatural
<1>2. n # 0 /\ n - 1 \in Nat
  BY <1>1
<1>3. n - 1 \in S
  BY <1>1, <1>2
<1>4. n - 1 + 1 = n
  BY <1>1
<1> QED
  BY <1>1, <1>2, <1>3, <1>4

\* A set of naturals below a bound has a greatest element.
LEMMA GreatestNatural ==
    ASSUME NEW n \in Nat, NEW S \in SUBSET (1..n), S # {}
    PROVE  \E x \in S : \A y \in S : x >= y
<1> DEFINE D == {k \in 0..n : \A y \in S : y <= k}
<1>1. D \in SUBSET Nat /\ n \in D
  OBVIOUS
<1>2. PICK k \in D : \A m \in D : k <= m
  BY <1>1, LeastNatural
<1>3. k \in S
  <2> SUFFICES ASSUME k \notin S PROVE FALSE
    OBVIOUS
  <2>1. PICK x \in S : TRUE
    OBVIOUS
  <2>2. k - 1 \in 0..n
    BY <1>2, <2>1
  <2>3. \A y \in S : y <= k - 1
    BY <1>2
  <2> QED
    BY <1>2, <2>2, <2>3
<1> QED
  BY <1>2, <1>3

-----------------------------------------------------------------------------
(* Recursion. A step that stays in a set can be repeated any number of times. *)

Repeats(f, x, step) == f = [n \in Nat |-> IF n = 0 THEN x ELSE step[n][f[n - 1]]]

LEMMA Recursion ==
    ASSUME NEW S, NEW x \in S, NEW step \in [Nat -> [S -> S]]
    PROVE  \E f \in [Nat -> S] : Repeats(f, x, step)
<1> DEFINE Good(g, n) == g[0] = x /\ \A i \in 1..n : g[i] = step[i][g[i - 1]]
<1>1. \A n \in Nat : \E g \in [0..n -> S] : Good(g, n)
  <2> DEFINE A == {n \in Nat : \E g \in [0..n -> S] : Good(g, n)}
  <2>1. 0 \in A
    <3>1. [i \in 0..0 |-> x] \in [0..0 -> S] /\ Good([i \in 0..0 |-> x], 0)
      OBVIOUS
    <3> QED
      BY <3>1
  <2>2. ASSUME NEW n \in Nat, n \in A
        PROVE  n + 1 \in A
    <3>1. PICK g \in [0..n -> S] : Good(g, n)
      BY <2>2
    <3> DEFINE h == [i \in 0..(n + 1) |-> IF i = n + 1 THEN step[n + 1][g[n]] ELSE g[i]]
    <3>2. step[n + 1][g[n]] \in S
      OBVIOUS
    <3>3. h \in [0..(n + 1) -> S]
      BY <3>2
    <3>4. h[0] = x /\ h[n + 1] = step[n + 1][h[n]]
      BY <3>1
    <3>5. \A i \in 1..n : h[i] = g[i] /\ h[i - 1] = g[i - 1]
      OBVIOUS
    <3>6. \A i \in 1..(n + 1) : i \in 1..n \/ i = n + 1
      OBVIOUS
    <3> HIDE DEF h
    <3>7. Good(h, n + 1)
      BY <3>1, <3>4, <3>5, <3>6
    <3> QED
      BY <3>3, <3>7
  <2> HIDE DEF A
  <2>3. Nat \subseteq A
    BY <2>1, <2>2, InductiveSet
  <2> QED
    BY <2>3 DEF A
<1>2. \A i, n, m \in Nat : \A g, h : Good(g, n) /\ Good(h, m) /\ i <= n /\ i <= m => g[i] = h[i]
  <2> DEFINE U == {i \in Nat : \A n, m \in Nat : \A g, h :
                                   Good(g, n) /\ Good(h, m) /\ i <= n /\ i <= m => g[i] = h[i]}
  <2>1. 0 \in U
    OBVIOUS
  <2>2. ASSUME NEW i \in Nat, i \in U
        PROVE  i + 1 \in U
    <3>1. ASSUME NEW n \in Nat, NEW m \in Nat, NEW g, NEW h, Good(g, n), Good(h, m),
                 i + 1 <= n, i + 1 <= m
          PROVE  g[i + 1] = h[i + 1]
      <4>1. g[i] = h[i]
        <5>1. i <= n /\ i <= m
          BY <3>1
        <5> HIDE DEF Good
        <5> QED
          BY <2>2, <3>1, <5>1
      <4>2. i + 1 \in 1..n /\ i + 1 \in 1..m /\ i + 1 - 1 = i
        BY <3>1
      <4>3. g[i + 1] = step[i + 1][g[i]] /\ h[i + 1] = step[i + 1][h[i]]
        BY <3>1, <4>2
      <4> QED
        BY <4>1, <4>3
    <3> HIDE DEF Good
    <3> QED
      BY <3>1
  <2> HIDE DEF U
  <2>3. Nat \subseteq U
    BY <2>1, <2>2, InductiveSet
  <2> QED
    BY <2>3 DEF U
<1> DEFINE G(n) == CHOOSE g \in [0..n -> S] : Good(g, n)
           f == [n \in Nat |-> G(n)[n]]
<1>3. \A n \in Nat : G(n) \in [0..n -> S] /\ Good(G(n), n)
  BY <1>1
<1> HIDE DEF G
<1>4. f \in [Nat -> S]
  BY <1>3
<1>5. f[0] = x
  BY <1>3
<1>6. ASSUME NEW n \in Nat, n # 0
      PROVE  f[n] = step[n][f[n - 1]]
  <2>1. n - 1 \in Nat /\ n \in 1..n /\ n - 1 <= n /\ n - 1 <= n - 1
    BY <1>6
  <2>2. G(n)[n] = step[n][G(n)[n - 1]]
    BY <1>3, <2>1
  <2>3. G(n)[n - 1] = G(n - 1)[n - 1]
    <3>1. Good(G(n), n) /\ Good(G(n - 1), n - 1)
      BY <1>3, <2>1
    <3> HIDE DEF Good
    <3> QED
      BY <1>2, <2>1, <3>1
  <2> QED
    BY <2>1, <2>2, <2>3
<1> HIDE DEF f
<1>7. Repeats(f, x, step)
  BY <1>4, <1>5, <1>6 DEF Repeats
<1> QED
  BY <1>4, <1>7

-----------------------------------------------------------------------------
(* The shares of compaction.                                               *)

LEMMA GreatestOf ==
    ASSUME NEW n \in Nat, NEW S \in SUBSET (1..n)
    PROVE  /\ S = {} => Greatest(S) = 0
           /\ S # {} => Greatest(S) \in S /\ \A y \in S : y <= Greatest(S)
           /\ Greatest(S) \in 0..n
<1>1. CASE S = {}
  BY <1>1 DEF Greatest
<1>2. CASE S # {}
  <2>1. \E x \in S : \A y \in S : x >= y
    BY <1>2, GreatestNatural
  <2>2. Max(S) \in S /\ \A y \in S : Max(S) >= y
    BY <2>1 DEF Max
  <2>3. Greatest(S) = Max(S)
    BY <1>2 DEF Greatest
  <2> DEFINE g == Greatest(S)
  <2>4. g \in S /\ \A y \in S : g >= y
    BY <2>2, <2>3
  <2> HIDE DEF g
  <2>5. g \in 1..n /\ \A y \in S : y <= g
    BY <2>4
  <2>6. g \in 0..n
    BY <2>5
  <2> QED
    BY <1>2, <2>4, <2>5, <2>6 DEF g
<1> QED
  BY <1>1, <1>2

\* What compaction has taken from messages of the capacities, and what is left
\* to reduce.
Filling(acc, cap, reduction) ==
    /\ acc \in [taken : [DOMAIN cap -> Nat], left : Nat]
    /\ \A i \in DOMAIN cap : acc.taken[i] <= cap[i]
    /\ Total(DOMAIN cap, acc.taken, MaxTokens) + acc.left = reduction

\* Capacities of the messages 1 to n, and the pressures on them.
Fillable(cap, pressure, n) ==
    /\ n \in Nat /\ DOMAIN cap \subseteq 1..n
    /\ cap \in [DOMAIN cap -> 0..MaxTokens]
    /\ pressure \in [DOMAIN cap -> 1..MaxPressure]

LEMMA IndicesFinite ==
    ASSUME NEW n \in Nat, NEW S \in SUBSET (1..n)
    PROVE  IsFiniteSet(S)
<1>1. IsFiniteSet(1..n)
  BY FS_Interval
<1> QED
  BY <1>1, FS_Subset

\* A share is at least one token, if there are any left and any to take.
LEMMA ShareSize ==
    ASSUME NEW a \in Nat, NEW left \in Nat, NEW x \in Nat
    PROVE  LET n == Min({a, Max({1, x}), left})
           IN  n \in Nat /\ n <= a /\ n <= left /\ (a > 0 /\ left > 0 => n > 0)
<1> DEFINE share == Max({1, x})
<1>1. \E y \in {1, x} : \A z \in {1, x} : y >= z
  OBVIOUS
<1>2. share \in {1, x} /\ share >= 1
  BY <1>1 DEF Max
<1>3. share \in Nat /\ share > 0
  BY <1>2
<1> HIDE DEF share
<1> DEFINE T == {a, share, left}
           n == Min(T)
<1>4. \E y \in T : \A z \in T : y <= z
  <2>1. CASE a <= share /\ a <= left
    BY <1>3, <2>1
  <2>2. CASE share <= a /\ share <= left
    BY <1>3, <2>2
  <2>3. CASE left <= a /\ left <= share
    BY <1>3, <2>3
  <2> QED
    BY <1>3, <2>1, <2>2, <2>3
<1>5. n \in T /\ \A z \in T : n <= z
  BY <1>4 DEF Min
<1> HIDE DEF n
<1>6. n \in Nat /\ n <= a /\ n <= left /\ (a > 0 /\ left > 0 => n > 0)
  BY <1>3, <1>5
<1> QED
  BY <1>6 DEF n, share

LEMMA Quotient ==
    ASSUME NEW a \in Nat, NEW b \in Nat, NEW d \in Nat, d > 0
    PROVE  (a * b) \div d \in Nat
<1>1. a * b \in Nat
  OBVIOUS
<1> QED
  BY <1>1

LEMMA TakeShareKeeps ==
    ASSUME NEW cap, NEW pressure, NEW n, Fillable(cap, pressure, n), NEW reduction \in Nat,
           NEW acc, Filling(acc, cap, reduction), NEW i \in DOMAIN cap, NEW total \in Nat, total > 0
    PROVE  LET next == TakeShare(acc, i, cap, pressure, total)
           IN  /\ Filling(next, cap, reduction)
               /\ next.left <= acc.left
               /\ acc.left > 0 /\ cap[i] > acc.taken[i] => next.left < acc.left
               /\ \A j \in DOMAIN cap \ {i} : next.taken[j] = acc.taken[j]
<1> DEFINE D == DOMAIN cap
           t == acc.taken
           share == Max({1, (acc.left * pressure[i]) \div total})
           m == Min({cap[i] - t[i], share, acc.left})
           next == TakeShare(acc, i, cap, pressure, total)
<1>0. /\ acc.left \in Nat /\ t \in [D -> Nat] /\ pressure[i] \in Nat /\ cap[i] \in Nat
      /\ cap[i] <= MaxTokens /\ cap[i] - t[i] \in Nat /\ MaxTokens \in Nat
      /\ IsFiniteSet(D)
  BY PlanningAssumption, IndicesFinite DEF Filling, Fillable
<1>1. (acc.left * pressure[i]) \div total \in Nat
  BY <1>0, Quotient
<1>2. m \in Nat /\ m <= cap[i] - t[i] /\ m <= acc.left
      /\ (cap[i] - t[i] > 0 /\ acc.left > 0 => m > 0)
  BY <1>0, <1>1, ShareSize
<1>3. next = [taken |-> [t EXCEPT ![i] = @ + m], left |-> acc.left - m]
  BY DEF TakeShare
<1> HIDE DEF m, share, next
<1> DEFINE u == [t EXCEPT ![i] = @ + m]
<1>4. u \in [D -> Nat] /\ u[i] = t[i] + m /\ u[i] <= cap[i] /\ \A j \in D \ {i} : u[j] = t[j]
  BY <1>0, <1>2
<1>5. next.taken = u /\ next.left = acc.left - m
  BY <1>3
<1> HIDE DEF u, t
<1>6. Total(D, u, MaxTokens) = Total(D, t, MaxTokens) + m
  <2> DEFINE R == D \ {i}
  <2>1. t[i] \in Nat /\ t[i] <= MaxTokens /\ u[i] \in Nat /\ u[i] <= MaxTokens
    BY <1>0, <1>4
  <2>2. Total(D, t, MaxTokens) = Total(R, t, MaxTokens) + t[i]
    BY <1>0, <2>1, TotalRemove
  <2>3. Total(D, u, MaxTokens) = Total(R, u, MaxTokens) + u[i]
    BY <1>0, <2>1, TotalRemove
  <2>4. Total(R, u, MaxTokens) = Total(R, t, MaxTokens)
    BY <1>0, <1>4, TotalCongruence
  <2>5. IsFiniteSet(R) /\ Total(R, t, MaxTokens) \in Nat
    BY <1>0, FS_RemoveElement, TotalType
  <2> HIDE DEF R
  <2> QED
    BY <1>2, <1>4, <2>1, <2>2, <2>3, <2>4, <2>5
<1>7. Total(D, t, MaxTokens) + acc.left = reduction /\ Total(D, t, MaxTokens) \in Nat
  BY <1>0, TotalType DEF Filling, t
<1>8. Filling(next, cap, reduction)
  <2>1. next \in [taken : [D -> Nat], left : Nat]
    BY <1>0, <1>2, <1>3, <1>4 DEF u
  <2>2. \A j \in D : next.taken[j] <= cap[j]
    BY <1>4, <1>5 DEF Filling, t
  <2>3. Total(D, next.taken, MaxTokens) + next.left = reduction
    BY <1>0, <1>2, <1>5, <1>6, <1>7
  <2> QED
    BY <2>1, <2>2, <2>3 DEF Filling
<1>9. next.left <= acc.left /\ (acc.left > 0 /\ cap[i] > t[i] => next.left < acc.left)
  BY <1>0, <1>2, <1>5
<1> QED
  BY <1>4, <1>5, <1>8, <1>9 DEF next, t

\* A round: what it takes comes from what was left, and it takes something as
\* long as there is something to take.
LEMMA RoundKeeps ==
    ASSUME NEW cap, NEW pressure, NEW n, Fillable(cap, pressure, n), NEW reduction \in Nat,
           NEW acc, Filling(acc, cap, reduction)
    PROVE  LET next == Round(acc, cap, pressure)
           IN  /\ Filling(next, cap, reduction)
               /\ next.left <= acc.left
               /\ acc.left > 0 /\ Active(acc, cap) # {} => next.left < acc.left
<1> DEFINE D == DOMAIN cap
           active == Active(acc, cap)
           total == Total(active, pressure, MaxPressure)
           F == {a \in [taken : [D -> Nat], left : Nat] : Filling(a, cap, reduction)}
           Passing(p) == [k \in Nat |-> IF k = 0 THEN acc
                                        ELSE IF k \in active
                                        THEN TakeShare(p[k - 1], k, cap, pressure, total)
                                        ELSE p[k - 1]]
           pass == CHOOSE p : p = Passing(p)
           last == Greatest(active)
           next == Round(acc, cap, pressure)
<1>1. next = IF acc.left = 0 THEN acc ELSE pass[last]
  BY DEF Round
<1>2. /\ n \in Nat /\ active \in SUBSET (1..n) /\ active \subseteq D /\ acc \in F
      /\ acc.left \in Nat
  BY DEF Filling, Fillable, Active
<1>3. last \in 0..n /\ (active # {} => last \in active) /\ (active = {} => last = 0)
  BY <1>2, GreatestOf
<1>4. active # {} => total \in Nat /\ total > 0
  <2> SUFFICES ASSUME active # {} PROVE total \in Nat /\ total > 0
    OBVIOUS
  <2>1. PICK i \in active : TRUE
    OBVIOUS
  <2>2. IsFiniteSet(active) /\ IsFiniteSet(active \ {i})
    BY <1>2, IndicesFinite, FS_RemoveElement
  <2>3. /\ pressure[i] \in Nat /\ pressure[i] > 0 /\ pressure[i] <= MaxPressure
        /\ MaxPressure \in Nat
    BY <1>2, PlanningAssumption DEF Fillable
  <2>4. i \in active /\ IsFiniteSet(active)
    BY <2>1, <2>2
  <2> HIDE DEF active
  <2>5. total = Total(active \ {i}, pressure, MaxPressure) + pressure[i]
    BY <2>4, <2>3, TotalRemove
  <2>6. Total(active \ {i}, pressure, MaxPressure) \in Nat
    BY <2>2, <2>3, TotalType
  <2> QED
    BY <2>3, <2>5, <2>6
<1> HIDE DEF active, total, F, last, next
<1>5. ASSUME NEW a \in F, NEW k \in active
      PROVE  LET then == TakeShare(a, k, cap, pressure, total)
             IN  /\ then \in F /\ then.left <= a.left
                 /\ a.left > 0 /\ cap[k] > a.taken[k] => then.left < a.left
                 /\ \A j \in D \ {k} : then.taken[j] = a.taken[j]
  <2> DEFINE then == TakeShare(a, k, cap, pressure, total)
  <2>1. total \in Nat /\ total > 0 /\ k \in D /\ Filling(a, cap, reduction)
    BY <1>2, <1>4 DEF F
  <2>2. /\ Filling(then, cap, reduction) /\ then.left <= a.left
        /\ a.left > 0 /\ cap[k] > a.taken[k] => then.left < a.left
        /\ \A j \in D \ {k} : then.taken[j] = a.taken[j]
    BY <2>1, TakeShareKeeps
  <2> HIDE DEF then
  <2>3. then \in F
    BY <2>2 DEF F, Filling
  <2> QED
    BY <2>2, <2>3 DEF then
<1>6. pass = Passing(pass)
  <2> DEFINE step == [k \in Nat |-> [a \in F |-> IF k \in active
                                                 THEN TakeShare(a, k, cap, pressure, total)
                                                 ELSE a]]
  <2>1. step \in [Nat -> [F -> F]]
    BY <1>5
  <2>2. \A k \in Nat, a \in F : step[k][a] = IF k \in active
                                              THEN TakeShare(a, k, cap, pressure, total)
                                              ELSE a
    OBVIOUS
  <2> HIDE DEF step
  <2>3. PICK f \in [Nat -> F] : Repeats(f, acc, step)
    BY <1>2, <2>1, Recursion
  <2>4. \A k \in Nat : k # 0 => f[k - 1] \in F
    BY <2>3
  <2>5. f = Passing(f)
    BY <2>2, <2>3, <2>4 DEF Repeats
  <2> HIDE DEF Passing
  <2> QED
    BY <2>5
<1>7. /\ pass[0] = acc
      /\ \A k \in Nat \ {0} : pass[k] = IF k \in active
                                       THEN TakeShare(pass[k - 1], k, cap, pressure, total)
                                       ELSE pass[k - 1]
  <2> HIDE DEF pass
  <2> QED
    BY <1>6
<1> HIDE DEF pass, Passing
<1> DEFINE A == {k \in Nat : /\ pass[k] \in F /\ pass[k].left <= acc.left
                             /\ \A j \in D : j > k => pass[k].taken[j] = acc.taken[j]}
<1>8. 0 \in A
  BY <1>2, <1>7
<1>9. ASSUME NEW k \in Nat, k \in A
      PROVE  k + 1 \in A
  <2>1. k + 1 - 1 = k /\ k + 1 \in Nat \ {0}
    OBVIOUS
  <2>2. CASE k + 1 \in active
    <3>1. pass[k + 1] = TakeShare(pass[k], k + 1, cap, pressure, total)
      BY <1>7, <2>1, <2>2
    <3>2. /\ pass[k + 1] \in F /\ pass[k + 1].left <= pass[k].left
          /\ \A j \in D \ {k + 1} : pass[k + 1].taken[j] = pass[k].taken[j]
      BY <1>5, <1>9, <2>2, <3>1
    <3>3. pass[k + 1].left \in Nat /\ pass[k].left \in Nat
      BY <1>9, <3>2 DEF F
    <3>4. \A j \in D : j > k + 1 => j > k /\ j \in D \ {k + 1}
      BY DEF Fillable
    <3> QED
      BY <1>2, <1>9, <3>2, <3>3, <3>4
  <2>3. CASE k + 1 \notin active
    <3>1. pass[k + 1] = pass[k]
      BY <1>7, <2>1, <2>3
    <3>2. \A j \in D : j > k + 1 => j > k
      BY DEF Fillable
    <3> QED
      BY <1>9, <3>1, <3>2
  <2> QED
    BY <2>2, <2>3
<1> HIDE DEF A
<1>10. Nat \subseteq A
  BY <1>8, <1>9, InductiveSet
<1>11. \A k \in Nat : /\ pass[k] \in F /\ pass[k].left <= acc.left
                      /\ \A j \in D : j > k => pass[k].taken[j] = acc.taken[j]
  BY <1>10 DEF A
<1>12. CASE acc.left = 0
  BY <1>1, <1>2, <1>12 DEF F, next
<1>13. CASE acc.left # 0 /\ active = {}
  BY <1>1, <1>2, <1>3, <1>7, <1>13 DEF F, active, next
<1>14. CASE acc.left # 0 /\ active # {}
  <2>1. last \in Nat \ {0} /\ last \in active /\ last - 1 \in Nat /\ last > last - 1 /\ last \in D
    BY <1>2, <1>3, <1>14
  <2>2. next = TakeShare(pass[last - 1], last, cap, pressure, total)
    BY <1>1, <1>7, <1>14, <2>1
  <2> DEFINE before == pass[last - 1]
  <2>3. before \in F /\ before.left <= acc.left /\ before.taken[last] = acc.taken[last]
    BY <1>11, <2>1
  <2>4. cap[last] > acc.taken[last]
    BY <2>1 DEF active, Active
  <2> HIDE DEF before
  <2>5. next \in F /\ next.left <= before.left /\ (before.left > 0 => next.left < before.left)
    BY <1>5, <2>1, <2>2, <2>3, <2>4 DEF before
  <2>6. next.left \in Nat /\ before.left \in Nat
    BY <2>3, <2>5 DEF F
  <2>7. next.left < acc.left
    BY <1>2, <1>14, <2>3, <2>5, <2>6
  <2> QED
    BY <1>2, <2>5, <2>6, <2>7 DEF F, next
<1> QED
  BY <1>12, <1>13, <1>14

\* The rounds reach the reduction, if the capacities add up to it.
LEMMA WaterFillIsExact ==
    ASSUME NEW cap, NEW pressure, NEW n, Fillable(cap, pressure, n), NEW reduction \in Nat,
           reduction <= Total(DOMAIN cap, cap, MaxTokens)
    PROVE  LET taken == WaterFill(reduction, cap, pressure)
           IN  /\ taken \in [DOMAIN cap -> Nat]
               /\ \A i \in DOMAIN cap : taken[i] <= cap[i]
               /\ Total(DOMAIN cap, taken, MaxTokens) = reduction
<1> DEFINE D == DOMAIN cap
           F == {a \in [taken : [D -> Nat], left : Nat] : Filling(a, cap, reduction)}
           start == [taken |-> [i \in D |-> 0], left |-> reduction]
           Rounding(r) == [k \in Nat |-> IF k = 0 THEN start ELSE Round(r[k - 1], cap, pressure)]
           rounds == CHOOSE r : r = Rounding(r)
<1>1. WaterFill(reduction, cap, pressure) = rounds[reduction].taken
  BY DEF WaterFill
<1>2. IsFiniteSet(D) /\ MaxTokens \in Nat
  BY IndicesFinite, PlanningAssumption DEF Fillable
<1>3. start \in F
  <2> DEFINE none == [i \in D |-> 0]
  <2>1. none \in [D -> Nat] /\ \A i \in D : none[i] = 0
    OBVIOUS
  <2>2. \A i \in D : 0 <= cap[i]
    BY DEF Fillable
  <2> HIDE DEF none
  <2>3. Units(D, none, MaxTokens) = {}
    BY <1>2, <2>1 DEF Units
  <2>4. Total(D, none, MaxTokens) = 0
    BY <2>3, FS_EmptySet DEF Total
  <2>5. start = [taken |-> none, left |-> reduction]
    BY DEF none
  <2> QED
    BY <2>1, <2>2, <2>4, <2>5 DEF Filling
<1>4. ASSUME NEW a \in F
      PROVE  LET next == Round(a, cap, pressure)
             IN  /\ next \in F /\ next.left <= a.left
                 /\ a.left > 0 /\ Active(a, cap) # {} => next.left < a.left
  <2> DEFINE next == Round(a, cap, pressure)
  <2>1. /\ Filling(next, cap, reduction) /\ next.left <= a.left
        /\ a.left > 0 /\ Active(a, cap) # {} => next.left < a.left
    BY RoundKeeps
  <2> HIDE DEF next
  <2>2. next \in F
    BY <2>1 DEF Filling
  <2> QED
    BY <2>1, <2>2 DEF next
<1> HIDE DEF F, start
<1>5. rounds = Rounding(rounds)
  <2> DEFINE step == [k \in Nat |-> [a \in F |-> Round(a, cap, pressure)]]
  <2>1. step \in [Nat -> [F -> F]]
    BY <1>4
  <2>2. \A k \in Nat, a \in F : step[k][a] = Round(a, cap, pressure)
    OBVIOUS
  <2> HIDE DEF step
  <2>3. PICK r \in [Nat -> F] : Repeats(r, start, step)
    BY <1>3, <2>1, Recursion
  <2>4. \A k \in Nat : k # 0 => r[k - 1] \in F
    BY <2>3
  <2>5. r = Rounding(r)
    BY <2>2, <2>3, <2>4 DEF Repeats
  <2> HIDE DEF Rounding
  <2> QED
    BY <2>5
<1>6. /\ rounds[0] = start
      /\ \A k \in Nat : rounds[k + 1] = Round(rounds[k], cap, pressure)
  <2> HIDE DEF rounds
  <2>1. \A k \in Nat : k + 1 \in Nat /\ k + 1 # 0 /\ k + 1 - 1 = k
    OBVIOUS
  <2> QED
    BY <1>5, <2>1
<1> HIDE DEF rounds, Rounding
<1>7. ASSUME NEW a \in F, a.left > 0
      PROVE  Active(a, cap) # {}
  <2> SUFFICES ASSUME Active(a, cap) = {} PROVE FALSE
    OBVIOUS
  <2>1. a.left \in Nat /\ a.taken \in [D -> Nat] /\ Filling(a, cap, reduction)
    BY DEF F
  <2>2. \A i \in D : a.taken[i] = cap[i]
    BY <2>1 DEF Active, Filling, Fillable
  <2>3. Total(D, a.taken, MaxTokens) = Total(D, cap, MaxTokens)
    BY <1>2, <2>2, TotalCongruence
  <2>4. Total(D, cap, MaxTokens) \in Nat
    BY <1>2, TotalType
  <2> QED
    BY <1>7, <2>1, <2>3, <2>4 DEF Filling
<1> DEFINE A == {k \in Nat : rounds[k] \in F /\ (rounds[k].left = 0 \/ rounds[k].left + k <= reduction)}
<1>8. 0 \in A
  BY <1>3, <1>6 DEF start
<1>9. ASSUME NEW k \in Nat, k \in A
      PROVE  k + 1 \in A
  <2> DEFINE a == rounds[k]
             b == rounds[k + 1]
  <2>1. b \in F /\ b.left <= a.left /\ (a.left > 0 => b.left < a.left)
    <3>1. a \in F /\ b = Round(a, cap, pressure)
      BY <1>6, <1>9
    <3> HIDE DEF a, b
    <3> QED
      BY <1>4, <1>7, <3>1
  <2>2. a.left \in Nat /\ b.left \in Nat
    BY <1>9, <2>1 DEF F
  <2> QED
    BY <1>9, <2>1, <2>2
<1> HIDE DEF A
<1>10. reduction \in A
  BY <1>8, <1>9, InductiveSet
<1> DEFINE last == rounds[reduction]
<1>11. last \in F /\ last.left = 0
  <2>1. last \in F /\ (last.left = 0 \/ last.left + reduction <= reduction)
    BY <1>10 DEF A
  <2>2. last.left \in Nat
    BY <2>1 DEF F
  <2> QED
    BY <2>1, <2>2
<1> HIDE DEF last
<1>12. /\ last.taken \in [D -> Nat] /\ \A i \in D : last.taken[i] <= cap[i]
       /\ Total(D, last.taken, MaxTokens) + last.left = reduction
       /\ Total(D, last.taken, MaxTokens) \in Nat
  BY <1>2, <1>11, TotalType DEF F, Filling
<1>13. Total(D, last.taken, MaxTokens) = reduction
  BY <1>11, <1>12
<1> QED
  BY <1>1, <1>12, <1>13 DEF last

-----------------------------------------------------------------------------
(* Conversations.                                                          *)

LEMMA Indexed ==
    ASSUME NEW msgs \in Seq(Message)
    PROVE  /\ Len(msgs) \in Nat /\ DOMAIN msgs = 1..Len(msgs)
           /\ \A i \in DOMAIN msgs : msgs[i] \in Message
OBVIOUS

\* The leading instructions are a number of messages.
LEMMA LeadingType ==
    ASSUME NEW msgs \in Seq(Message)
    PROVE  Leading(msgs) \in Nat
<1> DEFINE S == {n \in 0..Len(msgs) : \A i \in 1..n : BlockType(msgs[i]) = "protocol"}
           T == S \ {0}
<1>1. Len(msgs) \in Nat /\ 0 \in S /\ S \subseteq Nat /\ T \in SUBSET (1..Len(msgs))
  BY Indexed
<1> HIDE DEF S
<1>2. \E x \in S : \A y \in S : x >= y
  <2>1. CASE T = {}
    BY <1>1, <2>1
  <2>2. CASE T # {}
    <3>1. PICK x \in T : \A y \in T : x >= y
      BY <1>1, <2>2, GreatestNatural
    <3>2. x \in S /\ x \in Nat /\ x >= 0
      BY <1>1
    <3>3. \A y \in S : y \in T \/ y = 0
      OBVIOUS
    <3> QED
      BY <3>1, <3>2, <3>3
  <2> QED
    BY <2>1, <2>2
<1>3. Max(S) \in S
  BY <1>2 DEF Max
<1> QED
  BY <1>1, <1>3 DEF Leading, S

\* The prefix that analyze offers and the one recovered from the blocks of an
\* observed request are the same messages.
LEMMA PrefixCountsAgree ==
    ASSUME NEW msgs \in Seq(Message)
    PROVE  /\ CandidatePrefixCount(msgs) = ProposedPrefixCount(msgs)
           /\ ProposedPrefixCount(msgs) \in Int
<1> DEFINE n == Len(msgs)
           mine == {i \in DOMAIN msgs : msgs[i].role = "user" /\ msgs[i].call = 0}
           latest == LatestUser(msgs)
           users == {i \in DOMAIN msgs : BlockType(msgs[i]) = "user" /\ Immutable(msgs, i)}
<1>1. n \in Nat /\ DOMAIN msgs = 1..n /\ mine \in SUBSET (1..n)
  BY Indexed
<1>2. /\ mine = {} => latest = 0
      /\ mine # {} => latest \in mine
      /\ latest \in 0..n
  BY <1>1, GreatestOf DEF LatestUser
<1>3. /\ latest # 0 => users = {latest}
      /\ latest = 0 => users = {}
  <2>1. \A i \in users : i = latest /\ i # 0
    BY <1>1 DEF BlockType, Immutable
  <2>2. latest # 0 => latest \in users
    BY <1>2 DEF BlockType, Immutable
  <2> QED
    BY <2>1, <2>2
<1>4. latest \in Int /\ Leading(msgs) \in Int
  BY <1>1, <1>2, LeadingType
<1>5. CandidatePrefixCount(msgs) = IF users # {} THEN Max(users) - 1 ELSE Leading(msgs)
  BY DEF CandidatePrefixCount
<1>6. ProposedPrefixCount(msgs) = IF latest # 0 THEN latest - 1 ELSE Leading(msgs)
  BY DEF ProposedPrefixCount
<1> HIDE DEF latest, users, mine
<1>7. CASE latest # 0
  <2>1. Max({latest}) = latest
    BY <1>4 DEF Max
  <2>2. users # {} /\ Max(users) = latest
    BY <1>3, <1>7, <2>1
  <2> QED
    BY <1>4, <1>5, <1>6, <1>7, <2>2
<1>8. CASE latest = 0
  BY <1>3, <1>4, <1>5, <1>6, <1>8
<1> QED
  BY <1>7, <1>8

-----------------------------------------------------------------------------
(* What compaction may take, and what it makes of the messages.            *)

LEMMA CapacityType ==
    ASSUME NEW msgs \in Seq(Message), NEW i \in DOMAIN msgs
    PROVE  Capacity(msgs, i) \in 0..MaxTokens
<1>1. msgs[i].size \in 1..MaxTokens /\ Kept \in Nat /\ MaxTokens \in Nat
  BY Indexed, PlanningAssumption DEF Message
<1> QED
  BY <1>1 DEF Capacity, Above

LEMMA CapacityOfType ==
    ASSUME NEW msgs \in Seq(Message), NEW S \in SUBSET DOMAIN msgs
    PROVE  /\ CapacityOf(msgs, S) \in Nat /\ TotalTokens(msgs) \in Nat
           /\ CapacityOf(msgs, S) = Total(S, [i \in S |-> Capacity(msgs, i)], MaxTokens)
<1>1. MaxTokens \in Nat /\ IsFiniteSet(S) /\ IsFiniteSet(DOMAIN msgs)
  BY Indexed, IndicesFinite, PlanningAssumption
<1>2. CapacityOf(msgs, S) \in Nat
  BY <1>1, TotalType DEF CapacityOf, AboveOf
<1>3. TotalTokens(msgs) \in Nat
  BY <1>1, TotalType DEF TotalTokens
<1> DEFINE wide == [i \in DOMAIN msgs |-> Capacity(msgs, i)]
           narrow == [i \in S |-> Capacity(msgs, i)]
<1>4. \A i \in S : wide[i] = narrow[i]
  OBVIOUS
<1>5. CapacityOf(msgs, S) = Total(S, wide, MaxTokens)
  BY DEF CapacityOf, AboveOf, Capacity
<1> HIDE DEF wide, narrow
<1>6. Total(S, wide, MaxTokens) = Total(S, narrow, MaxTokens)
  BY <1>1, <1>4, TotalCongruence
<1> QED
  BY <1>2, <1>3, <1>5, <1>6 DEF narrow

\* A router that keeps more of each message expects less of them.
LEMMA RouterExpectsLess ==
    ASSUME Kept <= RouterKept, NEW msgs \in Seq(Message), NEW S \in SUBSET DOMAIN msgs
    PROVE  AboveOf(RouterKept, msgs, S) <= CapacityOf(msgs, S)
<1> DEFINE router == [i \in DOMAIN msgs |-> Above(RouterKept, msgs, i)]
           planner == [i \in DOMAIN msgs |-> Above(Kept, msgs, i)]
<1>1. MaxTokens \in Nat /\ Kept \in Nat /\ RouterKept \in Nat /\ IsFiniteSet(S)
  BY Indexed, IndicesFinite, PlanningAssumption
<1>2. \A i \in S : router[i] \in Int /\ planner[i] \in Int /\ router[i] <= planner[i]
  <2> SUFFICES ASSUME NEW i \in S
               PROVE  router[i] \in Int /\ planner[i] \in Int /\ router[i] <= planner[i]
    OBVIOUS
  <2>1. msgs[i].size \in Int
    <3>1. msgs[i] \in Message
      BY Indexed
    <3> QED
      BY <1>1, <3>1 DEF Message
  <2>2. router[i] = Above(RouterKept, msgs, i) /\ planner[i] = Above(Kept, msgs, i)
    OBVIOUS
  <2> QED
    BY <1>1, <2>1, <2>2 DEF Above
<1>3. AboveOf(RouterKept, msgs, S) = Total(S, router, MaxTokens)
      /\ CapacityOf(msgs, S) = Total(S, planner, MaxTokens)
  BY DEF AboveOf, CapacityOf
<1> HIDE DEF router, planner
<1> QED
  BY <1>1, <1>2, <1>3, TotalMonotone

\* The messages that a plan may compact can give the reduction it needs, and
\* leave the cached ones alone when the router counted on that.
LEMMA ReductionIsReachable ==
    ASSUME NEW msgs \in Seq(Message), NEW cached, NEW required \in Int,
           required >= MinimumReachable(msgs)
    PROVE  LET eligible == Eligible(msgs, required, cached)
           IN  /\ eligible \in SUBSET DOMAIN msgs
               /\ Reduction(msgs, required) \in Nat
               /\ Reduction(msgs, required) <= CapacityOf(msgs, eligible)
               /\ Kept <= RouterKept /\ CachePreserved(msgs, required, cached)
                    => eligible \cap cached = {}
<1> DEFINE others == Compactable(msgs) \ cached
<1>1. Compactable(msgs) \in SUBSET DOMAIN msgs /\ others \in SUBSET DOMAIN msgs
  BY DEF Compactable
<1>2. /\ TotalTokens(msgs) \in Nat /\ CapacityOf(msgs, Compactable(msgs)) \in Nat
      /\ CapacityOf(msgs, others) \in Nat
  BY <1>1, CapacityOfType
<1>3. Reduction(msgs, required) \in Nat
  BY <1>2 DEF Reduction
<1>4. CASE Reduction(msgs, required) <= CapacityOf(msgs, others)
  BY <1>1, <1>3, <1>4 DEF Eligible
<1>5. CASE ~ Reduction(msgs, required) <= CapacityOf(msgs, others)
  <2>1. Eligible(msgs, required, cached) = Compactable(msgs)
    BY <1>5 DEF Eligible
  <2>2. Reduction(msgs, required) <= CapacityOf(msgs, Compactable(msgs))
    BY <1>2 DEF Reduction, MinimumReachable
  <2>3. ASSUME Kept <= RouterKept
        PROVE  ~ CachePreserved(msgs, required, cached)
    <3>1. AboveOf(RouterKept, msgs, others) <= CapacityOf(msgs, others)
      BY <1>1, <2>3, RouterExpectsLess
    <3>2. AboveOf(RouterKept, msgs, others) \in Nat
      BY <1>1, Indexed, IndicesFinite, PlanningAssumption, TotalType DEF AboveOf
    <3> QED
      BY <1>2, <1>3, <1>5, <3>1, <3>2 DEF CachePreserved
  <2> QED
    BY <1>1, <1>3, <2>1, <2>2, <2>3
<1> QED
  BY <1>4, <1>5

\* Compaction shortens messages that something was taken from, and no other.
LEMMA CompactedShape ==
    ASSUME NEW msgs \in Seq(Message), NEW S \in SUBSET DOMAIN msgs, NEW taken \in [S -> Nat],
           NEW cut \in Cuts(msgs, taken)
    PROVE  /\ Compacted(msgs, cut) \in Seq(Message)
           /\ DOMAIN Compacted(msgs, cut) = DOMAIN msgs
           /\ \A i \in DOMAIN msgs \ S : Compacted(msgs, cut)[i] = msgs[i]
<1> DEFINE asked == {i \in S : taken[i] > 0}
           sent == Compacted(msgs, cut)
<1>1. asked \in SUBSET S /\ DOMAIN taken = S /\ MaxTokens \in Nat
  BY PlanningAssumption
<1>2. cut \in [asked -> 0..MaxTokens] /\ \A i \in asked : cut[i] < msgs[i].size
  BY DEF Cuts
<1> HIDE DEF asked
<1>5. ASSUME NEW i \in DOMAIN msgs
      PROVE  sent[i] \in Message /\ (i \notin S => sent[i] = msgs[i])
  <2>1. msgs[i] \in Message
    BY Indexed
  <2>2. CASE i \in asked
    <3>1. cut[i] \in Nat /\ cut[i] < msgs[i].size /\ msgs[i].size \in 1..MaxTokens
      BY <1>1, <1>2, <2>1, <2>2 DEF Message
    <3>2. msgs[i].size - cut[i] \in 1..MaxTokens
      BY <1>1, <3>1
    <3>3. sent[i] = [msgs[i] EXCEPT !.size = @ - cut[i]]
      BY <1>2, <2>2 DEF Compacted
    <3> QED
      BY <1>1, <2>1, <2>2, <3>2, <3>3 DEF Message
  <2>3. CASE i \notin asked
    BY <1>2, <2>1, <2>3 DEF Compacted
  <2> QED
    BY <2>2, <2>3
<1>6. sent = [i \in 1..Len(msgs) |-> sent[i]] /\ Len(msgs) \in Nat
  BY Indexed DEF Compacted
<1>7. DOMAIN sent = DOMAIN msgs /\ DOMAIN msgs = 1..Len(msgs)
  BY Indexed DEF Compacted
<1> HIDE DEF sent
<1>8. sent \in Seq(Message)
  BY <1>5, <1>6, <1>7
<1> QED
  BY <1>5, <1>7, <1>8 DEF sent

-----------------------------------------------------------------------------
(* The session.                                                            *)

\* A discount is expected only of a conversation that begins with the record.
AnalysedCall(v) ==
    /\ v.msgs \in Seq(Message)
    /\ v.cached \subseteq DOMAIN v.msgs
    /\ \A m \in Model : v.values[m].exact => v.cached # {}

\* What is sent has the messages of the conversation, the cached ones as they
\* are if they were counted on.
PreparedCall(v) ==
    /\ v.msgs \in Seq(Message) /\ v.sent \in Seq(Message)
    /\ DOMAIN v.sent = DOMAIN v.msgs
    /\ Kept <= RouterKept /\ v.discount > 0 =>
           v.cached # {} /\ \A i \in v.cached : v.sent[i] = v.msgs[i]
    /\ Total(DOMAIN v.taken, v.taken, MaxTokens) = v.reduction
    /\ \A i \in DOMAIN v.taken : v.taken[i] <= Capacity(v.msgs, i)

\* The record stands for a message or more.
RecordCounts == record # None => record.count \in Nat \ {0}

SessionInv ==
    /\ call = [c \in Calls |-> call[c]]
    /\ \A c \in Calls : /\ call[c].at = "analysed" => AnalysedCall(call[c])
                        /\ call[c].at = "prepared" => PreparedCall(call[c])
    /\ RecordCounts
    /\ RecordedWasSent

\* A step of a call leaves the other calls alone.
LEMMA BecomesKeeps ==
    ASSUME SessionInv, NEW c \in Calls, NEW v, Becomes(c, v),
           v.at = "analysed" => AnalysedCall(v),
           v.at = "prepared" => PreparedCall(v)
    PROVE  /\ call' = [d \in Calls |-> call'[d]]
           /\ call'[c] = v /\ \A d \in Calls \ {c} : call'[d] = call[d]
           /\ \A d \in Calls : /\ call'[d].at = "analysed" => AnalysedCall(call'[d])
                               /\ call'[d].at = "prepared" => PreparedCall(call'[d])
<1>1. call = [d \in Calls |-> call[d]] /\ call' = [call EXCEPT ![c] = v]
  BY DEF SessionInv, Becomes
<1>2. call' = [d \in Calls |-> IF d = c THEN v ELSE call[d]]
  BY <1>1
<1>3. call'[c] = v /\ \A d \in Calls \ {c} : call'[d] = call[d]
  BY <1>2
<1>4. ASSUME NEW d \in Calls
      PROVE  /\ call'[d].at = "analysed" => AnalysedCall(call'[d])
             /\ call'[d].at = "prepared" => PreparedCall(call'[d])
  <2>1. CASE d = c
    BY <1>3, <2>1
  <2>2. CASE d # c
    <3>1. /\ call[d].at = "analysed" => AnalysedCall(call[d])
          /\ call[d].at = "prepared" => PreparedCall(call[d])
      BY DEF SessionInv
    <3>2. call'[d] = call[d]
      BY <1>3, <2>2
    <3> QED
      BY <3>1, <3>2
  <2> QED
    BY <2>1, <2>2
<1>5. call' = [d \in Calls |-> call'[d]]
  BY <1>2
<1> QED
  BY <1>3, <1>4, <1>5

\* A step of a call that has not been observed, to a place it may be at, leaves
\* the record to the call that it was made from.
LEMMA UnobservedKeeps ==
    ASSUME SessionInv, NEW c \in Calls, NEW v, Becomes(c, v), UNCHANGED record,
           call[c].at # "observed",
           v.at = "analysed" => AnalysedCall(v),
           v.at = "prepared" => PreparedCall(v)
    PROVE  SessionInv'
<1>1. /\ call' = [d \in Calls |-> call'[d]]
      /\ \A d \in Calls \ {c} : call'[d] = call[d]
      /\ \A d \in Calls : /\ call'[d].at = "analysed" => AnalysedCall(call'[d])
                          /\ call'[d].at = "prepared" => PreparedCall(call'[d])
  BY BecomesKeeps
<1>2. RecordCounts'
  BY DEF SessionInv, RecordCounts
<1>3. RecordedWasSent'
  <2> SUFFICES ASSUME record # None
               PROVE  \E d \in Calls :
                          /\ call'[d].at = "observed"
                          /\ call'[d].model = record.model /\ call'[d].provider = record.provider
                          /\ SubSeq(call'[d].sent, 1, record.count) = record.prefix
    BY DEF RecordedWasSent
  <2>1. PICK d \in Calls :
            /\ call[d].at = "observed"
            /\ call[d].model = record.model /\ call[d].provider = record.provider
            /\ SubSeq(call[d].sent, 1, record.count) = record.prefix
    BY DEF SessionInv, RecordedWasSent
  <2>2. call'[d] = call[d]
    BY <1>1, <2>1
  <2> QED
    BY <2>1, <2>2
<1> QED
  BY <1>1, <1>2, <1>3 DEF SessionInv

LEMMA AnalyzeKeeps ==
    ASSUME SessionInv, NEW c \in Calls, NEW msgs \in Intents, Analyze(c, msgs)
    PROVE  SessionInv'
<1>1. PICK v : v = [at |-> "analysed", msgs |-> msgs,
                    cached |-> IF ActiveExact(msgs) THEN 1..record.count ELSE {},
                    values |-> [m \in Model |-> Value(m, msgs)],
                    last |-> [model |-> last_model_id, provider |-> last_provider]]
  OBVIOUS
<1>2. /\ Becomes(c, v) /\ UNCHANGED record /\ call[c].at = "idle"
  BY <1>1 DEF Analyze
<1>3. msgs \in Seq(Message)
  BY SessionAssumption
<1>4. AnalysedCall(v)
  <2>1. v.msgs = msgs /\ v.cached = IF ActiveExact(msgs) THEN 1..record.count ELSE {}
    BY <1>1
  <2>2. \A m \in Model : v.values[m] = Value(m, msgs)
    BY <1>1
  <2>3. \A m \in Model : Value(m, msgs).exact => ActiveExact(msgs)
    BY DEF Value
  <2>4. ActiveExact(msgs) => 1..record.count # {} /\ 1..record.count \subseteq DOMAIN msgs
    <3>1. ActiveExact(msgs) => record.count \in Nat \ {0} /\ record.count <= Len(msgs)
      BY DEF SessionInv, RecordCounts, ActiveExact
    <3> QED
      BY <1>3, <3>1, Indexed
  <2> QED
    BY <1>3, <2>1, <2>2, <2>3, <2>4 DEF AnalysedCall
<1>5. v.at = "analysed"
  BY <1>1
<1> HIDE DEF AnalysedCall
<1> QED
  BY <1>2, <1>4, <1>5, UnobservedKeeps

LEMMA RaiseKeeps ==
    ASSUME SessionInv, NEW c \in Calls, PlanRaises(c)
    PROVE  SessionInv'
<1>1. PICK v : v = [at |-> "raised"]
  OBVIOUS
<1>2. v.at = "raised"
  BY <1>1
<1>3. Becomes(c, v) /\ UNCHANGED record /\ call[c].at = "analysed"
  BY <1>1 DEF PlanRaises
<1> QED
  BY <1>2, <1>3, UnobservedKeeps

\* A discount above nothing is one for a prefix that compaction need not touch.
LEMMA DiscountMeans ==
    ASSUME NEW r, NEW analysis, NEW required, Discounted(r, analysis, required) > 0
    PROVE  /\ analysis.value.exact
           /\ CachePreserved(analysis.msgs, required, analysis.cached)
BY DEF Discounted

\* A plan raises the budget to what compaction can reach.
LEMMA RequiredReaches ==
    ASSUME NEW c, NEW b \in Budgets, call[c].msgs \in Seq(Message)
    PROVE  /\ Required(c, b) \in Int
           /\ Required(c, b) >= MinimumReachable(call[c].msgs)
<1>1. PICK msgs \in Seq(Message) : msgs = call[c].msgs
  OBVIOUS
<1>2. Compactable(msgs) \in SUBSET DOMAIN msgs
  BY DEF Compactable
<1>3. TotalTokens(msgs) \in Nat /\ CapacityOf(msgs, Compactable(msgs)) \in Nat
  BY <1>2, CapacityOfType
<1>4. MinimumReachable(msgs) \in Int
  BY <1>3 DEF MinimumReachable
<1>5. b.required \in Int
  BY SessionAssumption
<1>6. \A x, y \in Int : Max({x, y}) \in Int /\ Max({x, y}) >= y
  <2> SUFFICES ASSUME NEW x \in Int, NEW y \in Int
               PROVE  Max({x, y}) \in Int /\ Max({x, y}) >= y
    OBVIOUS
  <2>1. \E z \in {x, y} : \A w \in {x, y} : z >= w
    OBVIOUS
  <2>2. Max({x, y}) \in {x, y} /\ \A w \in {x, y} : Max({x, y}) >= w
    BY <2>1 DEF Max
  <2> QED
    BY <2>2
<1> QED
  BY <1>1, <1>4, <1>5, <1>6 DEF Required

LEMMA PlanKeeps ==
    ASSUME SessionInv, NEW c \in Calls, NEW b \in Budgets, NEW m \in Model, NEW slack \in BOOLEAN,
           Plan(c, b, m, slack)
    PROVE  SessionInv'
<1>1. AnalysedCall(call[c]) /\ call[c].at = "analysed"
  BY DEF SessionInv, Plan
<1>2. PICK msgs, cached, required, decision, eligible, capacity :
        /\ msgs \in Seq(Message)
        /\ msgs = call[c].msgs /\ cached = call[c].cached
        /\ required = Required(c, b) /\ decision = Decision(c, b, m, slack)
        /\ eligible = Eligible(msgs, required, cached)
        /\ capacity = [i \in eligible |-> Capacity(msgs, i)]
  BY <1>1 DEF AnalysedCall
<1>3. required \in Int /\ required >= MinimumReachable(msgs)
  BY <1>2, RequiredReaches
<1>4. /\ eligible \in SUBSET DOMAIN msgs
      /\ Reduction(msgs, required) \in Nat
      /\ Reduction(msgs, required) <= CapacityOf(msgs, eligible)
      /\ Kept <= RouterKept /\ CachePreserved(msgs, required, cached)
           => eligible \cap cached = {}
  BY <1>2, <1>3, ReductionIsReachable
<1>5. PICK pressure, taken :
        /\ pressure \in [eligible -> 1..MaxPressure]
        /\ taken = WaterFill(Reduction(msgs, required), capacity, pressure)
        /\ \E cut \in Cuts(msgs, taken) :
             Becomes(c, [at |-> "prepared", msgs |-> msgs, cached |-> cached,
                         model |-> m, sent |-> Compacted(msgs, cut), taken |-> taken,
                         reduction |-> Reduction(msgs, required),
                         discount |-> decision.discount, routes |-> decision.routes])
  BY <1>2 DEF Plan
<1>6. PICK cut \in Cuts(msgs, taken) :
        Becomes(c, [at |-> "prepared", msgs |-> msgs, cached |-> cached,
                    model |-> m, sent |-> Compacted(msgs, cut), taken |-> taken,
                    reduction |-> Reduction(msgs, required),
                    discount |-> decision.discount, routes |-> decision.routes])
  BY <1>5
<1>7. PICK v : v = [at |-> "prepared", msgs |-> msgs, cached |-> cached,
                    model |-> m, sent |-> Compacted(msgs, cut), taken |-> taken,
                    reduction |-> Reduction(msgs, required),
                    discount |-> decision.discount, routes |-> decision.routes]
  OBVIOUS
<1>8. Becomes(c, v) /\ UNCHANGED record
  BY <1>6, <1>7 DEF Plan
<1>9. Fillable(capacity, pressure, Len(msgs))
  <2>1. Len(msgs) \in Nat /\ DOMAIN msgs = 1..Len(msgs) /\ DOMAIN capacity = eligible
    BY <1>2, Indexed
  <2>2. \A i \in eligible : capacity[i] \in 0..MaxTokens
    BY <1>2, <1>4, CapacityType
  <2>3. capacity = [i \in eligible |-> capacity[i]]
    BY <1>2
  <2>4. capacity \in [eligible -> 0..MaxTokens]
    BY <2>2, <2>3
  <2> QED
    BY <1>4, <1>5, <2>1, <2>4 DEF Fillable
<1>10. /\ taken \in [eligible -> Nat]
       /\ \A i \in eligible : taken[i] <= Capacity(msgs, i)
       /\ Total(eligible, taken, MaxTokens) = Reduction(msgs, required)
  <2>1. DOMAIN capacity = eligible /\ \A i \in eligible : capacity[i] = Capacity(msgs, i)
    BY <1>2
  <2>2. Reduction(msgs, required) <= Total(eligible, capacity, MaxTokens)
    BY <1>2, <1>4, CapacityOfType
  <2>3. /\ taken \in [DOMAIN capacity -> Nat]
        /\ \A i \in DOMAIN capacity : taken[i] <= capacity[i]
        /\ Total(DOMAIN capacity, taken, MaxTokens) = Reduction(msgs, required)
    <3>1. PICK reduction \in Nat : reduction = Reduction(msgs, required)
      BY <1>4
    <3> QED
      BY <1>5, <1>9, <2>1, <2>2, <3>1, WaterFillIsExact
  <2> QED
    BY <2>1, <2>3
<1>11. /\ Compacted(msgs, cut) \in Seq(Message)
       /\ DOMAIN Compacted(msgs, cut) = DOMAIN msgs
       /\ \A i \in DOMAIN msgs \ eligible : Compacted(msgs, cut)[i] = msgs[i]
  <2>1. msgs \in Seq(Message) /\ eligible \in SUBSET DOMAIN msgs /\ taken \in [eligible -> Nat]
    BY <1>2, <1>4, <1>10
  <2>2. cut \in Cuts(msgs, taken)
    BY <1>6
  <2> QED
    BY <2>1, <2>2, CompactedShape, Zenon
<1>12. decision.discount > 0 => cached # {} /\ CachePreserved(msgs, required, cached)
  <2>1. PICK r, analysis :
          /\ decision.discount = Discounted(r, analysis, required)
          /\ analysis = [msgs |-> msgs, cached |-> cached, value |-> call[c].values[m]]
    BY <1>2 DEF Decision
  <2>2. /\ analysis.msgs = msgs /\ analysis.cached = cached
        /\ analysis.value = call[c].values[m]
    BY <2>1
  <2> QED
    BY <1>1, <1>2, <2>1, <2>2, DiscountMeans DEF AnalysedCall
<1>13. PreparedCall(v)
  <2>1. /\ v.msgs = msgs /\ v.cached = cached /\ v.sent = Compacted(msgs, cut)
        /\ v.taken = taken /\ v.reduction = Reduction(msgs, required)
        /\ v.discount = decision.discount
    BY <1>7
  <2>2. cached \subseteq DOMAIN msgs /\ DOMAIN taken = eligible
    BY <1>1, <1>2, <1>10 DEF AnalysedCall
  <2>3. Kept <= RouterKept /\ v.discount > 0 =>
            v.cached # {} /\ \A i \in v.cached : v.sent[i] = v.msgs[i]
    BY <1>4, <1>11, <1>12, <2>1, <2>2
  <2> QED
    BY <1>2, <1>10, <1>11, <2>1, <2>2, <2>3 DEF PreparedCall
<1>14. v.at = "prepared"
  BY <1>7
<1> QED
  BY <1>1, <1>8, <1>13, <1>14, UnobservedKeeps

\* What usage is observed for is what was sent.
LEMMA ObservedIsSent ==
    ASSUME NEW c \in Calls, PreparedCall(call[c])
    PROVE  Observed(c) = call[c].sent /\ call[c].sent \in Seq(Message)
<1>1. PICK msgs, sent : /\ msgs = call[c].msgs /\ sent = call[c].sent
                        /\ msgs \in Seq(Message) /\ sent \in Seq(Message)
                        /\ DOMAIN sent = DOMAIN msgs
  BY DEF PreparedCall
<1>2. CASE Rewritten(c) = {}
  <2>1. \A i \in DOMAIN msgs : sent[i] = msgs[i]
    BY <1>1, <1>2 DEF Rewritten
  <2>2. msgs = [i \in DOMAIN msgs |-> msgs[i]] /\ sent = [i \in DOMAIN sent |-> sent[i]]
    BY <1>1
  <2>3. sent = msgs
    BY <1>1, <2>1, <2>2
  <2> QED
    BY <1>1, <1>2, <2>3 DEF Observed
<1>3. CASE Rewritten(c) # {}
  BY <1>1, <1>3 DEF Observed
<1> QED
  BY <1>2, <1>3

LEMMA ObserveKeeps ==
    ASSUME SessionInv, NEW c \in Calls, NEW r, NEW usage, Observe(c, r, usage)
    PROVE  SessionInv'
<1>1. call[c].at = "prepared" /\ PreparedCall(call[c])
  BY DEF SessionInv, Observe
<1>2. PICK msgs : msgs \in Seq(Message) /\ msgs = call[c].sent /\ msgs = Observed(c)
  BY <1>1, ObservedIsSent
<1>3. PICK v : v = [at |-> "observed", model |-> call[c].model, provider |-> r.provider,
                    sent |-> call[c].sent]
  OBVIOUS
<1>4. Becomes(c, v)
  BY <1>3 DEF Observe
<1>5. v.at = "observed" /\ v.model = call[c].model /\ v.provider = r.provider /\ v.sent = msgs
  BY <1>2, <1>3
<1>6. /\ call' = [d \in Calls |-> call'[d]]
      /\ call'[c] = v /\ \A d \in Calls \ {c} : call'[d] = call[d]
      /\ \A d \in Calls : /\ call'[d].at = "analysed" => AnalysedCall(call'[d])
                          /\ call'[d].at = "prepared" => PreparedCall(call'[d])
  BY <1>4, <1>5, BecomesKeeps
<1>7. PICK prefix, tokens, new :
        /\ prefix = SubSeq(msgs, 1, ProposedPrefixCount(msgs))
        /\ new = [model |-> call[c].model, provider |-> r.provider, prefix |-> prefix,
                  count |-> CandidatePrefixCount(msgs), tokens |-> tokens]
        /\ \/ record' = new /\ prefix # <<>>
           \/ record' = record
  BY <1>2 DEF Observe
<1>8. CASE record' = new /\ prefix # <<>>
  <2>1. /\ CandidatePrefixCount(msgs) = ProposedPrefixCount(msgs)
        /\ ProposedPrefixCount(msgs) \in Int
    BY <1>2, PrefixCountsAgree
  <2>2. ProposedPrefixCount(msgs) \in Nat \ {0}
    <3>1. PICK p \in Int : p = ProposedPrefixCount(msgs)
      BY <2>1
    <3>2. SubSeq(msgs, 1, p) # <<>>
      BY <1>7, <1>8, <3>1
    <3>3. p >= 1
      BY <1>2, <3>2
    <3> QED
      BY <3>1, <3>3
  <2>3. /\ record'.count = ProposedPrefixCount(msgs) /\ record'.prefix = prefix
        /\ record'.model = call[c].model /\ record'.provider = r.provider
    BY <1>7, <1>8, <2>1
  <2>4. RecordCounts'
    BY <2>2, <2>3 DEF RecordCounts
  <2>5. /\ call'[c].at = "observed"
        /\ call'[c].model = record'.model /\ call'[c].provider = record'.provider
        /\ SubSeq(call'[c].sent, 1, record'.count) = record'.prefix
    BY <1>5, <1>6, <1>7, <2>3
  <2>6. RecordedWasSent'
    BY <2>5 DEF RecordedWasSent
  <2> QED
    BY <1>6, <2>4, <2>6 DEF SessionInv
<1>9. CASE record' = record
  <2>1. RecordCounts'
    BY <1>9 DEF SessionInv, RecordCounts
  <2>2. RecordedWasSent'
    <3> SUFFICES ASSUME record # None
                 PROVE  \E d \in Calls :
                            /\ call'[d].at = "observed"
                            /\ call'[d].model = record.model /\ call'[d].provider = record.provider
                            /\ SubSeq(call'[d].sent, 1, record.count) = record.prefix
      BY <1>9 DEF RecordedWasSent
    <3>1. PICK d \in Calls :
              /\ call[d].at = "observed"
              /\ call[d].model = record.model /\ call[d].provider = record.provider
              /\ SubSeq(call[d].sent, 1, record.count) = record.prefix
      BY DEF SessionInv, RecordedWasSent
    <3>2. call'[d] = call[d]
      BY <1>1, <1>6, <3>1
    <3> QED
      BY <3>1, <3>2
  <2> QED
    BY <1>6, <2>1, <2>2 DEF SessionInv
<1> QED
  BY <1>7, <1>8, <1>9

LEMMA ExpireKeeps ==
    ASSUME SessionInv, Expire
    PROVE  SessionInv'
<1>1. record' = None /\ call' = call
  BY DEF Expire
<1>2. RecordCounts' /\ RecordedWasSent'
  BY <1>1 DEF RecordCounts, RecordedWasSent
<1> QED
  BY <1>1, <1>2 DEF SessionInv

LEMMA SessionInitially ==
    ASSUME Init
    PROVE  SessionInv
<1>1. \A c \in Calls : call[c].at = "idle"
  BY DEF Init
<1>2. call = [c \in Calls |-> call[c]]
  BY DEF Init
<1>3. RecordCounts /\ RecordedWasSent
  BY DEF Init, RecordCounts, RecordedWasSent
<1> QED
  BY <1>1, <1>2, <1>3 DEF SessionInv

LEMMA SessionStep ==
    ASSUME SessionInv, [Next]_vars
    PROVE  SessionInv'
<1>1. CASE Next
  <2>1. ASSUME NEW c \in Calls, NEW msgs \in Intents, Analyze(c, msgs)
        PROVE  SessionInv'
    BY <2>1, AnalyzeKeeps
  <2>2. ASSUME NEW c \in Calls, NEW b \in Budgets, NEW m \in Model, NEW slack \in BOOLEAN,
               Plan(c, b, m, slack)
        PROVE  SessionInv'
    BY <2>2, PlanKeeps
  <2>3. ASSUME NEW c \in Calls, PlanRaises(c)
        PROVE  SessionInv'
    BY <2>3, RaiseKeeps
  <2>4. ASSUME NEW c \in Calls, NEW m \in Model, NEW r \in Routes[m], NEW usage \in Usages,
               Observe(c, r, usage)
        PROVE  SessionInv'
    BY <2>4, ObserveKeeps
  <2>5. CASE Expire
    BY <2>5, ExpireKeeps
  <2> QED
    BY <1>1, <2>1, <2>2, <2>3, <2>4, <2>5 DEF Next
<1>2. CASE UNCHANGED vars
  BY <1>2 DEF vars, SessionInv, RecordCounts, RecordedWasSent
<1> QED
  BY <1>1, <1>2

LEMMA SessionIsInvariant == Spec => []SessionInv
<1>1. Init => SessionInv
  BY SessionInitially
<1>2. SessionInv /\ [Next]_vars => SessionInv'
  BY SessionStep
<1> QED
  BY <1>1, <1>2, PTL DEF Spec

\* The prefix that a record stands for was sent, to its model by its provider,
\* however the calls of the session overlap and whatever was compacted: the
\* record that observe writes is of what the gateway sent, not of what the call
\* was prepared with (cache.py), and both ways to count its messages agree.
THEOREM RecordIsOfWhatWasSent == Spec => []RecordedWasSent
<1>1. SessionInv => RecordedWasSent
  BY DEF SessionInv
<1> QED
  BY <1>1, SessionIsInvariant, PTL

\* A call that was authorized at the price of a cached prefix sends this prefix
\* as it is, as long as minimum_kept_tokens (compaction.py) is at most the 32 that
\* routing.py has for it: what the router expects of the other messages is then
\* there for compaction to take.
THEOREM DiscountsAreKept ==
    ASSUME Kept <= RouterKept
    PROVE  Spec => []DiscountIsKept
<1>1. SessionInv => DiscountIsKept
  BY DEF SessionInv, PreparedCall, DiscountIsKept
<1> QED
  BY <1>1, SessionIsInvariant, PTL

\* The rounds of _water_fill end with the reduction that was asked for, whatever
\* the messages, their capacities and their pressures: eligible messages have
\* enough, and each round that leaves something takes at least a token.
THEOREM ReductionsAreExact == Spec => []ReductionIsExact
<1>1. SessionInv => ReductionIsExact
  BY DEF SessionInv, PreparedCall, ReductionIsExact
<1> QED
  BY <1>1, SessionIsInvariant, PTL
=============================================================================
