-------------------------- MODULE HermesPlugin_proofs --------------------------
(* Usage accounting is exact for any calls, posts, setups and bounds, and    *)
(* nobody sees a response whose usage is not logged.                         *)
EXTENDS HermesPlugin, TotalsTheorems

-----------------------------------------------------------------------------
(* What transactions, setups and answers rely on.                            *)

Budget == [exists : BOOLEAN, remaining : Nat, spent : Nat, requests : Nat, mode : Modes]

Post == [at : {"none", "begin", "commit", "ok", "refused", "failed"},
         success : BOOLEAN, spend : 0..(MaxSpend + Grain), attempt : Nat, seen : Budget]

UsageTypeOK ==
    /\ budget \in Budget
    /\ total \in [spent : Nat, requests : Nat]
    /\ logs \in [Calls -> Log \cup {NoLog}]
    /\ post \in [Posts -> Post]
    /\ setup \in [at : {"none", "write"}, seen : Budget]
    /\ setups \in Nat /\ granted \in Nat

\* A transaction that may still commit is about a call that has no log: every
\* log that was written since it began has counted a request.
SnapshotsTell ==
    \A p \in Posts : PostAt(p, "commit") =>
        /\ post[p].seen.exists /\ budget.exists
        /\ post[p].seen.requests <= budget.requests
        /\ post[p].seen.requests = budget.requests => logs[CallOf(p)] = NoLog

\* What a setup read of a budget that it is going to refill is still so.
SetupTells ==
    /\ ~budget.exists => budget.spent = 0
    /\ setup.at = "write" =>
           /\ ~setup.seen.exists => ~budget.exists
           /\ setup.seen.exists /\ setup.seen.remaining = 0 =>
                  budget.remaining = 0 /\ budget.spent = setup.seen.spent

\* A post is answered with the log of the facts that it states.
AnswersTell ==
    \A p \in Posts : PostAt(p, "ok") =>
        /\ logs[CallOf(p)] # NoLog
        /\ logs[CallOf(p)].success = post[p].success
        /\ logs[CallOf(p)].spend = post[p].spend

UsageInv ==
    /\ UsageTypeOK /\ SnapshotsTell /\ SetupTells /\ AnswersTell
    /\ UsageSummed /\ WithinGrant

\* What may happen to the usage of a route: a call makes a post, or the API
\* serves one, or sets up a budget.
MakePost(p, success, x) ==
    /\ post[p] = NoPost
    /\ post' = [post EXCEPT ![p] = Received(success, x)]
    /\ UNCHANGED <<database, setting>>

UsageNext ==
    \/ \E p \in Posts :
           \/ \E success \in BOOLEAN, x \in 0..MaxSpend : MakePost(p, success, x)
           \/ Serve(p)
    \/ SetupReads \/ SetupWrites

\* Rounding gives a whole number of grains, and adds less than one.
LEMMA RoundedBound ==
    ASSUME NEW x \in Nat, NEW d \in Nat \ {0}
    PROVE  Rounded(x, d) \in 0..(x + Grain)
<1> DEFINE n == 2 * x + d * Grain
           m == 2 * d * Grain
           q == n \div m
           g == Grain * q
<1>1. Grain \in Nat \ {0}
  BY UsageAssumption
<1>2. d * Grain \in Nat \ {0} /\ n \in Nat /\ m = 2 * (d * Grain) /\ m \in Nat \ {0}
  BY <1>1
<1>3. q \in Nat /\ m * q <= n
  <2> HIDE DEF n, m
  <2> QED
    BY <1>2
<1>4. g \in Nat /\ 2 * (d * g) <= 2 * x + d * Grain
  <2>1. m * q = 2 * (d * (Grain * q))
    <3> HIDE DEF q
    <3> QED
      BY <1>1, <1>3
  <2> HIDE DEF q
  <2> QED
    BY <1>1, <1>3, <2>1
<1> HIDE DEF q, g
<1>5. ~(g >= x + Grain + 1)
  <2> SUFFICES ASSUME g >= x + Grain + 1
               PROVE  FALSE
    OBVIOUS
  <2>1. d * g >= d * (x + Grain + 1)
    BY <1>1, <1>4
  <2>2. d * (x + Grain + 1) = d * x + d * Grain + d /\ d * x >= x
    BY <1>1
  <2> QED
    BY <1>1, <1>2, <1>4, <2>1, <2>2
<1>6. Rounded(x, d) = g
  BY DEF Rounded, g, q
<1> QED
  BY <1>1, <1>4, <1>5, <1>6

LEMMA Charges ==
    /\ \A x \in 0..MaxSpend : Verified(x) \in 0..(MaxSpend + Grain)
    /\ \A x \in 0..(MaxSpend + Grain) : Fee(x) \in 0..MaxCharge
    /\ \A x \in 0..(MaxSpend + Grain), mode \in Modes : Debit(mode, x) \in 0..MaxCharge
    /\ 0..(MaxSpend + Grain) \subseteq 0..MaxCharge
<1>1. MaxSpend \in Nat /\ Grain \in Nat /\ FeeDivisor \in Nat \ {0} /\ MaxCharge = MaxSpend + 2 * Grain
  BY UsageAssumption DEF MaxCharge
<1>2. \A x \in 0..MaxSpend : Verified(x) \in 0..(MaxSpend + Grain)
  <2> TAKE x \in 0..MaxSpend
  <2>1. Rounded(x, 1) \in 0..(x + Grain)
    BY <1>1, RoundedBound
  <2> QED
    BY <1>1, <2>1 DEF Verified
<1>3. \A x \in 0..(MaxSpend + Grain) : Fee(x) \in 0..MaxCharge
  <2> TAKE x \in 0..(MaxSpend + Grain)
  <2>1. Rounded(x, FeeDivisor) \in 0..(x + Grain)
    BY <1>1, RoundedBound
  <2> QED
    BY <1>1, <2>1 DEF Fee
<1>4. 0..(MaxSpend + Grain) \subseteq 0..MaxCharge
  BY <1>1
<1> QED
  BY <1>2, <1>3, <1>4 DEF Debit

LEMMA NoPostType == NoPost \in Post /\ NoBudget \in Budget
BY UsageAssumption DEF NoPost, NoBudget, Post, Budget, Modes

LEMMA ReceivedType ==
    ASSUME NEW success \in BOOLEAN, NEW x \in 0..MaxSpend
    PROVE  /\ Received(success, x) \in Post
           /\ Received(success, x).at = "begin" /\ Received(success, x).success = success
           /\ Received(success, x).spend = Verified(x)
<1>1. Verified(x) \in 0..(MaxSpend + Grain)
  BY Charges, UsageAssumption
<1> QED
  BY <1>1, NoPostType DEF Received, NoPost, Post

\* What is left of a post that moves on.
LEMMA MovedType ==
    ASSUME NEW r \in Post, NEW l \in {"begin", "commit", "ok", "refused", "failed"},
           NEW attempt \in Nat, NEW seen \in Budget
    PROVE  [r EXCEPT !.at = l, !.attempt = attempt, !.seen = seen] \in Post
BY DEF Post

LEMMA DebitedType ==
    ASSUME NEW seen \in Budget, NEW d \in Nat, seen.remaining >= d
    PROVE  LET b == [seen EXCEPT !.remaining = @ - d, !.spent = @ + d, !.requests = @ + 1]
           IN  /\ b \in Budget /\ b.exists = seen.exists
               /\ b.remaining = seen.remaining - d /\ b.spent = seen.spent + d
               /\ b.requests = seen.requests + 1
<1>1. /\ seen.remaining \in Nat /\ seen.spent \in Nat /\ seen.requests \in Nat
      /\ seen.exists \in BOOLEAN /\ seen.mode \in Modes
  BY DEF Budget
<1>2. /\ seen.remaining - d \in Nat /\ seen.spent + d \in Nat /\ seen.requests + 1 \in Nat
  BY <1>1
<1> QED
  BY <1>2 DEF Budget

\* An answer leaves what the post said, and the other posts.
LEMMA Answering ==
    ASSUME UsageTypeOK, NEW p \in Posts,
           NEW l \in {"ok", "refused", "failed"}, Answer(p, l)
    PROVE  /\ post' \in [Posts -> Post]
           /\ post'[p].at = l
           /\ post'[p].success = post[p].success /\ post'[p].spend = post[p].spend
           /\ \A q \in Posts \ {p} : post'[q] = post[q]
BY NoPostType DEF Answer, UsageTypeOK, Post

LEMMA Beginning ==
    ASSUME UsageTypeOK, NEW p \in Posts, Begin(p)
    PROVE  \/ Answer(p, "refused")
           \/ /\ logs[CallOf(p)] # NoLog
              /\ logs[CallOf(p)].success = post[p].success
              /\ logs[CallOf(p)].spend = post[p].spend
              /\ Answer(p, "ok")
           \/ /\ budget.exists /\ logs[CallOf(p)] = NoLog
              /\ post' = [post EXCEPT ![p] = [@ EXCEPT !.at = "commit", !.seen = budget]]
BY DEF Begin, Existing, Matches

\* What a transaction debits and logs.
LEMMA Logging ==
    ASSUME UsageTypeOK, NEW p \in Posts
    PROVE  /\ CallOf(p) \in Calls
           /\ DebitOf(p) \in 0..MaxCharge
           /\ LogOf(p) \in Log
           /\ LogOf(p).success = post[p].success /\ LogOf(p).spend = post[p].spend
           /\ LogOf(p).debit = DebitOf(p)
           /\ Fee(post[p].spend) \in 0..MaxCharge
<1>1. /\ post[p].success \in BOOLEAN /\ post[p].spend \in 0..(MaxSpend + Grain)
      /\ post[p].seen.mode \in Modes
  BY DEF UsageTypeOK, Post, Budget
<1>2. CallOf(p) \in Calls
  BY DEF Posts, CallOf
<1>3. DebitOf(p) \in 0..MaxCharge /\ Fee(post[p].spend) \in 0..MaxCharge
  BY <1>1, Charges DEF DebitOf
<1>4. post[p].spend \in 0..MaxCharge
  BY <1>1, Charges
<1> QED
  BY <1>1, <1>2, <1>3, <1>4 DEF LogOf, Log

LEMMA UsageTypeStep ==
    ASSUME UsageTypeOK, SetupTells, WithinGrant, [UsageNext]_usageVars
    PROVE  UsageTypeOK'
<1>1. ASSUME NEW p \in Posts, NEW success \in BOOLEAN, NEW x \in 0..MaxSpend,
             MakePost(p, success, x)
      PROVE  UsageTypeOK'
  BY <1>1, ReceivedType DEF MakePost, UsageTypeOK, database, setting
<1>2. ASSUME NEW p \in Posts, Begin(p)
      PROVE  UsageTypeOK'
  <2>1. post' \in [Posts -> Post]
    <3>1. ASSUME NEW l \in {"ok", "refused"}, Answer(p, l)
          PROVE  post' \in [Posts -> Post]
      BY <3>1, Answering
    <3>2. CASE post' = [post EXCEPT ![p] = [@ EXCEPT !.at = "commit", !.seen = budget]]
      BY <3>2 DEF UsageTypeOK, Post
    <3> QED
      BY <1>2, <3>1, <3>2, Beginning
  <2> QED
    BY <1>2, <2>1 DEF Begin, UsageTypeOK, database, setting
<1>3. ASSUME NEW p \in Posts, Exhausted(p)
      PROVE  UsageTypeOK'
  BY <1>3, Answering DEF Exhausted, UsageTypeOK, database, setting
<1>4. ASSUME NEW p \in Posts, Commit(p)
      PROVE  UsageTypeOK'
  <2>1. post' \in [Posts -> Post]
    BY <1>4, Answering DEF Commit
  <2>2. budget' \in Budget
    <3>1. post[p].seen \in Budget /\ DebitOf(p) \in Nat
      BY Logging, UsageAssumption DEF UsageTypeOK, Post, MaxCharge
    <3>2. PICK d \in Nat : d = DebitOf(p)
      BY <3>1
    <3>3. post[p].seen.remaining >= d
      BY <1>4, <3>2 DEF Commit, Affordable
    <3>4. budget' = [post[p].seen EXCEPT !.remaining = @ - d, !.spent = @ + d,
                                         !.requests = @ + 1]
      BY <1>4, <3>2 DEF Commit
    <3>5. PICK seen \in Budget : seen = post[p].seen
      BY <3>1
    <3> QED
      BY <3>3, <3>4, <3>5, DebitedType
  <2>3. total' \in [spent : Nat, requests : Nat]
    BY <1>4, Logging, UsageAssumption DEF Commit, UsageTypeOK, MaxCharge
  <2>4. logs' \in [Calls -> Log \cup {NoLog}]
    BY <1>4, Logging DEF Commit, UsageTypeOK
  <2> QED
    BY <1>4, <2>1, <2>2, <2>3, <2>4 DEF Commit, UsageTypeOK, setting
<1>5. ASSUME NEW p \in Posts, Abort(p)
      PROVE  UsageTypeOK'
  <2>1. post[p] \in Post
    BY DEF UsageTypeOK
  <2>2. post[p].attempt + 1 \in Nat /\ NoBudget \in Budget
    BY <2>1, NoPostType DEF Post
  <2>3. post' \in [Posts -> Post]
    <3>1. [post[p] EXCEPT !.at = "begin", !.attempt = @ + 1, !.seen = NoBudget] \in Post
      BY <2>1, <2>2, MovedType
    <3>2. [post[p] EXCEPT !.at = "failed", !.attempt = 0, !.seen = NoBudget] \in Post
      BY <2>1, <2>2, MovedType
    <3> QED
      BY <1>5, <3>1, <3>2 DEF Abort, UsageTypeOK
  <2> QED
    BY <1>5, <2>3 DEF Abort, UsageTypeOK, database, setting
<1>6. CASE SetupReads
  BY <1>6 DEF SetupReads, UsageTypeOK, database
<1>7. CASE SetupWrites
  <2>1. PICK b \in Budgets, m \in Modes :
            /\ budget' = [budget EXCEPT !.exists = TRUE, !.mode = m,
                                        !.remaining = NewRemaining(b)]
            /\ granted' = IF b > granted THEN b ELSE granted
    BY <1>7 DEF SetupWrites
  <2>2. b \in Nat
    BY UsageAssumption
  <2>3. NewRemaining(b) \in Nat
    BY <2>2 DEF NewRemaining, UsageTypeOK, Budget
  <2>4. budget' \in Budget
    BY <2>1, <2>3 DEF UsageTypeOK, Budget
  <2> QED
    BY <1>7, <2>1, <2>2, <2>4, NoPostType DEF SetupWrites, UsageTypeOK
<1>8. CASE UNCHANGED usageVars
  BY <1>8 DEF usageVars, database, setting, UsageTypeOK
<1> QED
  BY <1>1, <1>2, <1>3, <1>4, <1>5, <1>6, <1>7, <1>8 DEF UsageNext, Serve

\* A post that has no answer of the log yet keeps what it says.
LEMMA Aborting ==
    ASSUME UsageTypeOK, NEW p \in Posts, Abort(p)
    PROVE  /\ post'[p].at \in {"begin", "failed"}
           /\ post'[p].success = post[p].success /\ post'[p].spend = post[p].spend
           /\ \A q \in Posts \ {p} : post'[q] = post[q]
           /\ post[p].at \in {"begin", "commit"}
<1>1. post[p] \in Post /\ post[p].attempt + 1 \in Nat /\ NoBudget \in Budget
  BY NoPostType DEF UsageTypeOK, Post
<1>2. /\ \/ post'[p] = [post[p] EXCEPT !.at = "begin", !.attempt = @ + 1, !.seen = NoBudget]
         \/ post'[p] = [post[p] EXCEPT !.at = "failed", !.attempt = 0, !.seen = NoBudget]
      /\ \A q \in Posts \ {p} : post'[q] = post[q]
  BY DEF Abort, UsageTypeOK
<1>3. post[p].at \in {"begin", "commit"}
  BY DEF Abort, PostAt
<1>4. CASE post'[p] = [post[p] EXCEPT !.at = "begin", !.attempt = @ + 1, !.seen = NoBudget]
  <2>1. PICK attempt \in Nat : attempt = post[p].attempt + 1
    BY <1>1
  <2>2. post'[p] = [post[p] EXCEPT !.at = "begin", !.attempt = attempt, !.seen = NoBudget]
    BY <1>4, <2>1
  <2>3. /\ post'[p].at = "begin"
        /\ post'[p].success = post[p].success /\ post'[p].spend = post[p].spend
    BY <1>1, <2>2 DEF Post
  <2> QED
    BY <1>2, <1>3, <2>3
<1>5. CASE post'[p] = [post[p] EXCEPT !.at = "failed", !.attempt = 0, !.seen = NoBudget]
  <2>1. /\ post'[p].at = "failed"
        /\ post'[p].success = post[p].success /\ post'[p].spend = post[p].spend
    BY <1>1, <1>5 DEF Post
  <2> QED
    BY <1>2, <1>3, <2>1
<1> QED
  BY <1>2, <1>4, <1>5

\* A transaction that commits saw the budget as it is, and no log of its call.
LEMMA Committing ==
    ASSUME UsageInv, NEW p \in Posts, Commit(p)
    PROVE  /\ CallOf(p) \in Calls \ Logged /\ Logged' = Logged \cup {CallOf(p)}
           /\ logs' = [logs EXCEPT ![CallOf(p)] = LogOf(p)]
           /\ budget.exists /\ budget'.exists
           /\ budget'.remaining = budget.remaining - DebitOf(p)
           /\ budget'.spent = budget.spent + DebitOf(p)
           /\ budget'.requests = budget.requests + 1
           /\ total'.spent = total.spent + Fee(post[p].spend)
           /\ total'.requests = total.requests + 1
           /\ DebitOf(p) <= budget.remaining
<1> USE DEF UsageInv
<1>1. PostAt(p, "commit") /\ post[p].seen = budget /\ budget.remaining >= DebitOf(p)
  BY DEF Commit, Isolated, Affordable
<1>2. budget \in Budget
  BY DEF UsageTypeOK
<1>3. logs[CallOf(p)] = NoLog /\ budget.exists
  BY <1>1, <1>2 DEF SnapshotsTell
<1>4. PICK d \in Nat : d = DebitOf(p)
  BY Logging, UsageAssumption DEF MaxCharge
<1>5. budget' = [budget EXCEPT !.remaining = @ - d, !.spent = @ + d, !.requests = @ + 1]
  BY <1>1, <1>4 DEF Commit
<1>6. /\ budget'.exists = budget.exists
      /\ budget'.remaining = budget.remaining - d
      /\ budget'.spent = budget.spent + d /\ budget'.requests = budget.requests + 1
  BY <1>1, <1>2, <1>4, <1>5, DebitedType
<1>7. LogOf(p) # NoLog /\ CallOf(p) \in Calls
  BY Logging, UsageAssumption
<1>8. logs' = [logs EXCEPT ![CallOf(p)] = LogOf(p)]
  BY DEF Commit
<1>9. Logged' = Logged \cup {CallOf(p)} /\ CallOf(p) \notin Logged
  BY <1>3, <1>7, <1>8 DEF Logged, UsageTypeOK
<1> QED
  BY <1>1, <1>3, <1>4, <1>6, <1>7, <1>8, <1>9 DEF Commit, UsageTypeOK

\* One more log adds its debit and its fee to the sums.
LEMMA SummedStep ==
    ASSUME UsageInv, NEW p \in Posts, Commit(p)
    PROVE  UsageSummed'
<1> DEFINE c == CallOf(p)
<1>0. UsageTypeOK
  BY DEF UsageInv
<1>1. c \in Calls \ Logged /\ Logged' = Logged \cup {c} /\ logs' = [logs EXCEPT ![c] = LogOf(p)]
  BY Committing
<1>2. IsFiniteSet(Logged) /\ Cardinality(Logged) \in Nat /\ MaxCharge \in Nat
  BY UsageAssumption, FS_Subset, FS_CardinalityType DEF Logged, MaxCharge
<1>3. Cardinality(Logged') = Cardinality(Logged) + 1
  BY <1>1, <1>2, FS_AddElement
<1>4. /\ \A x \in Logged : logs'[x] = logs[x]
      /\ logs'[c] = LogOf(p)
  BY <1>0, <1>1 DEF Logged, UsageTypeOK
<1>5. Total(Logged', Debits', MaxCharge) = Total(Logged, Debits, MaxCharge) + DebitOf(p)
  <2>1. PICK f : f = Debits'
    OBVIOUS
  <2>2. PICK n \in Nat : n = DebitOf(p) /\ n <= MaxCharge
    BY <1>0, <1>2, Logging
  <2>3. f[c] = n
    BY <1>0, <1>1, <1>4, <2>1, <2>2, Logging DEF Debits
  <2>4. Total(Logged \cup {c}, f, MaxCharge) = Total(Logged, f, MaxCharge) + n
    <3>1. Joins(c, n, Logged, f, MaxCharge)
      BY <1>1, <1>2, <2>2, <2>3 DEF Joins
    <3> QED
      BY <3>1, TotalJoins
  <2>5. \A x \in Logged : f[x] = Debits[x]
    BY <1>1, <1>4, <2>1 DEF Debits, Logged
  <2>6. Total(Logged, f, MaxCharge) = Total(Logged, Debits, MaxCharge)
    BY <1>2, <2>5, TotalCongruence
  <2> QED
    BY <1>1, <2>1, <2>2, <2>4, <2>6
<1>6. Total(Logged', Fees', MaxCharge)
        = Total(Logged, Fees, MaxCharge) + Fee(post[p].spend)
  <2>1. PICK f : f = Fees'
    OBVIOUS
  <2>2. PICK n \in Nat : n = Fee(post[p].spend) /\ n <= MaxCharge
    BY <1>0, <1>2, Logging
  <2>3. f[c] = n
    BY <1>0, <1>1, <1>4, <2>1, <2>2, Logging DEF Fees
  <2>4. Total(Logged \cup {c}, f, MaxCharge) = Total(Logged, f, MaxCharge) + n
    <3>1. Joins(c, n, Logged, f, MaxCharge)
      BY <1>1, <1>2, <2>2, <2>3 DEF Joins
    <3> QED
      BY <3>1, TotalJoins
  <2>5. \A x \in Logged : f[x] = Fees[x]
    BY <1>1, <1>4, <2>1 DEF Fees, Logged
  <2>6. Total(Logged, f, MaxCharge) = Total(Logged, Fees, MaxCharge)
    BY <1>2, <2>5, TotalCongruence
  <2> QED
    BY <1>1, <2>1, <2>2, <2>4, <2>6
<1> QED
  BY <1>3, <1>5, <1>6, Committing DEF UsageInv, UsageSummed

\* What a step that neither writes to the database nor sets up a budget keeps.
LEMMA PostKeeps ==
    ASSUME UsageInv, UsageTypeOK', UNCHANGED <<database, setting>>, SnapshotsTell', AnswersTell'
    PROVE  UsageInv'
<1>1. Logged' = Logged /\ Debits' = Debits /\ Fees' = Fees
  BY DEF database, Logged, Debits, Fees
<1>2. UsageSummed' /\ WithinGrant' /\ SetupTells'
  BY <1>1 DEF UsageInv, UsageSummed, WithinGrant, SetupTells, database, setting
<1> QED
  BY <1>2 DEF UsageInv

LEMMA UsageStep == UsageInv /\ [UsageNext]_usageVars => UsageInv'
<1> SUFFICES ASSUME UsageInv, [UsageNext]_usageVars
             PROVE  UsageInv'
  OBVIOUS
<1> USE DEF PostAt
<1>a. UsageTypeOK /\ SnapshotsTell /\ SetupTells /\ AnswersTell /\ UsageSummed /\ WithinGrant
  BY DEF UsageInv
<1>b. UsageTypeOK'
  BY <1>a, UsageTypeStep
<1>1. ASSUME NEW p \in Posts, NEW success \in BOOLEAN, NEW x \in 0..MaxSpend,
             MakePost(p, success, x)
      PROVE  UsageInv'
  <2>1. /\ post'[p].at = "begin" /\ \A q \in Posts \ {p} : post'[q] = post[q]
        /\ UNCHANGED <<budget, logs>>
    BY <1>1, <1>a, ReceivedType DEF MakePost, UsageTypeOK, database
  <2>2. SnapshotsTell' /\ AnswersTell'
    BY <1>a, <2>1 DEF SnapshotsTell, AnswersTell
  <2> QED
    BY <1>1, <1>b, <2>2, PostKeeps DEF MakePost
<1>2. ASSUME NEW p \in Posts, NEW l \in {"ok", "refused"}, Answer(p, l),
             UNCHANGED <<database, setting>>,
             l = "ok" => /\ logs[CallOf(p)] # NoLog
                         /\ logs[CallOf(p)].success = post[p].success
                         /\ logs[CallOf(p)].spend = post[p].spend
      PROVE  UsageInv'
  <2>1. SnapshotsTell' /\ AnswersTell'
    BY <1>2, <1>a, Answering DEF SnapshotsTell, AnswersTell, database
  <2> QED
    BY <1>2, <1>b, <2>1, PostKeeps
<1>3. ASSUME NEW p \in Posts, Begin(p)
      PROVE  UsageInv'
  <2>1. UNCHANGED <<database, setting>>
    BY <1>3 DEF Begin
  <2>2. CASE /\ budget.exists /\ logs[CallOf(p)] = NoLog
             /\ post' = [post EXCEPT ![p] = [@ EXCEPT !.at = "commit", !.seen = budget]]
    <3>1. post'[p].at = "commit" /\ post'[p].seen = budget
          /\ \A q \in Posts \ {p} : post'[q] = post[q]
      BY <1>a, <2>2 DEF UsageTypeOK, Post
    <3>2. budget.requests \in Nat
      BY <1>a DEF UsageTypeOK, Budget
    <3>3. SnapshotsTell' /\ AnswersTell'
      BY <1>a, <2>1, <2>2, <3>1, <3>2 DEF SnapshotsTell, AnswersTell, database
    <3> QED
      BY <1>b, <2>1, <3>3, PostKeeps
  <2> QED
    BY <1>3, <1>a, <1>2, <2>1, <2>2, Beginning
<1>4. ASSUME NEW p \in Posts, Exhausted(p)
      PROVE  UsageInv'
  BY <1>4, <1>2 DEF Exhausted
<1>5. ASSUME NEW p \in Posts, Abort(p)
      PROVE  UsageInv'
  <2>1. UNCHANGED <<database, setting>>
    BY <1>5 DEF Abort
  <2>2. SnapshotsTell' /\ AnswersTell'
    BY <1>a, <1>5, <2>1, Aborting DEF SnapshotsTell, AnswersTell, database
  <2> QED
    BY <1>b, <2>1, <2>2, PostKeeps
<1>6. ASSUME NEW p \in Posts, Commit(p)
      PROVE  UsageInv'
  <2>1. PICK answer \in {"ok", "failed"} : Answer(p, answer)
    BY <1>6 DEF Commit
  <2>2. /\ post'[p].at \in {"ok", "failed"}
        /\ post'[p].success = post[p].success /\ post'[p].spend = post[p].spend
        /\ \A q \in Posts \ {p} : post'[q] = post[q]
    BY <1>a, <2>1, Answering
  <2>3. UsageSummed'
    BY <1>6, SummedStep
  <2>4. DebitOf(p) \in Nat /\ budget.spent \in Nat /\ budget.remaining \in Nat
        /\ budget.requests \in Nat
    BY <1>a, Logging, UsageAssumption DEF UsageTypeOK, Budget, MaxCharge
  <2>5. UNCHANGED setting
    BY <1>6 DEF Commit
  <2>6. WithinGrant'
    BY <1>6, <1>a, <2>4, <2>5, Committing DEF WithinGrant, setting
  <2>7. SetupTells'
    <3>1. /\ setup' = setup /\ budget.exists /\ budget'.exists
          /\ budget'.remaining = budget.remaining - DebitOf(p)
          /\ budget'.spent = budget.spent + DebitOf(p)
          /\ DebitOf(p) <= budget.remaining
      BY <1>6, <2>5, Committing DEF setting
    <3> QED
      BY <1>a, <2>4, <3>1 DEF SetupTells
  <2>8. SnapshotsTell'
    <3> SUFFICES ASSUME NEW q \in Posts, post'[q].at = "commit"
                 PROVE  /\ post'[q].seen.exists /\ budget'.exists
                        /\ post'[q].seen.requests < budget'.requests
      BY <1>b DEF SnapshotsTell, UsageTypeOK, Post, Budget
    <3>1. q # p /\ post'[q] = post[q] /\ post[q].seen.requests \in Nat
      BY <1>a, <2>2 DEF UsageTypeOK, Post, Budget
    <3> QED
      BY <1>6, <1>a, <2>4, <3>1, Committing DEF SnapshotsTell
  <2>9. AnswersTell'
    <3> SUFFICES ASSUME NEW q \in Posts, post'[q].at = "ok"
                 PROVE  /\ logs'[CallOf(q)] # NoLog
                        /\ logs'[CallOf(q)].success = post'[q].success
                        /\ logs'[CallOf(q)].spend = post'[q].spend
      BY DEF AnswersTell
    <3>1. CallOf(p) \in Calls /\ logs'[CallOf(p)] = LogOf(p) /\ LogOf(p) # NoLog
      BY <1>6, <1>a, Committing, Logging, UsageAssumption DEF UsageTypeOK
    <3>2. CASE q = p
      BY <1>a, <2>2, <3>1, <3>2, Logging
    <3>3. CASE q # p
      <4>1. logs[CallOf(q)] # NoLog /\ CallOf(q) \in Calls /\ post'[q] = post[q]
        BY <1>a, <2>2, <3>3 DEF AnswersTell, Posts, CallOf
      <4>2. CallOf(q) # CallOf(p) /\ logs'[CallOf(q)] = logs[CallOf(q)]
        BY <1>6, <1>a, <4>1, Committing DEF Logged, UsageTypeOK
      <4> QED
        BY <1>a, <3>3, <4>1, <4>2 DEF AnswersTell
    <3> QED
      BY <3>2, <3>3
  <2> QED
    BY <1>b, <2>3, <2>6, <2>7, <2>8, <2>9 DEF UsageInv
<1>7. CASE SetupReads
  <2>1. /\ UNCHANGED <<database, post, granted>> /\ setup' = [at |-> "write", seen |-> budget]
    BY <1>7 DEF SetupReads
  <2>2. UsageSummed' /\ WithinGrant' /\ SnapshotsTell' /\ AnswersTell'
    BY <1>a, <2>1 DEF UsageSummed, WithinGrant, SnapshotsTell, AnswersTell,
                      database, Logged, Debits, Fees
  <2>3. SetupTells'
    BY <1>a, <2>1 DEF SetupTells, database
  <2> QED
    BY <1>b, <2>2, <2>3 DEF UsageInv
<1>8. CASE SetupWrites
  <2>1. PICK b \in Budgets, m \in Modes :
            /\ budget' = [budget EXCEPT !.exists = TRUE, !.mode = m,
                                        !.remaining = NewRemaining(b)]
            /\ granted' = IF b > granted THEN b ELSE granted
    BY <1>8 DEF SetupWrites
  <2>2. /\ setup.at = "write" /\ setup'.at = "none" /\ UNCHANGED <<total, logs, post>>
    BY <1>8, <1>a DEF SetupWrites, UsageTypeOK
  <2>3. /\ budget'.exists /\ budget'.spent = budget.spent /\ budget'.requests = budget.requests
        /\ budget'.remaining = NewRemaining(b)
    BY <1>a, <2>1 DEF UsageTypeOK, Budget
  <2>4. b \in Nat /\ granted \in Nat /\ budget.spent \in Nat /\ budget.remaining \in Nat
        /\ setup.seen.remaining \in Nat /\ setup.seen.spent \in Nat
    BY <1>a, UsageAssumption DEF UsageTypeOK, Budget
  <2>5. WithinGrant'
    BY <1>a, <2>1, <2>2, <2>3, <2>4 DEF WithinGrant, SetupTells, NewRemaining
  <2>6. UsageSummed' /\ SnapshotsTell' /\ AnswersTell' /\ SetupTells'
    BY <1>a, <2>2, <2>3 DEF UsageSummed, SnapshotsTell, AnswersTell, SetupTells,
                            Logged, Debits, Fees
  <2> QED
    BY <1>b, <2>5, <2>6 DEF UsageInv
<1>9. CASE UNCHANGED usageVars
  <2>1. UNCHANGED <<database, setting, post>>
    BY <1>9 DEF usageVars
  <2>2. SnapshotsTell' /\ AnswersTell'
    BY <1>a, <2>1 DEF SnapshotsTell, AnswersTell, database
  <2> QED
    BY <1>b, <2>1, <2>2, PostKeeps
<1> QED
  BY <1>1, <1>3, <1>4, <1>5, <1>6, <1>7, <1>8, <1>9 DEF UsageNext, Serve

LEMMA UsageInitially == UsageInit => UsageInv
<1> SUFFICES ASSUME UsageInit
             PROVE  UsageInv
  OBVIOUS
<1>1. UsageTypeOK
  BY NoPostType DEF UsageInit, UsageTypeOK
<1>2. Logged = {}
  BY DEF UsageInit, Logged
<1>3. UsageSummed
  BY <1>2, TotalEmpty, FS_EmptySet, UsageAssumption
     DEF UsageInit, UsageSummed, NoBudget, MaxCharge
<1>4. SnapshotsTell /\ AnswersTell /\ SetupTells /\ WithinGrant
  BY DEF UsageInit, SnapshotsTell, AnswersTell, SetupTells, WithinGrant, PostAt, NoPost, NoBudget
<1> QED
  BY <1>1, <1>3, <1>4 DEF UsageInv

-----------------------------------------------------------------------------
(* What a call relies on.                                                    *)

Places == {"new", "routing", "selected", "chosen", "active", "sent", "answered",
           "logging", "reporting", "delivered", "withheld", "raised", "done", "failed"}

CallTypeOK ==
    /\ at \in [Calls -> Places]
    /\ used \in [Calls -> 0..MaxSpend]
    /\ client \in [Served -> {"none", "waiting", "streaming", "answer", "error",
                              "text", "gone"}]
    /\ ledger \subseteq Calls

\* The API is the only one to post for a call that it serves, and its own post
\* knows whether the call has a log.
ServedTells(c) ==
    /\ post[<<c, "again">>] = NoPost
    /\ logs[c] # NoLog => post[Own(c)].at \in {"ok", "failed"}
    /\ at[c] \in {"logging", "done"} =>
           post[Own(c)].success /\ post[Own(c)].spend = Verified(used[c])
    /\ at[c] = "done" => PostAt(Own(c), "ok")
    /\ at[c] = "failed" => post[Own(c)].at \in {"none", "refused", "failed"}
    /\ client[c] = "answer" => at[c] = "done"
    /\ client[c] \in {"error", "text"} => at[c] = "failed"

IsLogged(c) == logs[c] # NoLog /\ logs[c].success /\ logs[c].spend = used[c] /\ c \in ledger

\* A call posts once, at the end, and what it then waits for is the log of a
\* success.
CallTells(c) ==
    /\ at[c] \in {"new", "routing", "selected", "chosen", "active", "sent", "answered"} =>
           post[Own(c)] = NoPost
    /\ at[c] = "logging" => post[Own(c)] = NoPost \/ post[Own(c)].success
    /\ c \in Served => ServedTells(c)
    /\ c \in Plugged /\ at[c] = "delivered" => IsLogged(c)

PluginInv ==
    /\ UsageInv
    /\ CallTypeOK /\ \A c \in Calls : CallTells(c)

USE DEF At, PostAt

\* The API serves the posts of any calls: what has an answer keeps it, and a
\* log is there to stay.
LEMMA Serving ==
    ASSUME UsageInv, NEW p \in Posts, Serve(p)
    PROVE  /\ post[p].at \in {"begin", "commit"}
           /\ post'[p].success = post[p].success /\ post'[p].spend = post[p].spend
           /\ \A q \in Posts \ {p} : post'[q] = post[q]
           /\ \A c \in Calls : logs[c] # NoLog => logs'[c] = logs[c]
           /\ \A c \in Calls : logs'[c] # logs[c] =>
                  CallOf(p) = c /\ post'[p].at \in {"ok", "failed"}
<1>a. UsageTypeOK
  BY DEF UsageInv
<1>1. ASSUME NEW l \in {"ok", "refused", "failed"}, Answer(p, l)
      PROVE  /\ post'[p].success = post[p].success /\ post'[p].spend = post[p].spend
             /\ \A q \in Posts \ {p} : post'[q] = post[q]
             /\ post'[p].at = l
  BY <1>a, <1>1, Answering
<1>2. CASE Begin(p)
  <2>1. UNCHANGED logs /\ post[p].at = "begin"
    BY <1>2 DEF Begin, database
  <2>2. CASE post' = [post EXCEPT ![p] = [@ EXCEPT !.at = "commit", !.seen = budget]]
    BY <1>a, <2>1, <2>2 DEF UsageTypeOK, Post
  <2> QED
    BY <1>a, <1>1, <1>2, <2>1, <2>2, Beginning
<1>3. CASE Exhausted(p)
  BY <1>1, <1>3 DEF Exhausted, database
<1>4. CASE Commit(p)
  <2>1. PICK answer \in {"ok", "failed"} : Answer(p, answer)
    BY <1>4 DEF Commit
  <2>2. \A c \in Calls \ {CallOf(p)} : logs'[c] = logs[c]
    BY <1>4, Committing DEF UsageInv, UsageTypeOK
  <2>3. logs[CallOf(p)] = NoLog /\ CallOf(p) \in Calls
    BY <1>4, Committing DEF Logged
  <2>4. post[p].at = "commit"
    BY <1>4 DEF Commit
  <2> QED
    BY <1>1, <2>1, <2>2, <2>3, <2>4
<1>5. CASE Abort(p)
  BY <1>a, <1>5, Aborting DEF Abort, database
<1> QED
  BY <1>2, <1>3, <1>4, <1>5 DEF Serve

\* A setup does not touch posts and logs.
LEMMA SettingUp ==
    ASSUME SetupReads \/ SetupWrites
    PROVE  UNCHANGED <<post, logs>>
BY DEF SetupReads, SetupWrites, database

LEMMA ServerStep ==
    ASSUME PluginInv, Server
    PROVE  CallTypeOK' /\ \A c \in Calls : CallTells(c)'
<1>1. UNCHANGED <<at, used, client, ledger>>
  BY DEF Server, callVars
<1>2. CallTypeOK'
  BY <1>1 DEF PluginInv, CallTypeOK
<1>3. ASSUME NEW c \in Calls, UNCHANGED <<post, logs>>
      PROVE  CallTells(c)'
  BY <1>1, <1>3 DEF PluginInv, CallTells, ServedTells, IsLogged
<1>4. ASSUME NEW p \in Posts, Serve(p), NEW c \in Calls
      PROVE  CallTells(c)'
  <2>a. UsageInv /\ CallTells(c)
    BY DEF PluginInv
  <2>b. NoPost.at = "none"
    BY DEF NoPost
  <2>1. Own(c) \in Posts /\ <<c, "again">> \in Posts
    BY DEF Own, Posts
  <2>2. /\ post'[Own(c)].success = post[Own(c)].success
        /\ post'[Own(c)].spend = post[Own(c)].spend
        /\ post[Own(c)].at \notin {"begin", "commit"} => post'[Own(c)] = post[Own(c)]
        /\ post[<<c, "again">>].at \notin {"begin", "commit"} =>
               post'[<<c, "again">>] = post[<<c, "again">>] /\ p # <<c, "again">>
    BY <1>4, <2>a, <2>1, Serving
  <2>3. logs[c] # NoLog => logs'[c] = logs[c]
    BY <1>4, <2>a, Serving
  <2>4. ASSUME c \in Served
        PROVE  ServedTells(c)'
    <3>1. ServedTells(c)
      BY <2>a, <2>4 DEF CallTells
    <3>2. post'[<<c, "again">>] = NoPost /\ p # <<c, "again">>
      BY <2>b, <2>2, <3>1 DEF ServedTells
    <3>3. logs'[c] # NoLog => post'[Own(c)].at \in {"ok", "failed"}
      <4>1. CASE logs'[c] = logs[c]
        BY <2>2, <3>1, <4>1 DEF ServedTells
      <4>2. CASE logs'[c] # logs[c]
        <5>1. CallOf(p) = c /\ post'[p].at \in {"ok", "failed"}
          BY <1>4, <2>a, <4>2, Serving
        <5>2. p = Own(c)
          BY <3>2, <5>1 DEF CallOf, Posts, Own
        <5> QED
          BY <5>1, <5>2
      <4> QED
        BY <4>1, <4>2
    <3> QED
      BY <1>1, <2>2, <3>1, <3>2, <3>3 DEF ServedTells
  <2> QED
    BY <1>1, <2>a, <2>b, <2>2, <2>3, <2>4 DEF CallTells, IsLogged
<1> QED
  BY <1>2, <1>3, <1>4, SettingUp DEF Server

\* A step of one call leaves the others alone.
LEMMA CallStep ==
    ASSUME PluginInv, NEW c \in Calls, NEW l \in Places, Goto(c, l),
           \A q \in Posts \ {Own(c)} : post'[q] = post[q],
           UNCHANGED logs, ledger \subseteq ledger',
           \A x \in Calls \ {c} : used'[x] = used[x],
           \A x \in Served \ {c} : client'[x] = client[x],
           CallTells(c)'
    PROVE  \A x \in Calls : CallTells(x)'
<1> SUFFICES ASSUME NEW x \in Calls \ {c}
             PROVE  CallTells(x)'
  OBVIOUS
<1>1. /\ Own(x) \in Posts \ {Own(c)} /\ <<x, "again">> \in Posts \ {Own(c)}
      /\ x \in Calls
  BY DEF Own, Posts
<1>2. /\ at'[x] = at[x] /\ used'[x] = used[x] /\ logs'[x] = logs[x]
      /\ x \in Served => client'[x] = client[x]
      /\ post'[Own(x)] = post[Own(x)] /\ post'[<<x, "again">>] = post[<<x, "again">>]
  BY <1>1 DEF PluginInv, CallTypeOK, Goto
<1>3. CallTells(x)
  BY DEF PluginInv
<1> QED
  BY <1>2, <1>3 DEF CallTells, ServedTells, IsLogged

\* What a call does between its posts.
LEMMA ServedCallStep ==
    ASSUME PluginInv, NEW c \in Served, ServedStep(c), UNCHANGED ledger
    PROVE  CallTypeOK' /\ \A x \in Calls : CallTells(x)'
<1> USE DEF Goto
<1>a. c \in Calls /\ c \notin Plugged
  BY ServedAssumption DEF Plugged
<1>b. UsageTypeOK /\ CallTypeOK /\ CallTells(c) /\ ServedTells(c)
  BY <1>a DEF PluginInv, UsageInv, CallTells
<1>c. at[c] \in Places /\ client[c] \in {"none", "waiting", "streaming", "answer", "error", "text", "gone"}
  BY <1>a, <1>b DEF CallTypeOK
<1>d. NoPost.at = "none"
  BY DEF NoPost
<1>1. CASE ChatCompletion(c)
  <2>1. CallTypeOK'
    BY <1>1, <1>b DEF ChatCompletion, CallTypeOK, Places, usageVars
  <2>2. CallTells(c)'
    BY <1>1, <1>a, <1>b DEF ChatCompletion, CallTells, ServedTells, CallTypeOK, usageVars, database
  <2> QED
    BY <1>1, <1>a, <1>b, <2>1, <2>2, CallStep DEF ChatCompletion, Places, usageVars, database, CallTypeOK
<1>2. CASE Route(c) \/ RouteFails(c) \/ NotExecutable(c) \/ SendToProvider(c)
  <2>1. PICK l \in {"selected", "failed", "sent"} :
            /\ at' = [at EXCEPT ![c] = l] /\ at[c] \in {"routing", "selected"}
            /\ UNCHANGED <<usageVars, used, client>>
    BY <1>2 DEF Route, RouteFails, NotExecutable, SendToProvider
  <2>2. CallTypeOK'
    BY <2>1, <1>b DEF CallTypeOK, Places
  <2>3. CallTells(c)'
    BY <2>1, <1>a, <1>b, <1>d DEF CallTells, ServedTells, CallTypeOK, usageVars, database
  <2> QED
    BY <1>a, <2>1, <2>2, <2>3, CallStep DEF Places, usageVars, database
<1>3. CASE ProviderResponds(c) \/ ProviderFails(c)
  <2>1. PICK l \in {"answered", "failed"}, x \in 0..MaxSpend :
            /\ at' = [at EXCEPT ![c] = l] /\ at[c] \in {"sent", "answered"}
            /\ used' = [used EXCEPT ![c] = x]
            /\ UNCHANGED <<usageVars, client>>
    BY <1>3, ServedAssumption, UsageAssumption DEF ProviderResponds, ProviderFails
  <2>2. CallTypeOK'
    BY <2>1, <1>b DEF CallTypeOK, Places
  <2>3. CallTells(c)'
    BY <2>1, <1>a, <1>b, <1>d DEF CallTells, ServedTells, CallTypeOK, usageVars, database
  <2> QED
    BY <1>a, <1>b, <2>1, <2>2, <2>3, CallStep DEF Places, usageVars, database, CallTypeOK
<1>4. CASE LogServed(c)
  <2>1. Own(c) \in Posts /\ <<c, "again">> \in Posts \ {Own(c)}
    BY <1>a DEF Own, Posts
  <2>2. /\ at[c] = "answered" /\ UNCHANGED <<logs, used, client>>
        /\ at' = [at EXCEPT ![c] = "logging"]
    BY <1>4 DEF LogServed, database
  <2>3. used[c] \in 0..MaxSpend
    BY <1>a, <1>b DEF CallTypeOK
  <2>4. post' = [post EXCEPT ![Own(c)] = Received(TRUE, used[c])]
    BY <1>4 DEF LogServed
  <2>5. /\ post'[Own(c)].success /\ post'[Own(c)].spend = Verified(used[c])
        /\ \A q \in Posts \ {Own(c)} : post'[q] = post[q]
    BY <1>b, <2>1, <2>3, <2>4, ReceivedType DEF UsageTypeOK
  <2>6. logs[c] = NoLog
    BY <1>b, <1>d, <2>2 DEF CallTells, ServedTells
  <2>7. CallTypeOK'
    BY <1>4, <1>b DEF LogServed, CallTypeOK, Places
  <2>8. CallTells(c)'
    BY <1>a, <1>b, <2>1, <2>2, <2>5, <2>6 DEF CallTells, ServedTells, CallTypeOK
  <2> QED
    BY <1>4, <1>a, <2>2, <2>5, <2>7, <2>8, CallStep DEF Places
<1>5. CASE Result(c)
  <2>1. PICK l \in {"done", "failed"} :
            /\ at' = [at EXCEPT ![c] = l] /\ at[c] = "logging"
            /\ l = "done" => PostAt(Own(c), "ok")
            /\ l = "failed" => post[Own(c)].at \in {"refused", "failed"}
            /\ UNCHANGED <<usageVars, used, client>>
    BY <1>5 DEF Result
  <2>2. CallTypeOK'
    BY <2>1, <1>b DEF CallTypeOK, Places
  <2>3. CallTells(c)'
    BY <2>1, <1>a, <1>b DEF CallTells, ServedTells, CallTypeOK, usageVars, database
  <2> QED
    BY <1>a, <2>1, <2>2, <2>3, CallStep DEF Places, usageVars, database
<1>6. CASE Tell(c) \/ Leave(c)
  <2>1. PICK l \in {"answer", "error", "text", "gone"} :
            /\ client' = [client EXCEPT ![c] = l]
            /\ l = "answer" => at[c] = "done"
            /\ l \in {"error", "text"} => at[c] = "failed"
            /\ UNCHANGED <<usageVars, at, used>>
    BY <1>6 DEF Tell, Leave, Outcome
  <2>2. CallTypeOK'
    BY <2>1, <1>b DEF CallTypeOK
  <2>3. CallTells(c)'
    BY <2>1, <1>a, <1>b DEF CallTells, ServedTells, CallTypeOK, usageVars, database
  <2>4. at' = [at EXCEPT ![c] = at[c]]
    BY <1>a, <1>b, <2>1 DEF CallTypeOK
  <2> QED
    BY <1>a, <1>b, <1>c, <2>1, <2>2, <2>3, <2>4, CallStep DEF usageVars, database, CallTypeOK
<1> QED
  BY <1>1, <1>2, <1>3, <1>4, <1>5, <1>6 DEF ServedStep

LEMMA PluginCallStep ==
    ASSUME PluginInv, NEW c \in Plugged, Step(c)
    PROVE  CallTypeOK' /\ \A x \in Calls : CallTells(x)'
<1> USE DEF Goto
<1>a. c \in Calls /\ c \notin Served
  BY DEF Plugged
<1>b. UsageTypeOK /\ CallTypeOK /\ CallTells(c)
  BY <1>a DEF PluginInv, UsageInv
<1>c. Own(c) \in Posts /\ <<c, "again">> \in Posts \ {Own(c)}
  BY <1>a DEF Own, Posts
<1>1. CASE Select(c) \/ SelectFails(c) \/ Choose(c) \/ NotInCatalog(c) \/ Activate(c)
           \/ PreparationFails(c) \/ Execute(c)
  <2>1. PICK l \in {"selected", "chosen", "active", "sent", "raised"} :
            /\ at' = [at EXCEPT ![c] = l]
            /\ at[c] \in {"new", "selected", "chosen", "active"}
            /\ UNCHANGED <<usageVars, used, client, ledger>>
    BY <1>1 DEF Select, SelectFails, Choose, NotInCatalog, Activate, PreparationFails, Execute
  <2>2. CallTypeOK'
    BY <2>1, <1>b DEF CallTypeOK, Places
  <2>3. CallTells(c)'
    BY <2>1, <1>a, <1>b DEF CallTells, CallTypeOK, usageVars, database
  <2> QED
    BY <1>a, <2>1, <2>2, <2>3, CallStep DEF Places, usageVars, database
<1>2. CASE Respond(c) \/ PricingFails(c) \/ Withhold(c)
  <2>1. PICK l \in {"answered", "raised", "withheld"}, x \in 0..MaxSpend :
            /\ at' = [at EXCEPT ![c] = l] /\ used' = [used EXCEPT ![c] = x]
            /\ l = "answered" => at[c] = "sent"
            /\ UNCHANGED <<usageVars, client, ledger>>
    BY <1>2, ServedAssumption, UsageAssumption DEF Respond, PricingFails, Withhold
  <2>2. CallTypeOK'
    BY <2>1, <1>b DEF CallTypeOK, Places
  <2>3. CallTells(c)'
    BY <2>1, <1>a, <1>b DEF CallTells, CallTypeOK, usageVars, database
  <2> QED
    BY <1>a, <1>b, <2>1, <2>2, <2>3, CallStep DEF Places, usageVars, database, CallTypeOK
<1>3. CASE ActivationFails(c) \/ CapabilityMismatch(c) \/ ExecutionFails(c)
  <2>1. Send(c, FALSE, 0)
    BY <1>3 DEF ActivationFails, CapabilityMismatch, ExecutionFails
  <2>2. /\ \A q \in Posts \ {Own(c)} : post'[q] = post[q]
        /\ UNCHANGED logs
    BY <2>1, <1>b, <1>c DEF Send, UsageTypeOK, database
  <2>3. /\ at' = [at EXCEPT ![c] = "reporting"] /\ UNCHANGED <<client, ledger>>
        /\ used' \in {used, [used EXCEPT ![c] = 0]}
    BY <1>3 DEF ActivationFails, CapabilityMismatch, ExecutionFails
  <2>4. CallTypeOK'
    <3>1. used' \in [Calls -> 0..MaxSpend]
      BY <2>3, <1>b, UsageAssumption DEF CallTypeOK
    <3> QED
      BY <2>3, <3>1, <1>b DEF CallTypeOK, Places
  <2>5. CallTells(c)'
    BY <2>3, <1>a, <1>b DEF CallTells, CallTypeOK
  <2> QED
    BY <1>a, <1>b, <2>2, <2>3, <2>4, <2>5, CallStep DEF Places, CallTypeOK
<1>4. CASE LogSuccess(c)
  <2>1. Send(c, TRUE, used[c]) /\ used[c] \in 0..MaxSpend /\ at[c] = "answered"
    BY <1>4, <1>a, <1>b DEF LogSuccess, CallTypeOK
  <2>2. /\ \A q \in Posts \ {Own(c)} : post'[q] = post[q]
        /\ UNCHANGED logs
    BY <2>1, <1>b, <1>c DEF Send, UsageTypeOK, database
  <2>3. post'[Own(c)] = NoPost \/ post'[Own(c)].success
    <3>1. CASE post' = post
      BY <2>1, <3>1, <1>b DEF CallTells
    <3>2. CASE post' = [post EXCEPT ![Own(c)] = Received(TRUE, used[c])]
      BY <2>1, <3>2, <1>b, <1>c, ReceivedType DEF UsageTypeOK
    <3> QED
      BY <2>1, <3>1, <3>2 DEF Send
  <2>4. /\ at' = [at EXCEPT ![c] = "logging"] /\ UNCHANGED <<used, client, ledger>>
    BY <1>4 DEF LogSuccess
  <2>5. CallTypeOK'
    BY <2>4, <1>b DEF CallTypeOK, Places
  <2>6. CallTells(c)'
    BY <2>3, <2>4, <1>a, <1>b DEF CallTells, CallTypeOK
  <2> QED
    BY <1>a, <2>2, <2>4, <2>5, <2>6, CallStep DEF Places
<1>5. CASE Deliver(c)
  <2>1. /\ at[c] = "logging" /\ post[Own(c)].at = "ok" /\ post[Own(c)].spend = used[c]
        /\ at' = [at EXCEPT ![c] = "delivered"] /\ ledger' = ledger \cup {c}
        /\ UNCHANGED <<usageVars, used, client>>
    BY <1>5 DEF Deliver, Authoritative
  <2>2. post[Own(c)].success
    BY <2>1, <1>b DEF CallTells, NoPost
  <2>3. logs[c] # NoLog /\ logs[c].success /\ logs[c].spend = used[c]
    <3>1. AnswersTell /\ CallOf(Own(c)) = c
      BY DEF PluginInv, UsageInv, CallOf, Own
    <3> QED
      BY <1>c, <2>1, <2>2, <3>1 DEF AnswersTell
  <2>4. CallTypeOK'
    BY <2>1, <1>a, <1>b DEF CallTypeOK, Places
  <2>5. CallTells(c)'
    BY <2>1, <2>3, <1>a, <1>b DEF CallTells, IsLogged, CallTypeOK, usageVars, database
  <2> QED
    BY <1>a, <2>1, <2>4, <2>5, CallStep DEF Places, usageVars, database
<1>6. CASE Raise(c)
  <2>1. /\ at' = [at EXCEPT ![c] = "raised"] /\ ledger' \in {ledger, ledger \cup {c}}
        /\ UNCHANGED <<usageVars, used, client>>
    BY <1>6 DEF Raise
  <2>2. CallTypeOK'
    BY <2>1, <1>a, <1>b DEF CallTypeOK, Places
  <2>3. CallTells(c)'
    BY <2>1, <1>a, <1>b DEF CallTells, CallTypeOK, usageVars, database
  <2> QED
    BY <1>a, <2>1, <2>2, <2>3, CallStep DEF Places, usageVars, database
<1>7. CASE Repeat(c)
  <2>1. UNCHANGED <<at, used, client, ledger, logs>>
    BY <1>7 DEF Repeat, callVars, database
  <2>2. \A q \in Posts \ {<<c, "again">>} : post'[q] = post[q]
    BY <1>7, <1>b DEF Repeat, UsageTypeOK
  <2>3. ASSUME NEW x \in Calls
        PROVE  CallTells(x)'
    <3>1. CallTells(x) /\ Own(x) \in Posts \ {<<c, "again">>}
      BY DEF PluginInv, Own, Posts
    <3>2. x \in Served => <<x, "again">> \in Posts \ {<<c, "again">>}
      BY <1>a DEF Posts
    <3> QED
      BY <2>1, <2>2, <3>1, <3>2 DEF CallTells, ServedTells, IsLogged
  <2> QED
    BY <1>b, <2>1, <2>3 DEF CallTypeOK
<1> QED
  BY <1>1, <1>2, <1>3, <1>4, <1>5, <1>6, <1>7 DEF Step

\* The calls and the API do to usage what UsageNext says.
LEMMA PluginUsage == PluginInv /\ [Next]_vars => [UsageNext]_usageVars
<1> SUFFICES ASSUME PluginInv, [Next]_vars
             PROVE  [UsageNext]_usageVars
  OBVIOUS
<1>a. CallTypeOK /\ \A c \in Calls : CallTells(c)
  BY DEF PluginInv
<1>1. CASE Server
  BY <1>1 DEF Server, UsageNext
<1>2. ASSUME NEW c \in Served, ServedStep(c)
      PROVE  [UsageNext]_usageVars
  <2>1. CASE LogServed(c)
    <3>1. c \in Calls /\ Own(c) \in Posts /\ used[c] \in 0..MaxSpend /\ post[Own(c)] = NoPost
      BY <1>a, <2>1, ServedAssumption DEF LogServed, CallTells, CallTypeOK, Own, Posts
    <3>2. MakePost(Own(c), TRUE, used[c])
      BY <2>1, <3>1 DEF LogServed, MakePost
    <3> QED
      BY <3>1, <3>2 DEF UsageNext
  <2>2. CASE UNCHANGED usageVars
    BY <2>2
  <2> QED
    BY <1>2, <2>1, <2>2
       DEF ServedStep, ChatCompletion, Route, RouteFails, NotExecutable, SendToProvider,
           ProviderResponds, ProviderFails, Result, Tell, Leave
<1>3. ASSUME NEW c \in Plugged, Step(c)
      PROVE  [UsageNext]_usageVars
  <2>a. c \in Calls /\ Own(c) \in Posts /\ <<c, "again">> \in Posts
    BY DEF Plugged, Own, Posts
  <2>1. ASSUME NEW success \in BOOLEAN, NEW x \in 0..MaxSpend, Send(c, success, x),
               at[c] \in {"chosen", "active", "sent", "answered"}
        PROVE  [UsageNext]_usageVars
    <3>1. post[Own(c)] = NoPost
      BY <1>a, <2>a, <2>1 DEF CallTells
    <3>2. MakePost(Own(c), success, x) \/ UNCHANGED usageVars
      BY <2>1, <3>1 DEF Send, MakePost, usageVars
    <3> QED
      BY <2>a, <3>2 DEF UsageNext
  <2>2. CASE ActivationFails(c) \/ CapabilityMismatch(c) \/ ExecutionFails(c)
    <3>1. Send(c, FALSE, 0) /\ at[c] \in {"chosen", "active", "sent", "answered"}
      BY <2>2 DEF ActivationFails, CapabilityMismatch, ExecutionFails
    <3>2. 0 \in 0..MaxSpend
      BY UsageAssumption
    <3> QED
      BY <2>1, <3>1, <3>2
  <2>3. CASE LogSuccess(c)
    <3>1. Send(c, TRUE, used[c]) /\ at[c] = "answered" /\ used[c] \in 0..MaxSpend
      BY <1>a, <2>a, <2>3 DEF LogSuccess, CallTypeOK
    <3> QED
      BY <2>1, <3>1
  <2>4. CASE Repeat(c)
    <3>0. Spends \cup {0} \subseteq 0..MaxSpend
      BY ServedAssumption, UsageAssumption
    <3>1. PICK success \in BOOLEAN, x \in 0..MaxSpend : MakePost(<<c, "again">>, success, x)
      BY <2>4, <3>0, Zenon DEF Repeat, MakePost
    <3> QED
      BY <2>a, <3>1 DEF UsageNext
  <2>5. CASE UNCHANGED usageVars
    BY <2>5
  <2> QED
    BY <1>3, <2>2, <2>3, <2>4, <2>5
       DEF Step, Select, SelectFails, Choose, NotInCatalog, Activate, PreparationFails,
           Execute, Respond, PricingFails, Deliver, Withhold, Raise
<1>4. CASE UNCHANGED vars
  BY <1>4 DEF vars
<1> QED
  BY <1>1, <1>2, <1>3, <1>4 DEF Next

LEMMA PluginStep == PluginInv /\ [Next]_vars => PluginInv'
<1> SUFFICES ASSUME PluginInv, [Next]_vars
             PROVE  PluginInv'
  OBVIOUS
<1>1. UsageInv'
  BY PluginUsage, UsageStep DEF PluginInv
<1>2. CASE Server
  BY <1>1, <1>2, ServerStep DEF PluginInv
<1>3. ASSUME NEW c \in Served, ServedStep(c), UNCHANGED ledger
      PROVE  PluginInv'
  BY <1>1, <1>3, ServedCallStep DEF PluginInv
<1>4. ASSUME NEW c \in Plugged, Step(c)
      PROVE  PluginInv'
  BY <1>1, <1>4, PluginCallStep DEF PluginInv
<1>5. CASE UNCHANGED vars
  <2>1. UNCHANGED <<at, used, client, ledger, post, logs>>
    BY <1>5 DEF vars, usageVars, database, callVars
  <2>2. CallTypeOK' /\ \A c \in Calls : CallTells(c)'
    BY <2>1 DEF PluginInv, CallTypeOK, CallTells, ServedTells, IsLogged
  <2> QED
    BY <1>1, <2>2 DEF PluginInv
<1> QED
  BY <1>2, <1>3, <1>4, <1>5 DEF Next

LEMMA PluginInitially == Init => PluginInv
<1> SUFFICES ASSUME Init
             PROVE  PluginInv
  OBVIOUS
<1>1. UsageInv
  BY UsageInitially DEF Init
<1>2. CallTypeOK
  BY UsageAssumption DEF Init, ServedInit, CallTypeOK, Places
<1>3. \A c \in Calls : CallTells(c)
  <2> TAKE c \in Calls
  <2>1. post[Own(c)] = NoPost /\ post[<<c, "again">>] = NoPost /\ logs[c] = NoLog
    BY DEF Init, UsageInit, Own, Posts
  <2>2. at[c] = "new" /\ (c \in Served => client[c] = "none")
    BY DEF Init, ServedInit
  <2> QED
    BY <2>1, <2>2 DEF CallTells, ServedTells, NoPost
<1> QED
  BY <1>1, <1>2, <1>3 DEF PluginInv

LEMMA PluginInvariant == Spec => []PluginInv
BY PluginInitially, PluginStep, PTL DEF Spec

\* However transactions overlap, are tried again or lose their answer, a budget
\* was debited once for each call that is logged, and for nothing else; and so
\* were the user's totals.
THEOREM UsageIsSummed == Spec => []UsageSummed
<1>1. PluginInv => UsageSummed
  BY DEF PluginInv, UsageInv
<1> QED
  BY <1>1, PluginInvariant, PTL

\* No more is spent on a route than the largest budget it was set up with.
THEOREM GrantHolds == Spec => []WithinGrant
<1>1. PluginInv => WithinGrant
  BY DEF PluginInv, UsageInv
<1> QED
  BY <1>1, PluginInvariant, PTL

\* A response that an agent or a client sees has its usage logged, and an error
\* costs nothing unless the answer of its log was lost.
THEOREM DeliveredAreLogged == Spec => []DeliveredIsLogged
<1>1. ASSUME PluginInv
      PROVE  DeliveredIsLogged
  <2>1. ASSUME NEW c \in Plugged, at[c] = "delivered"
        PROVE  IsLogged(c)
    BY <1>1, <2>1 DEF PluginInv, CallTells, Plugged
  <2>2. ASSUME NEW c \in Served
        PROVE  /\ client[c] = "answer" =>
                      logs[c] # NoLog /\ logs[c].success /\ logs[c].spend = Verified(used[c])
               /\ client[c] \in {"error", "text"} /\ logs[c] # NoLog => PostAt(Own(c), "failed")
    <3>1. ServedTells(c) /\ AnswersTell /\ Own(c) \in Posts /\ CallOf(Own(c)) = c
      BY <1>1, ServedAssumption DEF PluginInv, UsageInv, CallTells, Own, Posts, CallOf
    <3>2. client[c] = "answer" =>
              logs[c] # NoLog /\ logs[c].success /\ logs[c].spend = Verified(used[c])
      BY <3>1 DEF ServedTells, AnswersTell
    <3>3. client[c] \in {"error", "text"} /\ logs[c] # NoLog => PostAt(Own(c), "failed")
      BY <3>1 DEF ServedTells
    <3> QED
      BY <3>2, <3>3
  <2> QED
    BY <2>1, <2>2 DEF DeliveredIsLogged, IsLogged
<1> QED
  BY <1>1, PluginInvariant, PTL
===============================================================================
