-------------------------- MODULE ExportWorker_proofs --------------------------
(* The exporter is a best-effort channel, and one process at a time uses the *)
(* sender, for any capacity, batch size, retries and shutdowns.              *)
EXTENDS ExportWorker, SequenceTheorems, FiniteSetTheorems, TLAPS

Events == 1..MaxEvents

SendPlaces == {"attempt", "request", "accepted", "backoff"}

\* A process is in _send_with_backoff.
InSend(p) == pc[p] \in SendPlaces

TypeOK ==
    /\ offered \in 0..MaxEvents
    /\ queue \in Seq(Events) /\ batch \in [Processes -> Seq(Events)]
    /\ pc \in [Processes -> {"off", "top", "get", "join", "close"} \cup SendPlaces]
    /\ attempts \in [Processes -> Nat] /\ watched \in [Processes -> Nat]
    /\ then \in [Processes -> {"off", "top", "get", "close"}]
    /\ stop \in BOOLEAN /\ shutdowns \in Nat /\ expired \in Nat
    /\ connected \in BOOLEAN
    /\ received \in Seq(Events) /\ deliveries \in Nat
    /\ dropped_full \in Nat /\ dropped_serialization \in Nat /\ failed_exports \in Nat

\* The thread and a shutdown take turns: a shutdown drains the queue only when
\* the thread is dead, and the thread leaves nothing behind when it dies.
TakeTurns ==
    /\ pc["worker"] \in {"off", "top", "get"} \cup SendPlaces
    /\ pc["drainer"] \in {"off", "join", "get", "close"} \cup SendPlaces
    /\ pc["drainer"] \notin {"off", "join"} => pc["worker"] = "off"
    /\ pc["worker"] = "off" => batch["worker"] = <<>>
    /\ pc["drainer"] \in {"off", "join", "close"} => batch["drainer"] = <<>>
    /\ InSend("worker") => then["worker"] \in {"off", "top"}
    /\ InSend("drainer") => then["drainer"] \in {"get", "close"}

\* A batch is sent when it is full, if not before.
BatchesFit ==
    /\ Len(queue) <= Capacity
    /\ \A p \in Processes :
           /\ Len(batch[p]) <= BatchSize
           /\ pc[p] \in {"top", "get"} => Len(batch[p]) < BatchSize
           /\ InSend(p) => batch[p] # <<>>

\* Every delivery of a batch was an attempt of its own.
AttemptsFit ==
    /\ \A p \in Processes :
           /\ ~InSend(p) => attempts[p] = 0
           /\ InSend(p) => attempts[p] <= MaxRetries /\ deliveries <= attempts[p]
           /\ pc[p] = "attempt" => attempts[p] < MaxRetries
           /\ pc[p] = "request" => deliveries < attempts[p]
    /\ (\A p \in Processes : ~InSend(p)) => deliveries = 0

Lost == (1..offered) \ (Elements(Waiting) \cup Elements(received))

\* What is counted as failed and still waits for another attempt.
Retried == IF pc["worker"] = "backoff" THEN Elements(batch["worker"]) ELSE {}

Counted == dropped_full + dropped_serialization + failed_exports

\* Before a shutdown no deadline passes, and what fails is counted before it is
\* given up.
LossIsCounted ==
    ~stop =>
        /\ shutdowns = 0 /\ watched["worker"] = 0 /\ pc["drainer"] = "off"
        /\ pc["worker"] = "accepted" => Elements(batch["worker"]) \subseteq Elements(received)
        /\ Cardinality(Lost \cup Retried) <= Counted

ExporterInv == TypeOK /\ TakeTurns /\ BatchesFit /\ AttemptsFit /\ LossIsCounted

-----------------------------------------------------------------------------
(* Sequences and their elements                                            *)

\* A sequence has at most as many elements as it is long.
LEMMA ElementsCounted ==
    ASSUME NEW s \in Seq(Events)
    PROVE  /\ Elements(s) \subseteq Events /\ IsFiniteSet(Elements(s))
           /\ Len(s) \in Nat /\ Cardinality(Elements(s)) <= Len(s)
<1>1. Len(s) \in Nat /\ s \in [1..Len(s) -> Events] /\ DOMAIN s = 1..Len(s)
  BY LenProperties
<1>2. Elements(s) \subseteq Events /\ s \in [1..Len(s) -> Elements(s)]
  BY <1>1 DEF Elements
<1>3. s \in Surjection(1..Len(s), Elements(s))
  BY <1>1, <1>2 DEF Surjection, Elements
<1>4. IsFiniteSet(1..Len(s)) /\ Cardinality(1..Len(s)) = Len(s)
  BY <1>1, FS_Interval
<1>5. IsFiniteSet(Elements(s)) /\ Cardinality(Elements(s)) <= Cardinality(1..Len(s))
  BY <1>3, <1>4, FS_Surjection
<1> QED
  BY <1>1, <1>2, <1>4, <1>5

LEMMA ElementsConcat ==
    ASSUME NEW s \in Seq(Events), NEW t \in Seq(Events)
    PROVE  s \o t \in Seq(Events) /\ Elements(s \o t) = Elements(s) \cup Elements(t)
<1>1. /\ s \o t \in Seq(Events) /\ Len(s \o t) = Len(s) + Len(t)
      /\ \A i \in 1..(Len(s) + Len(t)) :
             (s \o t)[i] = IF i <= Len(s) THEN s[i] ELSE t[i - Len(s)]
  BY ConcatProperties
<1>2. /\ Len(s) \in Nat /\ Len(t) \in Nat
      /\ DOMAIN s = 1..Len(s) /\ DOMAIN t = 1..Len(t) /\ DOMAIN (s \o t) = 1..(Len(s) + Len(t))
  BY <1>1, LenProperties
<1>3. Elements(s \o t) \subseteq Elements(s) \cup Elements(t)
  <2>1. \A i \in 1..(Len(s) + Len(t)) : i <= Len(s) \/ i - Len(s) \in 1..Len(t)
    BY <1>2
  <2> QED
    BY <1>1, <1>2, <2>1 DEF Elements
<1>4. Elements(s) \subseteq Elements(s \o t)
  BY <1>1, <1>2 DEF Elements
<1>5. Elements(t) \subseteq Elements(s \o t)
  <2>1. \A i \in 1..Len(t) : (s \o t)[i + Len(s)] = t[i] /\ i + Len(s) \in 1..(Len(s) + Len(t))
    BY <1>1, <1>2
  <2> QED
    BY <1>2, <2>1 DEF Elements
<1> QED
  BY <1>1, <1>3, <1>4, <1>5

LEMMA ElementsEmpty == <<>> \in Seq(Events) /\ Elements(<<>>) = {} /\ Len(<<>>) = 0
BY EmptySeq DEF Elements

LEMMA ElementsAppend ==
    ASSUME NEW s \in Seq(Events), NEW e \in Events
    PROVE  /\ Append(s, e) \in Seq(Events)
           /\ Elements(Append(s, e)) = Elements(s) \cup {e}
           /\ Len(Append(s, e)) = Len(s) + 1 /\ Append(s, e) # <<>>
<1>1. Append(s, e) = s \o <<e>> /\ <<e>> \in Seq(Events)
  BY AppendIsConcat
<1>2. Elements(<<e>>) = {e}
  BY DEF Elements
<1>3. Elements(s \o <<e>>) = Elements(s) \cup Elements(<<e>>)
  BY <1>1, ElementsConcat
<1>4. /\ Append(s, e) \in Seq(Events) /\ Append(s, e) # <<>>
      /\ Len(Append(s, e)) = Len(s) + 1
  BY AppendProperties
<1> QED
  BY <1>1, <1>2, <1>3, <1>4, Zenon

LEMMA Concatenation ==
    ASSUME NEW s \in Seq(Events), NEW t \in Seq(Events)
    PROVE  /\ s \o t \in Seq(Events) /\ Len(s \o t) = Len(s) + Len(t)
           /\ Len(s) \in Nat /\ Len(t) \in Nat
           /\ \A i \in 1..(Len(s) + Len(t)) :
                  (s \o t)[i] = IF i <= Len(s) THEN s[i] ELSE t[i - Len(s)]
BY ConcatProperties, LenProperties

LEMMA FirstAndRest ==
    ASSUME NEW s \in Seq(Events), NEW h \in Seq(Events), NEW r \in Seq(Events),
           Len(h) = 1, Len(s) = Len(r) + 1, h[1] = s[1],
           \A i \in 1..Len(r) : r[i] = s[i + 1]
    PROVE  s = h \o r
<1>1. /\ h \o r \in Seq(Events) /\ Len(h \o r) = Len(h) + Len(r)
      /\ \A i \in 1..(Len(h) + Len(r)) : (h \o r)[i] = IF i <= Len(h) THEN h[i] ELSE r[i - Len(h)]
  BY Concatenation, Zenon
<1>2. Len(r) \in Nat /\ Len(h \o r) = Len(s)
  BY <1>1, LenProperties
<1>3. \A i \in 1..Len(s) : (h \o r)[i] = s[i]
  <2> TAKE i \in 1..Len(s)
  <2>1. CASE i = 1
    BY <1>1, <1>2, <2>1
  <2>2. CASE i # 1
    <3>1. i - 1 \in 1..Len(r) /\ (h \o r)[i] = r[i - 1]
      BY <1>1, <1>2, <2>2
    <3>2. r[i - 1] = s[i - 1 + 1] /\ i - 1 + 1 = i
      BY <3>1
    <3> QED
      BY <3>1, <3>2
  <2> QED
    BY <2>1, <2>2
<1> QED
  BY <1>1, <1>2, <1>3, SeqEqual

LEMMA ElementsHead ==
    ASSUME NEW s \in Seq(Events), s # <<>>
    PROVE  /\ Head(s) \in Events /\ Tail(s) \in Seq(Events)
           /\ Len(Tail(s)) = Len(s) - 1 /\ Len(s) \in Nat \ {0}
           /\ s = <<Head(s)>> \o Tail(s)
           /\ Elements(s) = {Head(s)} \cup Elements(Tail(s))
<1>1. /\ Head(s) \in Events /\ Tail(s) \in Seq(Events)
      /\ Len(Tail(s)) = Len(s) - 1
      /\ \A i \in 1..Len(Tail(s)) : Tail(s)[i] = s[i + 1]
  BY HeadTailProperties
<1>2. Len(s) \in Nat \ {0}
  BY EmptySeq
<1>3. s = <<Head(s)>> \o Tail(s)
  <2>1. <<Head(s)>> \in Seq(Events) /\ Len(<<Head(s)>>) = 1 /\ <<Head(s)>>[1] = s[1]
    BY <1>1, <1>2
  <2> QED
    BY <1>1, <1>2, <2>1, FirstAndRest
<1>4. <<Head(s)>> \in Seq(Events) /\ Elements(<<Head(s)>>) = {Head(s)}
  BY <1>1 DEF Elements
<1> QED
  BY <1>1, <1>2, <1>3, <1>4, ElementsConcat

\* The parts of a concatenation.
LEMMA Parts ==
    ASSUME NEW s \in Seq(Events), NEW t \in Seq(Events)
    PROVE  /\ SubSeq(s \o t, 1, Len(s)) = s
           /\ SubSeq(s \o t, Len(s) + 1, Len(s \o t)) = t
<1>1. /\ s \o t \in Seq(Events) /\ Len(s \o t) = Len(s) + Len(t)
      /\ Len(s) \in Nat /\ Len(t) \in Nat
      /\ \A i \in 1..(Len(s) + Len(t)) :
             (s \o t)[i] = IF i <= Len(s) THEN s[i] ELSE t[i - Len(s)]
  BY ConcatProperties, LenProperties
<1>2. \A i \in 1..Len(s \o t) : (s \o t)[i] \in Events
  BY <1>1, ElementOfSeq
<1>3. SubSeq(s \o t, 1, Len(s)) = s
  <2>1. /\ SubSeq(s \o t, 1, Len(s)) \in Seq(Events)
        /\ Len(SubSeq(s \o t, 1, Len(s))) = Len(s)
        /\ \A i \in 1..Len(s) : SubSeq(s \o t, 1, Len(s))[i] = (s \o t)[i]
    BY <1>1, <1>2, SubSeqProperties
  <2>2. \A i \in 1..Len(s) : SubSeq(s \o t, 1, Len(s))[i] = s[i]
    BY <1>1, <2>1
  <2> QED
    BY <2>1, <2>2, SeqEqual
<1>4. SubSeq(s \o t, Len(s) + 1, Len(s \o t)) = t
  <2>1. /\ SubSeq(s \o t, Len(s) + 1, Len(s \o t)) \in Seq(Events)
        /\ Len(SubSeq(s \o t, Len(s) + 1, Len(s \o t))) = Len(t)
        /\ \A i \in 1..Len(t) :
               SubSeq(s \o t, Len(s) + 1, Len(s \o t))[i] = (s \o t)[Len(s) + i]
    <3> DEFINE st == s \o t
    <3> HIDE DEF st
    <3>1. /\ SubSeq(st, Len(s) + 1, Len(st)) \in Seq(Events)
          /\ Len(SubSeq(st, Len(s) + 1, Len(st))) =
                 IF Len(s) + 1 <= Len(st) THEN Len(st) - (Len(s) + 1) + 1 ELSE 0
          /\ \A i \in 1..(Len(st) - (Len(s) + 1) + 1) :
                 SubSeq(st, Len(s) + 1, Len(st))[i] = st[Len(s) + 1 + i - 1]
      BY <1>1, <1>2, SubSeqProperties DEF st
    <3>2. Len(st) = Len(s) + Len(t)
      BY <1>1 DEF st
    <3> QED
      BY <1>1, <3>1, <3>2 DEF st
  <2>2. \A i \in 1..Len(t) : (s \o t)[Len(s) + i] = t[i]
    BY <1>1
  <2>3. \A i \in 1..Len(t) : SubSeq(s \o t, Len(s) + 1, Len(s \o t))[i] = t[i]
    BY <2>1, <2>2
  <2> QED
    BY <2>1, <2>3, SeqEqual
<1> QED
  BY <1>3, <1>4

LEMMA CountedTogether ==
    ASSUME NEW S, NEW T, NEW U, NEW m \in Int, NEW n \in Int,
           IsFiniteSet(S), IsFiniteSet(T), U \subseteq S \cup T,
           Cardinality(S) <= m, Cardinality(T) <= n
    PROVE  Cardinality(U) <= m + n
<1>1. /\ IsFiniteSet(S \cup T)
      /\ Cardinality(S \cup T) = Cardinality(S) + Cardinality(T) - Cardinality(S \cap T)
  BY FS_Union
<1>2. /\ Cardinality(S) \in Nat /\ Cardinality(T) \in Nat
      /\ Cardinality(S \cap T) \in Nat /\ Cardinality(S \cup T) \in Nat
  BY <1>1, FS_Intersection, FS_CardinalityType
<1>3. Cardinality(U) \in Nat /\ Cardinality(U) <= Cardinality(S \cup T)
  BY <1>1, FS_Subset, FS_CardinalityType
<1> QED
  BY <1>1, <1>2, <1>3

-----------------------------------------------------------------------------
(* What the steps of a send do                                             *)

Places == {"off", "top", "get", "join", "close"} \cup SendPlaces

Returns == {"off", "top", "get", "close"}

\* The other process is where it was, with what it had.
Alone(p) ==
    \A q \in Processes \ {p} :
        /\ pc'[q] = pc[q] /\ batch'[q] = batch[q] /\ attempts'[q] = attempts[q]
        /\ watched'[q] = watched[q] /\ then'[q] = then[q]

ProcessesTyped ==
    /\ batch' \in [Processes -> Seq(Events)] /\ pc' \in [Processes -> Places]
    /\ attempts' \in [Processes -> Nat] /\ watched' \in [Processes -> Nat]
    /\ then' \in [Processes -> Returns]
    /\ deliveries' \in Nat

LEMMA SendTells ==
    ASSUME TypeOK, NEW p \in Processes, NEW b \in Seq(Events), NEW l \in Returns,
           Send(p, b, l)
    PROVE  /\ ProcessesTyped /\ Alone(p) /\ attempts' = attempts
           /\ dropped_serialization' \in Nat
           /\ dropped_full' = dropped_full /\ failed_exports' = failed_exports
           /\ deliveries' = deliveries
           /\ \/ /\ pc'[p] = l /\ batch'[p] = <<>>
                 /\ watched'[p] = watched[p] /\ then'[p] = then[p]
                 /\ dropped_serialization' = dropped_serialization + Len(b)
              \/ /\ pc'[p] = "attempt" /\ batch'[p] = b
                 /\ watched'[p] = shutdowns /\ then'[p] = l
                 /\ dropped_serialization' = dropped_serialization
<1>1. <<>> \in Seq(Events) /\ Len(b) \in Nat
  BY ElementsEmpty, LenProperties
<1>2. CASE \E i \in DOMAIN b : b[i] \in Bad
  <2>1. /\ dropped_serialization' = dropped_serialization + Len(b)
        /\ batch' = [batch EXCEPT ![p] = <<>>] /\ pc' = [pc EXCEPT ![p] = l]
        /\ UNCHANGED <<attempts, watched, then, dropped_full, failed_exports, deliveries>>
    BY <1>2 DEF Send, Goto, sends
  <2>2. dropped_serialization' \in Nat
    BY <1>1, <2>1 DEF TypeOK
  <2> QED
    BY <1>1, <2>1, <2>2 DEF TypeOK, ProcessesTyped, Alone, Places, Returns
<1>3. CASE ~(\E i \in DOMAIN b : b[i] \in Bad)
  BY <1>1, <1>3 DEF Send, Goto, TypeOK, sends, ProcessesTyped, Alone, Places, Returns, SendPlaces
<1> QED
  BY <1>2, <1>3

LEMMA DoneTells ==
    ASSUME TypeOK, NEW p \in Processes, Done(p)
    PROVE  /\ ProcessesTyped /\ Alone(p)
           /\ pc'[p] = then[p] /\ batch'[p] = <<>> /\ attempts'[p] = 0
           /\ watched' = watched /\ then' = then /\ deliveries' = 0
BY ElementsEmpty DEF Done, Goto, TypeOK, ProcessesTyped, Alone, Places, Returns

LEMMA GotoTells ==
    ASSUME TypeOK, NEW p \in Processes, NEW l \in Places, Goto(p, l),
           UNCHANGED <<batch, sends, deliveries>>
    PROVE  ProcessesTyped /\ Alone(p) /\ pc'[p] = l
BY DEF Goto, TypeOK, sends, ProcessesTyped, Alone, Places, Returns

\* A failed attempt counts the whole batch.
LEMMA FailureTells ==
    ASSUME TypeOK, NEW p \in Processes, CountFailure(p)
    PROVE  /\ dropped_full' = dropped_full /\ dropped_serialization' = dropped_serialization
           /\ Len(batch[p]) \in Nat /\ failed_exports' = failed_exports + Len(batch[p])
           /\ failed_exports' \in Nat
BY LenProperties DEF CountFailure, TypeOK

\* An event moves from the queue to p's batch, or to the send of a full one.
LEMMA TakeTells ==
    ASSUME TypeOK, NEW p \in Processes, NEW l \in Returns, Take(p, l)
    PROVE  LET b == Append(batch[p], Head(queue)) IN
               /\ b \in Seq(Events) /\ b # <<>>
               /\ Len(b) = Len(batch[p]) + 1 /\ Len(batch[p]) \in Nat
               /\ Elements(b) \cup Elements(queue') = Elements(batch[p]) \cup Elements(queue)
               /\ b \o queue' = batch[p] \o queue
               /\ queue' \in Seq(Events) /\ Len(queue') <= Len(queue)
               /\ ProcessesTyped /\ Alone(p) /\ attempts' = attempts
               /\ dropped_serialization' \in Nat
               /\ dropped_full' = dropped_full /\ failed_exports' = failed_exports
               /\ deliveries' = deliveries
               /\ \/ /\ Len(b) >= BatchSize /\ Send(p, b, l)
                  \/ /\ Len(b) < BatchSize
                     /\ pc'[p] = l /\ batch'[p] = b
                     /\ watched' = watched /\ then' = then
                     /\ dropped_serialization' = dropped_serialization
<1> DEFINE b == Append(batch[p], Head(queue))
<1>1. /\ batch[p] \in Seq(Events) /\ queue \in Seq(Events) /\ queue # <<>>
      /\ queue' = Tail(queue)
  BY DEF Take, TypeOK
<1>2. /\ Head(queue) \in Events /\ queue' \in Seq(Events)
      /\ Len(queue') = Len(queue) - 1 /\ Len(queue) \in Nat \ {0}
      /\ queue = <<Head(queue)>> \o queue'
      /\ Elements(queue) = {Head(queue)} \cup Elements(queue')
  BY <1>1, ElementsHead
<1>3. /\ b \in Seq(Events) /\ b # <<>> /\ Len(b) = Len(batch[p]) + 1
      /\ Elements(b) = Elements(batch[p]) \cup {Head(queue)}
      /\ Len(batch[p]) \in Nat
  BY <1>1, <1>2, ElementsAppend, LenProperties
<1>4. b \o queue' = batch[p] \o queue
  <2>1. <<Head(queue)>> \in Seq(Events) /\ b = batch[p] \o <<Head(queue)>>
    BY <1>1, <1>2, AppendIsConcat
  <2>2. (batch[p] \o <<Head(queue)>>) \o queue' = batch[p] \o (<<Head(queue)>> \o queue')
    BY <1>1, <1>2, <2>1, ConcatAssociative, SMTT(30)
  <2>3. queue = <<Head(queue)>> \o queue'
    BY <1>2
  <2> HIDE DEF b
  <2> QED
    BY <2>1, <2>2, <2>3, Zenon
<1>5. Len(b) \in Nat /\ BatchSize \in Nat
  BY <1>3, ExporterAssumption
<1>6. CASE Len(b) >= BatchSize
  <2>1. Send(p, b, l)
    BY <1>6 DEF Take
  <2>2. /\ ProcessesTyped /\ Alone(p) /\ attempts' = attempts
        /\ dropped_serialization' \in Nat
        /\ dropped_full' = dropped_full /\ failed_exports' = failed_exports
        /\ deliveries' = deliveries
    BY <1>3, <2>1, SendTells
  <2>3. Elements(b) \cup Elements(queue') = Elements(batch[p]) \cup Elements(queue)
    BY <1>2, <1>3
  <2>4. Len(queue') <= Len(queue)
    BY <1>2
  <2> QED
    BY <1>2, <1>3, <1>4, <1>6, <2>1, <2>2, <2>3, <2>4, Zenon
<1>7. CASE ~(Len(b) >= BatchSize)
  <2>1. /\ batch' = [batch EXCEPT ![p] = b] /\ pc' = [pc EXCEPT ![p] = l]
        /\ UNCHANGED <<sends, drops, deliveries>>
    BY <1>7 DEF Take, Goto
  <2>2. b \in Seq(Events)
    BY <1>3
  <2>3. Len(b) < BatchSize
    BY <1>5, <1>7
  <2> HIDE DEF b
  <2>4. ProcessesTyped /\ Alone(p) /\ pc'[p] = l /\ batch'[p] = b
    BY <2>1, <2>2 DEF TypeOK, sends, ProcessesTyped, Alone, Places, Returns
  <2>5. /\ attempts' = attempts /\ watched' = watched /\ then' = then
        /\ dropped_serialization' = dropped_serialization /\ dropped_serialization' \in Nat
        /\ dropped_full' = dropped_full /\ failed_exports' = failed_exports
        /\ deliveries' = deliveries
    BY <2>1 DEF TypeOK, sends, drops
  <2>6. Elements(b) \cup Elements(queue') = Elements(batch[p]) \cup Elements(queue)
    BY <1>2, <1>3
  <2>7. Len(queue') <= Len(queue)
    BY <1>2
  <2> QED
    BY <1>2, <1>3, <1>4, <2>3, <2>4, <2>5, <2>6, <2>7, Zenon DEF b
<1> QED
  BY <1>6, <1>7

-----------------------------------------------------------------------------
(* Turns, sizes and attempts                                               *)

SafeInv == TypeOK /\ TakeTurns /\ BatchesFit /\ AttemptsFit

\* One process at a time sends.
LEMMA SendsAlone ==
    ASSUME TakeTurns, NEW p \in Processes, InSend(p)
    PROVE  /\ \A q \in Processes \ {p} : ~InSend(q)
           /\ p = "worker" => pc["drainer"] \in {"off", "join"}
           /\ p = "drainer" => pc["worker"] = "off"
BY DEF TakeTurns, InSend, SendPlaces, Processes

\* A process that goes on with its send keeps its turn.
LEMMA SafeSending ==
    ASSUME SafeInv, NEW p \in Processes, InSend(p), pc'[p] \in SendPlaces,
           ProcessesTyped, Alone(p),
           batch' = batch, watched' = watched, then' = then,
           queue' = queue, offered' = offered,
           stop' = stop, shutdowns' = shutdowns, expired' = expired,
           connected' \in BOOLEAN, received' \in Seq(Events),
           dropped_full' \in Nat, dropped_serialization' \in Nat, failed_exports' \in Nat,
           attempts'[p] <= MaxRetries, deliveries' <= attempts'[p],
           pc'[p] = "attempt" => attempts'[p] < MaxRetries,
           pc'[p] = "request" => deliveries' < attempts'[p]
    PROVE  SafeInv'
<1>1. /\ \A q \in Processes \ {p} : ~InSend(q)
      /\ p = "worker" => pc["drainer"] \in {"off", "join"}
      /\ p = "drainer" => pc["worker"] = "off"
  BY SendsAlone DEF SafeInv
<1>2. TypeOK'
  BY DEF SafeInv, TypeOK, ProcessesTyped, Places, Returns
<1>3. TakeTurns'
  BY <1>1 DEF SafeInv, TakeTurns, Alone, Processes, InSend, SendPlaces
<1>4. BatchesFit'
  BY <1>1 DEF SafeInv, BatchesFit, Alone, Processes, InSend, SendPlaces
<1>5. AttemptsFit'
  BY <1>1 DEF SafeInv, AttemptsFit, Alone, Processes, InSend, SendPlaces
<1> QED
  BY <1>2, <1>3, <1>4, <1>5 DEF SafeInv

\* A process whose send has returned has nothing left.
LEMMA SafeReturned ==
    ASSUME SafeInv, NEW p \in Processes, InSend(p), Done(p),
           queue' = queue, offered' = offered,
           stop' = stop, shutdowns' = shutdowns, expired' = expired,
           connected' \in BOOLEAN, received' \in Seq(Events),
           dropped_full' \in Nat, dropped_serialization' \in Nat, failed_exports' \in Nat
    PROVE  SafeInv'
<1>1. /\ \A q \in Processes \ {p} : ~InSend(q)
      /\ p = "worker" => pc["drainer"] \in {"off", "join"}
      /\ p = "drainer" => pc["worker"] = "off"
  BY SendsAlone DEF SafeInv
<1>2. /\ ProcessesTyped /\ Alone(p)
      /\ pc'[p] = then[p] /\ batch'[p] = <<>> /\ attempts'[p] = 0
      /\ watched' = watched /\ then' = then /\ deliveries' = 0
  BY DoneTells DEF SafeInv
<1>3. TypeOK'
  BY <1>2 DEF SafeInv, TypeOK, ProcessesTyped, Places, Returns
<1>4. /\ p = "worker" => pc'[p] \in {"off", "top"}
      /\ p = "drainer" => pc'[p] \in {"get", "close"}
  BY <1>2 DEF SafeInv, TakeTurns
<1>5. TakeTurns'
  BY <1>1, <1>2, <1>4 DEF SafeInv, TakeTurns, Alone, Processes, InSend, SendPlaces
<1>6. BatchesFit'
  <2>1. Len(<<>>) = 0 /\ BatchSize > 0 /\ BatchSize \in Nat
    BY ElementsEmpty, ExporterAssumption
  <2> QED
    BY <1>1, <1>2, <1>4, <2>1 DEF SafeInv, BatchesFit, Alone, Processes, InSend, SendPlaces
<1>7. AttemptsFit'
  BY <1>1, <1>2, <1>4 DEF SafeInv, AttemptsFit, Alone, Processes, InSend, SendPlaces
<1> QED
  BY <1>3, <1>5, <1>6, <1>7 DEF SafeInv

LEMMA SafeSendStep ==
    ASSUME SafeInv, NEW p \in Processes, SendStep(p)
    PROVE  SafeInv'
<1>1. /\ TypeOK /\ queue \in Seq(Events) /\ received \in Seq(Events)
      /\ batch[p] \in Seq(Events) /\ connected \in BOOLEAN
      /\ attempts[p] \in Nat /\ deliveries \in Nat /\ MaxRetries \in Nat
      /\ dropped_full \in Nat /\ dropped_serialization \in Nat /\ failed_exports \in Nat
  BY ExporterAssumption DEF SafeInv, TypeOK
<1>2. CASE Attempt(p)
  <2>1. InSend(p) /\ attempts[p] < MaxRetries /\ deliveries <= attempts[p]
    BY <1>2 DEF Attempt, At, InSend, SendPlaces, SafeInv, AttemptsFit
  <2>2. /\ UNCHANGED <<offered, queue, stopping, received>>
    BY <1>2 DEF Attempt
  <2>3. CASE Late(watched[p])
    <3>1. Done(p) /\ CountFailure(p) /\ UNCHANGED connected
      BY <1>2, <2>3 DEF Attempt
    <3>2. failed_exports' \in Nat /\ dropped_full' \in Nat /\ dropped_serialization' \in Nat
      BY <1>1, <3>1, FailureTells
    <3> QED
      BY <1>1, <2>1, <2>2, <3>1, <3>2, SafeReturned DEF stopping
  <2>4. CASE ~Late(watched[p])
    <3>1. /\ attempts' = [attempts EXCEPT ![p] = @ + 1] /\ pc' = [pc EXCEPT ![p] = "request"]
          /\ connected' = TRUE /\ UNCHANGED <<batch, watched, then, deliveries, drops>>
      BY <1>2, <2>4 DEF Attempt, Goto
    <3>2. /\ ProcessesTyped /\ Alone(p) /\ attempts'[p] = attempts[p] + 1 /\ pc'[p] = "request"
      BY <1>1, <3>1 DEF TypeOK, ProcessesTyped, Alone, Places, Returns, SendPlaces
    <3> QED
      BY <1>1, <2>1, <2>2, <3>1, <3>2, SafeSending DEF stopping, drops, SendPlaces
  <2> QED
    BY <2>3, <2>4
<1>3. CASE Accepted(p)
  <2>1. /\ InSend(p) /\ attempts[p] <= MaxRetries /\ deliveries < attempts[p]
    BY <1>3 DEF Accepted, At, InSend, SendPlaces, SafeInv, AttemptsFit
  <2>2. /\ received' = received \o batch[p] /\ deliveries' = deliveries + 1
        /\ pc' = [pc EXCEPT ![p] = "accepted"]
        /\ UNCHANGED <<offered, queue, batch, sends, stopping, connected, drops>>
    BY <1>3 DEF Accepted, Goto
  <2>3. ProcessesTyped /\ Alone(p) /\ pc'[p] = "accepted"
    BY <1>1, <2>2 DEF TypeOK, sends, ProcessesTyped, Alone, Places, Returns, SendPlaces
  <2>4. received' \in Seq(Events)
    BY <1>1, <2>2, Concatenation
  <2> QED
    BY <1>1, <2>1, <2>2, <2>3, <2>4, SafeSending DEF stopping, drops, sends, SendPlaces
<1>4. CASE Confirmed(p)
  <2>1. InSend(p) /\ Done(p) /\ UNCHANGED <<offered, queue, stopping, connected, received, drops>>
    BY <1>4 DEF Confirmed, At, InSend, SendPlaces
  <2> QED
    BY <1>1, <2>1, SafeReturned DEF stopping, drops
<1>5. CASE Rejected(p)
  <2>1. /\ InSend(p) /\ Done(p) /\ CountFailure(p)
        /\ UNCHANGED <<offered, queue, stopping, connected, received>>
    BY <1>5 DEF Rejected, At, InSend, SendPlaces
  <2>2. failed_exports' \in Nat /\ dropped_full' \in Nat /\ dropped_serialization' \in Nat
    BY <1>1, <2>1, FailureTells
  <2> QED
    BY <1>1, <2>1, <2>2, SafeReturned DEF stopping
<1>6. CASE AttemptFails(p)
  <2>1. /\ InSend(p) /\ attempts[p] <= MaxRetries /\ deliveries <= attempts[p]
    BY <1>6 DEF AttemptFails, Sending, InSend, SendPlaces, SafeInv, AttemptsFit
  <2>2. /\ pc' = [pc EXCEPT ![p] = "backoff"] /\ CountFailure(p) /\ connected' \in BOOLEAN
        /\ UNCHANGED <<offered, queue, batch, sends, stopping, received, deliveries>>
    BY <1>6 DEF AttemptFails, Goto
  <2>3. ProcessesTyped /\ Alone(p) /\ pc'[p] = "backoff"
    BY <1>1, <2>2 DEF TypeOK, sends, ProcessesTyped, Alone, Places, Returns, SendPlaces
  <2>4. failed_exports' \in Nat /\ dropped_full' \in Nat /\ dropped_serialization' \in Nat
    BY <1>1, <2>2, FailureTells
  <2> QED
    BY <1>1, <2>1, <2>2, <2>3, <2>4, SafeSending DEF stopping, sends, SendPlaces
<1>7. CASE Backoff(p)
  <2>1. /\ InSend(p) /\ attempts[p] <= MaxRetries /\ deliveries <= attempts[p]
        /\ UNCHANGED <<offered, queue, stopping, connected, received, drops>>
    BY <1>7 DEF Backoff, At, InSend, SendPlaces, SafeInv, AttemptsFit
  <2>2. CASE attempts[p] = MaxRetries \/ Late(watched[p])
    <3>1. Done(p)
      BY <1>7, <2>2 DEF Backoff
    <3> QED
      BY <1>1, <2>1, <3>1, SafeReturned DEF stopping, drops
  <2>3. CASE ~(attempts[p] = MaxRetries \/ Late(watched[p]))
    <3>1. pc' = [pc EXCEPT ![p] = "attempt"] /\ UNCHANGED <<batch, sends, deliveries>>
      BY <1>7, <2>3 DEF Backoff, Goto
    <3>2. ProcessesTyped /\ Alone(p) /\ pc'[p] = "attempt"
      BY <1>1, <3>1 DEF TypeOK, sends, ProcessesTyped, Alone, Places, Returns, SendPlaces
    <3>3. attempts[p] < MaxRetries
      BY <1>1, <2>1, <2>3
    <3> QED
      BY <1>1, <2>1, <3>1, <3>2, <3>3, SafeSending DEF stopping, drops, sends, SendPlaces
  <2> QED
    BY <2>2, <2>3
<1> QED
  BY <1>2, <1>3, <1>4, <1>5, <1>6, <1>7 DEF SendStep

\* A process outside a send moves, perhaps to the head of one.
LEMMA SafeMoved ==
    ASSUME SafeInv, NEW p \in Processes, ~InSend(p),
           ProcessesTyped, Alone(p), attempts' = attempts, deliveries' = deliveries,
           offered' = offered, queue' \in Seq(Events), Len(queue') <= Capacity,
           stop' \in BOOLEAN, shutdowns' \in Nat, expired' = expired,
           connected' \in BOOLEAN, received' = received,
           dropped_full' \in Nat, dropped_serialization' \in Nat, failed_exports' \in Nat,
           TakeTurns',
           Len(batch'[p]) <= BatchSize,
           pc'[p] \in {"top", "get"} => Len(batch'[p]) < BatchSize,
           pc'[p] \in SendPlaces =>
               pc'[p] = "attempt" /\ batch'[p] # <<>> /\ \A q \in Processes : ~InSend(q)
    PROVE  SafeInv'
<1>1. TypeOK'
  BY DEF SafeInv, TypeOK, ProcessesTyped, Places, Returns
<1>2. BatchesFit'
  BY DEF SafeInv, BatchesFit, Alone, InSend
<1>3. attempts[p] = 0 /\ attempts'[p] = 0 /\ MaxRetries \in Nat \ {0}
  BY ExporterAssumption DEF SafeInv, AttemptsFit
<1>4. AttemptsFit'
  <2>1. CASE pc'[p] \in SendPlaces
    <3>1. /\ deliveries' = 0 /\ pc'[p] = "attempt"
          /\ \A q \in Processes \ {p} : ~InSend(q) /\ pc'[q] = pc[q] /\ attempts'[q] = 0
      BY <2>1 DEF SafeInv, AttemptsFit, Alone
    <3> QED
      BY <1>3, <3>1 DEF AttemptsFit, InSend, SendPlaces
  <2>2. CASE pc'[p] \notin SendPlaces
    BY <1>3, <2>2 DEF SafeInv, AttemptsFit, Alone, InSend, SendPlaces
  <2> QED
    BY <2>1, <2>2
<1> QED
  BY <1>1, <1>2, <1>4 DEF SafeInv

\* What the thread can count on where it is its turn, and a shutdown where it is
\* its own.
LEMMA WorkerTurn ==
    ASSUME SafeInv, pc["worker"] \in {"top", "get"}
    PROVE  /\ "worker" \in Processes /\ \A q \in Processes : ~InSend(q)
           /\ pc["drainer"] \in {"off", "join"} /\ batch["drainer"] = <<>>
           /\ batch["worker"] \in Seq(Events) /\ Len(batch["worker"]) < BatchSize
           /\ Len(batch["worker"]) \in Nat /\ BatchSize \in Nat
           /\ Len(queue) <= Capacity /\ Len(queue) \in Nat /\ Capacity \in Nat
BY ExporterAssumption, LenProperties
DEF SafeInv, TakeTurns, BatchesFit, TypeOK, InSend, SendPlaces, Processes

LEMMA DrainerTurn ==
    ASSUME SafeInv, pc["drainer"] = "get"
    PROVE  /\ "drainer" \in Processes /\ \A q \in Processes : ~InSend(q)
           /\ pc["worker"] = "off" /\ batch["worker"] = <<>>
           /\ batch["drainer"] \in Seq(Events) /\ Len(batch["drainer"]) < BatchSize
           /\ Len(batch["drainer"]) \in Nat /\ BatchSize \in Nat
           /\ Len(queue) <= Capacity /\ Len(queue) \in Nat /\ Capacity \in Nat
BY ExporterAssumption, LenProperties
DEF SafeInv, TakeTurns, BatchesFit, TypeOK, InSend, SendPlaces, Processes

\* A send is called at the caller's turn, with a batch that is not too large.
LEMMA SafeSend ==
    ASSUME SafeInv, NEW p \in Processes, NEW b \in Seq(Events), NEW l \in Returns,
           Send(p, b, l), b # <<>>, Len(b) <= BatchSize,
           \/ p = "worker" /\ pc["worker"] \in {"top", "get"} /\ l \in {"off", "top"}
           \/ p = "drainer" /\ pc["drainer"] = "get" /\ l \in {"get", "close"},
           queue' \in Seq(Events), Len(queue') <= Capacity,
           UNCHANGED <<offered, stopping, connected, received>>
    PROVE  SafeInv'
<1>1. /\ ProcessesTyped /\ Alone(p) /\ attempts' = attempts
      /\ dropped_serialization' \in Nat
      /\ dropped_full' = dropped_full /\ failed_exports' = failed_exports
      /\ deliveries' = deliveries
      /\ \/ pc'[p] = l /\ batch'[p] = <<>> /\ then'[p] = then[p]
         \/ pc'[p] = "attempt" /\ batch'[p] = b /\ then'[p] = l
  BY SendTells DEF SafeInv
<1>2. TakeTurns'
  <2>1. CASE p = "worker"
    <3>1. pc["drainer"] \in {"off", "join"} /\ batch["drainer"] = <<>> /\ l \in {"off", "top"}
      BY <2>1, WorkerTurn
    <3> QED
      BY <1>1, <2>1, <3>1 DEF TakeTurns, Alone, Processes, InSend, SendPlaces
  <2>2. CASE p = "drainer"
    <3>1. pc["worker"] = "off" /\ batch["worker"] = <<>> /\ l \in {"get", "close"}
      BY <2>2, DrainerTurn
    <3> QED
      BY <1>1, <2>2, <3>1 DEF TakeTurns, Alone, Processes, InSend, SendPlaces
  <2> QED
    BY <2>1, <2>2 DEF Processes
<1>3. \A q \in Processes : ~InSend(q)
  BY WorkerTurn, DrainerTurn
<1>4. /\ stop' = stop /\ shutdowns' = shutdowns /\ expired' = expired /\ offered' = offered
      /\ connected' = connected /\ received' = received
      /\ stop \in BOOLEAN /\ shutdowns \in Nat /\ connected \in BOOLEAN
      /\ dropped_full \in Nat /\ failed_exports \in Nat
  BY DEF stopping, SafeInv, TypeOK
<1>5. Len(<<>>) = 0 /\ BatchSize \in Nat \ {0}
  BY ElementsEmpty, ExporterAssumption
<1>6. l \notin SendPlaces
  BY DEF SendPlaces, Returns
<1>7. /\ Len(batch'[p]) <= BatchSize
      /\ pc'[p] \in {"top", "get"} => Len(batch'[p]) < BatchSize
      /\ pc'[p] \in SendPlaces => pc'[p] = "attempt" /\ batch'[p] # <<>>
  BY <1>1, <1>5, <1>6
<1> QED
  BY <1>1, <1>2, <1>3, <1>4, <1>7, SafeMoved

\* An event is taken from the queue at the caller's turn.
LEMMA SafeTake ==
    ASSUME SafeInv, NEW p \in Processes, NEW l \in {"top", "get"}, Take(p, l),
           \/ p = "worker" /\ pc["worker"] = "get" /\ l = "top"
           \/ p = "drainer" /\ pc["drainer"] = "get" /\ l = "get"
    PROVE  SafeInv'
<1>1. PICK b \in Seq(Events) :
          /\ b = Append(batch[p], Head(queue))
          /\ b # <<>> /\ Len(b) = Len(batch[p]) + 1 /\ Len(batch[p]) \in Nat
          /\ queue' \in Seq(Events) /\ Len(queue') <= Len(queue)
          /\ ProcessesTyped /\ Alone(p) /\ attempts' = attempts
          /\ dropped_serialization' \in Nat
          /\ dropped_full' = dropped_full /\ failed_exports' = failed_exports
          /\ deliveries' = deliveries
          /\ \/ Send(p, b, l)
             \/ /\ Len(b) < BatchSize
                /\ pc'[p] = l /\ batch'[p] = b /\ watched' = watched /\ then' = then
  BY TakeTells DEF SafeInv, Returns
<1>2. /\ Len(batch[p]) < BatchSize /\ BatchSize \in Nat
      /\ Len(queue) <= Capacity /\ Len(queue) \in Nat /\ Capacity \in Nat
      /\ \A q \in Processes : ~InSend(q)
  BY WorkerTurn, DrainerTurn
<1>3. UNCHANGED <<offered, stopping, connected, received>>
  BY DEF Take
<1>4. Len(b) <= BatchSize /\ Len(queue') <= Capacity
  <2>1. Len(queue') \in Nat
    BY <1>1, LenProperties
  <2> QED
    BY <1>1, <1>2, <2>1
<1>5. CASE Send(p, b, l)
  BY <1>1, <1>3, <1>4, <1>5, SafeSend DEF Returns
<1>6. CASE Len(b) < BatchSize /\ pc'[p] = l /\ batch'[p] = b /\ watched' = watched /\ then' = then
  <2>1. TakeTurns'
    <3>1. CASE p = "worker"
      BY <1>1, <1>6, <3>1, WorkerTurn DEF SafeInv, TakeTurns, Alone, Processes, InSend, SendPlaces
    <3>2. CASE p = "drainer"
      BY <1>1, <1>6, <3>2, DrainerTurn DEF SafeInv, TakeTurns, Alone, Processes, InSend, SendPlaces
    <3> QED
      BY <3>1, <3>2 DEF Processes
  <2>2. /\ stop' = stop /\ shutdowns' = shutdowns /\ expired' = expired /\ offered' = offered
        /\ connected' = connected /\ received' = received
        /\ stop \in BOOLEAN /\ shutdowns \in Nat /\ connected \in BOOLEAN
        /\ dropped_full \in Nat /\ failed_exports \in Nat
    BY <1>3 DEF stopping, SafeInv, TypeOK
  <2>3. pc'[p] \notin SendPlaces
    BY <1>6 DEF SendPlaces
  <2> QED
    BY <1>1, <1>2, <1>4, <1>6, <2>1, <2>2, <2>3, SafeMoved
<1> QED
  BY <1>1, <1>5, <1>6

\* A process that only goes elsewhere, with nothing to send.
LEMMA SafeGoto ==
    ASSUME SafeInv, NEW p \in Processes, NEW l \in Returns \cup {"join"}, ~InSend(p),
           Goto(p, l), UNCHANGED <<offered, queue, batch, sends, expired, received, deliveries, drops>>,
           stop' \in BOOLEAN, shutdowns' \in Nat, connected' \in BOOLEAN,
           l \in {"top", "get"} => Len(batch[p]) < BatchSize,
           TakeTurns'
    PROVE  SafeInv'
<1>1. TypeOK /\ queue \in Seq(Events) /\ Len(queue) <= Capacity /\ Len(batch[p]) <= BatchSize
  BY DEF SafeInv, TypeOK, BatchesFit
<1>2. ProcessesTyped /\ Alone(p) /\ pc'[p] = l /\ l \notin SendPlaces
  BY <1>1, GotoTells DEF Places, Returns, SendPlaces
<1>3. dropped_full \in Nat /\ dropped_serialization \in Nat /\ failed_exports \in Nat
  BY <1>1 DEF TypeOK
<1>4. /\ attempts' = attempts /\ deliveries' = deliveries /\ offered' = offered
      /\ queue' = queue /\ batch' = batch /\ expired' = expired /\ received' = received
      /\ dropped_full' \in Nat /\ dropped_serialization' \in Nat /\ failed_exports' \in Nat
  BY <1>3 DEF sends, drops
<1> QED
  BY <1>1, <1>2, <1>4, SafeMoved

LEMMA SafeEnqueue ==
    ASSUME SafeInv, Enqueue
    PROVE  SafeInv' /\ offered' \in Events
<1>1. /\ offered < MaxEvents /\ offered' = offered + 1 /\ offered \in 0..MaxEvents /\ MaxEvents \in Nat
      /\ UNCHANGED <<pc, batch, sends, stopping, connected, received, deliveries,
                     dropped_serialization, failed_exports>>
  BY ExporterAssumption DEF Enqueue, SafeInv, TypeOK
<1>2. offered' \in Events /\ offered' \in 0..MaxEvents
  BY <1>1 DEF Events
<1>3. queue' \in Seq(Events) /\ Len(queue') <= Capacity /\ dropped_full' \in Nat
  <2>1. queue \in Seq(Events) /\ Len(queue) \in Nat /\ dropped_full \in Nat
        /\ Len(queue) <= Capacity /\ Capacity \in Nat
    BY ExporterAssumption, LenProperties DEF SafeInv, TypeOK, BatchesFit
  <2>2. CASE Len(queue) < Capacity
    BY <1>2, <2>1, <2>2, AppendProperties DEF Enqueue
  <2>3. CASE ~(Len(queue) < Capacity)
    BY <2>1, <2>3 DEF Enqueue
  <2> QED
    BY <2>2, <2>3
<1>4. TypeOK' /\ TakeTurns' /\ BatchesFit' /\ AttemptsFit'
  BY <1>1, <1>2, <1>3
  DEF SafeInv, TypeOK, TakeTurns, BatchesFit, AttemptsFit, InSend, sends, stopping
<1> QED
  BY <1>2, <1>4 DEF SafeInv

LEMMA SafeWorker ==
    ASSUME SafeInv, Start \/ Top \/ Collect \/ Flush
    PROVE  SafeInv'
<1>0. "worker" \in Processes /\ TypeOK /\ stop \in BOOLEAN /\ shutdowns \in Nat /\ connected \in BOOLEAN
      /\ BatchSize \in Nat \ {0}
  BY ExporterAssumption DEF Processes, SafeInv, TypeOK
<1>1. CASE Start
  <2>1. /\ pc["worker"] = "off" /\ pc["drainer"] = "off" /\ Goto("worker", "top")
        /\ UNCHANGED <<offered, queue, batch, sends, stopping, connected, received, deliveries, drops>>
    BY <1>1 DEF Start, At
  <2>2. batch["worker"] = <<>> /\ Len(batch["worker"]) < BatchSize
    BY <1>0, <2>1, ElementsEmpty DEF SafeInv, TakeTurns
  <2>3. TakeTurns'
    BY <1>0, <2>1 DEF SafeInv, TakeTurns, Goto, Processes, InSend, SendPlaces, TypeOK, sends
  <2> QED
    BY <1>0, <2>1, <2>2, <2>3, SafeGoto DEF InSend, SendPlaces, stopping, Returns
<1>2. CASE Top
  <2>1. /\ pc["worker"] = "top" /\ UNCHANGED <<offered, queue, stopping, connected, received>>
    BY <1>2 DEF Top, At
  <2>2. CASE ~stop \/ batch["worker"] = <<>>
    <3>1. PICK l \in {"get", "off"} :
             /\ l = "off" => batch["worker"] = <<>>
             /\ Goto("worker", l) /\ UNCHANGED <<batch, sends, drops, deliveries>>
      BY <1>2, <2>2 DEF Top
    <3>2. TakeTurns'
      BY <1>0, <2>1, <3>1, WorkerTurn
      DEF SafeInv, TakeTurns, Goto, Processes, InSend, SendPlaces, TypeOK, sends
    <3> QED
      BY <1>0, <2>1, <3>1, <3>2, SafeGoto, WorkerTurn DEF stopping, Returns
  <2>3. CASE stop /\ batch["worker"] # <<>>
    <3>1. Send("worker", batch["worker"], "off")
      BY <1>2, <2>3 DEF Top
    <3>2. /\ batch["worker"] \in Seq(Events) /\ Len(batch["worker"]) <= BatchSize
          /\ queue' \in Seq(Events) /\ Len(queue') <= Capacity
      BY <2>1, WorkerTurn DEF SafeInv, TypeOK
    <3> QED
      BY <1>0, <2>1, <2>3, <3>1, <3>2, SafeSend DEF Returns
  <2> QED
    BY <2>2, <2>3
<1>3. CASE Collect
  BY <1>0, <1>3, SafeTake DEF Collect, At
<1>4. CASE Flush
  <2>1. /\ pc["worker"] = "get" /\ UNCHANGED <<offered, queue, stopping, connected, received>>
    BY <1>4 DEF Flush, At
  <2>2. CASE batch["worker"] = <<>>
    <3>1. Goto("worker", "top") /\ UNCHANGED <<batch, sends, drops, deliveries>>
      BY <1>4, <2>2 DEF Flush
    <3>2. TakeTurns'
      BY <1>0, <2>1, <3>1, WorkerTurn
      DEF SafeInv, TakeTurns, Goto, Processes, InSend, SendPlaces, TypeOK, sends
    <3> QED
      BY <1>0, <2>1, <3>1, <3>2, SafeGoto, WorkerTurn DEF stopping, Returns
  <2>3. CASE batch["worker"] # <<>>
    <3>1. Send("worker", batch["worker"], "top")
      BY <1>4, <2>3 DEF Flush
    <3>2. /\ batch["worker"] \in Seq(Events) /\ Len(batch["worker"]) <= BatchSize
          /\ queue' \in Seq(Events) /\ Len(queue') <= Capacity
      BY <2>1, WorkerTurn DEF SafeInv, TypeOK
    <3> QED
      BY <1>0, <2>1, <2>3, <3>1, <3>2, SafeSend DEF Returns
  <2> QED
    BY <2>2, <2>3
<1> QED
  BY <1>1, <1>2, <1>3, <1>4

LEMMA SafeDrainer ==
    ASSUME SafeInv, Shutdown \/ Joined \/ Drain \/ DrainEnds \/ Close
    PROVE  SafeInv'
<1>0. "drainer" \in Processes /\ TypeOK /\ stop \in BOOLEAN /\ shutdowns \in Nat /\ connected \in BOOLEAN
      /\ BatchSize \in Nat \ {0} /\ Len(<<>>) = 0
  BY ExporterAssumption, ElementsEmpty DEF Processes, SafeInv, TypeOK
<1>1. CASE Shutdown
  <2>1. /\ pc["drainer"] = "off" /\ Goto("drainer", "join") /\ stop' = TRUE
        /\ shutdowns' = shutdowns + 1
        /\ UNCHANGED <<offered, queue, batch, sends, expired, connected, received, deliveries, drops>>
    BY <1>1 DEF Shutdown, At
  <2>2. TakeTurns'
    BY <1>0, <2>1 DEF SafeInv, TakeTurns, Goto, Processes, InSend, SendPlaces, TypeOK, sends
  <2>3. ~InSend("drainer") /\ stop' \in BOOLEAN /\ shutdowns' \in Nat /\ connected' \in BOOLEAN
    BY <1>0, <2>1 DEF InSend, SendPlaces
  <2> QED
    BY <1>0, <2>1, <2>2, <2>3, SafeGoto
<1>2. CASE Joined
  <2>1. /\ pc["drainer"] = "join"
        /\ UNCHANGED <<offered, queue, batch, sends, stopping, connected, received, deliveries, drops>>
    BY <1>2 DEF Joined, At
  <2>2. PICK l \in {"get", "off"} :
           (l = "get" => pc["worker"] = "off") /\ Goto("drainer", l)
    BY <1>2 DEF Joined, At
  <2>3. batch["drainer"] = <<>> /\ Len(batch["drainer"]) < BatchSize
    BY <1>0, <2>1 DEF SafeInv, TakeTurns
  <2>4. TakeTurns'
    BY <1>0, <2>1, <2>2, <2>3
    DEF SafeInv, TakeTurns, Goto, Processes, InSend, SendPlaces, TypeOK, sends
  <2> QED
    BY <1>0, <2>1, <2>2, <2>3, <2>4, SafeGoto DEF InSend, SendPlaces, stopping, Returns
<1>3. CASE Drain
  BY <1>0, <1>3, SafeTake DEF Drain, At
<1>4. CASE DrainEnds
  <2>1. /\ pc["drainer"] = "get" /\ UNCHANGED <<offered, queue, stopping, connected, received>>
    BY <1>4 DEF DrainEnds, At
  <2>2. CASE batch["drainer"] # <<>> /\ ~Late(shutdowns)
    <3>1. Send("drainer", batch["drainer"], "close")
      BY <1>4, <2>2 DEF DrainEnds
    <3>2. /\ batch["drainer"] \in Seq(Events) /\ Len(batch["drainer"]) <= BatchSize
          /\ queue' \in Seq(Events) /\ Len(queue') <= Capacity
      BY <2>1, DrainerTurn DEF SafeInv, TypeOK
    <3> QED
      BY <1>0, <2>1, <2>2, <3>1, <3>2, SafeSend DEF Returns
  <2>3. CASE ~(batch["drainer"] # <<>> /\ ~Late(shutdowns))
    <3>1. /\ batch' = [batch EXCEPT !["drainer"] = <<>>] /\ pc' = [pc EXCEPT !["drainer"] = "close"]
          /\ attempts' = attempts /\ watched' = watched /\ then' = then /\ deliveries' = deliveries
          /\ UNCHANGED drops
      BY <1>4, <2>3 DEF DrainEnds, Goto, sends
    <3>2. ProcessesTyped /\ Alone("drainer") /\ pc'["drainer"] = "close" /\ batch'["drainer"] = <<>>
      BY <1>0, <3>1, ElementsEmpty DEF TypeOK, ProcessesTyped, Alone, Places, Returns, Processes
    <3>3. TakeTurns'
      BY <3>1, <3>2, <2>1, DrainerTurn
      DEF SafeInv, TakeTurns, Alone, Processes, InSend, SendPlaces
    <3>4. ~InSend("drainer") /\ queue' \in Seq(Events) /\ Len(queue') <= Capacity
      BY <2>1, DrainerTurn DEF SafeInv, TypeOK
    <3>5. /\ dropped_full' \in Nat /\ dropped_serialization' \in Nat /\ failed_exports' \in Nat
          /\ stop' \in BOOLEAN /\ shutdowns' \in Nat /\ expired' = expired /\ connected' \in BOOLEAN
          /\ offered' = offered /\ received' = received
      BY <1>0, <2>1, <3>1 DEF TypeOK, drops, stopping
    <3>6. "close" \notin SendPlaces
      BY DEF SendPlaces
    <3> QED
      BY <1>0, <3>1, <3>2, <3>3, <3>4, <3>5, <3>6, SafeMoved
  <2> QED
    BY <2>2, <2>3
<1>5. CASE Close
  <2>1. /\ pc["drainer"] = "close" /\ Goto("drainer", "off") /\ connected' = FALSE
        /\ UNCHANGED <<offered, queue, batch, sends, stopping, received, deliveries, drops>>
    BY <1>5 DEF Close, At
  <2>2. TakeTurns'
    BY <1>0, <2>1 DEF SafeInv, TakeTurns, Goto, Processes, InSend, SendPlaces, TypeOK, sends
  <2> QED
    BY <1>0, <2>1, <2>2, SafeGoto DEF InSend, SendPlaces, stopping, Returns
<1> QED
  BY <1>1, <1>2, <1>3, <1>4, <1>5

LEMMA SafeStep == SafeInv /\ [Next]_vars => SafeInv'
<1> SUFFICES ASSUME SafeInv, [Next]_vars
             PROVE  SafeInv'
  OBVIOUS
<1>1. CASE Enqueue
  BY <1>1, SafeEnqueue
<1>2. CASE Start \/ Top \/ Collect \/ Flush
  BY <1>2, SafeWorker
<1>3. CASE SendStep("worker") \/ SendStep("drainer")
  BY <1>3, SafeSendStep DEF Processes
<1>4. CASE Shutdown \/ Joined \/ Drain \/ DrainEnds \/ Close
  BY <1>4, SafeDrainer
<1>5. CASE Expire
  BY <1>5 DEF Expire, SafeInv, TypeOK, TakeTurns, BatchesFit, AttemptsFit, InSend, sends, drops
<1>6. CASE UNCHANGED vars
  BY <1>6 DEF vars, SafeInv, TypeOK, TakeTurns, BatchesFit, AttemptsFit, InSend, sends, drops, stopping
<1> QED
  BY <1>1, <1>2, <1>3, <1>4, <1>5, <1>6 DEF Next, Worker, Drainer

LEMMA SafeInit == Init => SafeInv
<1>1. /\ <<>> \in Seq(Events) /\ Len(<<>>) = 0 /\ MaxEvents \in Nat
      /\ Capacity \in Nat \ {0} /\ BatchSize \in Nat \ {0} /\ MaxRetries \in Nat
  BY ElementsEmpty, ExporterAssumption
<1> SUFFICES ASSUME Init
             PROVE  SafeInv
  OBVIOUS
<1>2. TypeOK
  <2>1. offered \in 0..MaxEvents /\ queue \in Seq(Events) /\ received \in Seq(Events)
    BY <1>1 DEF Init
  <2>2. batch \in [Processes -> Seq(Events)]
    BY <1>1 DEF Init
  <2>3. /\ pc \in [Processes -> {"off", "top", "get", "join", "close"} \cup SendPlaces]
        /\ then \in [Processes -> {"off", "top", "get", "close"}]
        /\ attempts \in [Processes -> Nat] /\ watched \in [Processes -> Nat]
    BY DEF Init
  <2> QED
    BY <2>1, <2>2, <2>3 DEF Init, TypeOK
<1>3. \A p \in Processes : pc[p] = "off" /\ batch[p] = <<>> /\ attempts[p] = 0 /\ ~InSend(p)
  BY DEF Init, InSend, SendPlaces
<1>4. TakeTurns
  BY <1>3 DEF TakeTurns, InSend, SendPlaces, Processes
<1>5. BatchesFit
  BY <1>1, <1>3 DEF Init, BatchesFit, InSend
<1>6. AttemptsFit
  BY <1>1, <1>3 DEF Init, AttemptsFit, InSend, SendPlaces
<1> QED
  BY <1>2, <1>4, <1>5, <1>6 DEF SafeInv

-----------------------------------------------------------------------------
(* Losses are counted                                                      *)

Kept == Elements(Waiting) \cup Elements(received)

LEMMA ElementsOfThree ==
    ASSUME NEW s \in Seq(Events), NEW t \in Seq(Events), NEW u \in Seq(Events)
    PROVE  /\ s \o t \o u \in Seq(Events)
           /\ Elements(s \o t \o u) = Elements(s) \cup Elements(t) \cup Elements(u)
<1>1. s \o t \in Seq(Events) /\ Elements(s \o t) = Elements(s) \cup Elements(t)
  BY ElementsConcat
<1> QED
  BY <1>1, ElementsConcat

\* What is kept, by its places.
LEMMA KeptParts ==
    ASSUME SafeInv, SafeInv'
    PROVE  /\ Waiting \in Seq(Events) /\ Waiting' \in Seq(Events)
           /\ Kept = Elements(batch["worker"]) \cup Elements(batch["drainer"])
                         \cup Elements(queue) \cup Elements(received)
           /\ Kept' = Elements(batch'["worker"]) \cup Elements(batch'["drainer"])
                         \cup Elements(queue') \cup Elements(received')
<1>1. /\ batch["worker"] \in Seq(Events) /\ batch["drainer"] \in Seq(Events)
      /\ queue \in Seq(Events)
      /\ batch'["worker"] \in Seq(Events) /\ batch'["drainer"] \in Seq(Events)
      /\ queue' \in Seq(Events)
  BY DEF SafeInv, TypeOK, Processes
<1>2. Elements(Waiting) = Elements(batch["worker"]) \cup Elements(batch["drainer"]) \cup Elements(queue)
      /\ Waiting \in Seq(Events)
  BY <1>1, ElementsOfThree DEF Waiting
<1>3. Elements(Waiting') = Elements(batch'["worker"]) \cup Elements(batch'["drainer"]) \cup Elements(queue')
      /\ Waiting' \in Seq(Events)
  BY <1>1, ElementsOfThree DEF Waiting
<1> QED
  BY <1>2, <1>3 DEF Kept, Elements

\* A step that lets go of events it counts, or of what a failed attempt counted.
LEMMA StillCounted ==
    ASSUME SafeInv, SafeInv', LossIsCounted, ~stop,
           NEW X, IsFiniteSet(X), NEW n \in Nat, Cardinality(X) <= n,
           Lost' \subseteq Lost \cup Retried \cup X, Retried' \subseteq Retried \cup X,
           Counted' = Counted + n
    PROVE  Cardinality((Lost \cup Retried)') <= Counted'
<1>1. IsFiniteSet(Lost \cup Retried)
  <2>1. offered \in Nat /\ batch["worker"] \in Seq(Events)
    BY DEF SafeInv, TypeOK, Processes
  <2>2. IsFiniteSet(1..offered) /\ Lost \subseteq 1..offered
    BY <2>1, FS_Interval DEF Lost
  <2>3. IsFiniteSet(Retried)
    BY <2>1, ElementsCounted, FS_EmptySet DEF Retried
  <2> QED
    BY <2>2, <2>3, FS_Subset, FS_Union
<1>2. Cardinality(Lost \cup Retried) <= Counted
  BY DEF LossIsCounted
<1>3. Counted \in Nat
  BY DEF Counted, SafeInv, TypeOK
<1>4. (Lost \cup Retried)' \subseteq (Lost \cup Retried) \cup X
  OBVIOUS
<1>5. Cardinality((Lost \cup Retried)') <= Counted + n
  BY <1>1, <1>2, <1>3, <1>4, CountedTogether
<1> QED
  BY <1>5

LEMMA LostOnly ==
    ASSUME offered' = offered, NEW Y, Kept \subseteq Kept' \cup Y
    PROVE  Lost' \subseteq Lost \cup Y
BY DEF Lost, Kept

LEMMA LossKept ==
    ASSUME SafeInv, SafeInv', LossIsCounted, ~stop, offered' = offered,
           shutdowns' = 0, watched'["worker"] = 0, pc'["drainer"] = "off",
           pc'["worker"] = "accepted" => Elements(batch'["worker"]) \subseteq Elements(received'),
           NEW X, IsFiniteSet(X), NEW n \in Nat, Cardinality(X) <= n,
           Kept \subseteq Kept' \cup Retried \cup X, Retried' \subseteq Retried \cup X,
           Counted' = Counted + n
    PROVE  LossIsCounted'
<1>1. Lost' \subseteq Lost \cup (Retried \cup X)
  <2>1. Kept \subseteq Kept' \cup (Retried \cup X)
    OBVIOUS
  <2> QED
    BY <2>1, LostOnly
<1>2. Cardinality((Lost \cup Retried)') <= Counted'
  <2>1. Lost' \subseteq Lost \cup Retried \cup X
    BY <1>1
  <2> QED
    BY <2>1, StillCounted
<1> QED
  BY <1>2 DEF LossIsCounted, Elements

\* What holds of the thread before a shutdown.
LEMMA BeforeShutdown ==
    ASSUME SafeInv, LossIsCounted, ~stop
    PROVE  /\ "worker" \in Processes /\ "drainer" \in Processes
           /\ shutdowns = 0 /\ watched["worker"] = 0 /\ ~Late(watched["worker"])
           /\ pc["drainer"] = "off" /\ batch["drainer"] = <<>>
           /\ batch["worker"] \in Seq(Events)
           /\ IsFiniteSet(Elements(batch["worker"])) /\ Len(batch["worker"]) \in Nat
           /\ Cardinality(Elements(batch["worker"])) <= Len(batch["worker"])
           /\ IsFiniteSet({}) /\ Cardinality({}) = 0 /\ Elements(<<>>) = {}
           /\ Counted \in Nat
<1>1. /\ shutdowns = 0 /\ watched["worker"] = 0 /\ ~Late(watched["worker"])
      /\ pc["drainer"] = "off" /\ batch["drainer"] = <<>>
  BY DEF LossIsCounted, SafeInv, TakeTurns, Late
<1>2. "worker" \in Processes /\ "drainer" \in Processes /\ batch["worker"] \in Seq(Events)
      /\ Counted \in Nat
  BY DEF SafeInv, TypeOK, Processes, Counted
<1> QED
  BY <1>1, <1>2, ElementsCounted, ElementsEmpty, FS_EmptySet

\* The thread calls a send with what it has, or has just taken.
LEMMA LossSend ==
    ASSUME SafeInv, SafeInv', LossIsCounted, ~stop, NEW b \in Seq(Events), NEW l \in {"top"},
           Send("worker", b, l), pc["worker"] # "backoff",
           Elements(b) \cup Elements(queue') = Elements(batch["worker"]) \cup Elements(queue),
           UNCHANGED <<offered, stopping, received>>
    PROVE  LossIsCounted'
<1>1. /\ Alone("worker") /\ dropped_full' = dropped_full /\ failed_exports' = failed_exports
      /\ \/ /\ pc'["worker"] = l /\ batch'["worker"] = <<>>
            /\ watched'["worker"] = watched["worker"]
            /\ dropped_serialization' = dropped_serialization + Len(b)
         \/ /\ pc'["worker"] = "attempt" /\ batch'["worker"] = b
            /\ watched'["worker"] = shutdowns
            /\ dropped_serialization' = dropped_serialization
  BY SendTells, BeforeShutdown DEF SafeInv, Returns
<1>2. /\ shutdowns' = 0 /\ watched'["worker"] = 0 /\ offered' = offered /\ received' = received
      /\ pc'["drainer"] = "off" /\ batch'["drainer"] = <<>> /\ batch["drainer"] = <<>>
  BY <1>1, BeforeShutdown DEF Alone, stopping
<1>3. /\ Kept = Elements(b) \cup Elements(batch["drainer"]) \cup Elements(queue') \cup Elements(received)
      /\ Kept' = Elements(batch'["worker"]) \cup Elements(batch["drainer"])
                     \cup Elements(queue') \cup Elements(received)
  BY <1>2, KeptParts
<1>4. Retried = {} /\ Retried' = {}
  BY <1>1 DEF Retried
<1>5. IsFiniteSet(Elements(b)) /\ Len(b) \in Nat /\ Cardinality(Elements(b)) <= Len(b)
  BY ElementsCounted
<1>6. dropped_full \in Nat /\ dropped_serialization \in Nat /\ failed_exports \in Nat
  BY DEF SafeInv, TypeOK
<1>7. CASE batch'["worker"] = b /\ pc'["worker"] = "attempt" /\ dropped_serialization' = dropped_serialization
  <2>1. Counted' = Counted + 0
    BY <1>1, <1>6, <1>7 DEF Counted
  <2>2. Kept \subseteq Kept' \cup Retried \cup {} /\ Retried' \subseteq Retried \cup {}
    BY <1>3, <1>4, <1>7
  <2> QED
    BY <1>2, <1>7, <2>1, <2>2, LossKept, BeforeShutdown
<1>8. CASE pc'["worker"] = l /\ dropped_serialization' = dropped_serialization + Len(b)
  <2>1. Counted' = Counted + Len(b)
    BY <1>1, <1>5, <1>6, <1>8 DEF Counted
  <2>2. Kept \subseteq Kept' \cup Retried \cup Elements(b) /\ Retried' \subseteq Retried \cup Elements(b)
    BY <1>3, <1>4
  <2> QED
    BY <1>2, <1>5, <1>8, <2>1, <2>2, LossKept
<1> QED
  BY <1>1, <1>7, <1>8

\* The thread goes elsewhere and keeps what it has.
LEMMA LossGoto ==
    ASSUME SafeInv, SafeInv', LossIsCounted, ~stop,
           NEW l \in {"top", "get", "off", "attempt", "request"},
           Goto("worker", l),
           batch' = batch, watched' = watched, queue' = queue, offered' = offered,
           UNCHANGED <<stopping, received, drops>>
    PROVE  LossIsCounted'
<1>1. /\ pc' = [pc EXCEPT !["worker"] = l] /\ pc \in [Processes -> Places]
      /\ shutdowns' = shutdowns /\ Counted' = Counted /\ received' = received
  BY DEF Goto, SafeInv, TypeOK, stopping, drops, Counted, Places
<1>2. pc'["worker"] = l /\ pc'["drainer"] = pc["drainer"] /\ Retried' = {}
  BY <1>1, BeforeShutdown DEF Retried
<1>3. Kept = Kept'
  BY <1>1, KeptParts
<1>4. Counted' = Counted + 0
  BY <1>1, BeforeShutdown
<1> QED
  BY <1>1, <1>2, <1>3, <1>4, LossKept, BeforeShutdown

LEMMA LossWorker ==
    ASSUME SafeInv, SafeInv', LossIsCounted, ~stop, Start \/ Top \/ Collect \/ Flush
    PROVE  LossIsCounted'
<1>1. CASE Start
  BY <1>1, LossGoto DEF Start, sends
<1>2. CASE Top
  BY <1>2, LossGoto DEF Top, sends
<1>3. CASE Collect
  <2>1. /\ At("worker", "get") /\ Take("worker", "top")
        /\ UNCHANGED <<offered, stopping, connected, received>>
    BY <1>3 DEF Collect, Take
  <2>2. PICK b \in Seq(Events) :
            /\ Elements(b) \cup Elements(queue') = Elements(batch["worker"]) \cup Elements(queue)
            /\ Alone("worker")
            /\ dropped_full' = dropped_full /\ failed_exports' = failed_exports
            /\ \/ Send("worker", b, "top")
               \/ /\ pc'["worker"] = "top" /\ batch'["worker"] = b
                  /\ watched' = watched
                  /\ dropped_serialization' = dropped_serialization
    BY <2>1, TakeTells, BeforeShutdown DEF SafeInv, Returns
  <2>3. CASE Send("worker", b, "top")
    BY <2>1, <2>2, <2>3, LossSend DEF At
  <2>4. CASE pc'["worker"] = "top" /\ batch'["worker"] = b /\ watched' = watched
             /\ dropped_serialization' = dropped_serialization
    <3>1. /\ shutdowns' = 0 /\ watched'["worker"] = 0 /\ offered' = offered /\ received' = received
          /\ pc'["drainer"] = "off" /\ batch'["drainer"] = batch["drainer"]
          /\ Counted' = Counted + 0
      BY <2>1, <2>2, <2>4, BeforeShutdown DEF Alone, stopping, Counted
    <3>2. Kept \subseteq Kept' \cup Retried \cup {} /\ Retried' = {}
      BY <2>2, <2>4, <3>1, KeptParts DEF Retried
    <3> QED
      BY <2>4, <3>1, <3>2, LossKept, BeforeShutdown
  <2> QED
    BY <2>2, <2>3, <2>4
<1>4. CASE Flush
  <2>1. /\ pc["worker"] = "get" /\ UNCHANGED <<offered, queue, stopping, connected, received>>
    BY <1>4 DEF Flush, At
  <2>2. CASE batch["worker"] = <<>>
    BY <1>4, <2>1, <2>2, LossGoto DEF Flush, sends
  <2>3. CASE batch["worker"] # <<>>
    BY <1>4, <2>1, <2>3, LossSend, BeforeShutdown DEF Flush
  <2> QED
    BY <2>2, <2>3
<1> QED
  BY <1>1, <1>2, <1>3, <1>4

\* The thread's send returns: what it gives up has been counted, or is now.
LEMMA LossReturned ==
    ASSUME SafeInv, SafeInv', LossIsCounted, ~stop, InSend("worker"), Done("worker"),
           offered' = offered, queue' = queue, UNCHANGED <<stopping, received>>,
           NEW X, IsFiniteSet(X), NEW n \in Nat, Cardinality(X) <= n,
           Elements(batch["worker"]) \subseteq Elements(received) \cup Retried \cup X,
           Counted' = Counted + n
    PROVE  LossIsCounted'
<1>1. /\ Alone("worker") /\ pc'["worker"] = then["worker"] /\ batch'["worker"] = <<>>
      /\ watched' = watched
  BY DoneTells, BeforeShutdown DEF SafeInv
<1>2. then["worker"] \in {"off", "top"}
  BY DEF SafeInv, TakeTurns
<1>3. /\ shutdowns' = 0 /\ watched'["worker"] = 0 /\ received' = received
      /\ pc'["drainer"] = "off" /\ batch'["drainer"] = batch["drainer"]
  BY <1>1, BeforeShutdown DEF Alone, stopping
<1>4. Kept \subseteq Kept' \cup Retried \cup X
  BY <1>3, KeptParts
<1>5. pc'["worker"] # "accepted" /\ Retried' = {}
  BY <1>1, <1>2 DEF Retried
<1> QED
  BY <1>3, <1>4, <1>5, LossKept

LEMMA LossSendStep ==
    ASSUME SafeInv, SafeInv', LossIsCounted, ~stop, SendStep("worker")
    PROVE  LossIsCounted'
<1>0. /\ dropped_full \in Nat /\ dropped_serialization \in Nat /\ failed_exports \in Nat
      /\ pc \in [Processes -> Places]
  BY DEF SafeInv, TypeOK, Places
<1>1. CASE Attempt("worker")
  BY <1>1, LossGoto, BeforeShutdown DEF Attempt
<1>2. CASE Accepted("worker")
  <2>1. /\ pc["worker"] = "request" /\ received' = received \o batch["worker"]
        /\ pc' = [pc EXCEPT !["worker"] = "accepted"]
        /\ UNCHANGED <<offered, queue, batch, watched, stopping, drops>>
    BY <1>2 DEF Accepted, Goto, At, sends
  <2>2. Elements(received') = Elements(received) \cup Elements(batch["worker"])
    BY <2>1, BeforeShutdown, ElementsConcat DEF SafeInv, TypeOK
  <2>3. /\ pc'["worker"] = "accepted" /\ pc'["drainer"] = "off"
        /\ shutdowns' = 0 /\ watched'["worker"] = 0 /\ batch' = batch /\ offered' = offered
        /\ Counted' = Counted + 0
    BY <1>0, <2>1, BeforeShutdown DEF stopping, drops, Counted
  <2>4. Kept \subseteq Kept' \cup Retried \cup {} /\ Retried' = {}
    BY <2>1, <2>2, <2>3, KeptParts DEF Retried
  <2> QED
    BY <2>2, <2>3, <2>4, LossKept, BeforeShutdown
<1>3. CASE Confirmed("worker")
  <2>1. /\ pc["worker"] = "accepted" /\ Done("worker")
        /\ UNCHANGED <<offered, queue, stopping, connected, received, drops>>
    BY <1>3 DEF Confirmed, At
  <2>2. Elements(batch["worker"]) \subseteq Elements(received) \cup Retried \cup {}
    BY <2>1 DEF LossIsCounted
  <2>3. Counted' = Counted + 0
    BY <1>0, <2>1 DEF Counted, drops
  <2> QED
    BY <2>1, <2>2, <2>3, LossReturned, BeforeShutdown DEF InSend, SendPlaces
<1>4. CASE Rejected("worker")
  <2>1. /\ pc["worker"] = "request" /\ Done("worker") /\ CountFailure("worker")
        /\ UNCHANGED <<offered, queue, stopping, connected, received>>
    BY <1>4 DEF Rejected, At
  <2>2. Counted' = Counted + Len(batch["worker"])
    <3>1. /\ dropped_full' = dropped_full /\ dropped_serialization' = dropped_serialization
          /\ Len(batch["worker"]) \in Nat /\ failed_exports' = failed_exports + Len(batch["worker"])
      BY <2>1, BeforeShutdown, FailureTells DEF SafeInv
    <3>2. PICK n \in Nat : n = Len(batch["worker"]) /\ failed_exports' = failed_exports + n
      BY <3>1
    <3>3. dropped_full + dropped_serialization + (failed_exports + n)
              = (dropped_full + dropped_serialization + failed_exports) + n
      BY <1>0
    <3>4. Counted' = dropped_full + dropped_serialization + (failed_exports + n)
      BY <3>1, <3>2 DEF Counted
    <3>5. Counted' = Counted + n
      BY <3>3, <3>4 DEF Counted
    <3> QED
      BY <3>2, <3>5
  <2> QED
    BY <2>1, <2>2, LossReturned, BeforeShutdown DEF InSend, SendPlaces
<1>5. CASE AttemptFails("worker")
  <2>1. /\ pc["worker"] \in {"request", "accepted"}
        /\ pc' = [pc EXCEPT !["worker"] = "backoff"] /\ CountFailure("worker")
        /\ UNCHANGED <<offered, queue, batch, watched, stopping, received>>
    BY <1>5 DEF AttemptFails, Sending, Goto, sends
  <2>2. Counted' = Counted + Len(batch["worker"])
    <3>1. /\ dropped_full' = dropped_full /\ dropped_serialization' = dropped_serialization
          /\ Len(batch["worker"]) \in Nat /\ failed_exports' = failed_exports + Len(batch["worker"])
      BY <2>1, BeforeShutdown, FailureTells DEF SafeInv
    <3>2. PICK n \in Nat : n = Len(batch["worker"]) /\ failed_exports' = failed_exports + n
      BY <3>1
    <3>3. dropped_full + dropped_serialization + (failed_exports + n)
              = (dropped_full + dropped_serialization + failed_exports) + n
      BY <1>0
    <3>4. Counted' = dropped_full + dropped_serialization + (failed_exports + n)
      BY <3>1, <3>2 DEF Counted
    <3>5. Counted' = Counted + n
      BY <3>3, <3>4 DEF Counted
    <3> QED
      BY <3>2, <3>5
  <2>3. /\ pc'["worker"] = "backoff" /\ pc'["drainer"] = "off"
        /\ shutdowns' = 0 /\ watched'["worker"] = 0 /\ offered' = offered
        /\ batch' = batch /\ received' = received /\ queue' = queue
    BY <1>0, <2>1, BeforeShutdown DEF stopping
  <2>4. Kept = Kept'
    BY <2>3, KeptParts
  <2>5. Retried' = Elements(batch["worker"])
    BY <2>3 DEF Retried, Elements
  <2> QED
    BY <2>2, <2>3, <2>4, <2>5, LossKept, BeforeShutdown
<1>6. CASE Backoff("worker")
  <2>1. /\ pc["worker"] = "backoff" /\ UNCHANGED <<offered, queue, stopping, connected, received, drops>>
    BY <1>6 DEF Backoff, At
  <2>2. Counted' = Counted + 0
    BY <1>0, <2>1 DEF Counted, drops
  <2>3. CASE Done("worker")
    <3>1. Elements(batch["worker"]) \subseteq Elements(received) \cup Retried \cup {}
      BY <2>1 DEF Retried
    <3> QED
      BY <2>1, <2>2, <2>3, <3>1, LossReturned, BeforeShutdown DEF InSend, SendPlaces
  <2>4. CASE ~Done("worker")
    BY <1>6, <2>1, <2>4, LossGoto DEF Backoff, sends
  <2> QED
    BY <2>3, <2>4
<1> QED
  BY <1>1, <1>2, <1>3, <1>4, <1>5, <1>6 DEF SendStep

\* A full queue counts the newest event.
LEMMA LossEnqueue ==
    ASSUME SafeInv, SafeInv', LossIsCounted, ~stop, Enqueue
    PROVE  LossIsCounted'
<1>1. /\ offered' = offered + 1 /\ offered \in Nat /\ offered' \in Events
      /\ pc' = pc /\ batch' = batch /\ watched' = watched /\ stop' = stop /\ shutdowns' = shutdowns
      /\ received' = received /\ failed_exports' = failed_exports
      /\ dropped_serialization' = dropped_serialization
      /\ dropped_full \in Nat /\ dropped_serialization \in Nat /\ failed_exports \in Nat
      /\ queue \in Seq(Events)
  BY SafeEnqueue DEF Enqueue, sends, stopping, SafeInv, TypeOK
<1>2. Retried' = Retried
  BY <1>1 DEF Retried, Elements
<1>3. 1..offered' = (1..offered) \cup {offered'}
  BY <1>1
<1>4. Cardinality((Lost \cup Retried)') <= Counted'
  <2>1. CASE Len(queue) < Capacity
    <3>1. queue' = Append(queue, offered') /\ dropped_full' = dropped_full
      BY <2>1 DEF Enqueue
    <3>2. Elements(queue') = Elements(queue) \cup {offered'}
      BY <1>1, <3>1, ElementsAppend
    <3>3. Kept' = Kept \cup {offered'}
      BY <1>1, <3>2, KeptParts
    <3>4. Lost' \subseteq Lost \cup Retried \cup {}
      BY <1>3, <3>3 DEF Lost, Kept
    <3>5. Counted' = Counted + 0
      BY <1>1, <3>1 DEF Counted
    <3>6. Retried' \subseteq Retried \cup {} /\ IsFiniteSet({}) /\ Cardinality({}) <= 0
      BY <1>2, BeforeShutdown
    <3> QED
      BY <3>4, <3>5, <3>6, StillCounted
  <2>2. CASE ~(Len(queue) < Capacity)
    <3>1. queue' = queue /\ dropped_full' = dropped_full + 1
      BY <2>2 DEF Enqueue
    <3>2. Kept' = Kept
      BY <1>1, <3>1, KeptParts
    <3>3. Lost' \subseteq Lost \cup Retried \cup {offered'}
      BY <1>3, <3>2 DEF Lost, Kept
    <3>4. Counted' = Counted + 1
      BY <1>1, <3>1 DEF Counted
    <3>5. IsFiniteSet({offered'}) /\ Cardinality({offered'}) = 1
      BY FS_Singleton
    <3> QED
      BY <1>2, <3>3, <3>4, <3>5, StillCounted
  <2> QED
    BY <2>1, <2>2
<1> QED
  BY <1>1, <1>4 DEF LossIsCounted, Elements

LEMMA LossStep ==
    ASSUME SafeInv, SafeInv', LossIsCounted, [Next]_vars
    PROVE  LossIsCounted'
<1> SUFFICES ASSUME ~stop'
             PROVE  LossIsCounted'
  BY DEF LossIsCounted
<1>1. CASE Shutdown
  BY <1>1 DEF Shutdown
<1>2. CASE Enqueue
  BY <1>2, LossEnqueue DEF Enqueue, stopping
<1>3. CASE Start \/ Top \/ Collect \/ Flush
  <2>1. ~stop
    BY <1>3 DEF Start, Top, Collect, Take, Flush, stopping
  <2> QED
    BY <1>3, <2>1, LossWorker
<1>4. CASE SendStep("worker")
  <2>1. ~stop
    BY <1>4 DEF SendStep, Attempt, Accepted, Confirmed, Rejected, AttemptFails, Backoff, stopping
  <2> QED
    BY <1>4, <2>1, LossSendStep
<1>5. CASE Joined \/ Drain \/ DrainEnds \/ Close \/ SendStep("drainer")
  <2>1. ~stop
    BY <1>5 DEF Joined, Drain, Take, DrainEnds, Close, SendStep, Attempt, Accepted, Confirmed,
                Rejected, AttemptFails, Backoff, stopping
  <2>2. pc["drainer"] = "off"
    BY <2>1, BeforeShutdown
  <2> QED
    BY <1>5, <2>2 DEF Joined, Drain, DrainEnds, Close, SendStep, Attempt, Accepted, Confirmed,
                      Rejected, AttemptFails, Backoff, At, Sending
<1>6. CASE Expire \/ UNCHANGED vars
  <2>1. /\ offered' = offered /\ pc' = pc /\ batch' = batch /\ watched' = watched
        /\ queue' = queue /\ received' = received /\ stop' = stop /\ shutdowns' = shutdowns
        /\ UNCHANGED drops
    BY <1>6 DEF Expire, vars, sends, stopping
  <2>2. Kept' = Kept /\ Retried' = Retried
    BY <2>1 DEF Kept, Waiting, Elements, Retried
  <2>3. Counted' = Counted + 0 /\ ~stop
    BY <2>1 DEF Counted, drops, SafeInv, TypeOK
  <2>4. Kept \subseteq Kept' \cup Retried \cup {} /\ Retried' \subseteq Retried \cup {}
    BY <2>2
  <2>5. /\ shutdowns' = 0 /\ watched'["worker"] = 0 /\ pc'["drainer"] = "off"
        /\ pc'["worker"] = "accepted" => Elements(batch'["worker"]) \subseteq Elements(received')
    BY <2>1, <2>3, BeforeShutdown DEF LossIsCounted
  <2> QED
    BY <2>1, <2>3, <2>4, <2>5, LossKept, BeforeShutdown
<1> QED
  BY <1>1, <1>2, <1>3, <1>4, <1>5, <1>6 DEF Next, Worker, Drainer

-----------------------------------------------------------------------------
(* The exporter is a channel                                               *)

\* Only p holds a batch.
Solo(p) == \A q \in Processes \ {p} : batch[q] = <<>>

\* The steps of the channel.
Channels == [Channel!Next]_(Channel!channel)

LEMMA HasItsTurn ==
    ASSUME SafeInv, NEW p \in Processes,
           \/ InSend(p)
           \/ p = "worker" /\ pc["worker"] \in {"top", "get"}
           \/ p = "drainer" /\ pc["drainer"] = "get"
    PROVE  Solo(p)
BY DEF SafeInv, TakeTurns, Solo, InSend, SendPlaces, Processes

\* What waits is p's batch, then the queue.
LEMMA WaitingFrom ==
    ASSUME SafeInv, SafeInv', NEW p \in Processes, Solo(p), Alone(p)
    PROVE  /\ batch[p] \in Seq(Events) /\ queue \in Seq(Events)
           /\ batch'[p] \in Seq(Events) /\ queue' \in Seq(Events)
           /\ Waiting = batch[p] \o queue
           /\ Waiting' = batch'[p] \o queue'
<1>1. /\ batch \in [Processes -> Seq(Events)] /\ queue \in Seq(Events)
      /\ batch' \in [Processes -> Seq(Events)] /\ queue' \in Seq(Events)
  BY DEF SafeInv, TypeOK
<1>2. /\ \A q \in Processes \ {p} : batch[q] = <<>> /\ batch'[q] = <<>>
      /\ batch[p] \in Seq(Events) /\ batch'[p] \in Seq(Events)
  BY <1>1 DEF Solo, Alone
<1>3. CASE p = "worker"
  <2>1. /\ batch["drainer"] = <<>> /\ batch'["drainer"] = <<>>
        /\ batch["worker"] \o <<>> = batch["worker"] /\ batch'["worker"] \o <<>> = batch'["worker"]
    BY <1>2, <1>3, ConcatEmptySeq DEF Processes
  <2> QED
    BY <1>1, <1>2, <1>3, <2>1 DEF Waiting
<1>4. CASE p = "drainer"
  <2>1. /\ batch["worker"] = <<>> /\ batch'["worker"] = <<>>
        /\ <<>> \o batch["drainer"] = batch["drainer"] /\ <<>> \o batch'["drainer"] = batch'["drainer"]
    BY <1>2, <1>4, ConcatEmptySeq DEF Processes
  <2> QED
    BY <1>1, <1>2, <1>4, <2>1 DEF Waiting
<1> QED
  BY <1>3, <1>4 DEF Processes

LEMMA Stutters ==
    ASSUME Waiting' = Waiting, received' = received, deliveries' = deliveries
    PROVE  Channels
BY DEF Channels, Channel!channel

\* The batch b leaves: the channel retires its oldest events.
LEMMA Retires ==
    ASSUME SafeInv, SafeInv', NEW p \in Processes, Solo(p), Alone(p),
           NEW b \in Seq(Events), b # <<>>, batch[p] \o queue = b \o queue',
           batch'[p] = <<>>, received' = received, deliveries' = 0
    PROVE  Channels
<1>1. Waiting = b \o queue' /\ Waiting' = <<>> \o queue' /\ queue' \in Seq(Events)
  BY WaitingFrom
<1>2. Waiting' = queue'
  BY <1>1, ConcatEmptySeq
<1>3. /\ Len(b) \in Nat \ {0} /\ Len(queue') \in Nat /\ Len(Waiting) = Len(b) + Len(queue')
  BY <1>1, EmptySeq, Concatenation
<1>4. SubSeq(Waiting, Len(b) + 1, Len(Waiting)) = queue'
  BY <1>1, Parts
<1>5. Len(b) \in 1..Len(Waiting)
  BY <1>3
<1>6. Channel!Retire(Len(b))
  BY <1>2, <1>4 DEF Channel!Retire
<1> QED
  BY <1>5, <1>6 DEF Channels, Channel!Next

\* The batch b is p's, from what p had and the head of the queue.
LEMMA BatchStays ==
    ASSUME SafeInv, SafeInv', NEW p \in Processes, Solo(p), Alone(p),
           NEW b, batch[p] \o queue = b \o queue', batch'[p] = b,
           received' = received, deliveries' = deliveries
    PROVE  Channels
BY WaitingFrom, Stutters

LEMMA NobodySends ==
    ASSUME SafeInv, \A p \in Processes : ~InSend(p)
    PROVE  deliveries = 0
BY DEF SafeInv, AttemptsFit

LEMMA ChannelSend ==
    ASSUME SafeInv, SafeInv', NEW p \in Processes, NEW b \in Seq(Events), NEW l \in Returns,
           Send(p, b, l), Solo(p), \A q \in Processes : ~InSend(q),
           b # <<>>, batch[p] \o queue = b \o queue', received' = received
    PROVE  Channels
<1>1. Alone(p) /\ deliveries' = deliveries /\ (batch'[p] = <<>> \/ batch'[p] = b)
  BY SendTells DEF SafeInv
<1>2. deliveries = 0
  BY NobodySends
<1>3. CASE batch'[p] = <<>>
  BY <1>1, <1>2, <1>3, Retires
<1>4. CASE batch'[p] = b
  BY <1>1, <1>4, BatchStays
<1> QED
  BY <1>1, <1>3, <1>4

LEMMA ChannelTake ==
    ASSUME SafeInv, SafeInv', NEW p \in Processes, NEW l \in {"top", "get"}, Take(p, l),
           Solo(p), \A q \in Processes : ~InSend(q)
    PROVE  Channels
<1>1. PICK b \in Seq(Events) :
          /\ b # <<>> /\ b \o queue' = batch[p] \o queue
          /\ Alone(p) /\ deliveries' = deliveries
          /\ Send(p, b, l) \/ batch'[p] = b
  BY TakeTells DEF SafeInv, Returns
<1>2. received' = received
  BY DEF Take
<1>3. CASE Send(p, b, l)
  BY <1>1, <1>2, <1>3, ChannelSend DEF Returns
<1>4. CASE batch'[p] = b
  BY <1>1, <1>2, <1>4, BatchStays
<1> QED
  BY <1>1, <1>3, <1>4

LEMMA ChannelDone ==
    ASSUME SafeInv, SafeInv', NEW p \in Processes, InSend(p), Done(p),
           queue' = queue, received' = received
    PROVE  Channels
<1>1. Alone(p) /\ batch'[p] = <<>> /\ deliveries' = 0
  BY DoneTells DEF SafeInv
<1>2. batch[p] # <<>> /\ batch[p] \in Seq(Events) /\ Solo(p)
  BY HasItsTurn DEF SafeInv, BatchesFit, TypeOK
<1> QED
  BY <1>1, <1>2, Retires

LEMMA ChannelSendStep ==
    ASSUME SafeInv, SafeInv', NEW p \in Processes, SendStep(p)
    PROVE  Channels
<1>1. CASE Attempt(p) \/ Backoff(p)
  <2>1. /\ InSend(p) /\ queue' = queue /\ received' = received
        /\ Done(p) \/ (batch' = batch /\ deliveries' = deliveries)
    BY <1>1 DEF Attempt, Backoff, At, InSend, SendPlaces
  <2> QED
    BY <2>1, ChannelDone, Stutters DEF Waiting
<1>2. CASE Confirmed(p) \/ Rejected(p)
  BY <1>2, ChannelDone DEF Confirmed, Rejected, At, InSend, SendPlaces
<1>3. CASE AttemptFails(p)
  BY <1>3, Stutters DEF AttemptFails, Waiting
<1>4. CASE Accepted(p)
  <2>1. /\ InSend(p) /\ deliveries < attempts[p] /\ attempts[p] <= MaxRetries
        /\ deliveries \in Nat /\ attempts[p] \in Nat /\ MaxRetries \in Nat
        /\ batch[p] # <<>>
    BY <1>4, ExporterAssumption
    DEF Accepted, At, InSend, SendPlaces, SafeInv, AttemptsFit, BatchesFit, TypeOK
  <2>2. /\ received' = received \o batch[p] /\ deliveries' = deliveries + 1
        /\ pc' = [pc EXCEPT ![p] = "accepted"]
        /\ UNCHANGED <<queue, batch, sends>>
    BY <1>4 DEF Accepted, Goto
  <2>3. Solo(p) /\ Alone(p) /\ Waiting' = Waiting
    BY <2>1, <2>2, HasItsTurn DEF Alone, sends, Waiting, SafeInv, TypeOK
  <2>4. Waiting = batch[p] \o queue /\ batch[p] \in Seq(Events) /\ queue \in Seq(Events)
    BY <2>3, WaitingFrom
  <2>5. SubSeq(Waiting, 1, Len(batch[p])) = batch[p]
    BY <2>4, Parts
  <2>6. Len(batch[p]) \in 1..Len(Waiting)
    <3>1. /\ Len(batch[p]) \in Nat \ {0} /\ Len(queue) \in Nat
          /\ Len(Waiting) = Len(batch[p]) + Len(queue)
      BY <2>1, <2>4, EmptySeq, Concatenation
    <3> QED
      BY <3>1
  <2>7. Channel!Deliver(Len(batch[p]))
    BY <2>1, <2>2, <2>3, <2>5 DEF Channel!Deliver
  <2> QED
    BY <2>6, <2>7 DEF Channels, Channel!Next
<1> QED
  BY <1>1, <1>2, <1>3, <1>4 DEF SendStep

LEMMA ChannelEnqueue ==
    ASSUME SafeInv, SafeInv', Enqueue
    PROVE  Channels
<1>1. /\ batch' = batch /\ received' = received /\ deliveries' = deliveries
      /\ offered' \in Events /\ queue \in Seq(Events)
      /\ batch["worker"] \in Seq(Events) /\ batch["drainer"] \in Seq(Events)
  BY SafeEnqueue DEF Enqueue, SafeInv, TypeOK, Processes
<1>2. CASE ~(Len(queue) < Capacity)
  <2>1. queue' = queue
    BY <1>2 DEF Enqueue
  <2> QED
    BY <1>1, <2>1, Stutters DEF Waiting
<1>3. CASE Len(queue) < Capacity
  <2>1. queue' = Append(queue, offered')
    BY <1>3 DEF Enqueue
  <2>2. PICK held \in Seq(Events) :
            /\ held = batch["worker"] \o batch["drainer"]
            /\ Len(held) = Len(batch["worker"]) + Len(batch["drainer"])
    BY <1>1, Concatenation
  <2>3. Waiting = held \o queue /\ Waiting' = held \o queue'
    BY <1>1, <2>2 DEF Waiting
  <2>4. /\ Len(Waiting) = Len(held) + Len(queue) /\ Waiting \in Seq(Events)
        /\ Len(queue) \in Nat /\ Len(held) \in Nat
    BY <1>1, <2>3, Concatenation
  <2>5. Len(held) <= BatchSize
    <3>1. Len(batch["worker"]) = 0 \/ Len(batch["drainer"]) = 0
      BY ElementsEmpty DEF SafeInv, TakeTurns
    <3>2. Len(batch["worker"]) <= BatchSize /\ Len(batch["drainer"]) <= BatchSize
      BY DEF SafeInv, BatchesFit, Processes
    <3>3. Len(batch["worker"]) \in Nat /\ Len(batch["drainer"]) \in Nat /\ BatchSize \in Nat
      BY <1>1, LenProperties, ExporterAssumption
    <3>4. PICK m \in Nat, n \in Nat :
              Len(held) = m + n /\ (m = 0 \/ n = 0) /\ m <= BatchSize /\ n <= BatchSize
      BY <2>2, <3>1, <3>2, <3>3, Zenon
    <3> QED
      BY <3>3, <3>4
  <2>6. Len(Waiting) < Capacity + BatchSize
    <3>1. Capacity \in Nat /\ BatchSize \in Nat
      BY ExporterAssumption
    <3> QED
      BY <1>3, <2>4, <2>5, <3>1
  <2>7. Waiting' = Append(Waiting, offered')
    <3>1. queue' = queue \o <<offered'>> /\ <<offered'>> \in Seq(Events)
      BY <1>1, <2>1, AppendIsConcat
    <3>2. \A e \in Seq(Events) : held \o (queue \o e) = (held \o queue) \o e
      <4> TAKE e \in Seq(Events)
      <4> QED
        BY <1>1, ConcatAssociative, SMTT(30)
    <3>3. Append(Waiting, offered') = Waiting \o <<offered'>>
      BY <1>1, <2>4, AppendIsConcat
    <3> QED
      BY <2>3, <3>1, <3>2, <3>3
  <2>8. Channel!Accept(offered')
    BY <1>1, <2>6, <2>7 DEF Channel!Accept
  <2> QED
    BY <1>1, <2>8 DEF Channels, Channel!Next, Events
<1> QED
  BY <1>2, <1>3

LEMMA ChannelStep ==
    ASSUME SafeInv, SafeInv', [Next]_vars
    PROVE  Channels
<1>0. "worker" \in Processes /\ "drainer" \in Processes
      /\ batch["worker"] \in Seq(Events) /\ batch["drainer"] \in Seq(Events)
  BY DEF Processes, SafeInv, TypeOK
<1>1. CASE Enqueue
  BY <1>1, ChannelEnqueue
<1>2. CASE Start \/ Shutdown \/ Joined \/ Close \/ Expire \/ UNCHANGED vars
  BY <1>2, Stutters DEF Start, Shutdown, Joined, Close, Expire, vars, Waiting
<1>3. CASE Top
  <2>1. /\ pc["worker"] = "top" /\ queue' = queue /\ received' = received
        /\ \/ batch' = batch /\ deliveries' = deliveries
           \/ Send("worker", batch["worker"], "off") /\ batch["worker"] # <<>>
    BY <1>3 DEF Top, At
  <2>2. CASE batch' = batch /\ deliveries' = deliveries
    BY <2>1, <2>2, Stutters DEF Waiting
  <2>3. CASE Send("worker", batch["worker"], "off") /\ batch["worker"] # <<>>
    BY <1>0, <2>1, <2>3, ChannelSend, HasItsTurn, WorkerTurn DEF Returns
  <2> QED
    BY <2>1, <2>2, <2>3
<1>4. CASE Flush
  <2>1. /\ pc["worker"] = "get" /\ queue' = queue /\ received' = received
        /\ \/ batch' = batch /\ deliveries' = deliveries
           \/ Send("worker", batch["worker"], "top") /\ batch["worker"] # <<>>
    BY <1>4 DEF Flush, At
  <2>2. CASE batch' = batch /\ deliveries' = deliveries
    BY <2>1, <2>2, Stutters DEF Waiting
  <2>3. CASE Send("worker", batch["worker"], "top") /\ batch["worker"] # <<>>
    BY <1>0, <2>1, <2>3, ChannelSend, HasItsTurn, WorkerTurn DEF Returns
  <2> QED
    BY <2>1, <2>2, <2>3
<1>5. CASE Collect
  BY <1>0, <1>5, ChannelTake, HasItsTurn, WorkerTurn DEF Collect, At
<1>6. CASE Drain
  BY <1>0, <1>6, ChannelTake, HasItsTurn, DrainerTurn DEF Drain, At
<1>7. CASE DrainEnds
  <2>1. pc["drainer"] = "get" /\ queue' = queue /\ received' = received
    BY <1>7 DEF DrainEnds, At
  <2>2. Solo("drainer") /\ deliveries = 0
    BY <1>0, <2>1, HasItsTurn, DrainerTurn, NobodySends
  <2>3. CASE batch["drainer"] # <<>> /\ ~Late(shutdowns)
    <3>1. Send("drainer", batch["drainer"], "close")
      BY <1>7, <2>3 DEF DrainEnds
    <3> QED
      BY <1>0, <2>1, <2>2, <2>3, <3>1, ChannelSend, DrainerTurn DEF Returns
  <2>4. CASE ~(batch["drainer"] # <<>> /\ ~Late(shutdowns))
    <3>1. /\ batch' = [batch EXCEPT !["drainer"] = <<>>] /\ pc' = [pc EXCEPT !["drainer"] = "close"]
          /\ deliveries' = deliveries /\ UNCHANGED sends
      BY <1>7, <2>4 DEF DrainEnds, Goto
    <3>2. Alone("drainer") /\ batch'["drainer"] = <<>>
      BY <1>0, <3>1 DEF Alone, sends, SafeInv, TypeOK
    <3>3. CASE batch["drainer"] = <<>>
      BY <1>0, <2>1, <2>2, <3>1, <3>2, <3>3, BatchStays
    <3>4. CASE batch["drainer"] # <<>>
      BY <1>0, <2>1, <2>2, <3>1, <3>2, <3>4, Retires
    <3> QED
      BY <3>3, <3>4
  <2> QED
    BY <2>3, <2>4
<1>8. CASE SendStep("worker") \/ SendStep("drainer")
  BY <1>0, <1>8, ChannelSendStep
<1> QED
  BY <1>1, <1>2, <1>3, <1>4, <1>5, <1>6, <1>7, <1>8 DEF Next, Worker, Drainer

-----------------------------------------------------------------------------
(* Theorems                                                                *)

THEOREM ExporterInvariant == Spec => []ExporterInv
<1>1. Init => ExporterInv
  <2> SUFFICES ASSUME Init
               PROVE  ExporterInv
    OBVIOUS
  <2>1. SafeInv
    BY SafeInit
  <2>2. Lost = {} /\ Retried = {}
    <3>1. offered = 0 /\ pc["worker"] = "off"
      BY DEF Init, Processes
    <3> QED
      BY <3>1 DEF Lost, Retried
  <2>3. LossIsCounted
    <3>1. Lost \cup Retried = {}
      BY <2>2
    <3>2. Cardinality(Lost \cup Retried) = 0
      BY <3>1, FS_EmptySet
    <3> QED
      BY <3>2 DEF Init, LossIsCounted, Counted, Processes
  <2> QED
    BY <2>1, <2>3 DEF ExporterInv, SafeInv
<1>2. ExporterInv /\ [Next]_vars => ExporterInv'
  BY SafeStep, LossStep DEF ExporterInv, SafeInv
<1> QED
  BY <1>1, <1>2, PTL DEF Spec

\* The shutdown that waits for the thread before it drains keeps the two off
\* each other's connection (ExportWorker.shutdown).
THEOREM SenderIsUsedByOne == Spec => []OneSender
<1>1. ExporterInv => OneSender
  BY DEF ExporterInv, TakeTurns, OneSender, Sending, Processes, SendPlaces
<1> QED
  BY <1>1, ExporterInvariant, PTL

\* Until shutdown, what is neither waiting nor delivered is in a counter
\* (EventQueue.put, _send_with_backoff).
THEOREM LossesAreCounted == Spec => []NoSilentLoss
<1>1. ExporterInv => NoSilentLoss
  <2> SUFFICES ASSUME ExporterInv, ~stop
               PROVE  Cardinality(Lost) <= Counted
    BY DEF NoSilentLoss, Lost, Counted
  <2>1. SafeInv /\ LossIsCounted
    BY DEF ExporterInv, SafeInv
  <2>2. IsFiniteSet(Lost \cup Retried)
    <3>1. offered \in Nat /\ batch["worker"] \in Seq(Events)
      BY <2>1 DEF SafeInv, TypeOK, Processes
    <3>2. IsFiniteSet(Retried)
      BY <3>1, ElementsCounted, FS_EmptySet DEF Retried
    <3> QED
      <4>1. IsFiniteSet(1..offered) /\ Lost \subseteq 1..offered
        BY <3>1, FS_Interval DEF Lost
      <4> QED
        BY <3>2, <4>1, FS_Subset, FS_Union
  <2>3. Cardinality(Lost) <= Cardinality(Lost \cup Retried)
        /\ Cardinality(Lost) \in Nat /\ Cardinality(Lost \cup Retried) \in Nat
    BY <2>2, FS_Subset, FS_CardinalityType
  <2>4. Cardinality(Lost \cup Retried) <= Counted /\ Counted \in Nat
    BY <2>1 DEF LossIsCounted, Counted, SafeInv, TypeOK
  <2> QED
    BY <2>3, <2>4
<1> QED
  BY <1>1, ExporterInvariant, PTL

\* Whatever the threads do, the exporter delivers events from the front, in the
\* order they were offered, and a batch at most MaxRetries times.
THEOREM ExporterIsAChannel == Spec => ImplementsChannel
<1>1. Init => Channel!Init
  <2> SUFFICES ASSUME Init
               PROVE  Channel!Init
    OBVIOUS
  <2>1. /\ queue = <<>> /\ batch["worker"] = <<>> /\ batch["drainer"] = <<>>
        /\ received = <<>> /\ deliveries = 0
    BY DEF Init, Processes
  <2>2. <<>> \o <<>> = <<>>
    BY ElementsEmpty, ConcatEmptySeq
  <2>3. Waiting = <<>>
    BY <2>1, <2>2 DEF Waiting
  <2> QED
    BY <2>1, <2>3 DEF Channel!Init
<1>2. ExporterInv /\ ExporterInv' /\ [Next]_vars => [Channel!Next]_(Channel!channel)
  <2> SUFFICES ASSUME ExporterInv, ExporterInv', [Next]_vars
               PROVE  [Channel!Next]_(Channel!channel)
    OBVIOUS
  <2>1. SafeInv /\ SafeInv'
    BY DEF ExporterInv, SafeInv
  <2> QED
    BY <2>1, ChannelStep DEF Channels
<1> QED
  BY <1>1, <1>2, ExporterInvariant, PTL DEF Spec, ImplementsChannel, Channel!Spec
================================================================================
