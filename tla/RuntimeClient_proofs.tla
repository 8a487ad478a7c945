------------------------ MODULE RuntimeClient_proofs ------------------------
(* What holds of every set of spans and users, in whatever order spans start *)
(* and end and wherever shutdown comes in between.                           *)
EXTENDS RuntimeClient, FiniteSetTheorems, SequenceTheorems, TLAPS

Beginning == {"announce", "starting", "started"}
Ending == {"closing", "finishing", "finished"}

Actors == Spans \cup Users

\* Who begins or ends a run has one.
BusyHaveRun == \A p \in Processes : at[p] \in Beginning \cup Ending => run[p] # NoRun

\* A span is registered from its start to its end, unless it began earlier.
SpansPlaced ==
    /\ \A s \in Spans :
           /\ at[s] # "out"
           /\ at[s] \in Beginning \cup {"open"} <=> span_to_run[s] # NoRun
           /\ at[s] \in {"new", "unseen"} => run[s] = NoRun
           /\ at[s] \in Beginning => s \in span_to_run_started
    /\ \A s \in span_to_run_started : span_to_run[s] = s
    /\ \A s \in Spans : span_to_run[s] # NoRun => run[s] = span_to_run[s]

\* Where a user can be, and whose run it owns.
UsersPlaced ==
    \A u \in Users :
        /\ at[u] \in {"out", "starting", "started", "open", "finishing", "finished", "ended"}
        /\ at[u] = "out" => run[u] = NoRun /\ u \notin owners
        /\ at[u] \in Beginning \cup Ending \/ u \in owners => run[u] = Name[u]
        /\ at[u] \in Ending => u \in owners

\* The span or the user that a run is named by has it.
Held(r) == \/ r \in Spans /\ run[r] = r
           \/ \E u \in Users : Name[u] = r /\ run[u] = r

RunsHeld ==
    /\ \A p \in Actors : run[p] # NoRun => Held(run[p])
    /\ \A t \in Traces : trace_to_run[t] # NoRun => Held(trace_to_run[t])

\* All spans of a trace of which none was missed have the trace's run. When the
\* root has ended it is the root's.
TracesKept ==
    \A t \in Traces \ missed :
        /\ \A s \in Spans : Trace[s] = t /\ span_to_run[s] # NoRun =>
               span_to_run[s] = trace_to_run[t]
        /\ t \in trace_root_ended =>
               /\ trace_to_run[t] \in Spans /\ Trace[trace_to_run[t]] = t
               /\ at[trace_to_run[t]] = "ended"

\* Runs that no longer are open and runs that are, without repetition.
RunsApart ==
    /\ \A i, j \in DOMAIN ended_runs : ended_runs[i] = ended_runs[j] => i = j
    /\ \A i \in DOMAIN ended_runs : ended_runs[i] \notin started_runs

RuntimeInv ==
    TypeOK /\ BusyHaveRun /\ SpansPlaced /\ UsersPlaced /\ RunsHeld /\ TracesKept /\ RunsApart /\ SpansCounted

\* The only actor that a run is named by.
Names(o, r) == \/ o \in Spans /\ r = o
               \/ o \in Users /\ r = Name[o] /\ \A u \in Users : Name[u] = r => u = o

\* Who is about to end a run, and what will once make somebody end it.
IsEnder(p, r) == run[p] = r /\ at[p] \in Ending

WillEnd(o) ==
    \/ o \in Users /\ at[o] = "open" /\ run[o] = Name[o]
    \/ o \in span_to_run_started /\ at[o] = "open"
    \/ o \in Spans /\ Trace[o] \in trace_root_ended /\ trace_to_run[Trace[o]] = o

Nothing == <<>>
Begun == <<"start">>
Over == <<"start", "end">>

\* A run is queued as started by the one that it is named by, and as ended by
\* one actor after that.
Paired(o, r) ==
    /\ log[r] \in {Nothing, Begun, Over}
    /\ run[o] # r => log[r] = Nothing /\ r \notin started_runs
    /\ run[o] = r /\ at[o] \in {"announce", "starting"} => log[r] = Nothing /\ r \notin started_runs
    /\ run[o] = r /\ at[o] = "started" => log[r] = Nothing
    /\ WillEnd(o) => log[r] = Begun /\ \A p \in Actors : ~IsEnder(p, r)
    /\ \A p \in Actors : IsEnder(p, r) =>
           /\ log[r] = Begun /\ (o \in Users => p = o)
           /\ \A q \in Actors : IsEnder(q, r) => q = p

AllPaired ==
    client = "live" =>
        \A o \in Actors, r \in Runs : Names(o, r) /\ Undisturbed(r) => Paired(o, r)

CloserIdle == client \in {"live", "closing"} => at[Closer] = "ended"

\* What shutdown collected, or is just ending.
InHand == open_runs \cup (IF at[Closer] = "finishing" THEN {run[Closer]} ELSE {})

OpenInHand == client = "collected" => started_runs \subseteq late \cup InHand

\* What is not yet queued is at most what the client counts as begun.
About(r, l) == {p \in Processes : at[p] = l /\ run[p] = r}

Balanced(r) ==
    Queued(r, "start") + Cardinality(About(r, "started")) <=
        Queued(r, "end") + Cardinality(About(r, "finished")) + (IF r \in started_runs THEN 1 ELSE 0)

AllBalanced == client \notin {"draining", "down"} => \A r \in Runs : Balanced(r)

-----------------------------------------------------------------------------
(* Types.                                                                  *)

\* Or falls back when there is no run.
LEMMA OrType ==
    ASSUME NEW R, NEW r \in R \cup {NoRun}, NEW q \in R \cup {NoRun}
    PROVE  /\ Or(r, q) \in R \cup {NoRun}
           /\ q \in R => Or(r, q) \in R
BY DEF Or

\* Nothing of the order of ended runs but the run itself is lost.
LEMMA WithoutEndedType ==
    ASSUME TypeOK, NEW r
    PROVE  /\ WithoutEnded(r) \in Seq(Runs)
           /\ Len(WithoutEnded(r)) <= Len(ended_runs)
           /\ \A i \in DOMAIN WithoutEnded(r) : \E j \in DOMAIN ended_runs :
                  WithoutEnded(r)[i] = ended_runs[j]
<1>0. ended_runs \in Seq(Runs) /\ Len(ended_runs) \in Nat
      /\ DOMAIN ended_runs = 1..Len(ended_runs) /\ \A j \in 1..Len(ended_runs) : ended_runs[j] \in Runs
  BY DEF TypeOK
<1>1. CASE ~Ended(r)
  BY <1>0, <1>1 DEF WithoutEnded
<1>2. CASE Ended(r)
  <2>1. PICK i \in DOMAIN ended_runs : i = CHOOSE j \in DOMAIN ended_runs : ended_runs[j] = r
    BY <1>2 DEF Ended
  <2> DEFINE n == Len(ended_runs) - 1
             s == [j \in 1..n |-> ended_runs[IF j < i THEN j ELSE j + 1]]
  <2>2. WithoutEnded(r) = s
    BY <1>2, <2>1 DEF WithoutEnded
  <2>3. n \in Nat /\ \A j \in 1..n : (IF j < i THEN j ELSE j + 1) \in 1..Len(ended_runs)
    BY <1>0, <2>1
  <2>4. \A j \in 1..n : s[j] \in Runs
    BY <1>0, <2>3
  <2>5. s \in Seq(Runs) /\ Len(s) = n /\ DOMAIN s = 1..n
    BY <2>3, <2>4
  <2> QED
    BY <1>0, <2>2, <2>3, <2>5
<1> QED
  BY <1>1, <1>2

LEMMA RunTypes ==
    /\ \A s \in Spans : s \in Runs /\ s \in Processes /\ Trace[s] \in Traces
    /\ \A u \in Users : Name[u] \in Runs /\ u \in Processes
    /\ Closer \in Processes /\ NoRun \notin Runs
BY RuntimeAssumption DEF Runs, Processes, Traces

LEMMA TypeInit == Init => TypeOK
<1> SUFFICES ASSUME Init PROVE TypeOK
  OBVIOUS
<1>1. /\ trace_to_run \in [Traces -> Runs \cup {NoRun}]
      /\ span_to_run \in [Spans -> Runs \cup {NoRun}]
      /\ trace_active_counts \in [Traces -> Nat]
      /\ run \in [Processes -> Runs \cup {NoRun}]
      /\ log \in [Runs -> Seq({"start", "end"})]
  BY DEF Init
<1>2. at \in [Processes -> Places]
  BY DEF Init, Places
<1>3. ended_runs \in Seq(Runs) /\ Len(ended_runs) <= EndedCap
  BY RuntimeAssumption DEF Init
<1> QED
  BY <1>1, <1>2, <1>3 DEF Init, TypeOK

LEMMA TypeStep == TypeOK /\ BusyHaveRun /\ [Next]_vars => TypeOK'
<1> SUFFICES ASSUME TypeOK, BusyHaveRun, [Next]_vars PROVE TypeOK'
  OBVIOUS
<1> USE RunTypes, RuntimeAssumption
<1> USE DEF Goto, At, registry, runs
<1>1. ASSUME NEW s \in Spans, StartSpan(s)
      PROVE  TypeOK'
  <2>1. ActiveRun(s) \in Runs \cup {NoRun}
    BY DEF ActiveRun, TypeOK
  <2>2. PICK r \in Runs :
           /\ span_to_run' = [span_to_run EXCEPT ![s] = r]
           /\ run' = [run EXCEPT ![s] = r]
           /\ trace_to_run' \in {trace_to_run, [trace_to_run EXCEPT ![Trace[s]] = r]}
    <3> DEFINE inherited == IF Parent[s] \in Spans THEN span_to_run[Parent[s]] ELSE NoRun
               known == Or(trace_to_run[Trace[s]], inherited)
               r == Or(known, Or(ActiveRun(s), s))
    <3>1. known \in Runs \cup {NoRun}
      BY OrType DEF TypeOK
    <3>2. r \in Runs
      <4>1. Or(ActiveRun(s), s) \in Runs
        BY <2>1, OrType
      <4> QED
        BY <3>1, <4>1, OrType
    <3> QED
      BY <1>1, <3>2 DEF StartSpan, Register
  <2>3. /\ trace_active_counts' = [trace_active_counts EXCEPT ![Trace[s]] = @ + 1]
        /\ span_to_run_started' \in {span_to_run_started, span_to_run_started \cup {s}}
        /\ at' \in {[at EXCEPT ![s] = "announce"], [at EXCEPT ![s] = "open"]}
        /\ UNCHANGED <<trace_root_ended, started_runs, ended_runs, client, open_runs, owners, log,
                       missed, late>>
    BY <1>1 DEF StartSpan, Register
  <2>4. at' \in [Processes -> Places]
    BY <2>3 DEF TypeOK, Places
  <2>5. span_to_run' \in [Spans -> Runs \cup {NoRun}] /\ run' \in [Processes -> Runs \cup {NoRun}]
    <3>1. span_to_run' = [span_to_run EXCEPT ![s] = r] /\ run' = [run EXCEPT ![s] = r]
      BY <2>2
    <3>2. span_to_run \in [Spans -> Runs \cup {NoRun}] /\ run \in [Processes -> Runs \cup {NoRun}]
      BY DEF TypeOK
    <3> QED
      BY <3>1, <3>2
  <2>6. trace_to_run' \in [Traces -> Runs \cup {NoRun}]
    <3>1. trace_to_run \in [Traces -> Runs \cup {NoRun}]
      BY DEF TypeOK
    <3> QED
      BY <2>2, <3>1
  <2>7. trace_active_counts' \in [Traces -> Nat]
    BY <2>3 DEF TypeOK
  <2> QED
    BY <2>3, <2>4, <2>5, <2>6, <2>7 DEF TypeOK
<1>2. ASSUME NEW s \in Spans, Attach(s)
      PROVE  TypeOK'
  BY <1>2 DEF Attach, Register, TypeOK, Places
<1>3. ASSUME NEW s \in Spans, EndSpan(s)
      PROVE  TypeOK'
  <2>1. ActiveRun(s) \in Runs \cup {NoRun}
    BY DEF ActiveRun, TypeOK
  <2>2. PICK r \in Runs : run' = [run EXCEPT ![s] = r]
    <3>1. Or(ActiveRun(s), s) \in Runs
      BY <2>1, OrType
    <3>2. Or(span_to_run[s], trace_to_run[Trace[s]]) \in Runs \cup {NoRun}
      BY OrType DEF TypeOK
    <3> DEFINE r == Or(Or(span_to_run[s], trace_to_run[Trace[s]]), Or(ActiveRun(s), s))
    <3>3. r \in Runs
      BY <3>1, <3>2, OrType
    <3>4. run' = [run EXCEPT ![s] = r]
      BY <1>3 DEF EndSpan
    <3> QED
      BY <3>3, <3>4
  <2>3. PICK left \in Nat : trace_active_counts' = [trace_active_counts EXCEPT ![Trace[s]] = left]
    <3> DEFINE n == IF trace_active_counts[Trace[s]] = 0 THEN 0 ELSE trace_active_counts[Trace[s]] - 1
    <3>1. n \in Nat
      BY DEF TypeOK
    <3> QED
      BY <1>3, <3>1 DEF EndSpan, Forget
  <2>4. trace_to_run' \in {trace_to_run, [trace_to_run EXCEPT ![Trace[s]] = NoRun]}
    BY <1>3 DEF EndSpan, Forget
  <2>5. trace_root_ended' \subseteq trace_root_ended \cup {Trace[s]}
    BY <1>3 DEF EndSpan, Forget
  <2>6. /\ span_to_run' = [span_to_run EXCEPT ![s] = NoRun]
        /\ span_to_run_started' = span_to_run_started \ {s}
        /\ missed' \in {missed, missed \cup {Trace[s]}}
        /\ at' \in {[at EXCEPT ![s] = "closing"], [at EXCEPT ![s] = "ended"]}
        /\ UNCHANGED <<started_runs, ended_runs, client, open_runs, owners, log, late>>
    BY <1>3 DEF EndSpan, Unregister
  <2>7. at' \in [Processes -> Places]
    BY <2>6 DEF TypeOK, Places
  <2>8. span_to_run' \in [Spans -> Runs \cup {NoRun}] /\ run' \in [Processes -> Runs \cup {NoRun}]
    BY <2>2, <2>6 DEF TypeOK
  <2>9. trace_to_run' \in [Traces -> Runs \cup {NoRun}]
    BY <2>4 DEF TypeOK
  <2>10. trace_active_counts' \in [Traces -> Nat]
    BY <2>3 DEF TypeOK
  <2>11. trace_root_ended' \subseteq Traces /\ missed' \subseteq Traces
         /\ span_to_run_started' \subseteq Spans
    BY <2>5, <2>6 DEF TypeOK
  <2> QED
    BY <2>6, <2>7, <2>8, <2>9, <2>10, <2>11 DEF TypeOK
<1>4. ASSUME NEW s \in Spans, Dispatch(s)
      PROVE  TypeOK'
  BY <1>4 DEF Dispatch, TypeOK, Places
<1>5. ASSUME NEW u \in Users, Enter(u) \/ EmitImplicit(u) \/ Leave(u)
      PROVE  TypeOK'
  <2>1. TraceRun(u) \in Runs \cup {NoRun}
    BY DEF TraceRun, TypeOK
  <2>2. Or(TraceRun(u), Name[u]) \in Runs
    BY <2>1, OrType
  <2>3. at' \in [Processes -> Places]
    BY <1>5 DEF Enter, EmitImplicit, Leave, TypeOK, Places
  <2>4. run' \in [Processes -> Runs \cup {NoRun}]
    <3>1. \E r \in Runs : run' \in {run, [run EXCEPT ![u] = r]}
      BY <1>5, <2>2 DEF Enter, EmitImplicit, Leave
    <3>2. run \in [Processes -> Runs \cup {NoRun}]
      BY DEF TypeOK
    <3> QED
      BY <3>1, <3>2
  <2>5. owners' \subseteq Users
    BY <1>5 DEF Enter, EmitImplicit, Leave, TypeOK
  <2> QED
    BY <1>5, <2>3, <2>4, <2>5 DEF Enter, EmitImplicit, Leave, TypeOK
<1>6. ASSUME NEW p \in Processes, ObserveRunStart(p), run[p] \in Runs
      PROVE  TypeOK'
  <2>1. ended_runs' \in Seq(Runs) /\ Len(ended_runs') <= EndedCap
    BY <1>6, WithoutEndedType DEF ObserveRunStart, TypeOK
  <2> QED
    BY <1>6, <2>1 DEF ObserveRunStart, TypeOK, Places
<1>7. ASSUME NEW p \in Processes, EmitRunStart(p) \/ EmitRunEnd(p), run[p] \in Runs
      PROVE  TypeOK'
  <2>1. log' \in [Runs -> Seq({"start", "end"})]
    <3>1. \/ log' = log
          \/ log' = [log EXCEPT ![run[p]] = Append(log[run[p]], "start")]
          \/ log' = [log EXCEPT ![run[p]] = Append(log[run[p]], "end")]
      BY <1>7 DEF EmitRunStart, EmitRunEnd, Emit
    <3>2. /\ Append(log[run[p]], "start") \in Seq({"start", "end"})
          /\ Append(log[run[p]], "end") \in Seq({"start", "end"})
      BY <1>7, AppendProperties DEF TypeOK
    <3>3. \A q \in Seq({"start", "end"}) :
              [log EXCEPT ![run[p]] = q] \in [Runs -> Seq({"start", "end"})]
      BY DEF TypeOK
    <3> QED
      <4>1. CASE log' = log
        BY <4>1 DEF TypeOK
      <4>2. CASE log' = [log EXCEPT ![run[p]] = Append(log[run[p]], "start")]
        BY <3>2, <3>3, <4>2
      <4>3. CASE log' = [log EXCEPT ![run[p]] = Append(log[run[p]], "end")]
        BY <3>2, <3>3, <4>3
      <4> QED
        BY <3>1, <4>1, <4>2, <4>3
  <2> QED
    BY <1>7, <2>1 DEF EmitRunStart, EmitRunEnd, TypeOK, Places
<1>8. ASSUME NEW p \in Processes, ObserveRunEnd(p), run[p] \in Runs
      PROVE  TypeOK'
  <2>1. ended_runs' \in Seq(Runs) /\ Len(ended_runs') <= EndedCap
    <3> DEFINE kept == IF Len(ended_runs) = EndedCap THEN Tail(ended_runs) ELSE ended_runs
    <3>1. kept \in Seq(Runs) /\ Len(kept) < EndedCap
      BY RuntimeAssumption, HeadTailProperties, LenProperties DEF TypeOK
    <3>2. Append(kept, run[p]) \in Seq(Runs) /\ Len(Append(kept, run[p])) = Len(kept) + 1
      BY <1>8, <3>1, AppendProperties
    <3>3. Len(kept) \in Nat
      BY <3>1, LenProperties
    <3>4. ended_runs' \in {ended_runs, Append(kept, run[p])}
      BY <1>8 DEF ObserveRunEnd
    <3> HIDE DEF kept
    <3>5. EndedCap \in Nat /\ ended_runs \in Seq(Runs) /\ Len(ended_runs) <= EndedCap
      BY DEF TypeOK
    <3>6. Len(Append(kept, run[p])) <= EndedCap
      BY <3>1, <3>2, <3>3, <3>5
    <3> QED
      BY <3>2, <3>4, <3>5, <3>6
  <2>2. at' \in [Processes -> Places]
    <3>1. at' \in {[at EXCEPT ![p] = "ended"], [at EXCEPT ![p] = "finished"]}
      BY <1>8 DEF ObserveRunEnd
    <3> QED
      BY <3>1 DEF TypeOK, Places
  <2>3. started_runs' \subseteq started_runs
    BY <1>8 DEF ObserveRunEnd
  <2> QED
    BY <1>8, <2>1, <2>2, <2>3 DEF ObserveRunEnd, TypeOK
<1>9. ASSUME Shutdown \/ CollectRuns \/ ClientGone
      PROVE  TypeOK'
  BY <1>9 DEF Shutdown, CollectRuns, ClientGone, TypeOK
<1>10. ASSUME NEW r \in Runs, EndOpenRun(r)
       PROVE  TypeOK'
  BY <1>10 DEF EndOpenRun, TypeOK, Places
<1>11. CASE UNCHANGED vars
  BY <1>11 DEF vars, TypeOK
<1>12. ASSUME NEW p \in Processes, Observe(p)
       PROVE  TypeOK'
  <2>1. at[p] \in Beginning \cup Ending
    BY <1>12 DEF Observe, ObserveRunStart, EmitRunStart, ObserveRunEnd, EmitRunEnd, Beginning, Ending
  <2>2. run[p] \in Runs
    BY <2>1 DEF TypeOK, BusyHaveRun
  <2> QED
    BY <1>6, <1>7, <1>8, <1>12, <2>2 DEF Observe
<1> QED
  BY <1>1, <1>2, <1>3, <1>4, <1>5, <1>9, <1>10, <1>11, <1>12 DEF Next

-----------------------------------------------------------------------------
(* What the steps of the registry do.                                      *)

\* Where the run of a span that starts is from, and whose the trace is then.
Joins(s, r) ==
    \/ trace_to_run[Trace[s]] = r /\ trace_to_run' = trace_to_run
    \/ /\ trace_to_run[Trace[s]] = NoRun /\ trace_to_run' = trace_to_run
       /\ Parent[s] \in Spans /\ span_to_run[Parent[s]] = r
    \/ /\ trace_to_run[Trace[s]] = NoRun
       /\ trace_to_run' = [trace_to_run EXCEPT ![Trace[s]] = r]
       /\ r = ActiveRun(s) \/ r = s

LEMMA StartSpanEffect ==
    ASSUME TypeOK, NEW s \in Spans, StartSpan(s)
    PROVE  \E r \in Runs :
               /\ Register(s, r) /\ Joins(s, r)
               /\ run' = [run EXCEPT ![s] = r]
               /\ \/ /\ r = s /\ at' = [at EXCEPT ![s] = "announce"]
                     /\ span_to_run_started' = span_to_run_started \cup {s}
                     /\ trace_to_run[Trace[s]] = NoRun
                     /\ trace_to_run' = [trace_to_run EXCEPT ![Trace[s]] = r]
                  \/ /\ at' = [at EXCEPT ![s] = "open"]
                     /\ span_to_run_started' = span_to_run_started
<1> DEFINE t == Trace[s]
           inherited == IF Parent[s] \in Spans THEN span_to_run[Parent[s]] ELSE NoRun
           known == Or(trace_to_run[t], inherited)
           begins == known = NoRun /\ ActiveRun(s) = NoRun /\ Parent[s] = NoSpan
           r == Or(known, Or(ActiveRun(s), s))
<1>0. ActiveRun(s) \in Runs \cup {NoRun}
  BY RunTypes, RuntimeAssumption DEF ActiveRun, TypeOK
<1>1. known \in Runs \cup {NoRun} /\ s \in Runs
  BY RunTypes, OrType DEF TypeOK
<1>2. r \in Runs
  BY <1>0, <1>1, OrType
<1>3. /\ Register(s, r) /\ run' = [run EXCEPT ![s] = r]
      /\ trace_to_run' = IF known = NoRun THEN [trace_to_run EXCEPT ![t] = r] ELSE trace_to_run
      /\ span_to_run_started' = IF begins THEN span_to_run_started \cup {s} ELSE span_to_run_started
      /\ at' = [at EXCEPT ![s] = IF begins THEN "announce" ELSE "open"]
  BY DEF StartSpan, Goto
<1>4. known = NoRun => trace_to_run[t] = NoRun /\ (r = ActiveRun(s) \/ r = s)
  BY DEF Or
<1>5. known # NoRun => \/ trace_to_run[t] = r
                       \/ trace_to_run[t] = NoRun /\ Parent[s] \in Spans /\ span_to_run[Parent[s]] = r
  BY DEF Or
<1>6. Joins(s, r)
  BY <1>3, <1>4, <1>5 DEF Joins
<1>7. begins => r = s /\ known = NoRun
  BY <1>1 DEF Or
<1> HIDE DEF r, begins, known, inherited
<1>8. CASE begins
  BY <1>2, <1>3, <1>4, <1>6, <1>7, <1>8
<1>9. CASE ~begins
  BY <1>2, <1>3, <1>6, <1>9
<1> QED
  BY <1>8, <1>9

LEMMA EndSpanEffect ==
    ASSUME TypeOK, NEW s \in Spans, EndSpan(s)
    PROVE  \E r \in Runs, left \in Nat, roots \in SUBSET Traces :
               /\ at[s] \in {"open", "unseen"} /\ Unregister(s)
               /\ left = IF trace_active_counts[Trace[s]] = 0 THEN 0
                                                  ELSE trace_active_counts[Trace[s]] - 1
               /\ roots = IF s \in span_to_run_started THEN trace_root_ended \cup {Trace[s]}
                                                       ELSE trace_root_ended
               /\ Forget(Trace[s], left, roots)
               /\ run' = [run EXCEPT ![s] = r]
               /\ span_to_run[s] # NoRun => r = span_to_run[s]
               /\ span_to_run[s] = NoRun /\ trace_to_run[Trace[s]] # NoRun =>
                      r = trace_to_run[Trace[s]]
               /\ span_to_run[s] = NoRun /\ trace_to_run[Trace[s]] = NoRun =>
                      r = s \/ r = ActiveRun(s)
               /\ at' = [at EXCEPT ![s] = IF Trace[s] \in roots /\ left = 0 THEN "closing"
                                                                            ELSE "ended"]
<1> DEFINE t == Trace[s]
           left == IF trace_active_counts[t] = 0 THEN 0 ELSE trace_active_counts[t] - 1
           roots == IF s \in span_to_run_started THEN trace_root_ended \cup {t}
                                                 ELSE trace_root_ended
           r == Or(Or(span_to_run[s], trace_to_run[t]), Or(ActiveRun(s), s))
<1>0. ActiveRun(s) \in Runs \cup {NoRun} /\ s \in Runs /\ t \in Traces
  BY RunTypes, RuntimeAssumption DEF ActiveRun, TypeOK
<1>1. Or(ActiveRun(s), s) \in Runs
  BY <1>0, OrType
<1>2. Or(span_to_run[s], trace_to_run[t]) \in Runs \cup {NoRun}
  BY <1>0, OrType DEF TypeOK
<1>3. r \in Runs
  BY <1>1, <1>2, OrType
<1>4. left \in Nat
  BY <1>0 DEF TypeOK
<1>5. roots \in SUBSET Traces
  BY <1>0 DEF TypeOK
<1>6. /\ span_to_run[s] # NoRun => r = span_to_run[s]
      /\ span_to_run[s] = NoRun /\ trace_to_run[t] # NoRun => r = trace_to_run[t]
      /\ span_to_run[s] = NoRun /\ trace_to_run[t] = NoRun => r = s \/ r = ActiveRun(s)
  BY DEF Or
<1>7. /\ at[s] \in {"open", "unseen"} /\ Unregister(s) /\ Forget(t, left, roots)
      /\ run' = [run EXCEPT ![s] = r]
      /\ at' = [at EXCEPT ![s] = IF t \in roots /\ left = 0 THEN "closing" ELSE "ended"]
  BY DEF EndSpan, Goto
<1> HIDE DEF r
<1> QED
  BY <1>3, <1>4, <1>5, <1>6, <1>7

\* Nothing else touches the registry.
LEMMA RegistrySteps ==
    ASSUME [Next]_vars
    PROVE  \/ \E s \in Spans : StartSpan(s) \/ Attach(s) \/ EndSpan(s)
           \/ UNCHANGED <<trace_to_run, span_to_run, span_to_run_started, trace_active_counts,
                          trace_root_ended, missed>>
BY DEF Next, Dispatch, Enter, EmitImplicit, Leave, Observe, ObserveRunStart, EmitRunStart,
       ObserveRunEnd, EmitRunEnd, Shutdown, CollectRuns, EndOpenRun, ClientGone, vars, registry

-----------------------------------------------------------------------------
(* Where spans and users are.                                              *)

LEMMA SpansPlacedStep ==
    ASSUME TypeOK, SpansPlaced, [Next]_vars
    PROVE  SpansPlaced'
<1> USE DEF SpansPlaced, Beginning
<1>0. /\ span_to_run \in [Spans -> Runs \cup {NoRun}] /\ run \in [Processes -> Runs \cup {NoRun}]
      /\ span_to_run_started \subseteq Spans /\ at \in [Processes -> Places]
      /\ Spans \cap Users = {} /\ Closer \notin Spans /\ Spans \subseteq Processes
      /\ Users \subseteq Processes /\ Closer \in Processes
      /\ Spans \subseteq Runs /\ NoRun \notin Runs
  BY RuntimeAssumption, RunTypes DEF TypeOK
<1>1. ASSUME NEW s \in Spans, StartSpan(s)
      PROVE  SpansPlaced'
  <2>1. PICK r \in Runs :
           /\ span_to_run' = [span_to_run EXCEPT ![s] = r]
           /\ run' = [run EXCEPT ![s] = r]
           /\ \/ /\ r = s /\ at' = [at EXCEPT ![s] = "announce"]
                 /\ span_to_run_started' = span_to_run_started \cup {s}
              \/ /\ at' = [at EXCEPT ![s] = "open"]
                 /\ span_to_run_started' = span_to_run_started
    BY <1>1, StartSpanEffect DEF Register
  <2>2. at[s] = "new" /\ span_to_run[s] = NoRun
    BY <1>1 DEF StartSpan, At
  <2> QED
    BY <1>0, <2>1, <2>2
<1>2. ASSUME NEW s \in Spans, Attach(s)
      PROVE  SpansPlaced'
  BY <1>0, <1>2 DEF Attach, Register, Goto, At
<1>3. ASSUME NEW s \in Spans, EndSpan(s)
      PROVE  SpansPlaced'
  <2>1. PICK r \in Runs :
           /\ span_to_run' = [span_to_run EXCEPT ![s] = NoRun]
           /\ run' = [run EXCEPT ![s] = r]
           /\ span_to_run_started' = span_to_run_started \ {s}
           /\ at' = [at EXCEPT ![s] = "closing"] \/ at' = [at EXCEPT ![s] = "ended"]
    BY <1>3, EndSpanEffect DEF Unregister
  <2> QED
    BY <1>0, <2>1
<1>4. ASSUME NEW s \in Spans, Dispatch(s)
      PROVE  SpansPlaced'
  BY <1>0, <1>4 DEF Dispatch, Goto, At, registry
<1>5. ASSUME NEW u \in Users, Enter(u) \/ EmitImplicit(u) \/ Leave(u)
      PROVE  SpansPlaced'
  BY <1>0, <1>5 DEF Enter, EmitImplicit, Leave, Goto, registry
<1>6. ASSUME NEW p \in Processes, Observe(p)
      PROVE  SpansPlaced'
  <2>1. /\ UNCHANGED <<span_to_run, span_to_run_started, run>>
        /\ \/ at[p] \in {"starting", "started"}
              /\ at' \in {[at EXCEPT ![p] = "started"], [at EXCEPT ![p] = "open"]}
           \/ at[p] \in {"finishing", "finished"}
              /\ at' \in {[at EXCEPT ![p] = "finished"], [at EXCEPT ![p] = "ended"]}
    BY <1>6 DEF Observe, ObserveRunStart, EmitRunStart, ObserveRunEnd, EmitRunEnd, Goto, At, registry
  <2> QED
    BY <1>0, <2>1
<1>7. ASSUME Shutdown \/ CollectRuns \/ ClientGone \/ UNCHANGED vars
      PROVE  SpansPlaced'
  BY <1>7 DEF Shutdown, CollectRuns, ClientGone, vars, registry
<1>8. ASSUME NEW r \in Runs, EndOpenRun(r)
      PROVE  SpansPlaced'
  BY <1>0, <1>8 DEF EndOpenRun, Goto, registry
<1> QED
  BY <1>1, <1>2, <1>3, <1>4, <1>5, <1>6, <1>7, <1>8 DEF Next

LEMMA UsersPlacedStep ==
    ASSUME TypeOK, UsersPlaced, [Next]_vars
    PROVE  UsersPlaced'
<1> USE DEF UsersPlaced, Beginning, Ending
<1>0. /\ run \in [Processes -> Runs \cup {NoRun}] /\ at \in [Processes -> Places]
      /\ Spans \cap Users = {} /\ Closer \notin Users /\ Spans \subseteq Processes
      /\ Users \subseteq Processes /\ Closer \in Processes
      /\ NoRun \notin Runs /\ \A u \in Users : Name[u] \in Runs
  BY RuntimeAssumption, RunTypes DEF TypeOK
<1>1. ASSUME NEW s \in Spans, UNCHANGED owners,
             \E r : run' = [run EXCEPT ![s] = r], \E l : at' = [at EXCEPT ![s] = l]
      PROVE  UsersPlaced'
  BY <1>0, <1>1
<1>2. ASSUME NEW s \in Spans, StartSpan(s) \/ Attach(s) \/ EndSpan(s)
      PROVE  UsersPlaced'
  <2>1. UNCHANGED owners
    BY <1>2 DEF StartSpan, Attach, EndSpan
  <2>2. (\E r : run' = [run EXCEPT ![s] = r]) /\ (\E l : at' = [at EXCEPT ![s] = l])
    BY <1>2 DEF StartSpan, Attach, EndSpan, Goto
  <2> QED
    BY <1>1, <2>1, <2>2
<1>3. ASSUME NEW s \in Spans, Dispatch(s)
      PROVE  UsersPlaced'
  BY <1>0, <1>3 DEF Dispatch, Goto
<1>4. ASSUME NEW u \in Users, Enter(u)
      PROVE  UsersPlaced'
  BY <1>0, <1>4 DEF Enter, Goto, At, Or
<1>5. ASSUME NEW u \in Users, EmitImplicit(u) \/ Leave(u)
      PROVE  UsersPlaced'
  BY <1>0, <1>5 DEF EmitImplicit, Leave, Goto, At
<1>6. ASSUME NEW p \in Processes, Observe(p)
      PROVE  UsersPlaced'
  <2>1. /\ UNCHANGED <<run, owners>>
        /\ \/ at[p] \in {"starting", "started"}
              /\ at' \in {[at EXCEPT ![p] = "started"], [at EXCEPT ![p] = "open"]}
           \/ at[p] \in {"finishing", "finished"}
              /\ at' \in {[at EXCEPT ![p] = "finished"], [at EXCEPT ![p] = "ended"]}
    BY <1>6 DEF Observe, ObserveRunStart, EmitRunStart, ObserveRunEnd, EmitRunEnd, Goto, At
  <2> QED
    BY <1>0, <2>1
<1>7. ASSUME Shutdown \/ CollectRuns \/ ClientGone \/ UNCHANGED vars
      PROVE  UsersPlaced'
  BY <1>7 DEF Shutdown, CollectRuns, ClientGone, vars
<1>8. ASSUME NEW r \in Runs, EndOpenRun(r)
      PROVE  UsersPlaced'
  BY <1>0, <1>8 DEF EndOpenRun, Goto
<1> QED
  BY <1>2, <1>3, <1>4, <1>5, <1>6, <1>7, <1>8 DEF Next

LEMMA BusyHaveRunStep ==
    ASSUME TypeOK, UsersPlaced, BusyHaveRun, [Next]_vars
    PROVE  BusyHaveRun'
<1> USE DEF BusyHaveRun, Beginning, Ending
<1>0. /\ run \in [Processes -> Runs \cup {NoRun}] /\ at \in [Processes -> Places]
      /\ Spans \subseteq Processes /\ Users \subseteq Processes /\ Closer \in Processes
      /\ Spans \subseteq Runs /\ NoRun \notin Runs /\ \A u \in Users : Name[u] \in Runs
  BY RunTypes DEF TypeOK
<1>1. ASSUME NEW p \in Processes, \E r \in Runs : run' = [run EXCEPT ![p] = r],
             \E l : at' = [at EXCEPT ![p] = l]
      PROVE  BusyHaveRun'
  BY <1>0, <1>1
<1>2. ASSUME NEW s \in Spans, StartSpan(s) \/ Attach(s) \/ EndSpan(s)
      PROVE  BusyHaveRun'
  <2>1. \E r \in Runs : run' = [run EXCEPT ![s] = r]
    <3>1. CASE StartSpan(s)
      BY <3>1, StartSpanEffect
    <3>2. CASE Attach(s)
      BY <1>0, <3>2 DEF Attach
    <3>3. CASE EndSpan(s)
      BY <3>3, EndSpanEffect
    <3> QED
      BY <1>2, <3>1, <3>2, <3>3
  <2>2. \E l : at' = [at EXCEPT ![s] = l]
    BY <1>2 DEF StartSpan, Attach, EndSpan, Goto
  <2> QED
    BY <1>0, <1>1, <2>1, <2>2
<1>3. ASSUME NEW s \in Spans, Dispatch(s)
      PROVE  BusyHaveRun'
  BY <1>0, <1>3 DEF Dispatch, Goto, At
<1>4. ASSUME NEW u \in Users, Enter(u) \/ EmitImplicit(u)
      PROVE  BusyHaveRun'
  <2>1. TraceRun(u) \in Runs \cup {NoRun}
    BY RuntimeAssumption, RunTypes DEF TraceRun, TypeOK
  <2>2. \E r \in Runs : run' = [run EXCEPT ![u] = r]
    BY <1>0, <1>4, <2>1 DEF Enter, EmitImplicit, Or
  <2>3. \E l : at' = [at EXCEPT ![u] = l]
    BY <1>4 DEF Enter, EmitImplicit, Goto
  <2> QED
    BY <1>0, <1>1, <2>2, <2>3
<1>5. ASSUME NEW p \in Processes, Observe(p)
      PROVE  BusyHaveRun'
  <2>1. /\ UNCHANGED run /\ at[p] \in Beginning \cup Ending /\ \E l : at' = [at EXCEPT ![p] = l]
    BY <1>5 DEF Observe, ObserveRunStart, EmitRunStart, ObserveRunEnd, EmitRunEnd, Goto, At
  <2> QED
    BY <1>0, <2>1
<1>6. ASSUME Shutdown \/ CollectRuns \/ ClientGone \/ UNCHANGED vars
      PROVE  BusyHaveRun'
  BY <1>6 DEF Shutdown, CollectRuns, ClientGone, vars
<1>7. ASSUME NEW r \in Runs, EndOpenRun(r)
      PROVE  BusyHaveRun'
  BY <1>0, <1>1, <1>7 DEF EndOpenRun, Goto
<1>8. ASSUME NEW u \in Users, Leave(u)
      PROVE  BusyHaveRun'
  <2>1. (at' = [at EXCEPT ![u] = "finishing"] /\ u \in owners) \/ at' = [at EXCEPT ![u] = "ended"]
    BY <1>8 DEF Leave, Goto
  <2>2. u \in owners => run[u] = Name[u]
    BY DEF UsersPlaced
  <2>3. run' = run
    BY <1>8 DEF Leave
  <2> QED
    BY <1>0, <2>1, <2>2, <2>3
<1> QED
  BY <1>2, <1>3, <1>4, <1>5, <1>6, <1>7, <1>8 DEF Next

-----------------------------------------------------------------------------
(* Whose runs there are.                                                   *)

\* An actor gets its run once.
LEMMA RunGivenOnce ==
    ASSUME TypeOK, SpansPlaced, UsersPlaced, [Next]_vars, NEW p \in Actors, run[p] # NoRun
    PROVE  run'[p] = run[p]
<1>0. /\ run \in [Processes -> Runs \cup {NoRun}] /\ p \in Processes /\ p # Closer
      /\ Spans \cap Users = {}
  BY RuntimeAssumption DEF TypeOK, Actors, Processes
<1>1. ASSUME NEW s \in Spans, StartSpan(s) \/ Attach(s)
      PROVE  run'[p] = run[p]
  <2>1. run[s] = NoRun
    BY <1>1 DEF StartSpan, Attach, At, SpansPlaced
  <2>2. \E r : run' = [run EXCEPT ![s] = r]
    BY <1>1 DEF StartSpan, Attach
  <2> QED
    BY <1>0, <2>1, <2>2
<1>2. ASSUME NEW s \in Spans, EndSpan(s)
      PROVE  run'[p] = run[p]
  <2>1. PICK r : run' = [run EXCEPT ![s] = r] /\ (span_to_run[s] # NoRun => r = span_to_run[s])
    BY <1>2, EndSpanEffect
  <2>2. run[s] = NoRun \/ span_to_run[s] # NoRun
    BY <1>2 DEF EndSpan, SpansPlaced
  <2> QED
    BY <1>0, <2>1, <2>2 DEF SpansPlaced
<1>3. ASSUME NEW u \in Users, Enter(u) \/ EmitImplicit(u)
      PROVE  run'[p] = run[p]
  <2>1. run[u] = NoRun
    BY <1>3 DEF Enter, EmitImplicit, At, UsersPlaced
  <2>2. \E r : run' = [run EXCEPT ![u] = r]
    BY <1>3 DEF Enter, EmitImplicit
  <2> QED
    BY <1>0, <2>1, <2>2
<1>4. ASSUME NEW r \in Runs, EndOpenRun(r)
      PROVE  run'[p] = run[p]
  BY <1>0, <1>4 DEF EndOpenRun
<1>5. ASSUME UNCHANGED run
      PROVE  run'[p] = run[p]
  BY <1>5
<1> QED
  BY <1>1, <1>2, <1>3, <1>4, <1>5
     DEF Next, Dispatch, Leave, Observe, ObserveRunStart, EmitRunStart, ObserveRunEnd, EmitRunEnd,
         Shutdown, CollectRuns, ClientGone, vars

LEMMA HeldKept ==
    ASSUME TypeOK, SpansPlaced, UsersPlaced, [Next]_vars, NEW r \in Runs, Held(r)
    PROVE  Held(r)'
<1>1. NoRun \notin Runs
  BY RuntimeAssumption
<1>2. CASE r \in Spans /\ run[r] = r
  <2>1. run'[r] = r
    BY <1>1, <1>2, RunGivenOnce DEF Actors
  <2> QED
    BY <1>2, <2>1 DEF Held
<1>3. ASSUME NEW u \in Users, Name[u] = r, run[u] = r
      PROVE  Held(r)'
  <2>1. run'[u] = r
    BY <1>1, <1>3, RunGivenOnce DEF Actors
  <2> QED
    BY <1>3, <2>1 DEF Held
<1> QED
  BY <1>2, <1>3 DEF Held

LEMMA RunsHeldStep ==
    ASSUME TypeOK, SpansPlaced, UsersPlaced, RunsHeld, [Next]_vars
    PROVE  RunsHeld'
<1> DEFINE HeldNow(r) == Held(r)
           HeldThen(r) == \/ r \in Spans /\ run'[r] = r
                          \/ \E u \in Users : Name[u] = r /\ run'[u] = r
<1>0. /\ run \in [Processes -> Runs \cup {NoRun}] /\ Actors \subseteq Processes
      /\ trace_to_run \in [Traces -> Runs \cup {NoRun}] /\ NoRun \notin Runs
      /\ span_to_run \in [Spans -> Runs \cup {NoRun}]
      /\ Spans \cap Users = {} /\ Closer \notin Actors
      /\ \A s \in Spans : s \in Runs /\ s \in Actors /\ Trace[s] \in Traces
      /\ \A u \in Users : Name[u] \in Runs /\ u \in Actors
  BY RuntimeAssumption, RunTypes DEF TypeOK, Actors, Processes
<1>1. /\ \A r \in Runs : HeldNow(r) => HeldThen(r)
      /\ \A p \in Actors : run[p] # NoRun => run[p] \in Runs /\ HeldNow(run[p])
      /\ \A t \in Traces : trace_to_run[t] # NoRun =>
             trace_to_run[t] \in Runs /\ HeldNow(trace_to_run[t])
  <2>1. \A r \in Runs : HeldNow(r) => HeldThen(r)
    BY HeldKept DEF Held
  <2> QED
    BY <1>0, <2>1 DEF RunsHeld
<1>2. ASSUME NEW r \in Runs, HeldThen(r), NEW p \in Actors,
             run' \in {run, [run EXCEPT ![p] = r]},
             \A t \in Traces : trace_to_run'[t] \in {trace_to_run[t], r, NoRun}
      PROVE  RunsHeld'
  <2>1. \A q \in Actors : run'[q] # NoRun => run'[q] \in Runs /\ HeldThen(run'[q])
    <3> TAKE q \in Actors
    <3>1. run'[q] = run[q] \/ run'[q] = r
      BY <1>0, <1>2
    <3> HIDE DEF HeldThen, HeldNow
    <3> QED
      BY <1>1, <1>2, <3>1
  <2>2. \A t \in Traces : trace_to_run'[t] # NoRun =>
            trace_to_run'[t] \in Runs /\ HeldThen(trace_to_run'[t])
    <3> HIDE DEF HeldThen, HeldNow
    <3> QED
      BY <1>1, <1>2
  <2> QED
    BY <2>1, <2>2 DEF RunsHeld, Held
<1>3. ASSUME NEW s \in Spans
      PROVE  ActiveRun(s) # NoRun => HeldThen(ActiveRun(s))
  <2>1. ActiveRun(s) # NoRun => \E u \in Users : ActiveRun(s) = run[u] /\ run[u] # NoRun
    BY RuntimeAssumption DEF ActiveRun
  <2> HIDE DEF HeldThen, HeldNow
  <2> QED
    BY <1>0, <1>1, <2>1
<1>4. ASSUME NEW s \in Spans, StartSpan(s)
      PROVE  RunsHeld'
  <2>1. PICK r \in Runs : Joins(s, r) /\ run' = [run EXCEPT ![s] = r]
    BY <1>4, StartSpanEffect
  <2>2. HeldThen(r)
    <3>1. CASE r = trace_to_run[Trace[s]] \/ r = ActiveRun(s)
      <4> HIDE DEF HeldThen, HeldNow
      <4> QED
        BY <1>0, <1>1, <1>3, <2>1, <3>1
    <3>2. CASE Parent[s] \in Spans /\ span_to_run[Parent[s]] = r
      <4>1. r = run[Parent[s]]
        BY <1>0, <3>2 DEF SpansPlaced
      <4> HIDE DEF HeldThen, HeldNow
      <4> QED
        BY <1>0, <1>1, <2>1, <3>2, <4>1
    <3>3. CASE r = s
      BY <1>0, <2>1, <3>3
    <3> QED
      BY <2>1, <3>1, <3>2, <3>3 DEF Joins
  <2>3. \A t \in Traces : trace_to_run'[t] \in {trace_to_run[t], r, NoRun}
    BY <1>0, <2>1 DEF Joins
  <2> QED
    BY <1>0, <1>2, <2>1, <2>2, <2>3
<1>5. ASSUME NEW s \in Spans, Attach(s)
      PROVE  RunsHeld'
  <2>1. run' = [run EXCEPT ![s] = s] /\ trace_to_run' = [trace_to_run EXCEPT ![Trace[s]] = s]
    BY <1>5 DEF Attach
  <2>2. HeldThen(s)
    BY <1>0, <2>1
  <2> QED
    BY <1>0, <1>2, <2>1, <2>2
<1>6. ASSUME NEW s \in Spans, EndSpan(s)
      PROVE  RunsHeld'
  <2>1. PICK r \in Runs :
           /\ run' = [run EXCEPT ![s] = r]
           /\ span_to_run[s] # NoRun => r = span_to_run[s]
           /\ span_to_run[s] = NoRun /\ trace_to_run[Trace[s]] # NoRun => r = trace_to_run[Trace[s]]
           /\ span_to_run[s] = NoRun /\ trace_to_run[Trace[s]] = NoRun => r = s \/ r = ActiveRun(s)
           /\ \A t \in Traces : trace_to_run'[t] \in {trace_to_run[t], NoRun}
    BY <1>0, <1>6, EndSpanEffect DEF Forget
  <2>2. HeldThen(r)
    <3>1. CASE span_to_run[s] # NoRun
      <4>1. r = run[s]
        BY <2>1, <3>1 DEF SpansPlaced
      <4> HIDE DEF HeldThen, HeldNow
      <4> QED
        BY <1>0, <1>1, <2>1, <4>1
    <3>2. CASE r = trace_to_run[Trace[s]] \/ r = ActiveRun(s)
      <4> HIDE DEF HeldThen, HeldNow
      <4> QED
        BY <1>0, <1>1, <1>3, <2>1, <3>2
    <3>3. CASE r = s
      BY <1>0, <2>1, <3>3
    <3> QED
      BY <2>1, <3>1, <3>2, <3>3
  <2> QED
    BY <1>0, <1>2, <2>1, <2>2
<1>7. ASSUME NEW u \in Users, Enter(u)
      PROVE  RunsHeld'
  <2>1. TraceRun(u) # NoRun =>
            \E t \in Traces : TraceRun(u) = trace_to_run[t] /\ trace_to_run[t] # NoRun
    BY <1>0, RuntimeAssumption DEF TraceRun
  <2>2. PICK r \in Runs : /\ run' = [run EXCEPT ![u] = r]
                          /\ (r = TraceRun(u) /\ TraceRun(u) # NoRun) \/ r = Name[u]
    <3>1. TraceRun(u) \in Runs \cup {NoRun}
      BY <1>0, <2>1
    <3> QED
      BY <1>0, <1>7, <3>1 DEF Enter, Or
  <2>3. HeldThen(r)
    <3>1. CASE r = TraceRun(u) /\ TraceRun(u) # NoRun
      <4> HIDE DEF HeldThen, HeldNow
      <4> QED
        BY <1>1, <2>1, <2>2, <3>1
    <3>2. CASE r = Name[u]
      BY <1>0, <2>2, <3>2
    <3> QED
      BY <2>2, <3>1, <3>2
  <2>4. trace_to_run' = trace_to_run
    BY <1>7 DEF Enter, registry
  <2> QED
    BY <1>0, <1>2, <2>2, <2>3, <2>4
<1>8. ASSUME NEW u \in Users, EmitImplicit(u)
      PROVE  RunsHeld'
  <2>1. run' = [run EXCEPT ![u] = Name[u]] /\ trace_to_run' = trace_to_run
    BY <1>8 DEF EmitImplicit, registry
  <2>2. HeldThen(Name[u])
    BY <1>0, <2>1
  <2> QED
    BY <1>0, <1>2, <2>1, <2>2
<1>9. ASSUME NEW r \in Runs, EndOpenRun(r)
      PROVE  RunsHeld'
  <2>1. trace_to_run' = trace_to_run /\ \A p \in Actors : run'[p] = run[p]
    BY <1>0, <1>9 DEF EndOpenRun, registry
  <2> QED
    BY <1>0, <2>1 DEF RunsHeld, Held
<1>10. ASSUME UNCHANGED <<run, trace_to_run>>
       PROVE  RunsHeld'
  BY <1>10 DEF RunsHeld, Held
<1> QED
  BY <1>4, <1>5, <1>6, <1>7, <1>8, <1>9, <1>10
     DEF Next, Dispatch, Leave, Observe, ObserveRunStart, EmitRunStart, ObserveRunEnd, EmitRunEnd,
         Shutdown, CollectRuns, ClientGone, vars, registry

LEMMA RunsApartStep ==
    ASSUME TypeOK, BusyHaveRun, RunsApart, [Next]_vars
    PROVE  RunsApart'
<1>0. /\ ended_runs \in Seq(Runs) /\ started_runs \subseteq Runs
      /\ run \in [Processes -> Runs \cup {NoRun}]
      /\ Len(ended_runs) \in Nat /\ DOMAIN ended_runs = 1..Len(ended_runs)
  BY DEF TypeOK
<1>1. ASSUME NEW p \in Processes, ObserveRunStart(p)
      PROVE  RunsApart'
  <2> DEFINE r == run[p]
  <2>1. ended_runs' = WithoutEnded(r) /\ started_runs' = started_runs \cup {r}
    BY <1>1 DEF ObserveRunStart
  <2>2. CASE ~Ended(r)
    BY <2>1, <2>2 DEF WithoutEnded, RunsApart, Ended
  <2>3. CASE Ended(r)
    <3>1. PICK i \in DOMAIN ended_runs :
             /\ i = CHOOSE j \in DOMAIN ended_runs : ended_runs[j] = r
             /\ ended_runs[i] = r
      BY <2>3 DEF Ended
    <3> DEFINE n == Len(ended_runs) - 1
               at_(j) == IF j < i THEN j ELSE j + 1
    <3>2. ended_runs' = [j \in 1..n |-> ended_runs[at_(j)]]
      BY <2>1, <2>3, <3>1 DEF WithoutEnded
    <3>3. DOMAIN ended_runs' = 1..n /\ \A j \in 1..n : ended_runs'[j] = ended_runs[at_(j)]
      BY <3>2
    <3>4. /\ i \in Nat /\ n \in Nat
          /\ \A j \in 1..n : at_(j) \in 1..Len(ended_runs) /\ at_(j) # i
          /\ \A j, k \in 1..n : at_(j) = at_(k) => j = k
      <4>1. i \in 1..Len(ended_runs)
        BY <1>0, <3>1
      <4> QED
        BY <1>0, <4>1
    <3> HIDE DEF at_, n
    <3>5. \A j \in 1..n : ended_runs[at_(j)] # r /\ ended_runs[at_(j)] \notin started_runs
      BY <1>0, <3>1, <3>4 DEF RunsApart
    <3>6. \A j, k \in 1..n : ended_runs[at_(j)] = ended_runs[at_(k)] => j = k
      BY <1>0, <3>4 DEF RunsApart
    <3> QED
      BY <2>1, <3>3, <3>5, <3>6 DEF RunsApart
  <2> QED
    BY <2>2, <2>3
<1>2. ASSUME NEW p \in Processes, ObserveRunEnd(p), ~Ended(run[p]), run[p] \in Runs
      PROVE  RunsApart'
  <2> DEFINE r == run[p]
             kept == IF Len(ended_runs) = EndedCap THEN Tail(ended_runs) ELSE ended_runs
  <2>1. ended_runs' = Append(kept, r) /\ started_runs' = started_runs \ {r}
    BY <1>2 DEF ObserveRunEnd
  <2>2. /\ kept \in Seq(Runs) /\ Len(kept) \in Nat
        /\ \A i \in 1..Len(kept) : kept[i] \notin started_runs /\ kept[i] # r
        /\ \A i, j \in 1..Len(kept) : kept[i] = kept[j] => i = j
    <3>1. CASE Len(ended_runs) = EndedCap
      <4>1. ended_runs # <<>> /\ Len(ended_runs) > 0
        BY <1>0, <3>1, RuntimeAssumption
      <4>2. /\ kept \in Seq(Runs) /\ Len(kept) = Len(ended_runs) - 1
            /\ \A i \in 1..Len(kept) : kept[i] = ended_runs[i + 1]
        BY <1>0, <3>1, <4>1, HeadTailProperties
      <4> HIDE DEF kept
      <4>3. Len(kept) \in Nat /\ \A i \in 1..Len(kept) : i + 1 \in DOMAIN ended_runs
        BY <1>0, <4>1, <4>2
      <4>4. \A i, j \in 1..Len(kept) : kept[i] = kept[j] => i + 1 = j + 1
        BY <4>2, <4>3 DEF RunsApart
      <4>5. \A i, j \in 1..Len(kept) : i + 1 = j + 1 => i = j
        BY <4>3
      <4>6. \A i \in 1..Len(kept) : kept[i] \notin started_runs /\ kept[i] # r
        BY <1>2, <4>2, <4>3 DEF RunsApart, Ended
      <4> QED
        BY <4>2, <4>3, <4>4, <4>5, <4>6
    <3>2. CASE Len(ended_runs) # EndedCap
      BY <1>0, <1>2, <3>2 DEF RunsApart, Ended
    <3> QED
      BY <3>1, <3>2
  <2> HIDE DEF kept
  <2>3. /\ DOMAIN ended_runs' = 1..Len(kept) + 1
        /\ \A i \in 1..Len(kept) : ended_runs'[i] = kept[i]
        /\ ended_runs'[Len(kept) + 1] = r
    BY <1>2, <2>1, <2>2, AppendProperties, LenProperties
  <2>4. \A i \in 1..Len(kept) + 1 : i \in 1..Len(kept) \/ i = Len(kept) + 1
    BY <2>2
  <2> QED
    BY <2>1, <2>2, <2>3, <2>4 DEF RunsApart
<1>3. ASSUME UNCHANGED <<ended_runs, started_runs>>
      PROVE  RunsApart'
  BY <1>3 DEF RunsApart
<1>4. ASSUME NEW p \in Processes, ObserveRunEnd(p)
      PROVE  RunsApart'
  <2>1. run[p] \in Runs
    BY <1>0, <1>4 DEF BusyHaveRun, ObserveRunEnd, At, Ending
  <2> QED
    BY <1>2, <1>3, <1>4, <2>1 DEF ObserveRunEnd, runs
<1> QED
  BY <1>1, <1>3, <1>4
     DEF Next, StartSpan, Attach, EndSpan, Dispatch, Enter, EmitImplicit, Leave, Observe,
         EmitRunStart, EmitRunEnd, Shutdown, CollectRuns, EndOpenRun, ClientGone, vars, runs

-----------------------------------------------------------------------------
(* What the registry knows of a trace.                                     *)

LEMMA RegisteredFinite ==
    ASSUME NEW t
    PROVE  IsFiniteSet(Registered(t)) /\ Cardinality(Registered(t)) \in Nat
<1>1. IsFiniteSet(Spans)
  BY RuntimeAssumption, FS_Subset DEF Processes
<1> QED
  BY <1>1, FS_Subset, FS_CardinalityType DEF Registered

\* A span that is registered is one more of its trace.
LEMMA RegisterCounts ==
    ASSUME TypeOK, SpansCounted, NEW s \in Spans, NEW r \in Runs, span_to_run[s] = NoRun,
           Register(s, r), missed' = missed, trace_root_ended' = trace_root_ended,
           trace_to_run'[Trace[s]] = NoRun => trace_to_run[Trace[s]] = NoRun,
           \A t \in Traces \ {Trace[s]} : trace_to_run'[t] = trace_to_run[t]
    PROVE  SpansCounted'
<1> DEFINE R(t) == {x \in Spans : Trace[x] = t /\ span_to_run[x] # NoRun}
           Q(t) == {x \in Spans : Trace[x] = t /\ span_to_run'[x] # NoRun}
<1>0. /\ span_to_run \in [Spans -> Runs \cup {NoRun}] /\ NoRun \notin Runs
      /\ trace_active_counts \in [Traces -> Nat] /\ Trace[s] \in Traces
      /\ span_to_run' = [span_to_run EXCEPT ![s] = r]
      /\ trace_active_counts' = [trace_active_counts EXCEPT ![Trace[s]] = trace_active_counts[Trace[s]] + 1]
  BY RunTypes, RuntimeAssumption DEF TypeOK, Register
<1>1. Q(Trace[s]) = R(Trace[s]) \cup {s} /\ s \notin R(Trace[s])
  BY <1>0
<1>2. \A t \in Traces \ {Trace[s]} : Q(t) = R(t)
  BY <1>0
<1>3. \A t \in Traces : IsFiniteSet(R(t)) /\ Cardinality(R(t)) \in Nat
  BY RegisteredFinite DEF Registered
<1>4. Cardinality(Q(Trace[s])) = Cardinality(R(Trace[s])) + 1
  <2> HIDE DEF R, Q
  <2> QED
    BY <1>0, <1>1, <1>3, FS_AddElement
<1>5. \A t \in Traces : /\ trace_active_counts[t] <= Cardinality(R(t))
                        /\ t \notin missed => trace_active_counts[t] = Cardinality(R(t))
                        /\ trace_active_counts[t] = 0 => trace_to_run[t] = NoRun /\ t \notin trace_root_ended
  BY DEF SpansCounted, Registered
<1> HIDE DEF R, Q
<1>6. \A t \in Traces : /\ trace_active_counts'[t] <= Cardinality(Q(t))
                        /\ t \notin missed => trace_active_counts'[t] = Cardinality(Q(t))
                        /\ trace_active_counts'[t] = 0 => trace_to_run'[t] = NoRun /\ t \notin trace_root_ended
  <2> TAKE t \in Traces
  <2>1. CASE t = Trace[s]
    BY <1>0, <1>3, <1>4, <1>5, <2>1
  <2>2. CASE t # Trace[s]
    BY <1>0, <1>2, <1>5, <2>2
  <2> QED
    BY <2>1, <2>2
<1> QED
  BY <1>6 DEF SpansCounted, Registered, Q

LEMMA SpansCountedStep ==
    ASSUME TypeOK, SpansPlaced, SpansCounted, [Next]_vars
    PROVE  SpansCounted'
<1>1. ASSUME NEW s \in Spans, StartSpan(s)
      PROVE  SpansCounted'
  <2>1. PICK r \in Runs : Register(s, r) /\ Joins(s, r)
    BY <1>1, StartSpanEffect
  <2>2. span_to_run[s] = NoRun /\ missed' = missed /\ trace_root_ended' = trace_root_ended
    BY <1>1 DEF StartSpan, At, SpansPlaced, Beginning
  <2>3. /\ trace_to_run'[Trace[s]] = NoRun => trace_to_run[Trace[s]] = NoRun
        /\ \A t \in Traces \ {Trace[s]} : trace_to_run'[t] = trace_to_run[t]
    BY <2>1, RunTypes DEF Joins, TypeOK
  <2> QED
    BY <2>1, <2>2, <2>3, RegisterCounts
<1>2. ASSUME NEW s \in Spans, Attach(s)
      PROVE  SpansCounted'
  <2>1. Register(s, s) /\ s \in Runs /\ missed' = missed /\ trace_root_ended' = trace_root_ended
        /\ span_to_run[s] = NoRun
    BY <1>2, RunTypes DEF Attach, At, SpansPlaced, Beginning
  <2>2. /\ trace_to_run'[Trace[s]] = NoRun => trace_to_run[Trace[s]] = NoRun
        /\ \A t \in Traces \ {Trace[s]} : trace_to_run'[t] = trace_to_run[t]
    BY <1>2, RunTypes DEF Attach, TypeOK
  <2> QED
    BY <2>1, <2>2, RegisterCounts
<1>3. ASSUME NEW s \in Spans, EndSpan(s)
      PROVE  SpansCounted'
  <2> DEFINE R(t) == {x \in Spans : Trace[x] = t /\ span_to_run[x] # NoRun}
             Q(t) == {x \in Spans : Trace[x] = t /\ span_to_run'[x] # NoRun}
  <2>0. PICK left \in Nat, roots \in SUBSET Traces :
           /\ at[s] \in {"open", "unseen"} /\ Unregister(s)
           /\ left = IF trace_active_counts[Trace[s]] = 0 THEN 0 ELSE trace_active_counts[Trace[s]] - 1
           /\ roots \subseteq trace_root_ended \cup {Trace[s]}
           /\ Forget(Trace[s], left, roots)
    BY <1>3, EndSpanEffect, Zenon
  <2>1. /\ span_to_run \in [Spans -> Runs \cup {NoRun}] /\ Trace[s] \in Traces
        /\ trace_active_counts \in [Traces -> Nat] /\ trace_to_run \in [Traces -> Runs \cup {NoRun}]
        /\ span_to_run' = [span_to_run EXCEPT ![s] = NoRun]
        /\ trace_active_counts' = [trace_active_counts EXCEPT ![Trace[s]] = left]
        /\ missed' = IF at[s] = "unseen" THEN missed \cup {Trace[s]} ELSE missed
        /\ at[s] = "open" => span_to_run[s] # NoRun
        /\ at[s] = "unseen" => span_to_run[s] = NoRun
    BY <2>0, RunTypes DEF TypeOK, Unregister, Forget, At, SpansPlaced, Beginning
  <2>2. \A t \in Traces : IsFiniteSet(R(t)) /\ Cardinality(R(t)) \in Nat
    BY RegisteredFinite DEF Registered
  <2>3. \A t \in Traces \ {Trace[s]} : Q(t) = R(t)
    BY <2>1
  <2>4. Q(Trace[s]) = R(Trace[s]) \ {s} /\ (s \in R(Trace[s]) <=> at[s] = "open")
    BY <2>0, <2>1
  <2>5. \A t \in Traces : /\ trace_active_counts[t] <= Cardinality(R(t))
                          /\ t \notin missed => trace_active_counts[t] = Cardinality(R(t))
                          /\ trace_active_counts[t] = 0 => trace_to_run[t] = NoRun /\ t \notin trace_root_ended
    BY DEF SpansCounted, Registered
  <2>6. /\ left = 0 => trace_to_run'[Trace[s]] = NoRun /\ Trace[s] \notin trace_root_ended'
        /\ \A t \in Traces \ {Trace[s]} :
               trace_to_run'[t] = trace_to_run[t] /\ (t \in trace_root_ended' => t \in trace_root_ended)
    BY <2>0, <2>1 DEF Forget
  <2> HIDE DEF R, Q
  <2>7. CASE at[s] = "open"
    <3>1. Cardinality(Q(Trace[s])) = Cardinality(R(Trace[s])) - 1
      <4>1. IsFiniteSet(R(Trace[s])) /\ s \in R(Trace[s]) /\ Q(Trace[s]) = R(Trace[s]) \ {s}
        BY <2>1, <2>2, <2>4, <2>7
      <4> QED
        BY <4>1, FS_RemoveElement
    <3>2. Cardinality(R(Trace[s])) > 0
      BY <2>1, <2>2, <2>4, <2>7, FS_EmptySet
    <3>3. \A t \in Traces : /\ trace_active_counts'[t] <= Cardinality(Q(t))
                            /\ t \notin missed => trace_active_counts'[t] = Cardinality(Q(t))
      <4> TAKE t \in Traces
      <4>1. CASE t = Trace[s]
        BY <2>0, <2>1, <2>2, <2>5, <3>1, <3>2, <4>1
      <4>2. CASE t # Trace[s]
        BY <2>1, <2>3, <2>5, <4>2
      <4> QED
        BY <4>1, <4>2
    <3>4. \A t \in Traces : trace_active_counts'[t] = 0 => trace_to_run'[t] = NoRun /\ t \notin trace_root_ended'
      BY <2>1, <2>5, <2>6
    <3> QED
      BY <2>1, <2>7, <3>3, <3>4 DEF SpansCounted, Registered, Q
  <2>8. CASE at[s] = "unseen"
    <3>1. Q(Trace[s]) = R(Trace[s])
      BY <2>4, <2>8
    <3>2. \A t \in Traces : /\ trace_active_counts'[t] <= Cardinality(Q(t))
                            /\ t \notin missed' => trace_active_counts'[t] = Cardinality(Q(t))
      <4> TAKE t \in Traces
      <4>1. CASE t = Trace[s]
        BY <2>0, <2>1, <2>2, <2>5, <2>8, <3>1, <4>1
      <4>2. CASE t # Trace[s]
        BY <2>1, <2>3, <2>5, <2>8, <4>2
      <4> QED
        BY <4>1, <4>2
    <3>3. \A t \in Traces : trace_active_counts'[t] = 0 => trace_to_run'[t] = NoRun /\ t \notin trace_root_ended'
      BY <2>1, <2>5, <2>6
    <3> QED
      BY <3>2, <3>3 DEF SpansCounted, Registered, Q
  <2> QED
    BY <2>0, <2>7, <2>8
<1>4. ASSUME UNCHANGED <<trace_to_run, span_to_run, trace_active_counts, trace_root_ended, missed>>
      PROVE  SpansCounted'
  BY <1>4 DEF SpansCounted, Registered
<1> QED
  BY <1>1, <1>2, <1>3, <1>4, RegistrySteps

\* A span that is over stays over.
LEMMA EndedStays ==
    ASSUME TypeOK, [Next]_vars, NEW s \in Spans, at[s] = "ended"
    PROVE  at'[s] = "ended"
<1>1. at \in [Processes -> Places] /\ s \in Processes /\ s # Closer /\ Spans \cap Users = {}
  BY RuntimeAssumption DEF TypeOK, Processes
<1>2. ASSUME NEW p \in Processes, at[p] # "ended", \E l : at' = [at EXCEPT ![p] = l]
      PROVE  at'[s] = "ended"
  BY <1>1, <1>2
<1>3. ASSUME NEW x \in Spans, StartSpan(x) \/ Attach(x) \/ EndSpan(x) \/ Dispatch(x)
      PROVE  at'[s] = "ended"
  BY <1>2, <1>3, RunTypes DEF StartSpan, Attach, EndSpan, Dispatch, Goto, At
<1>4. ASSUME NEW u \in Users, Enter(u) \/ EmitImplicit(u) \/ Leave(u)
      PROVE  at'[s] = "ended"
  BY <1>2, <1>4, RunTypes DEF Enter, EmitImplicit, Leave, Goto, At
<1>5. ASSUME NEW p \in Processes, Observe(p)
      PROVE  at'[s] = "ended"
  BY <1>2, <1>5 DEF Observe, ObserveRunStart, EmitRunStart, ObserveRunEnd, EmitRunEnd, Goto, At
<1>6. ASSUME NEW r \in Runs, EndOpenRun(r)
      PROVE  at'[s] = "ended"
  BY <1>1, <1>6 DEF EndOpenRun, Goto
<1> QED
  BY <1>3, <1>4, <1>5, <1>6 DEF Next, Shutdown, CollectRuns, ClientGone, vars

LEMMA TracesKeptStep ==
    ASSUME TypeOK, SpansPlaced, SpansCounted, TracesKept, [Next]_vars
    PROVE  TracesKept'
<1>0. /\ span_to_run \in [Spans -> Runs \cup {NoRun}] /\ at \in [Processes -> Places]
      /\ trace_active_counts \in [Traces -> Nat] /\ trace_to_run \in [Traces -> Runs \cup {NoRun}]
      /\ NoRun \notin Runs /\ Spans \subseteq Runs /\ Spans \subseteq Processes
      /\ \A s \in Spans : Trace[s] \in Traces
  BY RunTypes DEF TypeOK
<1>1. \A x \in Spans : at[x] = "ended" => at'[x] = "ended"
  BY EndedStays
<1>2. ASSUME NEW s \in Spans, NEW r \in Runs, span_to_run' = [span_to_run EXCEPT ![s] = r],
             Joins(s, r), missed' = missed, trace_root_ended' = trace_root_ended
      PROVE  TracesKept'
  <2> SUFFICES ASSUME NEW t \in Traces, t \notin missed
               PROVE  /\ \A x \in Spans : Trace[x] = t /\ span_to_run'[x] # NoRun =>
                             span_to_run'[x] = trace_to_run'[t]
                      /\ t \in trace_root_ended =>
                             /\ trace_to_run'[t] \in Spans /\ Trace[trace_to_run'[t]] = t
                             /\ at'[trace_to_run'[t]] = "ended"
    BY <1>2 DEF TracesKept
  <2>1. /\ \A x \in Spans : Trace[x] = t /\ span_to_run[x] # NoRun =>
               span_to_run[x] = trace_to_run[t]
        /\ t \in trace_root_ended =>
               /\ trace_to_run[t] \in Spans /\ Trace[trace_to_run[t]] = t
               /\ at'[trace_to_run[t]] = "ended"
    BY <1>1 DEF TracesKept
  <2>2. CASE t # Trace[s]
    BY <1>0, <1>2, <2>1, <2>2 DEF Joins
  <2>3. CASE t = Trace[s]
    <3>1. CASE trace_to_run[t] = r /\ trace_to_run' = trace_to_run
      BY <1>0, <1>2, <2>1, <3>1
    <3>2. ~(trace_to_run[t] = NoRun /\ Parent[s] \in Spans /\ span_to_run[Parent[s]] = r)
      BY <1>0, <2>1, <2>3, RuntimeAssumption
    <3>3. CASE trace_to_run[t] = NoRun /\ trace_to_run' = [trace_to_run EXCEPT ![t] = r]
      BY <1>0, <1>2, <2>1, <3>3
    <3> QED
      BY <1>2, <2>3, <3>1, <3>2, <3>3 DEF Joins
  <2> QED
    BY <2>2, <2>3
<1>3. ASSUME NEW s \in Spans, StartSpan(s)
      PROVE  TracesKept'
  <2>1. \E r \in Runs : span_to_run' = [span_to_run EXCEPT ![s] = r] /\ Joins(s, r)
    BY <1>3, StartSpanEffect DEF Register
  <2>2. missed' = missed /\ trace_root_ended' = trace_root_ended
    BY <1>3 DEF StartSpan
  <2> QED
    BY <1>2, <2>1, <2>2
<1>4. ASSUME NEW s \in Spans, Attach(s)
      PROVE  TracesKept'
  <2>1. /\ span_to_run' = [span_to_run EXCEPT ![s] = s] /\ Joins(s, s)
        /\ missed' = missed /\ trace_root_ended' = trace_root_ended
    BY <1>4 DEF Attach, Register, Joins
  <2> QED
    BY <1>0, <1>2, <2>1
<1>5. ASSUME NEW s \in Spans, EndSpan(s)
      PROVE  TracesKept'
  <2>0. PICK left \in Nat, roots \in SUBSET Traces :
           /\ at[s] \in {"open", "unseen"} /\ Unregister(s)
           /\ left = IF trace_active_counts[Trace[s]] = 0 THEN 0 ELSE trace_active_counts[Trace[s]] - 1
           /\ roots = IF s \in span_to_run_started THEN trace_root_ended \cup {Trace[s]}
                                                   ELSE trace_root_ended
           /\ Forget(Trace[s], left, roots)
           /\ at' = [at EXCEPT ![s] = IF Trace[s] \in roots /\ left = 0 THEN "closing" ELSE "ended"]
    BY <1>5, EndSpanEffect, Zenon
  <2> SUFFICES ASSUME NEW t \in Traces, t \notin missed'
               PROVE  /\ \A x \in Spans : Trace[x] = t /\ span_to_run'[x] # NoRun =>
                             span_to_run'[x] = trace_to_run'[t]
                      /\ t \in trace_root_ended' =>
                             /\ trace_to_run'[t] \in Spans /\ Trace[trace_to_run'[t]] = t
                             /\ at'[trace_to_run'[t]] = "ended"
    BY DEF TracesKept
  <2>1. t \notin missed /\ span_to_run' = [span_to_run EXCEPT ![s] = NoRun]
        /\ (at[s] = "unseen" => t # Trace[s])
    BY <2>0 DEF Unregister, At
  <2>2. /\ \A x \in Spans : Trace[x] = t /\ span_to_run[x] # NoRun =>
               span_to_run[x] = trace_to_run[t]
        /\ t \in trace_root_ended =>
               /\ trace_to_run[t] \in Spans /\ Trace[trace_to_run[t]] = t
               /\ at'[trace_to_run[t]] = "ended"
    BY <1>1, <2>1 DEF TracesKept
  <2>3. CASE t # Trace[s]
    BY <1>0, <2>0, <2>1, <2>2, <2>3 DEF Forget
  <2>4. CASE t = Trace[s] /\ left = 0
    <3>1. at[s] = "open" /\ span_to_run[s] # NoRun
      BY <2>0, <2>1, <2>4 DEF SpansPlaced, Beginning
    <3>2. trace_active_counts[t] = Cardinality(Registered(t)) /\ s \in Registered(t)
      BY <2>1, <2>4, <3>1 DEF SpansCounted, Registered
    <3>3. Cardinality(Registered(t)) = 1
      <4>1. Cardinality(Registered(t)) # 0
        BY <3>2, RegisteredFinite, FS_EmptySet
      <4> QED
        BY <2>0, <2>4, <3>2, <4>1, RegisteredFinite
    <3>4. Registered(t) = {s}
      <4>1. Cardinality(Registered(t) \ {s}) = 0 /\ IsFiniteSet(Registered(t) \ {s})
        BY <3>2, <3>3, RegisteredFinite, FS_RemoveElement
      <4>2. Registered(t) \ {s} = {}
        BY <4>1, FS_EmptySet
      <4> QED
        BY <3>2, <4>2
    <3>5. \A x \in Spans : Trace[x] = t => span_to_run'[x] = NoRun
      BY <1>0, <2>1, <3>4 DEF Registered
    <3>6. t \notin trace_root_ended'
      BY <2>0, <2>4 DEF Forget
    <3> QED
      BY <3>5, <3>6
  <2>5. CASE t = Trace[s] /\ left # 0
    <3>1. trace_to_run' = trace_to_run /\ trace_root_ended' = roots /\ at'[s] = "ended"
      BY <1>0, <2>0, <2>5 DEF Forget
    <3>2. s \in span_to_run_started => trace_to_run[t] = s
      BY <1>0, <2>2, <2>5 DEF SpansPlaced
    <3>3. \A x \in Spans : Trace[x] = t /\ span_to_run'[x] # NoRun => span_to_run'[x] = trace_to_run'[t]
      BY <1>0, <2>1, <2>2, <3>1
    <3> QED
      BY <2>0, <2>2, <2>5, <3>1, <3>2, <3>3
  <2> QED
    BY <2>3, <2>4, <2>5
<1>6. ASSUME UNCHANGED <<trace_to_run, span_to_run, trace_root_ended, missed>>
      PROVE  TracesKept'
  BY <1>1, <1>6 DEF TracesKept
<1> QED
  BY <1>3, <1>4, <1>5, <1>6, RegistrySteps

LEMMA RuntimeInitially == Init => RuntimeInv
<1> SUFFICES ASSUME Init PROVE RuntimeInv
  OBVIOUS
<1>1. TypeOK
  BY TypeInit
<1>2. at \in [Processes -> {"unseen", "new", "out", "ended"}]
  BY DEF Init
<1>3. BusyHaveRun /\ SpansPlaced /\ UsersPlaced
  BY <1>2, RunTypes, RuntimeAssumption
     DEF Init, BusyHaveRun, SpansPlaced, UsersPlaced, Beginning, Ending
<1>4. RunsHeld /\ TracesKept /\ RunsApart
  BY RunTypes, RuntimeAssumption
     DEF Init, RunsHeld, TracesKept, RunsApart, Actors, Processes
<1>5. SpansCounted
  <2> SUFFICES ASSUME NEW t \in Traces
               PROVE  /\ trace_active_counts[t] <= Cardinality(Registered(t))
                      /\ t \notin missed => trace_active_counts[t] = Cardinality(Registered(t))
                      /\ trace_active_counts[t] = 0 => trace_to_run[t] = NoRun /\ t \notin trace_root_ended
    BY DEF SpansCounted
  <2>1. Registered(t) = {}
    BY DEF Init, Registered
  <2>2. Cardinality(Registered(t)) = 0
    BY <2>1, FS_EmptySet
  <2>3. trace_active_counts[t] = 0 /\ trace_to_run[t] = NoRun /\ t \notin trace_root_ended
    BY DEF Init
  <2> QED
    BY <2>2, <2>3
<1> QED
  BY <1>1, <1>3, <1>4, <1>5 DEF RuntimeInv

LEMMA RuntimeStep == RuntimeInv /\ [Next]_vars => RuntimeInv'
<1> SUFFICES ASSUME RuntimeInv, [Next]_vars PROVE RuntimeInv'
  OBVIOUS
<1> QED
  BY TypeStep, BusyHaveRunStep, SpansPlacedStep, UsersPlacedStep, RunsHeldStep, TracesKeptStep,
     RunsApartStep, SpansCountedStep
     DEF RuntimeInv

LEMMA RuntimeInvariant == Spec => []RuntimeInv
BY RuntimeInitially, RuntimeStep, PTL DEF Spec

\* The fields of the client, of the registry and of contexts keep their types.
THEOREM TypeCorrect == Spec => []TypeOK
<1>1. RuntimeInv => TypeOK
  BY DEF RuntimeInv
<1> QED
  BY <1>1, RuntimeInvariant, PTL

\* In whatever order spans start and end, the count of a trace is that of its
\* registered spans unless one was missed, and never more.
THEOREM SpansAreCounted == Spec => []SpansCounted
<1>1. RuntimeInv => SpansCounted
  BY DEF RuntimeInv
<1> QED
  BY <1>1, RuntimeInvariant, PTL

-----------------------------------------------------------------------------
(* Runs are queued as started and ended once, and in this order.           *)

LEMMA LogValues ==
    /\ Nothing # Begun /\ Nothing # Over /\ Begun # Over
    /\ Append(Nothing, "start") = Begun /\ Append(Begun, "end") = Over
<1>1. Len(Nothing) = 0 /\ Len(Begun) = 1 /\ Len(Over) = 2
  BY DEF Nothing, Begun, Over
<1>2. Append(Nothing, "start") = Begun
  BY DEF Nothing, Begun
<1>3. Append(Begun, "end") = Over
  <2>1. Begun \in Seq({"start", "end"}) /\ Over \in Seq({"start", "end"})
    BY DEF Begun, Over
  <2>2. Append(Begun, "end") \in Seq({"start", "end"}) /\ Len(Append(Begun, "end")) = Len(Over)
    <3>1. "end" \in {"start", "end"} /\ 1 + 1 = 2
      OBVIOUS
    <3>2. /\ Append(Begun, "end") \in Seq({"start", "end"})
          /\ Len(Append(Begun, "end")) = Len(Begun) + 1
      BY <2>1, <3>1, AppendProperties
    <3> QED
      BY <1>1, <3>1, <3>2
  <2>3. Append(Begun, "end")[1] = "start" /\ Append(Begun, "end")[2] = "end"
    BY <1>1, <2>1, AppendProperties DEF Begun
  <2>4. Over[1] = "start" /\ Over[2] = "end"
    BY DEF Over
  <2>5. \A i \in 1..Len(Over) : i = 1 \/ i = 2
    BY <1>1
  <2>6. \A i \in 1..Len(Over) : Append(Begun, "end")[i] = Over[i]
    BY <2>3, <2>4, <2>5
  <2> QED
    BY <2>1, <2>2, <2>6, SeqEqual
<1> QED
  BY <1>1, <1>2, <1>3

\* A run that anybody has is the one's that it is named by ...
LEMMA HeldByOwner ==
    ASSUME NEW o, NEW r, Names(o, r), Held(r)
    PROVE  run[o] = r
BY RuntimeAssumption DEF Names, Held

\* ... and nobody else begins it.
LEMMA OwnerBegins ==
    ASSUME SpansPlaced, UsersPlaced, NEW o, NEW r, Names(o, r),
           NEW p \in Actors, at[p] \in Beginning, run[p] = r
    PROVE  p = o
<1>1. CASE p \in Spans
  <2>1. span_to_run[p] = p /\ run[p] = p
    BY <1>1, RuntimeAssumption DEF SpansPlaced
  <2> QED
    BY <1>1, <2>1, RuntimeAssumption DEF Names
<1>2. CASE p \in Users
  BY <1>2, RuntimeAssumption DEF Names, UsersPlaced, Beginning
<1> QED
  BY <1>1, <1>2 DEF Actors

\* A run that is not its owner's yet is nobody's, and nobody will end it.
LEMMA NotOwnersYet ==
    ASSUME NEW o, NEW r, Paired(o, r), run[o] # r
    PROVE  /\ log[r] = Nothing /\ r \notin started_runs /\ ~WillEnd(o)
           /\ \A p \in Actors : ~IsEnder(p, r)
BY LogValues DEF Paired

\* Nobody waits for the end of a span that has not started.
LEMMA JoiningKeepsPaired ==
    ASSUME RuntimeInv, NEW o \in Actors, NEW r \in Runs, Names(o, r), Undisturbed(r)', Paired(o, r),
           NEW s \in Spans, StartSpan(s) \/ Attach(s)
    PROVE  Paired(o, r)'
<1>0. /\ at \in [Processes -> Places] /\ run \in [Processes -> Runs \cup {NoRun}]
      /\ trace_to_run \in [Traces -> Runs \cup {NoRun}] /\ NoRun \notin Runs
      /\ Actors \subseteq Processes /\ s \in Actors /\ s \in Runs
      /\ Spans \cap Users = {} /\ \A x \in Spans : Trace[x] \in Traces
      /\ (o \in Spans => r = o) /\ (o \in Users => r = Name[o])
  BY RunTypes, RuntimeAssumption DEF RuntimeInv, TypeOK, Actors, Processes, Names
<1>1. PICK q \in Runs :
         /\ run' = [run EXCEPT ![s] = q]
         /\ \/ trace_to_run' = trace_to_run
            \/ /\ trace_to_run[Trace[s]] = NoRun
               /\ trace_to_run' = [trace_to_run EXCEPT ![Trace[s]] = q]
         /\ \/ /\ q = s /\ span_to_run_started' = span_to_run_started \cup {s}
               /\ at' \in {[at EXCEPT ![s] = "announce"], [at EXCEPT ![s] = "starting"]}
            \/ /\ span_to_run_started' = span_to_run_started
               /\ at' = [at EXCEPT ![s] = "open"]
  <2>1. CASE StartSpan(s)
    BY <2>1, StartSpanEffect DEF RuntimeInv, Joins
  <2>2. CASE Attach(s)
    BY <1>0, <2>2 DEF Attach, Goto
  <2> QED
    BY <2>1, <2>2
<1>2. /\ run[s] = NoRun /\ at[s] \in {"new", "unseen"} /\ s \notin span_to_run_started
      /\ UNCHANGED <<trace_root_ended, missed, log, started_runs>>
  BY RuntimeAssumption, RunTypes
     DEF StartSpan, Attach, At, runs, RuntimeInv, SpansPlaced, Beginning
<1>3. \A p \in Actors : IsEnder(p, r)' <=> IsEnder(p, r)
  BY <1>0, <1>1, <1>2 DEF IsEnder, Ending
<1>4. trace_to_run[Trace[s]] = NoRun /\ q = r => Trace[s] \notin trace_root_ended
  <2> SUFFICES ASSUME trace_to_run[Trace[s]] = NoRun, q = r
               PROVE  Trace[s] \notin trace_root_ended
    OBVIOUS
  <2>1. run'[s] = r
    BY <1>0, <1>1
  <2>2. Trace[s] \notin missed
    BY <1>2, <2>1 DEF Undisturbed
  <2>3. NoRun \notin Spans
    BY <1>0, RunTypes
  <2> QED
    BY <1>0, <2>2, <2>3 DEF RuntimeInv, TracesKept
<1>5. CASE s = o
  <2>1. run[o] # r
    BY <1>0, <1>2, <1>5
  <2>2. /\ log[r] = Nothing /\ r \notin started_runs /\ ~WillEnd(o)
        /\ \A p \in Actors : ~IsEnder(p, r)
    BY <2>1, NotOwnersYet
  <2>3. at'[o] # "open" \/ o \notin span_to_run_started'
    BY <1>0, <1>1, <1>2, <1>5
  <2>4. trace_to_run[Trace[o]] # o
    <3>1. trace_to_run[Trace[o]] = o => Held(o)
      BY <1>0, <1>5 DEF RuntimeInv, RunsHeld
    <3> QED
      BY <1>0, <1>5, <2>1, <3>1, HeldByOwner
  <2>5. ~(Trace[o] \in trace_root_ended /\ trace_to_run'[Trace[o]] = o)
    BY <1>0, <1>1, <1>4, <1>5, <2>4
  <2>6. ~WillEnd(o)'
    BY <1>0, <1>2, <1>5, <2>3, <2>5 DEF WillEnd
  <2>7. at'[o] # "started"
    BY <1>0, <1>1, <1>5
  <2> QED
    BY <1>2, <1>3, <2>2, <2>6, <2>7 DEF Paired
<1>6. CASE s # o
  <2>1. run'[o] = run[o] /\ at'[o] = at[o]
    BY <1>0, <1>1, <1>6
  <2>2. WillEnd(o)' => WillEnd(o)
    <3>1. o \in span_to_run_started' => o \in span_to_run_started
      BY <1>1, <1>6
    <3>2. o \in Spans /\ Trace[o] \in trace_root_ended /\ trace_to_run'[Trace[o]] = o =>
              trace_to_run[Trace[o]] = o
      BY <1>0, <1>1, <1>4
    <3> QED
      BY <1>2, <2>1, <3>1, <3>2 DEF WillEnd
  <2> QED
    BY <1>2, <1>3, <2>1, <2>2 DEF Paired
<1> QED
  BY <1>5, <1>6

\* The last open span of a trace ends its run, and it is the only one to do so.
LEMMA EndSpanKeepsPaired ==
    ASSUME RuntimeInv, NEW o \in Actors, NEW r \in Runs, Names(o, r), Undisturbed(r)', Paired(o, r),
           NEW s \in Spans, EndSpan(s)
    PROVE  Paired(o, r)'
<1>0. /\ at \in [Processes -> Places] /\ run \in [Processes -> Runs \cup {NoRun}]
      /\ span_to_run \in [Spans -> Runs \cup {NoRun}]
      /\ trace_to_run \in [Traces -> Runs \cup {NoRun}] /\ NoRun \notin Runs
      /\ Actors \subseteq Processes /\ s \in Actors /\ s \in Runs
      /\ Spans \cap Users = {} /\ \A x \in Spans : Trace[x] \in Traces
      /\ (o \in Spans => r = o) /\ (o \in Users => r = Name[o] /\ r \notin Spans)
  BY RunTypes, RuntimeAssumption DEF RuntimeInv, TypeOK, Actors, Processes, Names
<1> DEFINE t == Trace[s]
<1>1. PICK q \in Runs, left \in Nat, roots \in SUBSET Traces :
         /\ at[s] \in {"open", "unseen"} /\ Unregister(s)
         /\ roots = IF s \in span_to_run_started THEN trace_root_ended \cup {t}
                                                 ELSE trace_root_ended
         /\ Forget(t, left, roots)
         /\ run' = [run EXCEPT ![s] = q]
         /\ span_to_run[s] # NoRun => q = span_to_run[s]
         /\ at' = [at EXCEPT ![s] = IF t \in roots /\ left = 0 THEN "closing" ELSE "ended"]
  BY EndSpanEffect DEF RuntimeInv
<1>2. /\ span_to_run_started' = span_to_run_started \ {s} /\ UNCHANGED <<log, started_runs>>
      /\ missed' = IF at[s] = "unseen" THEN missed \cup {t} ELSE missed
      /\ trace_to_run' \in {trace_to_run, [trace_to_run EXCEPT ![t] = NoRun]}
      /\ trace_root_ended' = IF left = 0 THEN roots \ {t} ELSE roots
  BY <1>1 DEF EndSpan, Unregister, Forget, At, runs
<1>3. /\ at[s] = "unseen" => s \notin span_to_run_started /\ run[s] = NoRun
      /\ at[s] = "open" => span_to_run[s] # NoRun /\ run[s] = span_to_run[s] /\ q = run[s]
      /\ s \in span_to_run_started => span_to_run[s] = s
  BY <1>0, <1>1 DEF RuntimeInv, SpansPlaced, Beginning
<1>4. \A x \in Traces : trace_to_run[x] = r => run[o] = r
  BY <1>0, HeldByOwner DEF RuntimeInv, RunsHeld
<1>5. q = r => at[s] = "open" /\ t \notin missed
  <2> SUFFICES ASSUME q = r PROVE at[s] = "open" /\ t \notin missed
    OBVIOUS
  <2>1. run'[s] = r
    BY <1>0, <1>1
  <2>2. t \notin missed'
    BY <2>1 DEF Undisturbed
  <2> QED
    BY <1>1, <1>2, <2>2
<1>6. CASE q # r
  <2>1. \A p \in Actors : IsEnder(p, r)' <=> IsEnder(p, r)
    BY <1>0, <1>1, <1>3, <1>6 DEF IsEnder, Ending
  <2>2. CASE s = o
    <3>1. run[o] # r
      BY <1>0, <1>1, <1>3, <1>6, <2>2
    <3>2. /\ log[r] = Nothing /\ r \notin started_runs /\ ~WillEnd(o)
          /\ \A p \in Actors : ~IsEnder(p, r)
      BY <3>1, NotOwnersYet
    <3>3. trace_to_run'[Trace[o]] # o
      BY <1>0, <1>2, <1>4, <2>2, <3>1
    <3>4. ~WillEnd(o)'
      BY <1>0, <1>2, <2>2, <3>3 DEF WillEnd
    <3>5. at'[o] # "started"
      BY <1>0, <1>1, <2>2
    <3> QED
      BY <1>2, <2>1, <3>2, <3>4, <3>5 DEF Paired
  <2>3. CASE s # o
    <3>1. run'[o] = run[o] /\ at'[o] = at[o]
      BY <1>0, <1>1, <2>3
    <3>2. o \in Spans /\ Trace[o] \in trace_root_ended' /\ trace_to_run'[Trace[o]] = o =>
              Trace[o] \in trace_root_ended /\ trace_to_run[Trace[o]] = o
      <4> SUFFICES ASSUME o \in Spans, Trace[o] \in trace_root_ended', trace_to_run'[Trace[o]] = o
                   PROVE  Trace[o] \in trace_root_ended /\ trace_to_run[Trace[o]] = o
        OBVIOUS
      <4>1. trace_to_run[Trace[o]] = o
        BY <1>0, <1>2
      <4>2. run'[o] = o
        BY <1>0, <1>4, <3>1, <4>1
      <4>3. Trace[o] \notin missed
        BY <1>0, <1>2, <4>2 DEF Undisturbed
      <4>4. CASE s \in span_to_run_started /\ t = Trace[o]
        <5>1. span_to_run[s] = trace_to_run[t]
          BY <1>0, <1>3, <4>3, <4>4 DEF RuntimeInv, TracesKept
        <5> QED
          BY <1>3, <2>3, <4>1, <4>4, <5>1
      <4> QED
        BY <1>1, <1>2, <4>1, <4>4
    <3>3. WillEnd(o)' => WillEnd(o)
      BY <1>2, <3>1, <3>2 DEF WillEnd
    <3> QED
      BY <1>2, <2>1, <3>1, <3>3 DEF Paired
  <2> QED
    BY <2>2, <2>3
<1>7. CASE q = r
  <2>1. /\ at[s] = "open" /\ span_to_run[s] = r /\ run[s] = r /\ trace_to_run[t] = r
    BY <1>0, <1>3, <1>5, <1>7 DEF RuntimeInv, TracesKept
  <2>2. run[o] = r /\ run' = run
    BY <1>0, <1>1, <1>4, <1>7, <2>1
  <2>3. t \in trace_root_ended => o \in Spans /\ r = o /\ t = Trace[o] /\ at[o] = "ended"
    BY <1>0, <1>5, <1>7, <2>1 DEF RuntimeInv, TracesKept, Actors
  <2>4. s \in span_to_run_started => s = o
    BY <1>0, <1>3, <2>1 DEF Actors
  <2>5. ~IsEnder(s, r)
    BY <2>1 DEF IsEnder, Ending
  <2>6. CASE t \in roots
    <3>1. WillEnd(o)
      BY <1>1, <2>1, <2>3, <2>4, <2>6 DEF WillEnd
    <3>2. log[r] = Begun /\ \A p \in Actors : ~IsEnder(p, r)
      BY <3>1 DEF Paired
    <3>3. o \in Spans /\ r = o /\ t = Trace[o]
      BY <1>0, <1>1, <2>3, <2>4, <2>6
    <3>4. CASE left = 0
      <4>1. \A p \in Actors : IsEnder(p, r)' => p = s
        BY <1>0, <1>1, <2>2, <3>2 DEF IsEnder
      <4>2. ~WillEnd(o)'
        <5>1. Trace[o] \notin trace_root_ended'
          BY <1>2, <3>3, <3>4
        <5>2. ~(o \in span_to_run_started' /\ at'[o] = "open")
          BY <1>0, <1>1, <1>2, <2>3, <2>4, <2>6
        <5> QED
          BY <1>0, <3>3, <5>1, <5>2 DEF WillEnd
      <4>3. at'[o] \notin {"announce", "starting", "started"}
        <5>1. at[o] \notin {"announce", "starting", "started"}
          BY <2>2, <3>2, LogValues DEF Paired
        <5> QED
          BY <1>0, <1>1, <5>1
      <4> QED
        BY <1>0, <1>2, <2>2, <3>2, <3>3, <4>1, <4>2, <4>3 DEF Paired
    <3>5. CASE left # 0
      <4>1. \A p \in Actors : ~IsEnder(p, r)'
        BY <1>0, <1>1, <2>2, <3>2, <3>5 DEF IsEnder, Ending
      <4>2. at'[o] \notin {"announce", "starting", "started"}
        <5>1. at[o] \notin {"announce", "starting", "started"}
          BY <2>2, <3>2, LogValues DEF Paired
        <5> QED
          BY <1>0, <1>1, <3>5, <5>1
      <4> QED
        BY <1>2, <2>2, <3>2, <4>1, <4>2 DEF Paired
    <3> QED
      BY <3>4, <3>5
  <2>7. CASE t \notin roots
    <3>1. at' = [at EXCEPT ![s] = "ended"] /\ t \notin trace_root_ended /\ s \notin span_to_run_started
          /\ trace_root_ended' \subseteq trace_root_ended /\ span_to_run_started' = span_to_run_started
      BY <1>1, <1>2, <2>7
    <3>2. \A p \in Actors : IsEnder(p, r)' <=> IsEnder(p, r)
      BY <1>0, <2>2, <2>5, <3>1 DEF IsEnder, Ending
    <3>3. WillEnd(o)' => WillEnd(o)
      BY <1>0, <1>2, <2>2, <3>1 DEF WillEnd
    <3>4. at'[o] = at[o] \/ at'[o] = "ended"
      BY <1>0, <3>1
    <3> QED
      BY <1>2, <2>2, <3>2, <3>3, <3>4 DEF Paired
  <2> QED
    BY <2>6, <2>7
<1> QED
  BY <1>6, <1>7

\* A user ends the run that it began, and no other.
LEMMA ContextKeepsPaired ==
    ASSUME RuntimeInv, NEW o \in Actors, NEW r \in Runs, Names(o, r), Paired(o, r), client = "live",
           \/ \E s \in Spans : Dispatch(s)
           \/ \E u \in Users : Enter(u) \/ EmitImplicit(u) \/ Leave(u)
    PROVE  Paired(o, r)'
<1>0. /\ at \in [Processes -> Places] /\ run \in [Processes -> Runs \cup {NoRun}]
      /\ trace_to_run \in [Traces -> Runs \cup {NoRun}] /\ NoRun \notin Runs
      /\ Actors \subseteq Processes /\ Spans \subseteq Actors /\ Users \subseteq Actors
      /\ span_to_run_started \subseteq Spans
      /\ Spans \cap Users = {} /\ \A x \in Spans : Trace[x] \in Traces
      /\ \A u \in Users : Name[u] \in Runs \ Spans
      /\ (o \in Spans => r = o) /\ (o \in Users => r = Name[o] /\ r \notin Spans)
      /\ \A u \in Users : Name[u] = r => u = o
  BY RunTypes, RuntimeAssumption DEF RuntimeInv, TypeOK, Actors, Processes, Names
<1>1. ASSUME NEW s \in Spans, Dispatch(s)
      PROVE  Paired(o, r)'
  <2>1. /\ \/ at[s] = "announce" /\ at' = [at EXCEPT ![s] = "starting"]
           \/ at[s] = "closing" /\ at' = [at EXCEPT ![s] = "finishing"]
        /\ UNCHANGED <<registry, runs, run, log>>
    BY <1>1 DEF Dispatch, At, Goto
  <2>2. UNCHANGED <<trace_to_run, span_to_run_started, trace_root_ended, started_runs, run, log>>
    BY <2>1 DEF registry, runs
  <2>3. \A p \in Actors : IsEnder(p, r)' <=> IsEnder(p, r)
    BY <1>0, <2>1, <2>2 DEF IsEnder, Ending
  <2>4. WillEnd(o)' => WillEnd(o)
    BY <1>0, <2>1, <2>2 DEF WillEnd
  <2>5. /\ at'[o] \in {"announce", "starting"} => at[o] \in {"announce", "starting"}
        /\ at'[o] = "started" => at[o] = "started"
    BY <1>0, <2>1
  <2> QED
    BY <2>2, <2>3, <2>4, <2>5 DEF Paired
<1>2. ASSUME NEW u \in Users, Enter(u) \/ EmitImplicit(u)
      PROVE  Paired(o, r)'
  <2>1. PICK q \in Runs :
           /\ run' = [run EXCEPT ![u] = q]
           /\ at' \in {[at EXCEPT ![u] = "starting"], [at EXCEPT ![u] = "open"]}
           /\ \/ q = Name[u] /\ at' = [at EXCEPT ![u] = "starting"]
              \/ \E t \in Traces : trace_to_run[t] = q
    <3>1. CASE EmitImplicit(u)
      BY <1>0, <3>1 DEF EmitImplicit, Goto
    <3>2. CASE Enter(u) /\ TraceRun(u) = NoRun
      BY <1>0, <3>2 DEF Enter, Goto, Or
    <3>3. CASE Enter(u) /\ TraceRun(u) # NoRun
      <4>1. \E t \in Traces : trace_to_run[t] = TraceRun(u) /\ TraceRun(u) \in Runs
        BY <1>0, <3>3, RuntimeAssumption DEF TraceRun
      <4>2. run' = [run EXCEPT ![u] = TraceRun(u)] /\ at' = [at EXCEPT ![u] = "open"]
        BY <3>3 DEF Enter, Goto, Or
      <4> QED
        BY <4>1, <4>2
    <3> QED
      BY <1>2, <3>1, <3>2, <3>3
  <2>2. /\ run[u] = NoRun /\ at[u] = "out"
        /\ UNCHANGED <<trace_to_run, span_to_run_started, trace_root_ended, started_runs, log>>
    BY <1>2 DEF Enter, EmitImplicit, At, registry, runs, RuntimeInv, UsersPlaced
  <2>3. \A p \in Actors : IsEnder(p, r)' <=> IsEnder(p, r)
    BY <1>0, <2>1, <2>2 DEF IsEnder, Ending
  <2>4. CASE u = o
    <3>1. run[o] # r
      BY <1>0, <2>2, <2>4
    <3>2. /\ log[r] = Nothing /\ r \notin started_runs /\ ~WillEnd(o)
          /\ \A p \in Actors : ~IsEnder(p, r)
      BY <3>1, NotOwnersYet
    <3>3. ~(at'[o] = "open" /\ run'[o] = Name[o])
      <4>1. ~\E t \in Traces : trace_to_run[t] = r
        BY <1>0, <3>1, HeldByOwner DEF RuntimeInv, RunsHeld
      <4> QED
        BY <1>0, <2>1, <2>4, <4>1
    <3>4. ~WillEnd(o)'
      BY <1>0, <2>2, <2>4, <3>3 DEF WillEnd
    <3>5. at'[o] # "started"
      BY <1>0, <2>1, <2>4
    <3> QED
      BY <2>2, <2>3, <3>2, <3>4, <3>5 DEF Paired
  <2>5. CASE u # o
    <3>1. run'[o] = run[o] /\ at'[o] = at[o]
      BY <1>0, <2>1, <2>5
    <3>2. WillEnd(o)' => WillEnd(o)
      BY <2>2, <3>1 DEF WillEnd
    <3> QED
      BY <2>2, <2>3, <3>1, <3>2 DEF Paired
  <2> QED
    BY <2>4, <2>5
<1>3. ASSUME NEW u \in Users, Leave(u)
      PROVE  Paired(o, r)'
  <2>1. /\ at[u] = "open"
        /\ at' = [at EXCEPT ![u] = IF u \in owners THEN "finishing" ELSE "ended"]
        /\ UNCHANGED <<trace_to_run, span_to_run_started, trace_root_ended, started_runs, log, run>>
    BY <1>3 DEF Leave, Goto, At, registry, runs
  <2>2. CASE u \in owners /\ run[u] = r
    <3>1. u = o /\ o \in Users
      BY <1>0, <2>2 DEF RuntimeInv, UsersPlaced
    <3>2. WillEnd(o)
      BY <1>0, <2>1, <2>2, <3>1 DEF WillEnd
    <3>3. log[r] = Begun /\ \A p \in Actors : ~IsEnder(p, r)
      BY <3>2 DEF Paired
    <3>4. ~WillEnd(o)'
      BY <1>0, <2>1, <2>2, <3>1 DEF WillEnd
    <3>5. \A p \in Actors : IsEnder(p, r)' => p = o
      BY <1>0, <2>1, <3>1, <3>3 DEF IsEnder
    <3>6. at'[o] = "finishing" /\ run'[o] = r
      BY <1>0, <2>1, <2>2, <3>1
    <3> QED
      BY <2>1, <3>3, <3>4, <3>5, <3>6 DEF Paired
  <2>3. CASE ~(u \in owners /\ run[u] = r)
    <3>1. \A p \in Actors : IsEnder(p, r)' <=> IsEnder(p, r)
      BY <1>0, <2>1, <2>3 DEF IsEnder, Ending
    <3>2. WillEnd(o)' => WillEnd(o)
      BY <1>0, <2>1 DEF WillEnd
    <3>3. at'[o] = at[o] \/ at'[o] \in {"finishing", "ended"}
      BY <1>0, <2>1
    <3> QED
      BY <2>1, <3>1, <3>2, <3>3 DEF Paired
  <2> QED
    BY <2>2, <2>3
<1> QED
  BY <1>1, <1>2, <1>3

\* The owner of a run queues its start, and whoever ends it the end.
LEMMA ObserveKeepsPaired ==
    ASSUME RuntimeInv, NEW o \in Actors, NEW r \in Runs, Names(o, r), Paired(o, r), client = "live",
           NEW p \in Actors, Observe(p)
    PROVE  Paired(o, r)'
<1>0. /\ at \in [Processes -> Places] /\ run \in [Processes -> Runs \cup {NoRun}]
      /\ log \in [Runs -> Seq({"start", "end"})] /\ p \in Processes /\ Actors \subseteq Processes
      /\ Spans \cap Users = {} /\ (o \in Spans => r = o) /\ (o \in Users => r = Name[o] /\ r \notin Spans)
  BY RunTypes, RuntimeAssumption DEF RuntimeInv, TypeOK, Actors, Processes, Names
<1>1. /\ UNCHANGED <<trace_to_run, span_to_run_started, trace_root_ended, run>>
      /\ at[p] \in Beginning \cup Ending /\ run[p] \in Runs
  <2>1. UNCHANGED <<trace_to_run, span_to_run_started, trace_root_ended, run>>
        /\ at[p] \in Beginning \cup Ending
    BY DEF Observe, ObserveRunStart, EmitRunStart, ObserveRunEnd, EmitRunEnd, registry, At,
           Beginning, Ending
  <2> QED
    BY <1>0, <2>1 DEF RuntimeInv, BusyHaveRun
<1>2. at[p] \in Beginning /\ run[p] = r => p = o
  BY OwnerBegins DEF RuntimeInv
<1>3. p = o /\ run[o] # r => ~WillEnd(o)'
  <2> SUFFICES ASSUME p = o, run[o] # r PROVE ~WillEnd(o)'
    OBVIOUS
  <2>1. ~WillEnd(o)
    BY NotOwnersYet
  <2>2. o \in span_to_run_started => run[o] = o
    BY RunTypes DEF RuntimeInv, SpansPlaced, TypeOK
  <2>3. o \in Spans \/ o \notin span_to_run_started
    BY DEF RuntimeInv, TypeOK
  <2> QED
    BY <1>0, <1>1, <2>1, <2>2, <2>3 DEF WillEnd
<1>4. ASSUME ObserveRunStart(p)
      PROVE  Paired(o, r)'
  <2>1. /\ at[p] = "starting" /\ started_runs' = started_runs \cup {run[p]} /\ log' = log
        /\ at' = [at EXCEPT ![p] = IF run[p] \in started_runs THEN "open" ELSE "started"]
    BY <1>4 DEF ObserveRunStart, At, Goto
  <2>2. \A x \in Actors : IsEnder(x, r)' <=> IsEnder(x, r)
    BY <1>0, <1>1, <2>1 DEF IsEnder, Ending
  <2>3. CASE run[p] = r
    <3>1. p = o
      BY <1>2, <2>1, <2>3 DEF Beginning
    <3>2. log[r] = Nothing /\ r \notin started_runs
      BY <2>1, <2>3, <3>1 DEF Paired
    <3>3. ~WillEnd(o)
      BY <3>2, LogValues DEF Paired
    <3>4. at'[o] = "started"
      BY <1>0, <2>1, <2>3, <3>1, <3>2
    <3>5. ~WillEnd(o)'
      BY <1>1, <3>3, <3>4 DEF WillEnd
    <3> QED
      BY <1>1, <2>1, <2>2, <2>3, <3>1, <3>2, <3>4, <3>5, LogValues DEF Paired
  <2>4. CASE run[p] # r
    <3>1. r \in started_runs' <=> r \in started_runs
      BY <2>1, <2>4
    <3>2. CASE p = o
      <4>1. ~WillEnd(o)' /\ run[o] # r
        BY <1>3, <2>4, <3>2
      <4> QED
        BY <1>1, <2>1, <2>2, <3>1, <4>1 DEF Paired
    <3>3. CASE p # o
      <4>1. at'[o] = at[o]
        BY <1>0, <2>1, <3>3
      <4>2. WillEnd(o)' <=> WillEnd(o)
        BY <1>1, <4>1 DEF WillEnd
      <4> QED
        BY <1>1, <2>1, <2>2, <3>1, <4>1, <4>2 DEF Paired
    <3> QED
      BY <3>2, <3>3
  <2> QED
    BY <2>3, <2>4
<1>5. ASSUME EmitRunStart(p)
      PROVE  Paired(o, r)'
  <2>1. /\ at[p] = "started" /\ started_runs' = started_runs
        /\ log' = [log EXCEPT ![run[p]] = Append(log[run[p]], "start")]
        /\ at' = [at EXCEPT ![p] = "open"]
    BY <1>5 DEF EmitRunStart, Emit, At, Goto, runs
  <2>2. \A x \in Actors : IsEnder(x, r)' <=> IsEnder(x, r)
    BY <1>0, <1>1, <2>1 DEF IsEnder, Ending
  <2>3. CASE run[p] = r
    <3>1. p = o
      BY <1>2, <2>1, <2>3 DEF Beginning
    <3>2. log[r] = Nothing
      BY <2>1, <2>3, <3>1 DEF Paired
    <3>3. \A x \in Actors : ~IsEnder(x, r)
      BY <3>2, LogValues DEF Paired
    <3>4. log'[r] = Begun
      BY <1>0, <1>1, <2>1, <2>3, <3>2, LogValues
    <3>5. at'[o] = "open" /\ run'[o] = r
      BY <1>0, <1>1, <2>1, <2>3, <3>1
    <3> QED
      BY <2>2, <3>3, <3>4, <3>5 DEF Paired
  <2>4. CASE run[p] # r
    <3>1. log'[r] = log[r]
      BY <1>0, <2>1, <2>4
    <3>2. CASE p = o
      <4>1. ~WillEnd(o)' /\ run[o] # r
        BY <1>3, <2>4, <3>2
      <4> QED
        BY <1>1, <2>1, <2>2, <3>1, <4>1 DEF Paired
    <3>3. CASE p # o
      <4>1. at'[o] = at[o]
        BY <1>0, <2>1, <3>3
      <4>2. WillEnd(o)' <=> WillEnd(o)
        BY <1>1, <4>1 DEF WillEnd
      <4> QED
        BY <1>1, <2>1, <2>2, <3>1, <4>1, <4>2 DEF Paired
    <3> QED
      BY <3>2, <3>3
  <2> QED
    BY <2>3, <2>4
<1>6. ASSUME ObserveRunEnd(p)
      PROVE  Paired(o, r)'
  <2>1. /\ at[p] = "finishing" /\ started_runs' \subseteq started_runs /\ log' = log
        /\ at' \in {[at EXCEPT ![p] = "ended"], [at EXCEPT ![p] = "finished"]}
    BY <1>6 DEF ObserveRunEnd, At, Goto, runs
  <2>2. \A x \in Actors : IsEnder(x, r)' => IsEnder(x, r)
    BY <1>0, <1>1, <2>1 DEF IsEnder, Ending
  <2>3. WillEnd(o)' => WillEnd(o)
    BY <1>0, <1>1, <2>1 DEF WillEnd
  <2>4. at'[o] = at[o] \/ at'[o] \in {"ended", "finished"}
    BY <1>0, <2>1
  <2> QED
    BY <1>1, <2>1, <2>2, <2>3, <2>4 DEF Paired
<1>7. ASSUME EmitRunEnd(p)
      PROVE  Paired(o, r)'
  <2>1. /\ at[p] = "finished" /\ started_runs' = started_runs
        /\ log' = [log EXCEPT ![run[p]] = Append(log[run[p]], "end")]
        /\ at' = [at EXCEPT ![p] = "ended"]
    BY <1>7 DEF EmitRunEnd, Emit, At, Goto, runs
  <2>2. \A x \in Actors : IsEnder(x, r)' <=> IsEnder(x, r) /\ x # p
    BY <1>0, <1>1, <2>1 DEF IsEnder, Ending
  <2>3. WillEnd(o)' => WillEnd(o)
    BY <1>0, <1>1, <2>1 DEF WillEnd
  <2>4. at'[o] = at[o] \/ at'[o] = "ended"
    BY <1>0, <2>1
  <2>5. CASE run[p] = r
    <3>1. IsEnder(p, r)
      BY <2>1, <2>5 DEF IsEnder, Ending
    <3>2. /\ log[r] = Begun /\ \A x \in Actors : IsEnder(x, r) => x = p
      BY <3>1 DEF Paired
    <3>3. log'[r] = Over
      BY <1>0, <1>1, <2>1, <2>5, <3>2, LogValues
    <3>4. ~WillEnd(o)
      BY <3>1 DEF Paired
    <3>5. run[o] = r /\ at[o] \notin {"announce", "starting", "started"}
      BY <3>2, LogValues DEF Paired
    <3> QED
      BY <1>1, <2>2, <2>3, <2>4, <3>2, <3>3, <3>4, <3>5 DEF Paired
  <2>6. CASE run[p] # r
    <3>1. log'[r] = log[r]
      BY <1>0, <2>1, <2>6
    <3> QED
      BY <1>1, <2>1, <2>2, <2>3, <2>4, <3>1 DEF Paired
  <2> QED
    BY <2>5, <2>6
<1> QED
  BY <1>4, <1>5, <1>6, <1>7 DEF Observe

\* The call of shutdown is not under way before the runs have been collected.
LEMMA CloserIdleStep ==
    ASSUME TypeOK, CloserIdle, [Next]_vars
    PROVE  CloserIdle'
<1>0. at \in [Processes -> Places] /\ Closer \in Processes /\ Closer \notin Spans \cup Users
  BY RuntimeAssumption, RunTypes DEF TypeOK
<1>1. ASSUME NEW s \in Spans, StartSpan(s) \/ Attach(s) \/ EndSpan(s) \/ Dispatch(s)
      PROVE  CloserIdle'
  BY <1>0, <1>1 DEF StartSpan, Attach, EndSpan, Dispatch, Goto, CloserIdle
<1>2. ASSUME NEW u \in Users, Enter(u) \/ EmitImplicit(u) \/ Leave(u)
      PROVE  CloserIdle'
  BY <1>0, <1>2 DEF Enter, EmitImplicit, Leave, Goto, CloserIdle
<1>3. ASSUME NEW p \in Processes, Observe(p)
      PROVE  CloserIdle'
  <2>1. at[p] \in {"starting", "started", "finishing", "finished"} /\ client' = client
        /\ \E l : at' = [at EXCEPT ![p] = l]
    BY <1>3 DEF Observe, ObserveRunStart, EmitRunStart, ObserveRunEnd, EmitRunEnd, At, Goto
  <2> QED
    BY <1>0, <2>1 DEF CloserIdle
<1>4. ASSUME Shutdown \/ CollectRuns \/ ClientGone
      PROVE  CloserIdle'
  BY <1>4 DEF Shutdown, CollectRuns, ClientGone, CloserIdle
<1>5. ASSUME NEW r \in Runs, EndOpenRun(r)
      PROVE  CloserIdle'
  BY <1>5 DEF EndOpenRun, CloserIdle
<1>6. CASE UNCHANGED vars
  BY <1>6 DEF vars, CloserIdle
<1> QED
  BY <1>1, <1>2, <1>3, <1>4, <1>5, <1>6 DEF Next

\* A run that a missed span disturbs stays disturbed.
LEMMA UndisturbedBefore ==
    ASSUME RuntimeInv, [Next]_vars, NEW r \in Runs, Undisturbed(r)'
    PROVE  Undisturbed(r)
<1>1. missed \subseteq missed'
  BY DEF Next, StartSpan, Attach, EndSpan, Unregister, Dispatch, Enter, EmitImplicit, Leave, Observe,
         ObserveRunStart, EmitRunStart, ObserveRunEnd, EmitRunEnd, Shutdown, CollectRuns, EndOpenRun,
         ClientGone, vars
<1>2. \A s \in Spans : run[s] = r => run'[s] = r
  BY RunGivenOnce, RunTypes DEF RuntimeInv, Actors
<1> QED
  BY <1>1, <1>2 DEF Undisturbed

LEMMA AllPairedStep ==
    ASSUME RuntimeInv, CloserIdle, AllPaired, [Next]_vars
    PROVE  AllPaired'
<1> SUFFICES ASSUME client' = "live", NEW o \in Actors, NEW r \in Runs, Names(o, r), Undisturbed(r)'
             PROVE  Paired(o, r)'
  BY DEF AllPaired, Names, Actors
<1>1. client = "live"
  BY DEF Next, StartSpan, Attach, EndSpan, Unregister, Dispatch, Enter, EmitImplicit, Leave, Observe,
         ObserveRunStart, EmitRunStart, ObserveRunEnd, EmitRunEnd, Shutdown, CollectRuns, EndOpenRun,
         ClientGone, vars
<1>2. Paired(o, r)
  BY <1>1, UndisturbedBefore DEF AllPaired
<1>3. ASSUME NEW p \in Processes, Observe(p)
      PROVE  Paired(o, r)'
  <2>1. p # Closer
    BY <1>1, <1>3
       DEF CloserIdle, Observe, ObserveRunStart, EmitRunStart, ObserveRunEnd, EmitRunEnd, At
  <2>2. p \in Actors
    BY <2>1 DEF Processes, Actors
  <2> QED
    BY <1>1, <1>2, <1>3, <2>2, ObserveKeepsPaired
<1>4. CASE UNCHANGED vars
  BY <1>2, <1>4 DEF vars, registry, runs, Paired, WillEnd, IsEnder
<1>5. ASSUME NEW s \in Spans, StartSpan(s) \/ Attach(s)
      PROVE  Paired(o, r)'
  BY <1>2, <1>5, JoiningKeepsPaired
<1>6. ASSUME NEW s \in Spans, EndSpan(s)
      PROVE  Paired(o, r)'
  BY <1>2, <1>6, EndSpanKeepsPaired
<1>7. ASSUME \/ \E s \in Spans : Dispatch(s)
             \/ \E u \in Users : Enter(u) \/ EmitImplicit(u) \/ Leave(u)
      PROVE  Paired(o, r)'
  BY <1>1, <1>2, <1>7, ContextKeepsPaired
<1>8. ~(Shutdown \/ CollectRuns \/ ClientGone \/ \E q \in Runs : EndOpenRun(q))
  BY <1>1 DEF Shutdown, CollectRuns, ClientGone, EndOpenRun
<1> QED
  BY <1>3, <1>4, <1>5, <1>6, <1>7, <1>8 DEF Next

LEMMA AllPairedInitially == Init => CloserIdle /\ AllPaired
<1> SUFFICES ASSUME Init PROVE CloserIdle /\ AllPaired
  OBVIOUS
<1>0. /\ Actors \subseteq Processes /\ NoRun \notin Runs /\ Closer \in Processes
      /\ Closer \notin Spans \cup Users
  BY RuntimeAssumption, RunTypes DEF Actors, Processes
<1>1. at \in [Processes -> {"unseen", "new", "out", "ended"}] /\ at[Closer] = "ended"
  BY <1>0 DEF Init
<1>2. ASSUME NEW o \in Actors, NEW r \in Runs
      PROVE  Paired(o, r)
  <2>1. log[r] = Nothing /\ started_runs = {}
    BY DEF Init, Nothing
  <2>2. ~WillEnd(o)
    BY <1>0, <1>1 DEF Init, WillEnd
  <2>3. \A p \in Actors : ~IsEnder(p, r)
    BY <1>0, <1>1 DEF IsEnder, Ending
  <2> QED
    BY <1>0, <1>1, <2>1, <2>2, <2>3 DEF Paired
<1> QED
  BY <1>1, <1>2 DEF CloserIdle, AllPaired

\* Whoever is the only user of a run's name is the one that it is named by.
LEMMA OneOwnerNames ==
    ASSUME NEW r \in Runs, OneOwner(r)
    PROVE  \E o \in Actors : Names(o, r)
<1>1. CASE r \in Spans
  BY <1>1 DEF Names, Actors
<1>2. CASE Cardinality({u \in Users : Name[u] = r}) = 1
  <2> DEFINE named == {u \in Users : Name[u] = r}
  <2>1. IsFiniteSet(named)
    BY RuntimeAssumption, FS_Subset DEF Processes
  <2>2. named # {}
    BY <1>2, FS_EmptySet
  <2>3. PICK u \in Users : u \in named
    BY <2>2
  <2>4. Cardinality(named \ {u}) = 0 /\ IsFiniteSet(named \ {u})
    BY <1>2, <2>1, <2>3, FS_RemoveElement
  <2>5. named \ {u} = {}
    BY <2>4, FS_EmptySet
  <2> QED
    BY <2>3, <2>5 DEF Names, Actors
<1> QED
  BY <1>1, <1>2 DEF OneOwner

\* As long as shutdown has not begun, the start and the end of a run that has
\* one owner and no missed span are queued once each, in this order.
THEOREM RunsArePaired == Spec => []RunsPaired
<1>1. AllPaired => RunsPaired
  BY OneOwnerNames DEF AllPaired, RunsPaired, Paired, Nothing, Begun, Over
<1> QED
  BY <1>1, RuntimeInvariant, AllPairedInitially, CloserIdleStep, AllPairedStep, PTL
     DEF Spec, RuntimeInv

-----------------------------------------------------------------------------
(* What shutdown ends.                                                     *)

\* Neither the registry nor a context touches the runs that have begun.
LEMMA OtherSteps ==
    ASSUME TypeOK, [Next]_vars
    PROVE  \/ \E p \in Processes : Observe(p)
           \/ \E r \in Runs : EndOpenRun(r)
           \/ CollectRuns
           \/ /\ UNCHANGED <<started_runs, ended_runs, log, late, open_runs>>
              /\ client' = "collected" => client = "collected"
              /\ client' \notin {"draining", "down"} => client \notin {"draining", "down"}
              /\ at'[Closer] = at[Closer] /\ run'[Closer] = run[Closer]
              /\ \A r \in Runs, l \in {"started", "finished"} : About(r, l)' = About(r, l)
<1> DEFINE Same == /\ at'[Closer] = at[Closer] /\ run'[Closer] = run[Closer]
                   /\ \A r \in Runs, l \in {"started", "finished"} : About(r, l)' = About(r, l)
           Still == UNCHANGED <<started_runs, ended_runs, log, late, open_runs, client>>
<1>0. /\ at \in [Processes -> Places] /\ run \in [Processes -> Runs \cup {NoRun}]
      /\ Closer \notin Actors /\ Closer \in Processes /\ Actors \subseteq Processes
  BY RuntimeAssumption DEF TypeOK, Actors, Processes
<1>1. ASSUME NEW p \in Actors, NEW l, l \notin {"started", "finished"}, at[p] \notin {"started", "finished"},
             NEW q, at' = [at EXCEPT ![p] = l], run' = [run EXCEPT ![p] = q]
      PROVE  Same
  BY <1>0, <1>1 DEF About
<1>2. ASSUME NEW p \in Actors, NEW l, l \notin {"started", "finished"}, at[p] \notin {"started", "finished"},
             at' = [at EXCEPT ![p] = l], run' = run
      PROVE  Same
  BY <1>0, <1>2 DEF About
<1>3. ASSUME NEW s \in Spans, StartSpan(s) \/ Attach(s) \/ EndSpan(s)
      PROVE  Same /\ Still
  <2>1. Still
    BY <1>3 DEF StartSpan, Attach, EndSpan, runs
  <2>2. /\ at[s] \in {"new", "unseen", "open"} /\ \E q : run' = [run EXCEPT ![s] = q]
        /\ \E l \in {"announce", "open", "starting", "closing", "ended"} : at' = [at EXCEPT ![s] = l]
    BY <1>3 DEF StartSpan, Attach, EndSpan, Goto, At
  <2>3. Same
    BY <1>1, <2>2 DEF Actors
  <2> QED
    BY <2>1, <2>3
<1>4. ASSUME NEW s \in Spans, Dispatch(s)
      PROVE  Same /\ Still
  <2>1. Still /\ run' = run
    BY <1>4 DEF Dispatch, runs
  <2>2. /\ at[s] \in {"announce", "closing"}
        /\ \E l \in {"starting", "open", "finishing", "ended"} : at' = [at EXCEPT ![s] = l]
    BY <1>4 DEF Dispatch, Goto, At
  <2>3. Same
    BY <1>2, <2>1, <2>2 DEF Actors
  <2> QED
    BY <2>1, <2>3
<1>5. ASSUME NEW u \in Users, Enter(u) \/ EmitImplicit(u)
      PROVE  Same /\ Still
  <2>1. Still
    BY <1>5 DEF Enter, EmitImplicit, runs
  <2>2. /\ at[u] = "out" /\ \E q : run' = [run EXCEPT ![u] = q]
        /\ \E l \in {"starting", "open"} : at' = [at EXCEPT ![u] = l]
    BY <1>5 DEF Enter, EmitImplicit, Goto, At
  <2>3. Same
    BY <1>1, <2>2 DEF Actors
  <2> QED
    BY <2>1, <2>3
<1>6. ASSUME NEW u \in Users, Leave(u)
      PROVE  Same /\ Still
  <2>1. Still /\ run' = run
    BY <1>6 DEF Leave, runs
  <2>2. at[u] = "open" /\ \E l \in {"finishing", "ended"} : at' = [at EXCEPT ![u] = l]
    BY <1>6 DEF Leave, Goto, At
  <2>3. Same
    BY <1>2, <2>1, <2>2 DEF Actors
  <2> QED
    BY <2>1, <2>3
<1>7. ASSUME Shutdown \/ ClientGone \/ UNCHANGED vars
      PROVE  /\ Same /\ UNCHANGED <<started_runs, ended_runs, log, late, open_runs>>
             /\ client' = "collected" => client = "collected"
             /\ client' \notin {"draining", "down"} => client \notin {"draining", "down"}
  <2>1. UNCHANGED <<started_runs, ended_runs, log, late, open_runs, at, run>>
    BY <1>7 DEF Shutdown, ClientGone, vars, runs
  <2>2. Same
    BY <2>1 DEF About
  <2>3. /\ client' = "collected" => client = "collected"
        /\ client' \notin {"draining", "down"} => client \notin {"draining", "down"}
    BY <1>7 DEF Shutdown, ClientGone, vars
  <2> QED
    BY <2>1, <2>2, <2>3
<1> HIDE DEF Same
<1>8. CASE \/ \E s \in Spans : StartSpan(s) \/ Attach(s) \/ EndSpan(s) \/ Dispatch(s)
           \/ \E u \in Users : Enter(u) \/ EmitImplicit(u) \/ Leave(u)
  <2>1. Same /\ Still
    BY <1>3, <1>4, <1>5, <1>6, <1>8
  <2> QED
    BY <2>1 DEF Same
<1>9. CASE Shutdown \/ ClientGone \/ UNCHANGED vars
  BY <1>7, <1>9 DEF Same
<1> QED
  BY <1>8, <1>9 DEF Next

\* A run that has begun before shutdown collected them stays in its hand.
LEMMA OpenInHandStep ==
    ASSUME TypeOK, RunsApart, OpenInHand, [Next]_vars
    PROVE  OpenInHand'
<1>0. at \in [Processes -> Places] /\ run \in [Processes -> Runs \cup {NoRun}] /\ Closer \in Processes
  BY RunTypes DEF TypeOK
<1>1. ASSUME NEW p \in Processes, Observe(p), client' = "collected"
      PROVE  started_runs' \subseteq late' \cup InHand'
  <2>1. /\ client = "collected" /\ UNCHANGED <<open_runs, run>>
        /\ \E l \in {"started", "open", "finished", "ended"} : at' = [at EXCEPT ![p] = l]
    BY <1>1 DEF Observe, ObserveRunStart, EmitRunStart, ObserveRunEnd, EmitRunEnd, Goto
  <2>2. started_runs \subseteq late \cup InHand
    BY <2>1 DEF OpenInHand
  <2>3. CASE ObserveRunStart(p)
    <3>1. /\ at[p] = "starting" /\ started_runs' = started_runs \cup {run[p]}
          /\ late' = late \cup {run[p]}
      BY <2>1, <2>3 DEF ObserveRunStart, At
    <3>2. InHand' = InHand
      BY <1>0, <2>1, <3>1 DEF InHand
    <3> QED
      BY <2>2, <3>1, <3>2
  <2>4. CASE ObserveRunEnd(p)
    <3>1. /\ at[p] = "finishing" /\ late' = late /\ run[p] \notin started_runs'
          /\ started_runs' \subseteq started_runs
      BY <2>4 DEF ObserveRunEnd, At, Ended, RunsApart, runs
    <3>2. InHand \subseteq InHand' \cup {run[p]}
      BY <1>0, <2>1, <3>1 DEF InHand
    <3> QED
      BY <2>2, <3>1, <3>2
  <2>5. CASE EmitRunStart(p) \/ EmitRunEnd(p)
    <3>1. at[p] \in {"started", "finished"} /\ UNCHANGED <<started_runs, late>>
      BY <2>5 DEF EmitRunStart, EmitRunEnd, At, runs
    <3>2. InHand' = InHand
      BY <1>0, <2>1, <3>1 DEF InHand
    <3> QED
      BY <2>2, <3>1, <3>2
  <2> QED
    BY <1>1, <2>3, <2>4, <2>5 DEF Observe
<1>2. ASSUME NEW r \in Runs, EndOpenRun(r)
      PROVE  OpenInHand'
  <2>1. /\ client = "collected" /\ at[Closer] = "ended" /\ open_runs' = open_runs \ {r}
        /\ UNCHANGED <<started_runs, late>>
        /\ run' = [run EXCEPT ![Closer] = r] /\ at' = [at EXCEPT ![Closer] = "finishing"]
    BY <1>2 DEF EndOpenRun, At, Goto, runs
  <2>2. InHand \subseteq InHand'
    BY <1>0, <2>1 DEF InHand
  <2> QED
    BY <2>1, <2>2 DEF OpenInHand
<1>3. CASE CollectRuns
  BY <1>3 DEF CollectRuns, OpenInHand, InHand, runs
<1>4. ASSUME UNCHANGED <<started_runs, late, open_runs>>, client' = "collected" => client = "collected",
             at'[Closer] = at[Closer], run'[Closer] = run[Closer]
      PROVE  OpenInHand'
  BY <1>4 DEF OpenInHand, InHand
<1> QED
  BY <1>1, <1>2, <1>3, <1>4, OtherSteps DEF OpenInHand

LEMMA AboutFinite ==
    ASSUME NEW r, NEW l
    PROVE  IsFiniteSet(About(r, l)) /\ Cardinality(About(r, l)) \in Nat
BY RuntimeAssumption, FS_Subset, FS_CardinalityType DEF About

LEMMA QueuedType ==
    ASSUME TypeOK, NEW r \in Runs, NEW event
    PROVE  /\ IsFiniteSet({i \in DOMAIN log[r] : log[r][i] = event})
           /\ Queued(r, event) \in Nat
<1>1. Len(log[r]) \in Nat /\ DOMAIN log[r] = 1..Len(log[r])
  BY DEF TypeOK
<1>2. IsFiniteSet(DOMAIN log[r])
  BY <1>1, FS_Interval
<1> QED
  BY <1>2, FS_Subset, FS_CardinalityType DEF Queued

\* An event that is queued counts for its run.
LEMMA QueuedOnce ==
    ASSUME TypeOK, NEW q \in Runs, NEW e \in {"start", "end"},
           log' = [log EXCEPT ![q] = Append(log[q], e)],
           NEW r \in Runs, NEW event
    PROVE  Queued(r, event)' = Queued(r, event) + (IF r = q /\ event = e THEN 1 ELSE 0)
<1>0. log \in [Runs -> Seq({"start", "end"})] /\ Queued(r, event) \in Nat
  BY QueuedType DEF TypeOK
<1>1. CASE r # q
  <2>1. log'[r] = log[r]
    BY <1>0, <1>1
  <2> QED
    BY <1>0, <1>1, <2>1 DEF Queued
<1>2. CASE r = q
  <2> DEFINE s == log[r]
             n == Len(s)
             old == {i \in DOMAIN s : s[i] = event}
             new == {i \in DOMAIN Append(s, e) : Append(s, e)[i] = event}
  <2>1. log'[r] = Append(s, e) /\ s \in Seq({"start", "end"}) /\ n \in Nat
    BY <1>0, <1>2
  <2>2. /\ DOMAIN s = 1..n /\ DOMAIN Append(s, e) = 1..(n + 1)
        /\ \A i \in 1..n : Append(s, e)[i] = s[i] /\ Append(s, e)[n + 1] = e
    BY <2>1, AppendProperties, LenProperties
  <2>3. Append(s, e)[n + 1] = e
    BY <2>1, AppendProperties
  <2>4. IsFiniteSet(old) /\ Cardinality(old) \in Nat /\ n + 1 \notin old
    <3>1. IsFiniteSet(old)
      BY QueuedType
    <3>2. n + 1 \notin old
      BY <2>1, <2>2
    <3> QED
      BY <3>1, <3>2, FS_CardinalityType
  <2>5. Queued(r, event)' = Cardinality(new) /\ Queued(r, event) = Cardinality(old)
    BY <2>1 DEF Queued
  <2> HIDE DEF s, n
  <2>6. CASE event = e
    <3>1. new = old \cup {n + 1}
      BY <2>1, <2>2, <2>3, <2>6
    <3> QED
      BY <1>2, <2>4, <2>5, <2>6, <3>1, FS_AddElement
  <2>7. CASE event # e
    <3>1. new = old
      BY <2>1, <2>2, <2>3, <2>7
    <3> HIDE DEF new, old
    <3>2. Queued(r, event)' = Queued(r, event)
      BY <2>5, <3>1
    <3> QED
      BY <1>0, <2>7, <3>2
  <2> QED
    BY <2>6, <2>7
<1> QED
  BY <1>1, <1>2

\* Who comes to a place and who leaves it.
LEMMA AboutMoves ==
    ASSUME TypeOK, NEW p \in Processes, NEW m \in Places, at' = [at EXCEPT ![p] = m], run' = run,
           m # at[p], NEW r \in Runs, NEW l
    PROVE  /\ run[p] # r \/ l \notin {m, at[p]} => About(r, l)' = About(r, l)
           /\ run[p] = r /\ l = m => Cardinality(About(r, l)') = Cardinality(About(r, l)) + 1
           /\ run[p] = r /\ l = at[p] => Cardinality(About(r, l)') = Cardinality(About(r, l)) - 1
<1>0. at \in [Processes -> Places] /\ IsFiniteSet(About(r, l)) /\ Cardinality(About(r, l)) \in Nat
  BY AboutFinite DEF TypeOK
<1>1. CASE run[p] # r
  <2>1. About(r, l)' = About(r, l)
    BY <1>0, <1>1 DEF About
  <2> QED
    BY <1>1, <2>1
<1>2. CASE run[p] = r /\ l = m
  <2>1. About(r, l)' = About(r, l) \cup {p} /\ p \notin About(r, l)
    BY <1>0, <1>2 DEF About
  <2> QED
    <3>1. Cardinality(About(r, l) \cup {p}) = Cardinality(About(r, l)) + 1
      BY <1>0, <2>1, FS_AddElement
    <3> QED
      BY <1>2, <2>1, <3>1
<1>3. CASE run[p] = r /\ l # m /\ l = at[p]
  <2>1. About(r, l)' = About(r, l) \ {p} /\ p \in About(r, l)
    BY <1>0, <1>3 DEF About
  <2> QED
    <3>1. Cardinality(About(r, l) \ {p}) = Cardinality(About(r, l)) - 1
      BY <1>0, <2>1, FS_RemoveElement
    <3> QED
      BY <1>3, <2>1, <3>1
<1>4. CASE run[p] = r /\ l # m /\ l # at[p]
  <2>1. About(r, l)' = About(r, l)
    BY <1>0, <1>4 DEF About
  <2> QED
    BY <1>4, <2>1
<1> QED
  BY <1>1, <1>2, <1>3, <1>4

LEMMA AllBalancedStep ==
    ASSUME TypeOK, BusyHaveRun, AllBalanced, [Next]_vars
    PROVE  AllBalanced'
<1> SUFFICES ASSUME client' \notin {"draining", "down"}, NEW r \in Runs
             PROVE  Balanced(r)'
  BY DEF AllBalanced
<1> DEFINE S == Queued(r, "start")
           E == Queued(r, "end")
           a == Cardinality(About(r, "started"))
           z == Cardinality(About(r, "finished"))
<1>0. S \in Nat /\ E \in Nat /\ a \in Nat /\ z \in Nat
  BY QueuedType, AboutFinite
<1>1. ASSUME NEW p \in Processes, Observe(p)
      PROVE  Balanced(r)'
  <2>1. client' = client /\ run' = run /\ run[p] \in Runs
    BY <1>1 DEF Observe, ObserveRunStart, EmitRunStart, ObserveRunEnd, EmitRunEnd, At, TypeOK,
                BusyHaveRun, Beginning, Ending
  <2>2. S + a <= E + z + (IF r \in started_runs THEN 1 ELSE 0)
    BY <2>1 DEF AllBalanced, Balanced
  <2>3. CASE ObserveRunStart(p)
    <3>1. log' = log /\ started_runs' = started_runs \cup {run[p]} /\ at[p] = "starting"
      BY <2>3 DEF ObserveRunStart, At
    <3>2. PICK m \in {"open", "started"} :
             /\ at' = [at EXCEPT ![p] = m]
             /\ m = "open" <=> run[p] \in started_runs
      BY <2>3 DEF ObserveRunStart, Goto
    <3>3. m \in Places /\ m # at[p]
      BY <3>1, <3>2 DEF Places
    <3>4. /\ run[p] # r \/ m = "open" => About(r, "started")' = About(r, "started")
          /\ run[p] = r /\ m = "started" =>
                 Cardinality(About(r, "started")') = Cardinality(About(r, "started")) + 1
      BY <2>1, <3>1, <3>2, <3>3, AboutMoves
    <3>5. About(r, "finished")' = About(r, "finished")
      BY <2>1, <3>1, <3>2, <3>3, AboutMoves
    <3>6. a' = (IF run[p] = r /\ m = "started" THEN a + 1 ELSE a) /\ z' = z
      BY <3>2, <3>4, <3>5
    <3>7. S' = S /\ E' = E
      BY <3>1 DEF Queued
    <3> HIDE DEF S, E, a, z
    <3>8. S' + a' <= E' + z' + (IF r \in started_runs' THEN 1 ELSE 0)
      BY <1>0, <2>2, <3>1, <3>2, <3>6, <3>7
    <3> QED
      BY <3>8 DEF Balanced, S, E, a, z
  <2>4. CASE EmitRunStart(p)
    <3>1. /\ log' = [log EXCEPT ![run[p]] = Append(log[run[p]], "start")]
          /\ started_runs' = started_runs /\ at[p] = "started" /\ at' = [at EXCEPT ![p] = "open"]
      BY <2>1, <2>4 DEF EmitRunStart, Emit, At, Goto, runs
    <3>2. "open" \in Places /\ "open" # at[p]
      BY <3>1 DEF Places
    <3>3. /\ run[p] # r => About(r, "started")' = About(r, "started")
          /\ run[p] = r => Cardinality(About(r, "started")') = Cardinality(About(r, "started")) - 1
      BY <2>1, <3>1, <3>2, AboutMoves
    <3>4. About(r, "finished")' = About(r, "finished")
      BY <2>1, <3>1, <3>2, AboutMoves
    <3>6. a' = (IF run[p] = r THEN a - 1 ELSE a) /\ z' = z
      BY <3>3, <3>4
    <3>7. S' = S + (IF r = run[p] THEN 1 ELSE 0) /\ E' = E
      <4>1. PICK q \in Runs : q = run[p]
        BY <2>1
      <4>2. log' = [log EXCEPT ![q] = Append(log[q], "start")]
        BY <3>1, <4>1
      <4>3. \A event : Queued(r, event)' = Queued(r, event) + (IF r = q /\ event = "start" THEN 1 ELSE 0)
        BY <4>2, QueuedOnce
      <4>4. "end" # "start"
        OBVIOUS
      <4>5. Queued(r, "end")' = Queued(r, "end")
        BY <1>0, <4>3, <4>4
      <4>6. Queued(r, "start")' = Queued(r, "start") + (IF r = q THEN 1 ELSE 0)
        BY <4>3
      <4> QED
        BY <4>1, <4>5, <4>6
    <3> HIDE DEF S, E, a, z
    <3>8. S' + a' <= E' + z' + (IF r \in started_runs' THEN 1 ELSE 0)
      BY <1>0, <2>2, <3>1, <3>2, <3>6, <3>7
    <3> QED
      BY <3>8 DEF Balanced, S, E, a, z
  <2>5. CASE ObserveRunEnd(p)
    <3>1. log' = log /\ at[p] = "finishing"
      BY <2>5 DEF ObserveRunEnd, At
    <3>2. PICK m \in {"ended", "finished"} :
             /\ at' = [at EXCEPT ![p] = m]
             /\ started_runs' = IF m = "ended" THEN started_runs ELSE started_runs \ {run[p]}
      BY <2>5 DEF ObserveRunEnd, Goto, runs
    <3>3. m \in Places /\ m # at[p]
      BY <3>1, <3>2 DEF Places
    <3>4. /\ run[p] # r \/ m = "ended" => About(r, "finished")' = About(r, "finished")
          /\ run[p] = r /\ m = "finished" =>
                 Cardinality(About(r, "finished")') = Cardinality(About(r, "finished")) + 1
      BY <2>1, <3>1, <3>2, <3>3, AboutMoves
    <3>5. About(r, "started")' = About(r, "started")
      BY <2>1, <3>1, <3>2, <3>3, AboutMoves
    <3>6. z' = (IF run[p] = r /\ m = "finished" THEN z + 1 ELSE z) /\ a' = a
      BY <3>2, <3>4, <3>5
    <3>7. S' = S /\ E' = E
      BY <3>1 DEF Queued
    <3> HIDE DEF S, E, a, z
    <3>8. S' + a' <= E' + z' + (IF r \in started_runs' THEN 1 ELSE 0)
      BY <1>0, <2>2, <3>1, <3>2, <3>6, <3>7
    <3> QED
      BY <3>8 DEF Balanced, S, E, a, z
  <2>6. CASE EmitRunEnd(p)
    <3>1. /\ log' = [log EXCEPT ![run[p]] = Append(log[run[p]], "end")]
          /\ started_runs' = started_runs /\ at[p] = "finished" /\ at' = [at EXCEPT ![p] = "ended"]
      BY <2>1, <2>6 DEF EmitRunEnd, Emit, At, Goto, runs
    <3>2. "ended" \in Places /\ "ended" # at[p]
      BY <3>1 DEF Places
    <3>3. /\ run[p] # r => About(r, "finished")' = About(r, "finished")
          /\ run[p] = r => Cardinality(About(r, "finished")') = Cardinality(About(r, "finished")) - 1
      BY <2>1, <3>1, <3>2, AboutMoves
    <3>4. About(r, "started")' = About(r, "started")
      BY <2>1, <3>1, <3>2, AboutMoves
    <3>6. z' = (IF run[p] = r THEN z - 1 ELSE z) /\ a' = a
      BY <3>3, <3>4
    <3>7. E' = E + (IF r = run[p] THEN 1 ELSE 0) /\ S' = S
      <4>1. PICK q \in Runs : q = run[p]
        BY <2>1
      <4>2. log' = [log EXCEPT ![q] = Append(log[q], "end")]
        BY <3>1, <4>1
      <4>3. \A event : Queued(r, event)' = Queued(r, event) + (IF r = q /\ event = "end" THEN 1 ELSE 0)
        BY <4>2, QueuedOnce
      <4>4. "start" # "end"
        OBVIOUS
      <4>5. Queued(r, "start")' = Queued(r, "start")
        BY <1>0, <4>3, <4>4
      <4>6. Queued(r, "end")' = Queued(r, "end") + (IF r = q THEN 1 ELSE 0)
        BY <4>3
      <4> QED
        BY <4>1, <4>5, <4>6
    <3> HIDE DEF S, E, a, z
    <3>8. S' + a' <= E' + z' + (IF r \in started_runs' THEN 1 ELSE 0)
      BY <1>0, <2>2, <3>1, <3>2, <3>6, <3>7
    <3> QED
      BY <3>8 DEF Balanced, S, E, a, z
  <2> QED
    BY <1>1, <2>3, <2>4, <2>5, <2>6 DEF Observe
<1>2. ASSUME UNCHANGED <<started_runs, log>>, client \notin {"draining", "down"},
             \A l \in {"started", "finished"} : About(r, l)' = About(r, l)
      PROVE  Balanced(r)'
  BY <1>2 DEF AllBalanced, Balanced, Queued
<1>3. ASSUME NEW q \in Runs, EndOpenRun(q)
      PROVE  Balanced(r)'
  <2>1. /\ client = "collected" /\ at[Closer] = "ended" /\ UNCHANGED <<started_runs, log>>
        /\ run' = [run EXCEPT ![Closer] = q] /\ at' = [at EXCEPT ![Closer] = "finishing"]
    BY <1>3 DEF EndOpenRun, At, Goto, runs
  <2>2. \A l \in {"started", "finished"} : About(r, l)' = About(r, l)
    BY <2>1, RunTypes DEF About, TypeOK
  <2> QED
    BY <1>2, <2>1, <2>2
<1>4. CASE CollectRuns
  <2>1. UNCHANGED <<started_runs, log, at, run>> /\ client = "closing"
    BY <1>4 DEF CollectRuns, runs
  <2>2. \A l \in {"started", "finished"} : About(r, l)' = About(r, l)
    BY <2>1 DEF About
  <2> QED
    BY <1>2, <2>1, <2>2
<1> QED
  BY <1>1, <1>2, <1>3, <1>4, OtherSteps

LEMMA ShutdownInitially == Init => OpenInHand /\ AllBalanced
<1> SUFFICES ASSUME Init PROVE OpenInHand /\ AllBalanced
  OBVIOUS
<1>1. OpenInHand
  BY DEF Init, OpenInHand
<1>2. ASSUME NEW r \in Runs
      PROVE  Balanced(r)
  <2>1. \A l \in {"started", "finished"} : About(r, l) = {}
    BY DEF Init, About
  <2>2. Cardinality(About(r, "started")) = 0 /\ Cardinality(About(r, "finished")) = 0
    BY <2>1, FS_EmptySet
  <2>3. DOMAIN log[r] = {} /\ started_runs = {}
    BY DEF Init
  <2>4. \A event : {i \in DOMAIN log[r] : log[r][i] = event} = {}
    BY <2>3
  <2>5. \A event : Queued(r, event) = 0
    BY <2>4, FS_EmptySet DEF Queued
  <2> QED
    BY <2>2, <2>3, <2>5 DEF Balanced
<1> QED
  BY <1>1, <1>2 DEF AllBalanced

\* When shutdown stops the worker, every run that was queued as started was
\* queued as ended, but for those that began after shutdown collected the runs
\* and those that another thread has ended and not yet queued.
THEOREM ShutdownEndsEveryRun == Spec => ShutdownEndsRuns
<1> DEFINE Stops == client = "collected" /\ client' = "draining" =>
                        /\ started_runs \subseteq late
                        /\ \A r \in Runs \ late :
                              \/ Queued(r, "start") <= Queued(r, "end")
                              \/ \E p \in Processes : At(p, "finished") /\ run[p] = r
<1>1. TypeOK /\ OpenInHand /\ AllBalanced /\ [Next]_vars => [Stops]_vars
  <2> SUFFICES ASSUME TypeOK, OpenInHand, AllBalanced, [Next]_vars,
                      client = "collected", client' = "draining"
               PROVE  /\ started_runs \subseteq late
                      /\ \A r \in Runs \ late :
                            \/ Queued(r, "start") <= Queued(r, "end")
                            \/ \E p \in Processes : At(p, "finished") /\ run[p] = r
    OBVIOUS
  <2>1. at[Closer] = "ended" /\ open_runs = {}
    <3>1. ClientGone
      BY DEF Next, StartSpan, Attach, EndSpan, Unregister, Dispatch, Enter, EmitImplicit, Leave,
             Observe, ObserveRunStart, EmitRunStart, ObserveRunEnd, EmitRunEnd, Shutdown, CollectRuns,
             EndOpenRun, vars
    <3> QED
      BY <3>1 DEF ClientGone, At
  <2>2. started_runs \subseteq late
    BY <2>1 DEF OpenInHand, InHand
  <2>3. ASSUME NEW r \in Runs, r \notin late, ~\E p \in Processes : At(p, "finished") /\ run[p] = r
        PROVE  Queued(r, "start") <= Queued(r, "end")
    <3>0. /\ Queued(r, "start") \in Nat /\ Queued(r, "end") \in Nat
          /\ Cardinality(About(r, "started")) \in Nat /\ Cardinality(About(r, "finished")) \in Nat
      BY AboutFinite, QueuedType
    <3>1. Cardinality(About(r, "finished")) = 0
      <4>1. About(r, "finished") = {}
        BY <2>3 DEF About, At
      <4> QED
        BY <4>1, FS_EmptySet
    <3>2. Queued(r, "start") + Cardinality(About(r, "started"))
              <= Queued(r, "end") + Cardinality(About(r, "finished"))
      <4>1. Balanced(r) /\ r \notin started_runs
        BY <2>2, <2>3 DEF AllBalanced
      <4> QED
        BY <3>0, <4>1 DEF Balanced
    <3> QED
      BY <3>1, <3>2, <3>0
  <2> QED
    BY <2>2, <2>3
<1>2. TypeOK /\ BusyHaveRun /\ RunsApart /\ OpenInHand /\ AllBalanced /\ [Next]_vars =>
          OpenInHand' /\ AllBalanced'
  BY OpenInHandStep, AllBalancedStep
<1>3. RuntimeInv => TypeOK /\ BusyHaveRun /\ RunsApart
  BY DEF RuntimeInv
<1> QED
  BY <1>1, <1>2, <1>3, RuntimeInvariant, ShutdownInitially, PTL DEF Spec, ShutdownEndsRuns
=============================================================================
