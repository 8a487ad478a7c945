---------------------------- MODULE RuntimeClient ----------------------------
(***************************************************************************)
(* promptrail.sdk.RuntimeClient with the span registry of                  *)
(* promptrail.tracing.opentelemetry and the RunContext of                  *)
(* promptrail.context: which runs begin and end, and the events            *)
(* "run started" and "run ended" that are queued for them.                 *)
(*                                                                         *)
(* A process is a span, which registers itself when it starts and when it  *)
(* ends, a user of "with run(...)" or of an implicit run, or the call of   *)
(* shutdown. The registry and the client have a lock each; callbacks and   *)
(* events happen outside of them, so they are steps of their own. The      *)
(* client exists from the start; spans may have begun before it.           *)
(*                                                                         *)
(* A run that is generated for a span or a user is named by it.            *)
(*                                                                         *)
(* Where a process (at) can be:                                            *)
(*   new, out   it has not begun (a span, a user)                          *)
(*   unseen     a span from before the client, unknown to the registry     *)
(*   announce   its run's start is about to be dispatched to the client    *)
(*   starting   in observe_run_start, before the lock                      *)
(*   started    after it: the event is about to be queued                  *)
(*   open       begun                                                      *)
(*   closing, finishing, finished   the same for the run's end             *)
(*   ended      over; for the call of shutdown: between two runs           *)
(***************************************************************************)
EXTENDS Integers, Sequences, FiniteSets

CONSTANTS
    Spans, Users, Closer,
    NoSpan, NoUser, NoRun,
    Remote,         \* a parent span in another process
    Trace, Parent,  \* of a span
    Under,          \* the user in whose context a span starts and ends
    Within,         \* the span in whose context a user starts
    Name,           \* the run that a user asks for
    EndedCap        \* maxlen of _ended_run_order

Runs == Spans \cup {Name[u] : u \in Users}
Traces == {Trace[s] : s \in Spans}
Processes == Spans \cup Users \cup {Closer}

\* A child is in the trace of its parent, and a generated run id is no user's.
ASSUME RuntimeAssumption ==
    /\ Spans \cap Users = {} /\ Closer \notin Spans \cup Users
    /\ Parent \in [Spans -> Spans \cup {NoSpan, Remote}]
    /\ \A s \in Spans : Parent[s] \in Spans => Trace[Parent[s]] = Trace[s]
    /\ {NoSpan, Remote} \cap Spans = {} /\ NoSpan # Remote
    /\ Under \in [Spans -> Users \cup {NoUser}] /\ NoUser \notin Users
    /\ Within \in [Users -> Spans \cup {NoSpan}]
    /\ DOMAIN Trace = Spans /\ DOMAIN Name = Users /\ NoRun \notin Runs
    /\ Spans \cap {Name[u] : u \in Users} = {}
    /\ IsFiniteSet(Processes) /\ EndedCap \in Nat \ {0}

VARIABLES
    trace_to_run, span_to_run, span_to_run_started,
    trace_active_counts, trace_root_ended,
    started_runs,
    ended_runs,     \* _ended_run_order, and with it _ended_runs
    client,         \* live, closing, collected, draining, down
    open_runs,      \* what shutdown still has to end
    at, run,        \* of a process
    owners,         \* users whose context owns the lifecycle of its run
    log,            \* history: the events queued for a run
    missed,         \* history: traces of which an unregistered span ended
    late            \* history: runs that began after shutdown collected them

registry == <<trace_to_run, span_to_run, span_to_run_started,
              trace_active_counts, trace_root_ended>>
runs == <<started_runs, ended_runs>>
vars == <<registry, runs, client, open_runs, at, run, owners, log, missed, late>>

At(p, l) == at[p] = l
Goto(p, l) == at' = [at EXCEPT ![p] = l]

Or(r, q) == IF r # NoRun THEN r ELSE q

Ended(r) == \E i \in DOMAIN ended_runs : ended_runs[i] = r

-----------------------------------------------------------------------------
\* initialize has returned: callbacks, worker and span processor are in place.
Init ==
    /\ trace_to_run = [t \in Traces |-> NoRun]
    /\ span_to_run = [s \in Spans |-> NoRun]
    /\ span_to_run_started = {}
    /\ trace_active_counts = [t \in Traces |-> 0]
    /\ trace_root_ended = {}
    /\ started_runs = {} /\ ended_runs = <<>>
    /\ client = "live" /\ open_runs = {}
    /\ \E early \in SUBSET Spans :
          /\ \A s \in early : Parent[s] \in Spans => Parent[s] \in early
          /\ at = [p \in Processes |->
                    IF p \in early THEN "unseen" ELSE IF p \in Spans THEN "new"
                    ELSE IF p = Closer THEN "ended" ELSE "out"]
    /\ run = [p \in Processes |-> NoRun]
    /\ owners = {}
    /\ log = [r \in Runs |-> <<>>]
    /\ missed = {} /\ late = {}

-----------------------------------------------------------------------------
(* The span registry                                                       *)

\* Faulty: a span that starts does not add to the count, but sets it.
Register_One(s, r) ==
    /\ span_to_run' = [span_to_run EXCEPT ![s] = r]
    /\ trace_active_counts' = [trace_active_counts EXCEPT ![Trace[s]] = 1]

Register(s, r) ==
    /\ span_to_run' = [span_to_run EXCEPT ![s] = r]
    /\ trace_active_counts' = [trace_active_counts EXCEPT ![Trace[s]] = @ + 1]

\* The run of the context that a span starts or ends in.
ActiveRun(s) == IF Under[s] # NoUser /\ At(Under[s], "open") THEN run[Under[s]] ELSE NoRun

\* on_start: a span joins the run of its trace or of its parent, else that of
\* its context; else a new run, which a root span begins.
StartSpan(s) ==
    LET t == Trace[s]
        inherited == IF Parent[s] \in Spans THEN span_to_run[Parent[s]] ELSE NoRun
        known == Or(trace_to_run[t], inherited)
        begins == known = NoRun /\ ActiveRun(s) = NoRun /\ Parent[s] = NoSpan
        r == Or(known, Or(ActiveRun(s), s))
    IN
    /\ At(s, "new")
    /\ Parent[s] \in Spans => at[Parent[s]] \notin {"new", "announce", "starting", "started"}
    /\ Register(s, r)
    /\ trace_to_run' = IF known = NoRun THEN [trace_to_run EXCEPT ![t] = r] ELSE trace_to_run
    /\ span_to_run_started' = IF begins THEN span_to_run_started \cup {s} ELSE span_to_run_started
    /\ run' = [run EXCEPT ![s] = r]
    /\ Goto(s, IF begins THEN "announce" ELSE "open")
    /\ UNCHANGED <<trace_root_ended, runs, client, open_runs, owners, log, missed, late>>

\* ensure_current_trace_run, when an event is emitted in a span that the
\* registry does not know: it becomes the span that begins a run.
Attach(s) ==
    LET t == Trace[s] IN
    /\ At(s, "unseen") /\ client = "live" /\ trace_to_run[t] = NoRun
    /\ Register(s, s)
    /\ trace_to_run' = [trace_to_run EXCEPT ![t] = s]
    /\ span_to_run_started' = span_to_run_started \cup {s}
    /\ run' = [run EXCEPT ![s] = s]
    /\ Goto(s, "starting")
    /\ UNCHANGED <<trace_root_ended, runs, client, open_runs, owners, log, missed, late>>

\* Faulty: a trace keeps its mark after its last span.
Forget_KeepsRoot(t, left, roots) ==
    /\ trace_active_counts' = [trace_active_counts EXCEPT ![t] = left]
    /\ trace_to_run' = IF left = 0 THEN [trace_to_run EXCEPT ![t] = NoRun] ELSE trace_to_run
    /\ trace_root_ended' = roots

\* What remains of the registry after a span of trace t ended.
Forget(t, left, roots) ==
    /\ trace_active_counts' = [trace_active_counts EXCEPT ![t] = left]
    /\ trace_to_run' = IF left = 0 THEN [trace_to_run EXCEPT ![t] = NoRun] ELSE trace_to_run
    /\ trace_root_ended' = IF left = 0 THEN roots \ {t} ELSE roots

Unregister(s) ==
    /\ span_to_run' = [span_to_run EXCEPT ![s] = NoRun]
    /\ span_to_run_started' = span_to_run_started \ {s}
    /\ missed' = IF At(s, "unseen") THEN missed \cup {Trace[s]} ELSE missed

\* Faulty: only the span that began a run can end it.
EndSpan_RootLast(s) ==
    LET t == Trace[s]
        left == IF trace_active_counts[t] = 0 THEN 0 ELSE trace_active_counts[t] - 1
    IN
    /\ at[s] \in {"open", "unseen"}
    /\ Unregister(s)
    /\ Forget(t, left, trace_root_ended)
    /\ run' = [run EXCEPT ![s] = Or(Or(span_to_run[s], trace_to_run[t]), Or(ActiveRun(s), s))]
    /\ Goto(s, IF s \in span_to_run_started /\ left = 0 THEN "closing" ELSE "ended")
    /\ UNCHANGED <<runs, client, open_runs, owners, log, late>>

\* on_end: the last open span of a trace ends its run, if the span that began
\* the run has ended. A span without a run asks the factory of run ids for one.
EndSpan(s) ==
    LET t == Trace[s]
        left == IF trace_active_counts[t] = 0 THEN 0 ELSE trace_active_counts[t] - 1
        roots == IF s \in span_to_run_started THEN trace_root_ended \cup {t}
                                              ELSE trace_root_ended
    IN
    /\ at[s] \in {"open", "unseen"}
    /\ Unregister(s)
    /\ Forget(t, left, roots)
    /\ run' = [run EXCEPT ![s] = Or(Or(span_to_run[s], trace_to_run[t]), Or(ActiveRun(s), s))]
    /\ Goto(s, IF t \in roots /\ left = 0 THEN "closing" ELSE "ended")
    /\ UNCHANGED <<runs, client, open_runs, owners, log, late>>

\* _dispatch_otel_run_start, _dispatch_otel_run_end: to the client, if any.
Dispatch(s) ==
    /\ \/ At(s, "announce") /\ Goto(s, IF client = "live" THEN "starting" ELSE "open")
       \/ At(s, "closing") /\ Goto(s, IF client = "live" THEN "finishing" ELSE "ended")
    /\ UNCHANGED <<registry, runs, client, open_runs, run, owners, log, missed, late>>

-----------------------------------------------------------------------------
(* Contexts                                                                *)

\* The run of the trace that a user works in.
TraceRun(u) ==
    LET s == Within[u] IN
    IF s # NoSpan /\ at[s] \in {"open", "unseen"} THEN trace_to_run[Trace[s]] ELSE NoRun

\* RunContext: within a trace that has a run it joins that run, and does not
\* own it. The callbacks are gone once shutdown has returned.
Enter(u) ==
    /\ At(u, "out")
    /\ run' = [run EXCEPT ![u] = Or(TraceRun(u), Name[u])]
    /\ owners' = IF TraceRun(u) = NoRun THEN owners \cup {u} ELSE owners
    /\ Goto(u, IF TraceRun(u) = NoRun /\ client # "down" THEN "starting" ELSE "open")
    /\ UNCHANGED <<registry, runs, client, open_runs, log, missed, late>>

\* ensure_implicit_run, for an event outside of traces and contexts: nobody but
\* shutdown ends the run.
EmitImplicit(u) ==
    /\ At(u, "out") /\ client = "live"
    /\ Within[u] \in Spans => at[Within[u]] \in {"new", "ended"}
    /\ run' = [run EXCEPT ![u] = Name[u]]
    /\ Goto(u, "starting")
    /\ UNCHANGED <<registry, runs, client, open_runs, owners, log, missed, late>>

Leave(u) ==
    /\ At(u, "open")
    /\ Goto(u, IF u \in owners /\ client # "down" THEN "finishing" ELSE "ended")
    /\ UNCHANGED <<registry, runs, client, open_runs, run, owners, log, missed, late>>

-----------------------------------------------------------------------------
(* The client                                                              *)

\* _ended_run_order.remove.
WithoutEnded(r) ==
    IF Ended(r)
    THEN LET i == CHOOSE j \in DOMAIN ended_runs : ended_runs[j] = r
         IN  [j \in 1..Len(ended_runs) - 1 |-> ended_runs[IF j < i THEN j ELSE j + 1]]
    ELSE ended_runs

\* observe_run_start under the lock: a run that had ended may begin again, and
\* one that has begun does not begin twice.
ObserveRunStart(p) ==
    LET r == run[p] IN
    /\ At(p, "starting")
    /\ ended_runs' = WithoutEnded(r)
    /\ started_runs' = started_runs \cup {r}
    /\ late' = IF client \in {"collected", "draining", "down"} THEN late \cup {r} ELSE late
    /\ Goto(p, IF r \in started_runs THEN "open" ELSE "started")
    /\ UNCHANGED <<registry, client, open_runs, run, owners, log, missed>>

\* emit, as long as there is a worker.
Emit(p, event) ==
    log' = IF client \notin {"draining", "down"} THEN [log EXCEPT ![run[p]] = Append(@, event)] ELSE log

EmitRunStart(p) ==
    /\ At(p, "started")
    /\ Emit(p, "start")
    /\ Goto(p, "open")
    /\ UNCHANGED <<registry, runs, client, open_runs, run, owners, missed, late>>

\* observe_run_end under the lock. The oldest run is forgotten at the limit.
ObserveRunEnd(p) ==
    LET r == run[p] IN
    /\ At(p, "finishing")
    /\ IF Ended(r) THEN Goto(p, "ended") /\ UNCHANGED runs
       ELSE /\ ended_runs' = Append(IF Len(ended_runs) = EndedCap THEN Tail(ended_runs)
                                                                  ELSE ended_runs, r)
            /\ started_runs' = started_runs \ {r}
            /\ Goto(p, "finished")
    /\ UNCHANGED <<registry, client, open_runs, run, owners, log, missed, late>>

EmitRunEnd(p) ==
    /\ At(p, "finished")
    /\ Emit(p, "end")
    /\ Goto(p, "ended")
    /\ UNCHANGED <<registry, runs, client, open_runs, run, owners, missed, late>>

\* shutdown: the module forgets the client.
Shutdown ==
    /\ client = "live"
    /\ client' = "closing"
    /\ UNCHANGED <<registry, runs, open_runs, at, run, owners, log, missed, late>>

\* Faulty: ends the runs of explicit contexts only.
CollectRuns_Explicit ==
    /\ client = "closing"
    /\ client' = "collected"
    /\ open_runs' = started_runs \ Spans
    /\ UNCHANGED <<registry, runs, at, run, owners, log, missed, late>>

\* The runs that are open are collected under the lock ...
CollectRuns ==
    /\ client = "closing"
    /\ client' = "collected"
    /\ open_runs' = started_runs
    /\ UNCHANGED <<registry, runs, at, run, owners, log, missed, late>>

\* ... and ended one after the other.
EndOpenRun(r) ==
    /\ client = "collected" /\ At(Closer, "ended")
    /\ r \in open_runs
    /\ open_runs' = open_runs \ {r}
    /\ run' = [run EXCEPT ![Closer] = r]
    /\ Goto(Closer, "finishing")
    /\ UNCHANGED <<registry, runs, client, owners, log, missed, late>>

\* Then the worker goes, and when it has stopped, the callbacks.
ClientGone ==
    /\ \/ client = "collected" /\ At(Closer, "ended") /\ open_runs = {} /\ client' = "draining"
       \/ client = "draining" /\ client' = "down"
    /\ UNCHANGED <<registry, runs, open_runs, at, run, owners, log, missed, late>>

-----------------------------------------------------------------------------
Observe(p) ==
    ObserveRunStart(p) \/ EmitRunStart(p) \/ ObserveRunEnd(p) \/ EmitRunEnd(p)

Next ==
    \/ \E s \in Spans : StartSpan(s) \/ Attach(s) \/ EndSpan(s) \/ Dispatch(s)
    \/ \E u \in Users : Enter(u) \/ EmitImplicit(u) \/ Leave(u)
    \/ \E p \in Processes : Observe(p)
    \/ Shutdown \/ CollectRuns \/ ClientGone
    \/ \E r \in Runs : EndOpenRun(r)

\* Threads run on, and the application ends the spans and leaves the contexts
\* that it began; a shutdown that has begun goes on.
Spec ==
    /\ Init /\ [][Next]_vars
    /\ \A s \in Spans : WF_vars(EndSpan(s)) /\ WF_vars(Dispatch(s))
    /\ \A u \in Users : WF_vars(Leave(u))
    /\ \A p \in Processes : WF_vars(Observe(p))
    /\ WF_vars(CollectRuns) /\ \A r \in Runs : WF_vars(EndOpenRun(r))

-----------------------------------------------------------------------------
Places == {"new", "out", "unseen", "announce", "starting", "started", "open",
           "closing", "finishing", "finished", "ended"}

TypeOK ==
    /\ trace_to_run \in [Traces -> Runs \cup {NoRun}]
    /\ span_to_run \in [Spans -> Runs \cup {NoRun}]
    /\ span_to_run_started \subseteq Spans
    /\ trace_active_counts \in [Traces -> Nat] /\ trace_root_ended \subseteq Traces
    /\ started_runs \subseteq Runs /\ open_runs \subseteq Runs
    /\ ended_runs \in Seq(Runs) /\ Len(ended_runs) <= EndedCap
    /\ client \in {"live", "closing", "collected", "draining", "down"}
    /\ at \in [Processes -> Places] /\ run \in [Processes -> Runs \cup {NoRun}]
    /\ owners \subseteq Users
    /\ log \in [Runs -> Seq({"start", "end"})]
    /\ missed \subseteq Traces /\ late \subseteq Runs

Registered(t) == {s \in Spans : Trace[s] = t /\ span_to_run[s] # NoRun}

\* opentelemetry.py:258: whatever the order in which spans start and end, the
\* count of a trace is that of its registered spans, and it is never more, also
\* when spans end that began before the client. A trace of which no span is
\* left leaves nothing behind.
SpansCounted ==
    \A t \in Traces :
        /\ trace_active_counts[t] <= Cardinality(Registered(t))
        /\ t \notin missed => trace_active_counts[t] = Cardinality(Registered(t))
        /\ trace_active_counts[t] = 0 => trace_to_run[t] = NoRun /\ t \notin trace_root_ended

\* A run has one owner: the trace that began it, or the only user of its name.
OneOwner(r) == r \in Spans \/ Cardinality({u \in Users : Name[u] = r}) = 1

\* No span of the run is of a trace that ended a span it had not registered.
Undisturbed(r) == \A s \in Spans : run[s] = r => Trace[s] \notin missed

\* sdk.py:193, outside the lock: as long as the client is not being shut down,
\* the start and the end of a run are queued once and in this order, unless
\* two users share its name or spans that began before the client disturb the
\* count of a trace that it joined.
RunsPaired ==
    client = "live" =>
        \A r \in Runs : OneOwner(r) /\ Undisturbed(r) =>
            log[r] \in {<<>>, <<"start">>, <<"start", "end">>}

Queued(r, event) == Cardinality({i \in DOMAIN log[r] : log[r][i] = event})

\* sdk.py:105: when shutdown stops the worker, every run that was queued as
\* started was queued as ended, but for those that began while shutdown was
\* under way, and those that another thread has ended and not yet queued.
ShutdownEndsRuns ==
    [][client = "collected" /\ client' = "draining" =>
        /\ started_runs \subseteq late
        /\ \A r \in Runs \ late :
              \/ Queued(r, "start") <= Queued(r, "end")
              \/ \E p \in Processes : At(p, "finished") /\ run[p] = r]_vars

\* opentelemetry.py:246: a run that a trace began ends once the spans of the
\* trace have ended, in whatever order, or with the client; the runs that begin
\* after shutdown collected them and the traces with a missed span are not said
\* to end.
TracedRunsEnd ==
    \A s \in Spans : s \in started_runs ~>
        s \notin started_runs \/ s \in late \/ Trace[s] \in missed
===============================================================================
