----------------------------- MODULE ServedCalls -----------------------------
(***************************************************************************)
(* Routing calls that the API executes itself: openai_chat_completions     *)
(* routes a request (lerouter_route with execute), sends it to the         *)
(* provider of the selected model and logs its usage before it answers,    *)
(* in a response or at the end of a stream of heartbeats. A client that    *)
(* leaves does not stop the route's task.                                  *)
(*                                                                         *)
(* Where a served call (at) can be:                                        *)
(*   new        not requested                                              *)
(*   routing    its task selects a model                                   *)
(*   selected   the model is selected                                      *)
(*   sent       the request is with the provider                           *)
(*   answered   the provider has answered                                  *)
(*   logging    the post of its usage is made                              *)
(*   done       the task has a result                                      *)
(*   failed     the task has raised                                        *)
(*                                                                         *)
(* What a client has (client): none, waiting or streaming; then answer,    *)
(* error, or text (an error that reads as the assistant's); or gone.       *)
(***************************************************************************)
EXTENDS UsageLog

CONSTANTS
    Served,         \* calls that the API executes
    Spends          \* what a response may cost, by its tokens or by an estimate

ASSUME ServedAssumption == Served \subseteq Calls /\ Spends \subseteq 0..MaxSpend

VARIABLES
    at,
    used,       \* the spend of a call's response, 0 when it is dropped
    client

At(c, l) == at[c] = l
Goto(c, l) == at' = [at EXCEPT ![c] = l]

Own(c) == <<c, "own">>

ServedInit ==
    /\ at = [c \in Calls |-> "new"]
    /\ used = [c \in Calls |-> 0]
    /\ client = [c \in Served |-> "none"]

-----------------------------------------------------------------------------
\* The task of a stream is created before the client sees the first chunk.
ChatCompletion(c) ==
    /\ At(c, "new")
    /\ Goto(c, "routing")
    /\ \E l \in {"waiting", "streaming"} : client' = [client EXCEPT ![c] = l]
    /\ UNCHANGED <<usageVars, used>>

\* lerouter_route selects the first of the ranked candidates that fit the
\* request. The route must have a budget; nothing is reserved in it.
Route(c) ==
    /\ At(c, "routing") /\ budget.exists
    /\ Goto(c, "selected")
    /\ UNCHANGED <<usageVars, used, client>>

\* No authority, no budget, no route, no candidate, none that fits.
RouteFails(c) ==
    /\ At(c, "routing")
    /\ Goto(c, "failed")
    /\ UNCHANGED <<usageVars, used, client>>

\* Nothing is sent for a provider that has no key or is not supported, or for
\* a model that is not executable: its status is no success.
NotExecutable(c) ==
    /\ At(c, "selected")
    /\ Goto(c, "failed")
    /\ UNCHANGED <<usageVars, used, client>>

SendToProvider(c) ==
    /\ At(c, "selected")
    /\ Goto(c, "sent")
    /\ UNCHANGED <<usageVars, used, client>>

\* estimate_spend_usd: by the tokens of the response, or of the prompt.
ProviderResponds(c) ==
    /\ At(c, "sent")
    /\ \E x \in Spends : used' = [used EXCEPT ![c] = x]
    /\ Goto(c, "answered")
    /\ UNCHANGED <<usageVars, client>>

\* The provider fails, or answers without content and without tool calls: no
\* other candidate is tried, and nothing is logged.
ProviderFails(c) ==
    /\ \E l \in {"sent", "answered"} : At(c, l)
    /\ Goto(c, "failed")
    /\ used' = [used EXCEPT ![c] = 0]
    /\ UNCHANGED <<usageVars, client>>

LogServed(c) ==
    /\ At(c, "answered")
    /\ post' = [post EXCEPT ![Own(c)] = Received(TRUE, used[c])]
    /\ Goto(c, "logging")
    /\ UNCHANGED <<database, setting, used, client>>

\* write_usage_log returns or raises.
Result(c) ==
    /\ At(c, "logging")
    /\ \/ PostAt(Own(c), "ok") /\ Goto(c, "done")
       \/ (\E l \in {"refused", "failed"} : PostAt(Own(c), l)) /\ Goto(c, "failed")
    /\ UNCHANGED <<usageVars, used, client>>

\* What the client is told: a stream has begun with status 200 and ends with
\* the text of the error.
Outcome(c) ==
    IF At(c, "done") THEN "answer" ELSE IF client[c] = "streaming" THEN "text" ELSE "error"

Tell(c) ==
    /\ \E l \in {"done", "failed"} : At(c, l)
    /\ client[c] \in {"waiting", "streaming"}
    /\ client' = [client EXCEPT ![c] = Outcome(c)]
    /\ UNCHANGED <<usageVars, at, used>>

\* The client closes its connection; the task goes on.
Leave(c) ==
    /\ client[c] \in {"waiting", "streaming"}
    /\ client' = [client EXCEPT ![c] = "gone"]
    /\ UNCHANGED <<usageVars, at, used>>

ServedStep(c) ==
    \/ ChatCompletion(c) \/ Route(c) \/ RouteFails(c) \/ NotExecutable(c)
    \/ SendToProvider(c) \/ ProviderResponds(c) \/ ProviderFails(c)
    \/ LogServed(c) \/ Result(c) \/ Tell(c) \/ Leave(c)
=============================================================================
