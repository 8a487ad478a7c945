---------------------------- MODULE HermesPlugin ----------------------------
(***************************************************************************)
(* The calls that usage accounting is about: those that the API serves     *)
(* itself (ServedCalls), and those that it selects and the Hermes plugin   *)
(* executes on the user's machine (on_llm_execution_middleware), which     *)
(* holds a response back until its usage is logged.                        *)
(*                                                                         *)
(* Where a call of the plugin (at) can be:                                 *)
(*   new        not selected                                               *)
(*   selected   the API has answered with a model and an accounting token  *)
(*   chosen     the plugin knows the model                                 *)
(*   active     the user's agent is switched to it                         *)
(*   sent       the request is with the provider                           *)
(*   answered   the provider has answered; the answer is to be verified    *)
(*   logging    the post of its success is made                            *)
(*   reporting  the post of its failure is made                            *)
(*   delivered  the response was returned to the agent                     *)
(*   withheld   a response that was posted is not returned: fail closed    *)
(*   raised     it ended without a response                                *)
(***************************************************************************)
EXTENDS ServedCalls

CONSTANTS
    MaxRepeats      \* bound on posts of other holders of a token

ASSUME PluginAssumption == MaxRepeats \in Nat

VARIABLES
    ledger      \* calls in the plugin's own ledger, USAGE_PATH

callVars == <<at, used, client, ledger>>
vars == <<usageVars, callVars>>

Plugged == Calls \ Served

\* The call's post is made; it may be lost on the way.
Send(c, success, spend) ==
    /\ \/ post' = [post EXCEPT ![Own(c)] = Received(success, spend)]
       \/ post' = post
    /\ UNCHANGED <<database, setting>>

Init ==
    /\ UsageInit
    /\ ServedInit
    /\ ledger = {}

-----------------------------------------------------------------------------
\* The API routes the call, for which the route must have a budget; nothing
\* is reserved in it.
Select(c) ==
    /\ At(c, "new") /\ budget.exists
    /\ Goto(c, "selected")
    /\ UNCHANGED <<usageVars, used, client, ledger>>

\* No agent, or no answer, although the API may have selected a model: fail
\* closed.
SelectFails(c) ==
    /\ \E l \in {"new", "selected"} : At(c, l)
    /\ Goto(c, "raised")
    /\ UNCHANGED <<usageVars, used, client, ledger>>

\* Only the first candidate is ever executed. It has to carry its claim.
Choose(c) ==
    /\ At(c, "selected")
    /\ Goto(c, "chosen")
    /\ UNCHANGED <<usageVars, used, client, ledger>>

\* The candidate is not in the catalog that the plugin was set up with.
NotInCatalog(c) ==
    /\ At(c, "selected")
    /\ Goto(c, "raised")
    /\ UNCHANGED <<usageVars, used, client, ledger>>

\* The user's agent is switched to the model. It stays so after the call.
Activate(c) ==
    /\ At(c, "chosen")
    /\ Goto(c, "active")
    /\ UNCHANGED <<usageVars, used, client, ledger>>

\* The model cannot be activated: a failure is logged.
ActivationFails(c) ==
    /\ At(c, "chosen")
    /\ Send(c, FALSE, 0)
    /\ Goto(c, "reporting")
    /\ UNCHANGED <<used, client, ledger>>

\* The request asks for reasoning, which the model lacks: so is this.
CapabilityMismatch(c) ==
    /\ At(c, "active")
    /\ Send(c, FALSE, 0)
    /\ Goto(c, "reporting")
    /\ UNCHANGED <<used, client, ledger>>

\* The request cannot be rebuilt for the active model, or is not for the
\* selected model and provider: fail closed, with nothing logged.
PreparationFails(c) ==
    /\ At(c, "active")
    /\ Goto(c, "raised")
    /\ UNCHANGED <<usageVars, used, client, ledger>>

Execute(c) ==
    /\ At(c, "active")
    /\ Goto(c, "sent")
    /\ UNCHANGED <<usageVars, used, client, ledger>>

Respond(c) ==
    /\ At(c, "sent")
    /\ \E x \in Spends : used' = [used EXCEPT ![c] = x]
    /\ Goto(c, "answered")
    /\ UNCHANGED <<usageVars, client, ledger>>

\* The provider fails, answers for another model or with an empty or malformed
\* response, or without token counts: a failure is logged, which has no spend.
ExecutionFails(c) ==
    /\ \E l \in {"sent", "answered"} : At(c, l)
    /\ Send(c, FALSE, 0)
    /\ Goto(c, "reporting")
    /\ used' = [used EXCEPT ![c] = 0]
    /\ UNCHANGED <<client, ledger>>

\* The spend of a response cannot be told: fail closed, with nothing logged.
PricingFails(c) ==
    /\ At(c, "answered")
    /\ Goto(c, "raised")
    /\ used' = [used EXCEPT ![c] = 0]
    /\ UNCHANGED <<usageVars, client, ledger>>

LogSuccess(c) ==
    /\ At(c, "answered")
    /\ Send(c, TRUE, used[c])
    /\ Goto(c, "logging")
    /\ UNCHANGED <<used, client, ledger>>

\* Faulty: the plugin goes on whatever became of the log.
Authoritative_Any(c) == TRUE

\* _validate_authoritative_usage_log: the answer is the log of what was sent,
\* spend for spend.
Authoritative(c) == PostAt(Own(c), "ok") /\ post[Own(c)].spend = used[c]

\* The plugin enters the log in its ledger and returns the response.
Deliver(c) ==
    /\ At(c, "logging") /\ Authoritative(c)
    /\ ledger' = ledger \cup {c}
    /\ Goto(c, "delivered")
    /\ UNCHANGED <<usageVars, used, client>>

\* The post is refused or fails, its answer differs from what was sent, or the
\* plugin sees no answer in time or cannot write its ledger.
Withhold(c) ==
    /\ At(c, "logging")
    /\ Goto(c, "withheld")
    /\ used' = [used EXCEPT ![c] = 0]
    /\ UNCHANGED <<usageVars, client, ledger>>

\* The failure is logged, or not: either way the plugin raises.
Raise(c) ==
    /\ At(c, "reporting")
    /\ \/ PostAt(Own(c), "ok") /\ ledger' = ledger \cup {c}
       \/ ledger' = ledger
    /\ Goto(c, "raised")
    /\ UNCHANGED <<usageVars, used, client>>

\* Whoever holds the token of a call posts its usage, or other facts.
Repeat(c) ==
    /\ ~At(c, "new")
    /\ post[<<c, "again">>] = NoPost
    /\ Cardinality({p \in Posts : p[2] = "again" /\ post[p] # NoPost}) < MaxRepeats
    /\ \E success \in BOOLEAN, x \in Spends \cup {0} :
           post' = [post EXCEPT ![<<c, "again">>] = Received(success, x)]
    /\ UNCHANGED <<database, setting, callVars>>

-----------------------------------------------------------------------------
Step(c) ==
    \/ Select(c) \/ SelectFails(c) \/ Choose(c) \/ NotInCatalog(c) \/ Activate(c)
    \/ ActivationFails(c) \/ CapabilityMismatch(c) \/ PreparationFails(c)
    \/ Execute(c) \/ Respond(c) \/ ExecutionFails(c) \/ PricingFails(c)
    \/ LogSuccess(c) \/ Deliver(c) \/ Withhold(c) \/ Raise(c) \/ Repeat(c)

Server ==
    /\ \/ \E p \in Posts : Serve(p)
       \/ SetupReads \/ SetupWrites
    /\ UNCHANGED callVars

Next ==
    \/ Server
    \/ \E c \in Served : ServedStep(c) /\ UNCHANGED ledger
    \/ \E c \in Plugged : Step(c)

Spec == Init /\ [][Next]_vars

-----------------------------------------------------------------------------
(* Properties                                                              *)

\* The agent sees a response of the plugin only if its usage is logged, as the
\* spend of the very tokens it used, and is in the plugin's ledger: even when
\* another post for the call came first, or the answer was for another log. A
\* client of the API sees an answer only if its usage is logged; an error costs
\* it nothing, unless the answer of the log itself was lost.
DeliveredIsLogged ==
    /\ \A c \in Plugged : At(c, "delivered") =>
           logs[c] # NoLog /\ logs[c].success /\ logs[c].spend = used[c] /\ c \in ledger
    /\ \A c \in Served :
           /\ client[c] = "answer" =>
                  logs[c] # NoLog /\ logs[c].success /\ logs[c].spend = Verified(used[c])
           /\ client[c] \in {"error", "text"} /\ logs[c] # NoLog => PostAt(Own(c), "failed")
=============================================================================
