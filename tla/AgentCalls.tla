------------------------------ MODULE AgentCalls ------------------------------
(***************************************************************************)
(* Agent.run(...) and Router.delegate(...) (engine/interpreter/agent.go,    *)
(* agent_hooks.go, router.go) over the traffic policies of each agent       *)
(* (features/traffic): cache, retry with backoff, and a limiter that caps   *)
(* the requests at once and per minute.                                     *)
(*                                                                         *)
(* A call goes to an agent and then to its fallbacks, which are the legs    *)
(* 0..Fallbacks; a delegated call may first ask the router's decider, a leg *)
(* that has policies and no fallbacks.  Calls of several branches and       *)
(* spawned handles share the agents' limiters and caches.  What is asked    *)
(* and answered is left out.                                                *)
(***************************************************************************)
EXTENDS Naturals, FiniteSets

CONSTANTS
    Callers,        \* the calls of the program, each with its context
    Fallbacks,      \* how many agents the agent falls back to
    MaxAttempts,    \* retry { max_attempts }
    Concurrency,    \* rate_limit { concurrency }
    PerMinute       \* rate_limit { requests_per_minute }

Decider == Fallbacks + 1
Chain == 0..Fallbacks
Agents == Chain \cup {Decider}

ASSUME AgentAssumption ==
    /\ IsFiniteSet(Callers)
    /\ Fallbacks \in Nat /\ MaxAttempts \in Nat \ {0}
    /\ Concurrency \in Nat \ {0} /\ PerMinute \in Nat \ {0}

VARIABLES
    caller,     \* where each call stands
    done,       \* the contexts that are done
    sem,        \* slots taken at each agent
    used,       \* requests of each agent's window
    old,        \* the windows that began a minute ago or more
    cache       \* the agents with a live entry for what is asked

vars == <<caller, done, sem, used, old, cache>>

-----------------------------------------------------------------------------
\* routing: Router.delegate; asked: runAgent before its attempt; lookup: the attempt reads
\* the cache; attempt: the top of Execute's loop; slot, window: in Acquire; request: the
\* engine works; backoff: between two attempts; after: an answer is there.
CallRecords ==
    [pc : {"away", "routing", "asked", "lookup", "attempt", "slot", "window", "request",
           "backoff", "after", "over"},
     leg : Agents, attempt : 1..MaxAttempts, ok : BOOLEAN,
     late : 0..2]       \* requests made although the context was done, up to 2

NewCall == [pc |-> "away", leg |-> 0, attempt |-> 1, ok |-> FALSE, late |-> 0]

Init ==
    /\ caller = [c \in Callers |-> NewCall]
    /\ done = {}
    /\ sem = [a \in Agents |-> 0]
    /\ used = [a \in Agents |-> 0]
    /\ old = Agents
    /\ cache = {}

At(c, pc) == caller[c].pc = pc
Goes(c, pc) == caller' = [caller EXCEPT ![c].pc = pc]
Policies == <<sem, used, old, cache>>

-----------------------------------------------------------------------------
(* The call, around its attempts.                                          *)

Call(c) ==
    /\ At(c, "away")
    /\ \E pc \in {"routing", "asked"} : Goes(c, pc)
    /\ UNCHANGED <<done, Policies>>

Fails(c) == caller' = [caller EXCEPT ![c].pc = "over"]

\* runRouterDelegate: select names the agent, fails, or leaves it to the decider.
Route(c) ==
    /\ At(c, "routing")
    /\ \/ Goes(c, "asked")
       \/ Fails(c)
       \/ caller' = [caller EXCEPT ![c].pc = "lookup", ![c].leg = Decider]
    /\ UNCHANGED <<done, Policies>>

\* before, the prompt, the skills and system_prompt: an error of theirs has no fallback.
Prepare(c) ==
    /\ At(c, "asked")
    /\ Fails(c) \/ Goes(c, "lookup")
    /\ UNCHANGED <<done, Policies>>

\* The answer of the decider names an agent or none; after may turn an answer into an error.
Answered(c) ==
    /\ At(c, "after")
    /\ \/ caller[c].leg = Decider
            /\ caller' = [caller EXCEPT ![c].pc = "asked", ![c].leg = 0, ![c].attempt = 1]
       \/ caller[c].leg # Decider
            /\ caller' = [caller EXCEPT ![c].pc = "over", ![c].ok = TRUE]
       \/ Fails(c)
    /\ UNCHANGED <<done, Policies>>

\* The attempt at this leg has failed for good: the next leg, or the error.
LegFails(c) ==
    IF caller[c].leg \in 0..(Fallbacks - 1)
    THEN \/ caller' = [caller EXCEPT ![c].pc = "lookup", ![c].leg = @ + 1, ![c].attempt = 1]
         \/ caller[c].leg = 0 /\ Fails(c)       \* a fallback is not declared
    ELSE Fails(c)

-----------------------------------------------------------------------------
(* runAgentAttempt: one leg.                                               *)

\* Its settings are resolved and its cache asked.
LookUp(c) ==
    /\ At(c, "lookup")
    /\ IF caller[c].leg \in cache THEN Goes(c, "after") ELSE Goes(c, "attempt")
    /\ UNCHANGED <<done, Policies>>

Misconfigured(c) ==
    /\ At(c, "lookup")
    /\ LegFails(c)
    /\ UNCHANGED <<done, Policies>>

\* Mutant of Try: the context is not looked at before an attempt.
TryUnchecked(c) ==
    /\ At(c, "attempt")
    /\ Goes(c, "slot")
    /\ UNCHANGED <<done, Policies>>

\* Execute looks at the context before each attempt.
Try(c) ==
    /\ At(c, "attempt")
    /\ IF c \in done THEN LegFails(c) ELSE Goes(c, "slot")
    /\ UNCHANGED <<done, Policies>>

\* With a slot free and the context done, the select takes either.
TakeSlot(c) ==
    /\ At(c, "slot") /\ sem[caller[c].leg] < Concurrency
    /\ sem' = [sem EXCEPT ![caller[c].leg] = @ + 1]
    /\ Goes(c, "window")
    /\ UNCHANGED <<done, used, old, cache>>

LeaveSlot(c) ==
    /\ At(c, "slot") /\ c \in done
    /\ LegFails(c)
    /\ UNCHANGED <<done, Policies>>

InWindow(a) == IF a \in old THEN 0 ELSE used[a]

\* A token of the window, which a caller that comes a minute after its start begins anew.
TakeToken(c) ==
    LET a == caller[c].leg IN
    /\ At(c, "window") /\ InWindow(a) < PerMinute
    /\ used' = [used EXCEPT ![a] = InWindow(a) + 1]
    /\ old' = old \ {a}
    /\ caller' = [caller EXCEPT ![c].pc = "request",
                                ![c].late = IF c \in done /\ @ < 2 THEN @ + 1 ELSE @]
    /\ UNCHANGED <<done, sem, cache>>

Release(c) == sem' = [sem EXCEPT ![caller[c].leg] = @ - 1]

\* Mutant of LeaveWindow: a cancelled wait keeps its slot.
LeaveWindowKeepingSlot(c) ==
    /\ At(c, "window") /\ c \in done /\ InWindow(caller[c].leg) >= PerMinute
    /\ LegFails(c)
    /\ UNCHANGED <<done, Policies>>

\* Mutant of LeaveWindow: the context is seen only once the timer has fired.
LeaveWindowLater(c) ==
    /\ At(c, "window") /\ c \in done /\ caller[c].leg \in old
    /\ Release(c)
    /\ LegFails(c)
    /\ UNCHANGED <<done, used, old, cache>>

\* Only a wait for the window looks at the context; the slot is given back.
LeaveWindow(c) ==
    /\ At(c, "window") /\ c \in done /\ InWindow(caller[c].leg) >= PerMinute
    /\ Release(c)
    /\ LegFails(c)
    /\ UNCHANGED <<done, used, old, cache>>

\* The engine answers, and the answer is kept for an agent with a cache.
Answers(c) ==
    /\ At(c, "request")
    /\ Release(c)
    /\ Goes(c, "after")
    /\ cache' \in {cache, cache \cup {caller[c].leg}}
    /\ UNCHANGED <<done, used, old>>

\* The engine fails: with the last attempt, an error retry_on does not list or a done
\* context the leg has failed; otherwise it backs off.
EngineFails(c) ==
    /\ At(c, "request")
    /\ Release(c)
    /\ \/ LegFails(c)
       \/ caller[c].attempt < MaxAttempts /\ c \notin done /\ Goes(c, "backoff")
    /\ UNCHANGED <<done, used, old, cache>>

\* The wait ends with the context too.
BackOff(c) ==
    /\ At(c, "backoff")
    /\ \/ caller' = [caller EXCEPT ![c].pc = "attempt", ![c].attempt = @ + 1]
       \/ c \in done /\ LegFails(c)
    /\ UNCHANGED <<done, Policies>>

-----------------------------------------------------------------------------
(* The world.                                                              *)

Cancel(c) ==
    /\ c \notin done
    /\ done' = done \cup {c}
    /\ UNCHANGED <<caller, Policies>>

Minute ==
    /\ \E a \in Agents \ old : old' = old \cup {a}
    /\ UNCHANGED <<caller, done, sem, used, cache>>

Expire ==
    /\ \E a \in cache : cache' = cache \ {a}
    /\ UNCHANGED <<caller, done, sem, used, old>>

EngineEnds(c) == Answers(c) \/ EngineFails(c)

Moves(c) ==
    \/ Route(c) \/ Prepare(c) \/ Answered(c) \/ LookUp(c) \/ Misconfigured(c) \/ Try(c)
    \/ LeaveSlot(c) \/ TakeToken(c) \/ LeaveWindow(c) \/ BackOff(c)

Next ==
    \/ \E c \in Callers : Call(c) \/ Moves(c) \/ TakeSlot(c) \/ EngineEnds(c) \/ Cancel(c)
    \/ Minute
    \/ Expire

Spec == Init /\ [][Next]_vars

\* A call goes on; an engine is stopped by a done context (the subprocess is killed, the
\* request aborted) and may work for ever without one; no fairness of the limiter's queue.
FairSpec ==
    Spec /\ \A c \in Callers :
                WF_vars(Moves(c)) /\ WF_vars(c \in done /\ EngineEnds(c))

-----------------------------------------------------------------------------
(* Properties.                                                             *)

TypeOK ==
    /\ caller \in [Callers -> CallRecords]
    /\ done \subseteq Callers /\ old \subseteq Agents /\ cache \subseteq Agents
    /\ sem \in [Agents -> 0..Concurrency]
    /\ used \in [Agents -> 0..PerMinute]

Holders(a) == {c \in Callers : caller[c].pc \in {"window", "request"} /\ caller[c].leg = a}

\* A limiter's slots are those of the calls at it, whichever way a call leaves it: a
\* request that failed, a wait for the window that was cut short, a leg that is retried.
SlotsHonest == \A a \in Agents : sem[a] = Cardinality(Holders(a))

\* A cancelled call makes at most one more request, the one its slot came just in time
\* for: neither a retry nor a fallback nor the agent a router chose is asked after it.
OneLateRequest == \A c \in Callers : caller[c].late <= 1

\* A call under way ends once its context is done, whatever it waits for: the engine, a
\* slot, the window or a backoff.
CancelEnds == \A c \in Callers : (c \in done /\ ~At(c, "away")) ~> At(c, "over")
=============================================================================
