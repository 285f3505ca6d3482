----------------------------- MODULE DurableRuns -----------------------------
(***************************************************************************)
(* One durable run of the MCP server on several replicas: run/start writes *)
(* it to the shared store, the claim loop of some replica takes it         *)
(* (mcpserver/claim.go), execRun drives it (runs.go), reconcile returns it *)
(* to pending when its worker is gone, and a client polls, cancels and     *)
(* resumes it at any replica.                                              *)
(*                                                                         *)
(* Every record in the store carries the time it was written, so a         *)
(* CompareAndSwap succeeds exactly when nothing was written since the      *)
(* bytes it compares were read.  A claim loop that another write overtakes *)
(* before its swap goes back to idle at once: the swap would fail and do   *)
(* nothing else.  The lease is what ExclusiveLease promises of it.         *)
(* Concurrency slots are always free here, every pipeline checkpoints per  *)
(* step, and a crashed replica is back at once.  A status goes stale while *)
(* a step runs, which may take as long as it likes, and when nobody is     *)
(* about to act on the run; otherwise only by a stall.                     *)
(***************************************************************************)
EXTENDS Naturals, FiniteSets

CONSTANTS
    Replica,
    None,         \* no replica: the empty holder
    MaxObjects,   \* bound: asyncRun objects alive at one time
    Faults,       \* which faults happen: a subset of {"crash", "stall", "store"}
    MaxFaults,    \* bound: faults in a behaviour
    MaxRequests,  \* bound: client requests in a behaviour
    MaxEvents     \* bound: faults and requests together

ASSUME DurableAssumption ==
    /\ None \notin Replica
    /\ MaxObjects \in Nat /\ MaxFaults \in Nat /\ MaxRequests \in Nat /\ MaxEvents \in Nat
    /\ Faults \subseteq {"crash", "stall", "store"}

VARIABLES
    status,      \* run/<id>/status
    stale,       \* the status was not written for reconcileStaleAfter
    intake,      \* run/<id>/intake exists
    flag,        \* run/<id>/cancel exists
    checkpoint,  \* a checkpoint exists
    lease,       \* who holds run/<id>/lock
    object,      \* the asyncRuns of all replicas, each with its execRun goroutine
    registry,    \* h.runs: the asyncRun a replica finds under the run's id
    claimer,     \* where each replica's claim loop is, and the asyncRun it launches
    call,        \* the client request in progress
    accepted,    \* history: run/start has replied with the run's id
    asked,       \* history: a cancel is in the store, and no resume came since
    requests,    \* client requests so far
    faults       \* faults so far

store == <<status, stale, intake, flag, checkpoint, lease>>
local == <<object, registry, claimer>>
client == <<call, accepted, asked, requests>>
vars == <<store, local, client, faults>>

-----------------------------------------------------------------------------
Object == 1..MaxObjects
Nobody == 0           \* no asyncRun: the lease is free, the registry has no entry
Orphan == MaxObjects + 1   \* the lease of a worker that died

PreExecution == {"pending", "claimed"}
Terminal == {"completed", "failed", "canceled"}
State == PreExecution \cup {"working", "paused"} \cup Terminal

Goroutine == {"idle", "acquire", "begin", "onstep", "work", "end", "release"}
Executing == {"begin", "onstep", "work"}

NoRun == [at |-> None, remote |-> FALSE, mine |-> FALSE, state |-> "failed",
          cancelled |-> FALSE, pc |-> "idle", out |-> "failed"]
NoCall == [todo |-> "none", on |-> Nobody]
Idle == [at |-> "idle", on |-> Nobody]

Runs == [at : Replica \cup {None},
         remote : BOOLEAN,
         mine : BOOLEAN,          \* its holder is its own replica
         state : State,
         cancelled : BOOLEAN,     \* the context of the execution it has or is about to have
         pc : Goroutine,
         out : State]             \* the state publishRunStatus copied, until it is written

Claimers == [at : {"idle", "peek", "get", "back", "claim", "claimed", "launch", "publish"},
             on : Object \cup {Nobody}]
Calls == [todo : {"none", "accept", "cancel", "flag", "launch"}, on : Object \cup {Nobody}]

Init ==
    /\ status = [state |-> "none", holder |-> None]
    /\ stale = FALSE /\ intake = FALSE /\ flag = FALSE /\ checkpoint = FALSE
    /\ lease = Nobody
    /\ object = [o \in Object |-> NoRun]
    /\ registry = [r \in Replica |-> Nobody]
    /\ claimer = [r \in Replica |-> Idle]
    /\ call = NoCall
    /\ accepted = FALSE /\ asked = FALSE
    /\ requests = 0 /\ faults = 0

\* An asyncRun nothing refers to any more is collected; the next one reuses its place.
Needed(o) == call.on = o \/ \E r \in Replica : claimer[r].on = o
Unused(r, o) ==
    /\ object[o].pc = "idle" /\ ~Needed(o)
    /\ \A q \in Replica \ {r} : registry[q] # o
\* The place of the asyncRun that r registers next, perhaps that of the one it replaces.
NewObject(r, o) == Unused(r, o) /\ \A p \in Object : Unused(r, p) => o <= p

Eventful == requests + faults < MaxEvents

Strikes(fault) ==
    /\ fault \in Faults /\ faults < MaxFaults /\ Eventful
    /\ faults' = faults + 1

Overtaken(loops) ==
    [r \in Replica |-> IF loops[r].at \in {"back", "claim"} THEN Idle ELSE loops[r]]

\* Mutant of Put: the swaps under way go through, as if they compared nothing.
PutUnnoticed(state, holder, loops) ==
    /\ status' = [state |-> state, holder |-> holder]
    /\ stale' = FALSE
    /\ claimer' = loops

\* WriteStatus, a blind Put, or a CompareAndSwap that is not overtaken.
Put(state, holder, loops) ==
    /\ status' = [state |-> state, holder |-> holder]
    /\ stale' = FALSE
    /\ claimer' = Overtaken(loops)

\* publishRunStatus, whose error nobody looks at.
Publish(state, o, loops) ==
    \/ /\ Put(state, IF object[o].mine THEN object[o].at ELSE None, loops)
       /\ UNCHANGED faults
    \/ /\ Strikes("store")
       /\ claimer' = loops
       /\ UNCHANGED <<status, stale>>

\* RequestCancel, likewise.
RequestCancel ==
    \/ flag' = TRUE /\ UNCHANGED faults
    \/ Strikes("store") /\ UNCHANGED flag

At(r, label) == [claimer EXCEPT ![r].at = label]
Resting(r) == [claimer EXCEPT ![r] = Idle]
Goto(o, label) == object' = [object EXCEPT ![o].pc = label, ![o].out = "failed"]

-----------------------------------------------------------------------------
(* Client requests, one at a time.                                         *)

Asks ==
    /\ call = NoCall /\ requests < MaxRequests /\ Eventful
    /\ requests' = requests + 1

Registers(r, asyncRun, todo) ==
    \E o \in Object :
       /\ NewObject(r, o)
       /\ object' = [object EXCEPT ![o] = asyncRun]
       /\ registry' = [registry EXCEPT ![r] = o]
       /\ call' = [todo |-> todo, on |-> o]

Accepting(r) ==
    /\ intake' = TRUE
    /\ Registers(r, [NoRun EXCEPT !.at = r, !.state = "pending"], "accept")
    /\ UNCHANGED faults

\* The intake record could not be written: the run is launched at once instead.
FallingBack(r) ==
    /\ Strikes("store")
    /\ Registers(r, [NoRun EXCEPT !.at = r, !.state = "working"], "launch")
    /\ UNCHANGED intake

\* run/start: the intake record first, then the pending status.
RunStart(r) ==
    /\ Asks /\ requests = 0
    /\ Accepting(r) \/ FallingBack(r)
    /\ UNCHANGED <<status, stale, flag, checkpoint, lease, claimer, accepted, asked>>

Accept ==
    /\ call.todo = "accept"
    /\ Publish(object[call.on].state, call.on, claimer)
    /\ call' = NoCall
    /\ accepted' = TRUE
    /\ UNCHANGED <<intake, flag, checkpoint, lease, object, registry, asked, requests>>

\* What a replica that does not execute the run makes of its status: a working
\* one without a live lease has lost its worker.
Seen(state) == IF state = "working" /\ lease = Nobody THEN "failed" ELSE state

\* reconstructRun: what a request at a replica that does not know the run begins with.
Reconstruct(r) ==
    /\ call = NoCall /\ requests < MaxRequests /\ Eventful
    /\ accepted /\ registry[r] = Nobody
    /\ checkpoint \/ status.state # "none"
    /\ \E o \in Object :
          /\ NewObject(r, o)
          /\ object' = [object EXCEPT ![o] =
                [NoRun EXCEPT !.at = r, !.remote = TRUE,
                              !.state = IF status.state = "none" THEN "failed"
                                        ELSE Seen(status.state)]]
          /\ registry' = [registry EXCEPT ![r] = o]
    /\ UNCHANGED <<store, claimer, client, faults>>

\* run/status: adoptIfClaimedElsewhere, refreshRemote, markIfLeaseExpired.
RunStatus(r) ==
    LET o == registry[r]
        claimedElsewhere == /\ object[o].state \in PreExecution
                            /\ status.holder \notin {None, r}
    IN /\ Asks /\ accepted /\ o # Nobody /\ status.state # "none"
       /\ object[o].remote \/ claimedElsewhere
       /\ object' = [object EXCEPT
             ![o].remote = TRUE,
             ![o].state = IF @ = "canceled" THEN @ ELSE Seen(status.state)]
       /\ UNCHANGED <<store, registry, claimer, call, accepted, asked, faults>>

\* run/cancel: a run of another replica is signalled through the store, a local
\* one through its context; what runs or waits becomes canceled.
RunCancel(r) ==
    LET o == registry[r]
        active == object[o].state \in PreExecution \cup {"working"} IN
    /\ Asks /\ accepted /\ o # Nobody
    /\ IF object[o].remote
       THEN RequestCancel /\ asked' = flag'
       ELSE UNCHANGED <<flag, faults, asked>>
    /\ object' = [object EXCEPT
          ![o].state = IF active THEN "canceled" ELSE @,
          ![o].cancelled = @ \/ (~object[o].remote /\ (object[o].pc # "idle" \/ Needed(o)))]
    /\ call' = IF active THEN [todo |-> "cancel", on |-> o] ELSE NoCall
    /\ UNCHANGED <<status, stale, intake, checkpoint, lease, registry, claimer,
                   accepted>>

CancelPublish ==
    /\ call.todo = "cancel"
    /\ Publish(object[call.on].state, call.on, claimer)
    /\ call' = [call EXCEPT !.todo = "flag"]
    /\ UNCHANGED <<intake, flag, checkpoint, lease, object, registry, accepted, asked, requests>>

\* Mutant of CancelFlag: the claimant of a pending run is not told.
CancelFlagUnset ==
    /\ call.todo = "flag"
    /\ call' = NoCall
    /\ asked' = TRUE
    /\ UNCHANGED <<store, local, accepted, requests, faults>>

\* Whoever claimed the run in the same instant finds the flag; the client is told.
CancelFlag ==
    /\ call.todo = "flag"
    /\ RequestCancel
    /\ call' = NoCall
    /\ asked' = flag'
    /\ UNCHANGED <<status, stale, intake, checkpoint, lease, local, accepted, requests>>

\* run/resume, unless the run executes elsewhere or still works here.  A second
\* goroutine on an asyncRun that has one, or is about to, is left out.
RunResume(r) ==
    LET o == registry[r] IN
    /\ Asks /\ accepted /\ o # Nobody
    /\ object[o].pc = "idle" /\ claimer[r].on # o
    /\ checkpoint
    /\ \/ lease = Nobody
       \/ lease \in Object /\ object[lease].at = r /\ object[o].state # "working"
    /\ object' = [object EXCEPT ![o].state = "working", ![o].cancelled = FALSE]
    /\ call' = [todo |-> "launch", on |-> o]
    /\ asked' = FALSE
    /\ UNCHANGED <<store, registry, claimer, accepted, faults>>

\* launch, and the reply.
Launch ==
    /\ call.todo = "launch"
    /\ Publish(object[call.on].state, call.on, claimer)
    /\ Goto(call.on, "acquire")
    /\ call' = NoCall
    /\ accepted' = TRUE
    /\ UNCHANGED <<intake, flag, checkpoint, lease, registry, asked, requests>>

-----------------------------------------------------------------------------
(* The claim loop of replica r: reconcileRuns, then drainClaims.           *)

\* Mutant of ReconcileList: a claimed run is taken for one not started yet.
ReconcileListStarted(r) ==
    /\ claimer[r].at = "idle" /\ stale /\ status.state \in {"working", "paused"}
    /\ claimer' = At(r, "peek")
    /\ UNCHANGED <<store, object, registry, client, faults>>

ReconcileList(r) ==
    /\ claimer[r].at = "idle" /\ stale /\ status.state \in {"claimed", "working", "paused"}
    /\ claimer' = At(r, "peek")
    /\ UNCHANGED <<store, object, registry, client, faults>>

ReconcilePeek(r) ==
    /\ claimer[r].at = "peek"
    /\ claimer' = IF lease = Nobody THEN At(r, "get") ELSE Resting(r)
    /\ UNCHANGED <<store, object, registry, client, faults>>

\* The bytes to swap are read only now; the record to write is built from the list.
ReconcileGet(r) ==
    /\ claimer[r].at = "get"
    /\ claimer' = IF status.state = "none" THEN Resting(r) ELSE At(r, "back")
    /\ UNCHANGED <<store, object, registry, client, faults>>

ReconcileSwap(r) ==
    /\ claimer[r].at = "back"
    /\ Put("pending", None, Resting(r))
    /\ UNCHANGED <<intake, flag, checkpoint, lease, object, registry, client, faults>>

\* claimNextCAS: the pending record is read, then swapped.
ClaimRead(r) ==
    /\ claimer[r].at = "idle" /\ status.state = "pending"
    /\ claimer' = At(r, "claim")
    /\ UNCHANGED <<store, object, registry, client, faults>>

ClaimSwap(r) ==
    /\ claimer[r].at = "claim"
    /\ Put("claimed", r, At(r, "claimed"))
    /\ UNCHANGED <<intake, flag, checkpoint, lease, object, registry, client, faults>>

\* The asyncRuns once r's registry lets go of its entry.
Unregistered(r) ==
    [o \in Object |-> IF registry[r] = o /\ object[o].pc = "idle" /\ ~Needed(o)
                      THEN NoRun ELSE object[o]]

Launches(r, o) == claimer' = [claimer EXCEPT ![r] = [at |-> "launch", on |-> o]]

\* A fresh execution object, built from the intake record and registered.
Rebuild(r) ==
    \E o \in Object :
       /\ NewObject(r, o)
       /\ object' = [Unregistered(r) EXCEPT ![o] =
             [NoRun EXCEPT !.at = r, !.mine = TRUE, !.state = "claimed"]]
       /\ registry' = [registry EXCEPT ![r] = o]
       /\ Launches(r, o)

\* failClaimed: the intake record is missing or could not be read.
FailClaimed(r) ==
    /\ claimer[r].at = "claimed"
    /\ IF intake THEN Strikes("store") ELSE UNCHANGED faults
    /\ Put("failed", r, Resting(r))
    /\ UNCHANGED <<intake, flag, checkpoint, lease, object, registry, client>>

\* Mutant of RunForClaimed: whatever is registered here is run again.
RunForClaimedAgain(r) ==
    LET o == registry[r] IN
    /\ claimer[r].at = "claimed"
    /\ IF o # Nobody
       THEN /\ object' = [object EXCEPT ![o].mine = TRUE]
            /\ Launches(r, o)
            /\ UNCHANGED registry
       ELSE Rebuild(r)
    /\ UNCHANGED <<store, client, faults>>

\* runForClaimed: the asyncRun accepted here, if it has not started, else a new one.
RunForClaimed(r) ==
    LET o == registry[r]
        reuse == o # Nobody /\ ~object[o].remote /\ object[o].state \in PreExecution
    IN /\ claimer[r].at = "claimed"
       /\ IF reuse
          THEN /\ object' = [object EXCEPT ![o].mine = TRUE]
               /\ Launches(r, o)
               /\ UNCHANGED registry
          ELSE intake /\ Rebuild(r)
       /\ UNCHANGED <<store, client, faults>>

\* runClaimed, whatever happened to the run since: a fresh context, working.
RunClaimed(r) ==
    /\ claimer[r].at = "launch"
    /\ object' = [object EXCEPT ![claimer[r].on].state = "working",
                                ![claimer[r].on].cancelled = FALSE]
    /\ claimer' = At(r, "publish")
    /\ UNCHANGED <<store, registry, client, faults>>

ClaimedPublish(r) ==
    LET o == claimer[r].on IN
    /\ claimer[r].at = "publish"
    /\ Publish(object[o].state, o, Resting(r))
    /\ Goto(o, "acquire")
    /\ UNCHANGED <<intake, flag, checkpoint, lease, registry, client>>

ClaimLoop(r) ==
    \/ ReconcileList(r) \/ ReconcilePeek(r) \/ ReconcileGet(r) \/ ReconcileSwap(r)
    \/ ClaimRead(r) \/ ClaimSwap(r) \/ FailClaimed(r) \/ RunForClaimed(r)
    \/ RunClaimed(r) \/ ClaimedPublish(r)

-----------------------------------------------------------------------------
(* execRun on asyncRun o.                                                  *)

\* The state changes under the asyncRun's mutex; publishRunStatus copies it there.
Becomes(o, state, label) ==
    object' = [object EXCEPT ![o].state = state, ![o].out = state, ![o].pc = label]

Acquire(o) ==
    /\ object[o].pc = "acquire"
    /\ lease = Nobody /\ ~object[o].cancelled
    /\ lease' = o
    /\ Becomes(o, object[o].state, "begin")
    /\ UNCHANGED <<status, stale, intake, flag, checkpoint, registry, claimer, client, faults>>

\* The lease is held by another leg, or the store or the context gave an error.
\* Nothing is held, so nothing is released.
AcquireFails(o) ==
    /\ object[o].pc = "acquire"
    /\ \/ lease # Nobody /\ UNCHANGED faults
       \/ object[o].cancelled /\ UNCHANGED faults
       \/ Strikes("store")
    /\ Becomes(o, "failed", "end")
    /\ UNCHANGED <<store, registry, claimer, client>>

Begin(o) ==
    /\ object[o].pc = "begin"
    /\ Publish(object[o].out, o, claimer)
    /\ Goto(o, "work")
    /\ UNCHANGED <<intake, flag, checkpoint, lease, registry, client>>

\* A step ended and the next begins: the fenced checkpoint, then OnStep.
NextStep(o) ==
    /\ object[o].pc = "work" /\ ~object[o].cancelled /\ lease = o
    /\ checkpoint' = TRUE
    /\ Becomes(o, object[o].state, "onstep")
    /\ UNCHANGED <<status, stale, intake, flag, lease, registry, claimer, client, faults>>

CancelledState(state) == IF state = "working" THEN "canceled" ELSE state

\* OnStep publishes; at the step boundary a distributed cancel is honoured.
OnStep(o) ==
    /\ object[o].pc = "onstep"
    /\ Publish(object[o].out, o, claimer)
    /\ IF flag
       THEN object' = [object EXCEPT ![o].pc = "work", ![o].cancelled = TRUE,
                                     ![o].state = CancelledState(@)]
       ELSE Goto(o, "work")
    /\ UNCHANGED <<intake, flag, checkpoint, lease, registry, client>>

\* watchRemoteCancel.
Watch(o) ==
    /\ object[o].pc \in Executing /\ flag /\ ~object[o].cancelled
    /\ object' = [object EXCEPT ![o].cancelled = TRUE, ![o].state = CancelledState(@)]
    /\ UNCHANGED <<store, registry, claimer, client, faults>>

\* heartbeatLock: the lease is lost.
Heartbeat(o) ==
    /\ object[o].pc \in Executing /\ lease # o /\ ~object[o].cancelled
    /\ object' = [object EXCEPT ![o].cancelled = TRUE]
    /\ UNCHANGED <<store, registry, claimer, client, faults>>

\* What execsvc.Run returned becomes the state, unless a cancel already did.
\* Writing or clearing the checkpoint takes the lease.
Ends(o, state) ==
    /\ object[o].pc = "work"
    /\ Becomes(o, IF object[o].state = "canceled" THEN "canceled" ELSE state, "end")
    /\ UNCHANGED <<status, stale, intake, flag, lease, registry, claimer, client, faults>>

Completes(o) == lease = o /\ checkpoint' = FALSE /\ Ends(o, "completed")
Pauses(o) == lease = o /\ checkpoint' = TRUE /\ Ends(o, "paused")
Fails(o) == ~object[o].cancelled /\ UNCHANGED checkpoint /\ Ends(o, "failed")
Stops(o) ==
    /\ object[o].cancelled
    /\ checkpoint' \in {checkpoint, checkpoint \/ lease = o}
    /\ Ends(o, "canceled")

PublishFinal(o) ==
    /\ object[o].pc = "end"
    /\ Publish(object[o].out, o, claimer)
    /\ Goto(o, "release")
    /\ UNCHANGED <<intake, flag, checkpoint, lease, registry, client>>

\* The deferred calls of execRun: the lease is given up.
Release(o) ==
    /\ object[o].pc = "release"
    /\ lease' = IF lease = o THEN Nobody ELSE lease
    /\ object' = [object EXCEPT ![o] =
          IF Needed(o) \/ registry[object[o].at] = o
          THEN [@ EXCEPT !.pc = "idle", !.cancelled = FALSE]
          ELSE NoRun]
    /\ UNCHANGED <<status, stale, intake, flag, checkpoint, registry, claimer, client, faults>>

Goroutines(o) ==
    \/ Acquire(o) \/ AcquireFails(o) \/ Begin(o) \/ NextStep(o) \/ OnStep(o)
    \/ Watch(o) \/ Heartbeat(o)
    \/ Completes(o) \/ Pauses(o) \/ Fails(o) \/ Stops(o)
    \/ PublishFinal(o) \/ Release(o)

-----------------------------------------------------------------------------
(* Housekeeping and faults.                                                *)

\* sweepRuns retires the record of a run that stopped long ago: the retention window
\* is longer than anything takes.
Retire ==
    /\ status.state \in Terminal /\ ~checkpoint
    /\ call = NoCall
    /\ \A r \in Replica : claimer[r] = Idle
    /\ \A o \in Object : object[o].pc = "idle"
    /\ Put("none", None, claimer)
    /\ intake' = FALSE /\ flag' = FALSE /\ lease' = Nobody
    /\ UNCHANGED <<checkpoint, object, registry, client, faults>>

Crash(r) ==
    /\ Strikes("crash")
    /\ lease' = IF lease \in Object /\ object[lease].at = r THEN Orphan ELSE lease
    /\ object' = [o \in Object |-> IF object[o].at = r THEN NoRun ELSE object[o]]
    /\ registry' = [registry EXCEPT ![r] = Nobody]
    /\ claimer' = Resting(r)
    /\ call' = IF call.on \in Object /\ object[call.on].at = r THEN NoCall ELSE call
    /\ UNCHANGED <<status, stale, intake, flag, checkpoint, accepted, asked, requests>>

\* A worker stalls, and its lease lapses before it is renewed.
Lapse ==
    /\ lease \in Object
    /\ Strikes("stall")
    /\ lease' = Nobody
    /\ UNCHANGED <<status, stale, intake, flag, checkpoint, local, client>>

\* The lease of a dead worker runs out.
Expire ==
    /\ lease = Orphan
    /\ lease' = Nobody
    /\ UNCHANGED <<status, stale, intake, flag, checkpoint, local, client, faults>>

\* Somebody goes on with the run well within reconcileStaleAfter.
Handled ==
    \/ call # NoCall
    \/ \E r \in Replica : claimer[r].at \in {"claimed", "launch", "publish"}
    \/ \E o \in Object : object[o].pc \notin {"idle", "work"}

Aged ==
    /\ ~stale /\ status.state \in {"claimed", "working", "paused"}
    /\ stale' = TRUE
    /\ UNCHANGED <<status, intake, flag, checkpoint, lease, local, client>>

Age == ~Handled /\ Aged /\ UNCHANGED faults
Stall == Handled /\ Strikes("stall") /\ Aged

Calling == Accept \/ CancelPublish \/ CancelFlag \/ Launch

Next ==
    \/ Calling
    \/ \E r \in Replica :
          \/ RunStart(r) \/ Reconstruct(r) \/ RunStatus(r) \/ RunCancel(r) \/ RunResume(r)
          \/ ClaimLoop(r)
          \/ Crash(r)
    \/ \E o \in Object : Goroutines(o)
    \/ Age \/ Stall \/ Lapse \/ Expire \/ Retire

\* A step may take for ever; a cancelled one stops at its context.
Fairness ==
    /\ WF_vars(Calling)
    /\ WF_vars(Expire) /\ WF_vars(Age)
    /\ \A r \in Replica : WF_vars(ClaimLoop(r))
    /\ \A o \in Object :
          /\ WF_vars(Acquire(o) \/ AcquireFails(o) \/ Begin(o) \/ OnStep(o)
                     \/ Stops(o) \/ PublishFinal(o) \/ Release(o))
          /\ WF_vars(Watch(o) \/ Heartbeat(o))

Spec == Init /\ [][Next]_vars /\ Fairness

-----------------------------------------------------------------------------
\* Every variable keeps its type, and a lease in a worker's name is held by a
\* goroutine that executes, or ends, on its own replica.
TypeOK ==
    /\ status \in [state : State \cup {"none"}, holder : Replica \cup {None}]
    /\ stale \in BOOLEAN /\ intake \in BOOLEAN /\ flag \in BOOLEAN /\ checkpoint \in BOOLEAN
    /\ lease \in Object \cup {Nobody, Orphan}
    /\ object \in [Object -> Runs]
    /\ registry \in [Replica -> Object \cup {Nobody}]
    /\ claimer \in [Replica -> Claimers]
    /\ call \in Calls
    /\ accepted \in BOOLEAN /\ asked \in BOOLEAN
    /\ requests \in 0..MaxRequests /\ faults \in 0..MaxFaults
    /\ lease \in Object => object[lease].pc \in Executing \cup {"end", "release"}

\* runForClaimed never hands out an asyncRun that has a goroutine ("a reconcile ->
\* re-claim never starts a second goroutine on the same asyncRun"), although the
\* run it claims may still be executing here, its lease lapsed.
OneGoroutine ==
    \A r \in Replica :
       claimer[r].at \in {"launch", "publish"} => object[claimer[r].on].pc = "idle"

\* A claim is won only from pending, however many replicas read it as pending and
\* whatever was published between the read and the swap.
ClaimsPending ==
    [][\A r \in Replica :
          claimer'[r].at = "claimed" /\ claimer[r].at # "claimed" => status.state = "pending"]_vars

Worked == \E o \in Object : object[o].pc \in Executing

\* "An accepted run survives a crash before its first step": once its status is in
\* the store, whoever crashes or stalls holding it, some replica works on it, unless
\* it stops, pauses or is retired.
AcceptedRuns ==
    (accepted /\ status.state # "none") ~>
       (Worked \/ status.state \in Terminal \cup {"paused", "none"})

\* A cancel that reached the store stops the run at every replica that may have
\* claimed, resumed or taken it over meanwhile, until a resume is asked for.
CancelStops == asked ~> (~asked \/ ~Worked)
=============================================================================
