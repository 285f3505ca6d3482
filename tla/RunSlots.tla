------------------------------- MODULE RunSlots -------------------------------
(***************************************************************************)
(* The runs of one server and the slots they execute in (mcpserver/runs.go, *)
(* http.go), on the path without a durable store: run/start and run/resume  *)
(* launch a goroutine (a leg of the run) that executes at once or is queued *)
(* until a slot is free; a synchronous tools/call waits a short while for   *)
(* one; run/cancel and the drain of a stopping server cut them all short.   *)
(*                                                                         *)
(* A leg has its own context and the run has a channel per leg, done, that  *)
(* is closed when the leg is over.  The legs of a run are numbered; the     *)
(* run's fields cancel and done belong to the latest.  A goroutine that     *)
(* closes a channel twice panics, and the process with it.                  *)
(***************************************************************************)
EXTENDS Naturals, FiniteSets

CONSTANTS
    Runs,       \* the runs clients start
    Calls,      \* the clients of synchronous tools/call
    Slots,      \* --max-concurrent-runs
    MaxLegs,    \* bound: goroutines one run is given
    MaxLaunches \* bound: goroutines all of them are given

Leg == 1..MaxLegs

ASSUME SlotsAssumption ==
    /\ Slots \in Nat \ {0} /\ MaxLegs \in Nat \ {0} /\ MaxLaunches \in Nat
    /\ Runs \cap Calls = {}
    /\ IsFiniteSet(Runs) /\ IsFiniteSet(Calls)

VARIABLES
    run,        \* the registry's record of each run
    leg,        \* the goroutines of each run
    call,       \* the synchronous calls
    sem,        \* tokens in the semaphore
    server      \* "serving", "draining", "cancelled" (runsCancel), "crashed"

vars == <<run, leg, call, sem, server>>

-----------------------------------------------------------------------------
Stopped == {"completed", "failed", "paused", "canceled"}

\* last is the latest leg, 0 before run/start; saved says the store has a checkpoint.
RunRecords == [state : {"queued", "working"} \cup Stopped, last : 0..MaxLegs, saved : BOOLEAN]

\* launching: the handler has made it and not yet called launch's body; waiting: in
\* acquireSlot; granted: waitAndRun holds a slot; starting: launch holds one; leaving:
\* the run's state is written and the deferred calls are due.  own is the leg whose
\* cancel and done execRun read from the run when it began.
LegRecords == [pc : {"none", "launching", "waiting", "granted", "starting", "exec",
                     "leaving", "over"},
               cancelled : BOOLEAN, own : 0..MaxLegs, closed : BOOLEAN]

NoLeg == [pc |-> "none", cancelled |-> FALSE, own |-> 0, closed |-> FALSE]

Init ==
    /\ run = [r \in Runs |-> [state |-> "queued", last |-> 0, saved |-> FALSE]]
    /\ leg = [r \in Runs |-> [k \in Leg |-> NoLeg]]
    /\ call = [c \in Calls |-> "away"]
    /\ sem = 0
    /\ server = "serving"

Up == server # "crashed"
Free == sem < Slots

\* Mutant of CtxDone: a leg's context does not descend from runsCtx.
CtxDoneAlone(r, k) == leg[r][k].cancelled

\* Every leg's context descends from runsCtx.
CtxDone(r, k) == leg[r][k].cancelled \/ server = "cancelled"

Holding == {"granted", "starting", "exec", "leaving"}

-----------------------------------------------------------------------------
(* Requests about a run.                                                   *)

Made == {p \in Runs \X Leg : leg[p[1]][p[2]].pc # "none"}

Create(r, k) ==
    /\ k \in Leg /\ Cardinality(Made) < MaxLaunches
    /\ leg' = [leg EXCEPT ![r][k] = [NoLeg EXCEPT !.pc = "launching"]]

\* runStart: the record is registered, as queued, before launch.
Start(r) ==
    /\ server = "serving" /\ run[r].last = 0
    /\ Create(r, 1)
    /\ run' = [run EXCEPT ![r].last = 1]
    /\ UNCHANGED <<call, sem, server>>

\* runResume needs a checkpoint and refuses a working run only.
Resumable(r) == run[r].saved /\ run[r].state # "working"

\* It gives the run a context and a channel of the new leg, and leaves its state.
Resume(r) ==
    /\ Up /\ run[r].last # 0 /\ Resumable(r)
    /\ Create(r, run[r].last + 1)
    /\ run' = [run EXCEPT ![r].last = @ + 1]
    /\ UNCHANGED <<call, sem, server>>

\* launch: with a slot at once, or queued behind the others.
LaunchNow(r, k) ==
    /\ leg[r][k].pc = "launching" /\ Free
    /\ sem' = sem + 1
    /\ run' = [run EXCEPT ![r].state = "working"]
    /\ leg' = [leg EXCEPT ![r][k].pc = "starting"]
    /\ UNCHANGED <<call, server>>

\* Mutant of LaunchLater: a queued run says it is working.
LaunchLaterAsWorking(r, k) ==
    /\ leg[r][k].pc = "launching" /\ ~Free
    /\ run' = [run EXCEPT ![r].state = "working"]
    /\ leg' = [leg EXCEPT ![r][k].pc = "waiting"]
    /\ UNCHANGED <<call, sem, server>>

LaunchLater(r, k) ==
    /\ leg[r][k].pc = "launching" /\ ~Free
    /\ run' = [run EXCEPT ![r].state = "queued"]
    /\ leg' = [leg EXCEPT ![r][k].pc = "waiting"]
    /\ UNCHANGED <<call, sem, server>>

\* runCancel reaches the latest leg.
Cancel(r) ==
    /\ Up /\ run[r].last # 0
    /\ leg' = [leg EXCEPT ![r][run[r].last].cancelled = TRUE]
    /\ run' = [run EXCEPT ![r].state = IF @ \in {"queued", "working"} THEN "canceled" ELSE @]
    /\ UNCHANGED <<call, sem, server>>

-----------------------------------------------------------------------------
(* The goroutine of a leg.                                                 *)

\* Closing a channel that is closed panics.
Closes(r, k, next) ==
    IF leg[r][k].closed
    THEN server' = "crashed" /\ leg' = next
    ELSE server' = server /\ leg' = [next EXCEPT ![r][k].closed = TRUE]

With(r, k, pc) == [leg EXCEPT ![r][k].pc = pc]

\* Go hands slots on in the order of arrival; here any waiter may be next.
Take(r, k) ==
    /\ leg[r][k].pc = "waiting" /\ Free
    /\ sem' = sem + 1
    /\ leg' = With(r, k, "granted")
    /\ UNCHANGED <<run, call, server>>

\* Mutant of GiveUp: a run whose wait ended stays queued.
GiveUpQuietly(r, k) ==
    /\ leg[r][k].pc = "waiting" /\ CtxDone(r, k)
    /\ run' = run
    /\ Closes(r, run[r].last, With(r, k, "over"))
    /\ UNCHANGED <<call, sem>>

\* acquireSlot ends without one.  The run's channel is the one of its latest leg.
GiveUp(r, k) ==
    /\ leg[r][k].pc = "waiting" /\ CtxDone(r, k)
    /\ run' = [run EXCEPT ![r].state = IF @ = "queued" THEN "canceled" ELSE @]
    /\ Closes(r, run[r].last, With(r, k, "over"))
    /\ UNCHANGED <<call, sem>>

\* Mutant of Withdraw: the slot that came too late is kept.
WithdrawKeepingSlot(r, k) ==
    /\ leg[r][k].pc = "granted" /\ run[r].state # "queued"
    /\ sem' = sem
    /\ Closes(r, run[r].last, With(r, k, "over"))
    /\ UNCHANGED <<run, call>>

\* Cancelled between the slot and the lock: nothing is executed.
Withdraw(r, k) ==
    /\ leg[r][k].pc = "granted" /\ run[r].state # "queued"
    /\ sem' = sem - 1
    /\ Closes(r, run[r].last, With(r, k, "over"))
    /\ UNCHANGED <<run, call>>

Begin(r, k) == leg' = [leg EXCEPT ![r][k].pc = "exec", ![r][k].own = run[r].last]

TurnWorking(r, k) ==
    /\ leg[r][k].pc = "granted" /\ run[r].state = "queued"
    /\ run' = [run EXCEPT ![r].state = "working"]
    /\ Begin(r, k)
    /\ UNCHANGED <<call, sem, server>>

BeginNow(r, k) ==
    /\ leg[r][k].pc = "starting"
    /\ Begin(r, k)
    /\ UNCHANGED <<run, call, sem, server>>

\* A step is over and its checkpoint is written.
Step(r, k) ==
    /\ leg[r][k].pc = "exec" /\ ~run[r].saved
    /\ run' = [run EXCEPT ![r].saved = TRUE]
    /\ UNCHANGED <<leg, call, sem, server>>

\* The workflow completes (its checkpoint is cleared), pauses (a checkpoint is always
\* written) or fails; a failure under a done context is a cancellation.
Ends(r, k) ==
    {[state |-> "completed", saved |-> FALSE], [state |-> "paused", saved |-> TRUE]}
    \cup [state : {IF CtxDone(r, k) THEN "canceled" ELSE "failed"}, saved : {run[r].saved}]

\* Mutant of Finish: the workflow's end is written whatever the state is.
FinishAnyway(r, k) ==
    /\ leg[r][k].pc = "exec"
    /\ \E end \in Ends(r, k) :
         run' = [run EXCEPT ![r].state = end.state, ![r].saved = end.saved]
    /\ leg' = With(r, k, "leaving")
    /\ UNCHANGED <<call, sem, server>>

\* A run that was cancelled meanwhile stays so.
Finish(r, k) ==
    /\ leg[r][k].pc = "exec"
    /\ \E end \in Ends(r, k) :
         run' = [run EXCEPT ![r].state = IF @ = "canceled" THEN @ ELSE end.state,
                            ![r].saved = end.saved]
    /\ leg' = With(r, k, "leaving")
    /\ UNCHANGED <<call, sem, server>>

\* The deferred calls: cancel and close what execRun found, then give the slot back.
Leave(r, k) ==
    /\ leg[r][k].pc = "leaving"
    /\ sem' = sem - 1
    /\ Closes(r, leg[r][k].own,
              [leg EXCEPT ![r][k].pc = "over", ![r][leg[r][k].own].cancelled = TRUE])
    /\ UNCHANGED <<run, call>>

-----------------------------------------------------------------------------
(* Synchronous calls, and the end of the server.                           *)

Arrive(c) ==
    /\ server = "serving" /\ call[c] = "away"
    /\ call' = [call EXCEPT ![c] = "waiting"]
    /\ UNCHANGED <<run, leg, sem, server>>

TakeForCall(c) ==
    /\ Up /\ call[c] = "waiting" /\ Free
    /\ sem' = sem + 1
    /\ call' = [call EXCEPT ![c] = "running"]
    /\ UNCHANGED <<run, leg, server>>

\* Its time is up, its client left, or the server is stopping.
Shed(c) ==
    /\ Up /\ call[c] = "waiting"
    /\ call' = [call EXCEPT ![c] = "away"]
    /\ UNCHANGED <<run, leg, sem, server>>

CallEnds(c) ==
    /\ Up /\ call[c] = "running"
    /\ sem' = sem - 1
    /\ call' = [call EXCEPT ![c] = "away"]
    /\ UNCHANGED <<run, leg, server>>

\* drain refuses new work, waits for the working runs or its deadline, and cancels.
DrainStart ==
    /\ server = "serving"
    /\ server' = "draining"
    /\ UNCHANGED <<run, leg, call, sem>>

DrainEnds ==
    /\ server = "draining"
    /\ server' = "cancelled"
    /\ UNCHANGED <<run, leg, call, sem>>

-----------------------------------------------------------------------------
\* The server's part of a leg, and the workflow's.
LegMoves(r, k) ==
    /\ Up
    /\ \/ LaunchNow(r, k) \/ LaunchLater(r, k) \/ Take(r, k) \/ GiveUp(r, k)
       \/ Withdraw(r, k) \/ TurnWorking(r, k) \/ BeginNow(r, k) \/ Leave(r, k)

WorkflowMoves(r, k) == Up /\ (Step(r, k) \/ Finish(r, k))

Next ==
    \/ \E r \in Runs : Start(r) \/ Resume(r) \/ Cancel(r)
    \/ \E r \in Runs, k \in Leg : LegMoves(r, k) \/ WorkflowMoves(r, k)
    \/ \E c \in Calls : Arrive(c) \/ TakeForCall(c) \/ Shed(c) \/ CallEnds(c)
    \/ DrainStart
    \/ DrainEnds

Spec == Init /\ [][Next]_vars

\* Goroutines are scheduled; a workflow whose context is done ends, any other may run on
\* for ever; calls end; and a waiter that a slot is within reach of again and again gets
\* one (the channel serves its waiters in order).
Fairness ==
    /\ \A r \in Runs, k \in Leg :
         /\ WF_vars(LegMoves(r, k)) /\ SF_vars(Up /\ Take(r, k))
         /\ WF_vars(Up /\ CtxDone(r, k) /\ Finish(r, k))
    /\ \A c \in Calls : WF_vars(CallEnds(c)) /\ WF_vars(Shed(c))
    /\ WF_vars(DrainEnds)

FairSpec == Spec /\ Fairness

-----------------------------------------------------------------------------
(* Properties.                                                             *)

TypeOK ==
    /\ run \in [Runs -> RunRecords]
    /\ leg \in [Runs -> [Leg -> LegRecords]]
    /\ call \in [Calls -> {"away", "waiting", "running"}]
    /\ sem \in 0..Slots
    /\ server \in {"serving", "draining", "cancelled", "crashed"}

HoldingLegs == {p \in Runs \X Leg : leg[p[1]][p[2]].pc \in Holding}
HoldingCalls == {c \in Calls : call[c] = "running"}

\* The semaphore counts the executions under way, those of cancelled, refused and
\* resumed runs included: no slot is lost and none is given back twice.
SlotsConserved == sem = Cardinality(HoldingLegs) + Cardinality(HoldingCalls)

\* A run that says it is working has a goroutine that executes it, or is about to: drain
\* waits for it and runResume refuses it for as long as it says so.
WorkingIsDriven ==
    \A r \in Runs : run[r].state = "working" =>
        \E k \in Leg : leg[r][k].pc \in {"launching", "starting", "exec"}

\* A cancelled run becomes anything else only through a launch that is under way (of a
\* run/resume, or of a run/start whose run another request found and cancelled): neither
\* a slot that comes late nor a workflow that goes on to complete revives it.
CancelSticks ==
    [][\A r \in Runs :
         run[r].state = "canceled" /\ run'[r].state # "canceled"
            => \E k \in Leg : leg[r][k].pc = "launching"]_vars

Executing == \E r \in Runs, k \in Leg : leg[r][k].pc = "exec"

\* If no workflow keeps its slot for ever, a queued run is started or cancelled in the
\* end, whatever comes before it.
QueuedMoves ==
    []<>~Executing =>
        \A r \in Runs :
            (run[r].last # 0 /\ run[r].state = "queued")
                ~> (run[r].state # "queued" \/ server = "crashed")

\* Once the server has cancelled its runs, every goroutine ends.
AllEnd ==
    (server = "cancelled")
        ~> (server = "crashed"
              \/ \A r \in Runs, k \in Leg : leg[r][k].pc \in {"none", "over"})

\* The comment on waitAndRun, runs.go:150-153: the goroutine of a queued run or execRun
\* closes done, each its own: no channel is closed twice.
DoneClosedOnce == server # "crashed"
=============================================================================
