------------------------------- MODULE StepGroup -------------------------------
(***************************************************************************)
(* One parallel group of a pipeline (runParallelStage, engine/runtime/     *)
(* runner.go): its branches are steps that run at once, each of which may  *)
(* spawn background agent calls and wait for them (engine/interpreter/     *)
(* spawn.go).  All calls of a run share one semaphore.  A plain step is a  *)
(* group of one branch.                                                    *)
(*                                                                         *)
(* What a body computes is left open: it spawns, waits and ends as it      *)
(* likes.  Branches and the calls of a branch are numbered in the order    *)
(* they are declared and spawned.                                          *)
(***************************************************************************)
EXTENDS ParallelGroup

CONSTANTS
    Timed,      \* the branches that declare a timeout
    MaxCalls,   \* bound: calls one branch spawns
    MaxSpawns,  \* bound: calls all of them spawn
    Permits     \* spawn { max_concurrency }

Call == 1..MaxCalls

ASSUME GroupAssumption ==
    /\ Branches \in Nat \ {0} /\ MaxCalls \in Nat /\ MaxSpawns \in Nat
    /\ Timed \subseteq Branch
    /\ Permits \in Nat \ {0}

VARIABLES
    step,     \* each branch: its body, the wait it is in, how it ended
    call,     \* each branch's spawned calls
    sem,      \* permits taken of the run's semaphore
    ctx,      \* the contexts that are done: cancelled run, passed deadlines
    outcome   \* what the group comes to, once it is joined

vars == <<step, call, sem, ctx, outcome>>

-----------------------------------------------------------------------------
\* "signal" is pause, break, goto or complete; "ctx" the error of a done context.
Errors == {"none", "failed", "ctx", "signal"}

Calls == [at : {"none", "queued", "running", "leaving", "done"},
          err : {"none", "failed", "ctx"},
          cancelled : BOOLEAN]

NoCall == [at |-> "none", err |-> "none", cancelled |-> FALSE]

\* A wait asks for need successes among on: all of them (plain), one (any), a
\* quorum, or none (on_error "collect").  joined are the calls of concluded waits.
Steps == [pc : {"body", "wait", "settle", "drain", "over"},
          on : SUBSET Call, need : 0..MaxCalls, seen : SUBSET Call,
          verdict : {"met", "short", "late"},
          joined : SUBSET Call,
          err : Errors]

NewStep == [pc |-> "body", on |-> {}, need |-> 0, seen |-> {}, verdict |-> "met",
            joined |-> {}, err |-> "none"]

Outcomes == {"running", "ok", "failed", "signal", "cancelled", "timeout"}

Init ==
    /\ step = [b \in Branch |-> NewStep]
    /\ call = [b \in Branch |-> [k \in Call |-> NoCall]]
    /\ sem = 0
    /\ ctx = [run |-> FALSE, group |-> FALSE, branch |-> [b \in Branch |-> FALSE]]
    /\ outcome = "running"

GroupDone == ctx.run \/ ctx.group
StepDone(b) == GroupDone \/ ctx.branch[b]
CallDone(b, k) == StepDone(b) \/ call[b][k].cancelled

Made(b) == {k \in Call : call[b][k].at # "none"}
Spawned == {p \in Branch \X Call : call[p[1]][p[2]].at # "none"}
Returned(b, K) == \A k \in K : call[b][k].at = "done"
Succeeded(b, K) == {k \in K : call[b][k].err = "none"}

\* Control signals are not genuine errors.
Genuine(err) == err \in {"failed", "ctx"}

Cancelled(b, K) ==
    [call EXCEPT ![b] = [k \in Call |-> IF k \in K THEN [@[k] EXCEPT !.cancelled = TRUE]
                                        ELSE @[k]]]

-----------------------------------------------------------------------------
(* A spawned call.                                                         *)

\* The semaphore may be taken even when the context is done: select picks either.
Acquire(b, k) ==
    /\ call[b][k].at = "queued" /\ sem < Permits
    /\ sem' = sem + 1
    /\ call' = [call EXCEPT ![b][k] =
                   IF CallDone(b, k) THEN [@ EXCEPT !.at = "leaving", !.err = "ctx"]
                   ELSE [@ EXCEPT !.at = "running"]]
    /\ UNCHANGED <<step, ctx, outcome>>

\* Mutant of GiveUp: the release is deferred before the select.
GiveUpReleasing(b, k) ==
    /\ call[b][k].at = "queued" /\ CallDone(b, k)
    /\ call' = [call EXCEPT ![b][k].at = "leaving", ![b][k].err = "ctx"]
    /\ UNCHANGED <<step, sem, ctx, outcome>>

GiveUp(b, k) ==
    /\ call[b][k].at = "queued" /\ CallDone(b, k)
    /\ call' = [call EXCEPT ![b][k].at = "done", ![b][k].err = "ctx"]
    /\ UNCHANGED <<step, sem, ctx, outcome>>

\* The agent answers, fails or panics, or is cut short by its context.
AgentReturns(b, k) ==
    /\ call[b][k].at = "running"
    /\ \E err \in {"none", "failed"} \cup (IF CallDone(b, k) THEN {"ctx"} ELSE {}) :
          call' = [call EXCEPT ![b][k].at = "leaving", ![b][k].err = err]
    /\ UNCHANGED <<step, sem, ctx, outcome>>

\* Mutant of Leave: a call that was cut short keeps its permit.
LeaveKeepingPermit(b, k) ==
    /\ call[b][k].at = "leaving"
    /\ call' = [call EXCEPT ![b][k].at = "done"]
    /\ sem' = IF call[b][k].err = "ctx" THEN sem ELSE sem - 1
    /\ UNCHANGED <<step, ctx, outcome>>

\* The deferred calls: the permit goes back, then done is closed.
Leave(b, k) ==
    /\ call[b][k].at = "leaving"
    /\ call' = [call EXCEPT ![b][k].at = "done"]
    /\ sem' = sem - 1
    /\ UNCHANGED <<step, ctx, outcome>>

-----------------------------------------------------------------------------
(* A step.                                                                 *)

Spawn(b, k) ==
    /\ step[b].pc = "body" /\ Cardinality(Spawned) < MaxSpawns
    /\ call[b][k].at = "none" /\ Made(b) = 1..(k - 1)
    /\ call' = [call EXCEPT ![b][k].at = "queued"]
    /\ UNCHANGED <<step, sem, ctx, outcome>>

\* wait, wait any, wait N of: distinct handles, a quorum no larger than they are.
Wait(b) ==
    /\ step[b].pc = "body"
    /\ \E on \in SUBSET Made(b) \ {{}} : \E need \in 0..Cardinality(on) :
          step' = [step EXCEPT ![b] = [@ EXCEPT !.pc = "wait", !.on = on, !.need = need,
                                                !.seen = {}]]
    /\ UNCHANGED <<call, sem, ctx, outcome>>

\* finalize: cancel what still runs, then wait for all of it.
Conclude(b, seen, verdict) ==
    /\ step' = [step EXCEPT ![b] = [step[b] EXCEPT !.pc = "settle", !.seen = seen,
                                                   !.verdict = verdict,
                                                   !.joined = @ \cup step[b].on]]
    /\ call' = Cancelled(b, step[b].on)

\* Mutant of Judge: one failure too few makes the quorum impossible.
JudgeEarly(b, seen) ==
    LET on == step[b].on
        good == Cardinality(Succeeded(b, seen))
        bad == Cardinality(seen) - good
    IN
    IF step[b].need = 0
    THEN IF seen = on THEN "met" ELSE "open"
    ELSE IF good >= step[b].need THEN "met"
    ELSE IF bad >= Cardinality(on) - step[b].need THEN "short" ELSE "open"

\* What the results seen so far decide.
Judge(b, seen) ==
    LET on == step[b].on
        good == Cardinality(Succeeded(b, seen))
        bad == Cardinality(seen) - good
    IN
    IF step[b].need = 0
    THEN IF seen = on THEN "met" ELSE "open"
    ELSE IF good >= step[b].need THEN "met"
    ELSE IF bad > Cardinality(on) - step[b].need THEN "short" ELSE "open"

\* Results arrive in any order; the decisive one ends the wait.
SeeResult(b, k) ==
    /\ step[b].pc = "wait"
    /\ k \in step[b].on \ step[b].seen /\ call[b][k].at = "done"
    /\ LET seen == step[b].seen \cup {k} IN
       IF Judge(b, seen) = "open"
       THEN step' = [step EXCEPT ![b].seen = seen] /\ UNCHANGED call
       ELSE Conclude(b, seen, Judge(b, seen))
    /\ UNCHANGED <<sem, ctx, outcome>>

\* The wait's own timeout, at any moment, or the step's context.
WaitTimesOut(b) ==
    /\ step[b].pc = "wait"
    /\ Conclude(b, step[b].seen, "late")
    /\ UNCHANGED <<sem, ctx, outcome>>

NoWait(s) == [s EXCEPT !.on = {}, !.need = 0, !.seen = {}, !.verdict = "met"]

Drain(b, err) ==
    /\ step' = [step EXCEPT ![b] = [NoWait(@) EXCEPT !.pc = "drain", !.err = err]]
    /\ call' = IF Genuine(err) THEN Cancelled(b, Made(b)) ELSE call

\* A wait that did not succeed raises an error, which the body may catch.
WaitReturns(b) ==
    /\ step[b].pc = "settle" /\ Returned(b, step[b].on)
    /\ \/ step' = [step EXCEPT ![b] = [NoWait(@) EXCEPT !.pc = "body"]] /\ UNCHANGED call
       \/ step[b].verdict # "met" /\ \E err \in {"failed", "ctx"} : Drain(b, err)
    /\ UNCHANGED <<sem, ctx, outcome>>

\* Mutant of BodyEnds: whatever ends the body, the calls not waited for are cut.
BodyEndsCutting(b) ==
    /\ step[b].pc = "body"
    /\ \E err \in Errors :
          /\ err = "ctx" => StepDone(b)
          /\ step' = [step EXCEPT ![b].pc = "drain", ![b].err = err]
          /\ call' = IF err # "none" THEN Cancelled(b, Made(b)) ELSE call
    /\ UNCHANGED <<sem, ctx, outcome>>

\* The body ends by itself, with a signal, or with an error of its own.
BodyEnds(b) ==
    /\ step[b].pc = "body"
    /\ \E err \in Errors : (err = "ctx" => StepDone(b)) /\ Drain(b, err)
    /\ UNCHANGED <<sem, ctx, outcome>>

\* Mutant of StepReturns: after an error nobody waits for what was cancelled.
StepReturnsAtOnce(b) ==
    /\ step[b].pc = "drain"
    /\ Genuine(step[b].err) \/ Returned(b, Made(b))
    /\ step' = [step EXCEPT ![b].pc = "over"]
    /\ UNCHANGED <<call, sem, ctx, outcome>>

\* drainAtStepEnd: every call it spawned is done.
StepReturns(b) ==
    /\ step[b].pc = "drain" /\ Returned(b, Made(b))
    /\ step' = [step EXCEPT ![b].pc = "over"]
    /\ UNCHANGED <<call, sem, ctx, outcome>>

-----------------------------------------------------------------------------
(* The group.                                                              *)

Bad == {b \in Branch : step[b].err # "none"}
First == CHOOSE b \in Bad : \A c \in Bad : b <= c

\* The first error in declared order, as runParallelStage wraps it and execStage
\* and Run take it apart.  A branch context that is done by now counts as timeout.
Verdict ==
    IF ~GroupDone /\ ctx.branch[First] THEN "timeout"
    ELSE IF step[First].err = "signal" THEN "signal"
    ELSE IF ctx.run THEN "cancelled"
    ELSE IF ctx.group THEN "timeout" ELSE "failed"

\* The barrier: every branch has returned.  A merge of clean branches may conflict.
Join ==
    /\ outcome = "running"
    /\ \A b \in Branch : step[b].pc = "over"
    /\ \/ Bad # {} /\ outcome' = Verdict
       \/ Bad = {} /\ outcome' = "ok"
       \/ /\ Bad = {} /\ Branches > 1
          /\ outcome' = IF ctx.run THEN "cancelled" ELSE IF ctx.group THEN "timeout"
                        ELSE "failed"
    /\ UNCHANGED <<step, call, sem, ctx>>

\* Contexts end in the order things happen: a child's own deadline no longer
\* counts once its parent is done.
CancelRun ==
    /\ ~GroupDone /\ outcome = "running"
    /\ ctx' = [ctx EXCEPT !.run = TRUE]
    /\ UNCHANGED <<step, call, sem, outcome>>

GroupDeadline ==
    /\ ~GroupDone /\ outcome = "running"
    /\ ctx' = [ctx EXCEPT !.group = TRUE]
    /\ UNCHANGED <<step, call, sem, outcome>>

BranchDeadline(b) ==
    /\ b \in Timed /\ ~StepDone(b) /\ outcome = "running"
    /\ ctx' = [ctx EXCEPT !.branch[b] = TRUE]
    /\ UNCHANGED <<step, call, sem, outcome>>

CallStep(b, k) ==
    Acquire(b, k) \/ GiveUp(b, k) \/ AgentReturns(b, k) \/ Leave(b, k)

Next ==
    \/ \E b \in Branch :
          \/ \E k \in Call : CallStep(b, k) \/ Spawn(b, k) \/ SeeResult(b, k)
          \/ Wait(b) \/ WaitTimesOut(b) \/ WaitReturns(b) \/ BodyEnds(b) \/ StepReturns(b)
          \/ BranchDeadline(b)
    \/ Join \/ CancelRun \/ GroupDeadline

Spec == Init /\ [][Next]_vars

\* Agents answer, and a body, whatever it waits for, comes to its end.
FairSpec ==
    /\ Spec
    /\ \A b \in Branch :
          /\ \A k \in Call : WF_vars(CallStep(b, k)) /\ WF_vars(SeeResult(b, k))
          /\ WF_vars(WaitReturns(b)) /\ SF_vars(BodyEnds(b)) /\ WF_vars(StepReturns(b))
    /\ WF_vars(Join)

-----------------------------------------------------------------------------
(* Properties.                                                             *)

TypeOK ==
    /\ step \in [Branch -> Steps]
    /\ call \in [Branch -> [Call -> Calls]]
    /\ sem \in 0..Permits
    /\ ctx \in [run : BOOLEAN, group : BOOLEAN, branch : [Branch -> BOOLEAN]]
    /\ outcome \in Outcomes

Holding == {p \in Branch \X Call : call[p[1]][p[2]].at \in {"running", "leaving"}}

\* The permits taken are those of the calls that are at work, however calls are
\* cancelled, time out or give up waiting for one: none is lost or given back twice.
PermitsConserved == sem = Cardinality(Holding)

\* "No spawned goroutine outlives the step": a step that returned, also with an
\* error, has no call left that could still write.
NothingOutlives == \A b \in Branch : step[b].pc = "over" => Returned(b, Made(b))

\* A step that ends without an error lets the calls it never waited for finish:
\* only a wait that concluded, an error or a done context cuts one short.
NormalEndKeepsWork ==
    \A b \in Branch : \A k \in Call :
       call[b][k].cancelled => k \in step[b].joined \/ Genuine(step[b].err)

\* In whatever order results arrive, a wait that was not cut short by time reports
\* success exactly when enough of its calls succeeded.
WaitIsRight ==
    \A b \in Branch :
       step[b].pc = "settle" /\ Returned(b, step[b].on) =>
          LET good == Cardinality(Succeeded(b, step[b].on)) IN
          /\ step[b].verdict = "met" => good >= step[b].need
          /\ step[b].verdict = "short" => good < step[b].need

\* The group is joined: no permit is lost, no barrier waits for ever.
GroupJoins == <>(outcome # "running")
=============================================================================
