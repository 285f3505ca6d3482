---------------------------- MODULE PipelineRunner ----------------------------
(***************************************************************************)
(* Runner.Run (engine/runtime/runner.go): one run of a pipeline as a chain *)
(* of legs.  A leg walks the stages from the first one, or from where the  *)
(* checkpoint says, following each stage's outcome; it ends by itself, by  *)
(* a cancelled context, or by a crash, and a later leg may resume.         *)
(*                                                                         *)
(* Stages are the numbers 1..Last in declaration order, 0 stands for the   *)
(* empty stage name.  The pipeline variables are abstracted to a version:  *)
(* every attempt at a stage leaves a version of its own, so two versions   *)
(* are equal exactly when they are the work of the same attempts.          *)
(***************************************************************************)
EXTENDS Naturals, Sequences

CONSTANTS
    Last,        \* number of stages, in declaration order 1..Last
    Groups,      \* the stages that are parallel groups: no goto may name them
    Timed,       \* the stages that declare a timeout
    Strategies,  \* the checkpoint settings of the pipelines under study
    MaxVisits,   \* maxStepVisits
    MaxLegs      \* bound: legs in a behaviour

Stage == 1..Last
End == 0

ASSUME PipelineAssumption ==
    /\ Last \in Nat \ {0}
    /\ Groups \subseteq Stage /\ Timed \subseteq Stage
    /\ Strategies \subseteq {"per_step", "other", "off"}
    /\ MaxVisits \in Nat \ {0} /\ MaxLegs \in Nat

VARIABLES
    strategy,   \* checkpoint { enabled, strategy }: "off" is enabled: false
    store,      \* the run's checkpoint in the StateStore
    leg,        \* the locals of the Run call in progress, or of the last one
    tries,      \* attempts so far; the newest version of the variables
    legs,       \* legs so far
    past        \* what really happened at the last attempt, crash or not

vars == <<strategy, store, leg, tries, legs, past>>

-----------------------------------------------------------------------------
NoCheckpoint == [found |-> FALSE, next |-> End, completed |-> <<>>, vars |-> 0]
Checkpoint(next, completed, version) ==
    [found |-> TRUE, next |-> next, completed |-> completed, vars |-> version]
Checkpoints == [found : BOOLEAN, next : Stage \cup {End}, completed : Seq(Stage), vars : Nat]

\* How Run ended: RunResult and error together.
Outcomes == {"none", "completed", "broke", "paused", "failed", "cancelled", "timeout",
             "crashed"}

Legs ==
    [pc : {"idle", "load", "boundary", "exec", "save", "clear"},
     current : Stage \cup {End},
     vars : Nat,
     executed : Seq(Stage),       \* RunResult.Executed
     skipped : Seq(Stage),        \* RunResult.Skipped
     visits : [Stage -> Nat],
     cancelled : BOOLEAN,         \* runCtx is done
     pending : Checkpoints,       \* the checkpoint about to be saved
     next : Stage \cup {End},     \* where the leg goes once it is saved
     ending : Outcomes,           \* or how it ends then; "none" to go on
     outcome : Outcomes,
     result : BOOLEAN]            \* RunResult.FinalVars is set

NewLeg ==
    [pc |-> "idle", current |-> 1, vars |-> 0, executed |-> <<>>, skipped |-> <<>>,
     visits |-> [s \in Stage |-> 0], cancelled |-> FALSE, pending |-> NoCheckpoint,
     next |-> End, ending |-> "none", outcome |-> "none", result |-> FALSE]

\* The last attempt: its stage, the variables it started from, and what came of
\* it: where its outcome leads, the variables it left there, whether a checkpoint
\* has landed since; and the stages whose completion was checkpointed so far.
Nothing == [stage |-> End, before |-> 0, kind |-> "none", next |-> End, after |-> 0,
            kept |-> FALSE, done |-> {}]

perStep == strategy = "per_step"
enabled == strategy # "off"
Over == leg.pc = "idle" /\ legs > 0

Init ==
    /\ strategy \in Strategies
    /\ store = NoCheckpoint
    /\ leg = NewLeg
    /\ tries = 0
    /\ legs = 0
    /\ past = Nothing

\* stageAfter: the next stage in declaration order, if there is one.
StageAfter(s) == IF s = Last THEN End ELSE s + 1

\* goto names a declared step that is not a parallel group.
GotoTargets == Stage \ Groups

Ends(outcome, result) ==
    leg' = [leg EXCEPT !.pc = "idle", !.outcome = outcome, !.result = result]

-----------------------------------------------------------------------------
(* How a leg starts.                                                       *)

\* A fresh run seeds its variables with init and starts at the first stage.
Start ==
    /\ legs = 0
    /\ legs' = 1
    /\ \/ leg' = [NewLeg EXCEPT !.pc = "boundary"]
       \/ leg' = [NewLeg EXCEPT !.outcome = "failed"]      \* init failed
    /\ UNCHANGED <<strategy, store, tries, past>>

\* run/resume: a paused run always qualifies, any other only if its pipeline
\* checkpoints, and there has to be a checkpoint.
Resume ==
    /\ Over /\ legs < MaxLegs
    /\ leg.outcome # "completed"
    /\ enabled \/ leg.outcome = "paused"
    /\ store.found
    /\ legs' = legs + 1
    /\ leg' = [NewLeg EXCEPT !.pc = "load"]
    /\ UNCHANGED <<strategy, store, tries, past>>

FromTheTop == [NewLeg EXCEPT !.pc = "boundary", !.cancelled = leg.cancelled]

Continued ==
    [NewLeg EXCEPT !.pc = "boundary", !.cancelled = leg.cancelled, !.current = store.next,
                   !.vars = store.vars, !.skipped = store.completed]

\* Run looks for the checkpoint of an earlier leg.
Load ==
    /\ leg.pc = "load" /\ enabled
    /\ \/ /\ store.found /\ store.next # End
          /\ leg' = Continued
          /\ UNCHANGED <<store, past>>
       \/ /\ store.found /\ store.next = End
          /\ Ends("completed", FALSE)
          /\ UNCHANGED <<store, past>>
       \/ Ends("failed", FALSE) /\ UNCHANGED <<store, past>>   \* Load failed, or refused
       \/ /\ store' = NoCheckpoint                               \* it had expired
          /\ leg' = FromTheTop
          /\ past' = Nothing
    /\ UNCHANGED <<strategy, tries, legs>>

\* checkpoint { enabled: false }: resume or not, Run does not look.
LoadOff ==
    /\ leg.pc = "load" /\ ~enabled
    /\ leg' = FromTheTop
    /\ UNCHANGED <<strategy, store, tries, legs, past>>

-----------------------------------------------------------------------------
(* The stage loop.                                                         *)

\* Save cp, then go to stage next, or end the leg with ending.
SaveThen(cp, next, ending) ==
    leg' = [leg EXCEPT !.pc = "save", !.pending = cp, !.next = next, !.ending = ending]

\* saveCancelCheckpoint, on the way to ending.
CancelCheckpoint(completed, version, ending) ==
    IF strategy = "other"
    THEN SaveThen(Checkpoint(leg.current, completed, version), End, ending)
    ELSE Ends(ending, FALSE)

\* Mutant of StopAtBoundary: a cancel ends a leg only where there is a checkpoint
\* to write.
StopAtBoundarySaving ==
    /\ leg.pc = "boundary" /\ leg.cancelled /\ strategy = "other"
    /\ CancelCheckpoint(leg.executed, leg.vars, "cancelled")
    /\ UNCHANGED <<strategy, store, tries, legs, past>>

\* The context is done: no further stage starts.
StopAtBoundary ==
    /\ leg.pc = "boundary" /\ leg.cancelled
    /\ CancelCheckpoint(leg.executed, leg.vars, "cancelled")
    /\ UNCHANGED <<strategy, store, tries, legs, past>>

\* A goto cycle nothing escapes from.
TooManyVisits ==
    /\ leg.pc = "boundary" /\ ~leg.cancelled
    /\ leg.visits[leg.current] >= MaxVisits
    /\ Ends("failed", FALSE)
    /\ UNCHANGED <<strategy, store, tries, legs, past>>

EnterStage ==
    /\ leg.pc = "boundary" /\ ~leg.cancelled
    /\ leg.visits[leg.current] < MaxVisits
    /\ leg' = [leg EXCEPT !.pc = "exec", !.visits[leg.current] = @ + 1]
    /\ past' = [Nothing EXCEPT !.stage = leg.current, !.before = leg.vars,
                                !.done = past.done]
    /\ UNCHANGED <<strategy, store, tries, legs>>

\* An attempt leaves a version of the variables of its own ...
Version == tries + 1

\* ... but a group merges what its branches wrote only when all of them are done:
\* a branch that pauses, breaks, completes, goes elsewhere or fails drops it.
Left == IF leg.current \in Groups THEN leg.vars ELSE Version

Executed == Append(leg.executed, leg.current)

Ran(kind, next, version) ==
    /\ leg.pc = "exec"
    /\ tries' = Version
    /\ past' = [past EXCEPT !.kind = kind, !.next = next, !.after = version]
    /\ UNCHANGED <<strategy, store, legs>>

\* On to the next stage, or off the end of the pipeline.
Proceed(l, next) ==
    [l EXCEPT !.pc = IF next = End THEN "clear" ELSE "boundary",
              !.current = IF next = End THEN @ ELSE next]

\* checkpointStep persists where the leg goes, before it goes there.
Advance(next, version) ==
    LET ran == [leg EXCEPT !.executed = Executed, !.vars = version] IN
    leg' = IF perStep
           THEN [ran EXCEPT !.pc = "save", !.next = next, !.ending = "none",
                            !.pending = Checkpoint(next, Executed, version)]
           ELSE Proceed(ran, next)

StageDone ==
    /\ Ran("done", StageAfter(leg.current), Version)
    /\ Advance(StageAfter(leg.current), Version)

StageGoesTo(target) ==
    /\ Ran("done", target, Left)
    /\ Advance(target, Left)

\* A goto that names a parallel group, or no step at all, fails the run.
StageGoesAstray ==
    /\ Ran("failed", End, Left)
    /\ Ends("failed", FALSE)

\* Mutant of StagePauses: the checkpoint names the stage after the pause.
StagePausesPast ==
    /\ Ran("paused", leg.current, Left)
    /\ SaveThen(Checkpoint(StageAfter(leg.current), leg.executed, Left), End, "paused")

\* Mutant of StagePauses: the pausing stage counts as completed.
StagePausesCounted ==
    /\ Ran("paused", leg.current, Left)
    /\ SaveThen(Checkpoint(leg.current, Executed, Left), End, "paused")

\* pause(...): resume re-enters this very stage.  Saved whatever the strategy.
StagePauses ==
    /\ Ran("paused", leg.current, Left)
    /\ SaveThen(Checkpoint(leg.current, leg.executed, Left), End, "paused")

\* break: a clean early end that keeps the checkpoint.
StageBreaks ==
    /\ Ran("done", End, Left)
    /\ IF perStep THEN SaveThen(Checkpoint(End, Executed, Left), End, "broke")
                  ELSE Ends("broke", TRUE)

\* complete(): as if the pipeline ended here.
StageCompletes ==
    /\ Ran("done", End, Left)
    /\ leg' = [leg EXCEPT !.pc = "clear", !.executed = Executed, !.vars = Left]

\* An error: the run was cancelled, the stage's timeout elapsed, or it failed.
\* A group whose branches conflict may have merged some of their writes.
StageFails ==
    \E version \in {Left, Version} :
       /\ Ran("failed", End, version)
       /\ \/ leg.cancelled /\ CancelCheckpoint(leg.executed, version, "cancelled")
          \/ ~leg.cancelled /\ leg.current \in Timed
             /\ CancelCheckpoint(leg.executed, version, "timeout")
          \/ ~leg.cancelled /\ Ends("failed", FALSE)

-----------------------------------------------------------------------------
(* The end of a leg.                                                       *)

\* The last attempt is this leg's; a leg cancelled before its first one saves
\* again what it loaded.
Attempted == \E s \in Stage : leg.visits[s] > 0

Saved ==
    /\ store' = leg.pending
    /\ past' = IF Attempted
               THEN [past EXCEPT !.kept = TRUE,
                        !.done = IF past.kind = "done" THEN @ \cup {past.stage} ELSE @]
               ELSE past

\* Mutant of Save: a step checkpoint that cannot be saved is ignored.
SaveIgnoringErrors ==
    /\ leg.pc = "save"
    /\ Saved \/ UNCHANGED <<store, past>>
    /\ IF leg.ending = "none" THEN leg' = Proceed(leg, leg.next)
       ELSE Ends(leg.ending, leg.ending \in {"paused", "broke"})
    /\ UNCHANGED <<strategy, tries, legs>>

\* The write may land and its reply be lost.  A failed save fails the leg, but
\* never masks a cancel or a timeout.
Save ==
    /\ leg.pc = "save"
    /\ \/ /\ Saved
          /\ IF leg.ending = "none" THEN leg' = Proceed(leg, leg.next)
             ELSE Ends(leg.ending, leg.ending \in {"paused", "broke"})
       \/ /\ Saved \/ UNCHANGED <<store, past>>
          /\ Ends(IF leg.ending \in {"cancelled", "timeout"} THEN leg.ending ELSE "failed",
                  FALSE)
    /\ UNCHANGED <<strategy, tries, legs>>

\* The pipeline is through: the result is set and the checkpoint cleared.
Clear ==
    /\ leg.pc = "clear" /\ enabled
    /\ \/ store' = NoCheckpoint /\ Ends("completed", TRUE)
       \/ store' \in {store, NoCheckpoint} /\ Ends("failed", TRUE)
    /\ UNCHANGED <<strategy, tries, legs, past>>

ClearOff ==
    /\ leg.pc = "clear" /\ ~enabled
    /\ Ends("completed", TRUE)
    /\ UNCHANGED <<strategy, store, tries, legs, past>>

-----------------------------------------------------------------------------
(* The environment.                                                        *)

\* run/cancel, a drain or a shutdown cancels the context at any moment.
Cancel ==
    /\ leg.pc # "idle" /\ ~leg.cancelled
    /\ leg' = [leg EXCEPT !.cancelled = TRUE]
    /\ UNCHANGED <<strategy, store, tries, legs, past>>

\* The process dies at any moment; only the checkpoint survives.
Crash ==
    /\ leg.pc # "idle"
    /\ Ends("crashed", FALSE)
    /\ UNCHANGED <<strategy, store, tries, legs, past>>

\* What the goroutine of a leg does next.
Step ==
    \/ Load \/ LoadOff
    \/ StopAtBoundary \/ TooManyVisits \/ EnterStage
    \/ StageDone \/ (\E t \in GotoTargets : StageGoesTo(t)) \/ StageGoesAstray
    \/ StagePauses \/ StageBreaks \/ StageCompletes \/ StageFails
    \/ Save \/ Clear \/ ClearOff

Next == Start \/ Resume \/ Step \/ Cancel \/ Crash

Spec == Init /\ [][Next]_vars

\* Every call a leg makes returns: steps, the store, init.
FairSpec == Spec /\ WF_vars(Step)

-----------------------------------------------------------------------------
(* Properties.                                                             *)

Pasts == [stage : Stage \cup {End}, before : Nat, next : Stage \cup {End}, after : Nat,
          kind : {"none", "done", "paused", "failed"}, kept : BOOLEAN,
          done : SUBSET (Stage \cup {End})]

\* Every variable has its type, and no leg enters a stage more often than
\* maxStepVisits allows.
TypeOK ==
    /\ strategy \in Strategies
    /\ store \in Checkpoints
    /\ leg \in Legs /\ \A s \in Stage : leg.visits[s] <= MaxVisits
    /\ tries \in Nat /\ legs \in Nat
    /\ past \in Pasts

Entering == leg.pc = "boundary" /\ leg'.pc = "exec"

\* Stage next with these variables is where the last attempt left the run: it goes
\* on from what that attempt did, or retries it if no checkpoint of it landed.
AtPast(next, version) ==
    \/ past.stage = End
    \/ ~past.kept /\ next = past.stage /\ version = past.before
    \/ past.kind # "failed" /\ next = past.next /\ version = past.after

\* Per-step checkpoints make a run continue exactly where it was, over any number
\* of failures, cancels and crashes: a leg enters the stage the last attempt led
\* to with the variables it left, or retries that attempt from the variables it
\* started with, and never retries an attempt whose checkpoint landed.
Continues == [][Entering /\ perStep => AtPast(leg.current, leg.vars)]_vars

\* A paused run re-enters the pausing stage, with the variables as they were.
Reenters ==
    Entering /\ past.kind = "paused" /\ past.kept =>
       leg.current = past.stage /\ leg.vars = past.after

\* So it does whenever the pipeline checkpoints, whatever the strategy.
PauseReenters == [][enabled => Reenters]_vars

\* A run is reported as paused only when its checkpoint names the pausing stage, with
\* the variables as they were, whichever saves were lost or failed on the way.
PauseIsSaved ==
    leg.outcome = "paused" =>
       store.found /\ store.next = past.stage /\ store.vars = past.after

\* The cap on visits ends every leg, also of a pipeline whose gotos cycle.
LegEnds == leg.pc # "idle" ~> leg.pc = "idle"

\* With per-step checkpoints a resumed leg reports as completed only steps that some
\* leg did complete, over any number of pauses, cancels, failures and crashes.
SkippedWereDone ==
    perStep => \A i \in DOMAIN leg.skipped : leg.skipped[i] \in past.done
=============================================================================
