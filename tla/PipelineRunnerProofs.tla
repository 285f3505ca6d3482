------------------------- MODULE PipelineRunnerProofs -------------------------
(***************************************************************************)
(* Theorems about PipelineRunner, for every pipeline, checkpoint setting   *)
(* and number of legs.                                                     *)
(***************************************************************************)
EXTENDS PipelineRunner, TLAPS

USE PipelineAssumption

-----------------------------------------------------------------------------
(* Types.                                                                  *)

\* A leg that is about to run a stage, or runs one, is at a real stage.
AtStage == leg.pc \in {"boundary", "exec"} => leg.current \in Stage

Typed == TypeOK /\ AtStage

LEMMA CheckpointType ==
    ASSUME NEW next \in Stage \cup {End}, NEW completed \in Seq(Stage), NEW version \in Nat
    PROVE  /\ Checkpoint(next, completed, version) \in Checkpoints
           /\ Checkpoint(next, completed, version).next = next
           /\ Checkpoint(next, completed, version).vars = version
           /\ Checkpoint(next, completed, version).found
BY DEF Checkpoint, Checkpoints

LEMMA NewLegType == NewLeg \in Legs /\ \A s \in Stage : NewLeg.visits[s] = 0
<1>1. 1 \in Stage /\ End \in Stage \cup {End}
  BY DEF Stage
<1>2. NoCheckpoint \in Checkpoints
  BY DEF NoCheckpoint, Checkpoints
<1>3. "none" \in Outcomes
  BY DEF Outcomes
<1>4. [s \in Stage |-> 0] \in [Stage -> Nat]
  OBVIOUS
<1> QED
  BY <1>1, <1>2, <1>3, <1>4 DEF NewLeg, Legs

LEMMA StageAfterType == \A s \in Stage : StageAfter(s) \in Stage \cup {End}
BY DEF StageAfter, Stage, End

\* Ending a leg keeps everything but the way it ended.
LEMMA EndsType ==
    ASSUME Typed, NEW outcome \in Outcomes, NEW result \in BOOLEAN, Ends(outcome, result)
    PROVE  leg' \in Legs /\ leg'.pc = "idle" /\ leg'.visits = leg.visits
BY DEF Typed, TypeOK, Legs, Ends

LEMMA SaveThenType ==
    ASSUME Typed, NEW cp \in Checkpoints, NEW next \in Stage \cup {End},
           NEW ending \in Outcomes, SaveThen(cp, next, ending)
    PROVE  /\ leg' \in Legs /\ leg'.pc = "save" /\ leg'.visits = leg.visits
           /\ leg'.pending = cp /\ leg'.next = next /\ leg'.ending = ending
           /\ leg'.vars = leg.vars
BY DEF Typed, TypeOK, Legs, SaveThen

LEMMA InitTyped == Init => Typed
<1>1. Nothing \in Pasts
  BY DEF Nothing, Pasts
<1>2. NoCheckpoint \in Checkpoints
  BY DEF NoCheckpoint, Checkpoints
<1> QED
  BY <1>1, <1>2, NewLegType DEF Init, Typed, TypeOK, AtStage, NewLeg

\* The fields of a typed state that the actions read.
LEMMA Fields ==
    ASSUME Typed
    PROVE  /\ leg.vars \in Nat /\ leg.executed \in Seq(Stage)
           /\ leg.current \in Stage \cup {End} /\ leg.next \in Stage \cup {End}
           /\ leg.ending \in Outcomes /\ leg.pending \in Checkpoints
           /\ leg.visits \in [Stage -> Nat]
           /\ Version \in Nat /\ Left \in Nat
           /\ leg.pc = "exec" => Executed \in Seq(Stage) /\ leg.current \in Stage
<1>1. leg \in Legs /\ tries \in Nat
  BY DEF Typed, TypeOK
<1>2. /\ leg.vars \in Nat /\ leg.executed \in Seq(Stage)
      /\ leg.current \in Stage \cup {End} /\ leg.next \in Stage \cup {End}
      /\ leg.ending \in Outcomes /\ leg.pending \in Checkpoints
      /\ leg.visits \in [Stage -> Nat]
  BY <1>1 DEF Legs
<1>3. Version \in Nat /\ Left \in Nat
  BY <1>1, <1>2 DEF Version, Left
<1>4. ASSUME leg.pc = "exec" PROVE Executed \in Seq(Stage) /\ leg.current \in Stage
  <2>1. leg.current \in Stage
    BY <1>4 DEF Typed, AtStage
  <2> QED
    BY <2>1, <1>2 DEF Executed
<1> QED
  BY <1>2, <1>3, <1>4

\* The attempt just made, with types for what it recorded.
LEMMA RanType ==
    ASSUME Typed, NEW kind \in {"done", "paused", "failed"}, NEW next \in Stage \cup {End},
           NEW version \in Nat, Ran(kind, next, version)
    PROVE  /\ past' \in Pasts /\ tries' \in Nat /\ leg.pc = "exec"
           /\ UNCHANGED <<strategy, store, legs>>
           /\ past'.stage = past.stage /\ past'.before = past.before
           /\ past'.kept <=> past.kept
           /\ past'.kind = kind /\ past'.next = next /\ past'.after = version
<1>1. past \in Pasts /\ tries \in Nat
  BY DEF Typed, TypeOK
<1>2. /\ past' = [past EXCEPT !.kind = kind, !.next = next, !.after = version]
      /\ tries' = tries + 1 /\ leg.pc = "exec"
      /\ UNCHANGED <<strategy, store, legs>>
  BY DEF Ran, Version
<1>3. past' \in Pasts
  BY <1>1, <1>2 DEF Pasts
<1>4. /\ past'.stage = past.stage /\ past'.before = past.before
      /\ past'.kind = kind /\ past'.next = next /\ past'.after = version
  BY <1>1, <1>2 DEF Pasts
<1>5. past'.kept <=> past.kept
  BY <1>1, <1>2 DEF Pasts
<1> QED
  BY <1>1, <1>2, <1>3, <1>4, <1>5

LEMMA AdvanceType ==
    ASSUME Typed, leg.pc = "exec", NEW next \in Stage \cup {End}, NEW version \in Nat,
           Advance(next, version)
    PROVE  /\ leg' \in Legs /\ AtStage' /\ leg'.visits = leg.visits
           /\ leg'.vars = version
           /\ perStep => /\ leg'.pc = "save" /\ leg'.ending = "none" /\ leg'.next = next
                         /\ leg'.pending.next = next /\ leg'.pending.vars = version
                         /\ leg'.pending.found
           /\ ~perStep => IF next = End THEN leg'.pc = "clear"
                          ELSE leg'.pc = "boundary" /\ leg'.current = next
<1>1. Checkpoint(next, Executed, version) \in Checkpoints
  BY Fields, CheckpointType
<1>2. leg \in Legs /\ Executed \in Seq(Stage) /\ "none" \in Outcomes
  BY Fields DEF Typed, TypeOK, Outcomes
<1> DEFINE ran == [leg EXCEPT !.executed = Executed, !.vars = version]
<1>3. /\ ran \in Legs /\ ran.visits = leg.visits /\ ran.vars = version
      /\ ran.current = leg.current
  BY <1>2 DEF Legs
<1>4. CASE perStep
  <2>1. leg' = [ran EXCEPT !.pc = "save", !.next = next, !.ending = "none",
                           !.pending = Checkpoint(next, Executed, version)]
    BY <1>4 DEF Advance
  <2> HIDE DEF ran
  <2>2. /\ leg' \in Legs /\ leg'.visits = leg.visits /\ leg'.vars = version
        /\ leg'.pc = "save" /\ leg'.ending = "none" /\ leg'.next = next
        /\ leg'.pending = Checkpoint(next, Executed, version)
    BY <2>1, <1>1, <1>2, <1>3 DEF Legs
  <2>3. leg'.pending.next = next /\ leg'.pending.vars = version /\ leg'.pending.found
    BY <2>2 DEF Checkpoint
  <2> QED
    BY <2>2, <2>3, <1>4 DEF AtStage
<1>5. CASE ~perStep
  <2>1. leg' = Proceed(ran, next)
    BY <1>5 DEF Advance
  <2> HIDE DEF ran
  <2>2. CASE next = End
    <3>1. leg' = [ran EXCEPT !.pc = "clear", !.current = @]
      BY <2>1, <2>2 DEF Proceed
    <3>2. leg' \in Legs /\ leg'.visits = leg.visits /\ leg'.vars = version /\ leg'.pc = "clear"
      BY <3>1, <1>3 DEF Legs
    <3> QED
      BY <3>2, <2>2, <1>5 DEF AtStage
  <2>3. CASE next # End
    <3>1. leg' = [ran EXCEPT !.pc = "boundary", !.current = next]
      BY <2>1, <2>3 DEF Proceed
    <3>2. /\ leg' \in Legs /\ leg'.visits = leg.visits /\ leg'.vars = version
          /\ leg'.pc = "boundary" /\ leg'.current = next
      BY <3>1, <1>3 DEF Legs
    <3> QED
      BY <3>2, <2>3, <1>5 DEF AtStage
  <2> QED
    BY <2>2, <2>3
<1> QED
  BY <1>4, <1>5

LEMMA CancelCheckpointType ==
    ASSUME Typed, leg.pc \in {"boundary", "exec"}, NEW version \in Nat,
           NEW ending \in {"cancelled", "timeout"},
           CancelCheckpoint(leg.executed, version, ending)
    PROVE  /\ leg' \in Legs /\ AtStage' /\ leg'.visits = leg.visits
           /\ strategy = "other" =>
                 /\ leg'.pc = "save" /\ leg'.ending = ending
                 /\ leg'.pending.next = leg.current /\ leg'.pending.vars = version
                 /\ leg'.pending.found
           /\ strategy # "other" => leg'.pc = "idle"
<1>1. Checkpoint(leg.current, leg.executed, version) \in Checkpoints
  BY Fields, CheckpointType
<1>2. ending \in Outcomes /\ FALSE \in BOOLEAN /\ End \in Stage \cup {End}
  BY DEF Outcomes
<1> DEFINE cp == Checkpoint(leg.current, leg.executed, version)
<1>3. CASE strategy = "other"
  <2>1. SaveThen(cp, End, ending)
    BY <1>3 DEF CancelCheckpoint
  <2>2. cp.next = leg.current /\ cp.vars = version /\ cp.found
    BY DEF Checkpoint
  <2> HIDE DEF cp
  <2>3. /\ leg' \in Legs /\ leg'.pc = "save" /\ leg'.visits = leg.visits
        /\ leg'.pending = cp /\ leg'.ending = ending
    BY <2>1, <1>1, <1>2, SaveThenType DEF cp
  <2> QED
    BY <2>2, <2>3, <1>3 DEF AtStage
<1>4. CASE strategy # "other"
  <2>1. Ends(ending, FALSE)
    BY <1>4 DEF CancelCheckpoint
  <2>2. leg' \in Legs /\ leg'.pc = "idle" /\ leg'.visits = leg.visits
    BY <2>1, <1>2, EndsType
  <2> QED
    BY <2>2, <1>4 DEF AtStage
<1> QED
  BY <1>3, <1>4

\* What is left to show of a step that keeps the leg's visits, or makes a new leg.
LEMMA TypedAfter ==
    ASSUME Typed, leg' \in Legs, leg'.visits = leg.visits, AtStage',
           UNCHANGED strategy, store' \in Checkpoints, tries' \in Nat, legs' \in Nat,
           past' \in Pasts
    PROVE  Typed'
BY DEF Typed, TypeOK

LEMMA TypedAtStart ==
    ASSUME Typed, leg' \in Legs, leg'.visits = NewLeg.visits, AtStage',
           UNCHANGED strategy, store' \in Checkpoints, tries' \in Nat, legs' \in Nat,
           past' \in Pasts
    PROVE  Typed'
<1>1. \A s \in Stage : leg'.visits[s] <= MaxVisits
  BY NewLegType
<1> QED
  BY <1>1 DEF Typed, TypeOK

\* The leg a start, a resume or a load makes.
LEMMA NewLegs ==
    ASSUME NEW l \in Legs, NEW f \in Stage, NEW version \in Nat, NEW skipped \in Seq(Stage)
    PROVE  /\ NewLeg.pc = "idle" /\ NewLeg.current \in Stage
           /\ NewLeg.visits = [s \in Stage |-> 0]
           /\ [NewLeg EXCEPT !.pc = "boundary"] \in Legs
           /\ [NewLeg EXCEPT !.outcome = "failed"] \in Legs
           /\ [NewLeg EXCEPT !.pc = "load"] \in Legs
           /\ [NewLeg EXCEPT !.pc = "boundary", !.cancelled = l.cancelled] \in Legs
           /\ [NewLeg EXCEPT !.pc = "boundary", !.cancelled = l.cancelled, !.current = f,
                             !.vars = version, !.skipped = skipped] \in Legs
<1>1. 1 \in Stage /\ "failed" \in Outcomes
  BY DEF Stage, Outcomes
<1>2. l.cancelled \in BOOLEAN
  BY DEF Legs
<1>3. /\ NewLeg \in Legs /\ NewLeg.pc = "idle" /\ NewLeg.current = 1
      /\ NewLeg.visits = [s \in Stage |-> 0]
  BY NewLegType DEF NewLeg
<1>4. \A k \in Legs : [k EXCEPT !.pc = "boundary"] \in Legs
  BY DEF Legs
<1>5. \A k \in Legs : [k EXCEPT !.outcome = "failed"] \in Legs
  BY <1>1 DEF Legs
<1>6. \A k \in Legs : [k EXCEPT !.pc = "load"] \in Legs
  BY DEF Legs
<1>7. \A k \in Legs : [k EXCEPT !.pc = "boundary", !.cancelled = l.cancelled] \in Legs
  BY <1>2 DEF Legs
<1>8. \A k \in Legs : [k EXCEPT !.pc = "boundary", !.cancelled = l.cancelled, !.current = f,
                                 !.vars = version, !.skipped = skipped] \in Legs
  BY <1>2 DEF Legs
<1> QED
  BY <1>1, <1>3, <1>4, <1>5, <1>6, <1>7, <1>8

LEMMA StartTyped == Typed /\ Start => Typed'
<1> SUFFICES ASSUME Typed, Start PROVE Typed'
  OBVIOUS
<1>1. /\ UNCHANGED <<strategy, store, tries, past>> /\ legs' = 1
      /\ \/ leg' = [NewLeg EXCEPT !.pc = "boundary"]
         \/ leg' = [NewLeg EXCEPT !.outcome = "failed"]
  BY DEF Start
<1>2. 1 \in Stage /\ 0 \in Nat /\ <<>> \in Seq(Stage) /\ leg \in Legs
  BY DEF Stage, Typed, TypeOK
<1>3. leg' \in Legs
  BY <1>1, <1>2, NewLegs
<1>4. leg'.visits = NewLeg.visits /\ AtStage'
  BY <1>1, <1>2, NewLegs DEF NewLeg, AtStage
<1>5. store' \in Checkpoints /\ tries' \in Nat /\ legs' \in Nat /\ past' \in Pasts
  BY <1>1 DEF Typed, TypeOK
<1> QED
  BY <1>1, <1>3, <1>4, <1>5, TypedAtStart

LEMMA ResumeTyped == Typed /\ Resume => Typed'
<1> SUFFICES ASSUME Typed, Resume PROVE Typed'
  OBVIOUS
<1>1. /\ UNCHANGED <<strategy, store, tries, past>> /\ legs' = legs + 1
      /\ leg' = [NewLeg EXCEPT !.pc = "load"]
  BY DEF Resume
<1>2. 1 \in Stage /\ 0 \in Nat /\ <<>> \in Seq(Stage) /\ leg \in Legs
  BY DEF Stage, Typed, TypeOK
<1>3. leg' \in Legs
  BY <1>1, <1>2, NewLegs
<1>4. leg'.visits = NewLeg.visits /\ AtStage'
  BY <1>1, <1>2, NewLegs DEF NewLeg, AtStage
<1>5. store' \in Checkpoints /\ tries' \in Nat /\ legs' \in Nat /\ past' \in Pasts
  BY <1>1 DEF Typed, TypeOK
<1> QED
  BY <1>1, <1>3, <1>4, <1>5, TypedAtStart

LEMMA NothingType == Nothing \in Pasts /\ NoCheckpoint \in Checkpoints
BY DEF Nothing, Pasts, NoCheckpoint, Checkpoints

\* Where a loaded leg begins: at the checkpoint, or from the top.
LEMMA LegsOfLoad ==
    ASSUME Typed
    PROVE  /\ FromTheTop \in Legs /\ FromTheTop.visits = NewLeg.visits
           /\ FromTheTop.pc = "boundary" /\ FromTheTop.current \in Stage
           /\ FromTheTop.outcome = "none"
           /\ store.next # End =>
                 /\ Continued \in Legs /\ Continued.visits = NewLeg.visits
                 /\ Continued.pc = "boundary" /\ Continued.current = store.next
                 /\ Continued.vars = store.vars
<1>1. 1 \in Stage /\ 0 \in Nat /\ <<>> \in Seq(Stage) /\ leg \in Legs
  BY DEF Stage, Typed, TypeOK
<1>2. /\ store.next \in Stage \cup {End} /\ store.vars \in Nat
      /\ store.completed \in Seq(Stage)
  BY DEF Typed, TypeOK, Checkpoints
<1>3. FromTheTop \in Legs
  BY <1>1, NewLegs DEF FromTheTop
<1>4. /\ FromTheTop.visits = NewLeg.visits /\ FromTheTop.pc = "boundary"
      /\ FromTheTop.current = 1 /\ FromTheTop.outcome = "none"
  BY DEF FromTheTop, NewLeg
<1>5. ASSUME store.next # End PROVE Continued \in Legs
  BY <1>1, <1>2, <1>5, NewLegs DEF Continued
<1>6. /\ Continued.visits = NewLeg.visits /\ Continued.pc = "boundary"
      /\ Continued.current = store.next /\ Continued.vars = store.vars
  BY DEF Continued, NewLeg
<1> QED
  BY <1>1, <1>3, <1>4, <1>5, <1>6

LEMMA LoadTyped == Typed /\ (Load \/ LoadOff) => Typed'
<1> SUFFICES ASSUME Typed, Load \/ LoadOff PROVE Typed'
  OBVIOUS
<1>1. /\ UNCHANGED <<strategy, tries, legs>>
      /\ store' \in {store, NoCheckpoint} /\ past' \in {past, Nothing}
      /\ \/ leg' = Continued /\ store.next # End
         \/ leg' = FromTheTop
         \/ Ends("completed", FALSE)
         \/ Ends("failed", FALSE)
  BY DEF Load, LoadOff
<1>2. store' \in Checkpoints /\ tries' \in Nat /\ legs' \in Nat /\ past' \in Pasts
  BY <1>1, NothingType DEF Typed, TypeOK
<1>3. CASE leg' = Continued /\ store.next # End
  <2>1. leg' \in Legs /\ leg'.visits = NewLeg.visits /\ leg'.current \in Stage
    BY <1>3, LegsOfLoad DEF Typed, TypeOK, Checkpoints
  <2> QED
    BY <2>1, <1>1, <1>2, TypedAtStart DEF AtStage
<1>4. CASE leg' = FromTheTop
  <2>1. leg' \in Legs /\ leg'.visits = NewLeg.visits /\ leg'.current \in Stage
    BY <1>4, LegsOfLoad
  <2> QED
    BY <2>1, <1>1, <1>2, TypedAtStart DEF AtStage
<1>5. CASE Ends("completed", FALSE) \/ Ends("failed", FALSE)
  <2>1. "completed" \in Outcomes /\ "failed" \in Outcomes /\ FALSE \in BOOLEAN
    BY DEF Outcomes
  <2>2. leg' \in Legs /\ leg'.pc = "idle" /\ leg'.visits = leg.visits
    BY <1>5, <2>1, EndsType
  <2> QED
    BY <2>2, <1>1, <1>2, TypedAfter DEF AtStage
<1> QED
  BY <1>1, <1>3, <1>4, <1>5

-----------------------------------------------------------------------------

LEMMA OutcomeTypes ==
    /\ {"none", "completed", "broke", "paused", "failed", "cancelled", "timeout", "crashed"}
          = Outcomes
    /\ TRUE \in BOOLEAN /\ FALSE \in BOOLEAN
    /\ End \in Stage \cup {End}
BY DEF Outcomes

\* A stage in progress: every way it can come out keeps the types.
LEMMA StageTyped ==
    ASSUME Typed,
           \/ StageDone \/ (\E t \in GotoTargets : StageGoesTo(t)) \/ StageGoesAstray
           \/ StagePauses \/ StageBreaks \/ StageCompletes \/ StageFails
    PROVE  Typed'
<1>1. /\ leg.pc = "exec" /\ UNCHANGED <<strategy, store, legs>>
      /\ \E kind \in {"done", "paused", "failed"}, next \in Stage \cup {End},
            version \in Nat : Ran(kind, next, version)
  <2>1. CASE StageDone
    BY <2>1, Fields, StageAfterType DEF StageDone, Ran
  <2>2. CASE \E t \in GotoTargets : StageGoesTo(t)
    BY <2>2, Fields DEF StageGoesTo, Ran, GotoTargets
  <2>3. CASE StageGoesAstray
    BY <2>3, Fields, OutcomeTypes DEF StageGoesAstray, Ran
  <2>4. CASE StagePauses
    BY <2>4, Fields DEF StagePauses, Ran
  <2>5. CASE StageBreaks
    BY <2>5, Fields, OutcomeTypes DEF StageBreaks, Ran
  <2>6. CASE StageCompletes
    BY <2>6, Fields, OutcomeTypes DEF StageCompletes, Ran
  <2>7. CASE StageFails
    BY <2>7, Fields, OutcomeTypes DEF StageFails, Ran
  <2> QED
    BY <2>1, <2>2, <2>3, <2>4, <2>5, <2>6, <2>7
<1>2. tries' \in Nat /\ past' \in Pasts
  BY <1>1, RanType
<1>3. store' \in Checkpoints /\ legs' \in Nat
  BY <1>1 DEF Typed, TypeOK
<1>4. leg' \in Legs /\ leg'.visits = leg.visits /\ AtStage'
  <2>1. CASE StageDone
    BY <2>1, <1>1, Fields, StageAfterType, AdvanceType DEF StageDone
  <2>2. CASE \E t \in GotoTargets : StageGoesTo(t)
    <3>1. PICK t \in Stage : Advance(t, Left)
      BY <2>2 DEF StageGoesTo, GotoTargets
    <3> QED
      BY <3>1, <1>1, Fields, AdvanceType
  <2>3. CASE StageGoesAstray
    BY <2>3, OutcomeTypes, EndsType DEF StageGoesAstray, AtStage
  <2>4. CASE StagePauses
    <3>1. SaveThen(Checkpoint(leg.current, leg.executed, Left), End, "paused")
      BY <2>4 DEF StagePauses
    <3>2. Checkpoint(leg.current, leg.executed, Left) \in Checkpoints
      BY Fields, CheckpointType
    <3> QED
      BY <3>1, <3>2, OutcomeTypes, SaveThenType DEF AtStage
  <2>5. CASE StageBreaks
    <3>1. CASE perStep
      <4>1. SaveThen(Checkpoint(End, Executed, Left), End, "broke")
        BY <2>5, <3>1 DEF StageBreaks
      <4>2. Checkpoint(End, Executed, Left) \in Checkpoints
        BY <1>1, Fields, OutcomeTypes, CheckpointType
      <4> QED
        BY <4>1, <4>2, OutcomeTypes, SaveThenType DEF AtStage
    <3>2. CASE ~perStep
      BY <2>5, <3>2, OutcomeTypes, EndsType DEF StageBreaks, AtStage
    <3> QED
      BY <3>1, <3>2
  <2>6. CASE StageCompletes
    <3>1. leg' = [leg EXCEPT !.pc = "clear", !.executed = Executed, !.vars = Left]
      BY <2>6 DEF StageCompletes
    <3>2. leg \in Legs /\ Executed \in Seq(Stage) /\ Left \in Nat
      BY <1>1, Fields DEF Typed, TypeOK
    <3> QED
      BY <3>1, <3>2 DEF Legs, AtStage
  <2>7. CASE StageFails
    <3>1. PICK version \in {Left, Version} :
             \/ CancelCheckpoint(leg.executed, version, "cancelled")
             \/ CancelCheckpoint(leg.executed, version, "timeout")
             \/ Ends("failed", FALSE)
      BY <2>7 DEF StageFails
    <3>2. version \in Nat
      BY <3>1, Fields
    <3>3. CASE \/ CancelCheckpoint(leg.executed, version, "cancelled")
              \/ CancelCheckpoint(leg.executed, version, "timeout")
      BY <3>2, <3>3, <1>1, CancelCheckpointType
    <3>4. CASE Ends("failed", FALSE)
      BY <3>4, OutcomeTypes, EndsType DEF AtStage
    <3> QED
      BY <3>1, <3>3, <3>4
  <2> QED
    BY <2>1, <2>2, <2>3, <2>4, <2>5, <2>6, <2>7
<1> QED
  BY <1>1, <1>2, <1>3, <1>4, TypedAfter

\* The boundary before a stage.
LEMMA BoundaryTyped ==
    ASSUME Typed, StopAtBoundary \/ TooManyVisits \/ EnterStage
    PROVE  Typed'
<1>1. leg.pc = "boundary" /\ UNCHANGED <<strategy, store, tries, legs>>
  BY DEF StopAtBoundary, TooManyVisits, EnterStage
<1>2. leg \in Legs /\ leg.current \in Stage /\ leg.vars \in Nat
  BY <1>1, Fields DEF Typed, TypeOK, AtStage
<1>3. store' \in Checkpoints /\ tries' \in Nat /\ legs' \in Nat
  BY <1>1 DEF Typed, TypeOK
<1>4. CASE StopAtBoundary
  <2>1. leg' \in Legs /\ leg'.visits = leg.visits /\ AtStage'
    BY <1>1, <1>2, <1>4, CancelCheckpointType DEF StopAtBoundary
  <2>2. past' \in Pasts
    BY <1>4 DEF StopAtBoundary, Typed, TypeOK
  <2> QED
    BY <2>1, <2>2, <1>1, <1>3, TypedAfter
<1>5. CASE TooManyVisits
  <2>1. leg' \in Legs /\ leg'.visits = leg.visits /\ AtStage'
    BY <1>5, OutcomeTypes, EndsType DEF TooManyVisits, AtStage
  <2>2. past' \in Pasts
    BY <1>5 DEF TooManyVisits, Typed, TypeOK
  <2> QED
    BY <2>1, <2>2, <1>1, <1>3, TypedAfter
<1>6. CASE EnterStage
  <2>1. /\ leg.visits[leg.current] < MaxVisits
        /\ leg' = [leg EXCEPT !.pc = "exec", !.visits[leg.current] = @ + 1]
        /\ past' = [Nothing EXCEPT !.stage = leg.current, !.before = leg.vars,
                                    !.done = past.done]
    BY <1>6 DEF EnterStage
  <2>2. leg.visits \in [Stage -> Nat] /\ \A s \in Stage : leg.visits[s] <= MaxVisits
    BY Fields DEF Typed, TypeOK
  <2>3. /\ leg' \in Legs /\ leg'.pc = "exec" /\ leg'.current = leg.current
        /\ leg'.visits = [leg.visits EXCEPT ![leg.current] = @ + 1]
    <3> DEFINE seen == [leg.visits EXCEPT ![leg.current] = @ + 1]
    <3>1. leg' = [leg EXCEPT !.pc = "exec", !.visits = seen]
      BY <2>1
    <3>2. seen \in [Stage -> Nat]
      BY <2>2, <1>2
    <3> HIDE DEF seen
    <3>3. leg' \in Legs /\ leg'.pc = "exec" /\ leg'.current = leg.current /\ leg'.visits = seen
      BY <3>1, <3>2, <1>2 DEF Legs
    <3> QED
      BY <3>3 DEF seen
  <2>4. \A s \in Stage : leg'.visits[s] <= MaxVisits
    BY <2>1, <2>2, <2>3, <1>2
  <2>5. past' \in Pasts
    BY <2>1, <1>2 DEF Typed, TypeOK, Pasts, Nothing
  <2> QED
    BY <2>3, <2>4, <2>5, <1>1, <1>2, <1>3 DEF Typed, TypeOK, AtStage
<1> QED
  BY <1>4, <1>5, <1>6

\* A landed checkpoint keeps the types of the store and of the past.
LEMMA SavedType ==
    ASSUME Typed, Saved
    PROVE  store' \in Checkpoints /\ past' \in Pasts
<1>1. leg.pending \in Checkpoints /\ past \in Pasts
  BY Fields DEF Typed, TypeOK
<1>2. CASE Attempted
  <2> DEFINE done == IF past.kind = "done" THEN past.done \cup {past.stage} ELSE past.done
  <2>1. past' = [past EXCEPT !.kept = TRUE, !.done = done]
    BY <1>2 DEF Saved
  <2>2. done \in SUBSET (Stage \cup {End})
    BY <1>1 DEF Pasts
  <2> HIDE DEF done
  <2> QED
    BY <1>1, <2>1, <2>2 DEF Pasts, Saved
<1>3. CASE ~Attempted
  BY <1>1, <1>3 DEF Saved
<1> QED
  BY <1>1, <1>2, <1>3 DEF Saved

\* Going on keeps the leg's work; only the place changes.
LEMMA ProceedType ==
    ASSUME Typed, NEW next \in Stage \cup {End}, leg' = Proceed(leg, next)
    PROVE  /\ leg' \in Legs /\ AtStage' /\ leg'.visits = leg.visits /\ leg'.vars = leg.vars
           /\ leg'.outcome = leg.outcome
           /\ next = End => leg'.pc = "clear"
           /\ next # End => leg'.pc = "boundary" /\ leg'.current = next
<1>1. leg \in Legs
  BY DEF Typed, TypeOK
<1>2. CASE next = End
  <2>1. leg' = [leg EXCEPT !.pc = "clear", !.current = @]
    BY <1>2 DEF Proceed
  <2>2. /\ leg' \in Legs /\ leg'.visits = leg.visits /\ leg'.vars = leg.vars
        /\ leg'.pc = "clear" /\ leg'.outcome = leg.outcome
    BY <2>1, <1>1 DEF Legs
  <2> QED
    BY <2>2, <1>2 DEF AtStage
<1>3. CASE next # End
  <2>1. leg' = [leg EXCEPT !.pc = "boundary", !.current = next]
    BY <1>3 DEF Proceed
  <2>2. /\ leg' \in Legs /\ leg'.visits = leg.visits /\ leg'.vars = leg.vars
        /\ leg'.pc = "boundary" /\ leg'.current = next /\ leg'.outcome = leg.outcome
    BY <2>1, <1>1 DEF Legs
  <2> QED
    BY <2>2, <1>3 DEF AtStage
<1> QED
  BY <1>2, <1>3

\* The two things a save can do to the leg.
LEMMA SaveLeg ==
    ASSUME Typed, Save
    PROVE  /\ leg' \in Legs /\ AtStage' /\ leg'.visits = leg.visits
           /\ leg.pc = "save" /\ UNCHANGED <<strategy, tries, legs>>
           /\ \/ leg'.pc = "idle"
              \/ Saved /\ leg.ending = "none" /\ leg' = Proceed(leg, leg.next)
<1>1. leg.next \in Stage \cup {End} /\ leg.ending \in Outcomes
  BY Fields
<1>2. leg.pc = "save" /\ UNCHANGED <<strategy, tries, legs>>
  BY DEF Save
<1>3. CASE Saved /\ leg.ending = "none" /\ leg' = Proceed(leg, leg.next)
  BY <1>1, <1>2, <1>3, ProceedType
<1>4. CASE \E outcome \in Outcomes, result \in BOOLEAN : Ends(outcome, result)
  BY <1>2, <1>4, EndsType DEF AtStage
<1>5. \/ Saved /\ leg.ending = "none" /\ leg' = Proceed(leg, leg.next)
      \/ Ends(leg.ending, leg.ending \in {"paused", "broke"})
      \/ Ends(leg.ending, FALSE)
      \/ Ends("failed", FALSE)
  BY DEF Save
<1>6. (leg.ending \in {"paused", "broke"}) \in BOOLEAN
  OBVIOUS
<1> QED
  BY <1>1, <1>3, <1>4, <1>5, <1>6, OutcomeTypes

LEMMA SaveTyped == Typed /\ Save => Typed'
<1> SUFFICES ASSUME Typed, Save PROVE Typed'
  OBVIOUS
<1>1. store' \in Checkpoints /\ past' \in Pasts
  <2>1. CASE Saved
    BY <2>1, SavedType
  <2>2. CASE UNCHANGED <<store, past>>
    BY <2>2 DEF Typed, TypeOK
  <2> QED
    BY <2>1, <2>2 DEF Save
<1>2. tries' \in Nat /\ legs' \in Nat
  BY SaveLeg DEF Typed, TypeOK
<1> QED
  BY <1>1, <1>2, SaveLeg, TypedAfter

LEMMA ClearTyped == Typed /\ (Clear \/ ClearOff) => Typed'
<1> SUFFICES ASSUME Typed, Clear \/ ClearOff PROVE Typed'
  OBVIOUS
<1>1. /\ UNCHANGED <<strategy, tries, legs, past>> /\ store' \in {store, NoCheckpoint}
      /\ Ends("completed", TRUE) \/ Ends("failed", TRUE)
  BY DEF Clear, ClearOff
<1>2. leg' \in Legs /\ leg'.visits = leg.visits /\ AtStage'
  BY <1>1, OutcomeTypes, EndsType DEF AtStage
<1>3. store' \in Checkpoints /\ tries' \in Nat /\ legs' \in Nat /\ past' \in Pasts
  BY <1>1, NothingType DEF Typed, TypeOK
<1> QED
  BY <1>1, <1>2, <1>3, TypedAfter

LEMMA EnvironmentTyped == Typed /\ (Cancel \/ Crash) => Typed'
<1> SUFFICES ASSUME Typed, Cancel \/ Crash PROVE Typed'
  OBVIOUS
<1>1. UNCHANGED <<strategy, store, tries, legs, past>>
  BY DEF Cancel, Crash
<1>2. store' \in Checkpoints /\ tries' \in Nat /\ legs' \in Nat /\ past' \in Pasts
  BY <1>1 DEF Typed, TypeOK
<1>3. leg' \in Legs /\ leg'.visits = leg.visits /\ AtStage'
  <2>1. CASE Cancel
    BY <2>1 DEF Cancel, Typed, TypeOK, Legs, AtStage
  <2>2. CASE Crash
    BY <2>2, OutcomeTypes, EndsType DEF Crash, AtStage
  <2> QED
    BY <2>1, <2>2
<1> QED
  BY <1>1, <1>2, <1>3, TypedAfter

LEMMA NextTyped == Typed /\ [Next]_vars => Typed'
<1>1. CASE UNCHANGED vars
  BY <1>1 DEF vars, Typed, TypeOK, AtStage
<1>2. CASE Step /\ Typed
  BY <1>2, LoadTyped, BoundaryTyped, StageTyped, SaveTyped, ClearTyped DEF Step
<1> QED
  BY <1>1, <1>2, StartTyped, ResumeTyped, EnvironmentTyped DEF Next

\* The variables keep their types, whatever the pipeline, the checkpoint setting
\* and the number of legs, and no leg enters a stage more often than the cap.
THEOREM RunnerTypeCorrect == Spec => []TypeOK
<1>1. Init => Typed
  BY InitTyped
<1>2. Typed /\ [Next]_vars => Typed'
  BY NextTyped
<1>3. Typed => TypeOK
  BY DEF Typed
<1> QED
  BY <1>1, <1>2, <1>3, PTL DEF Spec

-----------------------------------------------------------------------------
(* Where a run continues.                                                  *)

\* Why Continues holds: the checkpoint, and the place in the leg, follow the attempts.
Retraced ==
    /\ legs = 0 => leg.pc = "idle" /\ ~store.found /\ past = Nothing
    /\ perStep =>
          /\ store.found => AtPast(store.next, store.vars)
          /\ leg.pc = "boundary" =>
                /\ AtPast(leg.current, leg.vars)
                /\ store.found => store.next = leg.current /\ store.vars = leg.vars
          /\ leg.pc = "exec" /\ store.found =>
                store.next = past.stage /\ store.vars = past.before
          /\ leg.pc = "save" =>
                /\ leg.pending.next = past.next /\ leg.pending.vars = past.after
                /\ past.kind # "failed"
                /\ leg.ending = "none" => leg.next = past.next /\ leg.vars = past.after

\* Why PauseReenters holds: a kept pause is what the store, the leg and the
\* checkpoint about to be saved say.
Suspended ==
    /\ leg.pc = "exec" => past.kind = "none" /\ past.stage = leg.current /\ ~past.kept
    /\ leg.pc = "clear" => past.kind = "done"
    /\ leg.pc = "save" /\ leg.ending = "none" => past.kind = "done"
    /\ leg.pc = "boundary" /\ Attempted => past.kind = "done"
    /\ enabled /\ past.kind = "paused" =>
          /\ past.kept => store.next = past.stage /\ store.vars = past.after
          /\ leg.pc = "boundary" /\ past.kept =>
                leg.current = past.stage /\ leg.vars = past.after
          /\ leg.pc = "save" /\ (Attempted \/ past.kept) =>
                leg.pending.next = past.stage /\ leg.pending.vars = past.after

Kept == Typed /\ Retraced /\ Suspended

\* A stage comes out: what the next checkpoint says is what the attempt did.
CameOut ==
    /\ leg.pc = "exec" /\ UNCHANGED <<strategy, store, legs>>
    /\ past'.stage = past.stage /\ past'.before = past.before
    /\ past'.kept <=> past.kept
    /\ \/ leg'.pc = "idle"
       \/ leg'.pc \in {"boundary", "clear"} /\ past'.kind = "done"
             /\ (perStep => leg'.pc # "boundary")
       \/ /\ leg'.pc = "save"
          /\ leg'.ending = "none" => past'.kind = "done"
          /\ past'.kind = "paused" =>
                leg'.pending.next = past'.stage /\ leg'.pending.vars = past'.after
          /\ perStep =>
                /\ leg'.pending.next = past'.next /\ leg'.pending.vars = past'.after
                /\ past'.kind # "failed"
                /\ leg'.ending = "none" =>
                      leg'.next = past'.next /\ leg'.vars = past'.after

LEMMA StageOut ==
    ASSUME Typed, leg.pc = "exec" => past.stage = leg.current,
           \/ StageDone \/ (\E t \in GotoTargets : StageGoesTo(t)) \/ StageGoesAstray
           \/ StagePauses \/ StageBreaks \/ StageCompletes \/ StageFails
    PROVE  CameOut
<1> USE OutcomeTypes DEF CameOut
<1>1. CASE StageDone
  <2>1. /\ Ran("done", StageAfter(leg.current), Version)
        /\ Advance(StageAfter(leg.current), Version)
    BY <1>1 DEF StageDone
  <2>2. leg.pc = "exec" /\ Version \in Nat /\ StageAfter(leg.current) \in Stage \cup {End}
    BY <2>1, Fields, StageAfterType DEF Ran
  <2>3. /\ past'.stage = past.stage /\ past'.before = past.before
        /\ past'.kept <=> past.kept
        /\ past'.kind = "done"
        /\ past'.next = StageAfter(leg.current) /\ past'.after = Version
        /\ UNCHANGED <<strategy, store, legs>>
    BY <2>1, <2>2, RanType
  <2> QED
    BY <2>1, <2>2, <2>3, AdvanceType
<1>2. CASE \E t \in GotoTargets : StageGoesTo(t)
  <2>1. PICK t \in Stage : Ran("done", t, Left) /\ Advance(t, Left)
    BY <1>2 DEF StageGoesTo, GotoTargets
  <2>2. leg.pc = "exec" /\ Left \in Nat
    BY <2>1, Fields DEF Ran
  <2>3. /\ past'.stage = past.stage /\ past'.before = past.before
        /\ past'.kept <=> past.kept
        /\ past'.kind = "done"
        /\ past'.next = t /\ past'.after = Left
        /\ UNCHANGED <<strategy, store, legs>>
    BY <2>1, <2>2, RanType
  <2> QED
    BY <2>1, <2>2, <2>3, AdvanceType
<1>3. CASE StageGoesAstray
  <2>1. Ran("failed", End, Left) /\ Ends("failed", FALSE) /\ Left \in Nat
    BY <1>3, Fields DEF StageGoesAstray
  <2> QED
    BY <2>1, RanType, EndsType
<1>4. CASE StagePauses
  <2> DEFINE cp == Checkpoint(leg.current, leg.executed, Left)
  <2>1. /\ Ran("paused", leg.current, Left) /\ Left \in Nat
        /\ SaveThen(cp, End, "paused")
    BY <1>4, Fields DEF StagePauses
  <2>2. leg.current \in Stage \cup {End} /\ leg.pc = "exec" /\ past.stage = leg.current
    BY <2>1, Fields DEF Ran
  <2>3. /\ past'.stage = past.stage /\ past'.before = past.before
        /\ past'.kept <=> past.kept
        /\ past'.kind = "paused"
        /\ past'.next = leg.current /\ past'.after = Left
        /\ UNCHANGED <<strategy, store, legs>>
    BY <2>1, <2>2, RanType
  <2>4. cp \in Checkpoints /\ cp.next = leg.current /\ cp.vars = Left
    BY Fields DEF Checkpoint, Checkpoints
  <2> HIDE DEF cp
  <2>5. leg'.pc = "save" /\ leg'.pending = cp /\ leg'.ending = "paused"
    BY <2>1, <2>4, SaveThenType
  <2> QED
    BY <2>2, <2>3, <2>4, <2>5
<1>5. CASE StageBreaks
  <2> DEFINE cp == Checkpoint(End, Executed, Left)
  <2>1. Ran("done", End, Left) /\ Left \in Nat
    BY <1>5, Fields DEF StageBreaks
  <2>2. /\ past'.stage = past.stage /\ past'.before = past.before
        /\ past'.kept <=> past.kept
        /\ past'.kind = "done"
        /\ past'.next = End /\ past'.after = Left /\ leg.pc = "exec"
        /\ UNCHANGED <<strategy, store, legs>>
    BY <2>1, RanType
  <2>3. CASE perStep
    <3>1. SaveThen(cp, End, "broke")
      BY <1>5, <2>3 DEF StageBreaks
    <3>2. cp \in Checkpoints /\ cp.next = End /\ cp.vars = Left
      BY <2>2, Fields DEF Checkpoint, Checkpoints
    <3> HIDE DEF cp
    <3>3. leg'.pc = "save" /\ leg'.pending = cp /\ leg'.ending = "broke"
      BY <3>1, <3>2, SaveThenType
    <3> QED
      BY <2>2, <3>2, <3>3
  <2>4. CASE ~perStep
    BY <1>5, <2>2, <2>4, EndsType DEF StageBreaks
  <2> QED
    BY <2>3, <2>4
<1>6. CASE StageCompletes
  <2>1. /\ Ran("done", End, Left) /\ Left \in Nat /\ leg \in Legs
        /\ leg' = [leg EXCEPT !.pc = "clear", !.executed = Executed, !.vars = Left]
    BY <1>6, Fields DEF StageCompletes, Typed, TypeOK
  <2>2. leg'.pc = "clear"
    BY <2>1 DEF Legs
  <2> QED
    BY <2>1, <2>2, RanType
<1>7. CASE StageFails
  <2>1. PICK version \in {Left, Version} :
           /\ Ran("failed", End, version)
           /\ \/ CancelCheckpoint(leg.executed, version, "cancelled")
              \/ CancelCheckpoint(leg.executed, version, "timeout")
              \/ Ends("failed", FALSE)
    BY <1>7 DEF StageFails
  <2>2. version \in Nat
    BY <2>1, Fields
  <2>3. /\ past'.stage = past.stage /\ past'.before = past.before
        /\ past'.kept <=> past.kept
        /\ past'.kind = "failed" /\ leg.pc = "exec"
        /\ UNCHANGED <<strategy, store, legs>>
    BY <2>1, <2>2, RanType
  <2>4. \/ leg'.pc = "idle"
        \/ leg'.pc = "save" /\ leg'.ending # "none" /\ strategy = "other"
    <3>1. CASE Ends("failed", FALSE)
      BY <3>1, EndsType
    <3>2. CASE CancelCheckpoint(leg.executed, version, "cancelled")
      BY <2>2, <2>3, <3>2, CancelCheckpointType
    <3>3. CASE CancelCheckpoint(leg.executed, version, "timeout")
      BY <2>2, <2>3, <3>3, CancelCheckpointType
    <3> QED
      BY <2>1, <3>1, <3>2, <3>3
  <2> QED
    BY <2>3, <2>4 DEF perStep
<1> QED
  BY <1>1, <1>2, <1>3, <1>4, <1>5, <1>6, <1>7

\* A save either lands, and the leg ends or goes on, or it does not, and it ends.
LEMMA SaveOut ==
    ASSUME Typed, Save
    PROVE  /\ leg.pc = "save" /\ UNCHANGED <<strategy, tries, legs>>
           /\ leg'.visits = leg.visits
           /\ Saved \/ UNCHANGED <<store, past>>
           /\ \/ leg'.pc = "idle"
              \/ /\ Saved /\ leg.ending = "none" /\ leg'.vars = leg.vars
                 /\ \/ leg'.pc = "clear"
                    \/ leg'.pc = "boundary" /\ leg'.current = leg.next
<1>1. leg.next \in Stage \cup {End}
  BY Fields
<1>2. Saved \/ UNCHANGED <<store, past>>
  BY DEF Save
<1> QED
  BY <1>1, <1>2, SaveLeg, ProceedType

\* What a landed checkpoint leaves.
LEMMA SavedFields ==
    ASSUME Typed, Saved
    PROVE  /\ store' = leg.pending
           /\ past'.stage = past.stage /\ past'.before = past.before
           /\ past'.kind = past.kind /\ past'.next = past.next /\ past'.after = past.after
           /\ ~Attempted => (past'.kept <=> past.kept)
<1>1. past \in Pasts
  BY DEF Typed, TypeOK
<1>2. CASE Attempted
  <2> DEFINE done == IF past.kind = "done" THEN past.done \cup {past.stage} ELSE past.done
  <2>1. store' = leg.pending /\ past' = [past EXCEPT !.kept = TRUE, !.done = done]
    BY <1>2 DEF Saved
  <2> HIDE DEF done
  <2> QED
    BY <1>1, <1>2, <2>1 DEF Pasts
<1>3. CASE ~Attempted
  BY <1>3 DEF Saved
<1> QED
  BY <1>2, <1>3

LEMMA RetracedBySave == Typed /\ Retraced /\ Save => Retraced'
<1> SUFFICES ASSUME Typed, Retraced, Save PROVE Retraced'
  OBVIOUS
<1>1. legs' = 0 => FALSE
  BY SaveOut DEF Retraced
<1>2. ASSUME perStep'
      PROVE  /\ store'.found => AtPast(store.next, store.vars)'
             /\ leg'.pc = "boundary" =>
                   /\ AtPast(leg.current, leg.vars)'
                   /\ store'.found => store'.next = leg'.current /\ store'.vars = leg'.vars
  <2>1. perStep /\ leg.pc = "save"
    BY <1>2, SaveOut DEF perStep
  <2>2. /\ leg.pending.next = past.next /\ leg.pending.vars = past.after
        /\ past.kind # "failed"
        /\ leg.ending = "none" => leg.next = past.next /\ leg.vars = past.after
        /\ store.found => AtPast(store.next, store.vars)
    BY <2>1 DEF Retraced
  <2>3. CASE Saved
    BY <2>2, <2>3, SavedFields, SaveOut DEF AtPast
  <2>4. CASE UNCHANGED <<store, past>> /\ ~Saved
    BY <2>2, <2>4, SaveOut DEF AtPast
  <2> QED
    BY <2>3, <2>4, SaveOut
<1>3. leg'.pc \in {"idle", "clear", "boundary"}
  BY SaveOut
<1> QED
  BY <1>1, <1>2, <1>3 DEF Retraced

LEMMA SuspendedBySave == Typed /\ Suspended /\ Save => Suspended'
<1> SUFFICES ASSUME Typed, Suspended, Save PROVE Suspended'
  OBVIOUS
<1>1. leg.pc = "save" /\ (Attempted' <=> Attempted) /\ (enabled' <=> enabled)
  BY SaveOut DEF Attempted, enabled
<1>2. leg'.pc \in {"clear", "boundary"} => past.kind = "done" /\ past'.kind = "done"
  BY <1>1, SaveOut, SavedFields DEF Suspended
<1>3. ASSUME enabled, past'.kind = "paused", past'.kept
      PROVE  store'.next = past'.stage /\ store'.vars = past'.after
  <2>1. CASE Saved
    BY <2>1, <1>1, <1>3, SavedFields DEF Suspended
  <2>2. CASE UNCHANGED <<store, past>>
    BY <2>2, <1>3 DEF Suspended
  <2> QED
    BY <2>1, <2>2, SaveOut
<1>4. leg'.pc \in {"idle", "clear", "boundary"}
  BY SaveOut
<1>5. leg'.pc = "boundary" => past'.kind # "paused"
  BY <1>2
<1> QED
  BY <1>1, <1>2, <1>3, <1>4, <1>5 DEF Suspended

\* A leg that only ends, with nothing saved or cleared on the way.
LEMMA KeptByEnding ==
    ASSUME Kept, leg.pc # "idle", leg'.pc = "idle",
           UNCHANGED <<strategy, store, legs, past>>
    PROVE  Retraced' /\ Suspended'
<1>1. Retraced'
  BY DEF Kept, Retraced, AtPast, perStep
<1>2. Suspended'
  BY DEF Kept, Suspended, enabled
<1> QED
  BY <1>1, <1>2

LEMMA KeptByStart == Kept /\ Start => Retraced' /\ Suspended'
<1> SUFFICES ASSUME Kept, Start PROVE Retraced' /\ Suspended'
  OBVIOUS
<1>1. legs = 0 /\ legs' = 1 /\ UNCHANGED <<strategy, store, tries, past>>
  BY DEF Start
<1>2. ~store.found /\ past.stage = End /\ past.kind = "none"
  BY <1>1 DEF Kept, Retraced, Nothing
<1>3. leg'.pc \in {"boundary", "idle"} /\ leg'.visits = NewLeg.visits
  BY DEF Start, NewLeg
<1>4. ~Attempted'
  BY <1>3, NewLegType DEF Attempted
<1>5. Retraced'
  BY <1>1, <1>2, <1>3 DEF Retraced, AtPast
<1>6. Suspended'
  BY <1>1, <1>2, <1>3, <1>4 DEF Suspended
<1> QED
  BY <1>5, <1>6

LEMMA KeptByResume == Kept /\ Resume => Retraced' /\ Suspended'
<1> SUFFICES ASSUME Kept, Resume PROVE Retraced' /\ Suspended'
  OBVIOUS
<1>1. /\ UNCHANGED <<strategy, store, tries, past>> /\ legs' = legs + 1 /\ legs \in Nat
      /\ leg'.pc = "load"
  BY DEF Resume, NewLeg, Kept, Typed, TypeOK
<1>2. Retraced'
  BY <1>1 DEF Kept, Retraced, AtPast, perStep
<1>3. Suspended'
  BY <1>1 DEF Kept, Suspended, enabled
<1> QED
  BY <1>2, <1>3

LEMMA KeptByLoad == Kept /\ (Load \/ LoadOff) => Retraced' /\ Suspended'
<1> SUFFICES ASSUME Kept, Load \/ LoadOff PROVE Retraced' /\ Suspended'
  OBVIOUS
<1>1. leg.pc = "load" /\ UNCHANGED <<strategy, legs>> /\ Typed /\ legs # 0
  BY DEF Load, LoadOff, Kept, Retraced
<1>2. CASE Ends("completed", FALSE) \/ Ends("failed", FALSE)
  <2>1. CASE UNCHANGED <<store, past>>
    <3>1. leg'.pc = "idle"
      BY <1>1, <1>2, OutcomeTypes, EndsType
    <3> QED
      BY <2>1, <3>1, <1>1, KeptByEnding
  <2>2. CASE leg' = FromTheTop
    BY <1>1, <1>2, <2>2, LegsOfLoad, OutcomeTypes, EndsType
  <2> QED
    BY <1>1, <2>1, <2>2 DEF Load, LoadOff
<1>3. CASE /\ enabled /\ store.found /\ store.next # End
           /\ leg' = Continued /\ UNCHANGED <<store, past>>
  <2>1. /\ leg'.pc = "boundary" /\ leg'.current = store.next /\ leg'.vars = store.vars
        /\ leg'.visits = NewLeg.visits
    BY <1>1, <1>3, LegsOfLoad
  <2>2. ~Attempted'
    BY <2>1, NewLegType DEF Attempted
  <2>3. Retraced'
    BY <1>1, <1>3, <2>1 DEF Kept, Retraced, AtPast, perStep
  <2>4. Suspended'
    BY <1>1, <1>3, <2>1, <2>2 DEF Kept, Suspended, enabled
  <2> QED
    BY <2>3, <2>4
<1>4. CASE store' = NoCheckpoint /\ past' = Nothing /\ leg' = FromTheTop
  <2>1. /\ leg'.pc = "boundary" /\ leg'.visits = NewLeg.visits
        /\ past'.stage = End /\ past'.kind = "none" /\ ~store'.found
    BY <1>1, <1>4, LegsOfLoad DEF Nothing, NoCheckpoint
  <2>2. ~Attempted'
    BY <2>1, NewLegType DEF Attempted
  <2>3. Retraced'
    BY <1>1, <2>1 DEF Retraced, AtPast
  <2>4. Suspended'
    BY <2>1, <2>2 DEF Suspended
  <2> QED
    BY <2>3, <2>4
<1>5. CASE ~enabled /\ leg' = FromTheTop /\ UNCHANGED <<store, past>>
  <2>1. leg'.pc = "boundary" /\ leg'.visits = NewLeg.visits
    BY <1>1, <1>5, LegsOfLoad
  <2>2. ~Attempted' /\ ~perStep' /\ ~enabled'
    BY <1>1, <1>5, <2>1, NewLegType DEF Attempted, perStep, enabled
  <2>3. Retraced'
    BY <1>1, <2>2 DEF Retraced
  <2>4. Suspended'
    BY <2>1, <2>2 DEF Suspended
  <2> QED
    BY <2>3, <2>4
<1> QED
  BY <1>2, <1>3, <1>4, <1>5 DEF Load, LoadOff

LEMMA KeptByBoundary ==
    Kept /\ (StopAtBoundary \/ TooManyVisits \/ EnterStage) => Retraced' /\ Suspended'
<1> SUFFICES ASSUME Kept, StopAtBoundary \/ TooManyVisits \/ EnterStage
             PROVE  Retraced' /\ Suspended'
  OBVIOUS
<1>1. leg.pc = "boundary" /\ UNCHANGED <<strategy, store, legs>> /\ Typed /\ legs # 0
  BY DEF StopAtBoundary, TooManyVisits, EnterStage, Kept, Retraced
<1>2. CASE TooManyVisits
  BY <1>1, <1>2, OutcomeTypes, EndsType, KeptByEnding DEF TooManyVisits
<1>3. CASE StopAtBoundary
  <2>1. past' = past /\ CancelCheckpoint(leg.executed, leg.vars, "cancelled") /\ leg.vars \in Nat
    BY <1>3, Fields, <1>1 DEF StopAtBoundary
  <2>2. CASE strategy = "other"
    <3>1. /\ leg'.pc = "save" /\ leg'.ending = "cancelled" /\ leg'.visits = leg.visits
          /\ leg'.pending.next = leg.current /\ leg'.pending.vars = leg.vars
      BY <1>1, <2>1, <2>2, CancelCheckpointType
    <3>2. (Attempted' <=> Attempted) /\ ~perStep'
      BY <3>1, <1>1, <2>2 DEF Attempted, perStep
    <3>3. Retraced'
      BY <1>1, <3>2 DEF Retraced
    <3>4. Suspended'
      BY <1>1, <2>1, <3>1, <3>2 DEF Kept, Suspended, enabled
    <3> QED
      BY <3>3, <3>4
  <2>3. CASE strategy # "other"
    BY <1>1, <2>1, <2>3, CancelCheckpointType, KeptByEnding
  <2> QED
    BY <2>2, <2>3
<1>4. CASE EnterStage
  <2>1. /\ past' = [Nothing EXCEPT !.stage = leg.current, !.before = leg.vars,
                                    !.done = past.done]
        /\ leg' = [leg EXCEPT !.pc = "exec", !.visits[leg.current] = @ + 1]
        /\ leg \in Legs
    BY <1>1, <1>4 DEF EnterStage, Typed, TypeOK
  <2>2. leg'.pc = "exec" /\ leg'.current = leg.current
    BY <2>1 DEF Legs
  <2>3. /\ past'.stage = leg.current /\ past'.before = leg.vars
        /\ past'.kind = "none" /\ ~past'.kept
    BY <2>1 DEF Nothing
  <2>4. Retraced'
    BY <1>1, <2>2, <2>3 DEF Kept, Retraced, AtPast, perStep
  <2>5. Suspended'
    BY <2>2, <2>3 DEF Suspended
  <2> QED
    BY <2>4, <2>5
<1> QED
  BY <1>2, <1>3, <1>4

LEMMA KeptByStage ==
    ASSUME Kept,
           \/ StageDone \/ (\E t \in GotoTargets : StageGoesTo(t)) \/ StageGoesAstray
           \/ StagePauses \/ StageBreaks \/ StageCompletes \/ StageFails
    PROVE  Retraced' /\ Suspended'
<1>1. Typed /\ (leg.pc = "exec" => past.stage = leg.current)
  BY DEF Kept, Suspended
<1>2. CameOut
  BY <1>1, StageOut
<1>3. legs' # 0
  BY <1>2 DEF CameOut, Kept, Retraced
<1>4. perStep' = perStep /\ enabled' = enabled
  BY <1>2 DEF CameOut, perStep, enabled
<1>5. ~past.kept /\ ~past'.kept
  BY <1>2 DEF CameOut, Kept, Suspended
<1>6. perStep /\ store'.found => AtPast(store.next, store.vars)'
  BY <1>2, <1>5 DEF CameOut, Kept, Retraced, AtPast
<1>7. Retraced'
  BY <1>2, <1>3, <1>4, <1>6 DEF CameOut, Retraced
<1>8. Suspended'
  BY <1>2, <1>4, <1>5 DEF CameOut, Suspended
<1> QED
  BY <1>7, <1>8

LEMMA KeptByClear == Kept /\ (Clear \/ ClearOff) => Retraced' /\ Suspended'
<1> SUFFICES ASSUME Kept, Clear \/ ClearOff PROVE Retraced' /\ Suspended'
  OBVIOUS
<1>1. /\ leg.pc = "clear" /\ UNCHANGED <<strategy, legs, past>> /\ legs # 0
      /\ store' \in {store, NoCheckpoint}
      /\ past.kind = "done"
  BY DEF Clear, ClearOff, Kept, Retraced, Suspended
<1>2. leg'.pc = "idle"
  BY OutcomeTypes, EndsType DEF Kept, Clear, ClearOff
<1>3. ~NoCheckpoint.found
  BY DEF NoCheckpoint
<1>4. Retraced'
  BY <1>1, <1>2, <1>3 DEF Kept, Retraced, AtPast, perStep
<1>5. Suspended'
  BY <1>1, <1>2 DEF Suspended
<1> QED
  BY <1>4, <1>5

LEMMA KeptByEnvironment == Kept /\ (Cancel \/ Crash) => Retraced' /\ Suspended'
<1> SUFFICES ASSUME Kept, Cancel \/ Crash PROVE Retraced' /\ Suspended'
  OBVIOUS
<1>1. leg.pc # "idle" /\ UNCHANGED <<strategy, store, legs, past>> /\ leg \in Legs
  BY DEF Cancel, Crash, Kept, Typed, TypeOK
<1>2. CASE Crash
  BY <1>1, <1>2, OutcomeTypes, EndsType, KeptByEnding DEF Kept, Crash
<1>3. CASE Cancel
  <2>1. /\ leg'.pc = leg.pc /\ leg'.current = leg.current /\ leg'.vars = leg.vars
        /\ leg'.visits = leg.visits /\ leg'.pending = leg.pending
        /\ leg'.next = leg.next /\ leg'.ending = leg.ending
    BY <1>1, <1>3 DEF Cancel, Legs
  <2>2. Retraced'
    BY <1>1, <2>1 DEF Kept, Retraced, AtPast, perStep
  <2>3. Suspended'
    BY <1>1, <2>1 DEF Kept, Suspended, enabled, Attempted
  <2> QED
    BY <2>2, <2>3
<1> QED
  BY <1>2, <1>3

LEMMA InitKept == Init => Kept
<1> SUFFICES ASSUME Init PROVE Kept
  OBVIOUS
<1>1. leg.pc = "idle" /\ legs = 0 /\ past = Nothing /\ store = NoCheckpoint
  BY DEF Init, NewLeg
<1>2. ~store.found /\ past.stage = End /\ past.kind = "none"
  BY <1>1 DEF NoCheckpoint, Nothing
<1>3. Retraced
  BY <1>1, <1>2 DEF Retraced, AtPast
<1>4. Suspended
  BY <1>1, <1>2 DEF Suspended
<1> QED
  BY <1>3, <1>4, InitTyped DEF Kept

LEMMA NextKept == Kept /\ [Next]_vars => Kept'
<1>1. Kept /\ [Next]_vars => Typed'
  BY NextTyped DEF Kept
<1>2. ASSUME Kept, UNCHANGED vars PROVE Retraced' /\ Suspended'
  <2>1. Retraced'
    BY <1>2 DEF vars, Kept, Retraced, AtPast, perStep
  <2>2. Suspended'
    BY <1>2 DEF vars, Kept, Suspended, Attempted, enabled
  <2> QED
    BY <2>1, <2>2
<1>3. ASSUME Kept, Step PROVE Retraced' /\ Suspended'
  <2>1. Save => Retraced' /\ Suspended'
    BY <1>3, RetracedBySave, SuspendedBySave DEF Kept
  <2> QED
    BY <1>3, <2>1, KeptByLoad, KeptByBoundary, KeptByStage, KeptByClear DEF Step
<1> QED
  BY <1>1, <1>2, <1>3, KeptByStart, KeptByResume, KeptByEnvironment DEF Kept, Next

\* Per-step checkpoints make a run continue exactly where it was, over any number
\* of failures, cancels and crashes (Run's stage loop with checkpointStep).
THEOREM RunContinues == Spec => Continues
<1>1. Kept /\ [Next]_vars => [Entering /\ perStep => AtPast(leg.current, leg.vars)]_vars
  BY DEF Kept, Retraced, Entering
<1> QED
  BY <1>1, InitKept, NextKept, PTL DEF Spec, Continues

\* A paused run of a pipeline that checkpoints re-enters the pausing stage with
\* the variables as they were, whatever failed, was cancelled or crashed since.
THEOREM PausesReenter == Spec => PauseReenters
<1>1. Kept /\ [Next]_vars => [enabled => Reenters]_vars
  BY DEF Kept, Suspended, Reenters, Entering
<1> QED
  BY <1>1, InitKept, NextKept, PTL DEF Spec, PauseReenters

-----------------------------------------------------------------------------
(* What a run reports.                                                     *)

Within(seq, set) == \A i \in DOMAIN seq : seq[i] \in set

\* The stages whose completion was checkpointed, or is about to be.
Counting == past.done \cup (IF past.kind = "done" THEN {past.stage} ELSE {})

\* Why PauseIsSaved holds: a pause is reported after its save alone.
Reported ==
    /\ leg.outcome = "paused" =>
          leg.pc = "idle" /\ store.found /\ store.next = past.stage /\ store.vars = past.after
    /\ leg.pc = "save" /\ leg.ending = "paused" =>
          /\ leg.pending.found
          /\ leg.pending.next = past.stage /\ leg.pending.vars = past.after

\* Why SkippedWereDone holds: so are the completed steps of the leg and the checkpoints.
Counted ==
    perStep =>
       /\ store.found => Within(store.completed, past.done)
       /\ Within(leg.skipped, past.done)
       /\ leg.pc \in {"boundary", "exec"} => Within(leg.executed, past.done)
       /\ leg.pc \in {"exec", "save"} => Attempted
       /\ leg.pc = "save" =>
             /\ leg.pending.found /\ Within(leg.pending.completed, Counting)
             /\ leg.ending = "none" => Within(leg.executed, Counting)

Told == Kept /\ Reported /\ Counted

LEMMA WithinFacts ==
    ASSUME NEW set, NEW seq \in Seq(Stage), NEW s, Within(seq, set)
    PROVE  /\ Within(<<>>, set) /\ Within(seq, set \cup {s})
           /\ Within(Append(seq, s), set \cup {s})
<1>1. Within(<<>>, set) /\ Within(seq, set \cup {s})
  BY DEF Within
<1>2. ASSUME NEW i \in DOMAIN Append(seq, s) PROVE Append(seq, s)[i] \in set \cup {s}
  <2>1. seq \in Seq(Stage \cup {s}) /\ s \in Stage \cup {s}
    OBVIOUS
  <2>2. i \in 1..Len(seq) + 1 /\ DOMAIN seq = 1..Len(seq) /\ Len(seq) \in Nat
    BY <1>2, <2>1
  <2>3. CASE i = Len(seq) + 1
    BY <2>1, <2>2, <2>3
  <2>4. CASE i \in DOMAIN seq
    BY <2>1, <2>2, <2>4 DEF Within
  <2> QED
    BY <2>2, <2>3, <2>4
<1> QED
  BY <1>1, <1>2 DEF Within

\* How a leg ends changes nothing of what it did.
LEMMA EndsFields ==
    ASSUME Typed, NEW outcome \in Outcomes, NEW result \in BOOLEAN, Ends(outcome, result)
    PROVE  /\ leg'.pc = "idle" /\ leg'.outcome = outcome /\ leg'.skipped = leg.skipped
BY DEF Typed, TypeOK, Legs, Ends

\* A leg that only ends, and not with a pause.
LEMMA ToldByEnding ==
    ASSUME Told, leg'.pc = "idle", leg'.outcome # "paused", leg'.skipped = leg.skipped,
           UNCHANGED strategy, store' \in {store, NoCheckpoint}, past'.done = past.done
    PROVE  Reported' /\ Counted'
<1>1. Reported'
  BY DEF Reported
<1>2. Counted'
  BY DEF Told, Counted, perStep, Within, NoCheckpoint
<1> QED
  BY <1>1, <1>2

\* A leg that begins with nothing to report.
LEMMA ToldAfresh ==
    ASSUME Told, leg'.pc \in {"idle", "load", "boundary"}, leg'.outcome # "paused",
           leg'.executed = <<>>,
           leg'.skipped = <<>> \/ (leg'.skipped = store.completed /\ store.found),
           UNCHANGED strategy,
           (store' = store /\ past' = past) \/ (store' = NoCheckpoint /\ leg'.skipped = <<>>)
    PROVE  Reported' /\ Counted'
<1>1. Reported'
  BY DEF Reported
<1>2. Counted'
  BY DEF Told, Counted, perStep, Within, NoCheckpoint
<1> QED
  BY <1>1, <1>2

LEMMA ToldByStart == Told /\ (Start \/ Resume) => Reported' /\ Counted'
<1> SUFFICES ASSUME Told, Start \/ Resume PROVE Reported' /\ Counted'
  OBVIOUS
<1>1. /\ UNCHANGED <<strategy, store, past>>
      /\ leg'.pc \in {"idle", "load", "boundary"} /\ leg'.outcome # "paused"
      /\ leg'.executed = <<>> /\ leg'.skipped = <<>>
  BY DEF Start, Resume, NewLeg
<1>2. store' = store /\ past' = past
  BY <1>1
<1> QED
  BY <1>1, <1>2, ToldAfresh

LEMMA ToldByLoad == Told /\ (Load \/ LoadOff) => Reported' /\ Counted'
<1> SUFFICES ASSUME Told, Load \/ LoadOff PROVE Reported' /\ Counted'
  OBVIOUS
<1>1. UNCHANGED strategy /\ Typed
  BY DEF Load, LoadOff, Told, Kept
<1>2. /\ FromTheTop.pc = "boundary" /\ FromTheTop.outcome = "none"
      /\ FromTheTop.executed = <<>> /\ FromTheTop.skipped = <<>>
      /\ Continued.pc = "boundary" /\ Continued.outcome = "none"
      /\ Continued.executed = <<>> /\ Continued.skipped = store.completed
  BY DEF FromTheTop, Continued, NewLeg
<1>3. CASE (Ends("completed", FALSE) \/ Ends("failed", FALSE)) /\ UNCHANGED <<store, past>>
  <2>1. leg'.pc = "idle" /\ leg'.outcome # "paused" /\ leg'.skipped = leg.skipped
    BY <1>1, <1>3, EndsFields, OutcomeTypes
  <2>2. store' \in {store, NoCheckpoint} /\ past'.done = past.done
    BY <1>3
  <2> QED
    BY <1>1, <2>1, <2>2, ToldByEnding
<1>4. CASE leg' = Continued /\ store.found /\ UNCHANGED <<store, past>>
  <2>1. /\ leg'.pc = "boundary" /\ leg'.outcome = "none" /\ leg'.executed = <<>>
        /\ leg'.skipped = store.completed /\ store.found /\ store' = store /\ past' = past
    BY <1>2, <1>4
  <2> QED
    BY <1>1, <2>1, ToldAfresh
<1>5. CASE leg' = FromTheTop /\ (UNCHANGED <<store, past>> \/ store' = NoCheckpoint)
  <2>1. /\ leg'.pc = "boundary" /\ leg'.outcome = "none" /\ leg'.executed = <<>>
        /\ leg'.skipped = <<>>
        /\ (store' = store /\ past' = past) \/ store' = NoCheckpoint
    BY <1>2, <1>5
  <2> QED
    BY <1>1, <2>1, ToldAfresh
<1> QED
  BY <1>3, <1>4, <1>5 DEF Load, LoadOff

\* saveCancelCheckpoint reports no pause.
LEMMA CancelFields ==
    ASSUME Told, leg.pc \in {"boundary", "exec"}, NEW version \in Nat,
           NEW ending \in {"cancelled", "timeout"},
           CancelCheckpoint(leg.executed, version, ending)
    PROVE  /\ leg'.outcome # "paused" /\ leg'.skipped = leg.skipped
           /\ strategy = "other" => leg'.pc = "save" /\ leg'.ending = ending
           /\ strategy # "other" => leg'.pc = "idle"
<1>1. Typed /\ leg \in Legs /\ leg.outcome # "paused"
  BY DEF Told, Kept, Typed, TypeOK, Reported
<1>2. CASE strategy = "other"
  BY <1>1, <1>2 DEF CancelCheckpoint, SaveThen, Legs
<1>3. CASE strategy # "other"
  BY <1>1, <1>3, EndsFields, OutcomeTypes DEF CancelCheckpoint
<1> QED
  BY <1>2, <1>3

LEMMA ToldByCancelCheckpoint ==
    ASSUME Told, leg.pc \in {"boundary", "exec"}, NEW version \in Nat,
           NEW ending \in {"cancelled", "timeout"},
           CancelCheckpoint(leg.executed, version, ending),
           UNCHANGED <<strategy, store>>, past'.done = past.done
    PROVE  Reported' /\ Counted'
<1>1. CASE strategy = "other"
  <2>1. leg'.outcome # "paused" /\ leg'.ending # "paused"
    BY <1>1, CancelFields
  <2>2. ~perStep'
    BY <1>1 DEF perStep
  <2> QED
    BY <2>1, <2>2 DEF Reported, Counted
<1>2. CASE strategy # "other"
  BY <1>2, CancelFields, ToldByEnding
<1> QED
  BY <1>1, <1>2

LEMMA ToldByBoundary ==
    Told /\ (StopAtBoundary \/ TooManyVisits \/ EnterStage) => Reported' /\ Counted'
<1> SUFFICES ASSUME Told, StopAtBoundary \/ TooManyVisits \/ EnterStage
             PROVE  Reported' /\ Counted'
  OBVIOUS
<1>1. leg.pc = "boundary" /\ UNCHANGED <<strategy, store, legs>> /\ Typed /\ leg \in Legs
  BY DEF StopAtBoundary, TooManyVisits, EnterStage, Told, Kept, Typed, TypeOK
<1>2. CASE TooManyVisits
  <2>1. leg'.pc = "idle" /\ leg'.outcome # "paused" /\ leg'.skipped = leg.skipped
    BY <1>1, <1>2, EndsFields, OutcomeTypes DEF TooManyVisits
  <2>2. past'.done = past.done
    BY <1>2 DEF TooManyVisits
  <2> QED
    BY <1>1, <2>1, <2>2, ToldByEnding
<1>3. CASE StopAtBoundary
  <2>1. past' = past /\ CancelCheckpoint(leg.executed, leg.vars, "cancelled") /\ leg.vars \in Nat
    BY <1>1, <1>3, Fields DEF StopAtBoundary
  <2> QED
    BY <1>1, <2>1, ToldByCancelCheckpoint
<1>4. CASE EnterStage
  <2>1. /\ leg' = [leg EXCEPT !.pc = "exec", !.visits[leg.current] = @ + 1]
        /\ leg.current \in Stage /\ leg.visits \in [Stage -> Nat]
    BY <1>1, <1>4, Fields DEF EnterStage, Typed, AtStage
  <2>2. /\ leg'.pc = "exec" /\ leg'.outcome = leg.outcome /\ leg'.skipped = leg.skipped
        /\ leg'.executed = leg.executed
        /\ leg'.visits = [leg.visits EXCEPT ![leg.current] = @ + 1]
    BY <1>1, <2>1 DEF Legs
  <2>3. Attempted'
    BY <2>1, <2>2 DEF Attempted
  <2>4. past'.done = past.done
    BY <1>4 DEF EnterStage, Nothing
  <2>5. Reported'
    BY <1>1, <2>2 DEF Told, Reported
  <2>6. Counted'
    BY <1>1, <2>2, <2>3, <2>4 DEF Told, Counted, perStep
  <2> QED
    BY <2>5, <2>6
<1> QED
  BY <1>2, <1>3, <1>4

\* An attempt comes out: the stages counted so far, and its own if it is done.
LEMMA RanCounts ==
    ASSUME Told, NEW kind \in {"done", "paused", "failed"}, NEW next, NEW version,
           Ran(kind, next, version)
    PROVE  /\ leg.pc = "exec" /\ UNCHANGED <<strategy, store>> /\ leg.outcome # "paused"
           /\ past'.done = past.done /\ past'.stage = leg.current /\ past'.after = version
           /\ Counting' = past.done \cup (IF kind = "done" THEN {leg.current} ELSE {})
           /\ perStep => /\ Attempted /\ Within(leg.executed, past.done)
                         /\ Within(leg.skipped, past.done)
                         /\ Within(Executed, past.done \cup {leg.current})
                         /\ store.found => Within(store.completed, past.done)
<1>1. /\ past \in Pasts /\ leg.pc = "exec" /\ UNCHANGED <<strategy, store>>
      /\ past' = [past EXCEPT !.kind = kind, !.next = next, !.after = version]
  BY DEF Told, Kept, Typed, TypeOK, Ran
<1>2. /\ past'.done = past.done /\ past'.stage = past.stage /\ past'.kind = kind
      /\ past'.after = version
  BY <1>1 DEF Pasts
<1>3. past.stage = leg.current /\ leg.outcome # "paused"
  BY <1>1 DEF Told, Kept, Suspended, Reported
<1>4. Counting' = past.done \cup (IF kind = "done" THEN {leg.current} ELSE {})
  BY <1>2, <1>3 DEF Counting
<1>5. ASSUME perStep PROVE Within(Executed, past.done \cup {leg.current})
  <2>1. Within(leg.executed, past.done) /\ leg.executed \in Seq(Stage)
    BY <1>1, <1>5, Fields DEF Told, Kept, Counted
  <2> QED
    BY <2>1, WithinFacts DEF Executed
<1> QED
  BY <1>1, <1>2, <1>3, <1>4, <1>5 DEF Told, Counted

\* What a stage leaves to be saved is counted, and a pause is where the run is.
LEMMA ToldBySaveThen ==
    ASSUME Told, NEW kind \in {"done", "paused"}, NEW next, NEW version, Ran(kind, next, version),
           NEW completed, NEW at, NEW ending, ending # "none",
           SaveThen(Checkpoint(at, completed, version), End, ending),
           ending = "paused" => at = leg.current,
           perStep => Within(completed, Counting')
    PROVE  Reported' /\ Counted'
<1>1. leg \in Legs
  BY DEF Told, Kept, Typed, TypeOK
<1>2. /\ leg'.pc = "save" /\ leg'.ending = ending /\ leg'.outcome = leg.outcome
      /\ leg'.skipped = leg.skipped /\ leg'.visits = leg.visits
      /\ leg'.pending = Checkpoint(at, completed, version)
  BY <1>1 DEF SaveThen, Legs
<1>3. /\ leg'.pending.found /\ leg'.pending.next = at /\ leg'.pending.vars = version
      /\ leg'.pending.completed = completed
  BY <1>2 DEF Checkpoint
<1>4. Reported'
  BY <1>2, <1>3, RanCounts DEF Reported
<1>5. perStep => Attempted'
  BY <1>2, RanCounts DEF Attempted
<1>6. Counted'
  <2> SUFFICES ASSUME perStep' PROVE Counted'
    BY DEF Counted
  <2>1. perStep
    BY RanCounts DEF perStep
  <2> QED
    BY <1>2, <1>3, <1>5, <2>1, RanCounts DEF Counted
<1> QED
  BY <1>4, <1>6

LEMMA ToldByAdvance ==
    ASSUME Told, NEW next \in Stage \cup {End}, NEW version \in Nat, Ran("done", next, version),
           Advance(next, version)
    PROVE  Reported' /\ Counted'
<1>1. leg \in Legs /\ leg.pc = "exec" /\ Executed \in Seq(Stage) /\ Typed
  BY Fields DEF Told, Kept, Typed, TypeOK, Ran
<1> DEFINE ran == [leg EXCEPT !.executed = Executed, !.vars = version]
<1>2. /\ ran \in Legs /\ ran.visits = leg.visits /\ ran.executed = Executed
      /\ ran.skipped = leg.skipped /\ ran.outcome = leg.outcome
  BY <1>1 DEF Legs
<1>3. CASE perStep
  <2>1. leg' = [ran EXCEPT !.pc = "save", !.next = next, !.ending = "none",
                           !.pending = Checkpoint(next, Executed, version)]
    BY <1>3 DEF Advance
  <2> HIDE DEF ran
  <2>2. /\ leg'.pc = "save" /\ leg'.ending = "none" /\ leg'.outcome = leg.outcome
        /\ leg'.skipped = leg.skipped /\ leg'.visits = leg.visits /\ leg'.executed = Executed
        /\ leg'.pending = Checkpoint(next, Executed, version)
    BY <1>2, <2>1 DEF Legs
  <2>3. leg'.pending.found /\ leg'.pending.completed = Executed
    BY <2>2 DEF Checkpoint
  <2>4. Attempted'
    BY <1>3, <2>2, RanCounts DEF Attempted
  <2>5. Reported'
    BY <2>2, RanCounts DEF Reported
  <2>6. Counted'
    BY <1>3, <2>2, <2>3, <2>4, RanCounts DEF Counted
  <2> QED
    BY <2>5, <2>6
<1>4. CASE ~perStep
  <2>1. leg' = Proceed(ran, next)
    BY <1>4 DEF Advance
  <2> HIDE DEF ran
  <2>2. leg'.pc \in {"clear", "boundary"} /\ leg'.outcome = leg.outcome
    BY <1>2, <2>1 DEF Proceed, Legs
  <2>3. ~perStep'
    BY <1>4, RanCounts DEF perStep
  <2> QED
    BY <2>2, <2>3, RanCounts DEF Reported, Counted
<1> QED
  BY <1>3, <1>4

LEMMA ToldByStage ==
    ASSUME Told,
           \/ StageDone \/ (\E t \in GotoTargets : StageGoesTo(t)) \/ StageGoesAstray
           \/ StagePauses \/ StageBreaks \/ StageCompletes \/ StageFails
    PROVE  Reported' /\ Counted'
<1>1. Typed /\ leg \in Legs /\ Left \in Nat /\ Version \in Nat
  BY Fields DEF Told, Kept, Typed, TypeOK
<1>2. ASSUME NEW outcome \in Outcomes, NEW result \in BOOLEAN, outcome # "paused", Ends(outcome, result),
             NEW kind \in {"done", "failed"}, NEW version, Ran(kind, End, version)
      PROVE  Reported' /\ Counted'
  BY <1>1, <1>2, EndsFields, OutcomeTypes, RanCounts, ToldByEnding
<1>3. CASE StageDone
  <2>1. leg.current \in Stage
    BY <1>1, <1>3, Fields DEF StageDone, Ran
  <2> QED
    BY <1>1, <1>3, <2>1, StageAfterType, ToldByAdvance DEF StageDone
<1>4. CASE \E t \in GotoTargets : StageGoesTo(t)
  <2>1. PICK t \in Stage : Ran("done", t, Left) /\ Advance(t, Left)
    BY <1>4 DEF StageGoesTo, GotoTargets
  <2> QED
    BY <1>1, <2>1, ToldByAdvance
<1>5. CASE StageGoesAstray
  BY <1>2, <1>5, OutcomeTypes DEF StageGoesAstray
<1>6. CASE StagePauses
  <2>1. /\ Ran("paused", leg.current, Left)
        /\ SaveThen(Checkpoint(leg.current, leg.executed, Left), End, "paused")
    BY <1>6 DEF StagePauses
  <2>2. perStep => Within(leg.executed, Counting')
    BY <2>1, RanCounts DEF Within
  <2> QED
    BY <2>1, <2>2, ToldBySaveThen
<1>7. CASE StageBreaks
  <2>1. Ran("done", End, Left)
    BY <1>7 DEF StageBreaks
  <2>2. CASE perStep
    <3>1. SaveThen(Checkpoint(End, Executed, Left), End, "broke")
      BY <1>7, <2>2 DEF StageBreaks
    <3>2. Within(Executed, Counting')
      BY <2>1, <2>2, RanCounts
    <3> QED
      BY <2>1, <3>1, <3>2, ToldBySaveThen
  <2>3. CASE ~perStep
    BY <1>2, <1>7, <2>1, <2>3, OutcomeTypes DEF StageBreaks
  <2> QED
    BY <2>2, <2>3
<1>8. CASE StageCompletes
  <2>1. /\ Ran("done", End, Left)
        /\ leg' = [leg EXCEPT !.pc = "clear", !.executed = Executed, !.vars = Left]
    BY <1>8 DEF StageCompletes
  <2>2. leg'.pc = "clear" /\ leg'.outcome = leg.outcome /\ leg'.skipped = leg.skipped
    BY <1>1, <2>1 DEF Legs
  <2>3. Reported'
    BY <2>1, <2>2, RanCounts DEF Reported
  <2>4. Counted'
    BY <2>1, <2>2, RanCounts DEF Counted, perStep
  <2> QED
    BY <2>3, <2>4
<1>9. CASE StageFails
  <2>1. PICK version \in {Left, Version} :
           /\ Ran("failed", End, version)
           /\ \/ CancelCheckpoint(leg.executed, version, "cancelled")
              \/ CancelCheckpoint(leg.executed, version, "timeout")
              \/ Ends("failed", FALSE)
    BY <1>9 DEF StageFails
  <2>2. version \in Nat
    BY <1>1, <2>1
  <2>3. leg.pc = "exec" /\ UNCHANGED <<strategy, store>> /\ past'.done = past.done
    BY <2>1, RanCounts
  <2>4. CASE Ends("failed", FALSE)
    BY <1>2, <2>1, <2>4, OutcomeTypes
  <2>5. ASSUME NEW ending \in {"cancelled", "timeout"},
               CancelCheckpoint(leg.executed, version, ending)
        PROVE  Reported' /\ Counted'
    BY <2>2, <2>3, <2>5, ToldByCancelCheckpoint
  <2> QED
    BY <2>1, <2>4, <2>5
<1> QED
  BY <1>3, <1>4, <1>5, <1>6, <1>7, <1>8, <1>9

\* A landed checkpoint counts the stage it is about, if that is done.
LEMMA SavedCounts ==
    ASSUME Told, leg.pc = "save", Saved
    PROVE  /\ store' = leg.pending /\ past'.stage = past.stage /\ past'.after = past.after
           /\ perStep => /\ past'.done = Counting
                         /\ Within(leg.skipped, past'.done)
                         /\ Within(leg.pending.completed, past'.done)
                         /\ leg.ending = "none" => Within(leg.executed, past'.done)
<1>1. store' = leg.pending /\ past'.stage = past.stage /\ past'.after = past.after
  BY SavedFields DEF Told, Kept
<1>2. ASSUME perStep PROVE past'.done = Counting
  <2>1. Attempted
    BY <1>2 DEF Told, Counted
  <2>2. past \in Pasts
    BY DEF Told, Kept, Typed, TypeOK
  <2>3. past' = [past EXCEPT !.kept = TRUE,
                   !.done = IF past.kind = "done" THEN past.done \cup {past.stage} ELSE past.done]
    BY <2>1 DEF Saved
  <2> QED
    BY <2>2, <2>3 DEF Pasts, Counting
<1>3. ASSUME perStep PROVE Within(leg.skipped, Counting)
  BY <1>3 DEF Told, Counted, Counting, Within
<1> QED
  BY <1>1, <1>2, <1>3 DEF Told, Counted

LEMMA ToldBySave == Told /\ Save => Reported' /\ Counted'
<1> SUFFICES ASSUME Told, Save PROVE Reported' /\ Counted'
  OBVIOUS
<1>1. leg.pc = "save" /\ UNCHANGED <<strategy, tries, legs>> /\ Typed /\ leg \in Legs
  BY DEF Save, Told, Kept, Typed, TypeOK
<1>2. CASE Saved /\ leg.ending = "none" /\ leg' = Proceed(leg, leg.next)
  <2>1. /\ leg'.pc \in {"clear", "boundary"} /\ leg'.outcome = leg.outcome
        /\ leg'.executed = leg.executed /\ leg'.skipped = leg.skipped
    BY <1>1, <1>2 DEF Proceed, Legs
  <2>2. Reported'
    BY <1>1, <2>1 DEF Told, Reported
  <2>3. Counted'
    BY <1>1, <1>2, <2>1, SavedCounts DEF Counted, perStep
  <2> QED
    BY <2>2, <2>3
<1>3. ASSUME NEW outcome \in Outcomes, NEW result \in BOOLEAN, Ends(outcome, result), Saved,
             outcome = "paused" => leg.ending = "paused"
      PROVE  Reported' /\ Counted'
  <2>1. leg'.pc = "idle" /\ leg'.outcome = outcome /\ leg'.skipped = leg.skipped
    BY <1>1, <1>3, EndsFields, OutcomeTypes
  <2>2. Reported'
    BY <1>1, <1>3, <2>1, SavedCounts DEF Told, Reported
  <2>3. Counted'
    BY <1>1, <1>3, <2>1, SavedCounts DEF Counted, perStep
  <2> QED
    BY <2>2, <2>3
<1>4. ASSUME NEW outcome \in Outcomes, outcome # "paused", Ends(outcome, FALSE), UNCHANGED <<store, past>>
      PROVE  Reported' /\ Counted'
  BY <1>1, <1>4, EndsFields, OutcomeTypes, ToldByEnding
<1>5. \/ Saved /\ leg.ending = "none" /\ leg' = Proceed(leg, leg.next)
      \/ Saved /\ Ends(leg.ending, leg.ending \in {"paused", "broke"})
      \/ /\ Saved \/ UNCHANGED <<store, past>>
         /\ \E outcome \in {"cancelled", "timeout", "failed"} : Ends(outcome, FALSE)
  BY DEF Save
<1>6. leg.ending \in Outcomes /\ (leg.ending \in {"paused", "broke"}) \in BOOLEAN
  BY <1>1, Fields
<1> QED
  BY <1>2, <1>3, <1>4, <1>5, <1>6, OutcomeTypes

LEMMA ToldByClear == Told /\ (Clear \/ ClearOff) => Reported' /\ Counted'
<1> SUFFICES ASSUME Told, Clear \/ ClearOff PROVE Reported' /\ Counted'
  OBVIOUS
<1>1. /\ UNCHANGED <<strategy, past>> /\ store' \in {store, NoCheckpoint} /\ Typed
      /\ Ends("completed", TRUE) \/ Ends("failed", TRUE)
  BY DEF Clear, ClearOff, Told, Kept
<1>2. leg'.pc = "idle" /\ leg'.outcome # "paused" /\ leg'.skipped = leg.skipped
  BY <1>1, EndsFields, OutcomeTypes
<1>3. past'.done = past.done
  BY <1>1
<1> QED
  BY <1>1, <1>2, <1>3, ToldByEnding

LEMMA ToldByEnvironment == Told /\ (Cancel \/ Crash) => Reported' /\ Counted'
<1> SUFFICES ASSUME Told, Cancel \/ Crash PROVE Reported' /\ Counted'
  OBVIOUS
<1>1. UNCHANGED <<strategy, store, past>> /\ Typed /\ leg \in Legs
  BY DEF Cancel, Crash, Told, Kept, Typed, TypeOK
<1>2. CASE Crash
  <2>1. leg'.pc = "idle" /\ leg'.outcome # "paused" /\ leg'.skipped = leg.skipped
    BY <1>1, <1>2, EndsFields, OutcomeTypes DEF Crash
  <2>2. past'.done = past.done /\ store' = store
    BY <1>1
  <2> QED
    BY <1>1, <2>1, <2>2, ToldByEnding
<1>3. CASE Cancel
  <2>1. /\ leg'.pc = leg.pc /\ leg'.outcome = leg.outcome /\ leg'.executed = leg.executed
        /\ leg'.skipped = leg.skipped /\ leg'.visits = leg.visits
        /\ leg'.pending = leg.pending /\ leg'.ending = leg.ending
    BY <1>1, <1>3 DEF Cancel, Legs
  <2>2. Reported'
    BY <1>1, <2>1 DEF Told, Reported
  <2>3. Counted'
    BY <1>1, <2>1 DEF Told, Counted, perStep, Attempted, Counting
  <2> QED
    BY <2>2, <2>3
<1> QED
  BY <1>2, <1>3

LEMMA InitTold == Init => Told
<1> SUFFICES ASSUME Init PROVE Told
  OBVIOUS
<1>1. /\ leg.pc = "idle" /\ leg.outcome = "none" /\ leg.skipped = <<>> /\ ~store.found
  BY DEF Init, NewLeg, NoCheckpoint
<1> QED
  BY <1>1, InitKept DEF Told, Reported, Counted, Within

LEMMA NextTold == Told /\ [Next]_vars => Told'
<1>1. Told /\ [Next]_vars => Kept'
  BY NextKept DEF Told
<1>2. ASSUME Told, UNCHANGED vars PROVE Reported' /\ Counted'
  BY <1>2 DEF vars, Told, Reported, Counted, perStep, Attempted, Counting
<1>3. ASSUME Told, Step PROVE Reported' /\ Counted'
  BY <1>3, ToldByLoad, ToldByBoundary, ToldByStage, ToldBySave, ToldByClear DEF Step
<1> QED
  BY <1>1, <1>2, <1>3, ToldByStart, ToldByEnvironment DEF Told, Next

\* A run is reported as paused only when its checkpoint names the pausing stage, with
\* the variables as they were, whichever saves were lost or failed (Run, StepPaused).
THEOREM PausesAreSaved == Spec => []PauseIsSaved
<1>1. Told => PauseIsSaved
  BY DEF Told, Reported, PauseIsSaved
<1> QED
  BY <1>1, InitTold, NextTold, PTL DEF Spec

\* With per-step checkpoints a resumed leg reports as completed only steps that some
\* leg did complete (RunResult.Skipped, from the checkpoint's CompletedSteps).
THEOREM SkippedStepsWereDone == Spec => []SkippedWereDone
<1>1. Told => SkippedWereDone
  BY DEF Told, Counted, Within, SkippedWereDone
<1> QED
  BY <1>1, InitTold, NextTold, PTL DEF Spec

-----------------------------------------------------------------------------
(* Legs end.                                                               *)

\* A leg begins idle, and has visited nothing when it looks for its checkpoint.
Unvisited ==
    /\ legs = 0 => leg.pc = "idle"
    /\ leg.pc = "load" => \A s \in Stage : leg.visits[s] = 0

\* Steps a leg can take, at most, until it visits a stage again or is over.
Rest(l) ==
    IF l.pc = "load" THEN 5
    ELSE IF l.pc = "exec" THEN 4
    ELSE IF l.pc = "save" /\ l.ending = "none" THEN 3
    ELSE IF l.pc = "boundary" THEN 2
    ELSE IF l.pc \in {"save", "clear"} THEN 1
    ELSE 0

\* What a leg under way does: it comes nearer to its next visit or its end, or uses up
\* one of the visits maxStepVisits leaves it, or is told, once, that it is cancelled.
Shrinks ==
    \/ Rest(leg') < Rest(leg) /\ leg'.visits = leg.visits
    \/ \E s \in Stage : /\ leg.visits[s] < MaxVisits
                        /\ leg'.visits = [leg.visits EXCEPT ![s] = @ + 1]
    \/ ~leg.cancelled /\ leg' = [leg EXCEPT !.cancelled = TRUE]

LegShrinks == [][leg.pc # "idle" => Shrinks]_vars

\* A stage is left for the next boundary, a save or an end.
LEMMA StageLeft ==
    ASSUME Typed,
           \/ StageDone \/ (\E t \in GotoTargets : StageGoesTo(t)) \/ StageGoesAstray
           \/ StagePauses \/ StageBreaks \/ StageCompletes \/ StageFails
    PROVE  /\ leg.pc = "exec" /\ leg'.pc \in {"idle", "save", "boundary", "clear"}
           /\ leg'.visits = leg.visits /\ legs' = legs
<1>1. leg \in Legs
  BY DEF Typed, TypeOK
<1>2. leg.pc = "exec" /\ legs' = legs
  BY DEF StageDone, StageGoesTo, StageGoesAstray, StagePauses, StageBreaks, StageCompletes,
         StageFails, Ran
<1>3. \/ \E outcome, result : Ends(outcome, result)
      \/ \E cp, next, ending : SaveThen(cp, next, ending)
      \/ \E next, version : Advance(next, version)
      \/ leg' = [leg EXCEPT !.pc = "clear", !.executed = Executed, !.vars = Left]
  BY DEF StageDone, StageGoesTo, StageGoesAstray, StagePauses, StageBreaks, StageCompletes,
         StageFails, CancelCheckpoint
<1>4. ASSUME NEW outcome, NEW result, Ends(outcome, result)
      PROVE  leg'.pc = "idle" /\ leg'.visits = leg.visits
  BY <1>1, <1>4 DEF Ends, Legs
<1>5. ASSUME NEW cp, NEW next, NEW ending, SaveThen(cp, next, ending)
      PROVE  leg'.pc = "save" /\ leg'.visits = leg.visits
  BY <1>1, <1>5 DEF SaveThen, Legs
<1>6. ASSUME NEW next, NEW version, Advance(next, version)
      PROVE  leg'.pc \in {"save", "boundary", "clear"} /\ leg'.visits = leg.visits
  BY <1>1, <1>6 DEF Advance, Proceed, Legs
<1>7. leg' = [leg EXCEPT !.pc = "clear", !.executed = Executed, !.vars = Left]
        => leg'.pc = "clear" /\ leg'.visits = leg.visits
  BY <1>1 DEF Legs
<1> QED
  BY <1>2, <1>3, <1>4, <1>5, <1>6, <1>7

\* At a boundary a leg stops, by way of a save or at once, or visits a stage.
LEMMA BoundaryLeft ==
    ASSUME Typed, StopAtBoundary \/ TooManyVisits \/ EnterStage
    PROVE  leg.pc = "boundary" /\ Shrinks /\ legs' = legs /\ leg'.pc # "load"
<1>1. leg \in Legs /\ leg.pc = "boundary" /\ legs' = legs
  BY DEF Typed, TypeOK, StopAtBoundary, TooManyVisits, EnterStage
<1>2. Rest(leg) = 2
  BY <1>1 DEF Rest
<1>3. ASSUME NEW outcome, NEW result, Ends(outcome, result)
      PROVE  leg'.pc = "idle" /\ leg'.visits = leg.visits
  BY <1>1, <1>3 DEF Ends, Legs
<1>4. ASSUME NEW cp, NEW next, SaveThen(cp, next, "cancelled")
      PROVE  leg'.pc = "save" /\ leg'.ending = "cancelled" /\ leg'.visits = leg.visits
  BY <1>1, <1>4 DEF SaveThen, Legs
<1>5. CASE EnterStage
  <2>1. leg' = [leg EXCEPT !.pc = "exec", !.visits[leg.current] = @ + 1]
    BY <1>5 DEF EnterStage
  <2>2. leg'.visits = [leg.visits EXCEPT ![leg.current] = @ + 1] /\ leg'.pc = "exec"
    BY <2>1, <1>1 DEF Legs
  <2>3. leg.current \in Stage /\ leg.visits[leg.current] < MaxVisits
    BY <1>1, <1>5 DEF EnterStage, Typed, AtStage
  <2> QED
    BY <1>1, <2>2, <2>3 DEF Shrinks
<1>6. CASE StopAtBoundary \/ TooManyVisits
  <2>1. \/ \E outcome, result : Ends(outcome, result)
        \/ \E cp, next : SaveThen(cp, next, "cancelled")
    BY <1>6 DEF StopAtBoundary, TooManyVisits, CancelCheckpoint
  <2>2. /\ leg'.visits = leg.visits
        /\ leg'.pc = "idle" \/ (leg'.pc = "save" /\ leg'.ending = "cancelled")
    BY <2>1, <1>3, <1>4
  <2>3. Rest(leg') < 2
    BY <2>2 DEF Rest
  <2> QED
    BY <1>1, <1>2, <2>2, <2>3 DEF Shrinks
<1> QED
  BY <1>1, <1>5, <1>6

LEMMA LoadLeft ==
    ASSUME Typed, Unvisited, Load \/ LoadOff
    PROVE  leg.pc = "load" /\ Shrinks /\ legs' = legs /\ leg'.pc # "load"
<1>1. leg \in Legs /\ leg.pc = "load" /\ legs' = legs
  BY DEF Typed, TypeOK, Load, LoadOff
<1>2. leg.visits = NewLeg.visits
  <2>1. leg.visits \in [Stage -> Nat] /\ \A s \in Stage : leg.visits[s] = 0
    BY <1>1 DEF Legs, Unvisited
  <2>2. leg.visits = [s \in Stage |-> 0]
    BY <2>1
  <2> QED
    BY <2>2 DEF NewLeg
<1>3. \/ \E outcome, result : Ends(outcome, result)
      \/ leg' = Continued /\ store.next # End
      \/ leg' = FromTheTop
  BY DEF Load, LoadOff
<1>4. ASSUME NEW outcome, NEW result, Ends(outcome, result)
      PROVE  leg'.pc = "idle" /\ leg'.visits = leg.visits
  BY <1>1, <1>4 DEF Ends, Legs
<1>5. leg'.pc \in {"idle", "boundary"} /\ leg'.visits = leg.visits
  BY <1>2, <1>3, <1>4, LegsOfLoad
<1> QED
  BY <1>1, <1>5 DEF Shrinks, Rest

LEMMA SaveOrClearLeft ==
    ASSUME Typed, Save \/ Clear \/ ClearOff
    PROVE  leg.pc \in {"save", "clear"} /\ Shrinks /\ legs' = legs /\ leg'.pc # "load"
<1>1. leg \in Legs /\ legs' = legs /\ leg.next \in Stage \cup {End}
  BY Fields DEF Typed, TypeOK, Save, Clear, ClearOff
<1>2. CASE Save
  <2>1. /\ leg.pc = "save" /\ leg'.visits = leg.visits
        /\ \/ leg'.pc = "idle"
           \/ leg.ending = "none" /\ leg' = Proceed(leg, leg.next)
    BY <1>2, SaveLeg
  <2>2. leg' = Proceed(leg, leg.next) => leg'.pc \in {"clear", "boundary"}
    BY <1>1, ProceedType
  <2> QED
    BY <1>1, <2>1, <2>2 DEF Shrinks, Rest
<1>3. CASE Clear \/ ClearOff
  <2>1. leg.pc = "clear" /\ \E outcome, result : Ends(outcome, result)
    BY <1>3 DEF Clear, ClearOff
  <2>2. leg'.pc = "idle" /\ leg'.visits = leg.visits
    BY <1>1, <2>1 DEF Ends, Legs
  <2> QED
    BY <1>1, <2>1, <2>2 DEF Shrinks, Rest
<1> QED
  BY <1>2, <1>3

LEMMA StepShrinks ==
    ASSUME Typed, Unvisited, Step
    PROVE  leg.pc # "idle" /\ Shrinks /\ legs' = legs /\ leg'.pc # "load"
<1>1. CASE \/ StageDone \/ (\E t \in GotoTargets : StageGoesTo(t)) \/ StageGoesAstray
           \/ StagePauses \/ StageBreaks \/ StageCompletes \/ StageFails
  <2>1. /\ leg.pc = "exec" /\ leg'.pc \in {"idle", "save", "boundary", "clear"}
        /\ leg'.visits = leg.visits /\ legs' = legs
    BY <1>1, StageLeft
  <2> QED
    BY <2>1 DEF Shrinks, Rest
<1>2. CASE StopAtBoundary \/ TooManyVisits \/ EnterStage
  BY <1>2, BoundaryLeft
<1>3. CASE Load \/ LoadOff
  BY <1>3, LoadLeft
<1>4. CASE Save \/ Clear \/ ClearOff
  BY <1>4, SaveOrClearLeft
<1> QED
  BY <1>1, <1>2, <1>3, <1>4 DEF Step

LEMMA OutsideShrinks ==
    ASSUME Typed, Cancel \/ Crash
    PROVE  leg.pc # "idle" /\ Shrinks /\ legs' = legs
           /\ leg'.visits = leg.visits /\ leg'.pc \in {leg.pc, "idle"}
<1>1. leg \in Legs /\ leg.pc # "idle" /\ legs' = legs
  BY DEF Typed, TypeOK, Cancel, Crash
<1>2. CASE Cancel
  <2>1. ~leg.cancelled /\ leg' = [leg EXCEPT !.cancelled = TRUE]
    BY <1>2 DEF Cancel
  <2>2. leg'.visits = leg.visits /\ leg'.pc = leg.pc
    BY <1>1, <2>1 DEF Legs
  <2> QED
    BY <1>1, <2>1, <2>2 DEF Shrinks
<1>3. CASE Crash
  <2>1. leg'.pc = "idle" /\ leg'.visits = leg.visits
    BY <1>1, <1>3 DEF Crash, Ends, Legs
  <2>2. leg.pc \in {"load", "boundary", "exec", "save", "clear"}
    BY <1>1 DEF Legs
  <2>3. Rest(leg') < Rest(leg)
    BY <2>1, <2>2 DEF Rest
  <2> QED
    BY <1>1, <2>1, <2>3 DEF Shrinks
<1> QED
  BY <1>2, <1>3

LEMMA UnvisitedNext == Typed /\ Unvisited /\ [Next]_vars => Unvisited'
<1> SUFFICES ASSUME Typed, Unvisited, [Next]_vars PROVE Unvisited'
  OBVIOUS
<1>1. CASE Start
  <2>1. legs' = 1
    BY <1>1 DEF Start
  <2>2. leg'.pc # "load"
    BY <1>1, NewLegType DEF Start, NewLeg
  <2> QED
    BY <2>1, <2>2 DEF Unvisited
<1>2. CASE Resume
  <2>1. legs' = legs + 1 /\ legs \in Nat
    BY <1>2 DEF Resume, Typed, TypeOK
  <2>2. leg'.visits = NewLeg.visits
    BY <1>2 DEF Resume, NewLeg
  <2> QED
    BY <2>1, <2>2, NewLegType DEF Unvisited
<1>3. CASE Step
  <2>1. leg.pc # "idle" /\ legs' = legs /\ leg'.pc # "load"
    BY <1>3, StepShrinks
  <2> QED
    BY <2>1 DEF Unvisited
<1>4. CASE Cancel \/ Crash
  BY <1>4, OutsideShrinks DEF Unvisited
<1>5. CASE UNCHANGED vars
  BY <1>5 DEF vars, Unvisited
<1> QED
  BY <1>1, <1>2, <1>3, <1>4, <1>5 DEF Next

\* Whatever the pipeline, its gotos and its cycles: between two visits of a stage a leg
\* takes at most five steps, visits are never undone, and maxStepVisits bounds them, so a
\* leg whose calls return ends (Run's visit counter): the argument behind LegEnds.
THEOREM LegsShrink == Spec => LegShrinks
<1>1. Init => Typed /\ Unvisited
  BY InitTyped, NewLegType DEF Init, Unvisited, NewLeg
<1>2. Typed /\ Unvisited /\ [Next]_vars => Typed' /\ Unvisited'
  BY NextTyped, UnvisitedNext
<1>3. Typed /\ Unvisited /\ [Next]_vars => [leg.pc # "idle" => Shrinks]_vars
  <2> SUFFICES ASSUME Typed, Unvisited, Next, leg.pc # "idle" PROVE Shrinks
    OBVIOUS
  <2>1. ~Start /\ ~Resume
    BY DEF Start, Resume, Over, Unvisited
  <2> QED
    BY <2>1, StepShrinks, OutsideShrinks DEF Next
<1> QED
  BY <1>1, <1>2, <1>3, PTL DEF Spec, LegShrinks
=============================================================================
