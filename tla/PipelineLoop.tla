----------------------------- MODULE PipelineLoop -----------------------------
(***************************************************************************)
(* Runs of a `loop pipeline` from the command line (execsvc/execsvc.go,     *)
(* engine/runtime/loop.go, session.go): each run is a process that works on *)
(* a session of the state directory, repeats the pipeline's iterations and  *)
(* saves a checkpoint after each; it may die anywhere, and a later run may  *)
(* resume the session it names or the latest.                               *)
(*                                                                         *)
(* An iteration leaves an effect in the pipeline's `mem`, which is kept in  *)
(* a file per instance.  Instances are numbered in the order they are drawn *)
(* (they are random ids).  The state directory has no lock: that a session  *)
(* is used by one process at a time is left to its user.                    *)
(***************************************************************************)
EXTENDS Naturals, FiniteSets

CONSTANTS
    Procs,          \* bound: the runs
    Sessions,       \* bound: the sessions of the state directory
    None,
    MaxIterations,  \* max_iterations
    MaxInstances    \* bound: ids that are drawn

Iteration == 0..MaxIterations
Instance == 1..MaxInstances

VARIABLES
    proc,       \* each run's process
    ckpt,       \* loop-<pipeline>.json of each session
    latest,     \* <pipeline>.latest
    mem,        \* the iterations whose effect an instance's file holds
    drawn       \* instances drawn so far

vars == <<proc, ckpt, latest, mem, drawn>>
Disk == <<ckpt, latest, mem>>

-----------------------------------------------------------------------------
\* The stop_reason of a checkpoint; "none" is the empty one.
Reasons == {"none", "pause", "break", "stop_when", "max_iterations"}
Checkpoints == [next : Iteration, reason : Reasons, inst : Instance]

ASSUME LoopAssumption ==
    /\ None \notin Sessions \cup Checkpoints
    /\ MaxIterations \in Nat \ {0} /\ MaxInstances \in Nat

\* starting: session_start is due; head: the top of the loop; iterating: in Runner.Run;
\* saving, pointing: the two halves of LoopStore.Save; finishing: result, output and
\* session_end are due.  then is the reason the save is for.
ProcRecords ==
    [pc : {"idle", "starting", "head", "iterating", "saving", "pointing", "finishing",
           "over"},
     session : Sessions \cup {None}, resume : BOOLEAN, iter : Iteration,
     inst : 0..MaxInstances, then : Reasons]

NoProc == [pc |-> "idle", session |-> None, resume |-> FALSE, iter |-> 0, inst |-> 0,
           then |-> "none"]

Init ==
    /\ proc = [p \in Procs |-> NoProc]
    /\ ckpt = [s \in Sessions |-> None]
    /\ latest = None
    /\ mem = [i \in Instance |-> {}]
    /\ drawn = 0

Running(p) == proc[p].pc \notin {"idle", "over"}
InUse(s) == \E p \in Procs : Running(p) /\ proc[p].session = s
New(s) == \A p \in Procs : proc[p].session # s

\* Mutant of InProgress: a loop that broke is gone on with.
InProgressBroken(s) == ckpt[s] # None /\ ckpt[s].reason \in {"none", "pause", "break"}

\* What --resume continues: a checkpoint that says nothing of a stop, or a pause.
InProgress(s) == ckpt[s] # None /\ ckpt[s].reason \in {"none", "pause"}

Becomes(p, pc) == proc' = [proc EXCEPT ![p].pc = pc]

Ends(p) ==
    proc' = [proc EXCEPT ![p] = [NoProc EXCEPT !.pc = "over", !.session = proc[p].session,
                                               !.inst = proc[p].inst]]

-----------------------------------------------------------------------------
(* execsvc.Run up to the loop.                                             *)

\* ResolveSession: the session that is named, the latest one, or a new one.
Targets(resume) ==
    {s \in Sessions : ~New(s)}
      \cup (IF resume /\ latest # None THEN {latest} ELSE {s \in Sessions : New(s)})

\* ResolveInstanceID: the checkpoint's instance, or a new one.
SetsOut(s, resume, inst) ==
    [pc |-> "starting", session |-> s, resume |-> resume, iter |-> 0, inst |-> inst,
     then |-> "none"]

Continue(p, s) == proc' = [proc EXCEPT ![p] = SetsOut(s, TRUE, ckpt[s].inst)]

Draw(p, s, resume) ==
    /\ drawn < MaxInstances
    /\ drawn' = drawn + 1
    /\ proc' = [proc EXCEPT ![p] = SetsOut(s, resume, drawn + 1)]

\* Mutant of Start: a resumed run draws an instance of its own.
StartDrawing(p) ==
    /\ proc[p].pc = "idle"
    /\ \E resume \in BOOLEAN : \E s \in Targets(resume) : ~InUse(s) /\ Draw(p, s, resume)
    /\ UNCHANGED Disk

Start(p) ==
    /\ proc[p].pc = "idle"
    /\ \E resume \in BOOLEAN :
         \E s \in Targets(resume) :
            /\ ~InUse(s)
            /\ IF resume /\ InProgress(s)
               THEN Continue(p, s) /\ UNCHANGED drawn
               ELSE Draw(p, s, resume)
    /\ UNCHANGED Disk

\* A definition that changed, a hook, an iteration, a save or the output failed, the run
\* was cancelled, or its process died: it ends where it stands.
Fail(p) ==
    /\ Running(p) /\ Ends(p)
    /\ UNCHANGED <<Disk, drawn>>

\* Mutant of Enter: the checkpoint's iteration is not read.
EnterFromZero(p) ==
    /\ proc[p].pc = "starting"
    /\ proc' = [proc EXCEPT ![p].pc = "head"]
    /\ UNCHANGED <<Disk, drawn>>

\* LoopRunner.Run loads the checkpoint again, for the iteration.
Enter(p) ==
    LET s == proc[p].session IN
    /\ proc[p].pc = "starting"
    /\ proc' = [proc EXCEPT ![p].pc = "head",
                            ![p].iter = IF proc[p].resume /\ InProgress(s)
                                        THEN ckpt[s].next ELSE 0]
    /\ UNCHANGED <<Disk, drawn>>

-----------------------------------------------------------------------------
(* The loop.                                                               *)

Saves(p, reason, iter) ==
    proc' = [proc EXCEPT ![p].pc = "saving", ![p].then = reason, ![p].iter = iter]

Head(p) ==
    /\ proc[p].pc = "head"
    /\ IF proc[p].iter >= MaxIterations
       THEN Saves(p, "max_iterations", proc[p].iter)
       ELSE Becomes(p, "iterating")
    /\ UNCHANGED <<Disk, drawn>>

\* The effect of the iteration, somewhere in it.
Effect(p) ==
    /\ proc[p].pc = "iterating"
    /\ proc[p].iter \notin mem[proc[p].inst]
    /\ mem' = [mem EXCEPT ![proc[p].inst] = @ \cup {proc[p].iter}]
    /\ UNCHANGED <<proc, ckpt, latest, drawn>>

\* The iteration is over: it broke, it paused, or it came to its end and stop_when says
\* whether the loop has.  A pause saves the iteration it is in.
IterateStopped(p) ==
    /\ proc[p].pc = "iterating"
    /\ \E reason \in {"break", "pause"} : Saves(p, reason, proc[p].iter)
    /\ UNCHANGED <<Disk, drawn>>

Iterated(p) ==
    /\ proc[p].pc = "iterating" /\ proc[p].iter \in mem[proc[p].inst]
    /\ \E reason \in {"stop_when", "none"} : Saves(p, reason, proc[p].iter + 1)
    /\ UNCHANGED <<Disk, drawn>>

\* LoopStore.Save: the checkpoint is renamed into place, then .latest is.
Saved(p) == [next |-> proc[p].iter, reason |-> proc[p].then, inst |-> proc[p].inst]

AfterSave(p) ==
    CASE proc[p].then = "none" -> Becomes(p, "head")
      [] proc[p].then = "pause" -> Ends(p)
      [] OTHER -> Becomes(p, "finishing")

Commit(p) ==
    /\ proc[p].pc = "saving"
    /\ ckpt' = [ckpt EXCEPT ![proc[p].session] = Saved(p)]
    /\ Becomes(p, "pointing")
    /\ UNCHANGED <<latest, mem, drawn>>

\* Mutant of Point: .latest is moved before the checkpoint is there.
PointFirst(p) ==
    /\ proc[p].pc \in {"saving", "pointing"}
    /\ latest' = proc[p].session
    /\ AfterSave(p)
    /\ UNCHANGED <<ckpt, mem, drawn>>

Point(p) ==
    /\ proc[p].pc = "pointing"
    /\ latest' = proc[p].session
    /\ AfterSave(p)
    /\ UNCHANGED <<ckpt, mem, drawn>>

\* persistContextResult, projectVars and session_end of a run that was not paused; a
\* result.json is written, and .latest with it, for a pipeline with a context block.
Finish(p) ==
    /\ proc[p].pc = "finishing"
    /\ latest' \in {latest, proc[p].session}
    /\ Ends(p)
    /\ UNCHANGED <<ckpt, mem, drawn>>

-----------------------------------------------------------------------------
Moves(p) ==
    \/ Enter(p) \/ Head(p) \/ Effect(p) \/ IterateStopped(p) \/ Iterated(p)
    \/ Commit(p) \/ Point(p) \/ Finish(p)

Next == \E p \in Procs : Start(p) \/ Moves(p) \/ Fail(p)

Spec == Init /\ [][Next]_vars

-----------------------------------------------------------------------------
(* Properties.                                                             *)

TypeOK ==
    /\ proc \in [Procs -> ProcRecords]
    /\ ckpt \in [Sessions -> Checkpoints \cup {None}]
    /\ latest \in Sessions \cup {None}
    /\ mem \in [Instance -> SUBSET (0..(MaxIterations - 1))]
    /\ drawn \in 0..MaxInstances

Iterating(p) == proc[p].pc = "iterating"

\* An iteration finds in mem what every iteration before it left there, those of the runs
\* it resumes included.
MemKept ==
    \A p \in Procs : Iterating(p) => 0..(proc[p].iter - 1) \subseteq mem[proc[p].inst]

\* A run carries on where its session's checkpoint says: no iteration that was saved as
\* done is executed again, and none is passed over.
ResumesAtCheckpoint ==
    \A p \in Procs :
        Iterating(p) =>
            LET c == ckpt[proc[p].session] IN
            IF c # None /\ c.inst = proc[p].inst THEN proc[p].iter = c.next
                                                 ELSE proc[p].iter = 0

\* .latest names a session that there is something of to resume, or that has ended.
LatestIsSaved == latest # None => ckpt[latest] # None

\* The progress of an instance is never taken back, and a loop that has stopped for good
\* stays so: only another instance goes on in its session.
ProgressKept ==
    [][\A s \in Sessions :
         (ckpt[s] # None /\ ckpt'[s] # ckpt[s] /\ ckpt'[s].inst = ckpt[s].inst)
            => ckpt'[s].next >= ckpt[s].next /\ ckpt[s].reason \in {"none", "pause"}]_vars
=============================================================================
