-------------------------- MODULE PipelineLoopProofs --------------------------
(***************************************************************************)
(* Theorems about PipelineLoop, for any number of runs, sessions,          *)
(* iterations and instances.                                               *)
(***************************************************************************)
EXTENDS PipelineLoop, TLAPS

USE LoopAssumption

-----------------------------------------------------------------------------
(* The inductive invariant.                                                *)

\* A session is worked on by one process, which has an instance.
Alone ==
    /\ \A p \in Procs : Running(p) => proc[p].session \in Sessions /\ proc[p].inst \in Instance
    /\ \A p, q \in Procs :
          Running(p) /\ Running(q) /\ proc[p].session = proc[q].session => p = q

\* An instance belongs to one session, and has been drawn.
Owned ==
    /\ \A p \in Procs : proc[p].inst <= drawn
    /\ \A s \in Sessions : ckpt[s] # None => ckpt[s].inst <= drawn
    /\ \A s \in Sessions, p \in Procs :
          ckpt[s] # None /\ ckpt[s].inst = proc[p].inst => proc[p].session = s
    /\ \A p, q \in Procs :
          proc[p].inst = proc[q].inst /\ proc[p].inst # 0 => proc[p].session = proc[q].session
    /\ \A s, t \in Sessions :
          ckpt[s] # None /\ ckpt[t] # None /\ ckpt[s].inst = ckpt[t].inst => s = t

\* The checkpoint of the session p works on is of the instance p works on.
Own(p) == ckpt[proc[p].session] # None /\ ckpt[proc[p].session].inst = proc[p].inst

Done(n, i) == \A k \in 0..(n - 1) : k \in mem[i]

\* What a checkpoint says is done has left its effect.
SavedDone == \A s \in Sessions : ckpt[s] # None => Done(ckpt[s].next, ckpt[s].inst)

\* Where each process stands, against its session's checkpoint.
Standing(p) ==
    LET c == ckpt[proc[p].session] IN
    /\ proc[p].pc = "starting" =>
          IF Own(p) THEN proc[p].resume /\ InProgress(proc[p].session)
                    ELSE ~(proc[p].resume /\ InProgress(proc[p].session))
    /\ proc[p].pc \in {"head", "iterating"} =>
          /\ Done(proc[p].iter, proc[p].inst)
          /\ IF Own(p) THEN proc[p].iter = c.next /\ c.reason \in {"none", "pause"}
                       ELSE proc[p].iter = 0
    /\ proc[p].pc = "iterating" => proc[p].iter < MaxIterations
    /\ proc[p].pc = "saving" =>
          /\ Done(proc[p].iter, proc[p].inst)
          /\ Own(p) => proc[p].iter >= c.next /\ c.reason \in {"none", "pause"}
    /\ proc[p].pc = "pointing" => c = Saved(p)
    /\ proc[p].pc = "finishing" => c # None

IInv ==
    /\ TypeOK /\ Alone /\ Owned /\ SavedDone /\ LatestIsSaved
    /\ \A p \in Procs : Running(p) => Standing(p)

-----------------------------------------------------------------------------
(* The records, and what kinds of steps preserve.                          *)

LEMMA Constants ==
    /\ NoProc \in ProcRecords /\ NoProc.pc = "idle" /\ NoProc.inst = 0 /\ NoProc.session = None
    /\ 0 \in Iteration
BY DEF NoProc, ProcRecords, Iteration, Reasons

LEMMA Fields ==
    ASSUME TypeOK, NEW p \in Procs
    PROVE  /\ proc \in [Procs -> ProcRecords] /\ proc[p] \in ProcRecords
           /\ proc[p].session \in Sessions \cup {None} /\ proc[p].resume \in BOOLEAN
           /\ proc[p].iter \in 0..MaxIterations /\ proc[p].inst \in 0..MaxInstances
           /\ proc[p].then \in Reasons
BY DEF TypeOK, ProcRecords, Iteration

LEMMA CheckpointFields ==
    ASSUME TypeOK, NEW s \in Sessions, ckpt[s] # None
    PROVE  /\ ckpt[s] \in Checkpoints /\ ckpt[s].next \in 0..MaxIterations
           /\ ckpt[s].inst \in Instance /\ ckpt[s].reason \in Reasons
BY DEF TypeOK, Checkpoints, Iteration

\* All there is to know of a process that runs, and of its session's checkpoint.
LEMMA Stands ==
    ASSUME IInv, NEW p \in Procs, Running(p)
    PROVE  /\ TypeOK /\ Standing(p)
           /\ proc[p].session \in Sessions /\ proc[p].inst \in Instance
           /\ proc[p].iter \in Iteration /\ proc[p].iter \in Nat
           /\ proc[p].iter <= MaxIterations
           /\ ckpt[proc[p].session] # None =>
                 /\ ckpt[proc[p].session] \in Checkpoints
                 /\ ckpt[proc[p].session].next \in Nat
<1>1. TypeOK /\ Standing(p) /\ proc[p].session \in Sessions /\ proc[p].inst \in Instance
  BY DEF IInv, Alone
<1> QED
  BY <1>1, Fields, CheckpointFields DEF Iteration

LEMMA EndsType ==
    ASSUME TypeOK, NEW p \in Procs, Ends(p)
    PROVE  \E new \in ProcRecords :
              /\ proc' = [proc EXCEPT ![p] = new]
              /\ new.session = proc[p].session /\ new.inst = proc[p].inst /\ new.pc = "over"
<1> DEFINE new == [NoProc EXCEPT !.pc = "over", !.session = proc[p].session,
                                 !.inst = proc[p].inst]
<1>1. proc' = [proc EXCEPT ![p] = new]
  BY DEF Ends
<1>2. /\ new \in ProcRecords
      /\ new.session = proc[p].session /\ new.inst = proc[p].inst /\ new.pc = "over"
  BY Fields, Constants DEF ProcRecords, NoProc, Reasons
<1> QED
  BY <1>1, <1>2

LEMMA BecomesType ==
    ASSUME TypeOK, NEW p \in Procs, NEW pc \in {"head", "iterating", "pointing", "finishing"},
           Becomes(p, pc)
    PROVE  \E new \in ProcRecords :
              /\ proc' = [proc EXCEPT ![p] = new]
              /\ new.session = proc[p].session /\ new.inst = proc[p].inst
              /\ new.iter = proc[p].iter /\ new.resume = proc[p].resume
              /\ new.then = proc[p].then /\ new.pc = pc
<1> DEFINE new == [proc[p] EXCEPT !.pc = pc]
<1>1. proc' = [proc EXCEPT ![p] = new]
  BY DEF Becomes
<1>2. /\ new \in ProcRecords
      /\ new.session = proc[p].session /\ new.inst = proc[p].inst
      /\ new.iter = proc[p].iter /\ new.resume = proc[p].resume
      /\ new.then = proc[p].then /\ new.pc = pc
  BY Fields DEF ProcRecords
<1> QED
  BY <1>1, <1>2

LEMMA SavesType ==
    ASSUME TypeOK, NEW p \in Procs, NEW reason \in Reasons, NEW iter \in Iteration,
           Saves(p, reason, iter)
    PROVE  \E new \in ProcRecords :
              /\ proc' = [proc EXCEPT ![p] = new]
              /\ new.session = proc[p].session /\ new.inst = proc[p].inst
              /\ new.iter = iter /\ new.then = reason /\ new.pc = "saving"
<1> DEFINE new == [proc[p] EXCEPT !.pc = "saving", !.then = reason, !.iter = iter]
<1>1. proc' = [proc EXCEPT ![p] = new]
  BY DEF Saves
<1>2. /\ new \in ProcRecords
      /\ new.session = proc[p].session /\ new.inst = proc[p].inst
      /\ new.iter = iter /\ new.then = reason /\ new.pc = "saving"
  BY Fields DEF ProcRecords
<1> QED
  BY <1>1, <1>2

\* A process that moves on in its session, and at most has .latest point at it.
LEMMA MovesOn ==
    ASSUME IInv, NEW p \in Procs, Running(p), NEW new \in ProcRecords,
           proc' = [proc EXCEPT ![p] = new],
           new.session = proc[p].session, new.inst = proc[p].inst,
           ckpt' = ckpt, mem' = mem, drawn' = drawn,
           \/ latest' = latest
           \/ latest' = proc[p].session /\ ckpt[proc[p].session] # None,
           new.pc \notin {"idle", "over"} => Standing(p)'
    PROVE  IInv'
<1>1. /\ proc \in [Procs -> ProcRecords] /\ proc'[p] = new
      /\ \A q \in Procs \ {p} : proc'[q] = proc[q]
      /\ \A q \in Procs : proc'[q].session = proc[q].session /\ proc'[q].inst = proc[q].inst
      /\ \A q \in Procs : Running(q)' => Running(q)
  BY DEF IInv, TypeOK, Running
<1>2. proc[p].session \in Sessions
  BY DEF IInv, Alone
<1>3. TypeOK'
  BY <1>1, <1>2 DEF IInv, TypeOK
<1>4. Alone'
  BY <1>1 DEF IInv, Alone
<1>5. Owned'
  BY <1>1 DEF IInv, Owned
<1>6. SavedDone'
  BY DEF IInv, SavedDone, Done
<1>7. LatestIsSaved'
  BY DEF IInv, LatestIsSaved
<1>8. ASSUME NEW q \in Procs \ {p}, Running(q)'
      PROVE  Standing(q)'
  <2>1. proc'[q] = proc[q] /\ Standing(q)
    BY <1>1, <1>8 DEF IInv
  <2> QED
    BY <2>1 DEF Standing, Own, InProgress, Done, Saved
<1>9. Running(p)' => Standing(p)'
  BY <1>1 DEF Running
<1> QED
  BY <1>3, <1>4, <1>5, <1>6, <1>7, <1>8, <1>9 DEF IInv

-----------------------------------------------------------------------------
(* Every kind of step preserves the invariant.                             *)

LEMMA InitInvariant == Init => IInv
<1> SUFFICES ASSUME Init PROVE IInv
  OBVIOUS
<1>1. TypeOK
  BY Constants DEF Init, TypeOK
<1>2. Alone /\ Owned /\ \A p \in Procs : ~Running(p)
  BY Constants DEF Init, Alone, Owned, Running
<1>3. SavedDone /\ LatestIsSaved
  BY DEF Init, SavedDone, LatestIsSaved
<1> QED
  BY <1>1, <1>2, <1>3 DEF IInv

LEMMA FailKeeps ==
    ASSUME IInv, NEW p \in Procs, Fail(p)
    PROVE  IInv'
<1>1. TypeOK /\ Running(p) /\ Ends(p)
  BY DEF IInv, Fail
<1>2. PICK new \in ProcRecords :
         /\ proc' = [proc EXCEPT ![p] = new]
         /\ new.session = proc[p].session /\ new.inst = proc[p].inst /\ new.pc = "over"
  BY <1>1, EndsType
<1>3. ckpt' = ckpt /\ mem' = mem /\ drawn' = drawn /\ latest' = latest
  BY DEF Fail, Disk
<1> QED
  BY <1>1, <1>2, <1>3, MovesOn

LEMMA EnterKeeps ==
    ASSUME IInv, NEW p \in Procs, Enter(p)
    PROVE  IInv'
<1> DEFINE s == proc[p].session
           iter == IF proc[p].resume /\ InProgress(s) THEN ckpt[s].next ELSE 0
           new == [proc[p] EXCEPT !.pc = "head", !.iter = iter]
<1>1. TypeOK /\ Running(p) /\ Standing(p) /\ s \in Sessions
  BY DEF IInv, Enter, Running, Alone
<1>2. iter \in Iteration
  BY <1>1, CheckpointFields, Constants DEF InProgress, Iteration
<1>3. proc' = [proc EXCEPT ![p] = new]
  BY <1>1, Fields DEF Enter
<1>4. /\ new \in ProcRecords /\ new.session = s /\ new.inst = proc[p].inst
      /\ new.pc = "head" /\ new.iter = iter
  BY <1>1, <1>2, Fields DEF ProcRecords
<1>5. ckpt' = ckpt /\ mem' = mem /\ drawn' = drawn /\ latest' = latest
  BY DEF Enter, Disk
<1> HIDE DEF new
<1>6. proc'[p] = new
  BY <1>1, <1>3, Fields
<1>7. /\ Own(p)' = Own(p)
      /\ Own(p) <=> proc[p].resume /\ InProgress(s)
  BY <1>1, <1>4, <1>5, <1>6 DEF Own, Standing, Enter
<1>8. Done(iter, proc[p].inst)
  BY <1>1, <1>7 DEF IInv, SavedDone, Own, Done
<1>9. Standing(p)'
  BY <1>1, <1>4, <1>5, <1>6, <1>7, <1>8 DEF Standing, InProgress, Done, Own
<1> QED
  BY <1>1, <1>3, <1>4, <1>5, <1>9, MovesOn

LEMMA HeadKeeps ==
    ASSUME IInv, NEW p \in Procs, Head(p)
    PROVE  IInv'
<1>0. Running(p)
  BY DEF Head, Running
<1>1. /\ TypeOK /\ Standing(p) /\ proc[p].session \in Sessions
      /\ proc[p].iter \in Iteration /\ proc[p].iter \in Nat
      /\ ckpt[proc[p].session] # None => ckpt[proc[p].session].next \in Nat
  BY <1>0, Stands
<1>2. ckpt' = ckpt /\ mem' = mem /\ drawn' = drawn /\ latest' = latest
  BY DEF Head, Disk
<1>3. CASE proc[p].iter >= MaxIterations
  <2>1. Saves(p, "max_iterations", proc[p].iter)
    BY <1>3 DEF Head
  <2>2. PICK new \in ProcRecords :
           /\ proc' = [proc EXCEPT ![p] = new]
           /\ new.session = proc[p].session /\ new.inst = proc[p].inst
           /\ new.iter = proc[p].iter /\ new.then = "max_iterations" /\ new.pc = "saving"
    <3>1. "max_iterations" \in Reasons
      BY DEF Reasons
    <3> QED
      BY <1>1, <2>1, <3>1, SavesType
  <2>3. proc'[p] = new
    BY <1>1, <2>2, Fields
  <2>4. Standing(p)'
    BY <1>1, <1>2, <2>2, <2>3 DEF Head, Standing, Own, Done
  <2> QED
    BY <1>0, <1>1, <1>2, <2>2, <2>4, MovesOn
<1>4. CASE ~(proc[p].iter >= MaxIterations)
  <2>1. Becomes(p, "iterating")
    BY <1>4 DEF Head
  <2>2. PICK new \in ProcRecords :
           /\ proc' = [proc EXCEPT ![p] = new]
           /\ new.session = proc[p].session /\ new.inst = proc[p].inst
           /\ new.iter = proc[p].iter /\ new.pc = "iterating"
    BY <1>1, <2>1, BecomesType
  <2>3. proc'[p] = new
    BY <1>1, <2>2, Fields
  <2>4. Standing(p)'
    BY <1>1, <1>2, <1>4, <2>2, <2>3 DEF Head, Standing, Own, Done
  <2> QED
    BY <1>0, <1>1, <1>2, <2>2, <2>4, MovesOn
<1> QED
  BY <1>3, <1>4

\* More in mem undoes nothing that is done.
LEMMA EffectKeeps ==
    ASSUME IInv, NEW p \in Procs, Effect(p)
    PROVE  IInv'
<1>1. /\ TypeOK /\ Running(p) /\ Standing(p) /\ proc[p].inst \in Instance
      /\ proc[p].iter \in 0..(MaxIterations - 1)
  <2>1. Running(p) /\ proc[p].pc = "iterating"
    BY DEF Effect, Running
  <2>2. proc[p].iter < MaxIterations /\ proc[p].iter \in Nat
    BY <2>1, Stands DEF Standing
  <2> QED
    BY <2>1, <2>2, Stands
<1>2. /\ \A i \in Instance : mem[i] \subseteq mem'[i]
      /\ mem' \in [Instance -> SUBSET (0..(MaxIterations - 1))]
  BY <1>1 DEF TypeOK, Effect
<1>3. TypeOK'
  BY <1>1, <1>2 DEF TypeOK, Effect
<1>4. (Alone /\ Owned /\ LatestIsSaved)'
  BY DEF IInv, Effect, Alone, Running, Owned, LatestIsSaved
<1>5. ASSUME NEW i \in Instance, NEW n \in Iteration, Done(n, i)
      PROVE  Done(n, i)'
  BY <1>2, <1>5 DEF Done
<1>6. SavedDone'
  BY <1>1, <1>5, CheckpointFields DEF IInv, SavedDone, Effect, Iteration
<1>7. ASSUME NEW q \in Procs, Running(q)'
      PROVE  Standing(q)'
  <2>1. Running(q) /\ Standing(q) /\ proc[q].inst \in Instance /\ proc[q].iter \in Iteration
    BY <1>1, <1>7, Fields DEF IInv, Alone, Running, Effect, Iteration
  <2>2. Done(proc[q].iter, proc[q].inst) => Done(proc[q].iter, proc[q].inst)'
    BY <1>5, <2>1 DEF Effect
  <2> QED
    BY <2>1, <2>2 DEF Effect, Standing, Own, InProgress, Saved
<1> QED
  BY <1>3, <1>4, <1>6, <1>7 DEF IInv

LEMMA IterateStoppedKeeps ==
    ASSUME IInv, NEW p \in Procs, IterateStopped(p)
    PROVE  IInv'
<1>0. Running(p) /\ proc[p].pc = "iterating"
  BY DEF IterateStopped, Running
<1>1. /\ TypeOK /\ Standing(p) /\ proc[p].session \in Sessions
      /\ proc[p].iter \in Iteration /\ proc[p].iter \in Nat
      /\ proc[p].iter < MaxIterations
      /\ ckpt[proc[p].session] # None => ckpt[proc[p].session].next \in Nat
  BY <1>0, Stands DEF Standing
<1>2. ckpt' = ckpt /\ mem' = mem /\ drawn' = drawn /\ latest' = latest
  BY DEF IterateStopped, Disk
<1>3. PICK reason \in {"break", "pause"} : Saves(p, reason, proc[p].iter)
  BY DEF IterateStopped
<1>4. PICK new \in ProcRecords :
         /\ proc' = [proc EXCEPT ![p] = new]
         /\ new.session = proc[p].session /\ new.inst = proc[p].inst
         /\ new.iter = proc[p].iter /\ new.then = reason /\ new.pc = "saving"
  <2>1. reason \in Reasons
    BY DEF Reasons
  <2> QED
    BY <1>1, <1>3, <2>1, SavesType
<1>5. proc'[p] = new
  BY <1>1, <1>4, Fields
<1>6. Standing(p)'
  BY <1>0, <1>1, <1>2, <1>4, <1>5 DEF Standing, Own, Done
<1> QED
  BY <1>0, <1>1, <1>2, <1>4, <1>6, MovesOn

LEMMA IteratedKeeps ==
    ASSUME IInv, NEW p \in Procs, Iterated(p)
    PROVE  IInv'
<1>0. Running(p) /\ proc[p].pc = "iterating"
  BY DEF Iterated, Running
<1>1. /\ TypeOK /\ Standing(p) /\ proc[p].session \in Sessions
      /\ proc[p].iter \in Iteration /\ proc[p].iter \in Nat
      /\ proc[p].iter < MaxIterations
      /\ ckpt[proc[p].session] # None => ckpt[proc[p].session].next \in Nat
  BY <1>0, Stands DEF Standing
<1>2. ckpt' = ckpt /\ mem' = mem /\ drawn' = drawn /\ latest' = latest
  BY DEF Iterated, Disk
<1>3. PICK reason \in {"stop_when", "none"} : Saves(p, reason, proc[p].iter + 1)
  BY DEF Iterated
<1>4. proc[p].iter + 1 \in Iteration /\ proc[p].iter \in Nat
  BY <1>1 DEF Iteration
<1>5. PICK new \in ProcRecords :
         /\ proc' = [proc EXCEPT ![p] = new]
         /\ new.session = proc[p].session /\ new.inst = proc[p].inst
         /\ new.iter = proc[p].iter + 1 /\ new.then = reason /\ new.pc = "saving"
  <2>1. reason \in Reasons
    BY DEF Reasons
  <2> QED
    BY <1>1, <1>3, <1>4, <2>1, SavesType
<1>6. proc'[p] = new
  BY <1>1, <1>5, Fields
<1>7. Done(proc[p].iter + 1, proc[p].inst)
  <2>1. Done(proc[p].iter, proc[p].inst) /\ proc[p].iter \in mem[proc[p].inst]
    BY <1>0, <1>1 DEF Iterated, Standing
  <2> QED
    BY <1>1, <2>1 DEF Done
<1>8. Standing(p)'
  BY <1>0, <1>1, <1>2, <1>4, <1>5, <1>6, <1>7 DEF Standing, Own, Done
<1> QED
  BY <1>0, <1>1, <1>2, <1>5, <1>8, MovesOn

LEMMA AfterSaveType ==
    ASSUME TypeOK, NEW p \in Procs, AfterSave(p)
    PROVE  \E new \in ProcRecords :
              /\ proc' = [proc EXCEPT ![p] = new]
              /\ new.session = proc[p].session /\ new.inst = proc[p].inst
              /\ \/ new.pc = "over"
                 \/ new.pc = "finishing"
                 \/ new.pc = "head" /\ new.iter = proc[p].iter /\ proc[p].then = "none"
<1>1. CASE proc[p].then = "none"
  BY <1>1, BecomesType DEF AfterSave
<1>2. CASE proc[p].then = "pause"
  BY <1>2, EndsType DEF AfterSave
<1>3. CASE proc[p].then \notin {"none", "pause"}
  <2>1. Becomes(p, "finishing")
    BY <1>3 DEF AfterSave
  <2> QED
    BY <2>1, BecomesType
<1> QED
  BY <1>1, <1>2, <1>3

LEMMA PointKeeps ==
    ASSUME IInv, NEW p \in Procs, Point(p)
    PROVE  IInv'
<1>0. Running(p) /\ proc[p].pc = "pointing"
  BY DEF Point, Running
<1>1. /\ TypeOK /\ proc[p].session \in Sessions
      /\ ckpt[proc[p].session] # None
      /\ ckpt[proc[p].session].next = proc[p].iter /\ ckpt[proc[p].session].inst = proc[p].inst
      /\ ckpt[proc[p].session].reason = proc[p].then
  <2>1. TypeOK /\ ckpt[proc[p].session] = Saved(p) /\ proc[p].session \in Sessions
    BY <1>0, Stands DEF Standing
  <2>2. Saved(p) \in Checkpoints
    BY <1>0, Stands, Fields DEF Saved, Checkpoints
  <2> QED
    BY <2>1, <2>2 DEF Saved
<1>2. ckpt' = ckpt /\ mem' = mem /\ drawn' = drawn /\ latest' = proc[p].session
  BY DEF Point
<1>3. PICK new \in ProcRecords :
         /\ proc' = [proc EXCEPT ![p] = new]
         /\ new.session = proc[p].session /\ new.inst = proc[p].inst
         /\ \/ new.pc = "over"
            \/ new.pc = "finishing"
            \/ new.pc = "head" /\ new.iter = proc[p].iter /\ proc[p].then = "none"
  BY <1>1, AfterSaveType DEF Point
<1>4. proc'[p] = new
  BY <1>1, <1>3, Fields
<1>5. Done(proc[p].iter, proc[p].inst)
  BY <1>1 DEF IInv, SavedDone
<1>6. new.pc \notin {"idle", "over"} => Standing(p)'
  BY <1>1, <1>2, <1>3, <1>4, <1>5 DEF Standing, Own, Done
<1> QED
  BY <1>0, <1>1, <1>2, <1>3, <1>6, MovesOn

LEMMA FinishKeeps ==
    ASSUME IInv, NEW p \in Procs, Finish(p)
    PROVE  IInv'
<1>1. TypeOK /\ Running(p) /\ Ends(p) /\ ckpt[proc[p].session] # None
  BY DEF IInv, Finish, Running, Standing
<1>2. PICK new \in ProcRecords :
         /\ proc' = [proc EXCEPT ![p] = new]
         /\ new.session = proc[p].session /\ new.inst = proc[p].inst /\ new.pc = "over"
  BY <1>1, EndsType
<1>3. ckpt' = ckpt /\ mem' = mem /\ drawn' = drawn /\ latest' \in {latest, proc[p].session}
  BY DEF Finish
<1> QED
  BY <1>1, <1>2, <1>3, MovesOn

\* The checkpoint of p's session becomes one of p's instance; no other session, and no
\* process of another session, has to do with that instance.
LEMMA CommitKeeps ==
    ASSUME IInv, NEW p \in Procs, Commit(p)
    PROVE  IInv'
<1> DEFINE s == proc[p].session
<1>0. Running(p) /\ proc[p].pc = "saving"
  BY DEF Commit, Running
<1>1. /\ TypeOK /\ s \in Sessions /\ proc[p].inst \in Instance /\ proc[p].inst # 0
      /\ Done(proc[p].iter, proc[p].inst)
      /\ Saved(p) \in Checkpoints /\ Saved(p) # None
      /\ Saved(p).inst = proc[p].inst /\ Saved(p).next = proc[p].iter
  <2>1. Saved(p) \in Checkpoints
    BY <1>0, Stands, Fields DEF Saved, Checkpoints
  <2> QED
    BY <1>0, <2>1, Stands DEF Standing, Saved, Instance
<1>2. /\ latest' = latest /\ mem' = mem /\ drawn' = drawn
      /\ ckpt' = [ckpt EXCEPT ![s] = Saved(p)]
  BY DEF Commit
<1>3. PICK new \in ProcRecords :
         /\ proc' = [proc EXCEPT ![p] = new]
         /\ new.session = proc[p].session /\ new.inst = proc[p].inst
         /\ new.iter = proc[p].iter /\ new.then = proc[p].then /\ new.pc = "pointing"
  BY <1>1, BecomesType DEF Commit
<1>4. /\ proc'[p] = new /\ proc \in [Procs -> ProcRecords]
      /\ \A q \in Procs \ {p} : proc'[q] = proc[q]
      /\ \A q \in Procs : proc'[q].session = proc[q].session /\ proc'[q].inst = proc[q].inst
      /\ \A q \in Procs : Running(q)' => Running(q)
  BY <1>0, <1>1, <1>3, Fields DEF Running
<1>5. /\ ckpt'[s] = Saved(p)
      /\ \A t \in Sessions \ {s} : ckpt'[t] = ckpt[t]
  BY <1>1, <1>2 DEF TypeOK
<1> HIDE DEF s
<1>6. TypeOK'
  BY <1>1, <1>2, <1>3 DEF TypeOK
<1>7. Alone'
  BY <1>4 DEF IInv, Alone
<1>8. Owned'
  BY <1>1, <1>2, <1>4, <1>5 DEF IInv, Owned, s
<1>9. SavedDone'
  BY <1>1, <1>2, <1>5 DEF IInv, SavedDone, Done
<1>10. LatestIsSaved'
  BY <1>1, <1>2, <1>5 DEF IInv, LatestIsSaved, TypeOK
<1>11. ASSUME NEW q \in Procs, Running(q)'
       PROVE  Standing(q)'
  <2>1. CASE q = p
    BY <1>3, <1>4, <1>5, <2>1 DEF Standing, Saved, s
  <2>2. CASE q # p
    <3>1. /\ proc'[q] = proc[q] /\ Standing(q)
          /\ proc[q].session \in Sessions \ {s}
      BY <1>0, <1>4, <1>11, <2>2 DEF IInv, Alone, s
    <3>2. ckpt'[proc[q].session] = ckpt[proc[q].session]
      BY <1>5, <3>1
    <3> QED
      BY <1>2, <3>1, <3>2 DEF Standing, Own, InProgress, Done, Saved
  <2> QED
    BY <2>1, <2>2
<1> QED
  BY <1>6, <1>7, <1>8, <1>9, <1>10, <1>11 DEF IInv

\* A run that sets out on session s, with the instance of its checkpoint or a new one.
LEMMA SetsOutKeeps ==
    ASSUME IInv, NEW p \in Procs, NEW new \in ProcRecords,
           proc' = [proc EXCEPT ![p] = new],
           new.session \in Sessions, ~InUse(new.session), new.pc = "starting", new.inst \in Instance,
           ckpt' = ckpt, latest' = latest, mem' = mem,
           drawn' \in drawn..MaxInstances, new.inst <= drawn',
           \A t \in Sessions : ckpt[t] # None /\ ckpt[t].inst = new.inst => t = new.session,
           \A q \in Procs \ {p} : proc[q].inst = new.inst => proc[q].session = new.session,
           ckpt[new.session] # None /\ ckpt[new.session].inst = new.inst
             <=> new.resume = TRUE /\ InProgress(new.session)
    PROVE  IInv'
<1>1. /\ proc \in [Procs -> ProcRecords] /\ drawn \in Nat /\ proc'[p] = new
      /\ \A q \in Procs \ {p} : proc'[q] = proc[q]
      /\ \A q \in Procs \ {p} : Running(q)' = Running(q)
      /\ \A q \in Procs : proc[q].inst \in Nat
      /\ \A t \in Sessions : ckpt[t] # None => ckpt[t].inst \in Nat
  BY Fields, CheckpointFields DEF IInv, TypeOK, Running, Instance
<1>2. TypeOK'
  BY <1>1 DEF IInv, TypeOK
<1>3. Alone'
  BY <1>1 DEF IInv, Alone, InUse, Running
<1>4. Owned'
  BY <1>1 DEF IInv, Owned
<1>5. SavedDone' /\ LatestIsSaved'
  BY DEF IInv, SavedDone, LatestIsSaved, Done
<1>6. ASSUME NEW q \in Procs, Running(q)'
      PROVE  Standing(q)'
  <2>1. CASE q = p
    BY <1>1, <2>1 DEF Standing, Own, InProgress
  <2>2. CASE q # p
    <3>1. proc'[q] = proc[q] /\ Standing(q)
      BY <1>1, <1>6, <2>2 DEF IInv
    <3> QED
      BY <3>1 DEF Standing, Own, InProgress, Done, Saved
  <2> QED
    BY <2>1, <2>2
<1> QED
  BY <1>2, <1>3, <1>4, <1>5, <1>6 DEF IInv

LEMMA StartKeeps ==
    ASSUME IInv, NEW p \in Procs, Start(p)
    PROVE  IInv'
<1>1. PICK resume \in BOOLEAN : \E s \in Targets(resume) :
         /\ ~InUse(s)
         /\ IF resume /\ InProgress(s)
            THEN Continue(p, s) /\ UNCHANGED drawn
            ELSE Draw(p, s, resume)
  BY DEF Start
<1>2. PICK s \in Targets(resume) :
         /\ ~InUse(s)
         /\ IF resume /\ InProgress(s)
            THEN Continue(p, s) /\ UNCHANGED drawn
            ELSE Draw(p, s, resume)
  BY <1>1
<1>3. TypeOK /\ s \in Sessions /\ drawn \in 0..MaxInstances
  BY DEF IInv, TypeOK, Targets
<1>4. ckpt' = ckpt /\ latest' = latest /\ mem' = mem
  BY DEF Start, Disk
<1>5. CASE resume /\ InProgress(s)
  <2> DEFINE new == SetsOut(s, TRUE, ckpt[s].inst)
  <2>1. /\ ckpt[s] # None /\ ckpt[s].inst \in Instance /\ ckpt[s].inst <= drawn
        /\ ckpt[s].inst # 0
    BY <1>3, <1>5, CheckpointFields DEF InProgress, IInv, Owned, Instance
  <2>2. proc' = [proc EXCEPT ![p] = new] /\ drawn' = drawn
    BY <1>2, <1>5 DEF Continue
  <2>3. /\ new \in ProcRecords /\ new.session = s /\ new.pc = "starting"
        /\ new.resume = TRUE /\ new.inst = ckpt[s].inst
    BY <1>3, <2>1 DEF SetsOut, ProcRecords, Instance, Reasons, Iteration
  <2> HIDE DEF new
  <2>4. \A t \in Sessions : ckpt[t] # None /\ ckpt[t].inst = ckpt[s].inst => t = s
    BY <1>3, <2>1 DEF IInv, Owned
  <2>5. \A q \in Procs : proc[q].inst = ckpt[s].inst => proc[q].session = s
    BY <1>3, <2>1 DEF IInv, Owned
  <2>6. drawn' \in drawn..MaxInstances
    BY <1>3, <2>2
  <2> QED
    <3>1. new.inst \in Instance /\ new.inst <= drawn'
      BY <2>1, <2>2, <2>3
    <3>2. /\ ckpt[new.session] # None /\ ckpt[new.session].inst = new.inst
          /\ new.resume = TRUE /\ InProgress(new.session) /\ ~InUse(new.session)
      BY <1>2, <1>5, <2>1, <2>3
    <3>3. /\ \A t \in Sessions : ckpt[t] # None /\ ckpt[t].inst = new.inst => t = new.session
          /\ \A q \in Procs \ {p} : proc[q].inst = new.inst => proc[q].session = new.session
      BY <2>3, <2>4, <2>5
    <3>4. (ckpt[new.session] # None /\ ckpt[new.session].inst = new.inst)
             <=> (new.resume = TRUE /\ InProgress(new.session))
      BY <3>2
    <3>5. proc' = [proc EXCEPT ![p] = new] /\ drawn' \in drawn..MaxInstances
      BY <2>2, <2>6
    <3>6. /\ new \in ProcRecords /\ new.session \in Sessions /\ ~InUse(new.session)
          /\ new.pc = "starting" /\ new.inst \in Instance /\ new.inst <= drawn'
      BY <1>3, <2>3, <3>1, <3>2
    <3> QED
      BY <1>4, <3>3, <3>4, <3>5, <3>6, SetsOutKeeps, ZenonT(60)
<1>6. CASE ~(resume /\ InProgress(s))
  <2> DEFINE new == SetsOut(s, resume, drawn + 1)
  <2>1. /\ proc' = [proc EXCEPT ![p] = new]
        /\ drawn < MaxInstances /\ drawn' = drawn + 1
    BY <1>2, <1>6 DEF Draw
  <2>2. drawn + 1 \in Instance /\ drawn' \in drawn..MaxInstances /\ drawn \in Nat
    BY <1>3, <2>1 DEF Instance
  <2>3. /\ new \in ProcRecords /\ new.session = s /\ new.pc = "starting"
        /\ new.resume = resume /\ new.inst = drawn + 1
    BY <1>3, <2>2 DEF SetsOut, ProcRecords, Instance, Reasons, Iteration
  <2> HIDE DEF new
  <2>4. \A t \in Sessions : ckpt[t] # None => ckpt[t].inst # drawn + 1
    BY <1>3, <2>2, CheckpointFields DEF IInv, Owned, Instance
  <2>5. \A q \in Procs : proc[q].inst # drawn + 1
    BY <1>3, <2>2, Fields DEF IInv, Owned
  <2>6. new.inst <= drawn'
    BY <2>1, <2>2, <2>3
  <2> QED
    <3>1. /\ new.inst \in Instance
          /\ ~(ckpt[new.session] # None /\ ckpt[new.session].inst = new.inst)
          /\ ~(new.resume = TRUE /\ InProgress(new.session)) /\ ~InUse(new.session)
      BY <1>2, <1>3, <1>6, <2>2, <2>3, <2>4
    <3>2. /\ \A t \in Sessions : ckpt[t] # None /\ ckpt[t].inst = new.inst => t = new.session
          /\ \A q \in Procs \ {p} : proc[q].inst = new.inst => proc[q].session = new.session
      BY <2>3, <2>4, <2>5
    <3>3. (ckpt[new.session] # None /\ ckpt[new.session].inst = new.inst)
             <=> (new.resume = TRUE /\ InProgress(new.session))
      BY <3>1
    <3>4. proc' = [proc EXCEPT ![p] = new] /\ drawn' \in drawn..MaxInstances
      BY <2>1, <2>2
    <3>5. /\ new \in ProcRecords /\ new.session \in Sessions /\ ~InUse(new.session)
          /\ new.pc = "starting" /\ new.inst \in Instance
      BY <1>3, <2>3, <3>1
    <3> QED
      BY <1>4, <2>6, <3>2, <3>3, <3>4, <3>5, SetsOutKeeps, ZenonT(60)
<1> QED
  BY <1>5, <1>6

LEMMA NextKeeps == IInv /\ [Next]_vars => IInv'
<1> SUFFICES ASSUME IInv, [Next]_vars PROVE IInv'
  OBVIOUS
<1>1. CASE \E p \in Procs : Start(p) \/ Moves(p) \/ Fail(p)
  BY <1>1, StartKeeps, FailKeeps, EnterKeeps, HeadKeeps, EffectKeeps, IterateStoppedKeeps,
     IteratedKeeps, CommitKeeps, PointKeeps, FinishKeeps DEF Moves
<1>2. CASE UNCHANGED vars
  BY <1>2 DEF vars, IInv, TypeOK, Alone, Owned, SavedDone, LatestIsSaved, Standing, Own, Done,
              InProgress, Running, Saved
<1> QED
  BY <1>1, <1>2 DEF Next

-----------------------------------------------------------------------------
(* The theorems.                                                           *)

\* The inductive invariant of the specification.
THEOREM LoopInvariant == Spec => []IInv
BY InitInvariant, NextKeeps, PTL DEF Spec

\* For any number of runs, sessions and iterations every variable keeps its type: no
\* iteration past max_iterations leaves an effect (LoopRunner.Run).
THEOREM LoopTypeCorrect == Spec => []TypeOK
<1>1. IInv => TypeOK
  BY DEF IInv
<1> QED
  BY <1>1, LoopInvariant, PTL

\* Whichever runs die and whichever are resumed, an iteration finds the effects of those
\* before it (ResolveInstanceID's instance and memContextFor's file).
THEOREM MemIsKept == Spec => []MemKept
<1>1. IInv => MemKept
  BY Fields DEF IInv, Running, Iterating, Standing, Done, MemKept
<1> QED
  BY <1>1, LoopInvariant, PTL

\* An iteration is the one that the session's checkpoint has next, or the first
\* (LoopRunner.Run and saveLoop).
THEOREM CarriesOn == Spec => []ResumesAtCheckpoint
<1>1. IInv => ResumesAtCheckpoint
  BY DEF IInv, Running, Iterating, Standing, Own, ResumesAtCheckpoint
<1> QED
  BY <1>1, LoopInvariant, PTL

\* .latest is only ever moved to a session with a checkpoint (writeLatest's callers).
THEOREM LatestHasCheckpoint == Spec => []LatestIsSaved
<1>1. IInv => LatestIsSaved
  BY DEF IInv
<1> QED
  BY <1>1, LoopInvariant, PTL

\* No save of an instance takes its progress back or follows its end (LoopStore.Save).
THEOREM ProgressStays == Spec => ProgressKept
<1>1. ASSUME IInv, [Next]_vars
      PROVE  [\A s \in Sessions :
                 (ckpt[s] # None /\ ckpt'[s] # ckpt[s] /\ ckpt'[s].inst = ckpt[s].inst)
                    => ckpt'[s].next >= ckpt[s].next /\ ckpt[s].reason \in {"none", "pause"}]_vars
  <2> SUFFICES ASSUME NEW s \in Sessions, ckpt[s] # None, ckpt'[s] # ckpt[s],
                      ckpt'[s].inst = ckpt[s].inst
               PROVE  ckpt'[s].next >= ckpt[s].next /\ ckpt[s].reason \in {"none", "pause"}
    OBVIOUS
  <2>1. PICK p \in Procs : Commit(p)
    BY <1>1 DEF Next, Moves, vars, Disk, Start, Fail, Enter, Head, Effect, IterateStopped,
                Iterated, Point, Finish
  <2>2. Running(p) /\ proc[p].pc = "saving" /\ ckpt' = [ckpt EXCEPT ![proc[p].session] = Saved(p)]
    BY <2>1 DEF Commit, Running
  <2>3. proc[p].session = s /\ ckpt'[s] = Saved(p) /\ Standing(p)
    BY <1>1, <2>2, Stands DEF IInv, TypeOK
  <2> QED
    BY <2>2, <2>3 DEF Standing, Own, Saved
<1> QED
  BY <1>1, LoopInvariant, PTL DEF Spec, ProgressKept
=============================================================================
