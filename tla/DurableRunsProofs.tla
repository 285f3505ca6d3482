-------------------------- MODULE DurableRunsProofs --------------------------
(***************************************************************************)
(* Theorems about DurableRuns, for any number of replicas, asyncRuns,      *)
(* requests and faults.                                                    *)
(***************************************************************************)
EXTENDS DurableRuns, TLAPS

USE DurableAssumption

-----------------------------------------------------------------------------
(* The inductive invariant.                                                *)

\* An asyncRun belongs to the replica that has it registered or is launching it,
\* so no two replicas share one; a request in progress is about an asyncRun.
Tied ==
    /\ \A r \in Replica :
          /\ registry[r] \in Object => object[registry[r]].at = r
          /\ claimer[r].on \in Object => object[claimer[r].on].at = r
          /\ claimer[r].at \in {"launch", "publish"} => claimer[r].on \in Object
    /\ call.todo # "none" => call.on \in Object

\* A goroutine, or a launch about to create one, leaves a local asyncRun in a state
\* that runForClaimed does not reuse.
Started ==
    /\ \A o \in Object :
          object[o].pc # "idle" /\ ~object[o].remote => object[o].state \notin PreExecution
    /\ \A r \in Replica :
          claimer[r].at = "publish" /\ ~object[claimer[r].on].remote
             => object[claimer[r].on].state \notin PreExecution

\* Between the two halves of a launch for a client nobody else launches the asyncRun.
Resuming ==
    call.todo = "launch" =>
       /\ object[call.on].state = "working" /\ object[call.on].pc = "idle"
       /\ \A r \in Replica : claimer[r].on # call.on

\* What is about to be swapped to claimed is still pending.
Reading == \A r \in Replica : claimer[r].at = "claim" => status.state = "pending"

IInv == TypeOK /\ OneGoroutine /\ Tied /\ Started /\ Resuming /\ Reading

-----------------------------------------------------------------------------
(* Types of the records the actions write.                                 *)

LEMMA Constants ==
    /\ NoRun \in Runs /\ NoRun.pc = "idle" /\ NoRun.at = None
    /\ Idle \in Claimers /\ Idle.at = "idle" /\ Idle.on = Nobody
    /\ NoCall \in Calls /\ NoCall.todo = "none" /\ NoCall.on = Nobody
    /\ Nobody \notin Object /\ Orphan \notin Object
BY DEF NoRun, Runs, Idle, Claimers, NoCall, Calls, Nobody, Orphan, Object, State, Goroutine,
       Terminal, PreExecution

LEMMA Fields ==
    ASSUME TypeOK, NEW o \in Object
    PROVE  /\ object[o] \in Runs
           /\ object[o].at \in Replica \cup {None}
           /\ object[o].remote \in BOOLEAN /\ object[o].mine \in BOOLEAN
           /\ object[o].cancelled \in BOOLEAN
           /\ object[o].state \in State /\ object[o].out \in State
           /\ object[o].pc \in Goroutine
BY DEF TypeOK, Runs

LEMMA ClaimerFields ==
    ASSUME TypeOK, NEW r \in Replica
    PROVE  /\ claimer[r] \in Claimers
           /\ claimer[r].on \in Object \cup {Nobody}
BY DEF TypeOK, Claimers

\* The claim loop of r goes back to idle; the others stay.
LEMMA Rests ==
    ASSUME TypeOK, NEW r \in Replica
    PROVE  /\ Resting(r) \in [Replica -> Claimers]
           /\ Resting(r)[r] = Idle
           /\ \A q \in Replica \ {r} : Resting(r)[q] = claimer[q]
BY Constants DEF TypeOK, Resting

\* A write of the status leaves no swap under way.
LEMMA PutType ==
    ASSUME NEW loops \in [Replica -> Claimers], NEW state \in State \cup {"none"},
           NEW holder \in Replica \cup {None}, Put(state, holder, loops)
    PROVE  /\ status' \in [state : State \cup {"none"}, holder : Replica \cup {None}]
           /\ stale' \in BOOLEAN
           /\ claimer' \in [Replica -> Claimers]
           /\ \A r \in Replica : claimer'[r] = loops[r] \/ claimer'[r] = Idle
           /\ \A r \in Replica : claimer'[r].at # "claim"
BY Constants DEF Put, Overtaken

LEMMA StrikesType ==
    ASSUME TypeOK, NEW fault, Strikes(fault)
    PROVE  faults' \in 0..MaxFaults
BY DEF TypeOK, Strikes

LEMMA PublishType ==
    ASSUME TypeOK, NEW loops \in [Replica -> Claimers], NEW state \in State,
           NEW o \in Object, Publish(state, o, loops)
    PROVE  /\ status' \in [state : State \cup {"none"}, holder : Replica \cup {None}]
           /\ stale' \in BOOLEAN /\ faults' \in 0..MaxFaults
           /\ claimer' \in [Replica -> Claimers]
           /\ \A r \in Replica : claimer'[r] = loops[r] \/ claimer'[r] = Idle
           /\ \A r \in Replica : claimer'[r].at = "claim" => claimer'[r] = loops[r] /\ status' = status
<1>1. CASE Put(state, IF object[o].mine THEN object[o].at ELSE None, loops) /\ UNCHANGED faults
  BY <1>1, PutType, Fields DEF TypeOK
<1>2. CASE Strikes("store") /\ claimer' = loops /\ UNCHANGED <<status, stale>>
  BY <1>2, StrikesType DEF TypeOK
<1> QED
  BY <1>1, <1>2 DEF Publish

LEMMA RequestCancelType ==
    ASSUME TypeOK, RequestCancel
    PROVE  flag' \in BOOLEAN /\ faults' \in 0..MaxFaults
BY StrikesType DEF TypeOK, RequestCancel

LEMMA AsksType ==
    ASSUME TypeOK, Asks
    PROVE  requests' \in 0..MaxRequests /\ call = NoCall /\ call.todo = "none"
BY Constants DEF TypeOK, Asks

-----------------------------------------------------------------------------
(* What kinds of steps preserve.                                           *)

\* The claim loops go on as they were, or were sent back to idle by a write.
LoopsKept ==
    /\ claimer' \in [Replica -> Claimers]
    /\ \A r \in Replica :
          /\ claimer'[r] = claimer[r] \/ claimer'[r] = Idle
          /\ claimer'[r].at = "claim" => claimer'[r] = claimer[r] /\ status' = status

\* A goroutine's own step changes its asyncRun alone, and not into one that has not started.
LEMMA GoroutineKeeps ==
    ASSUME IInv, NEW o \in Object, NEW new \in Runs, object[o].pc # "idle",
           object' = [object EXCEPT ![o] = new],
           new.at = object[o].at, new.remote = object[o].remote,
           ~new.remote => new.state \notin PreExecution,
           UNCHANGED <<registry, call>>, LoopsKept
    PROVE  (OneGoroutine /\ Tied /\ Started /\ Resuming /\ Reading)'
<1> USE DEF IInv
<1>1. /\ object \in [Object -> Runs] /\ object'[o] = new
      /\ \A p \in Object \ {o} : object'[p] = object[p]
  BY DEF TypeOK
<1>2. \A r \in Replica :
         claimer[r].at \in {"launch", "publish"} => claimer[r].on \in Object /\ claimer[r].on # o
  BY DEF OneGoroutine, Tied
<1>3. \A r \in Replica :
         claimer'[r].at \in {"launch", "publish"} => claimer'[r] = claimer[r]
  BY Constants DEF LoopsKept
<1>4. OneGoroutine'
  BY <1>1, <1>2, <1>3 DEF OneGoroutine
<1>5. Tied'
  BY <1>1, <1>3, Constants DEF Tied, LoopsKept
<1>6. Started'
  BY <1>1, <1>2, <1>3 DEF Started
<1>7. Resuming'
  BY <1>1, Constants DEF Resuming, Tied, LoopsKept
<1>8. Reading'
  BY DEF Reading, LoopsKept
<1> QED
  BY <1>4, <1>5, <1>6, <1>7, <1>8

\* A step that leaves every asyncRun and the registries alone, and launches nothing.
LEMMA StoreKeeps ==
    ASSUME IInv, UNCHANGED <<object, registry>>,
           claimer' \in [Replica -> Claimers],
           \A r \in Replica :
              /\ claimer'[r].on \in {claimer[r].on, Nobody}
              /\ claimer'[r].at \in {"launch", "publish"} => claimer'[r] = claimer[r]
              /\ claimer'[r].at = "claim" => status'.state = "pending",
           \/ UNCHANGED call
           \/ call' = NoCall
           \/ call'.todo # "launch" /\ call'.on \in Object
    PROVE  (OneGoroutine /\ Tied /\ Started /\ Resuming /\ Reading)'
<1> USE DEF IInv
<1>1. OneGoroutine'
  BY DEF OneGoroutine
<1>2. Tied'
  BY Constants DEF Tied
<1>3. Started'
  BY DEF Started
<1>4. Resuming'
  BY Constants DEF Resuming, Tied
<1>5. Reading'
  BY DEF Reading
<1> QED
  BY <1>1, <1>2, <1>3, <1>4, <1>5

\* LoopsKept, of the steps that leave the claim loops alone and of those that publish.
LEMMA Stays ==
    ASSUME TypeOK, UNCHANGED <<status, claimer>>
    PROVE  LoopsKept
BY DEF TypeOK, LoopsKept

LEMMA PublishKeeps ==
    ASSUME TypeOK, NEW state \in State, NEW o \in Object, Publish(state, o, claimer)
    PROVE  LoopsKept
<1>1. claimer \in [Replica -> Claimers]
  BY DEF TypeOK
<1> QED
  BY <1>1, PublishType DEF LoopsKept

\* GoroutineKeeps with the types: all that a goroutine's own step has to show.
LEMMA GoroutineStep ==
    ASSUME IInv, NEW o \in Object, NEW new \in Runs, object[o].pc # "idle",
           object' = [object EXCEPT ![o] = new],
           new.at = object[o].at, new.remote = object[o].remote,
           ~new.remote => new.state \notin PreExecution,
           UNCHANGED <<intake, flag, registry, client>>, LoopsKept,
           status' \in [state : State \cup {"none"}, holder : Replica \cup {None}],
           stale' \in BOOLEAN, checkpoint' \in BOOLEAN, faults' \in 0..MaxFaults,
           lease' \in {lease, o},
           lease' = o => new.pc \in Executing \cup {"end", "release"}
    PROVE  IInv'
<1>1. TypeOK'
  BY DEF IInv, TypeOK, client, LoopsKept
<1>2. (OneGoroutine /\ Tied /\ Started /\ Resuming /\ Reading)'
  BY GoroutineKeeps DEF client
<1> QED
  BY <1>1, <1>2 DEF IInv

LEMMA GotoType ==
    ASSUME TypeOK, NEW o \in Object, NEW label \in Goroutine, Goto(o, label)
    PROVE  \E new \in Runs :
              /\ object' = [object EXCEPT ![o] = new]
              /\ new.at = object[o].at /\ new.remote = object[o].remote
              /\ new.state = object[o].state /\ new.pc = label
<1> DEFINE new == [object[o] EXCEPT !.pc = label, !.out = "failed"]
<1>1. object' = [object EXCEPT ![o] = new]
  BY DEF Goto, TypeOK
<1>2. /\ new \in Runs
      /\ new.at = object[o].at /\ new.remote = object[o].remote
      /\ new.state = object[o].state /\ new.pc = label
  BY Fields DEF Runs, State, Terminal
<1> QED
  BY <1>1, <1>2

LEMMA BecomesType ==
    ASSUME TypeOK, NEW o \in Object, NEW label \in Goroutine, NEW state \in State,
           Becomes(o, state, label)
    PROVE  \E new \in Runs :
              /\ object' = [object EXCEPT ![o] = new]
              /\ new.at = object[o].at /\ new.remote = object[o].remote
              /\ new.state = state /\ new.pc = label
<1> DEFINE new == [object[o] EXCEPT !.state = state, !.out = state, !.pc = label]
<1>1. object' = [object EXCEPT ![o] = new]
  BY DEF Becomes, TypeOK
<1>2. /\ new \in Runs
      /\ new.at = object[o].at /\ new.remote = object[o].remote
      /\ new.state = state /\ new.pc = label
  BY Fields DEF Runs
<1> QED
  BY <1>1, <1>2

-----------------------------------------------------------------------------
(* execRun.                                                                *)

LEMMA GoroutineSteps ==
    ASSUME IInv, NEW o \in Object, Goroutines(o)
    PROVE  IInv'
<1> USE DEF Executing
<1>0. /\ TypeOK
      /\ lease = o => object[o].pc \in Executing \cup {"end", "release"}
      /\ object[o].pc # "idle" /\ ~object[o].remote => object[o].state \notin PreExecution
      /\ status \in [state : State \cup {"none"}, holder : Replica \cup {None}]
      /\ stale \in BOOLEAN /\ checkpoint \in BOOLEAN /\ faults \in 0..MaxFaults
      /\ object \in [Object -> Runs]
  BY DEF IInv, TypeOK, Started
<1>f. {"failed", "canceled", "completed", "paused"} \cap PreExecution = {}
  BY DEF PreExecution
<1>g. {"failed", "canceled", "completed", "paused"} \subseteq State
  BY DEF State, Terminal
<1>h. {"acquire", "begin", "onstep", "work", "end", "release"} \subseteq Goroutine
  BY DEF Goroutine
<1>s. object[o].state \in State /\ object[o].out \in State
  BY <1>0, Fields
<1>1. CASE Acquire(o)
  <2>1. PICK new \in Runs : /\ object' = [object EXCEPT ![o] = new]
                            /\ new.at = object[o].at /\ new.remote = object[o].remote
                            /\ new.state = object[o].state /\ new.pc = "begin"
    BY <1>1, <1>0, <1>h, <1>s, BecomesType DEF Acquire
  <2>2. LoopsKept
    BY <1>1, <1>0, Stays DEF Acquire
  <2> QED
    BY <1>1, <2>1, <2>2, <1>0, GoroutineStep DEF Acquire
<1>2. CASE AcquireFails(o)
  <2>1. PICK new \in Runs : /\ object' = [object EXCEPT ![o] = new]
                            /\ new.at = object[o].at /\ new.remote = object[o].remote
                            /\ new.state = "failed" /\ new.pc = "end"
    BY <1>2, <1>0, <1>h, <1>g, BecomesType DEF AcquireFails
  <2>2. LoopsKept
    BY <1>2, <1>0, Stays DEF AcquireFails, store
  <2>3. faults' \in 0..MaxFaults
    BY <1>2, <1>0, StrikesType DEF AcquireFails
  <2> QED
    BY <1>2, <2>1, <2>2, <2>3, <1>0, <1>f, GoroutineStep DEF AcquireFails, store
<1>3. CASE Begin(o)
  <2>1. PICK new \in Runs : /\ object' = [object EXCEPT ![o] = new]
                            /\ new.at = object[o].at /\ new.remote = object[o].remote
                            /\ new.state = object[o].state /\ new.pc = "work"
    BY <1>3, <1>0, <1>h, GotoType DEF Begin
  <2>2. LoopsKept
    BY <1>3, <1>0, <1>s, PublishKeeps DEF Begin
  <2>3. /\ status' \in [state : State \cup {"none"}, holder : Replica \cup {None}]
        /\ stale' \in BOOLEAN /\ faults' \in 0..MaxFaults
    BY <1>3, <1>0, <1>s, PublishType DEF Begin, TypeOK
  <2> QED
    BY <1>3, <2>1, <2>2, <2>3, <1>0, GoroutineStep DEF Begin
<1>4. CASE NextStep(o)
  <2>1. PICK new \in Runs : /\ object' = [object EXCEPT ![o] = new]
                            /\ new.at = object[o].at /\ new.remote = object[o].remote
                            /\ new.state = object[o].state /\ new.pc = "onstep"
    BY <1>4, <1>0, <1>h, <1>s, BecomesType DEF NextStep
  <2>2. LoopsKept
    BY <1>4, <1>0, Stays DEF NextStep
  <2> QED
    BY <1>4, <2>1, <2>2, <1>0, GoroutineStep DEF NextStep
<1>5. CASE OnStep(o)
  <2>1. LoopsKept
    BY <1>5, <1>0, <1>s, PublishKeeps DEF OnStep
  <2>2. /\ status' \in [state : State \cup {"none"}, holder : Replica \cup {None}]
        /\ stale' \in BOOLEAN /\ faults' \in 0..MaxFaults
    BY <1>5, <1>0, <1>s, PublishType DEF OnStep, TypeOK
  <2>3. \E new \in Runs :
           /\ object' = [object EXCEPT ![o] = new]
           /\ new.at = object[o].at /\ new.remote = object[o].remote
           /\ new.state \in {object[o].state, "canceled"} /\ new.pc = "work"
    <3>1. CASE flag
      <4> DEFINE new == [object[o] EXCEPT !.pc = "work", !.cancelled = TRUE,
                                          !.state = CancelledState(object[o].state)]
      <4>1. object' = [object EXCEPT ![o] = new]
        BY <1>5, <3>1, <1>0 DEF OnStep
      <4>2. CancelledState(object[o].state) \in {object[o].state, "canceled"}
        BY DEF CancelledState
      <4>3. CancelledState(object[o].state) \in State /\ object[o] \in Runs
        BY <4>2, <1>0, <1>s, <1>g
      <4>4. /\ new \in Runs /\ new.at = object[o].at /\ new.remote = object[o].remote
            /\ new.state = CancelledState(object[o].state) /\ new.pc = "work"
        BY <4>3, <1>h DEF Runs
      <4> HIDE DEF new
      <4> QED
        BY <4>1, <4>2, <4>4
    <3>2. CASE ~flag
      BY <1>5, <3>2, <1>0, <1>h, GotoType DEF OnStep
    <3> QED
      BY <3>1, <3>2
  <2> QED
    <3>1. PICK new \in Runs :
             /\ object' = [object EXCEPT ![o] = new]
             /\ new.at = object[o].at /\ new.remote = object[o].remote
             /\ new.state \in {object[o].state, "canceled"} /\ new.pc = "work"
      BY <2>3
    <3>2. object[o].pc # "idle"
      BY <1>5 DEF OnStep
    <3>3. ~new.remote => new.state \notin PreExecution
      BY <3>1, <3>2, <1>0, <1>f
    <3>4. UNCHANGED <<intake, flag, registry, client, checkpoint, lease>>
      BY <1>5 DEF OnStep
    <3> QED
      BY <2>1, <2>2, <3>1, <3>2, <3>3, <3>4, <1>0, GoroutineStep
<1>6. CASE Watch(o) \/ Heartbeat(o)
  <2>1. PICK state \in {object[o].state, CancelledState(object[o].state)} :
           object' = [object EXCEPT ![o] =
                        [object[o] EXCEPT !.pc = object[o].pc, !.cancelled = TRUE, !.state = state]]
    <3>0. object[o] \in Runs
      BY <1>0
    <3>1. CASE Watch(o)
      BY <3>0, <3>1 DEF Watch, Runs
    <3>2. CASE Heartbeat(o)
      BY <3>0, <3>2 DEF Heartbeat, Runs
    <3> QED
      BY <1>6, <3>1, <3>2
  <2>2. state \in {object[o].state, "canceled"} /\ state \in State
    BY <2>1, <1>s, <1>g DEF CancelledState
  <2>3. LoopsKept
    BY <1>6, <1>0, Stays DEF Watch, Heartbeat, store
  <2>4. object[o].pc \in Goroutine
    BY <1>0, Fields
  <2>5. object[o].pc \in Executing
    BY <1>6 DEF Watch, Heartbeat
  <2>6. UNCHANGED <<store, registry, claimer, client, faults>>
    BY <1>6 DEF Watch, Heartbeat
  <2> DEFINE new == [object[o] EXCEPT !.pc = object[o].pc, !.cancelled = TRUE, !.state = state]
  <2>7. /\ new \in Runs /\ new.at = object[o].at /\ new.remote = object[o].remote
        /\ new.state = state /\ new.pc = object[o].pc
    <3>1. object[o] \in Runs
      BY <1>0
    <3> QED
      BY <2>2, <2>4, <3>1 DEF Runs
  <2>8. object' = [object EXCEPT ![o] = new]
    BY <2>1
  <2> HIDE DEF new
  <2> QED
    <3>1. UNCHANGED <<intake, flag, registry, client>> /\ lease' \in {lease, o}
      BY <2>6 DEF store
    <3>2. /\ status' \in [state : State \cup {"none"}, holder : Replica \cup {None}]
          /\ stale' \in BOOLEAN /\ checkpoint' \in BOOLEAN /\ faults' \in 0..MaxFaults
      BY <2>6, <1>0 DEF store
    <3>3. new.pc \in Executing \cup {"end", "release"} /\ object[o].pc # "idle"
      BY <2>5, <2>7
    <3>4. ~new.remote => new.state \notin PreExecution
      BY <2>2, <2>7, <3>3, <1>0, <1>f
    <3> QED
      BY <2>3, <2>7, <2>8, <3>1, <3>2, <3>3, <3>4, GoroutineStep
<1>7. CASE Completes(o) \/ Pauses(o) \/ Fails(o) \/ Stops(o)
  <2>1. PICK state \in {"completed", "paused", "failed", "canceled"} : Ends(o, state)
    BY <1>7 DEF Completes, Pauses, Fails, Stops
  <2>2. checkpoint' \in BOOLEAN
    BY <1>7, <1>0 DEF Completes, Pauses, Fails, Stops
  <2>3. PICK new \in Runs : /\ object' = [object EXCEPT ![o] = new]
                            /\ new.at = object[o].at /\ new.remote = object[o].remote
                            /\ new.state \in {"completed", "paused", "failed", "canceled"}
                            /\ new.pc = "end"
    BY <2>1, <1>0, <1>h, <1>g, BecomesType DEF Ends
  <2>4. LoopsKept
    BY <2>1, <1>0, Stays DEF Ends
  <2> QED
    BY <2>1, <2>2, <2>3, <2>4, <1>0, <1>f, GoroutineStep DEF Ends
<1>8. CASE PublishFinal(o)
  <2>1. PICK new \in Runs : /\ object' = [object EXCEPT ![o] = new]
                            /\ new.at = object[o].at /\ new.remote = object[o].remote
                            /\ new.state = object[o].state /\ new.pc = "release"
    BY <1>8, <1>0, <1>h, GotoType DEF PublishFinal
  <2>2. LoopsKept
    BY <1>8, <1>0, <1>s, PublishKeeps DEF PublishFinal
  <2>3. /\ status' \in [state : State \cup {"none"}, holder : Replica \cup {None}]
        /\ stale' \in BOOLEAN /\ faults' \in 0..MaxFaults
    BY <1>8, <1>0, <1>s, PublishType DEF PublishFinal, TypeOK
  <2> QED
    BY <1>8, <2>1, <2>2, <2>3, <1>0, GoroutineStep DEF PublishFinal
<1>9. CASE Release(o)
  <2> DEFINE new == IF Needed(o) \/ registry[object[o].at] = o
                    THEN [object[o] EXCEPT !.pc = "idle", !.cancelled = FALSE]
                    ELSE NoRun
  <2>1. object' = [object EXCEPT ![o] = new]
    BY <1>9 DEF Release
  <2>2. new \in Runs /\ new.pc = "idle"
    <3>1. object[o] \in Runs /\ "idle" \in Goroutine
      BY <1>0 DEF Goroutine
    <3>2. [object[o] EXCEPT !.pc = "idle", !.cancelled = FALSE] \in Runs
      BY <3>1 DEF Runs
    <3>3. [object[o] EXCEPT !.pc = "idle", !.cancelled = FALSE].pc = "idle"
      BY <3>1 DEF Runs
    <3>4. NoRun \in Runs /\ NoRun.pc = "idle"
      BY Constants DEF Runs, NoRun, Goroutine
    <3> QED
      BY <3>2, <3>3, <3>4
  <2>3. /\ object' \in [Object -> Runs] /\ object'[o] = new
        /\ \A p \in Object \ {o} : object'[p] = object[p]
    BY <2>1, <2>2, <1>0
  <2>5. \/ new.at = object[o].at /\ new.state = object[o].state
        \/ /\ call.on # o
           /\ \A r \in Replica : claimer[r].on # o /\ registry[r] # o
    <3>1. CASE Needed(o) \/ registry[object[o].at] = o
      <4>1. new = [object[o] EXCEPT !.pc = "idle", !.cancelled = FALSE]
        BY <3>1
      <4> HIDE DEF new
      <4> QED
        BY <4>1, <1>0, Fields DEF Runs
    <3>2. CASE ~(Needed(o) \/ registry[object[o].at] = o)
      <4> HIDE DEF new
      <4>1. \A r \in Replica : registry[r] # o
        BY <3>2 DEF IInv, Tied
      <4> QED
        BY <4>1, <3>2 DEF Needed
    <3> QED
      BY <3>1, <3>2
  <2>u. /\ UNCHANGED <<status, stale, intake, flag, checkpoint, registry, claimer, client, faults>>
        /\ object[o].pc = "release"
        /\ lease' = IF lease = o THEN Nobody ELSE lease
    BY <1>9 DEF Release
  <2> HIDE DEF new
  <2>6. TypeOK'
    BY <2>u, <2>3, Constants DEF TypeOK, IInv, client
  <2>7. \A r \in Replica :
           claimer[r].at \in {"launch", "publish"} => claimer[r].on \in Object /\ claimer[r].on # o
    BY <2>u DEF IInv, OneGoroutine, Tied
  <2>8. call.todo = "launch" => call.on # o
    BY <2>u DEF IInv, Resuming
  <2>9. OneGoroutine' /\ Started' /\ Reading'
    BY <2>u, <2>2, <2>3, <2>7 DEF IInv, OneGoroutine, Started, Reading
  <2>10. Tied'
    BY <2>u, <2>3, <2>5 DEF IInv, Tied, client
  <2>11. Resuming'
    BY <2>u, <2>3, <2>8 DEF IInv, Resuming, Tied, client
  <2> QED
    BY <2>6, <2>9, <2>10, <2>11 DEF IInv
<1> QED
  BY <1>1, <1>2, <1>3, <1>4, <1>5, <1>6, <1>7, <1>8, <1>9 DEF Goroutines

-----------------------------------------------------------------------------
(* The claim loop.                                                         *)

\* StoreKeeps with the types: all that a step has to show which leaves every asyncRun alone.
LEMMA StoreStep ==
    ASSUME IInv, UNCHANGED <<object, registry>>,
           claimer' \in [Replica -> Claimers],
           \A r \in Replica :
              /\ claimer'[r].on \in {claimer[r].on, Nobody}
              /\ claimer'[r].at \in {"launch", "publish"} => claimer'[r] = claimer[r]
              /\ claimer'[r].at = "claim" => status'.state = "pending",
           \/ UNCHANGED call
           \/ call' = NoCall
           \/ call' \in Calls /\ call'.todo # "launch" /\ call'.on \in Object,
           status' \in [state : State \cup {"none"}, holder : Replica \cup {None}],
           stale' \in BOOLEAN, intake' \in BOOLEAN, flag' \in BOOLEAN, checkpoint' \in BOOLEAN,
           lease' \in {lease, Nobody},
           accepted' \in BOOLEAN, asked' \in BOOLEAN,
           requests' \in 0..MaxRequests, faults' \in 0..MaxFaults
    PROVE  IInv'
<1>1. TypeOK'
  BY Constants DEF IInv, TypeOK
<1>2. (OneGoroutine /\ Tied /\ Started /\ Resuming /\ Reading)'
  BY StoreKeeps
<1> QED
  BY <1>1, <1>2 DEF IInv

\* The steps of reconcileRuns and claimNextCAS that only read.
LEMMA ClaimReads ==
    ASSUME IInv, NEW r \in Replica,
           ReconcileList(r) \/ ReconcilePeek(r) \/ ReconcileGet(r) \/ ClaimRead(r)
    PROVE  IInv'
<1>1. UNCHANGED <<store, object, registry, client, faults>>
  BY DEF ReconcileList, ReconcilePeek, ReconcileGet, ClaimRead
<1>2. PICK label \in {"peek", "get", "back", "claim"} :
         /\ claimer' = At(r, label) \/ claimer' = Resting(r)
         /\ label = "claim" => status.state = "pending"
  BY DEF ReconcileList, ReconcilePeek, ReconcileGet, ClaimRead
<1>3. /\ claimer' \in [Replica -> Claimers]
      /\ \A q \in Replica :
            \/ claimer'[q] = claimer[q]
            \/ claimer'[q] = Idle
            \/ claimer'[q].at = label /\ claimer'[q].on = claimer[q].on
  <2>1. TypeOK
    BY DEF IInv
  <2>2. CASE claimer' = At(r, label)
    BY <2>1, <2>2 DEF At, TypeOK, Claimers
  <2>3. CASE claimer' = Resting(r)
    BY <2>1, <2>3, Rests
  <2> QED
    BY <1>2, <2>2, <2>3
<1>4. \A q \in Replica :
         /\ claimer'[q].on \in {claimer[q].on, Nobody}
         /\ claimer'[q].at \in {"launch", "publish"} => claimer'[q] = claimer[q]
         /\ claimer'[q].at = "claim" => status.state = "pending"
  BY <1>2, <1>3, Constants DEF IInv, Reading
<1> QED
  BY <1>1, <1>3, <1>4, StoreStep DEF IInv, TypeOK, store, client

\* The steps that write the status and leave the asyncRuns alone.
LEMMA ClaimWrites ==
    ASSUME IInv, NEW r \in Replica, ReconcileSwap(r) \/ ClaimSwap(r) \/ FailClaimed(r)
    PROVE  IInv'
<1>1. PICK state \in State, holder \in Replica \cup {None}, loops \in {Resting(r), At(r, "claimed")} :
         Put(state, holder, loops)
  BY DEF ReconcileSwap, ClaimSwap, FailClaimed, State, PreExecution, Terminal
<1>2. UNCHANGED <<intake, flag, checkpoint, lease, object, registry, client>>
  BY DEF ReconcileSwap, ClaimSwap, FailClaimed
<1>3. faults' \in 0..MaxFaults
  BY StrikesType DEF ReconcileSwap, ClaimSwap, FailClaimed, IInv, TypeOK
<1>4. /\ loops \in [Replica -> Claimers]
      /\ \A q \in Replica :
            \/ loops[q] = claimer[q]
            \/ loops[q] = Idle
            \/ loops[q].at = "claimed" /\ loops[q].on = claimer[q].on
  <2>1. TypeOK
    BY DEF IInv
  <2>2. CASE loops = At(r, "claimed")
    BY <2>1, <2>2 DEF At, TypeOK, Claimers
  <2>3. CASE loops = Resting(r)
    BY <2>1, <2>3, Rests
  <2> QED
    BY <2>2, <2>3
<1>5. /\ status' \in [state : State \cup {"none"}, holder : Replica \cup {None}]
      /\ stale' \in BOOLEAN
      /\ claimer' \in [Replica -> Claimers]
      /\ \A q \in Replica : claimer'[q] = loops[q] \/ claimer'[q] = Idle
      /\ \A q \in Replica : claimer'[q].at # "claim"
  BY <1>1, <1>4, PutType
<1>6. \A q \in Replica :
         /\ claimer'[q].on \in {claimer[q].on, Nobody}
         /\ claimer'[q].at \in {"launch", "publish"} => claimer'[q] = claimer[q]
  BY <1>4, <1>5, Constants
<1> QED
  BY <1>2, <1>3, <1>5, <1>6, StoreStep DEF IInv, TypeOK, client

\* A replica registers a new asyncRun, which its claim loop or a request goes on with.
LEMMA NewAsyncRun ==
    ASSUME IInv, NEW r \in Replica, NEW o \in Object, NewObject(r, o),
           NEW new \in Runs, new.at = r, new.pc = "idle",
           object' \in [Object -> Runs], object'[o] = new,
           \A p \in Object \ {o} :
              \/ object'[p] = object[p]
              \/ object[p].pc = "idle" /\ ~Needed(p) /\ registry[r] = p /\ object'[p] = NoRun,
           registry' = [registry EXCEPT ![r] = o],
           \/ UNCHANGED claimer
           \/ claimer' = [claimer EXCEPT ![r] = [at |-> "launch", on |-> o]] /\ UNCHANGED call,
           \/ UNCHANGED call
           \/ /\ call' \in Calls /\ call'.on = o
              /\ call'.todo = "launch" => new.state = "working",
           UNCHANGED <<status, stale, flag, checkpoint, lease, accepted, asked>>,
           intake' \in BOOLEAN, requests' \in 0..MaxRequests, faults' \in 0..MaxFaults
    PROVE  IInv'
<1> USE DEF IInv
<1>1. /\ object[o].pc = "idle" /\ ~Needed(o)
      /\ \A q \in Replica \ {r} : registry[q] # o
  BY DEF NewObject, Unused
<1>2. /\ registry' \in [Replica -> Object \cup {Nobody}] /\ registry'[r] = o
      /\ \A q \in Replica \ {r} : registry'[q] = registry[q]
  BY DEF TypeOK
<1>3. /\ claimer' \in [Replica -> Claimers]
      /\ \A q \in Replica :
            \/ claimer'[q] = claimer[q]
            \/ q = r /\ claimer'[q].at = "launch" /\ claimer'[q].on = o
  BY DEF TypeOK, Claimers
<1>4. \A p \in Object : Needed(p) => object'[p] = object[p] /\ p # o
  BY <1>1
<1>5. \A q \in Replica : claimer[q].on \in Object => object'[claimer[q].on] = object[claimer[q].on]
                                                     /\ claimer[q].on # o
  BY <1>4 DEF Needed
<1>6. call.on \in Object => object'[call.on] = object[call.on] /\ call.on # o
  BY <1>4 DEF Needed
<1>7. TypeOK'
  <2>1. lease \in Object => object'[lease] = object[lease]
    BY <1>1 DEF TypeOK, Executing
  <2> QED
    BY <1>2, <1>3, <2>1 DEF TypeOK
<1>8. OneGoroutine'
  BY <1>3, <1>5 DEF OneGoroutine, Tied
<1>9. Tied'
  <2>1. \A q \in Replica : registry'[q] \in Object => object'[registry'[q]].at = q
    BY <1>2, <1>1 DEF Tied
  <2>2. \A q \in Replica : claimer'[q].on \in Object => object'[claimer'[q].on].at = q
    BY <1>3, <1>5 DEF Tied
  <2> QED
    BY <2>1, <2>2, <1>3 DEF Tied
<1>10. Started'
  BY <1>3, <1>5, Constants DEF Started, Tied
<1>11. Resuming'
  BY <1>3, <1>5, <1>6 DEF Resuming, Tied
<1>12. Reading'
  BY <1>3 DEF Reading
<1> QED
  BY <1>7, <1>8, <1>9, <1>10, <1>11, <1>12

LEMMA RunForClaimedKeeps ==
    ASSUME IInv, NEW r \in Replica, RunForClaimed(r)
    PROVE  IInv'
<1> DEFINE o == registry[r]
<1>0. /\ TypeOK /\ UNCHANGED <<store, client, faults>> /\ claimer[r].at = "claimed"
      /\ registry[r] \in Object \cup {Nobody}
  BY DEF IInv, TypeOK, RunForClaimed
<1>1. CASE Rebuild(r)
  <2>1. PICK p \in Object :
           /\ NewObject(r, p)
           /\ object' = [Unregistered(r) EXCEPT ![p] =
                 [NoRun EXCEPT !.at = r, !.mine = TRUE, !.state = "claimed"]]
           /\ registry' = [registry EXCEPT ![r] = p]
           /\ Launches(r, p)
    BY <1>1 DEF Rebuild
  <2> DEFINE new == [NoRun EXCEPT !.at = r, !.mine = TRUE, !.state = "claimed"]
  <2>2. new \in Runs /\ new.at = r /\ new.pc = "idle"
    BY DEF NoRun, Runs, Goroutine, State, PreExecution, Terminal
  <2>3. object' = [Unregistered(r) EXCEPT ![p] = new]
    BY <2>1
  <2> HIDE DEF new
  <2>4. /\ object' \in [Object -> Runs] /\ object'[p] = new
        /\ \A q \in Object \ {p} :
              \/ object'[q] = object[q]
              \/ object[q].pc = "idle" /\ ~Needed(q) /\ registry[r] = q /\ object'[q] = NoRun
    BY <2>2, <2>3, <1>0, Constants DEF Unregistered, TypeOK
  <2>5. claimer' = [claimer EXCEPT ![r] = [at |-> "launch", on |-> p]]
    BY <2>1 DEF Launches
  <2>6. /\ UNCHANGED <<status, stale, flag, checkpoint, lease, call, accepted, asked>>
        /\ intake' \in BOOLEAN /\ requests' \in 0..MaxRequests /\ faults' \in 0..MaxFaults
    BY <1>0 DEF TypeOK, store, client
  <2> QED
    BY <2>1, <2>2, <2>4, <2>5, <2>6, NewAsyncRun
<1>2. CASE /\ o # Nobody /\ ~object[o].remote /\ object[o].state \in PreExecution
           /\ object' = [object EXCEPT ![o].mine = TRUE]
           /\ Launches(r, o)
           /\ UNCHANGED registry
  <2>0. o \in Object
    BY <1>2, <1>0
  <2> DEFINE new == [object[o] EXCEPT !.mine = TRUE]
  <2>1. new \in Runs /\ new.at = object[o].at /\ new.remote = object[o].remote
        /\ new.state = object[o].state /\ new.pc = object[o].pc
    BY <2>0, <1>0, Fields DEF Runs
  <2>2. object' = [object EXCEPT ![o] = new]
    BY <1>2
  <2> HIDE DEF new
  <2>3. /\ object' \in [Object -> Runs]
        /\ \A p \in Object : /\ object'[p].at = object[p].at /\ object'[p].pc = object[p].pc
                             /\ object'[p].remote = object[p].remote
                             /\ object'[p].state = object[p].state
    BY <2>0, <2>1, <2>2, <1>0 DEF TypeOK
  <2>4. /\ claimer' \in [Replica -> Claimers]
        /\ claimer'[r].at = "launch" /\ claimer'[r].on = o
        /\ \A q \in Replica \ {r} : claimer'[q] = claimer[q]
    BY <2>0, <1>2, <1>0 DEF Launches, TypeOK, Claimers
  <2>5. object[o].pc = "idle" /\ object[o].at = r
    BY <1>2, <2>0 DEF IInv, Started, Tied
  <2>6. call.todo = "launch" => call.on # o
    BY <1>2, <2>0 DEF IInv, Resuming, PreExecution
  <2> HIDE DEF o
  <2>u. UNCHANGED <<status, stale, intake, flag, checkpoint, lease, call, accepted, asked,
                    requests, faults, registry>>
    BY <1>0, <1>2 DEF store, client
  <2>7. TypeOK'
    BY <2>u, <2>3, <2>4, <1>0 DEF TypeOK
  <2>8. OneGoroutine'
    BY <2>3, <2>4, <2>5, <2>0 DEF IInv, OneGoroutine, Tied
  <2>9. Tied'
    BY <2>u, <2>3, <2>4, <2>5, <2>0 DEF IInv, Tied
  <2>10. Started'
    BY <2>3, <2>4 DEF IInv, Started, Tied
  <2>11. Resuming'
    BY <2>u, <2>3, <2>4, <2>6, <2>0 DEF IInv, Resuming, Tied
  <2>12. Reading'
    BY <2>u, <2>4 DEF IInv, Reading
  <2> QED
    BY <2>7, <2>8, <2>9, <2>10, <2>11, <2>12 DEF IInv
<1> QED
  BY <1>1, <1>2 DEF RunForClaimed

LEMMA RunClaimedKeeps ==
    ASSUME IInv, NEW r \in Replica, RunClaimed(r)
    PROVE  IInv'
<1> DEFINE o == claimer[r].on
           new == [object[o] EXCEPT !.state = "working", !.cancelled = FALSE]
<1>0. /\ TypeOK /\ UNCHANGED <<store, registry, client, faults>> /\ claimer[r].at = "launch"
      /\ o \in Object /\ object[o].pc = "idle" /\ object[o].at = r
  BY DEF IInv, RunClaimed, Tied, OneGoroutine
<1>o. object[o] \in Runs /\ claimer[r].on = o
  BY <1>0, Fields
<1>1. /\ new \in Runs /\ new.at = r /\ new.remote = object[o].remote
      /\ new.state = "working" /\ new.pc = "idle"
  <2> HIDE DEF o
  <2> QED
    BY <1>0, <1>o DEF Runs, State
<1>2. object' = [object EXCEPT ![o] = new]
  BY DEF RunClaimed
<1> HIDE DEF new
<1>3. /\ object' \in [Object -> Runs] /\ object'[o] = new
      /\ \A p \in Object \ {o} : object'[p] = object[p]
  BY <1>0, <1>1, <1>2 DEF TypeOK
<1>4. /\ claimer' \in [Replica -> Claimers]
      /\ claimer'[r].at = "publish" /\ claimer'[r].on = o
      /\ \A q \in Replica \ {r} : claimer'[q] = claimer[q]
  BY <1>0 DEF RunClaimed, At, TypeOK, Claimers
<1>u. UNCHANGED <<status, stale, intake, flag, checkpoint, lease, call, accepted, asked,
                  requests, faults, registry>>
  BY <1>0 DEF store, client
<1>5. TypeOK'
  <2>1. lease \in Object => object'[lease] = object[lease]
    BY <1>0, <1>3 DEF TypeOK, Executing
  <2> QED
    BY <1>u, <1>3, <1>4, <2>1, <1>0 DEF TypeOK
<1>6. \A q \in Replica \ {r} : claimer[q].on \in Object => claimer[q].on # o
  BY <1>0 DEF IInv, Tied
<1> HIDE DEF o
<1>7. OneGoroutine'
  BY <1>1, <1>3, <1>4, <1>6, <1>0 DEF IInv, OneGoroutine, Tied
<1>8. Tied'
  BY <1>u, <1>1, <1>3, <1>4, <1>6, <1>0 DEF IInv, Tied
<1>9. Started'
  BY <1>1, <1>3, <1>4, <1>6, <1>0 DEF IInv, Started, Tied, PreExecution
<1>10. Resuming'
  BY <1>u, <1>o, <1>1, <1>3, <1>4, <1>6, <1>0 DEF IInv, Resuming, Tied
<1>11. Reading'
  BY <1>u, <1>4 DEF IInv, Reading
<1> QED
  BY <1>5, <1>7, <1>8, <1>9, <1>10, <1>11 DEF IInv

\* The goroutine of an asyncRun is created: nobody else is about to create one.
LEMMA NewGoroutine ==
    ASSUME IInv, NEW o \in Object, Goto(o, "acquire"), object[o].pc = "idle",
           ~object[o].remote => object[o].state \notin PreExecution,
           call'.todo = "launch" => call.on # o,
           UNCHANGED call \/ call' = NoCall,
           UNCHANGED <<intake, flag, checkpoint, lease, registry, requests, asked>>,
           accepted' \in BOOLEAN, faults' \in 0..MaxFaults, stale' \in BOOLEAN,
           status' \in [state : State \cup {"none"}, holder : Replica \cup {None}],
           claimer' \in [Replica -> Claimers],
           \A q \in Replica :
              /\ claimer'[q] = claimer[q] \/ claimer'[q] = Idle
              /\ claimer'[q] = claimer[q] => claimer[q].on # o
              /\ claimer'[q].at = "claim" => claimer'[q] = claimer[q] /\ status' = status
    PROVE  IInv'
<1>0. TypeOK /\ "acquire" \in Goroutine
  BY DEF IInv, Goroutine
<1>1. PICK new \in Runs : /\ object' = [object EXCEPT ![o] = new]
                          /\ new.at = object[o].at /\ new.remote = object[o].remote
                          /\ new.state = object[o].state /\ new.pc = "acquire"
  BY <1>0, GotoType
<1>2. /\ object' \in [Object -> Runs] /\ object'[o] = new
      /\ \A p \in Object \ {o} : object'[p] = object[p]
  BY <1>0, <1>1 DEF TypeOK
<1>3. TypeOK'
  <2>1. lease \in Object => object'[lease] = object[lease]
    BY <1>2, <1>0 DEF TypeOK, Executing
  <2> QED
    BY <1>2, <2>1, <1>0, Constants DEF TypeOK
<1>4. \A q \in Replica : claimer'[q].at \in {"launch", "publish"} => claimer'[q] = claimer[q]
                                                                   /\ claimer[q].on # o
  BY Constants
<1>5. OneGoroutine'
  BY <1>2, <1>4 DEF IInv, OneGoroutine, Tied
<1>6. Tied'
  BY <1>1, <1>2, <1>4, Constants DEF IInv, Tied
<1>7. Started'
  BY <1>1, <1>2, <1>4 DEF IInv, Started, Tied
<1>8. Resuming'
  BY <1>2, Constants DEF IInv, Resuming, Tied
<1>9. Reading'
  BY DEF IInv, Reading
<1> QED
  BY <1>3, <1>5, <1>6, <1>7, <1>8, <1>9 DEF IInv

LEMMA ClaimedPublishKeeps ==
    ASSUME IInv, NEW r \in Replica, ClaimedPublish(r)
    PROVE  IInv'
<1> DEFINE o == claimer[r].on
<1>0. /\ TypeOK /\ claimer[r].at = "publish"
      /\ o \in Object /\ object[o].pc = "idle" /\ object[o].at = r
      /\ ~object[o].remote => object[o].state \notin PreExecution
  BY DEF IInv, ClaimedPublish, Tied, OneGoroutine, Started
<1>1. /\ Publish(object[o].state, o, Resting(r)) /\ Goto(o, "acquire")
      /\ UNCHANGED <<intake, flag, checkpoint, lease, registry, client>>
  BY DEF ClaimedPublish
<1>2. \A q \in Replica \ {r} : claimer[q].on # o
  BY <1>0 DEF IInv, Tied
<1>3. call.todo = "launch" => call.on # o
  BY DEF IInv, Resuming
<1> HIDE DEF o
<1>4. object[o].state \in State
  BY <1>0, Fields
<1>5. /\ Resting(r) \in [Replica -> Claimers] /\ Resting(r)[r] = Idle
      /\ \A q \in Replica \ {r} : Resting(r)[q] = claimer[q]
  BY <1>0, Rests
<1>6. /\ status' \in [state : State \cup {"none"}, holder : Replica \cup {None}]
      /\ stale' \in BOOLEAN /\ faults' \in 0..MaxFaults
      /\ claimer' \in [Replica -> Claimers]
      /\ \A q \in Replica : claimer'[q] = Resting(r)[q] \/ claimer'[q] = Idle
      /\ \A q \in Replica : claimer'[q].at = "claim" => claimer'[q] = Resting(r)[q] /\ status' = status
  BY <1>0, <1>1, <1>4, <1>5, PublishType
<1>7. \A q \in Replica :
         /\ claimer'[q] = claimer[q] \/ claimer'[q] = Idle
         /\ claimer'[q] = claimer[q] => claimer[q].on # o
         /\ claimer'[q].at = "claim" => claimer'[q] = claimer[q] /\ status' = status
  BY <1>0, <1>2, <1>5, <1>6, Constants
<1> QED
  BY <1>0, <1>1, <1>3, <1>6, <1>7, NewGoroutine DEF client, TypeOK

LEMMA ClaimLoopSteps ==
    ASSUME IInv, NEW r \in Replica, ClaimLoop(r)
    PROVE  IInv'
BY ClaimReads, ClaimWrites, RunForClaimedKeeps, RunClaimedKeeps, ClaimedPublishKeeps DEF ClaimLoop

-----------------------------------------------------------------------------
(* Client requests.                                                        *)

LEMMA RegistersKeeps ==
    ASSUME IInv, NEW r \in Replica, NEW new \in Runs, NEW todo \in {"accept", "launch"},
           Registers(r, new, todo), new.at = r, new.pc = "idle",
           todo = "launch" => new.state = "working",
           UNCHANGED <<status, stale, flag, checkpoint, lease, claimer, accepted, asked>>,
           intake' \in BOOLEAN, requests' \in 0..MaxRequests, faults' \in 0..MaxFaults
    PROVE  IInv'
<1>1. PICK o \in Object :
         /\ NewObject(r, o)
         /\ object' = [object EXCEPT ![o] = new]
         /\ registry' = [registry EXCEPT ![r] = o]
         /\ call' = [todo |-> todo, on |-> o]
  BY DEF Registers
<1>2. /\ object' \in [Object -> Runs] /\ object'[o] = new
      /\ \A p \in Object \ {o} : object'[p] = object[p]
  BY <1>1 DEF IInv, TypeOK
<1>3. call' \in Calls /\ call'.on = o /\ call'.todo = todo
  BY <1>1 DEF Calls
<1> QED
  BY <1>1, <1>2, <1>3, NewAsyncRun

LEMMA RunStartKeeps ==
    ASSUME IInv, NEW r \in Replica, RunStart(r)
    PROVE  IInv'
<1>0. /\ TypeOK /\ requests' \in 0..MaxRequests
      /\ UNCHANGED <<status, stale, flag, checkpoint, lease, claimer, accepted, asked>>
  BY AsksType DEF IInv, RunStart
<1>1. CASE Accepting(r)
  <2> DEFINE new == [NoRun EXCEPT !.at = r, !.state = "pending"]
  <2>1. new \in Runs /\ new.at = r /\ new.pc = "idle"
    BY DEF NoRun, Runs, Goroutine, State, PreExecution, Terminal
  <2>2. Registers(r, new, "accept") /\ intake' = TRUE /\ UNCHANGED faults
    BY <1>1 DEF Accepting
  <2> HIDE DEF new
  <2> QED
    BY <2>1, <2>2, <1>0, RegistersKeeps DEF TypeOK
<1>2. CASE FallingBack(r)
  <2> DEFINE new == [NoRun EXCEPT !.at = r, !.state = "working"]
  <2>1. new \in Runs /\ new.at = r /\ new.pc = "idle" /\ new.state = "working"
    BY DEF NoRun, Runs, Goroutine, State, PreExecution, Terminal
  <2>2. Registers(r, new, "launch") /\ UNCHANGED intake /\ Strikes("store")
    BY <1>2 DEF FallingBack
  <2> HIDE DEF new
  <2>3. faults' \in 0..MaxFaults
    BY <2>2, <1>0, StrikesType
  <2> QED
    BY <2>1, <2>2, <2>3, <1>0, RegistersKeeps DEF TypeOK
<1> QED
  BY <1>1, <1>2 DEF RunStart

LEMMA SeenType ==
    ASSUME TypeOK, status.state # "none"
    PROVE  Seen(status.state) \in State
BY DEF TypeOK, Seen, State, Terminal

LEMMA ReconstructKeeps ==
    ASSUME IInv, NEW r \in Replica, Reconstruct(r)
    PROVE  IInv'
<1> DEFINE seen == IF status.state = "none" THEN "failed" ELSE Seen(status.state)
           new == [NoRun EXCEPT !.at = r, !.remote = TRUE, !.state = seen]
<1>1. PICK o \in Object :
         /\ NewObject(r, o)
         /\ object' = [object EXCEPT ![o] = new]
         /\ registry' = [registry EXCEPT ![r] = o]
  BY DEF Reconstruct
<1>2. seen \in State
  BY SeenType DEF IInv, State, Terminal
<1>3. new \in Runs /\ new.at = r /\ new.pc = "idle"
  <2> HIDE DEF seen
  <2> QED
    BY <1>2 DEF NoRun, Runs, Goroutine, State, Terminal
<1> HIDE DEF new
<1>4. /\ object' \in [Object -> Runs] /\ object'[o] = new
      /\ \A p \in Object \ {o} : object'[p] = object[p]
  BY <1>1, <1>3 DEF IInv, TypeOK
<1>5. UNCHANGED <<store, claimer, client, faults>>
  BY DEF Reconstruct
<1> QED
  BY <1>1, <1>3, <1>4, <1>5, NewAsyncRun DEF IInv, TypeOK, store, client

\* A request changes what a replica thinks of the run, but starts nothing by itself.
LEMMA RequestStep ==
    ASSUME IInv, call = NoCall, NEW o \in Object, NEW new \in Runs,
           object' = [object EXCEPT ![o] = new],
           new.at = object[o].at, new.pc = object[o].pc,
           \/ new.remote
           \/ new.remote = object[o].remote /\ new.state \in {object[o].state, "working", "canceled"},
           call' \in Calls, call'.todo # "none" => call'.on = o,
           call'.todo = "launch" =>
              /\ new.state = "working" /\ new.pc = "idle"
              /\ \A r \in Replica : claimer[r].on # o,
           UNCHANGED <<status, stale, intake, checkpoint, lease, registry, claimer, accepted>>,
           flag' \in BOOLEAN, asked' \in BOOLEAN,
           requests' \in 0..MaxRequests, faults' \in 0..MaxFaults
    PROVE  IInv'
<1>1. /\ object' \in [Object -> Runs]
      /\ object'[o] = new
      /\ \A p \in Object \ {o} : object'[p] = object[p]
  BY DEF IInv, TypeOK
<1>2. \A p \in Object : object'[p].at = object[p].at /\ object'[p].pc = object[p].pc
  BY <1>1
<1>3. TypeOK'
  BY <1>1, <1>2 DEF IInv, TypeOK
<1>4. OneGoroutine'
  BY <1>2 DEF IInv, OneGoroutine, Tied
<1>5. Tied'
  BY <1>2 DEF IInv, Tied
<1>6. Started'
  BY <1>1 DEF IInv, Started, Tied, PreExecution
<1>7. Resuming'
  BY <1>1 DEF Resuming
<1>8. Reading'
  BY DEF IInv, Reading
<1> QED
  BY <1>3, <1>4, <1>5, <1>6, <1>7, <1>8 DEF IInv

LEMMA RunStatusKeeps ==
    ASSUME IInv, NEW r \in Replica, RunStatus(r)
    PROVE  IInv'
<1> DEFINE o == registry[r]
           state == IF object[o].state = "canceled" THEN object[o].state ELSE Seen(status.state)
           new == [object[o] EXCEPT !.remote = TRUE, !.state = state]
<1>0. /\ TypeOK /\ requests' \in 0..MaxRequests /\ call = NoCall /\ call.todo = "none"
      /\ o \in Object /\ status.state # "none"
      /\ UNCHANGED <<store, registry, claimer, call, accepted, asked, faults>>
  BY AsksType DEF IInv, TypeOK, RunStatus
<1>1. object' = [object EXCEPT ![o] = new]
  BY DEF RunStatus
<1>2. object[o] \in Runs /\ state \in State
  BY <1>0, Fields, SeenType
<1>3. new \in Runs /\ new.at = object[o].at /\ new.pc = object[o].pc /\ new.remote
  <2> HIDE DEF o, state
  <2> QED
    BY <1>2 DEF Runs
<1> HIDE DEF o, new
<1> QED
  BY <1>0, <1>1, <1>3, RequestStep DEF TypeOK, store

LEMMA RunCancelKeeps ==
    ASSUME IInv, NEW r \in Replica, RunCancel(r)
    PROVE  IInv'
<1> DEFINE o == registry[r]
           active == object[o].state \in PreExecution \cup {"working"}
           state == IF active THEN "canceled" ELSE object[o].state
           cancelled == object[o].cancelled
                           \/ (~object[o].remote /\ (object[o].pc # "idle" \/ Needed(o)))
           new == [object[o] EXCEPT !.state = state, !.cancelled = cancelled]
<1>0. /\ TypeOK /\ requests' \in 0..MaxRequests /\ call = NoCall /\ call.todo = "none"
      /\ o \in Object
      /\ UNCHANGED <<status, stale, intake, checkpoint, lease, registry, claimer, accepted>>
  BY AsksType DEF IInv, TypeOK, RunCancel
<1>1. object' = [object EXCEPT ![o] = new]
  BY DEF RunCancel
<1>2. object[o] \in Runs /\ state \in {object[o].state, "canceled"} /\ state \in State
  BY <1>0, Fields DEF State, Terminal
<1>3. cancelled \in BOOLEAN
  OBVIOUS
<1>4. /\ new \in Runs /\ new.at = object[o].at /\ new.pc = object[o].pc
      /\ new.remote = object[o].remote /\ new.state = state
  <2> HIDE DEF o, state, cancelled
  <2> QED
    BY <1>2, <1>3 DEF Runs
<1>5. call' = [todo |-> "cancel", on |-> o] \/ call' = NoCall
  BY DEF RunCancel
<1>6. /\ call' \in Calls /\ call'.todo # "launch"
      /\ call'.todo # "none" => call'.on = o
  BY <1>0, <1>5, Constants DEF Calls
<1>7. flag' \in BOOLEAN /\ asked' \in BOOLEAN /\ faults' \in 0..MaxFaults
  BY <1>0, RequestCancelType DEF RunCancel, TypeOK
<1> HIDE DEF o, new, state
<1> QED
  BY <1>0, <1>1, <1>2, <1>4, <1>6, <1>7, RequestStep

LEMMA RunResumeKeeps ==
    ASSUME IInv, NEW r \in Replica, RunResume(r)
    PROVE  IInv'
<1> DEFINE o == registry[r]
           new == [object[o] EXCEPT !.state = "working", !.cancelled = FALSE]
<1>0. /\ TypeOK /\ requests' \in 0..MaxRequests /\ call = NoCall
      /\ o \in Object /\ object[o].pc = "idle" /\ claimer[r].on # o
      /\ call' = [todo |-> "launch", on |-> o] /\ asked' = FALSE
      /\ UNCHANGED <<store, registry, claimer, accepted, faults>>
  BY AsksType DEF IInv, TypeOK, RunResume
<1>1. object' = [object EXCEPT ![o] = new]
  BY DEF RunResume
<1>2. object[o] \in Runs
  BY <1>0, Fields
<1>3. /\ new \in Runs /\ new.at = object[o].at /\ new.pc = object[o].pc
      /\ new.remote = object[o].remote /\ new.state = "working"
  <2> HIDE DEF o
  <2> QED
    BY <1>2 DEF Runs, State
<1>4. \A q \in Replica : claimer[q].on # o
  BY <1>0 DEF IInv, Tied
<1>5. call' \in Calls /\ call'.todo = "launch" /\ call'.on = o
  BY <1>0 DEF Calls
<1> HIDE DEF o, new
<1> QED
  BY <1>0, <1>1, <1>3, <1>4, <1>5, RequestStep DEF TypeOK, store

LEMMA CallingKeeps ==
    ASSUME IInv, Calling
    PROVE  IInv'
<1>0. TypeOK /\ claimer \in [Replica -> Claimers]
  BY DEF IInv, TypeOK
<1>1. CASE Accept \/ CancelPublish
  <2>1. call.todo # "none" /\ call.on \in Object
    BY <1>1 DEF Accept, CancelPublish, IInv, Tied
  <2>2. Publish(object[call.on].state, call.on, claimer)
    BY <1>1 DEF Accept, CancelPublish
  <2>3. /\ status' \in [state : State \cup {"none"}, holder : Replica \cup {None}]
        /\ stale' \in BOOLEAN /\ faults' \in 0..MaxFaults
    BY <2>1, <2>2, <1>0, Fields, PublishType
  <2>4. LoopsKept
    BY <2>1, <2>2, <1>0, Fields, PublishKeeps
  <2>5. \A r \in Replica :
           /\ claimer'[r].on \in {claimer[r].on, Nobody}
           /\ claimer'[r].at \in {"launch", "publish"} => claimer'[r] = claimer[r]
           /\ claimer'[r].at = "claim" => status'.state = "pending"
    BY <2>4, Constants DEF LoopsKept, IInv, Reading
  <2>6. \/ call' = NoCall
        \/ call' \in Calls /\ call'.todo # "launch" /\ call'.on \in Object
    BY <1>1, <1>0, <2>1 DEF Accept, CancelPublish, TypeOK, Calls
  <2>7. /\ UNCHANGED <<intake, flag, checkpoint, lease, object, registry, asked, requests>>
        /\ accepted' \in BOOLEAN
    BY <1>1, <1>0 DEF Accept, CancelPublish, TypeOK
  <2> QED
    BY <2>3, <2>4, <2>5, <2>6, <2>7, StoreStep DEF IInv, TypeOK, LoopsKept
<1>2. CASE CancelFlag
  <2>1. flag' \in BOOLEAN /\ faults' \in 0..MaxFaults /\ asked' \in BOOLEAN
    BY <1>2, <1>0, RequestCancelType DEF CancelFlag
  <2>2. /\ UNCHANGED <<status, stale, intake, checkpoint, lease, object, registry, claimer,
                       accepted, requests>>
        /\ call' = NoCall
    BY <1>2 DEF CancelFlag, local
  <2> QED
    BY <2>1, <2>2, <1>0, StoreStep DEF IInv, TypeOK, Reading
<1>3. CASE Launch
  <2> DEFINE o == call.on
  <2>1. /\ o \in Object /\ object[o].pc = "idle" /\ object[o].state = "working"
        /\ \A r \in Replica : claimer[r].on # o
    BY <1>3 DEF Launch, IInv, Tied, Resuming
  <2>2. /\ Publish(object[o].state, o, claimer) /\ Goto(o, "acquire")
        /\ call' = NoCall /\ accepted' = TRUE
        /\ UNCHANGED <<intake, flag, checkpoint, lease, registry, asked, requests>>
    BY <1>3 DEF Launch
  <2>3. /\ status' \in [state : State \cup {"none"}, holder : Replica \cup {None}]
        /\ stale' \in BOOLEAN /\ faults' \in 0..MaxFaults
    BY <2>1, <2>2, <1>0, Fields, PublishType
  <2>4. LoopsKept
    BY <2>1, <2>2, <1>0, Fields, PublishKeeps
  <2>5. object[o].state \notin PreExecution
    BY <2>1 DEF PreExecution
  <2>6. call'.todo # "launch"
    BY <2>2, Constants
  <2> HIDE DEF o
  <2> QED
    BY <2>1, <2>2, <2>3, <2>4, <2>5, <2>6, NewGoroutine DEF LoopsKept
<1> QED
  BY <1>1, <1>2, <1>3 DEF Calling

-----------------------------------------------------------------------------
(* Housekeeping and faults.                                                *)

LEMMA HousekeepingKeeps ==
    ASSUME IInv, Age \/ Stall \/ Lapse \/ Expire \/ Retire
    PROVE  IInv'
<1>0. TypeOK /\ claimer \in [Replica -> Claimers]
  BY DEF IInv, TypeOK
<1>1. CASE Age \/ Stall \/ Lapse \/ Expire
  <2>1. /\ UNCHANGED <<status, intake, flag, checkpoint, object, registry, claimer,
                       call, accepted, asked, requests>>
        /\ stale' \in BOOLEAN /\ lease' \in {lease, Nobody}
    BY <1>1, <1>0 DEF Age, Stall, Aged, Lapse, Expire, local, client, TypeOK
  <2>2. faults' \in 0..MaxFaults
    BY <1>1, <1>0, StrikesType DEF Age, Stall, Lapse, Expire, TypeOK
  <2> QED
    BY <2>1, <2>2, <1>0, StoreStep DEF IInv, TypeOK, Reading
<1>2. CASE Retire
  <2>1. Put("none", None, claimer)
    BY <1>2 DEF Retire
  <2>2. /\ status' \in [state : State \cup {"none"}, holder : Replica \cup {None}]
        /\ stale' \in BOOLEAN
        /\ claimer' \in [Replica -> Claimers]
        /\ \A r \in Replica : claimer'[r] = claimer[r] \/ claimer'[r] = Idle
        /\ \A r \in Replica : claimer'[r].at # "claim"
    BY <2>1, <1>0, PutType
  <2>3. /\ intake' = FALSE /\ flag' = FALSE /\ lease' = Nobody
        /\ UNCHANGED <<checkpoint, object, registry, call, accepted, asked, requests, faults>>
    BY <1>2 DEF Retire, client
  <2>4. \A r \in Replica :
           /\ claimer'[r].on \in {claimer[r].on, Nobody}
           /\ claimer'[r].at \in {"launch", "publish"} => claimer'[r] = claimer[r]
    BY <2>2, Constants
  <2> QED
    BY <2>2, <2>3, <2>4, <1>0, StoreStep DEF TypeOK
<1> QED
  BY <1>1, <1>2

LEMMA CrashKeeps ==
    ASSUME IInv, NEW r \in Replica, Crash(r)
    PROVE  IInv'
<1>0. /\ TypeOK /\ faults' \in 0..MaxFaults
      /\ UNCHANGED <<status, stale, intake, flag, checkpoint, accepted, asked, requests>>
  BY StrikesType DEF Crash, IInv
<1>1. /\ object' \in [Object -> Runs]
      /\ \A o \in Object : object'[o] = IF object[o].at = r THEN NoRun ELSE object[o]
  BY <1>0, Constants DEF Crash, TypeOK
<1>2. /\ claimer' \in [Replica -> Claimers] /\ claimer'[r] = Idle
      /\ \A q \in Replica \ {r} : claimer'[q] = claimer[q]
  BY <1>0, Rests DEF Crash
<1>3. /\ registry' \in [Replica -> Object \cup {Nobody}] /\ registry'[r] = Nobody
      /\ \A q \in Replica \ {r} : registry'[q] = registry[q]
  BY <1>0 DEF Crash, TypeOK
<1>4. \/ call' = NoCall
      \/ call' = call /\ (call.on \in Object => object[call.on].at # r)
  <2>1. call' = IF call.on \in Object /\ object[call.on].at = r THEN NoCall ELSE call
    BY DEF Crash
  <2> QED
    BY <2>1
<1>5. lease' \in {lease, Orphan} /\ (lease' \in Object => lease' = lease /\ object[lease].at # r)
  BY Constants DEF Crash
<1>6. \A q \in Replica \ {r} :
         claimer[q].on \in Object => object'[claimer[q].on] = object[claimer[q].on]
  BY <1>1 DEF IInv, Tied
<1>7. TypeOK'
  BY <1>0, <1>1, <1>2, <1>3, <1>4, <1>5, Constants DEF TypeOK
<1>8. OneGoroutine'
  BY <1>2, <1>6, Constants DEF IInv, OneGoroutine, Tied
<1>9. Tied'
  <2>1. \A q \in Replica \ {r} : registry[q] \in Object => object'[registry[q]].at = q
    BY <1>1 DEF IInv, Tied
  <2> QED
    BY <2>1, <1>2, <1>3, <1>4, <1>6, Constants DEF IInv, Tied
<1>10. Started'
  BY <1>1, <1>2, <1>6, Constants DEF IInv, Started, Tied
<1>11. Resuming'
  <2>1. ASSUME call'.todo = "launch"
        PROVE  call' = call /\ call.on \in Object /\ object'[call.on] = object[call.on]
    BY <2>1, <1>1, <1>4, Constants DEF IInv, Tied
  <2> QED
    BY <2>1, <1>2, Constants DEF IInv, Resuming
<1>12. Reading'
  BY <1>0, <1>2, Constants DEF IInv, Reading
<1> QED
  BY <1>7, <1>8, <1>9, <1>10, <1>11, <1>12 DEF IInv

-----------------------------------------------------------------------------
LEMMA InitInvariant == Init => IInv
<1> SUFFICES ASSUME Init PROVE IInv
  OBVIOUS
<1>1. TypeOK
  <2>1. status \in [state : State \cup {"none"}, holder : Replica \cup {None}]
    BY DEF Init
  <2>2. /\ lease = Nobody /\ call \in Calls
        /\ requests \in 0..MaxRequests /\ faults \in 0..MaxFaults
    BY Constants DEF Init
  <2>3. /\ object \in [Object -> Runs]
        /\ registry \in [Replica -> Object \cup {Nobody}]
        /\ claimer \in [Replica -> Claimers]
    BY Constants DEF Init
  <2>4. /\ stale \in BOOLEAN /\ intake \in BOOLEAN /\ flag \in BOOLEAN
        /\ checkpoint \in BOOLEAN /\ accepted \in BOOLEAN /\ asked \in BOOLEAN
    BY DEF Init
  <2> QED
    BY <2>1, <2>2, <2>3, <2>4, Constants DEF TypeOK
<1>2. OneGoroutine /\ Tied /\ Started /\ Resuming /\ Reading
  BY Constants DEF Init, OneGoroutine, Tied, Started, Resuming, Reading
<1> QED
  BY <1>1, <1>2 DEF IInv

LEMMA NextKeeps == IInv /\ [Next]_vars => IInv'
<1> SUFFICES ASSUME IInv, [Next]_vars PROVE IInv'
  OBVIOUS
<1>1. CASE Calling
  BY <1>1, CallingKeeps
<1>2. CASE \E r \in Replica :
              \/ RunStart(r) \/ Reconstruct(r) \/ RunStatus(r) \/ RunCancel(r) \/ RunResume(r)
              \/ ClaimLoop(r) \/ Crash(r)
  BY <1>2, RunStartKeeps, ReconstructKeeps, RunStatusKeeps, RunCancelKeeps, RunResumeKeeps,
     ClaimLoopSteps, CrashKeeps
<1>3. CASE \E o \in Object : Goroutines(o)
  BY <1>3, GoroutineSteps
<1>4. CASE Age \/ Stall \/ Lapse \/ Expire \/ Retire
  BY <1>4, HousekeepingKeeps
<1>5. CASE UNCHANGED vars
  BY <1>5 DEF vars, store, local, client, IInv, TypeOK, OneGoroutine, Tied, Started, Resuming,
              Reading, Needed
<1> QED
  BY <1>1, <1>2, <1>3, <1>4, <1>5 DEF Next

\* The inductive invariant of the specification.
THEOREM DurableInvariant == Spec => []IInv
BY InitInvariant, NextKeeps, PTL DEF Spec

\* For any number of replicas and asyncRuns every variable keeps its type, and a
\* lease in a worker's name is held by a goroutine that executes or ends (execRun's
\* deferred release).
THEOREM DurableTypeCorrect == Spec => []TypeOK
<1>1. IInv => TypeOK
  BY DEF IInv
<1> QED
  BY <1>1, DurableInvariant, PTL

\* Whatever is requested, crashes or stalls, runForClaimed never gives the claim loop
\* an asyncRun that already has a goroutine.
THEOREM NoSecondGoroutine == Spec => []OneGoroutine
<1>1. IInv => OneGoroutine
  BY DEF IInv
<1> QED
  BY <1>1, DurableInvariant, PTL

\* However many claim loops read the run as pending, and whatever is written in
\* between, claimNextCAS wins it only while it is pending.
THEOREM ClaimsWonFromPending == Spec => ClaimsPending
<1>1. ASSUME IInv, [Next]_vars
      PROVE  [\A r \in Replica :
                 claimer'[r].at = "claimed" /\ claimer[r].at # "claimed"
                    => status.state = "pending"]_vars
  <2> SUFFICES ASSUME NEW r \in Replica, claimer'[r].at = "claimed", claimer[r].at # "claimed"
               PROVE  claimer[r].at = "claim"
    BY <1>1 DEF IInv, Reading
  <2>0. TypeOK /\ claimer \in [Replica -> Claimers]
    BY <1>1 DEF IInv, TypeOK
  <2>1. CASE Calling
    <3>1. UNCHANGED claimer \/ \E o \in Object, state \in State : Publish(state, o, claimer)
      BY <1>1, <2>1, Fields DEF Calling, Accept, CancelPublish, CancelFlag, Launch, local, IInv, Tied
    <3> QED
      BY <3>1, <2>0, PublishType, Constants
  <2>2. CASE \E q \in Replica :
                \/ RunStart(q) \/ Reconstruct(q) \/ RunStatus(q) \/ RunCancel(q) \/ RunResume(q)
    BY <2>2 DEF RunStart, Reconstruct, RunStatus, RunCancel, RunResume
  <2>3. CASE \E q \in Replica : Crash(q)
    BY <2>3, <2>0, Rests, Constants DEF Crash
  <2>4. CASE \E q \in Replica : ClaimLoop(q)
    <3>1. PICK q \in Replica : ClaimLoop(q)
      BY <2>4
    <3>2. CASE ReconcileList(q) \/ ReconcilePeek(q) \/ ReconcileGet(q) \/ ClaimRead(q)
      <4>1. \/ claimer' = Resting(q)
            \/ \E label \in {"peek", "get", "back", "claim"} : claimer' = At(q, label)
        BY <3>2 DEF ReconcileList, ReconcilePeek, ReconcileGet, ClaimRead
      <4>2. CASE claimer' = Resting(q)
        BY <4>2, <2>0, Rests, Constants
      <4>3. CASE \E label \in {"peek", "get", "back", "claim"} : claimer' = At(q, label)
        BY <4>3, <2>0 DEF At, Claimers
      <4> QED
        BY <4>1, <4>2, <4>3
    <3>3. CASE ReconcileSwap(q) \/ FailClaimed(q)
      BY <3>3, <2>0, Rests, Constants DEF ReconcileSwap, FailClaimed, Put, Overtaken
    <3>4. CASE ClaimSwap(q)
      BY <3>4, <2>0, Constants DEF ClaimSwap, Put, Overtaken, At, Claimers
    <3>5. CASE RunForClaimed(q)
      BY <3>5, <2>0 DEF RunForClaimed, Rebuild, Launches
    <3>6. CASE RunClaimed(q)
      BY <3>6, <2>0 DEF RunClaimed, At, Claimers
    <3>7. CASE ClaimedPublish(q)
      <4>1. claimer[q].on \in Object
        BY <1>1, <3>7 DEF ClaimedPublish, IInv, Tied
      <4>2. Publish(object[claimer[q].on].state, claimer[q].on, Resting(q))
        BY <3>7 DEF ClaimedPublish
      <4> QED
        BY <4>1, <4>2, <2>0, Fields, Rests, PublishType, Constants
    <3> QED
      BY <3>1, <3>2, <3>3, <3>4, <3>5, <3>6, <3>7 DEF ClaimLoop
  <2>5. CASE \E o \in Object : Goroutines(o)
    <3>1. UNCHANGED claimer \/ \E o \in Object, state \in State : Publish(state, o, claimer)
      BY <2>5, <2>0, Fields
         DEF Goroutines, Acquire, AcquireFails, Begin, NextStep, OnStep, Watch, Heartbeat,
             Completes, Pauses, Fails, Stops, Ends, PublishFinal, Release
    <3> QED
      BY <3>1, <2>0, PublishType, Constants
  <2>6. CASE Age \/ Stall \/ Lapse \/ Expire \/ Retire
    BY <2>6, <2>0, Constants DEF Age, Stall, Aged, Lapse, Expire, Retire, Put, Overtaken, local
  <2>7. CASE UNCHANGED vars
    BY <2>7 DEF vars, local
  <2> QED
    BY <1>1, <2>1, <2>2, <2>3, <2>4, <2>5, <2>6, <2>7 DEF Next
<1> QED
  BY <1>1, DurableInvariant, PTL DEF Spec, ClaimsPending

-----------------------------------------------------------------------------
(* A cancelled goroutine.                                                  *)

CancelKept(o) == object[o].pc # "idle" /\ object[o].cancelled
                    => object'[o].cancelled \/ object'[o].pc = "idle"

\* A step that writes one asyncRun, or none, keeps what the others are told.
LEMMA OneWrite ==
    ASSUME TypeOK, NEW p \in Object, NEW new,
           object' = [object EXCEPT ![p] = new],
           object[p].pc = "idle" \/ new.cancelled \/ new.pc = "idle" \/ ~object[p].cancelled,
           NEW o \in Object
    PROVE  CancelKept(o)
BY DEF CancelKept, TypeOK

LEMMA NoWrite ==
    ASSUME object' = object, NEW o \in Object
    PROVE  CancelKept(o)
BY DEF CancelKept

\* A place is reused only for a new asyncRun when no goroutine has it.
LEMMA FreshWrite ==
    ASSUME TypeOK, NEW r \in Replica, NEW p \in Object, NewObject(r, p), NEW new,
           object' = [object EXCEPT ![p] = new], NEW o \in Object
    PROVE  CancelKept(o)
BY OneWrite DEF NewObject, Unused

LEMMA GoroutineCancel ==
    ASSUME TypeOK, NEW p \in Object, Goroutines(p), NEW o \in Object
    PROVE  CancelKept(o)
<1>1. object \in [Object -> Runs] /\ object[p] \in Runs
  BY Fields DEF TypeOK
<1>2. ASSUME NEW label, Goto(p, label)
      PROVE  CancelKept(o)
  BY <1>1, <1>2 DEF Goto, CancelKept, Runs
<1>3. ASSUME NEW state, NEW label, Becomes(p, state, label)
      PROVE  CancelKept(o)
  BY <1>1, <1>3 DEF Becomes, CancelKept, Runs
<1>4. CASE Acquire(p) \/ AcquireFails(p) \/ NextStep(p)
  BY <1>3, <1>4 DEF Acquire, AcquireFails, NextStep
<1>5. CASE Begin(p) \/ PublishFinal(p)
  BY <1>2, <1>5 DEF Begin, PublishFinal
<1>6. CASE Completes(p) \/ Pauses(p) \/ Fails(p) \/ Stops(p)
  BY <1>3, <1>6 DEF Completes, Pauses, Fails, Stops, Ends
<1>7. CASE OnStep(p)
  <2>1. \/ Goto(p, "work")
        \/ object' = [object EXCEPT ![p].pc = "work", ![p].cancelled = TRUE,
                                    ![p].state = CancelledState(@)]
    BY <1>7 DEF OnStep
  <2> QED
    BY <1>1, <1>2, <2>1 DEF CancelKept, Runs
<1>8. CASE Watch(p) \/ Heartbeat(p)
  BY <1>1, <1>8 DEF Watch, Heartbeat, CancelKept, Runs
<1>9. CASE Release(p)
  <2>1. object' = [object EXCEPT ![p] = [object[p] EXCEPT !.pc = "idle", !.cancelled = FALSE]]
        \/ object' = [object EXCEPT ![p] = NoRun]
    BY <1>9 DEF Release
  <2>2. [object[p] EXCEPT !.pc = "idle", !.cancelled = FALSE].pc = "idle"
    BY <1>1 DEF Runs
  <2> QED
    BY <2>1, <2>2, OneWrite, Constants
<1> QED
  BY <1>4, <1>5, <1>6, <1>7, <1>8, <1>9 DEF Goroutines

LEMMA RequestCancelled ==
    ASSUME TypeOK, NEW r \in Replica, NEW o \in Object,
           RunStart(r) \/ Reconstruct(r) \/ RunStatus(r) \/ RunCancel(r) \/ RunResume(r)
    PROVE  CancelKept(o)
<1>1. object \in [Object -> Runs] /\ registry \in [Replica -> Object \cup {Nobody}]
  BY DEF TypeOK
<1>2. CASE RunStart(r)
  BY <1>2, FreshWrite DEF RunStart, Accepting, FallingBack, Registers
<1>3. CASE Reconstruct(r)
  BY <1>3, FreshWrite DEF Reconstruct
<1>4. CASE RunStatus(r)
  BY <1>1, <1>4 DEF RunStatus, CancelKept, Runs
<1>5. CASE RunCancel(r)
  BY <1>1, <1>5 DEF RunCancel, CancelKept, Runs
<1>6. CASE RunResume(r)
  BY <1>1, <1>6 DEF RunResume, CancelKept, Runs
<1> QED
  BY <1>2, <1>3, <1>4, <1>5, <1>6

LEMMA CallingCancel ==
    ASSUME TypeOK, Calling, NEW o \in Object
    PROVE  CancelKept(o)
<1>1. object \in [Object -> Runs]
  BY DEF TypeOK
<1>2. CASE Accept \/ CancelPublish \/ CancelFlag
  BY <1>2, NoWrite DEF Accept, CancelPublish, CancelFlag, local
<1>3. CASE Launch
  BY <1>1, <1>3 DEF Launch, Goto, CancelKept, Runs
<1> QED
  BY <1>2, <1>3 DEF Calling

\* The claim loop gives a fresh context to the asyncRun it launches, which has no goroutine.
LEMMA ClaimLoopCancel ==
    ASSUME IInv, NEW r \in Replica, ClaimLoop(r), NEW o \in Object
    PROVE  CancelKept(o)
<1>1. TypeOK /\ object \in [Object -> Runs]
  BY DEF IInv, TypeOK
<1>2. CASE \/ ReconcileList(r) \/ ReconcilePeek(r) \/ ReconcileGet(r) \/ ReconcileSwap(r)
           \/ ClaimRead(r) \/ ClaimSwap(r) \/ FailClaimed(r)
  BY <1>2, NoWrite DEF ReconcileList, ReconcilePeek, ReconcileGet, ReconcileSwap, ClaimRead,
     ClaimSwap, FailClaimed
<1>3. CASE RunForClaimed(r)
  <2>1. CASE Rebuild(r)
    <3>1. PICK p \in Object :
             /\ NewObject(r, p)
             /\ object' = [Unregistered(r) EXCEPT ![p] =
                   [NoRun EXCEPT !.at = r, !.mine = TRUE, !.state = "claimed"]]
      BY <2>1 DEF Rebuild
    <3>2. o # p => object'[o] = NoRun \/ object'[o] = object[o]
      BY <3>1 DEF Unregistered
    <3> QED
      BY <3>1, <3>2, Constants DEF CancelKept, NewObject, Unused
  <2>2. CASE object' = [object EXCEPT ![registry[r]].mine = TRUE]
    BY <1>1, <2>2 DEF CancelKept, Runs
  <2> QED
    BY <1>3, <2>1, <2>2 DEF RunForClaimed
<1>4. CASE RunClaimed(r)
  <2>1. claimer[r].on \in Object /\ object[claimer[r].on].pc = "idle"
    BY <1>4 DEF RunClaimed, IInv, Tied, OneGoroutine
  <2> QED
    BY <1>1, <1>4, <2>1 DEF RunClaimed, CancelKept, Runs
<1>5. CASE ClaimedPublish(r)
  BY <1>1, <1>5 DEF ClaimedPublish, Goto, CancelKept, Runs
<1> QED
  BY <1>2, <1>3, <1>4, <1>5 DEF ClaimLoop

CancelHolds == [][\A o \in Object : CancelKept(o)]_vars

\* The context of a running goroutine, once cancelled, stays so until the goroutine is
\* over: neither runClaimed nor a run/resume, whose fresh context replaces the one of
\* an asyncRun, takes back what the client, the watcher or the heartbeat has cancelled.
THEOREM CancelledUntilOver == Spec => CancelHolds
<1>1. ASSUME IInv, [Next]_vars
      PROVE  [\A o \in Object : CancelKept(o)]_vars
  <2> SUFFICES ASSUME NEW o \in Object, Next
               PROVE  CancelKept(o)
    BY <1>1
  <2>0. TypeOK
    BY <1>1 DEF IInv
  <2>1. CASE Calling
    BY <2>0, <2>1, CallingCancel
  <2>2. CASE \E r \in Replica :
                \/ RunStart(r) \/ Reconstruct(r) \/ RunStatus(r) \/ RunCancel(r) \/ RunResume(r)
    BY <2>0, <2>2, RequestCancelled
  <2>3. CASE \E r \in Replica : ClaimLoop(r)
    BY <1>1, <2>3, ClaimLoopCancel
  <2>4. CASE \E r \in Replica : Crash(r)
    BY <2>4, Constants DEF Crash, CancelKept
  <2>5. CASE \E p \in Object : Goroutines(p)
    BY <2>0, <2>5, GoroutineCancel
  <2>6. CASE Age \/ Stall \/ Lapse \/ Expire \/ Retire
    BY <2>6, NoWrite DEF Age, Stall, Aged, Lapse, Expire, Retire, local
  <2> QED
    BY <2>1, <2>2, <2>3, <2>4, <2>5, <2>6 DEF Next
<1> QED
  BY <1>1, DurableInvariant, PTL DEF Spec, CancelHolds
=============================================================================
