---------------------------- MODULE RunSlotsProofs ----------------------------
(***************************************************************************)
(* Theorems about RunSlots, for any number of runs, calls, slots and legs. *)
(***************************************************************************)
EXTENDS RunSlots, FiniteSetTheorems, TLAPS

USE SlotsAssumption

-----------------------------------------------------------------------------
(* The inductive invariant.                                                *)

\* The legs past the latest have not been made.
Fresh == \A r \in Runs, k \in Leg : k > run[r].last => leg[r][k].pc = "none"

IInv == TypeOK /\ SlotsConserved /\ WorkingIsDriven /\ Fresh

Label == {"none", "launching", "waiting", "granted", "starting", "exec", "leaving", "over"}
Legs == [Runs -> [Leg -> LegRecords]]
Weight(pc) == IF pc \in Holding THEN 1 ELSE 0
Driving == {"launching", "starting", "exec"}

-----------------------------------------------------------------------------
(* Types and counts.                                                       *)

LEMMA Fields ==
    ASSUME TypeOK, NEW r \in Runs
    PROVE  /\ run \in [Runs -> RunRecords] /\ leg \in Legs
           /\ run[r] \in RunRecords /\ run[r].last \in 0..MaxLegs
           /\ leg[r] \in [Leg -> LegRecords]
           /\ \A k \in Leg : leg[r][k] \in LegRecords /\ leg[r][k].pc \in Label
           /\ \A k \in Leg : leg[r][k].own \in 0..MaxLegs
BY DEF TypeOK, RunRecords, LegRecords, Legs, Label

LEMMA Finite ==
    /\ IsFiniteSet(HoldingLegs) /\ Cardinality(HoldingLegs) \in Nat
    /\ IsFiniteSet(HoldingCalls) /\ Cardinality(HoldingCalls) \in Nat
    /\ Cardinality(HoldingLegs') \in Nat /\ Cardinality(HoldingCalls') \in Nat
<1>1. IsFiniteSet(Runs \X Leg)
  <2>1. IsFiniteSet(Leg) /\ IsFiniteSet(Runs)
    BY FS_Interval DEF Leg
  <2> QED
    BY <2>1, FS_Product
<1>2. /\ HoldingLegs \in SUBSET (Runs \X Leg) /\ HoldingCalls \in SUBSET Calls
      /\ HoldingLegs' \in SUBSET (Runs \X Leg) /\ HoldingCalls' \in SUBSET Calls
  BY DEF HoldingLegs, HoldingCalls
<1> QED
  BY <1>1, <1>2, FS_Subset, FS_CardinalityType

\* In new the leg (r, k) is at pc, and the others are where they were.
Moves(new, r, k, pc) ==
    /\ new \in Legs /\ new[r][k].pc = pc
    /\ \A q \in Runs, j \in Leg : q # r \/ j # k => new[q][j].pc = leg[q][j].pc

Moved(r, k, pc) == Moves(leg', r, k, pc)

\* One leg that moves changes the count by itself.
LEMMA MovedCounts ==
    ASSUME TypeOK, NEW r \in Runs, NEW k \in Leg, NEW pc \in Label, Moved(r, k, pc)
    PROVE  Cardinality(HoldingLegs') =
              Cardinality(HoldingLegs) + Weight(pc) - Weight(leg[r][k].pc)
<1> DEFINE x == <<r, k>>
<1>1. x \in HoldingLegs <=> leg[r][k].pc \in Holding
  BY DEF HoldingLegs
<1>2. x \in HoldingLegs' <=> pc \in Holding
  BY DEF HoldingLegs, Moved, Moves, Holding
<1>3. ASSUME NEW p \in Runs \X Leg, p # x
      PROVE  p \in HoldingLegs' <=> p \in HoldingLegs
  <2>1. PICK q \in Runs, j \in Leg : p = <<q, j>>
    OBVIOUS
  <2> QED
    BY <1>3, <2>1 DEF HoldingLegs, Moved, Moves, Holding
<1>4. HoldingLegs \subseteq Runs \X Leg /\ HoldingLegs' \subseteq Runs \X Leg /\ x \in Runs \X Leg
  BY DEF HoldingLegs
<1> HIDE DEF x
<1>5. CASE pc \in Holding /\ leg[r][k].pc \notin Holding
  <2>1. HoldingLegs' = HoldingLegs \cup {x} /\ x \notin HoldingLegs
    BY <1>1, <1>2, <1>3, <1>4, <1>5
  <2>2. Cardinality(HoldingLegs') = Cardinality(HoldingLegs) + 1
    BY <2>1, Finite, FS_AddElement
  <2> QED
    BY <1>5, <2>2, Finite DEF Weight
<1>6. CASE pc \notin Holding /\ leg[r][k].pc \in Holding
  <2>1. HoldingLegs' = HoldingLegs \ {x} /\ x \in HoldingLegs
    BY <1>1, <1>2, <1>3, <1>4, <1>6
  <2>2. Cardinality(HoldingLegs') = Cardinality(HoldingLegs) - 1
    BY <2>1, Finite, FS_RemoveElement
  <2> QED
    BY <1>6, <2>2, Finite DEF Weight
<1>7. CASE pc \in Holding <=> leg[r][k].pc \in Holding
  <2>1. HoldingLegs' = HoldingLegs
    BY <1>1, <1>2, <1>3, <1>4, <1>7
  <2> QED
    BY <1>7, <2>1, Finite DEF Weight
<1> QED
  BY <1>5, <1>6, <1>7

\* A leg that moves with the slot it takes or gives back, and with a run that says it is
\* working only if that leg drives it, or another does.
LEMMA LegKeeps ==
    ASSUME IInv, NEW r \in Runs, NEW k \in Leg, NEW pc \in Label, Moved(r, k, pc),
           k <= run'[r].last,
           call' = call, server' \in {"serving", "draining", "cancelled", "crashed"},
           run' \in [Runs -> RunRecords],
           \A q \in Runs : run'[q].last >= run[q].last,
           sem' = sem + Weight(pc) - Weight(leg[r][k].pc), sem' <= Slots,
           \A q \in Runs :
              run'[q].state = "working" =>
                 \/ q = r /\ pc \in Driving
                 \/ run[q].state = "working" /\ (q # r \/ leg[r][k].pc \notin Driving)
    PROVE  IInv'
<1>1. TypeOK /\ SlotsConserved /\ sem \in Nat
  BY DEF IInv, TypeOK
<1>2. HoldingCalls' = HoldingCalls
  BY DEF HoldingCalls
<1>3. SlotsConserved'
  <2>1. Cardinality(HoldingLegs') =
           Cardinality(HoldingLegs) + Weight(pc) - Weight(leg[r][k].pc)
    BY <1>1, MovedCounts
  <2>2. sem = Cardinality(HoldingLegs) + Cardinality(HoldingCalls)
    BY <1>1 DEF SlotsConserved
  <2>3. Weight(pc) \in Nat /\ Weight(leg[r][k].pc) \in Nat
    BY DEF Weight
  <2>4. sem' = Cardinality(HoldingLegs') + Cardinality(HoldingCalls')
    BY <1>2, <2>1, <2>2, <2>3, Finite
  <2> QED
    BY <2>4 DEF SlotsConserved
<1>5. sem' \in 0..Slots
  BY <1>1, <1>3, Finite DEF SlotsConserved
<1>6. TypeOK'
  BY <1>1, <1>5 DEF TypeOK, Moved, Moves, Legs
<1>7. WorkingIsDriven'
  <2> SUFFICES ASSUME NEW q \in Runs, run'[q].state = "working"
               PROVE  \E j \in Leg : leg'[q][j].pc \in Driving
    BY DEF WorkingIsDriven, Driving
  <2>1. CASE q = r /\ pc \in Driving
    BY <2>1 DEF Moved, Moves
  <2>2. CASE run[q].state = "working" /\ (q # r \/ leg[r][k].pc \notin Driving)
    <3>1. PICK j \in Leg : leg[q][j].pc \in Driving
      BY <2>2 DEF IInv, WorkingIsDriven, Driving
    <3>2. q # r \/ j # k
      BY <2>2, <3>1
    <3> QED
      BY <3>1, <3>2 DEF Moved, Moves
  <2> QED
    BY <2>1, <2>2
<1>8. Fresh'
  <2> SUFFICES ASSUME NEW q \in Runs, NEW j \in Leg, j > run'[q].last
               PROVE  leg'[q][j].pc = "none"
    BY DEF Fresh
  <2>1. run[q].last \in Nat /\ run'[q].last \in Nat /\ j \in Nat /\ k \in Nat
    BY <1>1, Fields DEF Leg, RunRecords
  <2>2. j > run[q].last /\ (q # r \/ j # k)
    BY <2>1
  <2> QED
    BY <2>2 DEF IInv, Fresh, Moved, Moves
<1> QED
  BY <1>3, <1>6, <1>7, <1>8 DEF IInv

LEMMA ChangedType ==
    ASSUME TypeOK, NEW r \in Runs, NEW k \in Leg, NEW new \in LegRecords
    PROVE  Moves([leg EXCEPT ![r][k] = new], r, k, new.pc)
<1>1. leg \in Legs /\ leg[r] \in [Leg -> LegRecords]
  BY Fields
<1>2. [leg[r] EXCEPT ![k] = new] \in [Leg -> LegRecords]
  BY <1>1
<1> QED
  BY <1>1, <1>2 DEF Moves, Legs

LEMMA WithType ==
    ASSUME TypeOK, NEW r \in Runs, NEW k \in Leg, NEW pc \in Label
    PROVE  Moves(With(r, k, pc), r, k, pc)
<1> DEFINE new == [leg[r][k] EXCEPT !.pc = pc]
<1>1. new \in LegRecords /\ new.pc = pc
  BY Fields DEF LegRecords, Label
<1>2. With(r, k, pc) = [leg EXCEPT ![r][k] = new]
  BY DEF With
<1> HIDE DEF new
<1> QED
  BY <1>1, <1>2, ChangedType

\* What a panic, or a close, leaves of next.
LEMMA ClosesType ==
    ASSUME TypeOK, NEW r \in Runs, NEW k \in Leg, NEW pc \in Label, NEW j \in 0..MaxLegs,
           NEW next, Moves(next, r, k, pc), Closes(r, j, next)
    PROVE  Moved(r, k, pc) /\ server' \in {"serving", "draining", "cancelled", "crashed"}
<1>1. server \in {"serving", "draining", "cancelled", "crashed"}
  BY DEF TypeOK
<1>2. CASE leg[r][j].closed
  BY <1>1, <1>2 DEF Closes, Moved
<1>3. CASE ~leg[r][j].closed
  <2>1. server' = server /\ leg' = [next EXCEPT ![r][j].closed = TRUE]
    BY <1>3 DEF Closes
  <2>2. next \in Legs /\ next[r] \in [Leg -> LegRecords]
    BY DEF Moves, Legs
  <2>3. CASE j \in Leg
    <3> DEFINE new == [next[r][j] EXCEPT !.closed = TRUE]
    <3>1. new \in LegRecords /\ new.pc = next[r][j].pc
      BY <2>2, <2>3 DEF LegRecords
    <3>2. leg' = [next EXCEPT ![r][j] = new]
      BY <2>1
    <3> HIDE DEF new
    <3>3. [next[r] EXCEPT ![j] = new] \in [Leg -> LegRecords]
      BY <2>2, <3>1
    <3>4. leg' \in Legs
      BY <2>2, <3>2, <3>3 DEF Legs
    <3>5. \A q \in Runs, i \in Leg : leg'[q][i].pc = next[q][i].pc
      BY <2>2, <2>3, <3>1, <3>2 DEF Legs
    <3> QED
      BY <1>1, <2>1, <3>4, <3>5 DEF Moved, Moves
  <2>4. CASE j \notin Leg
    <3>1. leg' = next
      BY <2>1, <2>2, <2>4 DEF Legs
    <3> QED
      BY <1>1, <2>1, <3>1 DEF Moved
  <2> QED
    BY <2>3, <2>4
<1> QED
  BY <1>2, <1>3

LEMMA BeginType ==
    ASSUME TypeOK, NEW r \in Runs, NEW k \in Leg, Begin(r, k)
    PROVE  Moved(r, k, "exec")
<1> DEFINE new == [leg[r][k] EXCEPT !.pc = "exec", !.own = run[r].last]
<1>0. leg[r][k] \in LegRecords /\ run[r].last \in 0..MaxLegs
  BY Fields
<1>1. new \in LegRecords /\ new.pc = "exec"
  BY <1>0 DEF LegRecords
<1>2. leg' = [leg EXCEPT ![r][k] = new]
  BY DEF Begin
<1> HIDE DEF new
<1> QED
  BY <1>1, <1>2, ChangedType DEF Moved

\* A run that changes its state, or has nothing changed.
LEMMA StateType ==
    ASSUME TypeOK, NEW r \in Runs, NEW state \in {"queued", "working"} \cup Stopped,
           run' = [run EXCEPT ![r].state = state]
    PROVE  /\ run' \in [Runs -> RunRecords] /\ run'[r].state = state
           /\ \A q \in Runs : run'[q].last = run[q].last
           /\ \A q \in Runs \ {r} : run'[q] = run[q]
<1> DEFINE new == [run[r] EXCEPT !.state = state]
<1>1. new \in RunRecords /\ new.state = state /\ new.last = run[r].last
  BY Fields DEF RunRecords
<1>2. run' = [run EXCEPT ![r] = new]
  OBVIOUS
<1> HIDE DEF new
<1>3. run \in [Runs -> RunRecords]
  BY Fields
<1>4. /\ run' \in [Runs -> RunRecords] /\ run'[r] = new
      /\ \A q \in Runs \ {r} : run'[q] = run[q]
  BY <1>1, <1>2, <1>3
<1> QED
  BY <1>1, <1>4

-----------------------------------------------------------------------------
(* Every action preserves the invariant.                                   *)

LEMMA InitInvariant == Init => IInv
<1> SUFFICES ASSUME Init PROVE IInv
  OBVIOUS
<1>1. NoLeg \in LegRecords /\ NoLeg.pc = "none"
  BY DEF NoLeg, LegRecords
<1>2. TypeOK
  BY <1>1 DEF Init, TypeOK, RunRecords
<1>3. HoldingLegs = {} /\ HoldingCalls = {}
  BY <1>1 DEF Init, HoldingLegs, HoldingCalls, Holding
<1>4. SlotsConserved
  BY <1>3, FS_EmptySet DEF Init, SlotsConserved
<1>5. WorkingIsDriven /\ Fresh
  BY <1>1 DEF Init, WorkingIsDriven, Fresh
<1> QED
  BY <1>2, <1>4, <1>5 DEF IInv

\* A leg that has been made is not past the latest.
LEMMA MadeInTurn ==
    ASSUME IInv, NEW r \in Runs, NEW k \in Leg, leg[r][k].pc # "none"
    PROVE  k <= run[r].last /\ TypeOK
BY Fields DEF IInv, Fresh, Leg

LEMMA LaunchKeeps ==
    ASSUME IInv, NEW r \in Runs, NEW k \in Leg, LaunchNow(r, k) \/ LaunchLater(r, k)
    PROVE  IInv'
<1>1. /\ leg[r][k].pc = "launching" /\ call' = call
      /\ server' \in {"serving", "draining", "cancelled", "crashed"}
      /\ k <= run[r].last /\ TypeOK /\ sem \in 0..Slots
  BY MadeInTurn DEF LaunchNow, LaunchLater, IInv, TypeOK
<1>2. CASE LaunchNow(r, k)
  <2>1. Moved(r, k, "starting")
    BY <1>1, <1>2, WithType DEF LaunchNow, With, Moved, Label
  <2>2. /\ run' \in [Runs -> RunRecords] /\ run'[r].state = "working"
        /\ \A q \in Runs : run'[q].last = run[q].last
        /\ \A q \in Runs \ {r} : run'[q] = run[q]
    BY <1>1, <1>2, StateType DEF LaunchNow
  <2>3. sem' = sem + Weight("starting") - Weight(leg[r][k].pc) /\ sem' <= Slots
    BY <1>1, <1>2 DEF LaunchNow, Free, Weight, Holding
  <2>4. "starting" \in Label /\ "starting" \in Driving
    BY DEF Label, Driving
  <2> QED
    BY <1>1, <2>1, <2>2, <2>3, <2>4, Fields, LegKeeps DEF RunRecords
<1>3. CASE LaunchLater(r, k)
  <2>1. Moved(r, k, "waiting")
    BY <1>1, <1>3, WithType DEF LaunchLater, With, Moved, Label
  <2>2. /\ run' \in [Runs -> RunRecords] /\ run'[r].state = "queued"
        /\ \A q \in Runs : run'[q].last = run[q].last
        /\ \A q \in Runs \ {r} : run'[q] = run[q]
    BY <1>1, <1>3, StateType DEF LaunchLater
  <2>3. sem' = sem + Weight("waiting") - Weight(leg[r][k].pc) /\ sem' <= Slots
    BY <1>1, <1>3 DEF LaunchLater, Weight, Holding
  <2>4. "waiting" \in Label
    BY DEF Label
  <2> QED
    BY <1>1, <2>1, <2>2, <2>3, <2>4, Fields, LegKeeps DEF RunRecords
<1> QED
  BY <1>2, <1>3

LEMMA TakeKeeps ==
    ASSUME IInv, NEW r \in Runs, NEW k \in Leg, Take(r, k)
    PROVE  IInv'
<1>1. /\ k <= run[r].last /\ TypeOK /\ sem \in 0..Slots /\ run \in [Runs -> RunRecords]
      /\ server' \in {"serving", "draining", "cancelled", "crashed"}
  BY MadeInTurn DEF Take, IInv, TypeOK
<1>2. "granted" \in Label /\ Moved(r, k, "granted")
  BY <1>1, WithType DEF Take, Moved, Label
<1>3. sem' = sem + Weight("granted") - Weight(leg[r][k].pc) /\ sem' <= Slots
  BY <1>1 DEF Take, Free, Weight, Holding
<1>4. leg[r][k].pc \notin Driving /\ run' = run /\ call' = call
  BY DEF Take, Driving
<1> QED
  BY <1>1, <1>2, <1>3, <1>4, LegKeeps DEF RunRecords

LEMMA OverKeeps ==
    ASSUME IInv, NEW r \in Runs, NEW k \in Leg, GiveUp(r, k) \/ Withdraw(r, k)
    PROVE  IInv'
<1>1. /\ leg[r][k].pc \in {"waiting", "granted"} /\ call' = call
      /\ k <= run[r].last /\ TypeOK /\ sem \in 0..Slots /\ run \in [Runs -> RunRecords]
  BY MadeInTurn DEF GiveUp, Withdraw, IInv, TypeOK
<1>2. run[r].last \in 0..MaxLegs /\ run[r].state \in {"queued", "working"} \cup Stopped
  BY <1>1, Fields DEF RunRecords
<1>3. "over" \in Label /\ Moves(With(r, k, "over"), r, k, "over")
  BY <1>1, WithType DEF Label
<1>4. Moved(r, k, "over") /\ server' \in {"serving", "draining", "cancelled", "crashed"}
  BY <1>1, <1>2, <1>3, ClosesType DEF GiveUp, Withdraw
<1>5. sem' = sem + Weight("over") - Weight(leg[r][k].pc) /\ sem' <= Slots
  BY <1>1 DEF GiveUp, Withdraw, Weight, Holding
<1>6. /\ run' \in [Runs -> RunRecords]
      /\ \A q \in Runs : run'[q].last = run[q].last
      /\ \A q \in Runs : run'[q].state = "working" => run[q].state = "working"
  <2>1. CASE run' = run
    BY <1>1, <2>1
  <2>2. CASE GiveUp(r, k)
    <3> DEFINE state == IF run[r].state = "queued" THEN "canceled" ELSE run[r].state
    <3>1. state \in {"queued", "working"} \cup Stopped
      BY <1>2 DEF Stopped
    <3>2. run' = [run EXCEPT ![r].state = state]
      BY <2>2, <1>1 DEF GiveUp
    <3>3. state = "working" => run[r].state = "working"
      OBVIOUS
    <3> HIDE DEF state
    <3> QED
      BY <1>1, <3>1, <3>2, <3>3, StateType
  <2> QED
    BY <2>1, <2>2 DEF Withdraw
<1>7. leg[r][k].pc \notin Driving
  BY <1>1 DEF Driving
<1>8. k <= run'[r].last /\ \A q \in Runs : run'[q].last >= run[q].last
  BY <1>1, <1>2, <1>6, Fields
<1> QED
  BY <1>1, <1>3, <1>4, <1>5, <1>6, <1>7, <1>8, LegKeeps

LEMMA BeginKeeps ==
    ASSUME IInv, NEW r \in Runs, NEW k \in Leg, TurnWorking(r, k) \/ BeginNow(r, k)
    PROVE  IInv'
<1>1. /\ leg[r][k].pc \in {"granted", "starting"} /\ call' = call
      /\ server' \in {"serving", "draining", "cancelled", "crashed"}
      /\ k <= run[r].last /\ TypeOK /\ sem \in 0..Slots /\ run \in [Runs -> RunRecords]
  BY MadeInTurn DEF TurnWorking, BeginNow, IInv, TypeOK
<1>2. "exec" \in Label /\ "exec" \in Driving /\ Moved(r, k, "exec")
  BY <1>1, BeginType DEF TurnWorking, BeginNow, Label, Driving
<1>3. sem' = sem + Weight("exec") - Weight(leg[r][k].pc) /\ sem' <= Slots
  BY <1>1 DEF TurnWorking, BeginNow, Weight, Holding
<1>4. /\ run' \in [Runs -> RunRecords]
      /\ \A q \in Runs : run'[q].last = run[q].last
      /\ \A q \in Runs \ {r} : run'[q] = run[q]
  BY <1>1, StateType DEF TurnWorking, BeginNow
<1>5. k <= run'[r].last /\ \A q \in Runs : run'[q].last >= run[q].last
  BY <1>1, <1>4, Fields
<1> QED
  BY <1>1, <1>2, <1>3, <1>4, <1>5, LegKeeps

LEMMA FinishKeeps ==
    ASSUME IInv, NEW r \in Runs, NEW k \in Leg, Finish(r, k)
    PROVE  IInv'
<1>1. /\ leg[r][k].pc = "exec" /\ call' = call
      /\ server' \in {"serving", "draining", "cancelled", "crashed"}
      /\ k <= run[r].last /\ TypeOK /\ sem \in 0..Slots /\ run \in [Runs -> RunRecords]
  BY MadeInTurn DEF Finish, IInv, TypeOK
<1>2. "leaving" \in Label /\ Moved(r, k, "leaving")
  BY <1>1, WithType DEF Finish, Moved, Label
<1>3. sem' = sem + Weight("leaving") - Weight(leg[r][k].pc) /\ sem' <= Slots
  BY <1>1 DEF Finish, Weight, Holding
<1>4. /\ run' \in [Runs -> RunRecords] /\ run'[r].state # "working"
      /\ \A q \in Runs : run'[q].last = run[q].last
      /\ \A q \in Runs \ {r} : run'[q] = run[q]
  <2>1. PICK end \in Ends(r, k) :
           run' = [run EXCEPT ![r].state = IF @ = "canceled" THEN @ ELSE end.state,
                              ![r].saved = end.saved]
    BY DEF Finish
  <2>2. run[r] \in RunRecords
    BY <1>1
  <2>3. end.state \in Stopped /\ end.state # "working" /\ end.saved \in BOOLEAN
    <3>1. CASE end \in {[state |-> "completed", saved |-> FALSE], [state |-> "paused", saved |-> TRUE]}
      <4>1. CASE end = [state |-> "completed", saved |-> FALSE]
        BY <4>1 DEF Stopped
      <4>2. CASE end = [state |-> "paused", saved |-> TRUE]
        BY <4>2 DEF Stopped
      <4> QED
        BY <3>1, <4>1, <4>2
    <3>2. CASE end \in [state : {IF CtxDone(r, k) THEN "canceled" ELSE "failed"}, saved : {run[r].saved}]
      <4>1. end.state \in {"canceled", "failed"} /\ end.saved = run[r].saved
        BY <3>2
      <4>2. run[r].saved \in BOOLEAN
        BY <2>2 DEF RunRecords
      <4> QED
        BY <4>1, <4>2 DEF Stopped
    <3> QED
      BY <3>1, <3>2 DEF Ends
  <2> DEFINE state == IF run[r].state = "canceled" THEN run[r].state ELSE end.state
             new == [run[r] EXCEPT !.state = state, !.saved = end.saved]
  <2>4. state \in Stopped /\ state # "working"
    BY <2>3 DEF Stopped
  <2>5. run' = [run EXCEPT ![r] = new]
    BY <2>1
  <2> HIDE DEF state
  <2>6. new \in RunRecords /\ new.last = run[r].last /\ new.state = state
    BY <2>2, <2>3, <2>4 DEF RunRecords
  <2> HIDE DEF new
  <2> QED
    BY <1>1, <2>4, <2>5, <2>6
<1>5. k <= run'[r].last /\ \A q \in Runs : run'[q].last >= run[q].last
  BY <1>1, <1>4, Fields
<1> QED
  BY <1>1, <1>2, <1>3, <1>4, <1>5, LegKeeps

\* The deferred calls close a channel and cancel a context: no leg moves by that.
LEMMA LeaveMoved ==
    ASSUME TypeOK, NEW r \in Runs, NEW k \in Leg, Leave(r, k)
    PROVE  Moved(r, k, "over") /\ server' \in {"serving", "draining", "cancelled", "crashed"}
<1> DEFINE j == leg[r][k].own
           over == With(r, k, "over")
           next == [over EXCEPT ![r][j].cancelled = TRUE]
<1>2. "over" \in Label /\ Moves(over, r, k, "over") /\ j \in 0..MaxLegs
  BY WithType, Fields DEF Label
<1>3. next = [leg EXCEPT ![r][k].pc = "over", ![r][leg[r][k].own].cancelled = TRUE]
  BY DEF With
<1> HIDE DEF j, over
<1>4. Moves(next, r, k, "over")
  <2>1. over \in Legs /\ over[r] \in [Leg -> LegRecords]
    BY <1>2 DEF Moves, Legs
  <2>2. CASE j \in Leg
    <3> DEFINE new == [over[r][j] EXCEPT !.cancelled = TRUE]
    <3>1. new \in LegRecords /\ new.pc = over[r][j].pc
      BY <2>1, <2>2 DEF LegRecords
    <3>2. next = [over EXCEPT ![r][j] = new]
      OBVIOUS
    <3> HIDE DEF new, next
    <3>3. [over[r] EXCEPT ![j] = new] \in [Leg -> LegRecords]
      BY <2>1, <3>1
    <3>4. next \in Legs
      BY <2>1, <3>2, <3>3 DEF Legs
    <3>5. \A q \in Runs, i \in Leg : next[q][i].pc = over[q][i].pc
      BY <2>1, <2>2, <3>1, <3>2 DEF Legs
    <3> QED
      BY <1>2, <3>4, <3>5 DEF Moves
  <2>3. CASE j \notin Leg
    <3>1. next = over
      BY <2>1, <2>3 DEF Legs
    <3> QED
      BY <1>2, <3>1
  <2> QED
    BY <2>2, <2>3
<1>5. Closes(r, j, next)
  BY <1>3 DEF Leave, j
<1> HIDE DEF next
<1> QED
  BY <1>2, <1>4, <1>5, ClosesType

LEMMA LeaveKeeps ==
    ASSUME IInv, NEW r \in Runs, NEW k \in Leg, Leave(r, k)
    PROVE  IInv'
<1>1. /\ leg[r][k].pc = "leaving" /\ call' = call /\ run' = run
      /\ k <= run[r].last /\ TypeOK /\ sem \in 0..Slots /\ run \in [Runs -> RunRecords]
  BY MadeInTurn DEF Leave, IInv, TypeOK
<1>2. /\ "over" \in Label /\ Moved(r, k, "over")
      /\ server' \in {"serving", "draining", "cancelled", "crashed"}
  BY <1>1, LeaveMoved DEF Label
<1>7. sem' = sem + Weight("over") - Weight(leg[r][k].pc) /\ sem' <= Slots
  BY <1>1 DEF Leave, Weight, Holding
<1>8. leg[r][k].pc \notin Driving /\ \A q \in Runs : run'[q].last >= run[q].last
  BY <1>1, Fields DEF Driving
<1> QED
  BY <1>1, <1>2, <1>7, <1>8, LegKeeps

\* A step in which no leg moves and no run comes to say that it is working.
LEMMA LegsStay ==
    ASSUME IInv, leg' \in Legs,
           \A q \in Runs, j \in Leg : leg'[q][j].pc = leg[q][j].pc,
           run' \in [Runs -> RunRecords],
           \A q \in Runs : run'[q].last = run[q].last,
           \A q \in Runs : run'[q].state = "working" => run[q].state = "working",
           call' = call, sem' = sem, server' \in {"serving", "draining", "cancelled", "crashed"}
    PROVE  IInv'
<1>1. HoldingLegs' = HoldingLegs /\ HoldingCalls' = HoldingCalls
  <2>1. \A p \in Runs \X Leg : leg'[p[1]][p[2]].pc = leg[p[1]][p[2]].pc
    OBVIOUS
  <2> QED
    BY <2>1 DEF HoldingLegs, HoldingCalls
<1>2. TypeOK'
  BY DEF IInv, TypeOK, Legs
<1>3. SlotsConserved'
  BY <1>1 DEF IInv, SlotsConserved
<1>4. WorkingIsDriven' /\ Fresh'
  BY DEF IInv, WorkingIsDriven, Fresh
<1> QED
  BY <1>2, <1>3, <1>4 DEF IInv

LEMMA StepKeeps ==
    ASSUME IInv, NEW r \in Runs, NEW k \in Leg, Step(r, k)
    PROVE  IInv'
<1> DEFINE new == [run[r] EXCEPT !.saved = TRUE]
<1>1. TypeOK /\ run \in [Runs -> RunRecords] /\ run[r] \in RunRecords /\ leg \in Legs
  BY Fields DEF IInv
<1>2. run' = [run EXCEPT ![r] = new] /\ leg' = leg /\ call' = call /\ sem' = sem /\ server' = server
  BY DEF Step
<1>3. new \in RunRecords /\ new.last = run[r].last /\ new.state = run[r].state
  BY <1>1 DEF RunRecords
<1> HIDE DEF new
<1>4. /\ run' \in [Runs -> RunRecords]
      /\ \A q \in Runs : run'[q].last = run[q].last /\ run'[q].state = run[q].state
  BY <1>1, <1>2, <1>3
<1>5. server \in {"serving", "draining", "cancelled", "crashed"}
  BY <1>1 DEF TypeOK
<1> QED
  BY <1>1, <1>2, <1>4, <1>5, LegsStay

LEMMA CancelKeeps ==
    ASSUME IInv, NEW r \in Runs, Cancel(r)
    PROVE  IInv'
<1> DEFINE k == run[r].last
           new == [leg[r][k] EXCEPT !.cancelled = TRUE]
           state == IF run[r].state \in {"queued", "working"} THEN "canceled" ELSE run[r].state
<1>1. /\ TypeOK /\ run[r] \in RunRecords /\ leg[r][k] \in LegRecords /\ k \in Leg
      /\ server \in {"serving", "draining", "cancelled", "crashed"}
  <2>1. k \in Leg
    BY Fields DEF IInv, Cancel, Leg
  <2> QED
    BY <2>1, Fields DEF IInv, TypeOK
<1>2. leg' = [leg EXCEPT ![r][k] = new] /\ new \in LegRecords /\ new.pc = leg[r][k].pc
  BY <1>1 DEF Cancel, LegRecords
<1>3. state \in {"queued", "working"} \cup Stopped /\ (state = "working" => run[r].state = "working")
  BY <1>1 DEF RunRecords, Stopped
<1>4. run' = [run EXCEPT ![r].state = state] /\ call' = call /\ sem' = sem /\ server' = server
  BY <1>1 DEF Cancel
<1> HIDE DEF k, new, state
<1>5. Moved(r, k, leg[r][k].pc)
  BY <1>1, <1>2, ChangedType DEF Moved
<1>6. leg' \in Legs /\ \A q \in Runs, j \in Leg : leg'[q][j].pc = leg[q][j].pc
  BY <1>5 DEF Moved, Moves
<1>7. /\ run' \in [Runs -> RunRecords] /\ run'[r].state = state
      /\ \A q \in Runs : run'[q].last = run[q].last
      /\ \A q \in Runs \ {r} : run'[q] = run[q]
  BY <1>1, <1>3, <1>4, StateType
<1>8. \A q \in Runs : run'[q].state = "working" => run[q].state = "working"
  BY <1>3, <1>7
<1> QED
  BY <1>1, <1>4, <1>6, <1>7, <1>8, LegsStay

\* A new leg is the one after the latest, and nothing is there yet.
LEMMA CreateKeeps ==
    ASSUME IInv, NEW r \in Runs, Create(r, run[r].last + 1),
           run' = [run EXCEPT ![r].last = run[r].last + 1], UNCHANGED <<call, sem, server>>
    PROVE  IInv'
<1> DEFINE k == run[r].last + 1
           new == [NoLeg EXCEPT !.pc = "launching"]
           record == [run[r] EXCEPT !.last = k]
<1>1. /\ TypeOK /\ run[r] \in RunRecords /\ run[r].last \in 0..MaxLegs /\ k \in Leg
      /\ run \in [Runs -> RunRecords]
  BY Fields DEF IInv, Create
<1>2. leg[r][k].pc = "none"
  <2>1. k > run[r].last
    BY <1>1
  <2> QED
    BY <1>1, <2>1 DEF IInv, Fresh
<1>3. leg' = [leg EXCEPT ![r][k] = new] /\ new \in LegRecords /\ new.pc = "launching"
  <2>1. leg' = [leg EXCEPT ![r][k] = new]
    BY DEF Create
  <2>2. NoLeg \in LegRecords
    BY DEF NoLeg, LegRecords
  <2> QED
    BY <2>1, <2>2 DEF LegRecords
<1>4. run' = [run EXCEPT ![r] = record]
  OBVIOUS
<1>5. record \in RunRecords /\ record.last = k /\ record.state = run[r].state
  BY <1>1 DEF RunRecords, Leg
<1> HIDE DEF k, new, record
<1>6. Moved(r, k, "launching") /\ "launching" \in Label
  BY <1>1, <1>3, ChangedType DEF Moved, Label
<1>7. /\ run' \in [Runs -> RunRecords] /\ run'[r].last = k
      /\ \A q \in Runs : run'[q].state = run[q].state
      /\ \A q \in Runs \ {r} : run'[q].last = run[q].last
  BY <1>1, <1>4, <1>5
<1>8. \A q \in Runs : run'[q].last >= run[q].last
  BY <1>1, <1>7, Fields DEF k
<1>9. sem' = sem + Weight("launching") - Weight(leg[r][k].pc) /\ sem' <= Slots
  BY <1>1, <1>2 DEF TypeOK, Weight, Holding
<1>10. leg[r][k].pc \notin Driving /\ server \in {"serving", "draining", "cancelled", "crashed"}
  BY <1>1, <1>2 DEF Driving, TypeOK
<1>11. k <= run'[r].last
  BY <1>1, <1>7 DEF Leg
<1> QED
  BY <1>1, <1>6, <1>7, <1>8, <1>9, <1>10, <1>11, LegKeeps

LEMMA RequestsKeep ==
    ASSUME IInv, NEW r \in Runs, Start(r) \/ Resume(r)
    PROVE  IInv'
<1>1. CASE Start(r)
  <2>1. run[r].last = 0 /\ run[r].last + 1 = 1
    BY <1>1 DEF Start
  <2> QED
    BY <1>1, <2>1, CreateKeeps DEF Start
<1>2. CASE Resume(r)
  BY <1>2, CreateKeeps DEF Resume
<1> QED
  BY <1>1, <1>2

LEMMA CallsKeep ==
    ASSUME IInv, NEW c \in Calls, Arrive(c) \/ TakeForCall(c) \/ Shed(c) \/ CallEnds(c)
    PROVE  IInv'
<1>1. /\ TypeOK /\ call \in [Calls -> {"away", "waiting", "running"}] /\ sem \in 0..Slots
      /\ run' = run /\ leg' = leg /\ server' = server /\ HoldingLegs' = HoldingLegs
  BY DEF IInv, TypeOK, Arrive, TakeForCall, Shed, CallEnds, HoldingLegs
<1>2. sem = Cardinality(HoldingLegs) + Cardinality(HoldingCalls)
  BY DEF IInv, SlotsConserved
<1>3. SlotsConserved' /\ sem' \in 0..Slots
  <2>1. CASE TakeForCall(c)
    <3>1. HoldingCalls' = HoldingCalls \cup {c} /\ c \notin HoldingCalls
      BY <1>1, <2>1 DEF TakeForCall, HoldingCalls
    <3>2. Cardinality(HoldingCalls') = Cardinality(HoldingCalls) + 1
      BY <3>1, Finite, FS_AddElement
    <3>3. sem' = sem + 1 /\ sem < Slots
      BY <2>1 DEF TakeForCall, Free
    <3> QED
      BY <1>1, <1>2, <3>2, <3>3, Finite DEF SlotsConserved
  <2>2. CASE CallEnds(c)
    <3>1. HoldingCalls' = HoldingCalls \ {c} /\ c \in HoldingCalls
      BY <1>1, <2>2 DEF CallEnds, HoldingCalls
    <3>2. Cardinality(HoldingCalls') = Cardinality(HoldingCalls) - 1
      BY <3>1, Finite, FS_RemoveElement
    <3>3. sem' = sem - 1
      BY <2>2 DEF CallEnds
    <3> QED
      BY <1>1, <1>2, <3>2, <3>3, Finite DEF SlotsConserved
  <2>3. CASE Arrive(c) \/ Shed(c)
    <3>1. HoldingCalls' = HoldingCalls /\ sem' = sem
      BY <1>1, <2>3 DEF Arrive, Shed, HoldingCalls
    <3> QED
      BY <1>1, <1>2, <3>1 DEF SlotsConserved
  <2> QED
    BY <2>1, <2>2, <2>3
<1>4. call' \in [Calls -> {"away", "waiting", "running"}]
  BY <1>1 DEF Arrive, TakeForCall, Shed, CallEnds
<1>5. TypeOK'
  BY <1>1, <1>3, <1>4 DEF TypeOK
<1>6. WorkingIsDriven' /\ Fresh'
  BY <1>1 DEF IInv, WorkingIsDriven, Fresh
<1> QED
  BY <1>3, <1>5, <1>6 DEF IInv

LEMMA NextKeeps == IInv /\ [Next]_vars => IInv'
<1> SUFFICES ASSUME IInv, [Next]_vars PROVE IInv'
  OBVIOUS
<1>1. CASE \E r \in Runs : Start(r) \/ Resume(r) \/ Cancel(r)
  BY <1>1, RequestsKeep, CancelKeeps
<1>2. CASE \E r \in Runs, k \in Leg : LegMoves(r, k) \/ WorkflowMoves(r, k)
  BY <1>2, LaunchKeeps, TakeKeeps, OverKeeps, BeginKeeps, LeaveKeeps, StepKeeps, FinishKeeps
     DEF LegMoves, WorkflowMoves
<1>3. CASE \E c \in Calls : Arrive(c) \/ TakeForCall(c) \/ Shed(c) \/ CallEnds(c)
  BY <1>3, CallsKeep
<1>4. CASE DrainStart \/ DrainEnds \/ UNCHANGED vars
  <2>1. /\ leg \in Legs /\ run \in [Runs -> RunRecords]
        /\ server \in {"serving", "draining", "cancelled", "crashed"}
    BY DEF IInv, TypeOK, Legs
  <2>2. leg' = leg /\ run' = run /\ call' = call /\ sem' = sem
    BY <1>4 DEF DrainStart, DrainEnds, vars
  <2>3. server' \in {"serving", "draining", "cancelled", "crashed"}
    BY <1>4, <2>1 DEF DrainStart, DrainEnds, vars
  <2> QED
    BY <2>1, <2>2, <2>3, LegsStay
<1> QED
  BY <1>1, <1>2, <1>3, <1>4 DEF Next

-----------------------------------------------------------------------------
(* The theorems.                                                           *)

\* The inductive invariant of the specification.
THEOREM SlotsInvariant == Spec => []IInv
BY InitInvariant, NextKeeps, PTL DEF Spec

\* For any number of runs, calls and slots every variable keeps its type: no more than
\* Slots tokens are ever taken from the semaphore (tryAcquireSlot, acquireSlot).
THEOREM SlotsTypeCorrect == Spec => []TypeOK
<1>1. IInv => TypeOK
  BY DEF IInv
<1> QED
  BY <1>1, SlotsInvariant, PTL

\* Whatever is cancelled, refused, resumed or panics, the semaphore counts the executions
\* under way (launch, waitAndRun and their deferred releases).
THEOREM NoSlotLost == Spec => []SlotsConserved
<1>1. IInv => SlotsConserved
  BY DEF IInv
<1> QED
  BY <1>1, SlotsInvariant, PTL

\* A run says that it is working only while a goroutine of it is about to execute it or
\* does (launch, waitAndRun and execRun).
THEOREM WorkingDriven == Spec => []WorkingIsDriven
<1>1. IInv => WorkingIsDriven
  BY DEF IInv
<1> QED
  BY <1>1, SlotsInvariant, PTL

\* Only a launch takes a run out of canceled (runCancel against waitAndRun and execRun).
THEOREM CancelStays == Spec => CancelSticks
<1>1. ASSUME IInv, [Next]_vars
      PROVE  [\A r \in Runs :
                 run[r].state = "canceled" /\ run'[r].state # "canceled"
                    => \E k \in Leg : leg[r][k].pc = "launching"]_vars
  <2> SUFFICES ASSUME NEW r \in Runs, run[r].state = "canceled", run'[r].state # "canceled"
               PROVE  \E k \in Leg : leg[r][k].pc = "launching"
    OBVIOUS
  <2>0. run \in [Runs -> RunRecords] /\ TypeOK
    BY <1>1 DEF IInv, TypeOK
  <2>1. CASE \E q \in Runs : Start(q) \/ Resume(q) \/ Cancel(q)
    BY <2>0, <2>1 DEF Start, Resume, Cancel, RunRecords
  <2>2. CASE \E q \in Runs, k \in Leg : LegMoves(q, k) \/ WorkflowMoves(q, k)
    <3>1. PICK q \in Runs, k \in Leg : LegMoves(q, k) \/ WorkflowMoves(q, k)
      BY <2>2
    <3>2. CASE LaunchNow(q, k) \/ LaunchLater(q, k)
      BY <2>0, <3>2 DEF LaunchNow, LaunchLater
    <3>3. CASE GiveUp(q, k) \/ TurnWorking(q, k)
      BY <2>0, <3>3 DEF GiveUp, TurnWorking, RunRecords
    <3>4. CASE Finish(q, k) \/ Step(q, k)
      <4>1. run'[r].state = run[r].state
        <5>1. CASE Step(q, k)
          BY <2>0, <5>1 DEF Step, RunRecords
        <5>2. CASE Finish(q, k)
          <6>1. PICK end \in Ends(q, k) :
                   run' = [run EXCEPT ![q].state = IF run[q].state = "canceled"
                                                     THEN run[q].state ELSE end.state,
                                      ![q].saved = end.saved]
            BY <5>2 DEF Finish
          <6>2. CASE q = r
            BY <2>0, <6>1, <6>2 DEF RunRecords
          <6>3. CASE q # r
            BY <2>0, <6>1, <6>3
          <6> QED
            BY <6>2, <6>3
        <5> QED
          BY <3>4, <5>1, <5>2
      <4> QED
        BY <4>1
    <3>5. CASE Take(q, k) \/ Withdraw(q, k) \/ BeginNow(q, k) \/ Leave(q, k)
      BY <3>5 DEF Take, Withdraw, BeginNow, Leave
    <3> QED
      BY <3>1, <3>2, <3>3, <3>4, <3>5 DEF LegMoves, WorkflowMoves
  <2>3. CASE \/ \E c \in Calls : Arrive(c) \/ TakeForCall(c) \/ Shed(c) \/ CallEnds(c)
             \/ DrainStart \/ DrainEnds \/ UNCHANGED vars
    BY <2>3 DEF Arrive, TakeForCall, Shed, CallEnds, DrainStart, DrainEnds, vars
  <2> QED
    BY <1>1, <2>1, <2>2, <2>3 DEF Next
<1> QED
  BY <1>1, SlotsInvariant, PTL DEF Spec, CancelSticks

-----------------------------------------------------------------------------
(* Legs go forward.                                                        *)

Place(pc) ==
    CASE pc = "none" -> 0
      [] pc = "launching" -> 1
      [] pc \in {"waiting", "starting"} -> 2
      [] pc = "granted" -> 3
      [] pc = "exec" -> 4
      [] pc = "leaving" -> 5
      [] OTHER -> 6

Forward(r, k) ==
    \/ leg'[r][k].pc = leg[r][k].pc
    \/ Place(leg'[r][k].pc) > Place(leg[r][k].pc)

\* A leg that moves alone.
LEMMA MovedForward ==
    ASSUME TypeOK, NEW r \in Runs, NEW k \in Leg, NEW pc \in Label, Moved(r, k, pc),
           Place(pc) > Place(leg[r][k].pc) \/ pc = leg[r][k].pc,
           NEW q \in Runs, NEW j \in Leg
    PROVE  Forward(q, j)
BY DEF Moved, Moves, Forward

LEMMA CreateForward ==
    ASSUME TypeOK, Fresh, NEW r \in Runs, Create(r, run[r].last + 1),
           NEW q \in Runs, NEW j \in Leg
    PROVE  Forward(q, j)
<1> DEFINE k == run[r].last + 1
           new == [NoLeg EXCEPT !.pc = "launching"]
<1>1. new \in LegRecords /\ new.pc = "launching"
  <2>1. NoLeg \in LegRecords
    BY DEF NoLeg, LegRecords
  <2> QED
    BY <2>1 DEF LegRecords
<1>2. k \in Leg /\ leg' = [leg EXCEPT ![r][k] = new]
  BY DEF Create
<1>3. leg[r][k].pc = "none"
  <2>1. run[r].last \in Nat
    BY Fields
  <2>2. k > run[r].last
    BY <2>1
  <2> QED
    BY <1>2, <2>2 DEF Fresh
<1> HIDE DEF k, new
<1>4. Moved(r, k, "launching")
  BY <1>1, <1>2, ChangedType DEF Moved
<1> QED
  BY <1>2, <1>3, <1>4, MovedForward DEF Place, Label

LEMMA LegMovesForward ==
    ASSUME TypeOK, NEW r \in Runs, NEW k \in Leg, LegMoves(r, k) \/ WorkflowMoves(r, k),
           NEW q \in Runs, NEW j \in Leg
    PROVE  Forward(q, j)
<1>1. \A pc \in Label : Moves(With(r, k, pc), r, k, pc)
  BY WithType
<1>2. run[r].last \in 0..MaxLegs /\ leg[r][k].own \in 0..MaxLegs
  BY Fields
<1>3. CASE LaunchNow(r, k)
  <2>1. Moved(r, k, "starting") /\ leg[r][k].pc = "launching"
    BY <1>1, <1>3 DEF LaunchNow, With, Moved, Label
  <2> QED
    BY <2>1, MovedForward DEF Place, Label
<1>4. CASE LaunchLater(r, k)
  <2>1. Moved(r, k, "waiting") /\ leg[r][k].pc = "launching"
    BY <1>1, <1>4 DEF LaunchLater, With, Moved, Label
  <2> QED
    BY <2>1, MovedForward DEF Place, Label
<1>5. CASE Take(r, k)
  <2>1. Moved(r, k, "granted") /\ leg[r][k].pc = "waiting"
    BY <1>1, <1>5 DEF Take, Moved, Label
  <2> QED
    BY <2>1, MovedForward DEF Place, Label
<1>6. CASE GiveUp(r, k) \/ Withdraw(r, k)
  <2>1. Closes(r, run[r].last, With(r, k, "over")) /\ leg[r][k].pc \in {"waiting", "granted"}
    BY <1>6 DEF GiveUp, Withdraw
  <2>2. Moved(r, k, "over")
    BY <1>1, <1>2, <2>1, ClosesType DEF Label
  <2> QED
    BY <2>1, <2>2, MovedForward DEF Place, Label
<1>7. CASE TurnWorking(r, k) \/ BeginNow(r, k)
  <2>1. Moved(r, k, "exec") /\ leg[r][k].pc \in {"granted", "starting"}
    BY <1>7, BeginType DEF TurnWorking, BeginNow
  <2> QED
    BY <2>1, MovedForward DEF Place, Label
<1>8. CASE Leave(r, k)
  <2>1. Moved(r, k, "over") /\ leg[r][k].pc = "leaving"
    BY <1>8, LeaveMoved DEF Leave
  <2> QED
    BY <2>1, MovedForward DEF Place, Label
<1>9. CASE Step(r, k)
  BY <1>9 DEF Step, Forward
<1>10. CASE Finish(r, k)
  <2>1. Moved(r, k, "leaving") /\ leg[r][k].pc = "exec"
    BY <1>1, <1>10 DEF Finish, Moved, Label
  <2> QED
    BY <2>1, MovedForward DEF Place, Label
<1> QED
  BY <1>3, <1>4, <1>5, <1>6, <1>7, <1>8, <1>9, <1>10 DEF LegMoves, WorkflowMoves

LegsForward == [][\A r \in Runs, k \in Leg : Forward(r, k)]_vars

\* The goroutine of a leg never comes back to a point it has left (launch, acquireSlot,
\* waitAndRun, execRun, its deferred calls): however often its run is cancelled and
\* resumed, it is launched once, is given at most one slot and executes once.
THEOREM NoLegGoesBack == Spec => LegsForward
<1>1. ASSUME IInv, [Next]_vars
      PROVE  [\A r \in Runs, k \in Leg : Forward(r, k)]_vars
  <2> SUFFICES ASSUME NEW q \in Runs, NEW j \in Leg, Next
               PROVE  Forward(q, j)
    BY <1>1
  <2>0. TypeOK /\ Fresh
    BY <1>1 DEF IInv
  <2>1. ASSUME NEW r \in Runs, Start(r) \/ Resume(r)
        PROVE  Forward(q, j)
    <3>1. Create(r, run[r].last + 1)
      BY <2>1 DEF Start, Resume
    <3> QED
      BY <2>0, <3>1, CreateForward
  <2>2. ASSUME NEW r \in Runs, Cancel(r)
        PROVE  Forward(q, j)
    <3>1. leg' = [leg EXCEPT ![r][run[r].last].cancelled = TRUE] /\ run[r].last \in Leg
      BY <2>0, <2>2, Fields DEF Cancel, Leg
    <3> QED
      BY <2>0, <3>1, Fields DEF Forward, Legs, LegRecords
  <2>3. CASE \E r \in Runs, k \in Leg : LegMoves(r, k) \/ WorkflowMoves(r, k)
    BY <2>0, <2>3, LegMovesForward
  <2>4. CASE \/ \E c \in Calls : Arrive(c) \/ TakeForCall(c) \/ Shed(c) \/ CallEnds(c)
             \/ DrainStart \/ DrainEnds
    BY <2>4 DEF Arrive, TakeForCall, Shed, CallEnds, DrainStart, DrainEnds, Forward
  <2> QED
    BY <2>1, <2>2, <2>3, <2>4 DEF Next
<1> QED
  BY <1>1, SlotsInvariant, PTL DEF Spec, LegsForward
=============================================================================
