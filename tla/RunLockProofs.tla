---------------------------- MODULE RunLockProofs ----------------------------
(***************************************************************************)
(* Proofs about the run lease, for every set of legs and every timing that *)
(* satisfies the module's assumptions.                                     *)
(*                                                                         *)
(* TypeOK is inductive.  LeaseInv adds what a leg knows about the records  *)
(* it read: a record read by acquire had lapsed, one read by renew or      *)
(* release was its own.  From it follow the action properties and the      *)
(* refinement of ExclusiveLease.  InTime adds the timing of a leg that is  *)
(* not stalled, which gives LiveLegOwnsLease when an acquire round trip    *)
(* and a renew together fit in one heartbeat.                              *)
(***************************************************************************)
EXTENDS RunLock, TLAPS

USE LegAssumption, TimingAssumption

-----------------------------------------------------------------------------
(* Types.                                                                  *)

\* The record constructors make records.
LEMMA RecordTypes ==
    /\ Absent \in Record
    /\ \A l \in Leg, at \in Int : LeaseRec(l, at) \in Record
    /\ \A at \in Int : Tombstone(at) \in Record
BY DEF Record, Absent, LeaseRec, Tombstone

\* A step that rewrites one leg's locals, and one that rewrites its heartbeat.
LEMMA LocalTypes ==
    /\ NewLeg \in LegState
    /\ Off \in HeartState
BY RecordTypes DEF NewLeg, Off, LegState, HeartState, Acquiring, Running, Stopping

\* Moving a leg to another label keeps its type.
LEMMA GotoType ==
    ASSUME TypeOK, NEW l \in Leg,
           NEW label \in Acquiring \cup Running \cup Stopping \cup {"idle", "done"},
           Goto(l, label) \/ Enter(l, label)
    PROVE  leg' \in [Leg -> LegState]
<1>1. leg[l] \in LegState
  BY DEF TypeOK
<1>2. [leg[l] EXCEPT !.pc = label] \in LegState
  BY <1>1 DEF LegState
<1>3. [NewLeg EXCEPT !.pc = label, !.stalled = leg[l].stalled] \in LegState
  BY <1>1, LocalTypes DEF LegState
<1> QED
  BY <1>2, <1>3 DEF TypeOK, Goto, Enter

\* Setting a leg's or a heartbeat's stamp, seen record or base keeps its type.
LEMMA FieldTypes ==
    ASSUME TypeOK, NEW l \in Leg
    PROVE  /\ [leg[l] EXCEPT !.pc = "put", !.stamp = clock] \in LegState
           /\ [leg[l] EXCEPT !.pc = "swap", !.seen = lock] \in LegState
           /\ [leg[l] EXCEPT !.pc = "tombstone", !.seen = lock, !.stamp = clock] \in LegState
           /\ \A n \in Nat : [leg[l] EXCEPT !.pc = "working", !.base = n] \in LegState
           /\ \A b \in BOOLEAN : [leg[l] EXCEPT !.cancelled = b] \in LegState
           /\ [leg[l] EXCEPT !.stalled = TRUE] \in LegState
           /\ \A b, r \in Nat : Beating(b, r) \in HeartState
           /\ \A b \in Nat : [heart[l] EXCEPT !.at = "renew", !.beat = b, !.stamp = clock,
                                              !.seen = lock] \in HeartState
BY LocalTypes, RecordTypes DEF TypeOK, LegState, HeartState, Acquiring, Running, Stopping,
   Beating

\* The stamps a leg holds lie in the past.
Stamps == \A l \in Leg : leg[l].stamp <= clock /\ heart[l].stamp <= clock

\* Init establishes the types.
LEMMA InitType == Init => TypeOK /\ Stamps
BY LocalTypes, RecordTypes DEF Init, TypeOK, Absent, Stamps, NewLeg, Off

\* heartbeatDecision and rn.cancel() keep the types.
LEMMA HeartTypes ==
    ASSUME TypeOK, NEW l \in Leg, NEW b \in Nat, StopWorking(l) \/ Tolerate(l, b)
    PROVE  leg' \in [Leg -> LegState] /\ heart' \in [Leg -> HeartState]
<1>1. CASE StopWorking(l)
  <2>1. [leg[l] EXCEPT !.cancelled = leg[l].pc # "done"] \in LegState
    BY DEF TypeOK, LegState
  <2> QED
    BY <1>1, <2>1, LocalTypes DEF StopWorking, TypeOK
<1>2. CASE Tolerate(l, b) /\ ~StopWorking(l)
  <2>1. heart[l].renewed \in Nat
    BY DEF TypeOK, HeartState
  <2>2. Beating(b, heart[l].renewed) \in HeartState
    BY <2>1, FieldTypes
  <2> QED
    BY <1>2, <2>2 DEF Tolerate, TypeOK
<1> QED
  BY <1>1, <1>2

\* A step of one leg leaves the clock, the fence and the other legs alone.
LEMMA StepFrame ==
    ASSUME TypeOK, NEW l \in Leg, Step(l)
    PROVE  /\ clock' = clock /\ fence' = fence
           /\ \A k \in Leg \ {l} : leg'[k] = leg[k] /\ heart'[k] = heart[k]
BY DEF TypeOK, Step, AcquireStart, AcquirePut, AcquireGet, AcquireRetry, AcquireSwap,
   ConfirmFresh, Load, SaveFenced, SaveCheck, SaveWrite, Finish, ReleaseGet, ReleaseSwap,
   RenewGet, RenewSwap, Watchdog, HeartbeatStop, Crash, Stall,
   Won, Lost, Return, Enter, Goto, Landed, Refused, StopWorking, Tolerate

\* Every step of a leg keeps the types.
LEMMA LegStepType ==
    ASSUME TypeOK, Stamps, NEW l \in Leg, Step(l)
    PROVE  TypeOK'
<1>1. clock \in Nat /\ clock' = clock /\ fence' = fence
  BY StepFrame DEF TypeOK
<1>2. leg[l].stamp \in Nat /\ leg[l].stamp <= clock /\ heart[l].stamp \in Nat
      /\ heart[l].stamp <= clock /\ heart[l].beat \in Nat /\ Heartbeat \in Nat /\ TTL \in Nat
  BY DEF TypeOK, LegState, HeartState, Stamps
<1>3. \A at \in Int : at <= clock =>
         LeaseRec(l, at) \in Record /\ LeaseRec(l, at).expires <= clock + TTL
  <2> SUFFICES ASSUME NEW at \in Int, at <= clock
               PROVE  LeaseRec(l, at) \in Record /\ LeaseRec(l, at).expires <= clock + TTL
    OBVIOUS
  <2>1. LeaseRec(l, at).expires = at + TTL
    BY DEF LeaseRec
  <2> QED
    BY <1>1, <1>2, <2>1, RecordTypes
<1>4. \A at \in Int : at <= clock =>
         Tombstone(at) \in Record /\ Tombstone(at).expires <= clock + TTL
  BY <1>1, <1>2, RecordTypes DEF Tombstone
<1> DEFINE Typed == leg' \in [Leg -> LegState] /\ heart' \in [Leg -> HeartState]
           LegBecomes(new) == leg' = [leg EXCEPT ![l] = new]
<1>a. leg \in [Leg -> LegState] /\ heart \in [Leg -> HeartState]
  BY DEF TypeOK
<1>b. ASSUME Typed, cp' \in Nat, lock' \in Record, lock'.expires <= clock + TTL
      PROVE  TypeOK'
  BY <1>1, <1>b DEF TypeOK
<1>c. ASSUME Typed, UNCHANGED <<cp, lock>> PROVE TypeOK'
  BY <1>b, <1>c DEF TypeOK
<1>d. ASSUME NEW new \in LegState, LegBecomes(new) PROVE leg' \in [Leg -> LegState]
  BY <1>a, <1>d
<1> HIDE DEF Typed
<1>5. CASE AcquireStart(l)
  <2>1. LegBecomes([leg[l] EXCEPT !.pc = "put", !.stamp = clock])
    BY <1>5, <1>a DEF AcquireStart
  <2>2. leg' \in [Leg -> LegState]
    BY <1>d, <2>1, FieldTypes
  <2> QED
    BY <1>5, <1>a, <1>c, <2>2 DEF AcquireStart, Typed
<1>6. CASE AcquirePut(l) \/ AcquireRetry(l) \/ AcquireSwap(l)
  <2>1. leg' \in [Leg -> LegState] /\ heart' = heart /\ cp' = cp
    <3>1. \/ Goto(l, "confirm") \/ Goto(l, "get") \/ Return(l)
      BY <1>6 DEF AcquirePut, AcquireRetry, AcquireSwap, Won, Lost
    <3>2. leg' \in [Leg -> LegState]
      BY <3>1, GotoType DEF Return, Acquiring
    <3> QED
      BY <1>6, <3>2 DEF AcquirePut, AcquireRetry, AcquireSwap
  <2>2. lock' = lock \/ lock' = LeaseRec(l, leg[l].stamp)
    BY <1>6 DEF AcquirePut, AcquireRetry, AcquireSwap, Won, Lost
  <2> QED
    <3>1. lock' \in Record /\ lock'.expires <= clock + TTL
      BY <1>2, <1>3, <2>2 DEF TypeOK
    <3>2. Typed /\ cp' \in Nat
      BY <1>a, <2>1 DEF Typed, TypeOK
    <3> QED
      BY <1>b, <3>1, <3>2
<1>7. CASE AcquireGet(l)
  <2>1. ASSUME Goto(l, "retry") \/ Return(l) PROVE leg' \in [Leg -> LegState]
    BY <2>1, GotoType DEF Return, Acquiring
  <2>2. ASSUME leg' = [leg EXCEPT ![l].pc = "swap", ![l].seen = lock]
        PROVE  leg' \in [Leg -> LegState]
    <3>1. LegBecomes([leg[l] EXCEPT !.pc = "swap", !.seen = lock])
      BY <2>2, <1>a
    <3> QED
      BY <1>d, <3>1, FieldTypes
  <2>3. leg' \in [Leg -> LegState]
    BY <1>7, <2>1, <2>2 DEF AcquireGet
  <2> QED
    BY <1>7, <1>a, <1>c, <2>3 DEF AcquireGet, Typed
<1>8. CASE ConfirmFresh(l)
  <2>1. leg' \in [Leg -> LegState]
    BY <1>8, GotoType DEF ConfirmFresh, Running, Stopping
  <2>2. clock + Heartbeat \in Nat
    BY <1>1, <1>2
  <2>3. Beating(clock + Heartbeat, clock) \in HeartState
    BY <1>1, <2>2, FieldTypes
  <2>4. heart' \in [Leg -> HeartState]
    BY <1>8, <2>3 DEF ConfirmFresh, TypeOK
  <2> QED
    BY <1>8, <1>c, <2>1, <2>4 DEF ConfirmFresh, Typed
<1>9. CASE Load(l)
  <2>1. [leg[l] EXCEPT !.pc = "working", !.base = cp] \in LegState
    BY FieldTypes DEF TypeOK
  <2>2. LegBecomes([leg[l] EXCEPT !.pc = "working", !.base = cp])
    BY <1>9, <1>a DEF Load
  <2> QED
    BY <1>9, <1>a, <1>c, <1>d, <2>1, <2>2 DEF Load, Typed
<1>10. CASE SaveFenced(l) \/ SaveWrite(l)
  <2>1. Landed(l) \/ Refused(l)
    BY <1>10 DEF SaveFenced, SaveWrite
  <2>2. cp' \in Nat
    BY <2>1 DEF Landed, Refused, TypeOK
  <2>3. leg' \in [Leg -> LegState]
    <3>1. CASE leg' = [leg EXCEPT ![l].pc = "working", ![l].base = cp']
      <4>1. [leg[l] EXCEPT !.pc = "working", !.base = cp'] \in LegState
        BY <2>2, FieldTypes
      <4>2. LegBecomes([leg[l] EXCEPT !.pc = "working", !.base = cp'])
        BY <3>1, <1>a
      <4> QED
        BY <1>d, <4>1, <4>2
    <3>2. CASE Enter(l, "release")
      BY <3>2, GotoType DEF Stopping
    <3> QED
      BY <2>1, <3>1, <3>2 DEF Landed, Refused
  <2>4. heart' = heart /\ lock' = lock
    BY <1>10 DEF SaveFenced, SaveWrite
  <2>5. lock' \in Record /\ lock'.expires <= clock + TTL
    BY <2>4 DEF TypeOK
  <2> QED
    BY <1>a, <1>b, <2>2, <2>3, <2>4, <2>5 DEF Typed
<1>11. CASE SaveCheck(l) \/ Finish(l)
  <2>1. Goto(l, "write") \/ Enter(l, "release")
    BY <1>11 DEF SaveCheck, Finish
  <2>2. leg' \in [Leg -> LegState]
    BY <2>1, GotoType DEF Running, Stopping
  <2> QED
    BY <1>11, <1>a, <1>c, <2>2 DEF SaveCheck, Finish, Typed
<1>12. CASE ReleaseGet(l)
  <2>1. [leg[l] EXCEPT !.pc = "tombstone", !.seen = lock, !.stamp = clock] \in LegState
    BY FieldTypes
  <2>2. \/ LegBecomes([leg[l] EXCEPT !.pc = "tombstone", !.seen = lock, !.stamp = clock])
        \/ Enter(l, "done")
    BY <1>12, <1>a DEF ReleaseGet, Return
  <2>3. leg' \in [Leg -> LegState]
    BY <1>d, <2>1, <2>2, GotoType
  <2> QED
    BY <1>12, <1>a, <1>c, <2>3 DEF ReleaseGet, Typed
<1>13. CASE ReleaseSwap(l)
  <2>1. leg' \in [Leg -> LegState]
    BY <1>13, GotoType DEF ReleaseSwap, Return
  <2>2. lock' = lock \/ lock' = Tombstone(leg[l].stamp)
    BY <1>13 DEF ReleaseSwap
  <2>3. lock' \in Record /\ lock'.expires <= clock + TTL
    BY <1>2, <1>4, <2>2 DEF TypeOK
  <2>4. heart' = heart /\ cp' = cp /\ cp \in Nat
    BY <1>13 DEF ReleaseSwap, TypeOK
  <2> QED
    BY <1>a, <1>b, <2>1, <2>3, <2>4 DEF Typed
<1>14. CASE RenewGet(l)
  <2> DEFINE beat == heart[l].beat + Heartbeat
             new == [heart[l] EXCEPT !.at = "renew", !.beat = beat, !.stamp = clock,
                                     !.seen = lock]
  <2>1. beat \in Nat
    BY <1>2
  <2>2. new \in HeartState
    BY <2>1, FieldTypes
  <2>3. ASSUME StopWorking(l) \/ Tolerate(l, beat) PROVE Typed
    BY <2>1, <2>3, HeartTypes DEF Typed
  <2>4. ASSUME heart' = [heart EXCEPT ![l].at = "renew", ![l].beat = beat,
                                      ![l].stamp = clock, ![l].seen = lock],
               UNCHANGED leg
        PROVE  Typed
    <3>1. heart' = [heart EXCEPT ![l] = new]
      BY <1>a, <2>4
    <3>2. leg' = leg
      BY <2>4
    <3> HIDE DEF new
    <3> QED
      BY <1>a, <2>2, <3>1, <3>2 DEF Typed
  <2> HIDE DEF new
  <2>5. Typed
    <3>1. \/ StopWorking(l) \/ Tolerate(l, beat)
          \/ /\ heart' = [heart EXCEPT ![l].at = "renew", ![l].beat = beat,
                                        ![l].stamp = clock, ![l].seen = lock]
             /\ UNCHANGED leg
      BY <1>14 DEF RenewGet
    <3> QED
      BY <2>3, <2>4, <3>1
  <2> QED
    BY <1>14, <1>c, <2>5 DEF RenewGet
<1>15. CASE RenewSwap(l)
  <2>1. Beating(heart[l].beat, clock) \in HeartState
    BY <1>1, <1>2, FieldTypes
  <2>2. ASSUME StopWorking(l) \/ Tolerate(l, heart[l].beat) PROVE Typed
    BY <1>2, <2>2, HeartTypes DEF Typed
  <2>3. ASSUME heart' = [heart EXCEPT ![l] = Beating(heart[l].beat, clock)], UNCHANGED leg
        PROVE  Typed
    BY <1>a, <2>1, <2>3 DEF Typed
  <2>4. Typed /\ cp' \in Nat
    BY <1>15, <2>2, <2>3 DEF RenewSwap, TypeOK
  <2>5. lock' = lock \/ \E at \in heart[l].stamp..clock : lock' = LeaseRec(l, at)
    BY <1>15 DEF RenewSwap
  <2>6. lock' \in Record /\ lock'.expires <= clock + TTL
    BY <1>1, <1>2, <1>3, <2>5 DEF TypeOK
  <2> QED
    BY <1>b, <2>4, <2>6
<1>16. CASE Watchdog(l)
  <2>1. Typed
    BY <1>2, <1>16, HeartTypes DEF Watchdog, Typed
  <2> QED
    BY <1>16, <1>c, <2>1 DEF Watchdog
<1>17. CASE HeartbeatStop(l)
  BY <1>17, <1>a, <1>c, LocalTypes DEF HeartbeatStop, Typed
<1>18. CASE Crash(l)
  <2>1. leg' \in [Leg -> LegState]
    BY <1>18, GotoType DEF Crash, Return
  <2>2. heart' \in [Leg -> HeartState]
    BY <1>18, <1>a, LocalTypes DEF Crash
  <2> QED
    BY <1>18, <1>c, <2>1, <2>2 DEF Crash, Typed
<1>19. CASE Stall(l)
  <2>1. LegBecomes([leg[l] EXCEPT !.stalled = TRUE])
    BY <1>19, <1>a DEF Stall
  <2>2. leg' \in [Leg -> LegState]
    BY <1>d, <2>1, FieldTypes
  <2> QED
    BY <1>19, <1>a, <1>c, <2>2 DEF Stall, Typed
<1> QED
  BY <1>5, <1>6, <1>7, <1>8, <1>9, <1>10, <1>11, <1>12, <1>13, <1>14, <1>15, <1>16,
     <1>17, <1>18, <1>19 DEF Step

\* Every step keeps the stamps in the past.
LEMMA StepStamps == TypeOK /\ Stamps /\ [Next]_vars => Stamps'
<1> SUFFICES ASSUME TypeOK, Stamps, [Next]_vars PROVE Stamps'
  OBVIOUS
<1>1. CASE Tick \/ Sweep \/ UNCHANGED vars
  BY <1>1 DEF Tick, Sweep, vars, Stamps, TypeOK, LegState, HeartState
<1>2. ASSUME NEW l \in Leg, Step(l) PROVE Stamps'
  <2>1. clock' = clock /\ clock \in Nat
    BY <1>2, StepFrame DEF TypeOK
  <2>2. \A k \in Leg \ {l} : leg'[k] = leg[k] /\ heart'[k] = heart[k]
    BY <1>2, StepFrame
  <2>3. leg[l] \in LegState /\ heart[l] \in HeartState /\ leg \in [Leg -> LegState]
        /\ heart \in [Leg -> HeartState]
    BY DEF TypeOK
  <2>4. \A label : Goto(l, label) => leg'[l].stamp = leg[l].stamp
    BY <2>3 DEF Goto, LegState
  <2>5. \A label : Enter(l, label) => leg'[l].stamp = 0
    BY <2>3 DEF Enter, NewLeg, LegState
  <2>6. leg'[l].stamp \in {0, leg[l].stamp, clock}
    <3>1. CASE AcquireStart(l) \/ AcquireGet(l) \/ Load(l) \/ ReleaseGet(l) \/ Stall(l)
      BY <2>3, <2>5, <3>1 DEF AcquireStart, AcquireGet, Load, ReleaseGet, Stall, Return,
         Goto, LegState
    <3>2. CASE AcquirePut(l) \/ AcquireRetry(l) \/ AcquireSwap(l) \/ SaveCheck(l)
               \/ ConfirmFresh(l) \/ Finish(l) \/ ReleaseSwap(l) \/ Crash(l)
      BY <2>4, <2>5, <3>2 DEF AcquirePut, AcquireRetry, AcquireSwap, SaveCheck,
         ConfirmFresh, Finish, ReleaseSwap, Crash, Won, Lost, Return
    <3>3. CASE SaveFenced(l) \/ SaveWrite(l)
      BY <2>3, <2>5, <3>3 DEF SaveFenced, SaveWrite, Landed, Refused, LegState
    <3>4. CASE RenewGet(l) \/ RenewSwap(l) \/ Watchdog(l) \/ HeartbeatStop(l)
      BY <2>3, <3>4 DEF RenewGet, RenewSwap, Watchdog, HeartbeatStop, StopWorking,
         Tolerate, LegState
    <3> QED
      BY <1>2, <3>1, <3>2, <3>3, <3>4 DEF Step
  <2>7. heart'[l].stamp \in {0, heart[l].stamp, clock}
    <3>1. CASE ConfirmFresh(l) \/ HeartbeatStop(l) \/ Crash(l) \/ Watchdog(l)
      BY <2>3, <3>1 DEF ConfirmFresh, HeartbeatStop, Crash, Watchdog, StopWorking, Off,
         Beating
    <3>2. CASE RenewGet(l) \/ RenewSwap(l)
      BY <2>3, <3>2 DEF RenewGet, RenewSwap, StopWorking, Tolerate, Off, Beating, HeartState
    <3>3. CASE heart' = heart
      BY <3>3
    <3> QED
      BY <1>2, <3>1, <3>2, <3>3 DEF Step, AcquireStart, AcquirePut, AcquireGet,
         AcquireRetry, AcquireSwap, Load, SaveFenced, SaveCheck, SaveWrite, Finish,
         ReleaseGet, ReleaseSwap, Stall
  <2> QED
    BY <2>1, <2>2, <2>3, <2>6, <2>7 DEF Stamps, LegState, HeartState
<1> QED
  BY <1>1, <1>2 DEF Next

\* TypeOK is an invariant: in particular a crashed leg's lease blocks the run for
\* one TTL at most.
THEOREM TypeCorrect == Spec => [](TypeOK /\ Stamps)
<1>1. TypeOK /\ Stamps /\ [Next]_vars => TypeOK'
  <2> SUFFICES ASSUME TypeOK, Stamps, [Next]_vars PROVE TypeOK'
    OBVIOUS
  <2>1. CASE Tick
    BY <2>1 DEF Tick, TypeOK, Record
  <2>2. CASE Sweep
    BY <2>2, RecordTypes DEF Sweep, TypeOK, Absent
  <2>3. CASE UNCHANGED vars
    BY <2>3 DEF vars, TypeOK
  <2> QED
    BY <2>1, <2>2, <2>3, LegStepType DEF Next
<1> QED
  BY <1>1, InitType, StepStamps, PTL DEF Spec

-----------------------------------------------------------------------------
(* What a leg knows about the records it read.                             *)

\* The record acquire is about to replace had lapsed when it was read.
SwapsLapsed(l) ==
    leg[l].pc = "swap" => leg[l].seen.found /\ leg[l].seen.expires <= clock

\* The record release is about to end was the leg's own.
EndsOwn(l) ==
    leg[l].pc = "tombstone" => leg[l].seen.found /\ leg[l].seen.token = l

\* The record renew is about to extend was the leg's own.
RenewsOwn(l) ==
    heart[l].at = "renew" =>
       /\ heart[l].seen.found /\ heart[l].seen.token = l
       /\ heart[l].seen.expires <= heart[l].stamp + TTL

\* Only a leg without the store's fence checks first and writes later.
WritesUnfenced(l) == leg[l].pc = "write" => ~fence

\* A leg the record names builds on the latest checkpoint.
BuildsOnLatest(l) ==
    fence /\ leg[l].pc = "working" /\ lock.token = l => leg[l].base = cp

Known ==
    /\ ~lock.found => lock = Absent
    /\ \A l \in Leg : SwapsLapsed(l) /\ EndsOwn(l) /\ RenewsOwn(l) /\ WritesUnfenced(l)
                         /\ BuildsOnLatest(l)

IInv == TypeOK /\ Stamps /\ Known

\* What a step of a leg may write: its own lease, an expired tombstone, nothing.
LEMMA LockWrites ==
    ASSUME NEW l \in Leg, Step(l)
    PROVE  \/ lock' = lock
           \/ \E at : lock' = LeaseRec(l, at)
           \/ \E at : lock' = Tombstone(at)
BY DEF Step, AcquireStart, AcquirePut, AcquireGet, AcquireRetry, AcquireSwap,
   ConfirmFresh, Load, SaveFenced, SaveCheck, SaveWrite, Finish, ReleaseGet, ReleaseSwap,
   RenewGet, RenewSwap, Watchdog, HeartbeatStop, Crash, Stall, Won, Lost

\* A live lease is only written by a step of its own leg.
LEMMA OthersKeepLease ==
    ASSUME IInv, NEW k \in Leg, NEW l \in Leg \ {k}, Step(k), OwnsLease(l)
    PROVE  lock' = lock
<1>1. lock.found /\ lock.token = l /\ clock < lock.expires /\ l # k
  BY DEF OwnsLease, Fresh
<1>2. leg[k].pc = "swap" => lock # leg[k].seen
  BY <1>1 DEF IInv, TypeOK, Known, SwapsLapsed, Record
<1>3. leg[k].pc = "tombstone" => lock # leg[k].seen
  BY <1>1 DEF IInv, Known, EndsOwn
<1>4. heart[k].at = "renew" => lock # heart[k].seen
  BY <1>1 DEF IInv, Known, RenewsOwn
<1> QED
  BY <1>1, <1>2, <1>3, <1>4 DEF Step, AcquireStart, AcquirePut, AcquireGet, AcquireRetry,
     AcquireSwap, ConfirmFresh, Load, SaveFenced, SaveCheck, SaveWrite, Finish, ReleaseGet,
     ReleaseSwap, RenewGet, RenewSwap, Watchdog, HeartbeatStop, Crash, Stall, Won, Lost

\* Only the leg the record names, or one without the fence, writes a checkpoint.
LEMMA CheckpointWriter ==
    ASSUME IInv, NEW l \in Leg, Step(l), cp' # cp
    PROVE  \/ ~fence
           \/ leg[l].pc = "working" /\ OwnsLease(l) /\ lock' = lock
BY DEF Step, AcquireStart, AcquirePut, AcquireGet, AcquireRetry, AcquireSwap,
   ConfirmFresh, Load, SaveFenced, SaveCheck, SaveWrite, Finish, ReleaseGet, ReleaseSwap,
   RenewGet, RenewSwap, Watchdog, HeartbeatStop, Crash, Stall, Refused, IInv, Known,
   WritesUnfenced

\* A step of a leg keeps what every other leg knows.
LEMMA OthersKeepKnown ==
    ASSUME IInv, NEW k \in Leg, NEW l \in Leg \ {k}, Step(k)
    PROVE  (SwapsLapsed(l) /\ EndsOwn(l) /\ RenewsOwn(l) /\ WritesUnfenced(l)
               /\ BuildsOnLatest(l))'
<1>1. leg'[l] = leg[l] /\ heart'[l] = heart[l] /\ clock' = clock /\ fence' = fence
  BY StepFrame DEF IInv
<1>2. SwapsLapsed(l) /\ EndsOwn(l) /\ RenewsOwn(l) /\ WritesUnfenced(l) /\ BuildsOnLatest(l)
  BY DEF IInv, Known
<1>3. lock'.token = l => lock.token = l
  BY LockWrites DEF LeaseRec, Tombstone
<1>4. fence /\ lock.token = l => cp' = cp
  BY CheckpointWriter DEF OwnsLease
<1> QED
  BY <1>1, <1>2, <1>3, <1>4 DEF SwapsLapsed, EndsOwn, RenewsOwn, WritesUnfenced,
     BuildsOnLatest

\* A step of a leg keeps what it knows itself.
LEMMA OwnKeepsKnown ==
    ASSUME IInv, NEW l \in Leg, Step(l)
    PROVE  (SwapsLapsed(l) /\ EndsOwn(l) /\ RenewsOwn(l) /\ WritesUnfenced(l)
               /\ BuildsOnLatest(l))'
<1> USE DEF SwapsLapsed, EndsOwn, RenewsOwn, WritesUnfenced, BuildsOnLatest
<1>1. /\ leg \in [Leg -> LegState] /\ leg[l] \in LegState
      /\ heart \in [Leg -> HeartState] /\ heart[l] \in HeartState
      /\ lock \in Record /\ lock.expires <= clock + TTL /\ clock \in Nat
  BY DEF IInv, TypeOK
<1>2. SwapsLapsed(l) /\ EndsOwn(l) /\ RenewsOwn(l) /\ WritesUnfenced(l) /\ BuildsOnLatest(l)
  BY DEF IInv, Known
<1>3. lock.token = l => lock.found
  BY LegAssumption DEF IInv, Known, Absent
<1>4. clock' = clock /\ fence' = fence
  BY StepFrame DEF IInv
<1>5. \A label : Enter(l, label) => leg'[l].pc = label
  BY <1>1 DEF Enter, NewLeg
<1>6. \A label : Goto(l, label) => leg'[l] = [leg[l] EXCEPT !.pc = label]
  BY <1>1 DEF Goto
<1>7. heart'[l] = heart[l] \/ heart'[l].at # "renew" \/ RenewGet(l)
  <2>1. CASE ConfirmFresh(l) \/ HeartbeatStop(l) \/ Crash(l) \/ Watchdog(l)
    BY <1>1, <2>1 DEF ConfirmFresh, HeartbeatStop, Crash, Watchdog, StopWorking, Off, Beating
  <2>2. CASE RenewSwap(l)
    BY <1>1, <2>2 DEF RenewSwap, StopWorking, Tolerate, Off, Beating
  <2>3. CASE heart' = heart
    BY <2>3
  <2> QED
    BY <2>1, <2>2, <2>3 DEF Step, AcquireStart, AcquirePut, AcquireGet, AcquireRetry,
       AcquireSwap, Load, SaveFenced, SaveCheck, SaveWrite, Finish, ReleaseGet,
       ReleaseSwap, Stall
<1>8. RenewsOwn(l)'
  <2>1. CASE RenewGet(l) /\ heart'[l].at = "renew"
    BY <1>1, <1>3, <2>1 DEF RenewGet, StopWorking, Tolerate, Off, Beating, HeartState
  <2> QED
    BY <1>2, <1>7, <2>1
<1>9. CASE AcquireStart(l) \/ AcquirePut(l) \/ AcquireRetry(l) \/ AcquireSwap(l)
           \/ ConfirmFresh(l) \/ Finish(l) \/ ReleaseSwap(l) \/ Crash(l)
  <2>1. leg'[l].pc \in {"put", "get", "confirm", "release", "done", "load"}
    <3>1. CASE AcquireStart(l)
      BY <1>1, <3>1 DEF AcquireStart, LegState
    <3>2. \A label : Goto(l, label) => leg'[l].pc = label
      BY <1>1 DEF Goto, LegState
    <3> QED
      BY <1>5, <1>9, <3>1, <3>2 DEF AcquirePut, AcquireRetry, AcquireSwap, Won, Lost,
         ConfirmFresh, Finish, ReleaseSwap, Crash, Return
  <2> QED
    BY <1>8, <2>1
<1>10. CASE AcquireGet(l)
  BY <1>1, <1>4, <1>5, <1>8, <1>10 DEF AcquireGet, Goto, Return, Fresh, LegState, Record
<1>11. CASE Load(l)
  BY <1>1, <1>8, <1>11 DEF Load, LegState
<1>12. CASE SaveFenced(l) \/ SaveCheck(l) \/ SaveWrite(l)
  <2>1. CASE Enter(l, "release")
    BY <1>5, <1>8, <2>1
  <2>2. CASE leg' = [leg EXCEPT ![l].pc = "working", ![l].base = cp']
    BY <1>1, <1>8, <2>2 DEF LegState
  <2>3. CASE Goto(l, "write") /\ ~fence
    <3>1. leg'[l].pc = "write"
      BY <1>1, <2>3 DEF Goto, LegState
    <3> QED
      BY <1>4, <1>8, <2>3, <3>1
  <2> QED
    BY <1>12, <2>1, <2>2, <2>3 DEF SaveFenced, SaveCheck, SaveWrite, Landed, Refused
<1>13. CASE ReleaseGet(l)
  BY <1>1, <1>3, <1>5, <1>8, <1>13 DEF ReleaseGet, Return, LegState
<1>14. CASE RenewGet(l) \/ RenewSwap(l) \/ Watchdog(l) \/ HeartbeatStop(l) \/ Stall(l)
  <2>1. leg'[l].pc = leg[l].pc /\ leg'[l].seen = leg[l].seen /\ leg'[l].base = leg[l].base
        /\ cp' = cp
    BY <1>1, <1>14 DEF RenewGet, RenewSwap, Watchdog, HeartbeatStop, Stall, StopWorking,
       Tolerate, LegState
  <2>2. lock'.token = l => lock.token = l
    <3>1. heart[l].at = "renew" /\ lock = heart[l].seen => lock.token = l
      BY <1>2
    <3> QED
      BY <1>14, <3>1 DEF RenewGet, RenewSwap, Watchdog, HeartbeatStop, Stall
  <2> QED
    BY <1>2, <1>4, <1>8, <2>1, <2>2
<1> QED
  BY <1>9, <1>10, <1>11, <1>12, <1>13, <1>14 DEF Step

\* Every step keeps what the legs know.
LEMMA StepKnown == IInv /\ [Next]_vars => Known'
<1> SUFFICES ASSUME IInv, [Next]_vars PROVE Known'
  OBVIOUS
<1>1. CASE Tick \/ UNCHANGED vars
  BY <1>1 DEF IInv, TypeOK, LegState, Record, Known, Tick, vars, SwapsLapsed, EndsOwn,
     RenewsOwn, WritesUnfenced, BuildsOnLatest
<1>2. CASE Sweep
  BY <1>2 DEF IInv, Known, Sweep, Absent, SwapsLapsed, EndsOwn,
     RenewsOwn, WritesUnfenced, BuildsOnLatest
<1>3. ASSUME NEW k \in Leg, Step(k) PROVE Known'
  <2>1. ~lock'.found => lock' = Absent
    BY <1>3, LockWrites DEF IInv, Known, LeaseRec, Tombstone
  <2> QED
    BY <1>3, <2>1, OthersKeepKnown, OwnKeepsKnown DEF Known
<1> QED
  BY <1>1, <1>2, <1>3 DEF Next

\* IInv is an invariant.
THEOREM LeaseInvariant == Spec => []IInv
<1>1. Init => IInv
  BY InitType DEF Init, IInv, Known, Absent, NewLeg, Off, SwapsLapsed, EndsOwn, RenewsOwn,
     WritesUnfenced, BuildsOnLatest
<1>2. IInv /\ [Next]_vars => Known'
  BY StepKnown
<1> QED
  BY <1>1, <1>2, TypeCorrect, PTL DEF Spec, IInv

-----------------------------------------------------------------------------
(* The action properties and the refinement.                               *)

\* No leg's live lease is written by another leg, however late or stale the
\* acquire, renew or release that tries.
THEOREM LeaseNeverStolen == Spec => NoTheft
<1> DEFINE Kept == \A l \in Leg : OwnsLease(l) /\ lock' # lock =>
                      leg'[l] # leg[l] \/ heart'[l] # heart[l]
<1>1. IInv /\ [Next]_vars => Kept
  <2> SUFFICES ASSUME IInv, [Next]_vars, NEW l \in Leg, OwnsLease(l), lock' # lock
               PROVE  leg'[l] # leg[l] \/ heart'[l] # heart[l]
    OBVIOUS
  <2>1. PICK k \in Leg : Step(k)
    BY DEF Next, Tick, Sweep, vars, OwnsLease
  <2>2. k = l
    BY <2>1, OthersKeepLease
  <2>3. /\ leg \in [Leg -> LegState] /\ leg[l] \in LegState
        /\ heart \in [Leg -> HeartState] /\ heart[l] \in HeartState
    BY DEF IInv, TypeOK
  <2>4. CASE RenewSwap(l)
    BY <2>3, <2>4 DEF RenewSwap, StopWorking, Tolerate, Beating, Off
  <2>5. CASE ReleaseSwap(l)
    BY <2>3, <2>5 DEF ReleaseSwap, Return, Enter, NewLeg
  <2>6. CASE AcquirePut(l) \/ AcquireRetry(l) \/ AcquireSwap(l)
    <3>1. \A label : Goto(l, label) => leg'[l].pc = label
      BY <2>3 DEF Goto, LegState
    <3>2. \A label : Enter(l, label) => leg'[l].pc = label
      BY <2>3 DEF Enter, NewLeg
    <3> QED
      BY <2>6, <3>1, <3>2 DEF AcquirePut, AcquireRetry, AcquireSwap, Won, Lost, Return
  <2> QED
    BY <2>1, <2>2, <2>4, <2>5, <2>6 DEF Step, AcquireStart, AcquireGet, ConfirmFresh, Load,
       SaveFenced, SaveCheck, SaveWrite, Finish, ReleaseGet, RenewGet, Watchdog,
       HeartbeatStop, Crash, Stall
<1>2. IInv /\ [Next]_vars => [Kept]_vars
  BY <1>1
<1> QED
  BY <1>2, LeaseInvariant, PTL DEF Spec, NoTheft

\* With the store-side fence every checkpoint write replaces the version its leg
\* had loaded or written itself: none is lost.
THEOREM CheckpointsChained == Spec => NoLostCheckpoint
<1> DEFINE Chained == fence /\ cp' # cp =>
              \E l \in Leg : leg[l].pc = "working" /\ leg'[l] # leg[l] /\ leg[l].base = cp
<1>1. IInv /\ [Next]_vars => Chained
  <2> SUFFICES ASSUME IInv, [Next]_vars, fence, cp' # cp
               PROVE  \E l \in Leg : leg[l].pc = "working" /\ leg'[l] # leg[l]
                                        /\ leg[l].base = cp
    OBVIOUS
  <2>1. PICK l \in Leg : Step(l)
    BY DEF Next, Tick, Sweep, vars
  <2>2. leg[l].pc = "working" /\ OwnsLease(l)
    BY <2>1, CheckpointWriter
  <2>3. leg[l].base = cp
    BY <2>2 DEF IInv, Known, BuildsOnLatest, OwnsLease
  <2>4. leg[l] \in LegState /\ leg \in [Leg -> LegState]
    BY DEF IInv, TypeOK
  <2>5. SaveFenced(l)
    BY <2>1, <2>2 DEF Step, AcquireStart, AcquirePut, AcquireGet, AcquireRetry, AcquireSwap,
       ConfirmFresh, Load, SaveCheck, SaveWrite, Finish, ReleaseGet, ReleaseSwap, RenewGet,
       RenewSwap, Watchdog, HeartbeatStop, Crash, Stall
  <2>6. leg'[l] # leg[l]
    <3>1. Enter(l, "release") => leg'[l].pc = "release"
      BY <2>4 DEF Enter, NewLeg
    <3> QED
      BY <2>2, <2>3, <2>4, <2>5, <3>1 DEF SaveFenced, Landed, Refused, LegState
  <2> QED
    BY <2>2, <2>3, <2>6
<1>2. IInv /\ [Next]_vars => [Chained]_vars
  BY <1>1
<1> QED
  BY <1>2, LeaseInvariant, PTL DEF Spec, NoLostCheckpoint

\* The store protocol implements the abstract lease.
THEOREM LeaseImplemented == Spec => ImplementsLease
<1>1. Init => Lease!Init
  BY DEF Init, Lease!Init, Absent
<1>2. IInv /\ [Next]_vars => [Lease!Next]_<<clock, lock.token, lock.expires, fence, cp>>
  <2> SUFFICES ASSUME IInv, [Next]_vars
               PROVE  [Lease!Next]_<<clock, lock.token, lock.expires, fence, cp>>
    OBVIOUS
  <2> USE DEF Lease!Next
  <2>1. CASE Tick
    BY <2>1 DEF Tick, Lease!Tick
  <2>2. CASE Sweep
    BY <2>2 DEF Sweep, Lease!End, Absent
  <2>3. CASE UNCHANGED vars
    BY <2>3 DEF vars
  <2>4. ASSUME NEW l \in Leg, Step(l)
        PROVE  [Lease!Next]_<<clock, lock.token, lock.expires, fence, cp>>
    <3>1. clock' = clock /\ fence' = fence /\ clock \in Nat /\ lock.expires \in Int
      BY <2>4, StepFrame DEF IInv, TypeOK, Record
    <3>2. leg[l].stamp \in Nat /\ leg[l].stamp <= clock /\ heart[l].stamp \in Nat
      BY DEF IInv, TypeOK, LegState, HeartState, Stamps
    <3>3. CASE cp' # cp
      <4>1. cp' = cp + 1 /\ lock' = lock
        BY <2>4, <3>3 DEF Step, AcquireStart, AcquirePut, AcquireGet, AcquireRetry,
           AcquireSwap, ConfirmFresh, Load, SaveFenced, SaveCheck, SaveWrite, Finish,
           ReleaseGet, ReleaseSwap, RenewGet, RenewSwap, Watchdog, HeartbeatStop, Crash,
           Stall, Landed, Refused
      <4>2. fence => Lease!Live
        BY <2>4, <3>3, CheckpointWriter, LegAssumption DEF OwnsLease, Fresh, Lease!Live
      <4> QED
        BY <3>1, <4>1, <4>2 DEF Lease!Save
    <3>4. CASE cp' = cp /\ lock' # lock /\ (AcquirePut(l) \/ AcquireRetry(l) \/ AcquireSwap(l))
      <4>1. lock' = LeaseRec(l, leg[l].stamp)
        BY <3>4 DEF AcquirePut, AcquireRetry, AcquireSwap, Won, Lost
      <4>2. ~Lease!Live
        <5>1. CASE ~lock.found
          BY <5>1 DEF IInv, Known, Absent, Lease!Live
        <5>2. CASE AcquireSwap(l)
          BY <3>1, <3>4, <5>2 DEF AcquireSwap, Lost, IInv, Known, SwapsLapsed, Lease!Live
        <5> QED
          BY <3>4, <5>1, <5>2 DEF AcquirePut, AcquireRetry, Lost
      <4> QED
        BY <3>1, <3>2, <3>4, <4>1, <4>2 DEF LeaseRec, Lease!Grant
    <3>5. CASE cp' = cp /\ lock' # lock /\ ReleaseSwap(l)
      BY <3>1, <3>5 DEF ReleaseSwap, Tombstone, Lease!End
    <3>6. CASE cp' = cp /\ lock' # lock /\ RenewSwap(l)
      <4>1. PICK at \in heart[l].stamp..clock : lock' = LeaseRec(l, at)
        BY <3>6 DEF RenewSwap
      <4>2. lock.token = l /\ lock.expires <= heart[l].stamp + TTL
        BY <3>6 DEF RenewSwap, IInv, Known, RenewsOwn
      <4>3. lock'.token = l /\ lock'.expires = at + TTL
        BY <4>1 DEF LeaseRec
      <4>4. at + TTL \in lock.expires..(clock + TTL)
        BY <3>1, <3>2, <4>1, <4>2
      <4> QED
        BY <3>1, <3>6, <4>2, <4>3, <4>4, LegAssumption DEF Lease!Extend
    <3> QED
      BY <2>4, <3>1, <3>3, <3>4, <3>5, <3>6 DEF Step, AcquireStart, AcquireGet,
         ConfirmFresh, Load, SaveFenced, SaveCheck, SaveWrite, Finish, ReleaseGet, RenewGet,
         Watchdog, HeartbeatStop, Crash, Stall
  <2> QED
    BY <2>1, <2>2, <2>3, <2>4 DEF Next
<1> QED
  BY <1>1, <1>2, LeaseInvariant, PTL DEF Spec, ImplementsLease, Lease!Spec, Lease!vars

-----------------------------------------------------------------------------
(* The timing of a leg that is not stalled.                                *)

\* An acquire and a renew together take less than one heartbeat.
PromptStore == MaxTrip + RenewBudget < Heartbeat

\* x is the moment from which the leg's lease and its heartbeat count: the last
\* successful renew, or the end of acquire.
CountsFrom(l, x) ==
    /\ x + TTL - MaxTrip <= lock.expires
    /\ x <= heart[l].renewed /\ heart[l].renewed <= x + RenewBudget
    /\ heart[l].at \in {"select", "renew"}
    /\ heart[l].at = "select" =>
          /\ heart[l].beat \in {x + Heartbeat, x + 2 * Heartbeat, x + 3 * Heartbeat}
          /\ clock <= heart[l].beat /\ clock <= heart[l].renewed + SafeWindow
    /\ heart[l].at = "renew" =>
          /\ heart[l].stamp \in {x + Heartbeat, x + 2 * Heartbeat}
          /\ heart[l].beat = heart[l].stamp + Heartbeat
          /\ clock <= heart[l].stamp + RenewBudget

\* A leg that is not stalled confirms its lease in time and, while it works, its
\* record is in the store and its heartbeat is on.
AcquiresInTime(l) ==
    leg[l].pc \in Acquiring => clock <= leg[l].stamp + MaxTrip
HoldsOnConfirm(l) ==
    leg[l].pc = "confirm" => lock = LeaseRec(l, leg[l].stamp)
BeatsWhileLive(l) ==
    Live(l) => lock.found /\ lock.token = l /\ \E x \in Nat : CountsFrom(l, x)

InTime == \A l \in Leg : ~leg[l].stalled =>
             AcquiresInTime(l) /\ HoldsOnConfirm(l) /\ BeatsWhileLive(l)

\* The heartbeat is off until acquire has returned.
Quiet == \A l \in Leg : leg[l].pc \in Acquiring \cup {"idle"} => heart[l].at = "off"

\* Counting from x, the lease is still live.
LEMMA CountedLeaseLive ==
    ASSUME PromptStore, IInv, NEW l \in Leg, NEW x \in Nat, CountsFrom(l, x)
    PROVE  clock < lock.expires
BY DEF PromptStore, IInv, TypeOK, HeartState, Record, CountsFrom, SafeWindow

\* So a leg in time owns a live lease from its confirm on.
LEMMA InTimeOwns ==
    ASSUME PromptStore, IInv, InTime, NEW l \in Leg, ~leg[l].stalled,
           Live(l) \/ leg[l].pc = "confirm"
    PROVE  OwnsLease(l)
<1>1. CASE Live(l)
  BY <1>1, CountedLeaseLive DEF InTime, BeatsWhileLive, OwnsLease, Fresh
<1>2. CASE leg[l].pc = "confirm"
  <2>1. lock = LeaseRec(l, leg[l].stamp) /\ clock <= leg[l].stamp + MaxTrip
    BY <1>2 DEF InTime, AcquiresInTime, HoldsOnConfirm, Acquiring
  <2>2. leg[l].stamp \in Nat /\ clock \in Nat /\ MaxTrip < TTL
    BY DEF IInv, TypeOK, LegState, PromptStore
  <2> QED
    BY <2>1, <2>2 DEF OwnsLease, Fresh, LeaseRec
<1> QED
  BY <1>1, <1>2

\* A step of another leg does not disturb a leg in time.
LEMMA OthersKeepInTime ==
    ASSUME PromptStore, IInv, InTime, NEW k \in Leg, NEW l \in Leg \ {k}, Step(k),
           ~leg'[l].stalled
    PROVE  (AcquiresInTime(l) /\ HoldsOnConfirm(l) /\ BeatsWhileLive(l))'
<1>1. leg'[l] = leg[l] /\ heart'[l] = heart[l] /\ clock' = clock
  BY StepFrame DEF IInv
<1>2. AcquiresInTime(l) /\ HoldsOnConfirm(l) /\ BeatsWhileLive(l)
  BY <1>1 DEF InTime
<1>3. Live(l) \/ leg[l].pc = "confirm" => lock' = lock
  BY <1>1, InTimeOwns, OthersKeepLease
<1> QED
  BY <1>1, <1>2, <1>3 DEF AcquiresInTime, HoldsOnConfirm, BeatsWhileLive, Live, CountsFrom,
     LeaseRec

\* heartbeatDecision keeps the count, or stops the leg.
LEMMA ToleratedInTime ==
    ASSUME PromptStore, IInv, NEW l \in Leg, NEW x \in Nat, NEW b \in Nat, Tolerate(l, b),
           ~StopWorking(l), CountsFrom(l, x), clock' = clock, clock <= b,
           lock'.expires \in Int, lock.expires <= lock'.expires,
           b \in {x + Heartbeat, x + 2 * Heartbeat, x + 3 * Heartbeat}
    PROVE  leg' = leg /\ CountsFrom(l, x)'
<1>1. leg' = leg /\ heart'[l] = Beating(b, heart[l].renewed)
      /\ clock - heart[l].renewed < SafeWindow
  BY DEF Tolerate, IInv, TypeOK, HeartState, SafeWindow
<1>2. heart[l].renewed \in Nat /\ clock \in Nat /\ lock.expires \in Int
  BY DEF IInv, TypeOK, HeartState, Record
<1> QED
  BY <1>1, <1>2 DEF CountsFrom, Beating, SafeWindow

\* A stalled leg stays stalled.
LEMMA StalledStays ==
    ASSUME IInv, NEW l \in Leg, Step(l), leg[l].stalled
    PROVE  leg'[l].stalled
<1>1. leg \in [Leg -> LegState] /\ leg[l] \in LegState
  BY DEF IInv, TypeOK
<1>2. \A label : Enter(l, label) => leg'[l].stalled
  BY <1>1 DEF Enter, NewLeg
<1>3. \A label : Goto(l, label) => leg'[l].stalled
  BY <1>1 DEF Goto, LegState
<1>4. CASE AcquireStart(l) \/ AcquireGet(l) \/ Load(l) \/ ReleaseGet(l) \/ Stall(l)
  BY <1>1, <1>2, <1>3, <1>4 DEF AcquireStart, AcquireGet, Load, ReleaseGet, Stall, Return,
     LegState
<1>5. CASE AcquirePut(l) \/ AcquireRetry(l) \/ AcquireSwap(l) \/ SaveCheck(l)
           \/ ConfirmFresh(l) \/ Finish(l) \/ ReleaseSwap(l) \/ Crash(l)
  BY <1>2, <1>3, <1>5 DEF AcquirePut, AcquireRetry, AcquireSwap, SaveCheck,
     ConfirmFresh, Finish, ReleaseSwap, Crash, Won, Lost, Return
<1>6. CASE SaveFenced(l) \/ SaveWrite(l)
  BY <1>1, <1>2, <1>6 DEF SaveFenced, SaveWrite, Landed, Refused, LegState
<1>7. CASE RenewGet(l) \/ RenewSwap(l) \/ Watchdog(l) \/ HeartbeatStop(l)
  BY <1>1, <1>7 DEF RenewGet, RenewSwap, Watchdog, HeartbeatStop, StopWorking, Tolerate,
     LegState
<1> QED
  BY <1>4, <1>5, <1>6, <1>7 DEF Step

\* A step of a leg in time keeps it in time.
LEMMA OwnKeepsInTime ==
    ASSUME PromptStore, IInv, Quiet, InTime, NEW l \in Leg, Step(l), ~leg'[l].stalled
    PROVE  (AcquiresInTime(l) /\ HoldsOnConfirm(l) /\ BeatsWhileLive(l))'
<1> USE DEF AcquiresInTime, HoldsOnConfirm, BeatsWhileLive, Live, Acquiring, Running
<1>1. /\ leg \in [Leg -> LegState] /\ leg[l] \in LegState
      /\ heart \in [Leg -> HeartState] /\ heart[l] \in HeartState
      /\ lock \in Record /\ clock \in Nat /\ lock.expires \in Int
  BY DEF IInv, TypeOK, Record
<1>2. clock' = clock
  BY StepFrame DEF IInv
<1>3. \A label : Enter(l, label) => leg'[l] = [NewLeg EXCEPT !.pc = label,
                                                           !.stalled = leg[l].stalled]
  BY <1>1 DEF Enter
<1>4. \A label : Goto(l, label) => leg'[l] = [leg[l] EXCEPT !.pc = label]
  BY <1>1 DEF Goto
<1>5. StopWorking(l) => leg'[l] = [leg[l] EXCEPT !.cancelled = leg[l].pc # "done"]
  BY <1>1 DEF StopWorking
<1>6. ~leg[l].stalled
  BY StalledStays
<1>7. AcquiresInTime(l) /\ HoldsOnConfirm(l) /\ BeatsWhileLive(l)
  BY <1>6 DEF InTime
<1>8. CASE leg'[l].pc \in {"release", "tombstone", "done"}
  BY <1>8
<1>9. CASE leg'[l].cancelled /\ leg'[l].pc \notin Acquiring
  BY <1>9
<1>10. CASE AcquireStart(l)
  BY <1>1, <1>2, <1>10 DEF AcquireStart, LegState
<1>11. CASE Goto(l, "confirm") /\ lock' = LeaseRec(l, leg[l].stamp) /\ leg[l].pc \in Acquiring
  <2>1. leg'[l].pc = "confirm" /\ leg'[l].stamp = leg[l].stamp
    BY <1>1, <1>11 DEF Goto, LegState
  <2> QED
    BY <1>2, <1>7, <1>11, <2>1
<1>12. CASE leg'[l].stamp = leg[l].stamp /\ leg[l].pc \in Acquiring
            /\ leg'[l].pc \in Acquiring \ {"confirm"}
  BY <1>1, <1>2, <1>7, <1>12
<1>13. CASE ConfirmFresh(l) /\ leg'[l].pc = "load"
  <2>1. leg[l].stamp \in Nat /\ clock <= leg[l].stamp + MaxTrip
        /\ lock = LeaseRec(l, leg[l].stamp)
    BY <1>1, <1>7, <1>13 DEF ConfirmFresh, LegState
  <2>2. heart'[l] = Beating(clock + Heartbeat, clock) /\ lock' = lock
    <3>1. ~Enter(l, "release")
      BY <1>1, <1>13 DEF Enter, NewLeg
    <3> QED
      BY <1>1, <1>13, <3>1 DEF ConfirmFresh
  <2>3. CountsFrom(l, clock)'
    BY <1>1, <1>2, <2>1, <2>2 DEF CountsFrom, Beating, LeaseRec, SafeWindow
  <2> QED
    BY <1>1, <1>2, <1>13, <2>1, <2>2, <2>3 DEF LeaseRec
<1>14. CASE Live(l) /\ lock' = lock /\ heart'[l] = heart[l] /\ leg'[l].pc \in Running
  BY <1>2, <1>7, <1>14 DEF CountsFrom
<1>15. CASE Live(l) /\ ~StopWorking(l) /\ (RenewGet(l) \/ RenewSwap(l))
  <2>1. PICK x \in Nat : CountsFrom(l, x)
    BY <1>7, <1>15
  <2>2. lock.found /\ lock.token = l
    BY <1>7, <1>15
  <2>3. /\ heart[l].beat \in Nat /\ heart[l].stamp \in Nat /\ heart[l].renewed \in Nat
        /\ Heartbeat \in Nat /\ RenewBudget < Heartbeat /\ RenewBudget \in Nat
        /\ TTL = 3 * Heartbeat /\ MaxTrip + RenewBudget < Heartbeat /\ MaxTrip \in Nat
    BY <1>1 DEF HeartState, PromptStore
  <2>4. CASE RenewGet(l)
    <3>1. heart[l].at = "select" /\ clock = heart[l].beat /\ lock' = lock
          /\ heart[l].beat \in {x + Heartbeat, x + 2 * Heartbeat}
      <4>1. heart[l].at = "select" /\ clock >= heart[l].beat /\ lock' = lock
        BY <2>4 DEF RenewGet
      <4>2. clock <= heart[l].beat /\ clock <= x + RenewBudget + 2 * Heartbeat
            /\ heart[l].beat \in {x + Heartbeat, x + 2 * Heartbeat, x + 3 * Heartbeat}
        BY <1>1, <2>1, <2>3, <4>1 DEF CountsFrom, SafeWindow
      <4> QED
        BY <1>1, <2>3, <4>1, <4>2
    <3>2. CASE Tolerate(l, heart[l].beat + Heartbeat)
      <4>1. leg' = leg /\ CountsFrom(l, x)'
        BY <1>1, <1>2, <1>15, <2>1, <2>3, <3>1, <3>2, ToleratedInTime
      <4> QED
        BY <1>2, <1>15, <2>2, <3>1, <4>1
    <3>3. CASE ~Tolerate(l, heart[l].beat + Heartbeat)
      <4>1. leg' = leg /\ heart'[l] = [heart[l] EXCEPT !.at = "renew",
                !.beat = heart[l].beat + Heartbeat, !.stamp = clock, !.seen = lock]
        BY <1>1, <1>15, <2>2, <2>4, <3>3 DEF RenewGet
      <4>2. CountsFrom(l, x)'
        BY <1>1, <1>2, <2>1, <2>3, <3>1, <4>1 DEF CountsFrom, HeartState
      <4> QED
        BY <1>2, <1>15, <2>2, <3>1, <4>1, <4>2
    <3> QED
      BY <3>2, <3>3
  <2>5. CASE RenewSwap(l)
    <3>1. /\ heart[l].at = "renew" /\ heart[l].stamp \in {x + Heartbeat, x + 2 * Heartbeat}
          /\ heart[l].beat = heart[l].stamp + Heartbeat
          /\ clock <= heart[l].stamp + RenewBudget /\ heart[l].stamp <= clock
      BY <2>1, <2>5 DEF RenewSwap, CountsFrom, IInv, Stamps
    <3>2. /\ lock'.found /\ lock'.token = l /\ lock'.expires \in Int
          /\ lock.expires <= lock'.expires
          /\ lock' = lock \/ heart[l].stamp + TTL <= lock'.expires
      <4>1. CASE lock' = lock
        BY <1>1, <2>2, <4>1
      <4>2. CASE lock' # lock
        <5>1. PICK at \in heart[l].stamp..clock : lock' = LeaseRec(l, at)
          BY <2>5, <4>2 DEF RenewSwap
        <5>2. lock.expires <= heart[l].stamp + TTL
          BY <2>5, <4>2 DEF RenewSwap, IInv, Known, RenewsOwn
        <5>3. lock'.found /\ lock'.token = l /\ lock'.expires = at + TTL
          BY <5>1 DEF LeaseRec
        <5>4. at \in Int /\ heart[l].stamp <= at
          BY <1>1, <2>3, <5>1
        <5> QED
          BY <1>1, <2>3, <5>2, <5>3, <5>4
      <4> QED
        BY <4>1, <4>2
    <3>3. CASE Tolerate(l, heart[l].beat)
      <4>1. leg' = leg /\ CountsFrom(l, x)'
        BY <1>1, <1>2, <1>15, <2>1, <2>3, <3>1, <3>2, <3>3, ToleratedInTime
      <4> QED
        BY <1>2, <1>15, <3>2, <4>1
    <3>4. CASE ~Tolerate(l, heart[l].beat)
      <4>1. leg' = leg /\ heart'[l] = Beating(heart[l].beat, clock)
            /\ heart[l].stamp + TTL <= lock'.expires
        <5>1. /\ \E at \in heart[l].stamp..clock : lock' = LeaseRec(l, at)
              /\ leg' = leg /\ heart' = [heart EXCEPT ![l] = Beating(heart[l].beat, clock)]
          BY <1>15, <2>5, <3>4 DEF RenewSwap
        <5>2. PICK at \in heart[l].stamp..clock : lock' = LeaseRec(l, at)
          BY <5>1
        <5>3. lock'.expires = at + TTL
          BY <5>2 DEF LeaseRec
        <5>4. at \in Int /\ heart[l].stamp <= at
          BY <1>1, <2>3, <5>2
        <5> QED
          BY <1>1, <2>3, <5>1, <5>3, <5>4
      <4> PICK y \in Nat : y = heart[l].stamp
        BY <2>3
      <4>2. CountsFrom(l, y)'
        <5>1. heart'[l].at = "select" /\ heart'[l].beat = y + Heartbeat
              /\ heart'[l].renewed = clock
          BY <3>1, <4>1 DEF Beating
        <5> QED
          BY <1>1, <1>2, <2>3, <3>1, <3>2, <4>1, <5>1 DEF CountsFrom, SafeWindow
      <4> QED
        BY <1>2, <1>15, <2>3, <3>2, <4>1, <4>2
    <3> QED
      BY <3>3, <3>4
  <2> QED
    BY <1>15, <2>4, <2>5
<1>16. CASE RenewGet(l) \/ RenewSwap(l) \/ Watchdog(l)
  <2>1. heart[l].at # "off"
    BY <1>16 DEF RenewGet, RenewSwap, Watchdog
  <2>2. leg[l].pc \notin Acquiring
    BY <2>1 DEF Quiet
  <2>3. leg' = leg \/ StopWorking(l)
    BY <1>16 DEF RenewGet, RenewSwap, Watchdog, Tolerate
  <2>4. CASE StopWorking(l)
    <3>1. leg'[l].pc = leg[l].pc /\ leg'[l].cancelled = (leg[l].pc # "done")
      BY <1>1, <2>4 DEF StopWorking, LegState
    <3> QED
      BY <2>2, <3>1
  <2>5. CASE leg' = leg /\ ~StopWorking(l)
    <3>1. CASE Live(l)
      BY <1>15, <1>16, <2>5, <3>1 DEF Watchdog
    <3>2. CASE ~Live(l)
      BY <2>2, <2>5, <3>2
    <3> QED
      BY <3>1, <3>2
  <2> QED
    BY <2>3, <2>4, <2>5
<1>17. CASE AcquirePut(l) \/ AcquireGet(l) \/ AcquireRetry(l) \/ AcquireSwap(l)
  <2>1. \A label : Goto(l, label) => leg'[l].pc = label /\ leg'[l].stamp = leg[l].stamp
    BY <1>1 DEF Goto, LegState
  <2>2. Enter(l, "done") => leg'[l].pc = "done"
    BY <1>1 DEF Enter, NewLeg
  <2>3. CASE AcquireGet(l)
    <3>1. leg[l].pc \in Acquiring
      BY <2>3 DEF AcquireGet
    <3>2. \/ leg'[l].pc = "done"
          \/ leg'[l].pc \in {"retry", "swap"} /\ leg'[l].stamp = leg[l].stamp
      BY <1>1, <2>1, <2>2, <2>3 DEF AcquireGet, Return, LegState
    <3> QED
      BY <1>8, <1>12, <3>1, <3>2
  <2>4. CASE AcquirePut(l) \/ AcquireRetry(l) \/ AcquireSwap(l)
    <3>1. leg[l].pc \in Acquiring
      BY <2>4 DEF AcquirePut, AcquireRetry, AcquireSwap
    <3>2. \/ leg'[l].pc = "done"
          \/ Goto(l, "confirm") /\ lock' = LeaseRec(l, leg[l].stamp)
          \/ leg'[l].pc = "get" /\ leg'[l].stamp = leg[l].stamp
      BY <2>1, <2>2, <2>4 DEF AcquirePut, AcquireRetry, AcquireSwap, Won, Lost, Return
    <3> QED
      BY <1>8, <1>11, <1>12, <3>1, <3>2
  <2> QED
    BY <1>17, <2>3, <2>4
<1>18. CASE Load(l) \/ SaveFenced(l) \/ SaveCheck(l) \/ SaveWrite(l)
  <2>1. leg[l].pc \in Running /\ lock' = lock /\ heart' = heart
    BY <1>18 DEF Load, SaveFenced, SaveCheck, SaveWrite
  <2>2. CASE Enter(l, "release")
    <3>1. leg'[l].pc = "release"
      BY <1>1, <2>2 DEF Enter, NewLeg
    <3> QED
      BY <1>8, <3>1
  <2>3. CASE \E n : leg' = [leg EXCEPT ![l].pc = "working", ![l].base = n]
    <3>1. leg'[l].pc = "working" /\ (leg[l].cancelled => leg'[l].cancelled)
      BY <1>1, <2>3 DEF LegState
    <3> QED
      BY <1>9, <1>14, <2>1, <3>1
  <2>4. CASE Goto(l, "write")
    <3>1. leg'[l].pc = "write" /\ (leg[l].cancelled => leg'[l].cancelled)
      BY <1>1, <2>4 DEF Goto, LegState
    <3> QED
      BY <1>9, <1>14, <2>1, <3>1
  <2> QED
    BY <1>18, <2>2, <2>3, <2>4 DEF Load, SaveFenced, SaveCheck, SaveWrite, Landed, Refused
<1>19. CASE ConfirmFresh(l)
  <2>1. leg'[l].pc \in {"release", "load"}
    <3>1. \A label : Enter(l, label) => leg'[l].pc = label
      BY <1>1 DEF Enter, NewLeg
    <3>2. Enter(l, "release") \/ Enter(l, "load")
      BY <1>19 DEF ConfirmFresh
    <3> QED
      BY <3>1, <3>2
  <2> QED
    BY <1>8, <1>13, <1>19, <2>1
<1>20. CASE Finish(l) \/ ReleaseGet(l) \/ ReleaseSwap(l) \/ Crash(l)
  <2>1. leg'[l].pc \in {"release", "tombstone", "done"}
    <3>1. \A label : Enter(l, label) => leg'[l].pc = label
      BY <1>1 DEF Enter, NewLeg
    <3>2. CASE ReleaseGet(l)
      BY <1>1, <3>1, <3>2 DEF ReleaseGet, Return, LegState
    <3> QED
      BY <1>20, <3>1, <3>2 DEF Finish, ReleaseSwap, Crash, Return
  <2> QED
    BY <1>8, <2>1
<1>21. CASE HeartbeatStop(l)
  BY <1>8, <1>21 DEF HeartbeatStop
<1>22. CASE Stall(l)
  BY <1>1, <1>22 DEF Stall, LegState
<1> QED
  BY <1>10, <1>16, <1>17, <1>18, <1>19, <1>20, <1>21, <1>22 DEF Step

\* The heartbeat is off until acquire has returned.
LEMMA StepQuiet == TypeOK /\ Quiet /\ [Next]_vars => Quiet'
<1> SUFFICES ASSUME TypeOK, Quiet, [Next]_vars PROVE Quiet'
  OBVIOUS
<1>1. CASE Tick \/ Sweep \/ UNCHANGED vars
  BY <1>1 DEF Tick, Sweep, vars, Quiet
<1>2. ASSUME NEW k \in Leg, Step(k) PROVE Quiet'
  <2>1. \A l \in Leg \ {k} : leg'[l] = leg[l] /\ heart'[l] = heart[l]
    BY <1>2, StepFrame
  <2>2. leg \in [Leg -> LegState] /\ leg[k] \in LegState
        /\ heart \in [Leg -> HeartState] /\ heart[k] \in HeartState
    BY DEF TypeOK
  <2>3. leg'[k].pc \in Acquiring \cup {"idle"} => heart'[k].at = "off"
    <3>1. CASE AcquireStart(k) \/ AcquirePut(k) \/ AcquireGet(k) \/ AcquireRetry(k)
               \/ AcquireSwap(k)
      BY <3>1 DEF Quiet, Acquiring, AcquireStart, AcquirePut, AcquireGet, AcquireRetry,
         AcquireSwap
    <3>2. \A label : Enter(k, label) => leg'[k].pc = label
      BY <2>2 DEF Enter, NewLeg
    <3>3. CASE ConfirmFresh(k) \/ Finish(k) \/ ReleaseSwap(k) \/ Crash(k)
      BY <3>2, <3>3 DEF ConfirmFresh, Finish, ReleaseSwap, Crash, Return, Acquiring
    <3>4. CASE Load(k) \/ ReleaseGet(k)
      BY <2>2, <3>2, <3>4 DEF Load, ReleaseGet, Return, Acquiring, LegState
    <3>5. CASE SaveFenced(k) \/ SaveWrite(k)
      BY <2>2, <3>2, <3>5 DEF SaveFenced, SaveWrite, Landed, Refused, Acquiring, LegState
    <3>6. CASE SaveCheck(k)
      BY <2>2, <3>2, <3>6 DEF SaveCheck, Goto, Acquiring, LegState
    <3>7. CASE RenewGet(k) \/ RenewSwap(k) \/ Watchdog(k)
      <4>1. heart[k].at # "off"
        BY <3>7 DEF RenewGet, RenewSwap, Watchdog
      <4>2. leg'[k].pc = leg[k].pc
        BY <2>2, <3>7 DEF RenewGet, RenewSwap, Watchdog, StopWorking, Tolerate, LegState
      <4> QED
        BY <4>1, <4>2 DEF Quiet
    <3>8. CASE HeartbeatStop(k)
      BY <3>8 DEF HeartbeatStop, Acquiring
    <3>9. CASE Stall(k)
      BY <2>2, <3>9 DEF Stall, Quiet, LegState
    <3> QED
      BY <1>2, <3>1, <3>3, <3>4, <3>5, <3>6, <3>7, <3>8, <3>9 DEF Step
  <2> QED
    BY <2>1, <2>3 DEF Quiet
<1> QED
  BY <1>1, <1>2 DEF Next

\* Time does not pass a leg by that still has something due.
LEMMA TickKeepsInTime == PromptStore /\ IInv /\ InTime /\ Tick => InTime'
<1> SUFFICES ASSUME PromptStore, IInv, InTime, Tick, NEW l \in Leg, ~leg'[l].stalled
             PROVE  (AcquiresInTime(l) /\ HoldsOnConfirm(l) /\ BeatsWhileLive(l))'
  BY DEF InTime
<1>1. leg' = leg /\ heart' = heart /\ lock' = lock /\ clock' = clock + 1 /\ OnTime(l)
  BY DEF Tick
<1>2. AcquiresInTime(l) /\ HoldsOnConfirm(l) /\ BeatsWhileLive(l)
  BY <1>1 DEF InTime
<1>3. /\ clock \in Nat /\ leg[l].stamp \in Nat /\ heart[l].beat \in Nat
      /\ heart[l].renewed \in Nat /\ heart[l].stamp \in Nat
  BY DEF IInv, TypeOK, LegState, HeartState
<1>4. (AcquiresInTime(l) /\ HoldsOnConfirm(l))'
  BY <1>1, <1>2, <1>3 DEF OnTime, AcquiresInTime, HoldsOnConfirm, LeaseRec
<1>5. ASSUME NEW x \in Nat, CountsFrom(l, x) PROVE CountsFrom(l, x)'
  BY <1>1, <1>3, <1>5 DEF OnTime, CountsFrom, SafeWindow
<1> QED
  BY <1>1, <1>2, <1>4, <1>5 DEF BeatsWhileLive, Live

\* A leg whose process runs in time works only while its own live lease is in the
\* store, provided an acquire and a renew together fit in one heartbeat.
THEOREM LiveLegsOwn == ASSUME PromptStore PROVE Spec => []LiveLegOwnsLease
<1>1. Init => InTime /\ Quiet
  BY DEF Init, InTime, Quiet, AcquiresInTime, HoldsOnConfirm, BeatsWhileLive, Live, NewLeg,
     Off, Acquiring, Running
<1>2. IInv /\ Quiet /\ InTime /\ [Next]_vars => InTime'
  <2> SUFFICES ASSUME IInv, Quiet, InTime, [Next]_vars PROVE InTime'
    OBVIOUS
  <2>1. CASE Tick
    BY <2>1, PromptStore, TickKeepsInTime
  <2>2. CASE Sweep
    <3> SUFFICES ASSUME NEW l \in Leg, ~leg'[l].stalled
                 PROVE  (AcquiresInTime(l) /\ HoldsOnConfirm(l) /\ BeatsWhileLive(l))'
      BY DEF InTime
    <3>1. leg' = leg /\ heart' = heart /\ clock' = clock /\ ~OwnsLease(l)
      BY <2>2 DEF Sweep, OwnsLease
    <3>2. ~Live(l) /\ leg[l].pc # "confirm"
      BY <3>1, PromptStore, InTimeOwns
    <3> QED
      BY <3>1, <3>2 DEF InTime, AcquiresInTime, HoldsOnConfirm, BeatsWhileLive, Live
  <2>3. CASE UNCHANGED vars
    BY <2>3 DEF vars, InTime, AcquiresInTime, HoldsOnConfirm, BeatsWhileLive, Live,
       CountsFrom, LeaseRec
  <2>4. ASSUME NEW k \in Leg, Step(k) PROVE InTime'
    BY <2>4, PromptStore, OwnKeepsInTime, OthersKeepInTime DEF InTime
  <2> QED
    BY <2>1, <2>2, <2>3, <2>4 DEF Next
<1>3. IInv /\ InTime => LiveLegOwnsLease
  BY PromptStore, InTimeOwns DEF LiveLegOwnsLease
<1>4. IInv /\ Quiet /\ [Next]_vars => Quiet'
  BY StepQuiet DEF IInv
<1> QED
  BY <1>1, <1>2, <1>3, <1>4, LeaseInvariant, PTL DEF Spec
=============================================================================
