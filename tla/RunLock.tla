------------------------------- MODULE RunLock -------------------------------
(***************************************************************************)
(* The per-run execution lease of the MCP server (mcpserver/runlock.go),   *)
(* the heartbeat that keeps it (heartbeatLock, runs.go) and the checkpoint *)
(* writes fenced on it (extStateStore, extstore.go).                       *)
(*                                                                         *)
(* One run, one lease record in the shared key/value store, and a set of   *)
(* legs: a leg is one call of execRun, on whatever replica.  A leg calls   *)
(* acquire once and acquire mints a fresh token, so the leg itself plays   *)
(* the token, and the holder name beside it in the record adds nothing.    *)
(* Every store operation is one atomic step, and anything may happen       *)
(* between two of them: other legs, the clock, a crash, a stall.           *)
(*                                                                         *)
(* Time is the integer variable clock.  A leg that is not stalled takes at *)
(* most MaxTrip to acquire, and answers its timers when they are due; a    *)
(* stalled leg (a frozen or starved process) may take any step at any      *)
(* later time.                                                             *)
(***************************************************************************)
EXTENDS Integers

CONSTANTS
    Leg,            \* executions of the run; also their lease tokens
    NoLeg,          \* the empty token
    TTL,            \* runLockTTL
    Heartbeat,      \* runLockHeartbeat
    RenewBudget,    \* renewBudget, the longest a renew call may take
    ConfirmMargin,  \* runLockConfirmMargin()
    MaxTrip,        \* longest acquire of a leg that is not stalled
    MaxClock,       \* bound: the clock stops here
    MaxSaves        \* bound: checkpoint writes in a behaviour

ASSUME LegAssumption == NoLeg \notin Leg
ASSUME TimingAssumption ==
    /\ Heartbeat \in Nat \ {0}
    /\ TTL = 3 * Heartbeat
    /\ RenewBudget \in 0..(Heartbeat - 1)
    /\ ConfirmMargin \in 0..TTL
    /\ MaxTrip \in Nat
    /\ MaxClock \in Nat
    /\ MaxSaves \in Nat

VARIABLES
    clock,
    lock,    \* the value at run/<id>/lock
    fence,   \* the store advertised the "fence" capability
    cp,      \* version of the run's checkpoint: writes landed so far
    leg,     \* the locals of each execRun
    heart    \* the locals of each leg's heartbeatLock goroutine

vars == <<clock, lock, fence, cp, leg, heart>>

-----------------------------------------------------------------------------
(* Lease records and the locals of a leg.                                  *)

Record == [found : BOOLEAN, token : Leg \cup {NoLeg}, expires : Int]

Absent == [found |-> FALSE, token |-> NoLeg, expires |-> 0]
LeaseRec(l, at) == [found |-> TRUE, token |-> l, expires |-> at + TTL]
Tombstone(at) == [found |-> TRUE, token |-> NoLeg, expires |-> at - 1]

Fresh(rec) == rec.found /\ clock < rec.expires
OwnsLease(l) == lock.token = l /\ Fresh(lock)

\* Mutant of SafeWindow: the heartbeat waits for the whole lease to lapse.
SafeWindowWholeTTL == TTL

\* How long the heartbeat goes without a renew before it gives the run up.
SafeWindow == TTL - Heartbeat

Acquiring == {"put", "get", "retry", "swap", "confirm"}
Running == {"load", "working", "write"}
Stopping == {"release", "tombstone"}

LegState ==
    [pc : Acquiring \cup Running \cup Stopping \cup {"idle", "done"},
     stamp : Nat,            \* when it stamped the record it is about to write
     seen : Record,          \* the record it read before a swap
     base : Nat,             \* the checkpoint version it last loaded or wrote
     cancelled : BOOLEAN,    \* its context has been cancelled
     stalled : BOOLEAN]      \* its process does not run in time

HeartState ==
    [at : {"off", "select", "renew"},
     beat : Nat,             \* when the ticker fires next
     renewed : Nat,          \* lastRenew
     stamp : Nat,            \* when renew read the record
     seen : Record]          \* the record renew read before the swap

NewLeg == [pc |-> "idle", stamp |-> 0, seen |-> Absent, base |-> 0,
           cancelled |-> FALSE, stalled |-> FALSE]
Off == [at |-> "off", beat |-> 0, renewed |-> 0, stamp |-> 0, seen |-> Absent]
Beating(next, last) ==
    [at |-> "select", beat |-> next, renewed |-> last, stamp |-> 0, seen |-> Absent]

\* The leg drives the run: it holds what it believes is the lease, and nothing
\* has told it to stop.
Live(l) == leg[l].pc \in Running /\ ~leg[l].cancelled

Init ==
    /\ clock = 0
    /\ lock = Absent
    /\ fence \in BOOLEAN
    /\ cp = 0
    /\ leg = [l \in Leg |-> NewLeg]
    /\ heart = [l \in Leg |-> Off]

Goto(l, label) == leg' = [leg EXCEPT ![l].pc = label]

\* A call returned and its locals are gone.
Enter(l, label) == leg' = [leg EXCEPT ![l] =
                      [NewLeg EXCEPT !.pc = label, !.stalled = leg[l].stalled]]

\* execRun returned.
Return(l) == Enter(l, "done")

-----------------------------------------------------------------------------
(* acquire.  A failed call ends the leg: execRun returns without running.  *)
(* A call whose reply is lost may have landed in the store or not.         *)

AcquireStart(l) ==
    /\ leg[l].pc = "idle"
    /\ leg' = [leg EXCEPT ![l].pc = "put", ![l].stamp = clock]
    /\ UNCHANGED <<clock, lock, fence, cp, heart>>

\* The leg's record is in the store; the reply may be lost.
Won(l) ==
    /\ lock' = LeaseRec(l, leg[l].stamp)
    /\ Goto(l, "confirm") \/ Return(l)

\* The record is left alone and acquire gives up.
Lost(l) == UNCHANGED lock /\ Return(l)

AcquirePut(l) ==
    /\ leg[l].pc = "put"
    /\ \/ ~lock.found /\ Won(l)
       \/ lock.found /\ UNCHANGED lock /\ Goto(l, "get")
       \/ Lost(l)
    /\ UNCHANGED <<clock, fence, cp, heart>>

\* Mutant of AcquireGet: takes over whatever record is there.
AcquireGetAnyRecord(l) ==
    /\ leg[l].pc = "get"
    /\ lock.found /\ leg' = [leg EXCEPT ![l].pc = "swap", ![l].seen = lock]
    /\ UNCHANGED <<clock, lock, fence, cp, heart>>

\* Only a lapsed lease may be taken over.
AcquireGet(l) ==
    /\ leg[l].pc = "get"
    /\ \/ ~lock.found /\ Goto(l, "retry")
       \/ /\ lock.found /\ ~Fresh(lock)
          /\ leg' = [leg EXCEPT ![l].pc = "swap", ![l].seen = lock]
       \/ Return(l)
    /\ UNCHANGED <<clock, lock, fence, cp, heart>>

AcquireRetry(l) ==
    /\ leg[l].pc = "retry"
    /\ (~lock.found /\ Won(l)) \/ Lost(l)
    /\ UNCHANGED <<clock, fence, cp, heart>>

AcquireSwap(l) ==
    /\ leg[l].pc = "swap"
    /\ (lock = leg[l].seen /\ Won(l)) \/ Lost(l)
    /\ UNCHANGED <<clock, fence, cp, heart>>

\* A round trip that ate too much of the TTL gives the lease back; otherwise
\* the heartbeat starts and the leg goes on to load the checkpoint.
ConfirmFresh(l) ==
    /\ leg[l].pc = "confirm"
    /\ IF clock - leg[l].stamp >= TTL - ConfirmMargin
       THEN Enter(l, "release") /\ UNCHANGED heart
       ELSE /\ Enter(l, "load")
            /\ heart' = [heart EXCEPT ![l] = Beating(clock + Heartbeat, clock)]
    /\ UNCHANGED <<clock, lock, fence, cp>>

-----------------------------------------------------------------------------
(* The run itself: load the checkpoint, work, write checkpoints, stop.     *)

Load(l) ==
    /\ leg[l].pc = "load"
    /\ leg' = [leg EXCEPT ![l].pc = "working", ![l].base = cp]
    /\ UNCHANGED <<clock, lock, fence, cp, heart>>

\* The write lands; the reply may be lost, which fails the step.  A leg whose
\* context is cancelled stops at this step boundary.
Landed(l) ==
    /\ cp' = cp + 1
    /\ \/ ~leg[l].cancelled /\ leg' = [leg EXCEPT ![l].pc = "working", ![l].base = cp']
       \/ Enter(l, "release")

Refused(l) == UNCHANGED cp /\ Enter(l, "release")

\* Mutant of SaveFenced: the write goes through whoever holds the lease.
SaveUnfenced(l) ==
    /\ leg[l].pc = "working" /\ fence /\ cp < MaxSaves
    /\ Landed(l) \/ Refused(l)
    /\ UNCHANGED <<clock, lock, fence, heart>>

\* Save and Clear through the store's own fence: one atomic operation.
SaveFenced(l) ==
    /\ leg[l].pc = "working" /\ fence /\ cp < MaxSaves
    /\ (OwnsLease(l) /\ Landed(l)) \/ Refused(l)
    /\ UNCHANGED <<clock, lock, fence, heart>>

\* Without the fence capability: check first ...
SaveCheck(l) ==
    /\ leg[l].pc = "working" /\ ~fence /\ cp < MaxSaves
    /\ (OwnsLease(l) /\ Goto(l, "write")) \/ Enter(l, "release")
    /\ UNCHANGED <<clock, lock, fence, cp, heart>>

\* ... then write, whatever happened to the lease in between.
SaveWrite(l) ==
    /\ leg[l].pc = "write" /\ cp < MaxSaves
    /\ Landed(l) \/ Refused(l)
    /\ UNCHANGED <<clock, lock, fence, heart>>

\* The run ends: it completed, failed, or saw its cancelled context.
Finish(l) ==
    /\ leg[l].pc \in {"load", "working"}
    /\ Enter(l, "release")
    /\ UNCHANGED <<clock, lock, fence, cp, heart>>

-----------------------------------------------------------------------------
(* release: the record becomes an expired tombstone, if it is still ours.  *)

\* Mutant of ReleaseGet: a late release does not look whose record it is.
ReleaseGetAnyRecord(l) ==
    /\ leg[l].pc = "release"
    /\ leg' = [leg EXCEPT ![l].pc = "tombstone", ![l].seen = lock, ![l].stamp = clock]
    /\ UNCHANGED <<clock, lock, fence, cp, heart>>

ReleaseGet(l) ==
    /\ leg[l].pc = "release"
    /\ \/ /\ lock.token = l
          /\ leg' = [leg EXCEPT ![l].pc = "tombstone", ![l].seen = lock,
                                ![l].stamp = clock]
       \/ Return(l)
    /\ UNCHANGED <<clock, lock, fence, cp, heart>>

ReleaseSwap(l) ==
    /\ leg[l].pc = "tombstone"
    /\ \/ lock = leg[l].seen /\ lock' = Tombstone(leg[l].stamp)
       \/ UNCHANGED lock
    /\ Return(l)
    /\ UNCHANGED <<clock, fence, cp, heart>>

-----------------------------------------------------------------------------
(* heartbeatLock, which runs until execRun has released the lease.         *)

\* rn.cancel() and return.
StopWorking(l) ==
    /\ leg' = [leg EXCEPT ![l].cancelled = leg[l].pc # "done"]
    /\ heart' = [heart EXCEPT ![l] = Off]

\* heartbeatDecision on a store error, with the next tick due at beat.
Tolerate(l, beat) ==
    IF clock - heart[l].renewed >= SafeWindow
    THEN StopWorking(l)
    ELSE /\ heart' = [heart EXCEPT ![l] = Beating(beat, heart[l].renewed)]
         /\ UNCHANGED leg

\* The ticker fires and renew reads the record.
RenewGet(l) ==
    /\ heart[l].at = "select" /\ clock >= heart[l].beat
    /\ LET beat == heart[l].beat + Heartbeat IN
       \/ /\ lock.token = l
          /\ heart' = [heart EXCEPT ![l].at = "renew", ![l].beat = beat,
                                    ![l].stamp = clock, ![l].seen = lock]
          /\ UNCHANGED leg
       \/ lock.token # l /\ StopWorking(l)
       \/ Tolerate(l, beat)
    /\ UNCHANGED <<clock, lock, fence, cp>>

\* Then swaps in the same acquisition with a later expiry, counted from some
\* moment between its read and its write.
RenewSwap(l) ==
    /\ heart[l].at = "renew"
    /\ \/ /\ lock = heart[l].seen
          /\ \E at \in heart[l].stamp..clock : lock' = LeaseRec(l, at)
          /\ \/ /\ heart' = [heart EXCEPT ![l] = Beating(heart[l].beat, clock)]
                /\ UNCHANGED leg
             \/ Tolerate(l, heart[l].beat)      \* the reply is lost
       \/ lock # heart[l].seen /\ StopWorking(l) /\ UNCHANGED lock
       \/ Tolerate(l, heart[l].beat) /\ UNCHANGED lock
    /\ UNCHANGED <<clock, fence, cp>>

\* No renew succeeded within the safe window.
Watchdog(l) ==
    /\ heart[l].at = "select" /\ clock >= heart[l].renewed + SafeWindow
    /\ StopWorking(l)
    /\ UNCHANGED <<clock, lock, fence, cp>>

HeartbeatStop(l) ==
    /\ heart[l].at = "select" /\ leg[l].pc = "done"
    /\ heart' = [heart EXCEPT ![l] = Off]
    /\ UNCHANGED <<clock, lock, fence, cp, leg>>

-----------------------------------------------------------------------------
(* The environment.                                                        *)

\* The replica dies: its goroutines vanish and its lease stays behind.
Crash(l) ==
    /\ leg[l].pc \notin {"idle", "done"}
    /\ Return(l)
    /\ heart' = [heart EXCEPT ![l] = Off]
    /\ UNCHANGED <<clock, lock, fence, cp>>

\* From now on the leg's process is not scheduled in time.
Stall(l) ==
    /\ leg[l].pc \notin {"idle", "done"} /\ ~leg[l].stalled
    /\ leg' = [leg EXCEPT ![l].stalled = TRUE]
    /\ UNCHANGED <<clock, lock, fence, cp, heart>>

\* Remove deletes a retired run's keys, long after its lease lapsed.
Sweep ==
    /\ lock.found /\ ~Fresh(lock)
    /\ lock' = Absent
    /\ UNCHANGED <<clock, fence, cp, leg, heart>>

\* A leg that is not stalled does what is due before time passes it by.
OnTime(l) ==
    /\ leg[l].pc \in Acquiring => clock < leg[l].stamp + MaxTrip
    /\ heart[l].at = "select" =>
          clock < heart[l].beat /\ clock < heart[l].renewed + SafeWindow
    /\ heart[l].at = "renew" => clock < heart[l].stamp + RenewBudget

Tick ==
    /\ clock < MaxClock
    /\ \A l \in Leg : leg[l].stalled \/ OnTime(l)
    /\ clock' = clock + 1
    /\ UNCHANGED <<lock, fence, cp, leg, heart>>

Step(l) ==
    \/ AcquireStart(l) \/ AcquirePut(l) \/ AcquireGet(l) \/ AcquireRetry(l)
    \/ AcquireSwap(l) \/ ConfirmFresh(l)
    \/ Load(l) \/ SaveFenced(l) \/ SaveCheck(l) \/ SaveWrite(l) \/ Finish(l)
    \/ ReleaseGet(l) \/ ReleaseSwap(l)
    \/ RenewGet(l) \/ RenewSwap(l) \/ Watchdog(l) \/ HeartbeatStop(l)
    \/ Crash(l) \/ Stall(l)

Next == Tick \/ Sweep \/ \E l \in Leg : Step(l)

Spec == Init /\ [][Next]_vars

-----------------------------------------------------------------------------
(* Properties.                                                             *)

\* Every variable has its type, and no lease record reaches further than one
\* TTL ahead of the clock: a crashed holder blocks the run for one TTL at most.
TypeOK ==
    /\ clock \in Nat
    /\ lock \in Record /\ lock.expires <= clock + TTL
    /\ fence \in BOOLEAN
    /\ cp \in Nat
    /\ leg \in [Leg -> LegState]
    /\ heart \in [Leg -> HeartState]

\* heartbeatLock's purpose: a leg whose process runs in time stops working
\* before another replica can take the run over, so while it works the record
\* in the store is its own and is fresh.  Hence never two live legs in time.
LiveLegOwnsLease == \A l \in Leg : Live(l) /\ ~leg[l].stalled => OwnsLease(l)

\* With the store-side fence no checkpoint write is lost: each one replaces the
\* very version its leg had loaded or written before, so a leg that stalled
\* past its lease cannot overwrite what its successor saved.
NoLostCheckpoint ==
    [][fence /\ cp' # cp =>
          \E l \in Leg : leg[l].pc = "working" /\ leg'[l] # leg[l] /\ leg[l].base = cp]_vars

\* A live lease is only ever touched by its own leg: a late release, a late
\* renew or the acquire of another leg leaves it alone.
NoTheft ==
    [][\A l \in Leg : OwnsLease(l) /\ lock' # lock =>
          leg'[l] # leg[l] \/ heart'[l] # heart[l]]_vars

\* The protocol implements the abstract lease: ownership changes hands only
\* through a lapsed or given-up lease, and a renew never shortens a lease or
\* stretches it past one TTL, however old the record was that it read.
Lease == INSTANCE ExclusiveLease WITH
    now <- clock, owner <- lock.token, until <- lock.expires, saved <- cp

ImplementsLease == Lease!Spec
=============================================================================
