--------------------------- MODULE ExclusiveLease ---------------------------
(***************************************************************************)
(* What the per-run execution lease promises, without the store protocol   *)
(* that implements it (runlock.go, extstore.go of the MCP server).         *)
(*                                                                         *)
(* One run has at most one owner.  Ownership passes to another leg only    *)
(* once the previous owner gave it up or its lease lapsed, a lease never   *)
(* reaches further than one TTL ahead, and the run's checkpoint is a chain *)
(* only the owner of a live lease can lengthen.                            *)
(***************************************************************************)
EXTENDS Integers

CONSTANTS
    Leg,     \* executions of the run that may own the lease
    NoLeg,   \* no owner
    TTL      \* runLockTTL

VARIABLES
    now,     \* the clock the lease is measured against
    owner,   \* the leg the lease names, or NoLeg
    until,   \* the lease is live strictly before this time
    fence,   \* TRUE when checkpoint writes are fenced in the store
    saved    \* number of checkpoint writes that have landed

vars == <<now, owner, until, fence, saved>>

Live == owner # NoLeg /\ now < until

Init ==
    /\ now = 0
    /\ owner = NoLeg
    /\ until \in Int
    /\ fence \in BOOLEAN
    /\ saved = 0

\* A leg becomes the owner: nobody holds a live lease.
Grant ==
    /\ ~Live
    /\ owner' \in Leg
    /\ until' <= now + TTL
    /\ UNCHANGED <<now, fence, saved>>

\* The owner stays the owner for longer.
Extend ==
    /\ owner # NoLeg
    /\ until' \in until..(now + TTL)
    /\ UNCHANGED <<now, owner, fence, saved>>

\* The lease ends: given up by its owner, or its lapsed record removed.
End ==
    /\ owner' = NoLeg
    /\ UNCHANGED <<now, fence, saved>>

\* A checkpoint write lands: with a fence, only under a live lease.
Save ==
    /\ fence => Live
    /\ saved' = saved + 1
    /\ UNCHANGED <<now, owner, until, fence>>

Tick ==
    /\ now' = now + 1
    /\ UNCHANGED <<owner, until, fence, saved>>

Next == Grant \/ Extend \/ End \/ Save \/ Tick

Spec == Init /\ [][Next]_vars
=============================================================================
