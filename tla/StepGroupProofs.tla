---------------------------- MODULE StepGroupProofs ----------------------------
(***************************************************************************)
(* Theorems about StepGroup, for any number of branches, calls and permits,*)
(* and about the merge at its join, BranchMerge, for any number of         *)
(* branches, variables, objects and fields.                                *)
(***************************************************************************)
EXTENDS StepGroup, BranchMerge, FiniteSetTheorems, WellFoundedInduction, TLAPS

USE GroupAssumption

-----------------------------------------------------------------------------
(* The inductive invariant.                                                *)

\* Only a branch whose body has ended has an error; what is cancelled was joined, or cut
\* short by it.
Kept ==
    \A b \in Branch :
       /\ step[b].pc \notin {"drain", "over"} => step[b].err = "none"
       /\ \A k \in Call : call[b][k].cancelled => k \in step[b].joined \/ Genuine(step[b].err)

\* A verdict is about calls that have returned; row is what a branch's calls are.
Good(row, K) == {k \in K : row[k].err = "none"}

Decided(row, s) ==
    /\ s.verdict = "met" => Cardinality(Good(row, s.seen)) >= s.need
    /\ s.verdict = "short" =>
          Cardinality(s.seen) - Cardinality(Good(row, s.seen)) > Cardinality(s.on) - s.need

Stands(row, s) ==
    /\ s.pc \in {"wait", "settle"} =>
          s.seen \subseteq s.on /\ \A k \in s.seen : row[k].at = "done"
    /\ s.pc = "settle" => Decided(row, s)

Waiting == \A b \in Branch : Stands(call[b], step[b])

IInv == TypeOK /\ PermitsConserved /\ NothingOutlives /\ Kept /\ Waiting

Table == [Branch -> [Call -> Calls]]
AtWork == {"running", "leaving"}
Weight(at) == IF at \in AtWork THEN 1 ELSE 0

-----------------------------------------------------------------------------
(* Types and counts.                                                       *)

LEMMA StepFields ==
    ASSUME TypeOK, NEW b \in Branch
    PROVE  /\ step \in [Branch -> Steps] /\ step[b] \in Steps
           /\ call \in Table /\ call[b] \in [Call -> Calls]
           /\ \A k \in Call : call[b][k] \in Calls
           /\ sem \in 0..Permits
           /\ step[b].on \subseteq Call /\ step[b].seen \subseteq Call
           /\ step[b].joined \subseteq Call /\ step[b].err \in Errors
           /\ step[b].need \in 0..MaxCalls
BY DEF TypeOK, Steps, Table

LEMMA FiniteCalls ==
    ASSUME NEW K, K \subseteq Call
    PROVE  IsFiniteSet(K) /\ Cardinality(K) \in 0..MaxCalls
<1>1. IsFiniteSet(Call) /\ Cardinality(Call) = MaxCalls
  BY FS_Interval DEF Call
<1> QED
  BY <1>1, FS_Subset, FS_CardinalityType

LEMMA Finite ==
    /\ IsFiniteSet(Holding) /\ Cardinality(Holding) \in Nat
    /\ Cardinality(Holding') \in Nat
<1>1. IsFiniteSet(Branch \X Call)
  <2>1. IsFiniteSet(Branch) /\ IsFiniteSet(Call)
    BY FS_Interval DEF Branch, Call
  <2> QED
    BY <2>1, FS_Product
<1>2. Holding \in SUBSET (Branch \X Call) /\ Holding' \in SUBSET (Branch \X Call)
  BY DEF Holding
<1> QED
  BY <1>1, <1>2, FS_Subset, FS_CardinalityType

\* One call that moves changes the count by itself.
LEMMA MoveCounts ==
    ASSUME TypeOK, NEW b \in Branch, NEW k \in Call, NEW new \in Calls,
           call' = [call EXCEPT ![b][k] = new]
    PROVE  Cardinality(Holding') =
              Cardinality(Holding) + Weight(new.at) - Weight(call[b][k].at)
<1> DEFINE x == <<b, k>>
<1>1. /\ call'[b][k] = new
      /\ \A c \in Branch, j \in Call : c # b \/ j # k => call'[c][j] = call[c][j]
  BY StepFields DEF Table
<1>2. x \in Holding <=> call[b][k].at \in AtWork
  BY DEF Holding, AtWork
<1>3. x \in Holding' <=> new.at \in AtWork
  BY <1>1 DEF Holding, AtWork
<1>4. ASSUME NEW p \in Branch \X Call, p # x
      PROVE  p \in Holding' <=> p \in Holding
  <2>1. PICK c \in Branch, j \in Call : p = <<c, j>>
    OBVIOUS
  <2> QED
    BY <1>1, <1>4, <2>1 DEF Holding
<1>5. Holding \subseteq Branch \X Call /\ Holding' \subseteq Branch \X Call /\ x \in Branch \X Call
  BY DEF Holding
<1> HIDE DEF x
<1>6. CASE new.at \in AtWork /\ call[b][k].at \notin AtWork
  <2>1. Holding' = Holding \cup {x} /\ x \notin Holding
    BY <1>2, <1>3, <1>4, <1>5, <1>6
  <2>2. Cardinality(Holding') = Cardinality(Holding) + 1
    BY <2>1, Finite, FS_AddElement
  <2> QED
    BY <1>6, <2>2, Finite DEF Weight
<1>7. CASE new.at \notin AtWork /\ call[b][k].at \in AtWork
  <2>1. Holding' = Holding \ {x} /\ x \in Holding
    BY <1>2, <1>3, <1>4, <1>5, <1>7
  <2>2. Cardinality(Holding') = Cardinality(Holding) - 1
    BY <2>1, Finite, FS_RemoveElement
  <2> QED
    BY <1>7, <2>2, Finite DEF Weight
<1>8. CASE new.at \in AtWork <=> call[b][k].at \in AtWork
  <2>1. Holding' = Holding
    BY <1>2, <1>3, <1>4, <1>5, <1>8
  <2> QED
    BY <1>8, <2>1, Finite DEF Weight
<1> QED
  BY <1>6, <1>7, <1>8

\* A verdict stands as long as the calls it is about stay as they are.
LEMMA StandsOn ==
    ASSUME NEW s, NEW row, NEW other, Stands(row, s),
           s.pc \in {"wait", "settle"} =>
              \A k \in s.seen : other[k].at = row[k].at /\ other[k].err = row[k].err
    PROVE  Stands(other, s)
<1>1. CASE s.pc \in {"wait", "settle"}
  <2>1. Good(other, s.seen) = Good(row, s.seen)
    BY <1>1 DEF Good
  <2> QED
    BY <1>1, <2>1 DEF Stands, Decided
<1>2. CASE s.pc \notin {"wait", "settle"}
  BY <1>2 DEF Stands
<1> QED
  BY <1>1, <1>2

-----------------------------------------------------------------------------
(* What kinds of steps preserve.                                           *)

\* A call that is made or goes on, with the permit it takes or gives back.
LEMMA CallKeeps ==
    ASSUME IInv, NEW b \in Branch, NEW k \in Call, NEW new \in Calls,
           call' = [call EXCEPT ![b][k] = new],
           new.cancelled = call[b][k].cancelled, new.at # "none",
           call[b][k].at # "done",
           call[b][k].at = "none" => step[b].pc = "body",
           sem' = sem + Weight(new.at) - Weight(call[b][k].at), sem' <= Permits,
           UNCHANGED <<step, ctx, outcome>>
    PROVE  IInv'
<1>1. /\ TypeOK /\ sem \in Nat /\ call \in Table
      /\ call'[b][k] = new
      /\ \A c \in Branch, j \in Call : c # b \/ j # k => call'[c][j] = call[c][j]
  BY StepFields DEF IInv, TypeOK, Table
<1>2. PermitsConserved'
  <2>1. Cardinality(Holding') = Cardinality(Holding) + Weight(new.at) - Weight(call[b][k].at)
    BY <1>1, MoveCounts
  <2>2. Weight(new.at) \in Nat /\ Weight(call[b][k].at) \in Nat
    BY DEF Weight
  <2>3. sem' = Cardinality(Holding')
    BY <1>1, <2>1, <2>2, Finite DEF IInv, PermitsConserved
  <2> QED
    BY <2>3 DEF PermitsConserved
<1>3. sem' \in 0..Permits
  BY <1>2, Finite DEF PermitsConserved
<1>4. call' \in Table
  <2>1. [call[b] EXCEPT ![k] = new] \in [Call -> Calls]
    BY <1>1 DEF Table
  <2> QED
    BY <1>1, <2>1 DEF Table
<1>5. TypeOK'
  BY <1>1, <1>3, <1>4 DEF TypeOK, Table
<1>6. NothingOutlives'
  BY <1>1 DEF IInv, NothingOutlives, Returned, Made
<1>7. Kept'
  BY <1>1 DEF IInv, Kept
<1>8. Waiting'
  <2> SUFFICES ASSUME NEW c \in Branch
               PROVE  Stands(call'[c], step'[c])
    BY DEF Waiting
  <2>1. /\ Stands(call[c], step[c]) /\ step'[c] = step[c]
        /\ step[c].seen \subseteq Call /\ step[c] \in Steps
    BY <1>1, StepFields DEF IInv, Waiting
  <2>2. ASSUME step[c].pc \in {"wait", "settle"}, NEW j \in step[c].seen
        PROVE  call'[c][j].at = call[c][j].at /\ call'[c][j].err = call[c][j].err
    BY <1>1, <2>1, <2>2 DEF Stands
  <2> QED
    BY <2>1, <2>2, StandsOn
<1> QED
  BY <1>2, <1>5, <1>6, <1>7, <1>8 DEF IInv

\* A branch that goes on, and at most cancels calls of its own.
LEMMA StepKeeps ==
    ASSUME IInv, NEW b \in Branch, NEW new \in Steps,
           step' = [step EXCEPT ![b] = new],
           call' \in Table,
           \A c \in Branch, j \in Call :
              /\ call'[c][j].at = call[c][j].at /\ call'[c][j].err = call[c][j].err
              /\ c # b => call'[c][j].cancelled = call[c][j].cancelled,
           \A j \in Call : call'[b][j].cancelled => j \in new.joined \/ Genuine(new.err),
           new.pc \notin {"drain", "over"} => new.err = "none",
           new.pc = "over" => Returned(b, Made(b)),
           Stands(call[b], new),
           UNCHANGED <<sem, ctx, outcome>>
    PROVE  IInv'
<1>1. /\ TypeOK /\ step \in [Branch -> Steps] /\ step'[b] = new
      /\ \A c \in Branch \ {b} : step'[c] = step[c]
  BY StepFields DEF IInv
<1>2. TypeOK'
  BY <1>1 DEF TypeOK, Table
<1>3. Holding' = Holding
  <2>1. \A p \in Branch \X Call : call'[p[1]][p[2]].at = call[p[1]][p[2]].at
    OBVIOUS
  <2> QED
    BY <2>1 DEF Holding
<1>4. PermitsConserved'
  BY <1>3 DEF IInv, PermitsConserved
<1>5. \A c \in Branch : Made(c)' = Made(c)
  BY DEF Made
<1>6. NothingOutlives'
  BY <1>1, <1>5 DEF IInv, NothingOutlives, Returned, Made
<1>7. Kept'
  BY <1>1 DEF IInv, Kept
<1>8. Waiting'
  <2> SUFFICES ASSUME NEW c \in Branch
               PROVE  Stands(call'[c], step'[c])
    BY DEF Waiting
  <2>1. step'[c] \in Steps /\ Stands(call[c], step'[c])
    BY <1>1 DEF IInv, Waiting
  <2>2. \A j \in step'[c].seen :
           call'[c][j].at = call[c][j].at /\ call'[c][j].err = call[c][j].err
    BY <2>1 DEF Steps
  <2> QED
    BY <2>1, <2>2, StandsOn
<1> QED
  BY <1>2, <1>4, <1>6, <1>7, <1>8 DEF IInv

-----------------------------------------------------------------------------
(* The actions.                                                            *)

LEMMA InitHolds ==
    ASSUME Init
    PROVE  IInv
<1>1. NoCall \in Calls /\ NewStep \in Steps
  BY DEF NoCall, Calls, NewStep, Steps, Errors, Call
<1>2. \A b \in Branch : step[b] = NewStep /\ \A k \in Call : call[b][k] = NoCall
  BY DEF Init
<1>3. TypeOK
  BY <1>1 DEF Init, TypeOK, Outcomes
<1>4. Holding = {}
  <2>1. \A p \in Branch \X Call : call[p[1]][p[2]].at = "none"
    BY <1>2 DEF NoCall
  <2> QED
    BY <2>1 DEF Holding
<1>5. PermitsConserved
  BY <1>4, FS_EmptySet DEF Init, PermitsConserved
<1>6. NothingOutlives /\ Kept /\ Waiting
  BY <1>2 DEF NothingOutlives, Kept, Waiting, Stands, NewStep, NoCall
<1> QED
  BY <1>3, <1>5, <1>6 DEF IInv

LEMMA AcquireKeeps ==
    ASSUME IInv, NEW b \in Branch, NEW k \in Call, Acquire(b, k)
    PROVE  IInv'
<1> DEFINE new == IF CallDone(b, k) THEN [call[b][k] EXCEPT !.at = "leaving", !.err = "ctx"]
                  ELSE [call[b][k] EXCEPT !.at = "running"]
<1>1. TypeOK /\ call[b][k] \in Calls /\ sem \in 0..Permits
  BY StepFields DEF IInv
<1>2. /\ new \in Calls /\ new.cancelled = call[b][k].cancelled
      /\ new.at \in {"running", "leaving"}
  BY <1>1 DEF Calls
<1>3. call' = [call EXCEPT ![b][k] = new]
  BY DEF Acquire
<1> HIDE DEF new
<1>4. /\ call[b][k].at = "queued" /\ sem' = sem + 1 /\ sem < Permits
      /\ UNCHANGED <<step, ctx, outcome>>
  BY DEF Acquire
<1>5. Weight(new.at) = 1 /\ Weight(call[b][k].at) = 0
  BY <1>2, <1>4 DEF Weight, AtWork
<1>6. sem' = sem + Weight(new.at) - Weight(call[b][k].at) /\ sem' <= Permits
  BY <1>1, <1>4, <1>5
<1>7. new.at # "none" /\ call[b][k].at # "done" /\ (call[b][k].at = "none" => step[b].pc = "body")
  BY <1>2, <1>4
<1> QED
  BY <1>2, <1>3, <1>4, <1>6, <1>7, CallKeeps

LEMMA GiveUpKeeps ==
    ASSUME IInv, NEW b \in Branch, NEW k \in Call, GiveUp(b, k)
    PROVE  IInv'
<1> DEFINE new == [call[b][k] EXCEPT !.at = "done", !.err = "ctx"]
<1>1. TypeOK /\ call \in Table /\ call[b][k] \in Calls /\ sem \in 0..Permits
  BY StepFields DEF IInv
<1>2. new \in Calls /\ new.cancelled = call[b][k].cancelled /\ new.at = "done"
  BY <1>1 DEF Calls
<1>3. call' = [call EXCEPT ![b][k] = new]
  BY <1>1 DEF GiveUp, Table
<1> HIDE DEF new
<1>4. call[b][k].at = "queued" /\ sem' = sem /\ UNCHANGED <<step, ctx, outcome>>
  BY DEF GiveUp
<1>5. Weight(new.at) = 0 /\ Weight(call[b][k].at) = 0
  BY <1>2, <1>4 DEF Weight, AtWork
<1>6. sem' = sem + Weight(new.at) - Weight(call[b][k].at) /\ sem' <= Permits
  BY <1>1, <1>4, <1>5
<1>7. new.at # "none" /\ call[b][k].at # "done" /\ (call[b][k].at = "none" => step[b].pc = "body")
  BY <1>2, <1>4
<1> QED
  BY <1>2, <1>3, <1>4, <1>6, <1>7, CallKeeps

LEMMA AgentReturnsKeeps ==
    ASSUME IInv, NEW b \in Branch, NEW k \in Call, AgentReturns(b, k)
    PROVE  IInv'
<1>1. PICK err \in {"none", "failed", "ctx"} :
         call' = [call EXCEPT ![b][k].at = "leaving", ![b][k].err = err]
  BY DEF AgentReturns
<1> DEFINE new == [call[b][k] EXCEPT !.at = "leaving", !.err = err]
<1>2. TypeOK /\ call \in Table /\ call[b][k] \in Calls /\ sem \in 0..Permits
  BY StepFields DEF IInv
<1>3. new \in Calls /\ new.cancelled = call[b][k].cancelled /\ new.at = "leaving"
  BY <1>2 DEF Calls
<1>4. call' = [call EXCEPT ![b][k] = new]
  BY <1>1, <1>2 DEF Table
<1> HIDE DEF new
<1>5. call[b][k].at = "running" /\ sem' = sem /\ UNCHANGED <<step, ctx, outcome>>
  BY DEF AgentReturns
<1>6. Weight(new.at) = 1 /\ Weight(call[b][k].at) = 1
  BY <1>3, <1>5 DEF Weight, AtWork
<1>7. sem' = sem + Weight(new.at) - Weight(call[b][k].at) /\ sem' <= Permits
  BY <1>2, <1>5, <1>6
<1>8. new.at # "none" /\ call[b][k].at # "done" /\ (call[b][k].at = "none" => step[b].pc = "body")
  BY <1>3, <1>5
<1> QED
  BY <1>3, <1>4, <1>5, <1>7, <1>8, CallKeeps

LEMMA LeaveKeeps ==
    ASSUME IInv, NEW b \in Branch, NEW k \in Call, Leave(b, k)
    PROVE  IInv'
<1> DEFINE new == [call[b][k] EXCEPT !.at = "done"]
<1>1. TypeOK /\ call \in Table /\ call[b][k] \in Calls /\ sem \in 0..Permits
  BY StepFields DEF IInv
<1>2. new \in Calls /\ new.cancelled = call[b][k].cancelled /\ new.at = "done"
  BY <1>1 DEF Calls
<1>3. call' = [call EXCEPT ![b][k] = new]
  BY <1>1 DEF Leave, Table
<1> HIDE DEF new
<1>4. call[b][k].at = "leaving" /\ sem' = sem - 1 /\ UNCHANGED <<step, ctx, outcome>>
  BY DEF Leave
<1>5. Weight(new.at) = 0 /\ Weight(call[b][k].at) = 1
  BY <1>2, <1>4 DEF Weight, AtWork
<1>6. sem' = sem + Weight(new.at) - Weight(call[b][k].at) /\ sem' <= Permits
  BY <1>1, <1>4, <1>5
<1>7. new.at # "none" /\ call[b][k].at # "done" /\ (call[b][k].at = "none" => step[b].pc = "body")
  BY <1>2, <1>4
<1> QED
  BY <1>2, <1>3, <1>4, <1>6, <1>7, CallKeeps

LEMMA SpawnKeeps ==
    ASSUME IInv, NEW b \in Branch, NEW k \in Call, Spawn(b, k)
    PROVE  IInv'
<1> DEFINE new == [call[b][k] EXCEPT !.at = "queued"]
<1>1. TypeOK /\ call \in Table /\ call[b][k] \in Calls /\ sem \in 0..Permits
  BY StepFields DEF IInv
<1>2. new \in Calls /\ new.cancelled = call[b][k].cancelled /\ new.at = "queued"
  BY <1>1 DEF Calls
<1>3. call' = [call EXCEPT ![b][k] = new]
  BY <1>1 DEF Spawn, Table
<1> HIDE DEF new
<1>4. /\ call[b][k].at = "none" /\ sem' = sem /\ step[b].pc = "body"
      /\ UNCHANGED <<step, ctx, outcome>>
  BY DEF Spawn
<1>5. Weight(new.at) = 0 /\ Weight(call[b][k].at) = 0
  BY <1>2, <1>4 DEF Weight, AtWork
<1>6. sem' = sem + Weight(new.at) - Weight(call[b][k].at) /\ sem' <= Permits
  BY <1>1, <1>4, <1>5
<1>7. new.at # "none" /\ call[b][k].at # "done" /\ (call[b][k].at = "none" => step[b].pc = "body")
  BY <1>2, <1>4
<1> QED
  BY <1>2, <1>3, <1>4, <1>6, <1>7, CallKeeps

\* Cancelling calls changes nothing else about them.
LEMMA CancelledFields ==
    ASSUME TypeOK, NEW b \in Branch, NEW K, call' = Cancelled(b, K)
    PROVE  /\ call' \in Table
           /\ \A c \in Branch, j \in Call :
                 /\ call'[c][j].at = call[c][j].at /\ call'[c][j].err = call[c][j].err
                 /\ c # b => call'[c][j].cancelled = call[c][j].cancelled
           /\ \A j \in Call : call'[b][j].cancelled <=> call[b][j].cancelled \/ j \in K
<1> DEFINE row == [j \in Call |-> IF j \in K THEN [call[b][j] EXCEPT !.cancelled = TRUE]
                                  ELSE call[b][j]]
<1>1. call' = [call EXCEPT ![b] = row] /\ call \in Table
  BY StepFields DEF Cancelled
<1>2. ASSUME NEW j \in Call
      PROVE  /\ row[j] \in Calls /\ row[j].at = call[b][j].at /\ row[j].err = call[b][j].err
             /\ row[j].cancelled <=> call[b][j].cancelled \/ j \in K
  <2>1. call[b][j] \in Calls
    BY StepFields
  <2> QED
    BY <2>1 DEF Calls
<1>3. row \in [Call -> Calls]
  BY <1>2
<1> HIDE DEF row
<1>4. call' \in Table
  BY <1>1, <1>3 DEF Table
<1>5. call'[b] = row /\ \A c \in Branch : c # b => call'[c] = call[c]
  BY <1>1 DEF Table
<1> QED
  BY <1>2, <1>4, <1>5

LEMMA Untouched ==
    ASSUME IInv, UNCHANGED call
    PROVE  /\ call' \in Table
           /\ \A c \in Branch, j \in Call :
                 /\ call'[c][j].at = call[c][j].at /\ call'[c][j].err = call[c][j].err
                 /\ call'[c][j].cancelled = call[c][j].cancelled
BY StepFields DEF IInv, TypeOK, Table

LEMMA WaitKeeps ==
    ASSUME IInv, NEW b \in Branch, Wait(b)
    PROVE  IInv'
<1>1. TypeOK /\ step[b] \in Steps /\ step[b].pc = "body"
  BY StepFields DEF IInv, Wait
<1>2. PICK on \in SUBSET Made(b) \ {{}} : \E need \in 0..Cardinality(on) :
         step' = [step EXCEPT ![b] = [step[b] EXCEPT !.pc = "wait", !.on = on, !.need = need,
                                                     !.seen = {}]]
  BY DEF Wait
<1>3. PICK need \in 0..Cardinality(on) :
          step' = [step EXCEPT ![b] = [step[b] EXCEPT !.pc = "wait", !.on = on, !.need = need,
                                                      !.seen = {}]]
  BY <1>2
<1> DEFINE new == [step[b] EXCEPT !.pc = "wait", !.on = on, !.need = need, !.seen = {}]
<1>4. on \subseteq Call /\ need \in 0..MaxCalls
  <2>1. on \subseteq Call
    BY DEF Made
  <2> QED
    BY <1>3, <2>1, FiniteCalls
<1>5. /\ new \in Steps /\ new.pc = "wait" /\ new.err = step[b].err
      /\ new.joined = step[b].joined /\ new.seen = {}
  BY <1>1, <1>4 DEF Steps
<1>6. step' = [step EXCEPT ![b] = new]
  BY <1>3
<1> HIDE DEF new
<1>7. UNCHANGED <<call, sem, ctx, outcome>>
  BY DEF Wait
<1>8. \A j \in Call : call'[b][j].cancelled => j \in new.joined \/ Genuine(new.err)
  BY <1>5, <1>7, Untouched DEF IInv, Kept
<1>9. new.pc \notin {"drain", "over"} => new.err = "none"
  BY <1>1, <1>5 DEF IInv, Kept
<1>10. Stands(call[b], new) /\ (new.pc = "over" => Returned(b, Made(b)))
  BY <1>5 DEF Stands
<1>11. UNCHANGED <<sem, ctx, outcome>>
  BY <1>7
<1> QED
  BY <1>5, <1>6, <1>7, <1>8, <1>9, <1>10, <1>11, Untouched, StepKeeps

\* However a wait is decided, it settles with a verdict that stands.
LEMMA ConcludeKeeps ==
    ASSUME IInv, NEW b \in Branch, step[b].pc = "wait",
           NEW seen, seen \subseteq step[b].on, \A k \in seen : call[b][k].at = "done",
           NEW verdict \in {"met", "short", "late"},
           verdict = "met" => Cardinality(Good(call[b], seen)) >= step[b].need,
           verdict = "short" => Cardinality(seen) - Cardinality(Good(call[b], seen))
                                   > Cardinality(step[b].on) - step[b].need,
           Conclude(b, seen, verdict),
           UNCHANGED <<sem, ctx, outcome>>
    PROVE  IInv'
<1> DEFINE new == [step[b] EXCEPT !.pc = "settle", !.seen = seen, !.verdict = verdict,
                                  !.joined = step[b].joined \cup step[b].on]
<1>1. /\ TypeOK /\ step[b] \in Steps /\ step[b].on \subseteq Call
      /\ step[b].joined \subseteq Call /\ step[b].err = "none"
  BY StepFields DEF IInv, Kept
<1>2. step' = [step EXCEPT ![b] = new] /\ call' = Cancelled(b, step[b].on)
  BY DEF Conclude
<1>3. /\ new.pc = "settle" /\ new.seen = seen /\ new.verdict = verdict /\ new.on = step[b].on
      /\ new.need = step[b].need /\ new.err = "none"
      /\ new.joined = step[b].joined \cup step[b].on
  BY <1>1 DEF Steps
<1>4. new \in Steps
  BY <1>1 DEF Steps
<1> HIDE DEF new
<1>5. \A j \in Call : call'[b][j].cancelled => j \in new.joined \/ Genuine(new.err)
  BY <1>1, <1>2, <1>3, CancelledFields DEF IInv, Kept, Genuine
<1>6. Stands(call[b], new)
  BY <1>3 DEF Stands, Decided
<1>7. new.pc \notin {"drain", "over"} => new.err = "none"
  BY <1>3
<1>8. new.pc = "over" => Returned(b, Made(b))
  BY <1>3
<1>9. /\ call' \in Table
      /\ \A c \in Branch, j \in Call :
            /\ call'[c][j].at = call[c][j].at /\ call'[c][j].err = call[c][j].err
            /\ c # b => call'[c][j].cancelled = call[c][j].cancelled
  BY <1>1, <1>2, CancelledFields
<1> QED
  BY <1>2, <1>4, <1>5, <1>6, <1>7, <1>8, <1>9, StepKeeps

LEMMA SeeResultKeeps ==
    ASSUME IInv, NEW b \in Branch, NEW k \in Call, SeeResult(b, k)
    PROVE  IInv'
<1> DEFINE seen == step[b].seen \cup {k}
<1>1. /\ TypeOK /\ step[b] \in Steps /\ step[b].pc = "wait" /\ step[b].need \in Nat
      /\ k \in step[b].on /\ call[b][k].at = "done" /\ Stands(call[b], step[b])
      /\ step[b].on \subseteq Call /\ UNCHANGED <<sem, ctx, outcome>>
  BY StepFields DEF IInv, Waiting, SeeResult
<1>2. seen \subseteq step[b].on /\ seen \in SUBSET Call /\ \A j \in seen : call[b][j].at = "done"
  BY <1>1 DEF Stands
<1>3. CASE Judge(b, seen) = "open"
  <2> DEFINE new == [step[b] EXCEPT !.seen = seen]
  <2>1. step' = [step EXCEPT ![b] = new] /\ UNCHANGED call
    BY <1>3 DEF SeeResult
  <2>2. /\ new.pc = "wait" /\ new.seen = seen /\ new.on = step[b].on
        /\ new.err = step[b].err /\ new.joined = step[b].joined
    BY <1>1 DEF Steps
  <2>3. new \in Steps
    BY <1>1, <1>2 DEF Steps
  <2> HIDE DEF new
  <2>4. \A j \in Call : call'[b][j].cancelled => j \in new.joined \/ Genuine(new.err)
    BY <2>1, <2>2, Untouched DEF IInv, Kept
  <2>5. new.pc \notin {"drain", "over"} => new.err = "none"
    BY <1>1, <2>2 DEF IInv, Kept
  <2>6. Stands(call[b], new) /\ (new.pc = "over" => Returned(b, Made(b)))
    BY <1>2, <2>2 DEF Stands
  <2> QED
    BY <1>1, <2>1, <2>3, <2>4, <2>5, <2>6, Untouched, StepKeeps
<1>4. CASE Judge(b, seen) # "open"
  <2>1. Conclude(b, seen, Judge(b, seen))
    BY <1>4 DEF SeeResult
  <2>2. Succeeded(b, seen) = Good(call[b], seen)
    BY DEF Succeeded, Good
  <2>3. Cardinality(Good(call[b], seen)) \in Nat
    <3>1. Good(call[b], seen) \subseteq Call
      BY <1>2 DEF Good
    <3> QED
      BY <3>1, FiniteCalls
  <2> HIDE DEF seen
  <2>4. Judge(b, seen) \in {"met", "short", "late"}
    BY <1>4 DEF Judge
  <2>5. Judge(b, seen) = "met" => Cardinality(Good(call[b], seen)) >= step[b].need
    BY <1>1, <2>2, <2>3 DEF Judge
  <2>6. Judge(b, seen) = "short" =>
           Cardinality(seen) - Cardinality(Good(call[b], seen))
              > Cardinality(step[b].on) - step[b].need
    BY <2>2 DEF Judge
  <2> QED
    BY <1>1, <1>2, <2>1, <2>4, <2>5, <2>6, ConcludeKeeps
<1> QED
  BY <1>3, <1>4

LEMMA WaitTimesOutKeeps ==
    ASSUME IInv, NEW b \in Branch, WaitTimesOut(b)
    PROVE  IInv'
<1>1. /\ step[b].pc = "wait" /\ Conclude(b, step[b].seen, "late")
      /\ UNCHANGED <<sem, ctx, outcome>> /\ Stands(call[b], step[b])
  BY DEF IInv, Waiting, WaitTimesOut
<1>2. step[b].seen \subseteq step[b].on /\ \A k \in step[b].seen : call[b][k].at = "done"
  BY <1>1 DEF Stands
<1>3. "late" \in {"met", "short", "late"} /\ "late" # "met" /\ "late" # "short"
  OBVIOUS
<1> QED
  BY <1>1, <1>2, <1>3, ConcludeKeeps

LEMMA NoWaitFields ==
    ASSUME NEW s \in Steps
    PROVE  NoWait(s) \in Steps /\ NoWait(s).err = s.err /\ NoWait(s).joined = s.joined
<1> DEFINE new == [s EXCEPT !.on = {}, !.need = 0, !.seen = {}, !.verdict = "met"]
<1>1. 0 \in 0..MaxCalls /\ {} \in SUBSET Call
  OBVIOUS
<1>2. new \in Steps
  BY <1>1 DEF Steps
<1>3. new.err = s.err /\ new.joined = s.joined
  BY DEF Steps
<1> QED
  BY <1>2, <1>3 DEF NoWait

LEMMA DrainKeeps ==
    ASSUME IInv, NEW b \in Branch, step[b].pc \in {"body", "settle"},
           NEW err \in Errors, Drain(b, err),
           UNCHANGED <<sem, ctx, outcome>>
    PROVE  IInv'
<1> DEFINE new == [NoWait(step[b]) EXCEPT !.pc = "drain", !.err = err]
<1>1. TypeOK /\ step[b] \in Steps /\ step[b].err = "none"
  BY StepFields DEF IInv, Kept
<1>2. step' = [step EXCEPT ![b] = new]
  BY DEF Drain
<1>3. new \in Steps /\ new.pc = "drain" /\ new.err = err /\ new.joined = step[b].joined
  <2>1. NoWait(step[b]) \in Steps /\ NoWait(step[b]).joined = step[b].joined
    BY <1>1, NoWaitFields
  <2>2. "drain" \in {"body", "wait", "settle", "drain", "over"}
    OBVIOUS
  <2> QED
    BY <2>1, <2>2 DEF Steps
<1> HIDE DEF new
<1>4. CASE Genuine(err)
  <2>1. call' = Cancelled(b, Made(b))
    BY <1>4 DEF Drain
  <2>2. /\ call' \in Table
        /\ \A c \in Branch, j \in Call :
              /\ call'[c][j].at = call[c][j].at /\ call'[c][j].err = call[c][j].err
              /\ c # b => call'[c][j].cancelled = call[c][j].cancelled
    BY <1>1, <2>1, CancelledFields
  <2>3. \A j \in Call : call'[b][j].cancelled => j \in new.joined \/ Genuine(new.err)
    BY <1>3, <1>4
  <2>4. /\ new.pc \notin {"drain", "over"} => new.err = "none"
        /\ new.pc = "over" => Returned(b, Made(b))
        /\ Stands(call[b], new)
    BY <1>3 DEF Stands
  <2> QED
    BY <1>2, <1>3, <2>2, <2>3, <2>4, StepKeeps
<1>5. CASE ~Genuine(err)
  <2>1. UNCHANGED call
    BY <1>5 DEF Drain
  <2>2. \A j \in Call : call'[b][j].cancelled => j \in new.joined \/ Genuine(new.err)
    BY <1>1, <1>3, <2>1, Untouched DEF IInv, Kept, Genuine
  <2>3. /\ new.pc \notin {"drain", "over"} => new.err = "none"
        /\ new.pc = "over" => Returned(b, Made(b))
        /\ Stands(call[b], new)
    BY <1>3 DEF Stands
  <2> QED
    BY <1>2, <1>3, <2>1, <2>2, <2>3, Untouched, StepKeeps
<1> QED
  BY <1>4, <1>5

LEMMA WaitReturnsKeeps ==
    ASSUME IInv, NEW b \in Branch, WaitReturns(b)
    PROVE  IInv'
<1>1. step[b].pc = "settle" /\ UNCHANGED <<sem, ctx, outcome>>
  BY DEF WaitReturns
<1>2. CASE step' = [step EXCEPT ![b] = [NoWait(step[b]) EXCEPT !.pc = "body"]] /\ UNCHANGED call
  <2> DEFINE new == [NoWait(step[b]) EXCEPT !.pc = "body"]
  <2>1. TypeOK /\ step[b] \in Steps /\ step[b].err = "none"
    BY <1>1, StepFields DEF IInv, Kept
  <2>2. new \in Steps /\ new.pc = "body" /\ new.err = "none" /\ new.joined = step[b].joined
    BY <2>1, NoWaitFields DEF Steps
  <2>3. step' = [step EXCEPT ![b] = new]
    BY <1>2
  <2> HIDE DEF new
  <2>4. \A j \in Call : call'[b][j].cancelled => j \in new.joined \/ Genuine(new.err)
    BY <1>2, <2>1, <2>2, Untouched DEF IInv, Kept
  <2>5. /\ new.pc \notin {"drain", "over"} => new.err = "none"
        /\ new.pc = "over" => Returned(b, Made(b))
        /\ Stands(call[b], new)
    BY <2>2 DEF Stands
  <2> QED
    BY <1>1, <1>2, <2>2, <2>3, <2>4, <2>5, Untouched, StepKeeps
<1>3. CASE \E err \in {"failed", "ctx"} : Drain(b, err)
  BY <1>1, <1>3, DrainKeeps DEF Errors
<1> QED
  BY <1>2, <1>3 DEF WaitReturns

LEMMA BodyEndsKeeps ==
    ASSUME IInv, NEW b \in Branch, BodyEnds(b)
    PROVE  IInv'
BY DrainKeeps DEF BodyEnds

LEMMA StepReturnsKeeps ==
    ASSUME IInv, NEW b \in Branch, StepReturns(b)
    PROVE  IInv'
<1> DEFINE new == [step[b] EXCEPT !.pc = "over"]
<1>1. /\ TypeOK /\ step[b] \in Steps /\ Returned(b, Made(b))
      /\ UNCHANGED <<call, sem, ctx, outcome>>
  BY StepFields DEF IInv, StepReturns
<1>2. /\ new \in Steps /\ new.pc = "over" /\ new.err = step[b].err
      /\ new.joined = step[b].joined
  BY <1>1 DEF Steps
<1>3. step' = [step EXCEPT ![b] = new]
  BY DEF StepReturns
<1> HIDE DEF new
<1>4. \A j \in Call : call'[b][j].cancelled => j \in new.joined \/ Genuine(new.err)
  BY <1>1, <1>2, Untouched DEF IInv, Kept
<1>5. /\ new.pc \notin {"drain", "over"} => new.err = "none"
      /\ new.pc = "over" => Returned(b, Made(b))
      /\ Stands(call[b], new)
  BY <1>1, <1>2 DEF Stands
<1>6. UNCHANGED call /\ UNCHANGED <<sem, ctx, outcome>>
  BY <1>1
<1> QED
  BY <1>2, <1>3, <1>4, <1>5, <1>6, Untouched, StepKeeps

\* The contexts and the outcome are no part of what holds about steps and calls.
LEMMA AroundKeeps ==
    ASSUME IInv, UNCHANGED <<step, call, sem>>,
           ctx' \in [run : BOOLEAN, group : BOOLEAN, branch : [Branch -> BOOLEAN]],
           outcome' \in Outcomes
    PROVE  IInv'
<1>1. TypeOK'
  BY DEF IInv, TypeOK
<1>2. Holding' = Holding
  BY DEF Holding
<1>3. PermitsConserved'
  BY <1>2 DEF IInv, PermitsConserved
<1>4. NothingOutlives' /\ Kept' /\ Waiting'
  BY DEF IInv, NothingOutlives, Returned, Made, Kept, Waiting
<1> QED
  BY <1>1, <1>3, <1>4 DEF IInv

LEMMA JoinKeeps ==
    ASSUME IInv, Join
    PROVE  IInv'
<1>1. Verdict \in Outcomes
  BY DEF Verdict, Outcomes
<1>2. outcome' \in Outcomes
  BY <1>1 DEF Join, Outcomes
<1> QED
  BY <1>2, AroundKeeps DEF Join, IInv, TypeOK

LEMMA ContextKeeps ==
    ASSUME IInv, CancelRun \/ GroupDeadline \/ \E b \in Branch : BranchDeadline(b)
    PROVE  IInv'
<1>1. /\ ctx \in [run : BOOLEAN, group : BOOLEAN, branch : [Branch -> BOOLEAN]]
      /\ outcome \in Outcomes
  BY DEF IInv, TypeOK
<1>2. UNCHANGED <<step, call, sem, outcome>>
  BY DEF CancelRun, GroupDeadline, BranchDeadline
<1>3. CASE CancelRun
  BY <1>1, <1>2, <1>3, AroundKeeps DEF CancelRun
<1>4. CASE GroupDeadline
  BY <1>1, <1>2, <1>4, AroundKeeps DEF GroupDeadline
<1>5. ASSUME NEW b \in Branch, BranchDeadline(b)
      PROVE  IInv'
  <2> DEFINE branch == [ctx.branch EXCEPT ![b] = TRUE]
  <2>1. branch \in [Branch -> BOOLEAN]
    BY <1>1
  <2>2. ctx' = [ctx EXCEPT !.branch = branch]
    BY <1>1, <1>5 DEF BranchDeadline
  <2> HIDE DEF branch
  <2>3. ctx' \in [run : BOOLEAN, group : BOOLEAN, branch : [Branch -> BOOLEAN]]
    BY <1>1, <2>1, <2>2
  <2>4. UNCHANGED <<step, call, sem>> /\ outcome' \in Outcomes
    BY <1>1, <1>2
  <2> QED
    BY <2>3, <2>4, AroundKeeps
<1> QED
  BY <1>3, <1>4, <1>5

LEMMA NextKeeps ==
    ASSUME IInv, [Next]_vars
    PROVE  IInv'
<1>1. CASE UNCHANGED vars
  BY <1>1, AroundKeeps DEF vars, IInv, TypeOK
<1>2. ASSUME NEW b \in Branch, NEW k \in Call, CallStep(b, k) \/ Spawn(b, k) \/ SeeResult(b, k)
      PROVE  IInv'
  BY <1>2, AcquireKeeps, GiveUpKeeps, AgentReturnsKeeps, LeaveKeeps, SpawnKeeps, SeeResultKeeps
     DEF CallStep
<1>3. ASSUME NEW b \in Branch,
             \/ Wait(b) \/ WaitTimesOut(b) \/ WaitReturns(b)
             \/ BodyEnds(b) \/ StepReturns(b)
      PROVE  IInv'
  BY <1>3, WaitKeeps, WaitTimesOutKeeps, WaitReturnsKeeps, BodyEndsKeeps, StepReturnsKeeps
<1>4. CASE Join
  BY <1>4, JoinKeeps
<1>5. CASE CancelRun \/ GroupDeadline \/ \E b \in Branch : BranchDeadline(b)
  BY <1>5, ContextKeeps
<1> QED
  BY <1>1, <1>2, <1>3, <1>4, <1>5 DEF Next

-----------------------------------------------------------------------------
(* The theorems.                                                           *)

\* The invariant that carries the others: permits are counted, what is cancelled was joined
\* or cut short by an error, and a verdict stands on calls that returned.
THEOREM GroupInvariant == Spec => []IInv
<1>1. Init => IInv
  BY InitHolds
<1>2. IInv /\ [Next]_vars => IInv'
  BY NextKeeps
<1> QED
  BY <1>1, <1>2, PTL DEF Spec

\* Calls, waits, contexts and outcomes keep the shapes the code gives them.
THEOREM GroupTypeCorrect == Spec => []TypeOK
BY GroupInvariant, PTL DEF IInv

\* No permit of spawn { max_concurrency } is lost or given back twice (spawn.go).
THEOREM PermitsNeverLost == Spec => []PermitsConserved
BY GroupInvariant, PTL DEF IInv

\* A step that returned has no spawned call left (drainAtStepEnd).
THEOREM NothingOutlivesStep == Spec => []NothingOutlives
BY GroupInvariant, PTL DEF IInv

\* A step that ends without an error cuts no call short that it did not wait for.
THEOREM NormalEnd == Spec => []NormalEndKeepsWork
<1>1. IInv => NormalEndKeepsWork
  BY DEF IInv, Kept, NormalEndKeepsWork
<1> QED
  BY <1>1, GroupInvariant, PTL

\* Successes and failures only grow with the set of calls they are counted in.
LEMMA Counts ==
    ASSUME NEW row, NEW on, on \subseteq Call, NEW seen, seen \subseteq on
    PROVE  /\ Cardinality(Good(row, seen)) <= Cardinality(Good(row, on))
           /\ Cardinality(seen) - Cardinality(Good(row, seen))
                 <= Cardinality(on) - Cardinality(Good(row, on))
           /\ Cardinality(Good(row, on)) \in Nat /\ Cardinality(Good(row, seen)) \in Nat
           /\ Cardinality(on) \in Nat /\ Cardinality(seen) \in Nat
<1>1. /\ IsFiniteSet(on) /\ IsFiniteSet(seen) /\ IsFiniteSet(Good(row, on))
      /\ IsFiniteSet(Good(row, seen)) /\ IsFiniteSet(on \ Good(row, on))
  <2>1. /\ seen \subseteq Call /\ Good(row, on) \subseteq Call /\ Good(row, seen) \subseteq Call
        /\ on \ Good(row, on) \subseteq Call
    BY DEF Good
  <2> QED
    BY <2>1, FiniteCalls
<1>2. Good(row, seen) \subseteq Good(row, on)
  BY DEF Good
<1>3. Cardinality(seen \ Good(row, seen)) = Cardinality(seen) - Cardinality(Good(row, seen))
  <2>1. seen \cap Good(row, seen) = Good(row, seen)
    BY DEF Good
  <2> QED
    BY <1>1, <2>1, FS_Difference
<1>4. Cardinality(on \ Good(row, on)) = Cardinality(on) - Cardinality(Good(row, on))
  <2>1. on \cap Good(row, on) = Good(row, on)
    BY DEF Good
  <2> QED
    BY <1>1, <2>1, FS_Difference
<1>5. seen \ Good(row, seen) \subseteq on \ Good(row, on)
  BY DEF Good
<1>6. Cardinality(seen \ Good(row, seen)) <= Cardinality(on \ Good(row, on))
  BY <1>1, <1>5, FS_Subset
<1>7. Cardinality(Good(row, seen)) <= Cardinality(Good(row, on))
  BY <1>1, <1>2, FS_Subset
<1> QED
  BY <1>1, <1>3, <1>4, <1>6, <1>7, FS_CardinalityType

\* In whatever order results arrive, a wait reports success exactly when enough of its
\* calls succeeded (waitFor).
THEOREM WaitsAreRight == Spec => []WaitIsRight
<1>1. IInv => WaitIsRight
  <2> SUFFICES ASSUME IInv, NEW b \in Branch, step[b].pc = "settle"
               PROVE  /\ step[b].verdict = "met" =>
                            Cardinality(Succeeded(b, step[b].on)) >= step[b].need
                      /\ step[b].verdict = "short" =>
                            Cardinality(Succeeded(b, step[b].on)) < step[b].need
    BY DEF WaitIsRight
  <2>1. /\ step[b].on \subseteq Call /\ step[b].need \in Nat
        /\ step[b].seen \subseteq step[b].on /\ Decided(call[b], step[b])
    BY StepFields DEF IInv, Waiting, Stands
  <2>2. Succeeded(b, step[b].on) = Good(call[b], step[b].on)
    BY DEF Succeeded, Good
  <2> QED
    BY <2>1, <2>2, Counts DEF Decided
<1> QED
  BY <1>1, GroupInvariant, PTL

\* Once the group is joined its branches have returned, and it is fine only if they all are.
Joined ==
    outcome # "running" =>
       /\ \A b \in Branch : step[b].pc = "over"
       /\ outcome = "ok" => \A b \in Branch : step[b].err = "none"

LEMMA JoinedKeeps ==
    ASSUME TypeOK, Joined, [Next]_vars
    PROVE  Joined'
<1>1. CASE Join
  <2>1. step' = step /\ \A b \in Branch : step[b].pc = "over"
    BY <1>1 DEF Join
  <2>2. outcome' = "ok" => Bad = {}
    BY <1>1 DEF Join, Verdict
  <2> QED
    BY <2>1, <2>2 DEF Joined, Bad
<1>2. ASSUME UNCHANGED <<step, outcome>>
      PROVE  Joined'
  BY <1>2 DEF Joined
<1>3. ASSUME NEW b \in Branch, NEW k \in Call, CallStep(b, k) \/ Spawn(b, k)
      PROVE  Joined'
  BY <1>2, <1>3 DEF CallStep, Acquire, GiveUp, AgentReturns, Leave, Spawn
<1>4. ASSUME NEW b \in Branch,
             \/ (\E k \in Call : SeeResult(b, k)) \/ Wait(b) \/ WaitTimesOut(b)
             \/ WaitReturns(b) \/ BodyEnds(b) \/ StepReturns(b)
      PROVE  Joined'
  <2>1. step[b].pc # "over" /\ outcome' = outcome
    BY <1>4 DEF SeeResult, Wait, WaitTimesOut, WaitReturns, BodyEnds, StepReturns
  <2> QED
    BY <2>1 DEF Joined
<1>5. CASE CancelRun \/ GroupDeadline \/ \E b \in Branch : BranchDeadline(b)
  BY <1>2, <1>5 DEF CancelRun, GroupDeadline, BranchDeadline
<1>6. CASE UNCHANGED vars
  BY <1>2, <1>6 DEF vars
<1> QED
  BY <1>1, <1>3, <1>4, <1>5, <1>6 DEF Next

JoinIsQuiet ==
    outcome # "running" =>
       /\ sem = 0
       /\ \A b \in Branch : \A k \in Call : call[b][k].at \in {"none", "done"}
       /\ outcome = "ok" => \A b \in Branch : step[b].err = "none"

\* When runParallelStage goes on behind its barrier, nothing of the group is at work any
\* more: no call of any branch is queued or running, every permit is back, and the group
\* succeeds only if no branch ended with an error or a signal.
THEOREM JoinedGroupIsQuiet == Spec => []JoinIsQuiet
<1>1. Init => Joined
  BY DEF Init, Joined
<1>2. IInv /\ Joined /\ [Next]_vars => Joined'
  BY JoinedKeeps DEF IInv
<1>3. IInv /\ Joined => JoinIsQuiet
  <2> SUFFICES ASSUME IInv, Joined, outcome # "running"
               PROVE  JoinIsQuiet
    BY DEF JoinIsQuiet
  <2>1. \A b \in Branch : \A k \in Call : call[b][k].at \in {"none", "done"}
    BY DEF IInv, NothingOutlives, Joined, Returned, Made
  <2>2. Holding = {}
    BY <2>1 DEF Holding
  <2>3. sem = 0
    BY <2>2, FS_EmptySet DEF IInv, PermitsConserved
  <2> QED
    BY <2>1, <2>3 DEF JoinIsQuiet, Joined
<1> QED
  BY <1>1, <1>2, <1>3, GroupInvariant, PTL DEF Spec

-----------------------------------------------------------------------------
(* The merge of variables and refs at the join (BranchMerge), over the     *)
(* branches of the same group.                                             *)

LEMMA RefConstants ==
    /\ Branch \subseteq Owner /\ Branch \subseteq AllIds
    /\ 0 \in Owner /\ 0 \notin Branch
    /\ \A b \in Branch : b \in Nat
    /\ Owner = {0} \cup Branch
    /\ Null \notin AllIds /\ One \notin AllIds
    /\ Cardinality(Vars) \in Nat /\ Longest \in Nat
    /\ IsFiniteSet(Branch) /\ Cardinality(Branch) = Branches
    /\ Branches \in Nat
<1>1. /\ Branches \in Nat /\ IsFiniteSet(Ids) /\ IsFiniteSet(Vars)
      /\ Scalars \cap AllIds = {}
  BY MergeAssumption
<1>2. IsFiniteSet(Branch) /\ Cardinality(Branch) = Branches
  BY <1>1, FS_Interval DEF Branch
<1>3. IsFiniteSet(AllIds)
  BY <1>1, <1>2, FS_Union DEF AllIds
<1>4. Longest \in Nat /\ Cardinality(Vars) \in Nat
  BY <1>1, <1>3, FS_CardinalityType DEF Longest
<1>5. /\ Null \notin AllIds /\ One \notin AllIds
      /\ Branch \subseteq AllIds
  BY <1>1 DEF Scalars, AllIds
<1>6. /\ Branch \subseteq Owner /\ Owner = {0} \cup Branch
      /\ 0 \in Owner /\ 0 \notin Branch
      /\ \A b \in Branch : b \in Nat
  BY <1>1 DEF Branch, Owner
<1> QED
  BY <1>1, <1>2, <1>4, <1>5, <1>6

-----------------------------------------------------------------------------
(* Two facts about the natural numbers, as sets.                           *)

LEMMA NatSetMin ==
    ASSUME NEW T, T \subseteq Nat, T # {}
    PROVE  \E n \in T : \A m \in T : n <= m
<1>1. \E n \in T : \A m \in T : ~ (<<m, n>> \in OpToRel(<, Nat))
  BY NatLessThanWellFounded, WFMin
<1>2. PICK n \in T : \A m \in T : ~ (<<m, n>> \in OpToRel(<, Nat))
  BY <1>1
<1>3. ASSUME NEW m \in T PROVE n <= m
  <2>1. m \in Nat /\ n \in Nat
    OBVIOUS
  <2>2. ~(m < n)
    BY <1>2, <2>1 DEF OpToRel
  <2> QED
    BY <2>1, <2>2
<1> QED
  BY <1>3

LEMMA NatSetInduction ==
    ASSUME NEW S, 0 \in S, \A n \in Nat : n \in S => n + 1 \in S
    PROVE  Nat \subseteq S
<1> SUFFICES ASSUME Nat \ S # {} PROVE FALSE
  OBVIOUS
<1>1. PICK n \in Nat \ S : \A m \in Nat \ S : n <= m
  BY NatSetMin
<1>2. n # 0 /\ n - 1 \in Nat
  BY <1>1
<1>3. n - 1 \in S
  BY <1>1, <1>2
<1> QED
  BY <1>1, <1>2, <1>3

-----------------------------------------------------------------------------
(* Reachability.                                                           *)

LEMMA ReachClosed ==
    ASSUME NEW heap, NEW start, NEW met
    PROVE  /\ ReachFrom(heap, start, met) \subseteq AllIds
           /\ Closed(ReachFrom(heap, start, met), heap, start, met)
BY DEF ReachFrom, Closed

LEMMA ReachLeast ==
    ASSUME NEW heap, NEW start, NEW met, NEW S \in SUBSET AllIds,
           Closed(S, heap, start, met)
    PROVE  ReachFrom(heap, start, met) \subseteq S
BY DEF ReachFrom

\* From fewer values, and around what was met, no more is reached.
LEMMA ReachLess ==
    ASSUME NEW heap, NEW start, NEW more, start \subseteq more, NEW met
    PROVE  ReachFrom(heap, start, met) \subseteq ReachFrom(heap, more, {})
<1> DEFINE R == ReachFrom(heap, more, {})
<1>1. R \subseteq AllIds /\ Closed(R, heap, more, {})
  BY ReachClosed
<1> HIDE DEF R
<1>2. Closed(R, heap, start, met)
  BY <1>1 DEF Closed
<1>3. ReachFrom(heap, start, met) \subseteq R
  BY <1>1, <1>2, ReachLeast
<1> QED
  BY <1>3 DEF R

-----------------------------------------------------------------------------
(* The inductive invariant of the merge.                                   *)

RefsTyped == view \in [Owner -> Views]

\* What a view's variables hold.
Roots(v) == {v.vars[x] : x \in Vars}

\* A branch knows the objects from before the fork and the one it created.
Apart ==
    \A b \in Branch :
        Closed(Forked \cup {b}, view[b].heap, Roots(view[b]), {})

JoinedSo ==
    \/ joined = Running
    \/ joined = Conflict
    \/ /\ ~AnyConflict
       /\ \E order \in SetToSeqs(Vars) : joined = Merged(order, InOrder)

RefsInv == RefsTyped /\ Apart /\ JoinedSo

LEMMA ForkedClosed ==
    /\ Forked \subseteq AllIds
    /\ Closed(Forked, view[0].heap, Roots(view[0]), {})
BY ReachClosed DEF Forked, CollectRefs, Roots

\* A branch reaches the forked objects and its own only.
LEMMA ReachedApart ==
    ASSUME Apart, NEW o \in Owner
    PROVE  /\ CollectRefs(view[o]) \subseteq Forked \cup {o}
           /\ CollectRefs(view[o]) \subseteq AllIds
           /\ o = 0 => CollectRefs(view[o]) = Forked
<1>1. CollectRefs(view[o]) \subseteq AllIds
  BY ReachClosed DEF CollectRefs
<1>2. CASE o = 0
  BY <1>1, <1>2 DEF Forked
<1>3. CASE o # 0
  <2>1. o \in Branch
    BY <1>3, RefConstants
  <2>2. Forked \cup {o} \subseteq AllIds
    BY <2>1, RefConstants, ForkedClosed
  <2>3. Closed(Forked \cup {o}, view[o].heap, Roots(view[o]), {})
    BY <2>1 DEF Apart
  <2>4. CollectRefs(view[o]) \subseteq Forked \cup {o}
    BY <2>2, <2>3, ReachLeast DEF CollectRefs, Roots
  <2> QED
    BY <1>1, <1>3, <2>4
<1> QED
  BY <1>2, <1>3

LEMMA RefsInit == Fork => RefsInv
<1> SUFFICES ASSUME Fork PROVE RefsInv
  OBVIOUS
<1>0. PICK vs \in [Vars -> Ids \cup {Null}], h \in [Ids -> [Links -> Ids \cup {Null}]] :
         view = [o \in Owner |->
                   [vars |-> vs,
                    heap |-> [i \in AllIds |-> [f \in Fields |->
                                IF i \in Ids /\ f \in Links THEN h[i][f] ELSE Null]]]]
  BY DEF Fork
<1> DEFINE heap == [i \in AllIds |-> [f \in Fields |->
                       IF i \in Ids /\ f \in Links THEN h[i][f] ELSE Null]]
           one == [vars |-> vs, heap |-> heap]
<1>1. \A o \in Owner : view[o] = one
  BY <1>0
<1>2. /\ Ids \cup {Null} \subseteq Values
      /\ Ids \subseteq AllIds
  BY DEF Values, Scalars, AllIds
<1>3. one \in Views
  <2>1. heap \in [AllIds -> [Fields -> Values]]
    BY <1>2
  <2>2. vs \in [Vars -> Values]
    BY <1>2
  <2> QED
    BY <2>1, <2>2 DEF Views
<1>4. \A b \in Branch, f \in Fields : heap[b][f] = Null
  BY MergeAssumption, RefConstants
<1>5. one.heap = heap
  OBVIOUS
<1> HIDE DEF heap, one
<1>6. RefsTyped
  <2>1. view = [o \in Owner |-> one]
    BY <1>0 DEF one, heap
  <2> QED
    BY <1>3, <2>1 DEF RefsTyped
<1>7. Apart
  <2> SUFFICES ASSUME NEW b \in Branch
               PROVE  Closed(Forked \cup {b}, view[b].heap, Roots(view[b]), {})
    BY DEF Apart
  <2>1. view[b] = one /\ view[0] = one
    BY <1>1, RefConstants
  <2>2. Closed(Forked, heap, Roots(one), {})
    BY <2>1, <1>5, ForkedClosed
  <2>3. \A f \in Fields : heap[b][f] \notin AllIds
    BY <1>4, RefConstants
  <2>4. Closed(Forked \cup {b}, heap, Roots(one), {})
    BY <2>2, <2>3 DEF Closed
  <2> QED
    BY <2>1, <2>4, <1>5
<1> QED
  BY <1>6, <1>7 DEF RefsInv, JoinedSo, Fork

\* A branch that writes what it knows still knows no other branch's object.
LEMMA WriteKeeps ==
    ASSUME RefsInv, joined = Running, NEW b \in Branch,
           NEW v \in Views, Write(b, v),
           Closed(Forked \cup {b}, v.heap, Roots(v), {})
    PROVE  RefsInv'
<1>1. /\ view \in [Owner -> Views] /\ b \in Owner /\ b # 0 /\ 0 \in Owner
      /\ view' = [view EXCEPT ![b] = v] /\ joined' = joined
  BY RefConstants DEF RefsInv, RefsTyped, Write
<1>2. /\ view'[0] = view[0] /\ view'[b] = v
      /\ \A c \in Branch \ {b} : view'[c] = view[c]
  BY <1>1, RefConstants
<1>3. Forked' = Forked
  BY <1>2 DEF Forked, CollectRefs
<1>4. RefsTyped'
  BY <1>1 DEF RefsTyped
<1>5. Apart'
  <2>1. \A c \in Branch :
           Closed(Forked \cup {c}, view'[c].heap, Roots(view'[c]), {})
    BY <1>2 DEF RefsInv, Apart
  <2> QED
    BY <1>3, <2>1 DEF Apart, Roots
<1> QED
  BY <1>1, <1>4, <1>5 DEF RefsInv, JoinedSo

\* What a branch may write is a scalar or an object it knows.
LEMMA KnownApart ==
    ASSUME RefsInv, NEW b \in Branch, NEW val \in Known(b)
    PROVE  /\ val \in Values
           /\ val \in AllIds => val \in Forked \cup {b}
<1>1. CollectRefs(view[b]) \subseteq (Forked \cup {b}) \cap AllIds
  BY ReachedApart, RefConstants DEF RefsInv
<1>2. CASE val \in Scalars
  BY <1>2, RefConstants DEF Scalars, Values
<1>3. CASE val \in CollectRefs(view[b])
  BY <1>1, <1>3 DEF Values
<1> QED
  BY <1>2, <1>3 DEF Known

LEMMA VarKeeps ==
    ASSUME RefsInv, joined = Running, NEW b \in Branch,
           NEW x \in Vars, NEW val \in Values,
           val \in AllIds => val \in Forked \cup {b},
           Write(b, [view[b] EXCEPT !.vars[x] = val])
    PROVE  RefsInv'
<1> DEFINE v == [view[b] EXCEPT !.vars[x] = val]
           mine == Forked \cup {b}
<1>1. /\ view[b] \in Views
      /\ Closed(mine, view[b].heap, Roots(view[b]), {})
  BY RefConstants DEF RefsInv, RefsTyped, Apart
<1>2. /\ v \in Views /\ v.heap = view[b].heap
      /\ v.vars = [view[b].vars EXCEPT ![x] = val]
      /\ view[b].vars \in [Vars -> Values]
  BY <1>1 DEF Views
<1> HIDE DEF v
<1>3. \A y \in Vars : v.vars[y] = val \/ v.vars[y] = view[b].vars[y]
  BY <1>2
<1>4. \A y \in Vars : v.vars[y] \in AllIds => v.vars[y] \in mine
  BY <1>1, <1>3 DEF Closed, Roots
<1>5. Closed(mine, v.heap, Roots(v), {})
  BY <1>1, <1>2, <1>4 DEF Closed, Roots
<1> QED
  BY <1>2, <1>5, WriteKeeps DEF v

LEMMA FieldKeeps ==
    ASSUME RefsInv, joined = Running, NEW b \in Branch,
           NEW i \in AllIds, NEW f \in Fields, NEW val \in Values,
           val \in AllIds => val \in Forked \cup {b},
           Write(b, [view[b] EXCEPT !.heap[i][f] = val])
    PROVE  RefsInv'
<1> DEFINE v == [view[b] EXCEPT !.heap[i][f] = val]
           mine == Forked \cup {b}
<1>1. /\ view[b] \in Views
      /\ Closed(mine, view[b].heap, Roots(view[b]), {})
  BY RefConstants DEF RefsInv, RefsTyped, Apart
<1>2. /\ view[b].heap \in [AllIds -> [Fields -> Values]]
      /\ v.vars = view[b].vars
      /\ v.heap = [view[b].heap EXCEPT ![i] = [view[b].heap[i] EXCEPT ![f] = val]]
  BY <1>1 DEF Views
<1>3. v \in Views
  <2>1. [view[b].heap[i] EXCEPT ![f] = val] \in [Fields -> Values]
    BY <1>2
  <2>2. v.heap \in [AllIds -> [Fields -> Values]]
    BY <1>2, <2>1
  <2>3. v = [view[b] EXCEPT !.heap = v.heap]
    BY <1>1, <1>2 DEF Views
  <2> HIDE DEF v
  <2> QED
    BY <1>1, <2>2, <2>3 DEF Views
<1> HIDE DEF v
<1>4. \A j \in AllIds, g \in Fields :
         v.heap[j][g] = val \/ v.heap[j][g] = view[b].heap[j][g]
  BY <1>2
<1>5. mine \subseteq AllIds
  BY ForkedClosed, RefConstants
<1>6. Closed(mine, v.heap, Roots(v), {})
  <2>1. (Roots(v) \cap AllIds) \ {} \subseteq mine
    BY <1>1, <1>2 DEF Closed, Roots
  <2>2. \A j \in mine, g \in Fields : v.heap[j][g] \in AllIds => v.heap[j][g] \in mine
    BY <1>1, <1>4, <1>5 DEF Closed
  <2> HIDE DEF mine
  <2> QED
    BY <2>1, <2>2 DEF Closed
<1> QED
  BY <1>3, <1>6, WriteKeeps DEF v

LEMMA AssignKeeps ==
    ASSUME RefsInv, NEW b \in Branch, Assign(b)
    PROVE  RefsInv'
<1>1. joined = Running
  BY DEF Assign
<1>2. ASSUME NEW x \in Vars, NEW val \in Known(b), AssignVar(b, x, val)
      PROVE  RefsInv'
  <2>1. Write(b, [view[b] EXCEPT !.vars[x] = val])
    BY <1>2 DEF AssignVar
  <2> QED
    BY <1>1, <2>1, KnownApart, VarKeeps
<1>3. ASSUME NEW x \in Vars, NewRef(b, x) PROVE RefsInv'
  <2>1. Write(b, [view[b] EXCEPT !.vars[x] = b])
    BY <1>3 DEF NewRef
  <2>2. b \in Values
    BY RefConstants DEF Values
  <2> QED
    BY <1>1, <2>1, <2>2, VarKeeps
<1>4. ASSUME NEW val \in Known(b), NEW i \in CollectRefs(view[b]),
             NEW f \in Fields, AssignField(b, i, f, val)
      PROVE  RefsInv'
  <2>1. Write(b, [view[b] EXCEPT !.heap[i][f] = val])
    BY <1>4 DEF AssignField
  <2>2. i \in AllIds
    BY ReachClosed DEF CollectRefs
  <2> QED
    BY <1>1, <2>1, <2>2, KnownApart, FieldKeeps
<1> QED
  BY <1>2, <1>3, <1>4 DEF Assign

\* What is merged depends on the views alone.
LEMMA SameViews ==
    ASSUME view' = view
    PROVE  /\ AnyConflict' <=> AnyConflict
           /\ Forked' = Forked
           /\ \A order, bs : Merged(order, bs)' = Merged(order, bs)
<1>1. \A x : VarWriters(x)' = VarWriters(x)
  BY DEF VarWriters
<1>2. Forked' = Forked
  BY DEF Forked, CollectRefs
<1>3. \A i, f : FieldWriters(i, f)' = FieldWriters(i, f)
  BY <1>2 DEF FieldWriters, CollectRefs
<1>4. AnyConflict' <=> AnyConflict
  <2>1. \A x : VarConflict(x)' <=> VarConflict(x)
    BY <1>1 DEF VarConflict
  <2>2. \A i, f : FieldConflict(i, f)' <=> FieldConflict(i, f)
    BY <1>3 DEF FieldConflict
  <2> QED
    BY <1>2, <2>1, <2>2 DEF AnyConflict
<1>5. \A x, bs : /\ Holder(x, bs)' = Holder(x, bs)
                 /\ Held(x, bs)' = Held(x, bs)
  BY <1>1 DEF Holder, Held
<1>6. \A canon, x, bs : Visit(canon, x, bs)' = Visit(canon, x, bs)
  BY <1>5 DEF Visit
<1>7. \A order, bs : Walked(order, bs)' = Walked(order, bs)
  BY <1>6 DEF Walked
<1>8. \A order, bs : Canon(order, bs)' = Canon(order, bs)
  <2>1. \A b : CollectRefs(view[b])' = CollectRefs(view[b])
    BY DEF CollectRefs
  <2> QED
    BY <1>2, <1>7, <2>1 DEF Canon
<1>9. \A canon, o, i, f, bs :
         FieldAfter(canon, o, i, f, bs)' = FieldAfter(canon, o, i, f, bs)
  BY <1>3 DEF FieldAfter, Canonical
<1>10. \A order, bs : Merged(order, bs)' = Merged(order, bs)
  BY <1>5, <1>8, <1>9 DEF Merged
<1> QED
  BY <1>2, <1>4, <1>10, ZenonT(60)

LEMMA RefsNext == RefsInv /\ [MergeNext]_mergeVars => RefsInv'
<1> SUFFICES ASSUME RefsInv, [MergeNext]_mergeVars PROVE RefsInv'
  OBVIOUS
<1>1. CASE \E b \in Branch : Assign(b)
  BY <1>1, AssignKeeps
<1>2. ASSUME view' = view, JoinedSo' PROVE RefsInv'
  <2>1. RefsTyped'
    BY <1>2 DEF RefsInv, RefsTyped
  <2>2. Apart'
    BY <1>2, SameViews DEF RefsInv, Apart, Roots
  <2> QED
    BY <1>2, <2>1, <2>2 DEF RefsInv
<1>3. CASE Merge
  <2>1. view' = view
    BY <1>3 DEF Merge
  <2>2. PICK order \in SetToSeqs(Vars) : joined' = Outcome(order, InOrder)
    BY <1>3 DEF Merge
  <2>3. \/ joined' = Conflict
        \/ joined' = Merged(order, InOrder) /\ ~AnyConflict
    BY <2>2 DEF Outcome
  <2>4. JoinedSo'
    BY <2>1, <2>3, SameViews DEF JoinedSo, Conflict
  <2> QED
    BY <1>2, <2>1, <2>4
<1>4. CASE UNCHANGED mergeVars
  <2>1. view' = view /\ joined' = joined
    BY <1>4 DEF mergeVars
  <2>2. JoinedSo'
    BY <2>1, SameViews DEF RefsInv, JoinedSo
  <2> QED
    BY <1>2, <2>1, <2>2
<1> QED
  BY <1>1, <1>3, <1>4 DEF MergeNext

\* The inductive invariant of the merge.
THEOREM MergeInvariant == MergeSpec => []RefsInv
<1>1. Fork => RefsInv
  BY RefsInit
<1>2. RefsInv /\ [MergeNext]_mergeVars => RefsInv'
  BY RefsNext
<1> QED
  BY <1>1, <1>2, PTL DEF MergeSpec

-----------------------------------------------------------------------------
(* The order of the branches, and the first of some of them in it.         *)

\* Every branch has its turn in bs.
Complete(bs) ==
    /\ DOMAIN bs = 1..Branches
    /\ \A b \in Branch : \E n \in DOMAIN bs : bs[n] = b

LEMMA OrdersComplete == Complete(InOrder) /\ \A bs \in SetToSeqs(Branch) : Complete(bs)
<1>1. Complete(InOrder)
  BY DEF Complete, InOrder, Branch
<1>2. ASSUME NEW bs \in SetToSeqs(Branch) PROVE Complete(bs)
  <2>1. /\ bs \in [1..Branches -> Branch]
        /\ \A i, j \in 1..Branches : i # j => bs[i] # bs[j]
    BY RefConstants DEF SetToSeqs
  <2>2. bs \in Injection(Branch, Branch)
    BY <2>1 DEF Injection, IsInjective, Branch
  <2>3. bs \in Surjection(Branch, Branch)
    BY <2>2, RefConstants, FS_Injection
  <2> QED
    BY <2>1, <2>3 DEF Surjection, Complete, Branch
<1> QED
  BY <1>1, <1>2

LEMMA FirstOf ==
    ASSUME NEW bs, Complete(bs), NEW S, S \subseteq Branch, S # {}
    PROVE  FirstAmong(S, bs) \in S
<1> DEFINE Leads(n) == bs[n] \in S /\ \A m \in 1..(n - 1) : bs[m] \notin S
           T == {n \in DOMAIN bs : bs[n] \in S}
<1>1. T \subseteq Nat /\ T # {}
  BY DEF Complete
<1>2. PICK n \in T : \A m \in T : n <= m
  BY <1>1, NatSetMin
<1>3. ASSUME NEW m \in 1..(n - 1) PROVE bs[m] \notin S
  <2>1. n \in 1..Branches /\ Branches \in Nat
    BY <1>2, RefConstants DEF Complete
  <2>2. m \in DOMAIN bs /\ ~(n <= m)
    BY <2>1 DEF Complete
  <2> QED
    BY <1>2, <2>2
<1>4. n \in DOMAIN bs /\ Leads(n)
  BY <1>2, <1>3
<1>5. FirstAmong(S, bs) = bs[CHOOSE k \in DOMAIN bs : Leads(k)]
  BY DEF FirstAmong
<1> HIDE DEF Leads
<1>6. Leads(CHOOSE k \in DOMAIN bs : Leads(k))
  BY <1>4, Zenon
<1> QED
  BY <1>5, <1>6 DEF Leads

-----------------------------------------------------------------------------
(* The walk over the merged variables.                                     *)

\* The value a variable holds after the merge is in its holder's view, and without a
\* conflict the order of the branches does not matter.
LEMMA HolderHolds ==
    ASSUME NEW bs, Complete(bs), NEW x \in Vars
    PROVE  /\ Holder(x, bs) \in Owner
           /\ Held(x, bs) = view[Holder(x, bs)].vars[x]
           /\ VarWriters(x) # {} => Holder(x, bs) \in VarWriters(x)
           /\ VarWriters(x) = {} => Holder(x, bs) = 0
<1>1. VarWriters(x) \subseteq Branch
  BY DEF VarWriters
<1>2. VarWriters(x) # {} => FirstAmong(VarWriters(x), bs) \in VarWriters(x)
  BY <1>1, FirstOf
<1> QED
  BY <1>1, <1>2, RefConstants DEF Holder, Held

IsWalk(w, order, bs) ==
    w = [n \in 0..Cardinality(Vars) |->
            IF n = 0 THEN [i \in {} |-> 0] ELSE Visit(w[n - 1], order[n], bs)]

\* The recursion of the walk has a solution.
LEMMA WalkExists ==
    ASSUME NEW order, NEW bs
    PROVE  IsWalk(Walked(order, bs), order, bs)
<1> DEFINE Empty == [i \in {} |-> 0]
           After(w, n) == Visit(w[n - 1], order[n], bs)
           Upto(w, k) == w = [n \in 0..k |-> IF n = 0 THEN Empty ELSE After(w, n)]
           Reached == {k \in Nat : \E w : Upto(w, k)}
<1>1. 0 \in Reached
  <2> DEFINE u == [n \in 0..0 |-> Empty]
  <2>1. Upto(u, 0)
    OBVIOUS
  <2> HIDE DEF Upto, u
  <2> QED
    BY <2>1
<1>2. ASSUME NEW k \in Nat, k \in Reached PROVE k + 1 \in Reached
  <2>1. PICK w : Upto(w, k)
    BY <1>2
  <2> DEFINE u == [n \in 0..(k + 1) |-> IF n = k + 1 THEN After(w, n) ELSE w[n]]
  <2>2. Upto(u, k + 1)
    BY <2>1
  <2> HIDE DEF Upto, u
  <2> QED
    BY <2>2
<1>3. Nat \subseteq Reached
  <2> HIDE DEF Reached
  <2> QED
    BY <1>1, <1>2, NatSetInduction
<1>4. \E w : IsWalk(w, order, bs)
  <2>1. Cardinality(Vars) \in Reached
    BY <1>3, RefConstants
  <2> QED
    BY <2>1 DEF IsWalk
<1>5. Walked(order, bs) = CHOOSE w : IsWalk(w, order, bs)
  BY DEF Walked, IsWalk
<1> QED
  BY <1>4, <1>5, Zenon

\* Every object the walk met is one its owner's variables reach.
Owned(canon) ==
    \A i \in DOMAIN canon : canon[i] \in Owner /\ i \in CollectRefs(view[canon[i]])

LEMMA WalkOwned ==
    ASSUME NEW order \in SetToSeqs(Vars), NEW bs, Complete(bs)
    PROVE  Owned(Walked(order, bs)[Cardinality(Vars)])
<1> DEFINE C == Cardinality(Vars)
           w == Walked(order, bs)
           S == {n \in Nat : n <= C => Owned(w[n])}
<1>0. C \in Nat
  BY RefConstants
<1>1. IsWalk(w, order, bs)
  BY WalkExists
<1> HIDE DEF w
<1>2. 0 \in S
  <2>1. w[0] = [i \in {} |-> 0]
    BY <1>0, <1>1 DEF IsWalk
  <2> QED
    BY <2>1 DEF Owned
<1>3. ASSUME NEW n \in Nat, n \in S PROVE n + 1 \in S
  <2> SUFFICES ASSUME n + 1 <= C PROVE Owned(w[n + 1])
    OBVIOUS
  <2> DEFINE x == order[n + 1]
             o == Holder(x, bs)
             new == ReachFrom(view[o].heap, {Held(x, bs)}, DOMAIN w[n])
  <2>1. x \in Vars
    BY <1>0 DEF SetToSeqs
  <2>2. Owned(w[n])
    BY <1>0, <1>3
  <2>3. w[n + 1] = Visit(w[n], x, bs)
    BY <1>0, <1>1 DEF IsWalk
  <2>4. /\ DOMAIN w[n + 1] = new \cup DOMAIN w[n]
        /\ \A i \in new \cup DOMAIN w[n] : w[n + 1][i] = IF i \in new THEN o ELSE w[n][i]
    BY <2>3 DEF Visit
  <2>5. o \in Owner /\ new \subseteq CollectRefs(view[o])
    <3>1. o \in Owner /\ Held(x, bs) = view[o].vars[x]
      BY <2>1, HolderHolds
    <3>2. {Held(x, bs)} \subseteq {view[o].vars[y] : y \in Vars}
      BY <2>1, <3>1
    <3> QED
      BY <3>1, <3>2, ReachLess DEF CollectRefs
  <2> HIDE DEF new, o, x
  <2> QED
    BY <2>2, <2>4, <2>5 DEF Owned
<1>4. C \in S
  <2> HIDE DEF S, C
  <2> QED
    BY <1>0, <1>2, <1>3, NatSetInduction
<1> QED
  BY <1>0, <1>4 DEF w

LEMMA CanonOwned ==
    ASSUME Apart, NEW order \in SetToSeqs(Vars), NEW bs, Complete(bs)
    PROVE  Owned(Canon(order, bs))
<1> DEFINE seen == Walked(order, bs)[Cardinality(Vars)]
           made == UNION {CollectRefs(view[b]) \ Forked : b \in Branch}
                      \ DOMAIN seen
           canon == [i \in made \cup DOMAIN seen |-> IF i \in made THEN i ELSE seen[i]]
<1>1. Owned(seen)
  BY WalkOwned
<1>2. Canon(order, bs) = canon
  BY DEF Canon
<1>3. ASSUME NEW i \in made PROVE i \in Owner /\ i \in CollectRefs(view[i])
  <2>1. PICK b \in Branch : i \in CollectRefs(view[b]) \ Forked
    OBVIOUS
  <2>2. i = b /\ b \in Owner
    BY <2>1, ReachedApart, RefConstants
  <2> QED
    BY <2>1, <2>2
<1> HIDE DEF seen, made
<1> QED
  BY <1>1, <1>2, <1>3 DEF Owned

-----------------------------------------------------------------------------
(* What the merge leaves in a field.                                       *)

Pointer == [owner : Owner, val : Values]

\* ptr points to the one object of its ID, where canon has one.
Proper(canon, ptr) ==
    ptr \in Pointer /\ (ptr.val \in DOMAIN canon => ptr.owner = canon[ptr.val])

LEMMA CanonicalProper ==
    ASSUME NEW canon, Owned(canon), NEW ptr \in Pointer
    PROVE  Proper(canon, Canonical(canon, ptr)) /\ Canonical(canon, ptr).val = ptr.val
<1>1. CASE ptr.val \in DOMAIN canon
  <2>1. canon[ptr.val] \in Owner
    BY <1>1 DEF Owned
  <2>2. Canonical(canon, ptr) = [ptr EXCEPT !.owner = canon[ptr.val]]
    BY <1>1 DEF Canonical
  <2> QED
    BY <2>1, <2>2 DEF Proper, Pointer
<1>2. CASE ptr.val \notin DOMAIN canon
  BY <1>2 DEF Canonical, Proper
<1> QED
  BY <1>1, <1>2

LEMMA FieldAfterIs ==
    ASSUME RefsTyped, NEW canon, Owned(canon), NEW bs, Complete(bs),
           NEW o \in Owner, NEW i \in AllIds, NEW f \in Fields
    PROVE  LET ptr == FieldAfter(canon, o, i, f, bs)
               writers == FieldWriters(i, f)
           IN  /\ Proper(canon, ptr)
               /\ IF i \in DOMAIN canon /\ canon[i] = o /\ writers # {}
                  THEN \E b \in writers : ptr.val = view[b].heap[i][f]
                  ELSE ptr.val = view[o].heap[i][f]
<1> DEFINE writers == FieldWriters(i, f)
           changed == i \in DOMAIN canon /\ canon[i] = o /\ writers # {}
           from == IF changed THEN FirstAmong(writers, bs) ELSE o
           raw == [owner |-> from, val |-> view[from].heap[i][f]]
<1>1. writers \subseteq Branch
  BY DEF FieldWriters
<1>2. changed => from \in writers
  BY <1>1, FirstOf
<1>3. from \in Owner
  BY <1>1, <1>2, RefConstants
<1>4. raw \in Pointer
  BY <1>3 DEF Pointer, RefsTyped, Views
<1>5. FieldAfter(canon, o, i, f, bs) = Canonical(canon, raw)
  BY DEF FieldAfter
<1>6. raw.val = view[from].heap[i][f]
  OBVIOUS
<1>7. ~changed => from = o
  OBVIOUS
<1> HIDE DEF writers, from, raw
<1>8. /\ Proper(canon, Canonical(canon, raw))
      /\ Canonical(canon, raw).val = raw.val
  BY <1>4, CanonicalProper
<1> QED
  BY <1>2, <1>5, <1>6, <1>7, <1>8 DEF writers

\* A field holds what the branches that changed it agree on, or what it held before.
Promised(i, f) ==
    IF i \notin Forked THEN view[i].heap[i][f]
    ELSE IF FieldWriters(i, f) = {} THEN view[0].heap[i][f]
    ELSE view[CHOOSE b \in FieldWriters(i, f) : TRUE].heap[i][f]

LEMMA WritersAgree ==
    ASSUME ~AnyConflict, NEW i, NEW f \in Fields, NEW b \in FieldWriters(i, f)
    PROVE  i \in Forked /\ view[b].heap[i][f] = Promised(i, f)
<1>1. i \in Forked
  BY DEF FieldWriters
<1>2. \A c, d \in FieldWriters(i, f) : view[c].heap[i][f] = view[d].heap[i][f]
  <2>1. ~FieldConflict(i, f)
    BY <1>1 DEF AnyConflict
  <2> QED
    BY <2>1 DEF FieldConflict, Differ
<1>3. (CHOOSE c \in FieldWriters(i, f) : TRUE) \in FieldWriters(i, f)
  OBVIOUS
<1>4. Promised(i, f) = view[CHOOSE c \in FieldWriters(i, f) : TRUE].heap[i][f]
  BY <1>1 DEF Promised
<1> QED
  BY <1>1, <1>2, <1>3, <1>4

\* The one object of an ID keeps the promise, whoever's clone it is.
LEMMA FieldPromised ==
    ASSUME RefsTyped, Apart, ~AnyConflict,
           NEW canon, Owned(canon), NEW bs, Complete(bs),
           NEW i \in DOMAIN canon, NEW f \in Fields
    PROVE  FieldAfter(canon, canon[i], i, f, bs).val = Promised(i, f)
<1> DEFINE o == canon[i]
           val == FieldAfter(canon, o, i, f, bs).val
<1>1. o \in Owner /\ i \in CollectRefs(view[o])
  BY DEF Owned
<1>2. i \in AllIds /\ i \in Forked \cup {o}
  BY <1>1, ReachedApart
<1>3. IF FieldWriters(i, f) # {}
      THEN \E b \in FieldWriters(i, f) : val = view[b].heap[i][f]
      ELSE val = view[o].heap[i][f]
  BY <1>1, <1>2, FieldAfterIs
<1> HIDE DEF val, o
<1>4. CASE FieldWriters(i, f) # {}
  BY <1>3, <1>4, WritersAgree DEF val, o
<1>5. CASE FieldWriters(i, f) = {}
  <2>1. CASE i \in Forked
    <3>1. o \in Branch => view[o].heap[i][f] = view[0].heap[i][f]
      BY <1>1, <1>5, <2>1 DEF FieldWriters
    <3>2. view[o].heap[i][f] = view[0].heap[i][f]
      BY <1>1, <3>1, RefConstants
    <3> QED
      BY <1>3, <1>5, <2>1, <3>2 DEF Promised, val, o
  <2>2. CASE i \notin Forked
    BY <1>2, <1>3, <1>5, <2>2 DEF Promised, val, o
  <2> QED
    BY <2>1, <2>2
<1> QED
  BY <1>4, <1>5

-----------------------------------------------------------------------------
(* The pointers of a merge.                                                *)

IsWithin(w, m) ==
    w = [n \in 0..Longest |->
            IF n = 0 THEN Objects({m.vars[x] : x \in Vars})
            ELSE w[n - 1] \cup Objects(Fielded(m, w[n - 1]))]

LEMMA WithinExists ==
    ASSUME NEW m
    PROVE  IsWithin(Within(m), m)
<1> DEFINE Start == Objects({m.vars[x] : x \in Vars})
           Grow(P) == P \cup Objects(Fielded(m, P))
           After(w, n) == Grow(w[n - 1])
           Upto(w, k) == w = [n \in 0..k |-> IF n = 0 THEN Start ELSE After(w, n)]
           Reached == {k \in Nat : \E w : Upto(w, k)}
<1>1. 0 \in Reached
  <2> DEFINE u == [n \in 0..0 |-> Start]
  <2> HIDE DEF Start
  <2>1. Upto(u, 0)
    OBVIOUS
  <2> HIDE DEF Upto, u
  <2> QED
    BY <2>1
<1>2. ASSUME NEW k \in Nat, k \in Reached PROVE k + 1 \in Reached
  <2>1. PICK w : Upto(w, k)
    BY <1>2
  <2> DEFINE u == [n \in 0..(k + 1) |-> IF n = k + 1 THEN After(w, n) ELSE w[n]]
  <2> HIDE DEF Start, Grow
  <2>2. Upto(u, k + 1)
    BY <2>1
  <2> HIDE DEF Upto, u
  <2> QED
    BY <2>2
<1>3. Nat \subseteq Reached
  <2> HIDE DEF Reached
  <2> QED
    BY <1>1, <1>2, NatSetInduction
<1>4. \E w : IsWithin(w, m)
  <2>1. Longest \in Reached
    BY <1>3, RefConstants
  <2> QED
    BY <2>1 DEF IsWithin
<1>5. Within(m) = CHOOSE w : IsWithin(w, m)
  BY DEF Within, IsWithin
<1> QED
  BY <1>4, <1>5, Zenon

\* The merge of some order of the variables and of the branches.
MergedAs(m, order, bs) ==
    /\ order \in SetToSeqs(Vars) /\ Complete(bs)
    /\ m = Merged(order, bs)

LEMMA MergeFields ==
    ASSUME NEW m, NEW order, NEW bs, MergedAs(m, order, bs)
    PROVE  /\ m.ok = "merged" /\ m.canon = Canon(order, bs)
           /\ \A x \in Vars : m.vars[x] = Canonical(m.canon,
                    [owner |-> Holder(x, bs), val |-> Held(x, bs)])
           /\ \A o \in Owner, i \in AllIds, f \in Fields :
                 m.heap[o][i][f] = FieldAfter(m.canon, o, i, f, bs)
BY DEF MergedAs, Merged

\* Every pointer of a merge is to the one object of its ID, where canon has one.
LEMMA PointersProper ==
    ASSUME RefsTyped, Apart,
           NEW m, NEW order, NEW bs, MergedAs(m, order, bs)
    PROVE  /\ Owned(m.canon)
           /\ \A x \in Vars : Proper(m.canon, m.vars[x]) /\ m.vars[x].val = Held(x, bs)
           /\ \A n \in 0..Longest : \A p \in Within(m)[n] :
                 Proper(m.canon, p) /\ p.val \in AllIds
<1> DEFINE w == Within(m)
           S == {n \in Nat : n <= Longest =>
                    \A p \in w[n] : Proper(m.canon, p) /\ p.val \in AllIds}
<1>1. Owned(m.canon)
  BY CanonOwned, MergeFields DEF MergedAs
<1>2. \A x \in Vars : Proper(m.canon, m.vars[x]) /\ m.vars[x].val = Held(x, bs)
  <2> SUFFICES ASSUME NEW x \in Vars
               PROVE  Proper(m.canon, m.vars[x]) /\ m.vars[x].val = Held(x, bs)
    OBVIOUS
  <2> DEFINE raw == [owner |-> Holder(x, bs), val |-> Held(x, bs)]
  <2>1. Holder(x, bs) \in Owner
        /\ Held(x, bs) = view[Holder(x, bs)].vars[x]
    BY HolderHolds DEF MergedAs
  <2>2. Held(x, bs) \in Values
    BY <2>1 DEF RefsTyped, Views
  <2>3. raw \in Pointer /\ raw.val = Held(x, bs)
    BY <2>1, <2>2 DEF Pointer
  <2>4. m.vars[x] = Canonical(m.canon, raw)
    BY MergeFields
  <2> HIDE DEF raw
  <2> QED
    BY <1>1, <2>3, <2>4, CanonicalProper
<1>3. IsWithin(w, m) /\ Longest \in Nat
  BY WithinExists, RefConstants
<1> HIDE DEF w
<1>4. 0 \in S
  <2>1. w[0] = Objects({m.vars[x] : x \in Vars})
    BY <1>3 DEF IsWithin
  <2> QED
    BY <1>2, <2>1 DEF Objects
<1>5. ASSUME NEW n \in Nat, n \in S PROVE n + 1 \in S
  <2> SUFFICES ASSUME n + 1 <= Longest, NEW p \in w[n + 1]
               PROVE  Proper(m.canon, p) /\ p.val \in AllIds
    OBVIOUS
  <2>1. \A q \in w[n] : Proper(m.canon, q) /\ q.val \in AllIds
    BY <1>3, <1>5
  <2>2. w[n + 1] = w[n] \cup Objects(Fielded(m, w[n]))
    <3>1. n + 1 \in 0..Longest /\ n + 1 # 0 /\ (n + 1) - 1 = n
      BY <1>3
    <3> QED
      BY <1>3, <3>1 DEF IsWithin
  <2>3. CASE p \in w[n]
    BY <2>1, <2>3
  <2>4. CASE p \in Objects(Fielded(m, w[n]))
    <3>1. PICK q \in w[n], f \in Fields : p = m.heap[q.owner][q.val][f]
      BY <2>4 DEF Objects, Fielded
    <3>2. q.owner \in Owner /\ q.val \in AllIds
      BY <2>1 DEF Proper, Pointer
    <3>3. p = FieldAfter(m.canon, q.owner, q.val, f, bs)
      BY <3>1, <3>2, MergeFields
    <3>4. Proper(m.canon, p)
      BY <1>1, <3>2, <3>3, FieldAfterIs DEF MergedAs
    <3> QED
      BY <2>4, <3>4 DEF Objects
  <2> QED
    BY <2>2, <2>3, <2>4
<1>6. Nat \subseteq S
  <2> HIDE DEF S
  <2> QED
    BY <1>4, <1>5, NatSetInduction
<1>7. \A n \in 0..Longest : \A p \in w[n] : Proper(m.canon, p) /\ p.val \in AllIds
  BY <1>3, <1>6
<1> QED
  BY <1>1, <1>2, <1>7 DEF w

\* In sight, every object the variables lead to holds what the branches promised.
LEMMA PointersPromised ==
    ASSUME RefsTyped, Apart, ~AnyConflict,
           NEW m, NEW order, NEW bs, MergedAs(m, order, bs), InSight(m),
           NEW p \in Pointers(m)
    PROVE  /\ p \in Pointer /\ p.val \in DOMAIN m.canon /\ p.owner = m.canon[p.val]
           /\ \A f \in Fields : m.heap[p.owner][p.val][f].val = Promised(p.val, f)
<1>1. p \in Within(m)[Longest] /\ Longest \in 0..Longest
  BY RefConstants DEF Pointers
<1>2. Proper(m.canon, p) /\ p.val \in AllIds /\ Owned(m.canon)
  BY <1>1, PointersProper
<1>3. p.val \in DOMAIN m.canon
  BY DEF InSight
<1>4. p \in Pointer /\ p.owner = m.canon[p.val] /\ p.owner \in Owner
  BY <1>2, <1>3 DEF Proper, Pointer
<1>5. ASSUME NEW f \in Fields
      PROVE  m.heap[p.owner][p.val][f].val = Promised(p.val, f)
  <2>1. m.heap[p.owner][p.val][f] = FieldAfter(m.canon, p.owner, p.val, f, bs)
    BY <1>2, <1>4, MergeFields
  <2>2. FieldAfter(m.canon, m.canon[p.val], p.val, f, bs).val = Promised(p.val, f)
    BY <1>2, <1>3, FieldPromised DEF MergedAs
  <2> QED
    BY <1>4, <2>1, <2>2
<1> QED
  BY <1>3, <1>4, <1>5

\* For any number of branches, variables, objects and fields: what the merged variables
\* lead to in sight is one object per ID, and it holds every change the branches made
\* to it (runParallelStage, mergeRefFields and Canonicalize).
THEOREM ChangesMerged == MergeSpec => []MergedInSight
<1>1. ASSUME RefsInv PROVE MergedInSight
  <2> SUFFICES ASSUME Merges, InSight(joined)
               PROVE  /\ \A p, q \in Pointers(joined) : p.val = q.val => p = q
                      /\ \A p \in Pointers(joined), f \in Fields :
                            \A b \in FieldWriters(p.val, f) :
                               joined.heap[p.owner][p.val][f].val = view[b].heap[p.val][f]
    BY DEF MergedInSight
  <2>1. PICK order \in SetToSeqs(Vars) : joined = Merged(order, InOrder)
    BY <1>1 DEF RefsInv, JoinedSo, Merges, Running, Conflict
  <2>2. ~AnyConflict
    BY <1>1 DEF RefsInv, JoinedSo, Merges, Running, Conflict
  <2>3. MergedAs(joined, order, InOrder)
    BY <2>1, OrdersComplete DEF MergedAs
  <2>4. \A p \in Pointers(joined) :
           /\ p \in Pointer /\ p.owner = joined.canon[p.val]
           /\ \A f \in Fields : joined.heap[p.owner][p.val][f].val = Promised(p.val, f)
    BY <1>1, <2>2, <2>3, PointersPromised DEF RefsInv
  <2>5. ASSUME NEW p \in Pointers(joined), NEW q \in Pointers(joined), p.val = q.val
        PROVE  p = q
    BY <2>4, <2>5 DEF Pointer
  <2>6. ASSUME NEW p \in Pointers(joined), NEW f \in Fields,
               NEW b \in FieldWriters(p.val, f)
        PROVE  joined.heap[p.owner][p.val][f].val = view[b].heap[p.val][f]
    BY <2>2, <2>4, WritersAgree
  <2> QED
    BY <2>5, <2>6
<1> QED
  BY <1>1, MergeInvariant, PTL

-----------------------------------------------------------------------------
(* The outcome is determined: two merges of one group, both in sight, show *)
(* the same.                                                               *)

Vals(P) == {p.val : p \in P}

\* Without a conflict the order does not decide what a variable holds.
LEMMA HeldSettled ==
    ASSUME ~AnyConflict, NEW x \in Vars,
           NEW as, Complete(as), NEW bs, Complete(bs)
    PROVE  Held(x, as) = Held(x, bs)
<1>1. CASE VarWriters(x) = {}
  BY <1>1, HolderHolds
<1>2. CASE VarWriters(x) # {}
  <2>1. \A b, c \in VarWriters(x) : view[b].vars[x] = view[c].vars[x]
    BY DEF AnyConflict, VarConflict, Differ
  <2> QED
    BY <1>2, <2>1, HolderHolds
<1> QED
  BY <1>1, <1>2

\* The levels of a merge's pointers: the first, and from each to the next.
LEMMA Levels ==
    ASSUME NEW m
    PROVE  /\ Within(m)[0] = Objects({m.vars[x] : x \in Vars})
           /\ \A n \in Nat : n + 1 <= Longest =>
                 Within(m)[n + 1] =
                    Within(m)[n] \cup Objects(Fielded(m, Within(m)[n]))
           /\ \A n \in Nat : n <= Longest =>
                 Within(m)[n] \subseteq Pointers(m)
<1> DEFINE w == Within(m)
           L == Longest
           S == {k \in Nat : k <= L => w[L - k] \subseteq w[L]}
<1>0. L \in Nat /\ IsWithin(w, m)
  BY RefConstants, WithinExists
<1> HIDE DEF w
<1>1. w[0] = Objects({m.vars[x] : x \in Vars})
  BY <1>0 DEF IsWithin
<1>2. ASSUME NEW n \in Nat, n + 1 <= L
      PROVE  w[n + 1] = w[n] \cup Objects(Fielded(m, w[n]))
  <2>1. n + 1 \in 0..L /\ n + 1 # 0 /\ (n + 1) - 1 = n
    BY <1>0, <1>2
  <2> QED
    BY <1>0, <2>1 DEF IsWithin
<1>3. 0 \in S
  BY <1>0
<1>4. ASSUME NEW k \in Nat, k \in S PROVE k + 1 \in S
  <2> SUFFICES ASSUME k + 1 <= L PROVE w[L - (k + 1)] \subseteq w[L]
    OBVIOUS
  <2>1. w[L - k] \subseteq w[L]
    BY <1>0, <1>4
  <2>2. /\ L - (k + 1) \in Nat /\ (L - (k + 1)) + 1 <= L
        /\ (L - (k + 1)) + 1 = L - k
    BY <1>0
  <2>3. w[L - (k + 1)] \subseteq w[(L - (k + 1)) + 1]
    BY <1>2, <2>2
  <2> QED
    BY <2>1, <2>2, <2>3
<1>5. Nat \subseteq S
  <2> HIDE DEF S
  <2> QED
    BY <1>3, <1>4, NatSetInduction
<1>6. ASSUME NEW n \in Nat, n <= L PROVE w[n] \subseteq w[L]
  <2>1. L - n \in S /\ L - n <= L /\ L - (L - n) = n
    BY <1>0, <1>5, <1>6
  <2> QED
    BY <2>1
<1> QED
  BY <1>1, <1>2, <1>6 DEF w, Pointers

\* The objects one field further on are told by the IDs alone.
NextOf(I) == {Promised(i, f) : i \in I, f \in Fields} \cap AllIds

LEMMA NextVals ==
    ASSUME NEW m, NEW P,
           \A p \in P, f \in Fields : m.heap[p.owner][p.val][f].val = Promised(p.val, f)
    PROVE  Vals(P \cup Objects(Fielded(m, P))) = Vals(P) \cup NextOf(Vals(P))
<1> DEFINE N == NextOf(Vals(P))
           F == Objects(Fielded(m, P))
<1>1. ASSUME NEW q \in F PROVE q.val \in N
  <2>1. PICK p \in P, f \in Fields : q = m.heap[p.owner][p.val][f]
    BY DEF Objects, Fielded
  <2>2. q.val = Promised(p.val, f) /\ q.val \in AllIds /\ p.val \in Vals(P)
    BY <2>1 DEF Objects, Vals
  <2> QED
    BY <2>2 DEF NextOf
<1>2. ASSUME NEW j \in N PROVE \E q \in F : j = q.val
  <2>1. PICK i \in Vals(P), f \in Fields : j = Promised(i, f)
    BY DEF NextOf
  <2>2. PICK p \in P : i = p.val
    BY DEF Vals
  <2>3. m.heap[p.owner][p.val][f].val = j /\ j \in AllIds
    BY <2>1, <2>2 DEF NextOf
  <2>4. m.heap[p.owner][p.val][f] \in F
    BY <2>3 DEF Objects, Fielded
  <2> QED
    BY <2>3, <2>4
<1> HIDE DEF N, F
<1>3. Vals(P \cup F) = Vals(P) \cup Vals(F)
  BY ZenonT(60) DEF Vals
<1>4. Vals(F) = N
  BY <1>1, <1>2, ZenonT(60) DEF Vals
<1> QED
  BY <1>3, <1>4 DEF N, F

LEMMA SeenSame ==
    ASSUME RefsTyped, Apart, ~AnyConflict,
           NEW m, NEW mo, NEW mb, MergedAs(m, mo, mb), InSight(m),
           NEW k, NEW ko, NEW kb, MergedAs(k, ko, kb), InSight(k)
    PROVE  Seen(m) = Seen(k)
<1> DEFINE L == Longest
           mw == Within(m)
           kw == Within(k)
           S == {n \in Nat : n <= L => Vals(mw[n]) = Vals(kw[n])}
           pm == Pointers(m)
           pk == Pointers(k)
<1>0. L \in Nat
  BY RefConstants
<1>1. \A p \in pm, f \in Fields : m.heap[p.owner][p.val][f].val = Promised(p.val, f)
  BY PointersPromised
<1>2. \A p \in pk, f \in Fields : k.heap[p.owner][p.val][f].val = Promised(p.val, f)
  BY PointersPromised
<1>3. \A x \in Vars : m.vars[x].val = k.vars[x].val
  <2>1. Complete(mb) /\ Complete(kb)
    BY DEF MergedAs
  <2> QED
    BY <2>1, PointersProper, HeldSettled
<1>4. 0 \in S
  <2>1. mw[0] = Objects({m.vars[x] : x \in Vars})
        /\ kw[0] = Objects({k.vars[x] : x \in Vars})
    BY Levels
  <2>2. \A p \in mw[0] : \E q \in kw[0] : p.val = q.val
    BY <1>3, <2>1 DEF Objects
  <2>3. \A q \in kw[0] : \E p \in mw[0] : q.val = p.val
    BY <1>3, <2>1 DEF Objects
  <2> HIDE DEF mw, kw
  <2> QED
    BY <2>2, <2>3 DEF Vals
<1>5. ASSUME NEW n \in Nat, n \in S PROVE n + 1 \in S
  <2> SUFFICES ASSUME n + 1 <= L PROVE Vals(mw[n + 1]) = Vals(kw[n + 1])
    OBVIOUS
  <2>1. n <= L /\ Vals(mw[n]) = Vals(kw[n])
    BY <1>0, <1>5
  <2>2. /\ mw[n + 1] = mw[n] \cup Objects(Fielded(m, mw[n]))
        /\ kw[n + 1] = kw[n] \cup Objects(Fielded(k, kw[n]))
    BY Levels
  <2>3. mw[n] \subseteq pm /\ kw[n] \subseteq pk
    BY <2>1, Levels
  <2> HIDE DEF mw, kw, pm, pk
  <2>4. Vals(mw[n + 1]) = Vals(mw[n]) \cup NextOf(Vals(mw[n]))
    BY <1>1, <2>2, <2>3, NextVals
  <2>5. Vals(kw[n + 1]) = Vals(kw[n]) \cup NextOf(Vals(kw[n]))
    BY <1>2, <2>2, <2>3, NextVals
  <2> QED
    BY <2>1, <2>4, <2>5
<1>6. Vals(pm) = Vals(pk)
  <2>1. L \in S
    <3> HIDE DEF S
    <3> QED
      BY <1>0, <1>4, <1>5, NatSetInduction
  <2> QED
    BY <1>0, <2>1 DEF Pointers
<1> DEFINE Object(i) == <<i, [f \in Fields |-> Promised(i, f)]>>
<1>7. {<<p.val, [f \in Fields |-> m.heap[p.owner][p.val][f].val]>> : p \in pm}
         = {Object(i) : i \in Vals(pm)}
  <2>1. \A p \in pm : [f \in Fields |-> m.heap[p.owner][p.val][f].val]
                         = [f \in Fields |-> Promised(p.val, f)]
    BY <1>1
  <2> HIDE DEF pm
  <2> QED
    BY <2>1 DEF Vals
<1>8. {<<p.val, [f \in Fields |-> k.heap[p.owner][p.val][f].val]>> : p \in pk}
         = {Object(i) : i \in Vals(pk)}
  <2>1. \A p \in pk : [f \in Fields |-> k.heap[p.owner][p.val][f].val]
                         = [f \in Fields |-> Promised(p.val, f)]
    BY <1>2
  <2> HIDE DEF pk
  <2> QED
    BY <2>1 DEF Vals
<1>9. [x \in Vars |-> m.vars[x].val] = [x \in Vars |-> k.vars[x].val]
  BY <1>3
<1> QED
  BY <1>6, <1>7, <1>8, <1>9 DEF Seen

\* For any number of branches, variables, objects and fields: once the group is merged,
\* neither the order in which Go walks the variables nor the order of the branches
\* decides what a program sees of it, as long as the merge keeps everything in sight.
THEOREM MergeDetermined == MergeSpec => []OutcomeDetermined
<1>1. ASSUME RefsInv PROVE OutcomeDetermined
  <2> SUFFICES ASSUME Merges, InSight(joined),
                      NEW order \in SetToSeqs(Vars),
                      NEW bs \in SetToSeqs(Branch)
               PROVE  LET other == Outcome(order, bs)
                      IN  /\ other.ok = "merged"
                          /\ InSight(other) => Seen(other) = Seen(joined)
    BY DEF OutcomeDetermined
  <2> DEFINE other == Outcome(order, bs)
  <2>1. PICK mine \in SetToSeqs(Vars) : joined = Merged(mine, InOrder)
    BY <1>1 DEF RefsInv, JoinedSo, Merges, Running, Conflict
  <2>2. ~AnyConflict
    BY <1>1 DEF RefsInv, JoinedSo, Merges, Running, Conflict
  <2>3. other = Merged(order, bs)
    BY <2>2 DEF Outcome
  <2> HIDE DEF other
  <2>4. MergedAs(joined, mine, InOrder) /\ MergedAs(other, order, bs)
    BY <2>1, <2>3, OrdersComplete DEF MergedAs
  <2>5. other.ok = "merged"
    BY <2>4, MergeFields
  <2>6. ASSUME InSight(other) PROVE Seen(other) = Seen(joined)
    BY <1>1, <2>2, <2>4, <2>6, SeenSame DEF RefsInv
  <2> QED
    BY <2>5, <2>6 DEF other
<1> QED
  BY <1>1, MergeInvariant, PTL
=============================================================================
