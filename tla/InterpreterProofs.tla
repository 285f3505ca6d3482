--------------------------- MODULE InterpreterProofs ---------------------------
(***************************************************************************)
(* Theorems about the interpreter: about AgentCalls, for any number of     *)
(* calls, fallbacks, attempts and any limits, and (from BodyInv on) about  *)
(* StepBody, for any names and a body of any length.                       *)
(***************************************************************************)
EXTENDS AgentCalls, StepBody, FiniteSetTheorems, SequenceTheorems, TLAPS

USE AgentAssumption

-----------------------------------------------------------------------------
(* The inductive invariant.                                                *)

\* A call that has made a request too many is past every wait for another.
NoneAfter ==
    \A c \in Callers :
       /\ caller[c].late <= 1
       /\ caller[c].late # 0 => c \in done /\ caller[c].pc \notin {"slot", "window"}

\* A call backs off only before an attempt it has left.
Retries == \A c \in Callers : caller[c].pc = "backoff" => caller[c].attempt < MaxAttempts

IInv == TypeOK /\ SlotsHonest /\ NoneAfter /\ Retries

\* A slot of a's limiter is held by a call that stands like rec.
Holds(rec, a) == rec.pc \in {"window", "request"} /\ rec.leg = a
Weight(rec, a) == IF Holds(rec, a) THEN 1 ELSE 0

-----------------------------------------------------------------------------
(* Types and counts.                                                       *)

LEMMA Constants ==
    /\ Fallbacks \in Nat /\ MaxAttempts \in Nat \ {0} /\ Decider \in Agents /\ 0 \in Agents
    /\ 0 # Decider
BY DEF Decider, Agents, Chain

LEMMA Fields ==
    ASSUME TypeOK, NEW c \in Callers
    PROVE  /\ caller \in [Callers -> CallRecords] /\ caller[c] \in CallRecords
           /\ caller[c].leg \in Agents /\ caller[c].attempt \in 1..MaxAttempts
           /\ caller[c].late \in 0..2
           /\ sem \in [Agents -> 0..Concurrency] /\ used \in [Agents -> 0..PerMinute]
BY DEF TypeOK, CallRecords

LEMMA Finite ==
    ASSUME NEW a
    PROVE  /\ IsFiniteSet(Holders(a)) /\ Cardinality(Holders(a)) \in Nat
           /\ Cardinality(Holders(a)') \in Nat
<1>1. Holders(a) \in SUBSET Callers /\ Holders(a)' \in SUBSET Callers
  BY DEF Holders
<1> QED
  BY <1>1, FS_Subset, FS_CardinalityType

\* A call that moves changes its agents' counts by itself.
LEMMA MoveCounts ==
    ASSUME TypeOK, NEW c \in Callers, NEW new \in CallRecords,
           caller' = [caller EXCEPT ![c] = new], NEW a
    PROVE  Cardinality(Holders(a)') =
              Cardinality(Holders(a)) + Weight(new, a) - Weight(caller[c], a)
<1>1. caller'[c] = new /\ \A d \in Callers \ {c} : caller'[d] = caller[d]
  BY Fields
<1>2. /\ c \in Holders(a) <=> Holds(caller[c], a)
      /\ c \in Holders(a)' <=> Holds(new, a)
      /\ \A d \in Callers \ {c} : d \in Holders(a)' <=> d \in Holders(a)
      /\ Holders(a) \subseteq Callers /\ Holders(a)' \subseteq Callers
  BY <1>1 DEF Holders, Holds
<1>3. CASE Holds(new, a) /\ ~Holds(caller[c], a)
  <2>1. Holders(a)' = Holders(a) \cup {c} /\ c \notin Holders(a)
    BY <1>2, <1>3
  <2>2. Cardinality(Holders(a)') = Cardinality(Holders(a)) + 1
    BY <2>1, Finite, FS_AddElement
  <2> QED
    BY <1>3, <2>2, Finite DEF Weight
<1>4. CASE ~Holds(new, a) /\ Holds(caller[c], a)
  <2>1. Holders(a)' = Holders(a) \ {c} /\ c \in Holders(a)
    BY <1>2, <1>4
  <2>2. Cardinality(Holders(a)') = Cardinality(Holders(a)) - 1
    BY <2>1, Finite, FS_RemoveElement
  <2> QED
    BY <1>4, <2>2, Finite DEF Weight
<1>5. CASE Holds(new, a) <=> Holds(caller[c], a)
  <2>1. Holders(a)' = Holders(a)
    BY <1>2, <1>5
  <2> QED
    BY <1>5, <2>1, Finite DEF Weight
<1> QED
  BY <1>3, <1>4, <1>5

\* A call that moves with the slot it takes or gives back.
LEMMA CallerKeeps ==
    ASSUME IInv, NEW c \in Callers, NEW new \in CallRecords,
           caller' = [caller EXCEPT ![c] = new],
           done' = done, old' \subseteq Agents, cache' \subseteq Agents,
           used' \in [Agents -> 0..PerMinute], sem' \in [Agents -> Int],
           \A a \in Agents : sem'[a] = sem[a] + Weight(new, a) - Weight(caller[c], a),
           \A a \in Agents : sem'[a] <= Concurrency,
           new.pc = "backoff" => new.attempt < MaxAttempts,
           new.late <= 1,
           new.late # 0 => c \in done /\ new.pc \notin {"slot", "window"}
    PROVE  IInv'
<1>1. TypeOK /\ SlotsHonest
  BY DEF IInv
<1>2. ASSUME NEW a \in Agents
      PROVE  sem'[a] = Cardinality(Holders(a)') /\ sem'[a] \in 0..Concurrency
  <2>1. Cardinality(Holders(a)') =
           Cardinality(Holders(a)) + Weight(new, a) - Weight(caller[c], a)
    BY <1>1, MoveCounts
  <2>2. sem'[a] = Cardinality(Holders(a)')
    BY <1>1, <2>1 DEF SlotsHonest
  <2> QED
    BY <2>2, Finite
<1>3. TypeOK'
  BY <1>1, <1>2 DEF TypeOK
<1>4. SlotsHonest'
  BY <1>2 DEF SlotsHonest
<1>5. NoneAfter' /\ Retries'
  BY <1>1, Fields DEF IInv, NoneAfter, Retries
<1> QED
  BY <1>3, <1>4, <1>5 DEF IInv

\* A call that holds no slot before and after.
LEMMA WaiterKeeps ==
    ASSUME IInv, NEW c \in Callers, NEW new \in CallRecords,
           caller' = [caller EXCEPT ![c] = new],
           UNCHANGED <<done, sem, used, old, cache>>,
           caller[c].pc \notin {"window", "request"},
           new.pc \notin {"window", "request", "backoff"},
           new.late = caller[c].late,
           new.pc = "slot" => c \notin done
    PROVE  IInv'
<1>1. /\ TypeOK /\ old \subseteq Agents /\ cache \subseteq Agents
      /\ sem \in [Agents -> 0..Concurrency] /\ used \in [Agents -> 0..PerMinute]
  BY DEF IInv, TypeOK
<1>2. /\ sem' \in [Agents -> Int]
      /\ \A a \in Agents : sem'[a] = sem[a] + Weight(new, a) - Weight(caller[c], a)
      /\ \A a \in Agents : sem'[a] <= Concurrency
  BY <1>1 DEF Weight, Holds
<1>3. new.late <= 1 /\ (new.late # 0 => c \in done /\ new.pc \notin {"slot", "window"})
  BY DEF IInv, NoneAfter
<1> QED
  BY <1>1, <1>2, <1>3, CallerKeeps

\* A call that gives its slot back.
LEMMA LeaverKeeps ==
    ASSUME IInv, NEW c \in Callers, NEW new \in CallRecords,
           caller' = [caller EXCEPT ![c] = new], Release(c),
           done' = done, old' = old, used' = used, cache' \subseteq Agents,
           caller[c].pc \in {"window", "request"},
           new.pc \notin {"window", "request", "slot"}, new.late = caller[c].late,
           new.pc = "backoff" => new.attempt < MaxAttempts
    PROVE  IInv'
<1>1. /\ TypeOK /\ old \subseteq Agents /\ caller[c].leg \in Agents
      /\ sem \in [Agents -> 0..Concurrency] /\ used \in [Agents -> 0..PerMinute]
  BY Fields DEF IInv, TypeOK
<1>2. /\ sem' \in [Agents -> Int]
      /\ \A a \in Agents : sem'[a] = sem[a] + Weight(new, a) - Weight(caller[c], a)
      /\ \A a \in Agents : sem'[a] <= Concurrency
  BY <1>1 DEF Release, Weight, Holds
<1>3. new.late <= 1 /\ (new.late # 0 => c \in done /\ new.pc \notin {"slot", "window"})
  BY DEF IInv, NoneAfter
<1> QED
  BY <1>1, <1>2, <1>3, CallerKeeps

-----------------------------------------------------------------------------
(* The ways a call goes on.                                                *)

LEMMA GoesType ==
    ASSUME TypeOK, NEW c \in Callers,
           NEW pc \in {"routing", "asked", "lookup", "attempt", "slot", "backoff", "after",
                       "window", "over"},
           Goes(c, pc)
    PROVE  \E new \in CallRecords :
              /\ caller' = [caller EXCEPT ![c] = new]
              /\ new.pc = pc /\ new.leg = caller[c].leg /\ new.late = caller[c].late
              /\ new.attempt = caller[c].attempt
<1> DEFINE new == [caller[c] EXCEPT !.pc = pc]
<1>1. new \in CallRecords
  BY Fields DEF CallRecords
<1>2. /\ new.pc = pc /\ new.leg = caller[c].leg /\ new.late = caller[c].late
      /\ new.attempt = caller[c].attempt
  BY Fields DEF CallRecords
<1>3. caller' = [caller EXCEPT ![c] = new]
  BY DEF Goes
<1> QED
  BY <1>1, <1>2, <1>3

LEMMA FailsType ==
    ASSUME TypeOK, NEW c \in Callers, Fails(c)
    PROVE  \E new \in CallRecords :
              /\ caller' = [caller EXCEPT ![c] = new]
              /\ new.pc = "over" /\ new.late = caller[c].late
<1>1. Goes(c, "over")
  BY DEF Fails, Goes
<1> QED
  BY <1>1, GoesType

LEMMA LegFailsType ==
    ASSUME TypeOK, NEW c \in Callers, LegFails(c)
    PROVE  \E new \in CallRecords :
              /\ caller' = [caller EXCEPT ![c] = new]
              /\ new.pc \in {"over", "lookup"} /\ new.late = caller[c].late
<1>1. CASE Fails(c)
  BY <1>1, FailsType
<1>2. CASE /\ caller[c].leg \in 0..(Fallbacks - 1)
           /\ caller' = [caller EXCEPT ![c].pc = "lookup", ![c].leg = @ + 1, ![c].attempt = 1]
  <2> DEFINE new == [caller[c] EXCEPT !.pc = "lookup", !.leg = caller[c].leg + 1, !.attempt = 1]
  <2>1. caller[c].leg + 1 \in Agents /\ 1 \in 1..MaxAttempts
    BY <1>2 DEF Agents, Chain
  <2>2. new \in CallRecords
    BY <2>1, Fields DEF CallRecords
  <2>3. new.pc = "lookup" /\ new.late = caller[c].late
    BY Fields DEF CallRecords
  <2>4. caller' = [caller EXCEPT ![c] = new]
    BY <1>2
  <2> QED
    BY <2>2, <2>3, <2>4
<1> QED
  BY <1>1, <1>2 DEF LegFails

-----------------------------------------------------------------------------
(* Every action preserves the invariant.                                   *)

LEMMA InitInvariant == Init => IInv
<1> SUFFICES ASSUME Init PROVE IInv
  OBVIOUS
<1>1. NewCall \in CallRecords /\ NewCall.pc = "away" /\ NewCall.late = 0
  BY Constants DEF NewCall, CallRecords
<1>2. TypeOK
  BY <1>1, Constants DEF Init, TypeOK
<1>3. \A a \in Agents : Holders(a) = {}
  BY <1>1 DEF Init, Holders
<1>4. SlotsHonest
  BY <1>3, FS_EmptySet DEF Init, SlotsHonest
<1>5. NoneAfter /\ Retries
  BY <1>1 DEF Init, NoneAfter, Retries
<1> QED
  BY <1>2, <1>4, <1>5 DEF IInv

\* Call, Route, Prepare, LookUp, Misconfigured, Try, LeaveSlot, BackOff: no slot is held.
LEMMA WaitersKeep ==
    ASSUME IInv, NEW c \in Callers,
           \/ Call(c) \/ Route(c) \/ Prepare(c) \/ LookUp(c) \/ Misconfigured(c) \/ Try(c)
           \/ LeaveSlot(c) \/ BackOff(c)
    PROVE  IInv'
<1>1. /\ TypeOK /\ UNCHANGED <<done, sem, used, old, cache>>
      /\ caller[c].pc \notin {"window", "request"}
  BY DEF IInv, Call, Route, Prepare, LookUp, Misconfigured, Try, LeaveSlot, BackOff, At, Policies
<1>2. CASE \E pc \in {"routing", "asked", "lookup", "attempt", "after", "over"} : Goes(c, pc)
  BY <1>1, <1>2, GoesType, WaiterKeeps
<1>3. CASE Goes(c, "slot") /\ c \notin done
  BY <1>1, <1>3, GoesType, WaiterKeeps
<1>4. CASE Fails(c) \/ LegFails(c)
  BY <1>1, <1>4, FailsType, LegFailsType, WaiterKeeps
<1>5. CASE Route(c) /\ caller' = [caller EXCEPT ![c].pc = "lookup", ![c].leg = Decider]
  <2> DEFINE new == [caller[c] EXCEPT !.pc = "lookup", !.leg = Decider]
  <2>1. new \in CallRecords
    BY <1>1, Fields, Constants DEF CallRecords
  <2>2. new.pc = "lookup" /\ new.late = caller[c].late
    BY <1>1, Fields DEF CallRecords
  <2>3. caller' = [caller EXCEPT ![c] = new]
    BY <1>5
  <2> HIDE DEF new
  <2> QED
    BY <1>1, <2>1, <2>2, <2>3, WaiterKeeps
<1>6. CASE /\ BackOff(c)
           /\ caller' = [caller EXCEPT ![c].pc = "attempt", ![c].attempt = @ + 1]
  <2> DEFINE new == [caller[c] EXCEPT !.pc = "attempt", !.attempt = caller[c].attempt + 1]
  <2>1. new \in CallRecords
    <3>1. caller[c].attempt + 1 \in 1..MaxAttempts
      BY <1>1, <1>6, Fields, Constants DEF IInv, Retries, BackOff, At
    <3> QED
      BY <1>1, <3>1, Fields DEF CallRecords
  <2>2. new.pc = "attempt" /\ new.late = caller[c].late
    BY <1>1, Fields DEF CallRecords
  <2>3. caller' = [caller EXCEPT ![c] = new]
    BY <1>6
  <2> HIDE DEF new
  <2> QED
    BY <1>1, <2>1, <2>2, <2>3, WaiterKeeps
<1>7. CASE Call(c) \/ Prepare(c) \/ LookUp(c)
  BY <1>2, <1>4, <1>7 DEF Call, Prepare, LookUp
<1>8. CASE Route(c) \/ BackOff(c)
  BY <1>2, <1>4, <1>5, <1>6, <1>8 DEF Route, BackOff
<1>9. CASE Misconfigured(c) \/ Try(c) \/ LeaveSlot(c)
  BY <1>3, <1>4, <1>9 DEF Misconfigured, Try, LeaveSlot
<1> QED
  BY <1>7, <1>8, <1>9

LEMMA AnsweredKeeps ==
    ASSUME IInv, NEW c \in Callers, Answered(c)
    PROVE  IInv'
<1>1. /\ TypeOK /\ UNCHANGED <<done, sem, used, old, cache>>
      /\ caller[c].pc \notin {"window", "request"}
  BY DEF IInv, Answered, At, Policies
<1>2. CASE Fails(c)
  BY <1>1, <1>2, FailsType, WaiterKeeps
<1>3. CASE caller' = [caller EXCEPT ![c].pc = "asked", ![c].leg = 0, ![c].attempt = 1]
  <2> DEFINE new == [caller[c] EXCEPT !.pc = "asked", !.leg = 0, !.attempt = 1]
  <2>1. new \in CallRecords
    <3>1. caller[c] \in CallRecords /\ 0 \in Agents /\ 1 \in 1..MaxAttempts
      BY <1>1, Fields, Constants
    <3> QED
      BY <3>1 DEF CallRecords
  <2>2. new.pc = "asked" /\ new.late = caller[c].late
    BY <1>1, Fields DEF CallRecords
  <2>3. caller' = [caller EXCEPT ![c] = new]
    BY <1>3
  <2> HIDE DEF new
  <2> QED
    BY <1>1, <2>1, <2>2, <2>3, WaiterKeeps
<1>4. CASE caller' = [caller EXCEPT ![c].pc = "over", ![c].ok = TRUE]
  <2> DEFINE new == [caller[c] EXCEPT !.pc = "over", !.ok = TRUE]
  <2>1. new \in CallRecords
    BY <1>1, Fields DEF CallRecords
  <2>2. new.pc = "over" /\ new.late = caller[c].late
    BY <1>1, Fields DEF CallRecords
  <2>3. caller' = [caller EXCEPT ![c] = new]
    BY <1>4
  <2> HIDE DEF new
  <2> QED
    BY <1>1, <2>1, <2>2, <2>3, WaiterKeeps
<1> QED
  BY <1>2, <1>3, <1>4 DEF Answered

LEMMA TakeSlotKeeps ==
    ASSUME IInv, NEW c \in Callers, TakeSlot(c)
    PROVE  IInv'
<1>1. /\ TypeOK /\ old \subseteq Agents /\ cache \subseteq Agents
      /\ sem \in [Agents -> 0..Concurrency] /\ used \in [Agents -> 0..PerMinute]
      /\ caller[c].leg \in Agents /\ caller[c].pc = "slot"
  BY Fields DEF IInv, TypeOK, TakeSlot, At
<1>2. PICK new \in CallRecords :
         /\ caller' = [caller EXCEPT ![c] = new]
         /\ new.pc = "window" /\ new.leg = caller[c].leg /\ new.late = caller[c].late
  BY <1>1, GoesType DEF TakeSlot
<1>3. /\ sem' \in [Agents -> Int]
      /\ \A a \in Agents : sem'[a] = sem[a] + Weight(new, a) - Weight(caller[c], a)
      /\ \A a \in Agents : sem'[a] <= Concurrency
  BY <1>1, <1>2 DEF TakeSlot, Weight, Holds
<1>4. caller[c].late <= 1 /\ caller[c].late = 0
  BY <1>1 DEF IInv, NoneAfter
<1> QED
  BY <1>1, <1>2, <1>3, <1>4, CallerKeeps DEF TakeSlot

LEMMA TakeTokenKeeps ==
    ASSUME IInv, NEW c \in Callers, TakeToken(c)
    PROVE  IInv'
<1> DEFINE late == IF c \in done /\ caller[c].late < 2 THEN caller[c].late + 1 ELSE caller[c].late
           new == [caller[c] EXCEPT !.pc = "request", !.late = late]
<1>1. /\ TypeOK /\ old \subseteq Agents /\ cache \subseteq Agents
      /\ sem \in [Agents -> 0..Concurrency] /\ used \in [Agents -> 0..PerMinute]
      /\ caller[c].leg \in Agents /\ caller[c].pc = "window"
      /\ caller[c] \in CallRecords
  BY Fields DEF IInv, TypeOK, TakeToken, At
<1>2. late \in 0..1 /\ (late # 0 => c \in done)
  BY <1>1 DEF IInv, NoneAfter
<1>3. caller' = [caller EXCEPT ![c] = new]
  BY DEF TakeToken
<1> HIDE DEF late
<1>4. /\ new \in CallRecords /\ new.pc = "request" /\ new.late = late
      /\ new.leg = caller[c].leg
  <2>1. late \in 0..2
    BY <1>2
  <2>2. new \in CallRecords
    BY <1>1, <2>1 DEF CallRecords
  <2> QED
    BY <1>1, <2>2 DEF CallRecords
<1> HIDE DEF new
<1>5. used' \in [Agents -> 0..PerMinute]
  <2>1. InWindow(caller[c].leg) + 1 \in 0..PerMinute
    BY <1>1 DEF TakeToken, InWindow
  <2> QED
    BY <1>1, <2>1 DEF TakeToken
<1>6. done' = done /\ sem' = sem /\ cache' = cache /\ old' \subseteq Agents
  BY <1>1 DEF TakeToken
<1>7. /\ sem' \in [Agents -> Int]
      /\ \A a \in Agents : sem'[a] = sem[a] + Weight(new, a) - Weight(caller[c], a)
      /\ \A a \in Agents : sem'[a] <= Concurrency
  BY <1>1, <1>4, <1>6 DEF Weight, Holds
<1>8. /\ new.late <= 1 /\ (new.late # 0 => c \in done)
      /\ new.pc \notin {"slot", "window", "backoff"}
  BY <1>2, <1>4
<1> QED
  BY <1>1, <1>3, <1>4, <1>5, <1>6, <1>7, <1>8, CallerKeeps

\* LeaveWindow, Answers, EngineFails: a slot is given back.
LEMMA LeaversKeep ==
    ASSUME IInv, NEW c \in Callers, LeaveWindow(c) \/ EngineEnds(c)
    PROVE  IInv'
<1>1. /\ TypeOK /\ done' = done /\ old' = old /\ used' = used /\ cache' \subseteq Agents
      /\ caller[c].pc \in {"window", "request"} /\ Release(c)
  BY Fields DEF IInv, TypeOK, LeaveWindow, EngineEnds, Answers, EngineFails, At
<1>2. CASE LegFails(c)
  BY <1>1, <1>2, LegFailsType, LeaverKeeps
<1>3. CASE Goes(c, "after")
  BY <1>1, <1>3, GoesType, LeaverKeeps
<1>4. CASE Goes(c, "backoff") /\ caller[c].attempt < MaxAttempts
  BY <1>1, <1>4, GoesType, LeaverKeeps
<1> QED
  BY <1>2, <1>3, <1>4 DEF LeaveWindow, EngineEnds, Answers, EngineFails

LEMMA WorldKeeps ==
    ASSUME IInv, (\E c \in Callers : Cancel(c)) \/ Minute \/ Expire \/ UNCHANGED vars
    PROVE  IInv'
<1>1. /\ caller' = caller /\ sem' = sem /\ used' = used
      /\ done \subseteq done' /\ done' \subseteq Callers
      /\ old' \subseteq Agents /\ cache' \subseteq Agents
  BY DEF IInv, TypeOK, Cancel, Minute, Expire, vars, Policies
<1>2. TypeOK'
  BY <1>1 DEF IInv, TypeOK
<1>3. SlotsHonest' /\ NoneAfter' /\ Retries'
  BY <1>1 DEF IInv, SlotsHonest, Holders, NoneAfter, Retries
<1> QED
  BY <1>2, <1>3 DEF IInv

LEMMA NextKeeps == IInv /\ [Next]_vars => IInv'
<1> SUFFICES ASSUME IInv, [Next]_vars PROVE IInv'
  OBVIOUS
<1>1. CASE \E c \in Callers : Call(c) \/ Moves(c) \/ TakeSlot(c) \/ EngineEnds(c)
  BY <1>1, WaitersKeep, AnsweredKeeps, TakeSlotKeeps, TakeTokenKeeps, LeaversKeep DEF Moves
<1>2. CASE (\E c \in Callers : Cancel(c)) \/ Minute \/ Expire \/ UNCHANGED vars
  BY <1>2, WorldKeeps
<1> QED
  BY <1>1, <1>2 DEF Next

-----------------------------------------------------------------------------
(* The theorems.                                                           *)

\* The inductive invariant of the specification.
THEOREM AgentInvariant == Spec => []IInv
BY InitInvariant, NextKeeps, PTL DEF Spec

\* Whatever the limits, no agent has more than Concurrency requests at once and no window
\* more than PerMinute, and attempts stay within max_attempts (Execute, Acquire).
THEOREM AgentTypeCorrect == Spec => []TypeOK
<1>1. IInv => TypeOK
  BY DEF IInv
<1> QED
  BY <1>1, AgentInvariant, PTL

\* Every way out of a leg gives back the slot it holds, and no other (Acquire, Release).
THEOREM SlotsAreHonest == Spec => []SlotsHonest
<1>1. IInv => SlotsHonest
  BY DEF IInv
<1> QED
  BY <1>1, AgentInvariant, PTL

\* However many fallbacks and attempts there are, a call whose context is done asks an
\* engine at most once more (Execute's look at the context).
THEOREM OneRequestLate == Spec => []OneLateRequest
<1>1. IInv => OneLateRequest
  BY DEF IInv, NoneAfter, OneLateRequest
<1> QED
  BY <1>1, AgentInvariant, PTL

-----------------------------------------------------------------------------
(* Calls go forward.                                                       *)

\* How far a call has come: the router's choice, the decider, the agent, its fallbacks,
\* the end; within an attempt, the order of runAgentAttempt and Execute.
Stage(rec) ==
    IF rec.pc \in {"away", "routing"} THEN 0
    ELSE IF rec.pc = "over" THEN Fallbacks + 3
    ELSE IF rec.leg = Decider THEN 1
    ELSE rec.leg + 2

Rank(rec) ==
    CASE rec.pc \in {"away", "asked"} -> 0
      [] rec.pc \in {"routing", "lookup"} -> 1
      [] rec.pc = "attempt" -> 2
      [] rec.pc = "slot" -> 3
      [] rec.pc = "window" -> 4
      [] rec.pc = "request" -> 5
      [] OTHER -> 6

Further(new, rec) ==
    \/ Stage(new) > Stage(rec)
    \/ Stage(new) = Stage(rec) /\ new.attempt > rec.attempt
    \/ Stage(new) = Stage(rec) /\ new.attempt = rec.attempt /\ Rank(new) > Rank(rec)

Forward(c) == caller'[c] = caller[c] \/ Further(caller'[c], caller[c])

\* Where a call stands differs by a later point of the same attempt.
LEMMA WithinAttempt ==
    ASSUME TypeOK, NEW c \in Callers, NEW new,
           caller'[c] = new, new.leg = caller[c].leg, new.attempt = caller[c].attempt,
           \/ caller[c].pc = "away" /\ new.pc \in {"routing", "asked"}
           \/ caller[c].pc = "asked" /\ new.pc = "lookup"
           \/ caller[c].pc = "lookup" /\ new.pc \in {"attempt", "after"}
           \/ caller[c].pc = "attempt" /\ new.pc = "slot"
           \/ caller[c].pc = "slot" /\ new.pc = "window"
           \/ caller[c].pc = "window" /\ new.pc = "request"
           \/ caller[c].pc = "request" /\ new.pc \in {"backoff", "after"}
    PROVE  Forward(c)
<1>1. Fallbacks \in Nat /\ caller[c].leg \in 0..(Fallbacks + 1) /\ caller[c].attempt \in Nat
  BY Fields, Constants DEF Agents, Chain, Decider
<1>2. Stage(new) > Stage(caller[c]) \/ Stage(new) = Stage(caller[c])
  BY <1>1 DEF Stage
<1>3. Stage(new) = Stage(caller[c]) => Rank(new) > Rank(caller[c])
  BY <1>1 DEF Rank, Stage
<1> QED
  BY <1>2, <1>3 DEF Forward, Further

LEMMA EndIsLast ==
    ASSUME TypeOK, NEW c \in Callers, caller[c].pc # "over", caller'[c].pc = "over"
    PROVE  Forward(c)
<1>1. Fallbacks \in Nat /\ caller[c].leg \in 0..(Fallbacks + 1)
  BY Fields, Constants DEF Agents, Chain, Decider
<1>2. Stage(caller[c]) < Fallbacks + 3 /\ Stage(caller'[c]) = Fallbacks + 3
  BY <1>1 DEF Stage, Decider
<1> QED
  BY <1>2 DEF Forward, Further

\* A leg that has failed is not tried again.
LEMMA FailedLegIsLeft ==
    ASSUME TypeOK, NEW c \in Callers, caller[c].pc # "over", LegFails(c)
    PROVE  Forward(c)
<1>1. /\ Fallbacks \in Nat /\ caller[c].leg \in 0..(Fallbacks + 1) /\ caller[c] \in CallRecords
      /\ caller \in [Callers -> CallRecords]
  BY Fields, Constants DEF Agents, Chain, Decider
<1>2. CASE Fails(c)
  BY <1>1, <1>2, EndIsLast DEF Fails, CallRecords
<1>3. CASE /\ caller[c].leg \in 0..(Fallbacks - 1)
           /\ caller' = [caller EXCEPT ![c].pc = "lookup", ![c].leg = @ + 1, ![c].attempt = 1]
  <2>1. caller'[c].pc = "lookup" /\ caller'[c].leg = caller[c].leg + 1
    BY <1>1, <1>3 DEF CallRecords
  <2>2. Stage(caller'[c]) = caller[c].leg + 3 /\ Stage(caller[c]) < caller[c].leg + 3
    BY <1>1, <1>3, <2>1 DEF Stage, Decider
  <2> QED
    BY <2>2 DEF Forward, Further
<1> QED
  BY <1>2, <1>3 DEF LegFails

LEMMA StepForward ==
    ASSUME TypeOK, NEW c \in Callers, Call(c) \/ Moves(c) \/ TakeSlot(c) \/ EngineEnds(c)
    PROVE  Forward(c) /\ \A d \in Callers \ {c} : caller'[d] = caller[d]
<1>1. /\ caller[c] \in CallRecords /\ caller \in [Callers -> CallRecords]
      /\ Fallbacks \in Nat /\ caller[c].leg \in 0..(Fallbacks + 1)
      /\ caller[c].attempt \in Nat
  BY Fields, Constants DEF Agents, Chain, Decider
<1>2. ASSUME NEW pc, Goes(c, pc)
      PROVE  /\ caller'[c].pc = pc /\ caller'[c].leg = caller[c].leg
             /\ caller'[c].attempt = caller[c].attempt
             /\ \A d \in Callers \ {c} : caller'[d] = caller[d]
  BY <1>1, <1>2 DEF Goes, CallRecords
<1>3. ASSUME Fails(c)
      PROVE  caller'[c].pc = "over" /\ \A d \in Callers \ {c} : caller'[d] = caller[d]
  BY <1>1, <1>3 DEF Fails, CallRecords
<1>4. ASSUME LegFails(c)
      PROVE  \A d \in Callers \ {c} : caller'[d] = caller[d]
  BY <1>1, <1>3, <1>4 DEF LegFails
<1>5. CASE Call(c) \/ LookUp(c)
  BY <1>2, <1>5, WithinAttempt DEF Call, LookUp, At
<1>6. CASE Route(c)
  <2>1. ASSUME Goes(c, "asked")
        PROVE  Forward(c)
    <3>1. Stage(caller[c]) = 0 /\ Stage(caller'[c]) > 0
      BY <1>1, <1>2, <1>6, <2>1 DEF Route, At, Stage
    <3> QED
      BY <3>1 DEF Forward, Further
  <2>2. ASSUME caller' = [caller EXCEPT ![c].pc = "lookup", ![c].leg = Decider]
        PROVE  Forward(c) /\ \A d \in Callers \ {c} : caller'[d] = caller[d]
    <3>1. caller'[c].pc = "lookup" /\ caller'[c].leg = Decider
      BY <1>1, <2>2 DEF CallRecords
    <3>2. Stage(caller[c]) = 0 /\ Stage(caller'[c]) = 1
      BY <1>6, <3>1 DEF Route, At, Stage
    <3> QED
      BY <1>1, <2>2, <3>2 DEF Forward, Further
  <2> QED
    BY <1>2, <1>3, <1>6, <2>1, <2>2, EndIsLast DEF Route, At
<1>7. CASE Prepare(c)
  BY <1>2, <1>3, <1>7, WithinAttempt, EndIsLast DEF Prepare, At
<1>8. CASE Answered(c)
  <2>1. CASE /\ caller[c].leg = Decider
             /\ caller' = [caller EXCEPT ![c].pc = "asked", ![c].leg = 0, ![c].attempt = 1]
    <3>1. caller'[c].pc = "asked" /\ caller'[c].leg = 0
      BY <1>1, <2>1 DEF CallRecords
    <3>2. Stage(caller[c]) = 1 /\ Stage(caller'[c]) = 2
      BY <1>1, <1>8, <2>1, <3>1, Constants DEF Answered, At, Stage
    <3> QED
      BY <1>1, <2>1, <3>2 DEF Forward, Further
  <2>2. CASE caller' = [caller EXCEPT ![c].pc = "over", ![c].ok = TRUE]
    <3>1. caller'[c].pc = "over"
      BY <1>1, <2>2 DEF CallRecords
    <3> QED
      BY <1>1, <1>8, <2>2, <3>1, EndIsLast DEF Answered, At
  <2>3. CASE Fails(c)
    BY <1>3, <1>8, <2>3, EndIsLast DEF Answered, At
  <2> QED
    BY <1>8, <2>1, <2>2, <2>3 DEF Answered
<1>9. CASE Misconfigured(c) \/ LeaveSlot(c) \/ LeaveWindow(c)
  BY <1>4, <1>9, FailedLegIsLeft DEF Misconfigured, LeaveSlot, LeaveWindow, At
<1>10. CASE Try(c)
  BY <1>2, <1>4, <1>10, WithinAttempt, FailedLegIsLeft DEF Try, At
<1>11. CASE TakeSlot(c)
  BY <1>2, <1>11, WithinAttempt DEF TakeSlot, At
<1>12. CASE TakeToken(c)
  <2>1. /\ caller'[c].pc = "request" /\ caller'[c].leg = caller[c].leg
        /\ caller'[c].attempt = caller[c].attempt
        /\ \A d \in Callers \ {c} : caller'[d] = caller[d]
    BY <1>1, <1>12 DEF TakeToken, CallRecords
  <2> QED
    BY <1>12, <2>1, WithinAttempt DEF TakeToken, At
<1>13. CASE EngineEnds(c)
  BY <1>2, <1>4, <1>13, WithinAttempt, FailedLegIsLeft DEF EngineEnds, Answers, EngineFails, At
<1>14. CASE BackOff(c)
  <2>1. CASE caller' = [caller EXCEPT ![c].pc = "attempt", ![c].attempt = @ + 1]
    <3>1. /\ caller'[c].pc = "attempt" /\ caller'[c].leg = caller[c].leg
          /\ caller'[c].attempt = caller[c].attempt + 1
      BY <1>1, <2>1 DEF CallRecords
    <3>2. Stage(caller'[c]) = Stage(caller[c])
      BY <1>14, <3>1 DEF BackOff, At, Stage
    <3> QED
      BY <1>1, <2>1, <3>1, <3>2 DEF Forward, Further
  <2>2. CASE LegFails(c)
    BY <1>4, <1>14, <2>2, FailedLegIsLeft DEF BackOff, At
  <2> QED
    BY <1>14, <2>1, <2>2 DEF BackOff
<1> QED
  BY <1>5, <1>6, <1>7, <1>8, <1>9, <1>10, <1>11, <1>12, <1>13, <1>14 DEF Moves

CallsForward == [][\A c \in Callers : Forward(c)]_vars

\* Whatever fails, is retried or falls back, a call never comes to a point of its
\* delegation it has left: each step of it is a later point of its attempt, a later attempt
\* of its leg or a later leg (runAgent's fallback chain, Execute's retry loop).  Legs,
\* attempts and points are finite, so a call that goes on ends.
THEOREM NoCallGoesBack == Spec => CallsForward
<1>1. ASSUME IInv, [Next]_vars
      PROVE  [\A c \in Callers : Forward(c)]_vars
  <2> SUFFICES ASSUME NEW c \in Callers, Next
               PROVE  Forward(c)
    BY <1>1
  <2>0. TypeOK
    BY <1>1 DEF IInv
  <2>1. CASE \E d \in Callers : Call(d) \/ Moves(d) \/ TakeSlot(d) \/ EngineEnds(d)
    BY <2>0, <2>1, StepForward DEF Forward
  <2>2. CASE Minute \/ Expire \/ \E d \in Callers : Cancel(d)
    BY <2>2 DEF Minute, Expire, Cancel, Forward
  <2> QED
    BY <2>1, <2>2 DEF Next
<1> QED
  BY <1>1, AgentInvariant, PTL DEF Spec, CallsForward

HIDE AgentAssumption

-----------------------------------------------------------------------------
(* The inductive invariant of StepBody, first of the text and its walks.   *)

Begins(s) == s.do \in {"if", "else", "while", "for", "try", "catch", "finally"}

\* The open blocks begin one inside the other; a mark ends one block, begun before it;
\* every block that is not open is ended; and blocks nest.
Marked ==
    /\ \A i \in DOMAIN open : open[i] \in DOMAIN body /\ Begins(body[open[i]])
    /\ \A i, j \in DOMAIN open : i < j => open[i] < open[j]
    /\ \A m \in DOMAIN body :
          IsMark(body[m]) =>
             /\ body[m].of \in 1..(m - 1) /\ Begins(body[body[m].of])
             /\ body[m].do = Closing(body[body[m].of].do)
             /\ \A i \in DOMAIN open : open[i] <= body[m].of \/ m <= open[i]
             /\ \A c \in DOMAIN body :
                   IsMark(body[c]) /\ body[m].of < body[c].of /\ body[c].of < m => c < m
    /\ \A b \in DOMAIN body :
          Begins(body[b]) => \/ \E i \in DOMAIN open : open[i] = b
                             \/ \E m \in DOMAIN body : IsMark(body[m]) /\ body[m].of = b

\* What a walk has found only grows: constants are not forgotten, a finding stays, and
\* a type changes to unknown at most.
Widens(before, after) ==
    /\ before.consts \subseteq after.consts
    /\ after.clean => before.clean
    /\ \A n \in Names :
          before.known[n] # Undeclared => after.known[n] \in {Unknown, before.known[n]}

Assigned(n) ==
    \/ n \in Inputs \cup PipeVars
    \/ \E j \in DOMAIN body : body[j].do \in {"var", "const", "assign"} /\ body[j].name = n

Walked ==
    /\ Len(walk) = Len(body) + 1
    /\ walk[1] = [consts |-> Inputs, clean |-> TRUE, known |-> Given, diverts |-> FALSE]
    /\ \A k \in DOMAIN body : walk[k + 1] = Look(walk[k], body[k])
    /\ \A k, l \in DOMAIN walk : k <= l => Widens(walk[k], walk[l])
    /\ \A k \in DOMAIN walk : \A n \in Names :
          walk[k].known[n] \notin {Undeclared, Unknown} => Assigned(n)

\* Nothing has happened while the body is written.
Fresh ==
    line = 0 =>
       /\ sig = "next" /\ frames = <<>> /\ outcome = "none"
       /\ env = [n \in Names |-> Undeclared] /\ pipe = Given /\ consts = Inputs
       /\ had = {} /\ again = FALSE /\ raised = {} /\ overridden = FALSE

\* The frames are those of loops and sections one inside the other, the statement to
\* run is in all of them, and only a finally has something pending.
Framed ==
    line > 0 =>
       /\ open = <<>> /\ line \in DOMAIN walk
       /\ \A i \in DOMAIN frames :
             /\ frames[i].at \in DOMAIN body
             /\ body[frames[i].at].do \in {"while", "for", "try", "catch", "finally"}
             /\ frames[i].pending # "next" => body[frames[i].at].do = "finally"
             /\ frames[i].at < line /\ line <= Closer(frames[i].at)
       /\ \A i, j \in DOMAIN frames : i < j => frames[i].at < frames[j].at

\* A list whose end is reached does not always divert.
Falls == line > 0 /\ sig = "next" => ~walk[line].diverts

\* A signal raised is under way, or pending behind a finally, or was overridden.
Carried ==
    raised # {} =>
       overridden \/ sig \in Signals \/ \E i \in DOMAIN frames : frames[i].pending \in Signals

\* A stop at a constant, under way or pending, was foretold.
Blamed ==
    ~again /\ (sig = "constant" \/ \E i \in DOMAIN frames : frames[i].pending = "constant")
    => ~Last(walk).clean

Returned ==
    outcome # "none" =>
       /\ frames = <<>>
       /\ sig # "next" \/ line = Len(body) + 1
       /\ outcome = IF sig = "return" THEN "next" ELSE sig

\* What is bound when statement k is reached is what the walk knows there.
Fits(known) ==
    /\ \A n \in Names : env[n] \in Types => known[n] \in {Unknown, env[n]}
    /\ \A n \in Names : pipe[n] \in Types => known[n] \in {Unknown, pipe[n]}
    /\ \A p \in had : known[p[1]] \in {Unknown, p[2]}

KnownAt(k) == consts \subseteq walk[k].consts /\ (~Rebinds => Fits(walk[k].known))

Known == line > 0 /\ ~again => KnownAt(line)

Text == Marked /\ Walked
Control == Fresh /\ Framed /\ Falls /\ Carried /\ Blamed /\ Returned
BodyInv == BodyTypeOK /\ Text /\ Control /\ Known

-----------------------------------------------------------------------------
(* Sequences, statements, blocks.                                          *)

LEMMA FrontOf ==
    ASSUME NEW S, NEW s \in Seq(S), s # <<>>
    PROVE  /\ Front(s) \in Seq(S) /\ Len(s) \in Nat \ {0} /\ Len(Front(s)) = Len(s) - 1
           /\ \A i \in 1..(Len(s) - 1) : Front(s)[i] = s[i]
           /\ Last(s) = s[Len(s)] /\ Last(s) \in S
<1>1. Len(s) \in Nat /\ Len(s) >= 1 /\ \A i \in 1..Len(s) : s[i] \in S
  BY EmptySeq
<1> DEFINE n == Len(s) - 1
<1>2. n \in Nat /\ n \in Int /\ 1 \in Int /\ Len(s) = n + 1 /\ \A i \in 1..n : s[i] \in S
  BY <1>1
<1> HIDE DEF n
<1>3. /\ SubSeq(s, 1, n) \in Seq(S)
      /\ Len(SubSeq(s, 1, n)) = IF 1 <= n THEN n - 1 + 1 ELSE 0
      /\ \A i \in 1..(n - 1 + 1) : SubSeq(s, 1, n)[i] = s[1 + i - 1]
  <2>1. n \in Int /\ 1 \in Int /\ \A i \in 1..n : s[i] \in S
    BY <1>2
  <2>2. QED
    BY <2>1, SubSeqProperties
<1>4. Len(SubSeq(s, 1, n)) = n /\ \A i \in 1..n : SubSeq(s, 1, n)[i] = s[i]
  BY <1>2, <1>3
<1>5. Front(s) = SubSeq(s, 1, n)
  BY DEF Front, n
<1>6. /\ Front(s) \in Seq(S) /\ Len(s) \in Nat \ {0} /\ Len(Front(s)) = Len(s) - 1
      /\ \A i \in 1..(Len(s) - 1) : Front(s)[i] = s[i]
  BY <1>2, <1>3, <1>4, <1>5
<1>7. QED
  BY <1>1, <1>6 DEF Last

LEMMA NewTop ==
    ASSUME NEW S, NEW s \in Seq(S), s # <<>>, NEW e \in S
    PROVE  /\ Append(Front(s), e) \in Seq(S) /\ Len(Append(Front(s), e)) = Len(s)
           /\ DOMAIN Append(Front(s), e) = 1..Len(s)
           /\ \A i \in 1..(Len(s) - 1) : Append(Front(s), e)[i] = s[i]
           /\ Append(Front(s), e)[Len(s)] = e
<1> DEFINE n == Len(s) - 1
           f == Front(s)
<1>1. n \in Nat /\ Len(s) = n + 1 /\ f \in Seq(S) /\ Len(f) = n /\ \A i \in 1..n : f[i] = s[i]
  BY FrontOf
<1> HIDE DEF n, f
<1>2. /\ Append(f, e) \in Seq(S) /\ Len(Append(f, e)) = n + 1 /\ DOMAIN Append(f, e) = 1..(n + 1)
      /\ \A i \in 1..n : Append(f, e)[i] = f[i]
      /\ Append(f, e)[n + 1] = e
  BY <1>1
<1>3. Len(s) - 1 = n /\ Len(s) = n + 1
  BY <1>1
<1>4. \A i \in 1..(Len(s) - 1) : Append(f, e)[i] = s[i]
  BY <1>1, <1>2, <1>3
<1>5. /\ Append(f, e) \in Seq(S) /\ Len(Append(f, e)) = Len(s)
      /\ DOMAIN Append(f, e) = 1..Len(s) /\ Append(f, e)[Len(s)] = e
  BY <1>2, <1>3
<1>6. QED
  BY <1>4, <1>5 DEF f

LEMMA StatementFields ==
    ASSUME NEW s \in Statements
    PROVE  /\ s.do \in {"const", "var", "assign", "self"} => s.name \in Names /\ s.expr \in Exprs
           /\ s.do \in {"for", "catch"} => s.name \in Names
           /\ IsMark(s) => s.of \in Nat
           /\ s.do \in {"const", "var", "assign", "self", "return", "goto", "fail", "if", "while",
                        "for", "try", "else", "catch", "finally", "fi", "done", "end"}
<1>1. CASE s \in [do : {"const", "var", "assign", "self"}, name : Names, expr : Exprs]
  BY <1>1 DEF IsMark, Ends
<1>2. CASE s \in [do : {"return", "goto", "fail"}]
  BY <1>2 DEF IsMark, Ends
<1>3. CASE s \in [do : {"if", "while", "try"}]
  BY <1>3 DEF IsMark, Ends
<1>4. CASE s \in [do : {"for"}, name : Names]
  BY <1>4 DEF IsMark, Ends
<1>5. CASE s \in [do : {"else", "finally"} \cup Ends, of : Nat]
  BY <1>5 DEF IsMark, Ends
<1>6. CASE s \in [do : {"catch"}, of : Nat, name : Names]
  BY <1>6 DEF IsMark, Ends
<1>7. QED
  BY <1>1, <1>2, <1>3, <1>4, <1>5, <1>6 DEF Statements, Plain, Openers

LEMMA Texts ==
    ASSUME BodyTypeOK
    PROVE  /\ body \in Seq(Statements) /\ open \in Seq(Nat) /\ walk \in Seq(Views)
           /\ DOMAIN body = 1..Len(body) /\ DOMAIN walk = 1..Len(walk)
           /\ Len(body) \in Nat /\ Len(walk) \in Nat
           /\ \A k \in DOMAIN body : body[k] \in Statements
           /\ \A k \in DOMAIN walk : walk[k] \in Views
BY DEF BodyTypeOK

\* Where a block of a body that has been written ends.
LEMMA CloserEnds ==
    ASSUME BodyTypeOK, Marked, open = <<>>, NEW b \in DOMAIN body, Begins(body[b])
    PROVE  /\ Closer(b) \in DOMAIN body /\ IsMark(body[Closer(b)]) /\ body[Closer(b)].of = b
           /\ b < Closer(b) /\ body[Closer(b)].do = Closing(body[b].do)
<1>1. \E m \in DOMAIN body : IsMark(body[m]) /\ body[m].of = b
  BY DEF Marked
<1>2. Closer(b) \in DOMAIN body /\ IsMark(body[Closer(b)]) /\ body[Closer(b)].of = b
  BY <1>1 DEF Closer
<1>3. body[Closer(b)].of \in 1..(Closer(b) - 1) /\ body[Closer(b)].do = Closing(body[b].do)
  BY <1>2 DEF Marked
<1>4. QED
  BY <1>2, <1>3, Texts

LEMMA BlocksNest ==
    ASSUME BodyTypeOK, Marked, open = <<>>,
           NEW b \in DOMAIN body, Begins(body[b]), NEW c \in DOMAIN body, Begins(body[c]),
           b < c, c < Closer(b)
    PROVE  Closer(c) < Closer(b)
<1>1. /\ Closer(b) \in DOMAIN body /\ IsMark(body[Closer(b)]) /\ body[Closer(b)].of = b
      /\ Closer(c) \in DOMAIN body /\ IsMark(body[Closer(c)]) /\ body[Closer(c)].of = c
  BY CloserEnds
<1>2. QED
  BY <1>1 DEF Marked

-----------------------------------------------------------------------------
(* The walks of lint.                                                      *)

LEMMA TypeMerges ==
    ASSUME NEW known \in [Names -> Types \cup {Unknown, Undeclared}], NEW s \in Statements
    PROVE  LET later == CollectVarNames(known, s)
           IN  /\ later \in [Names -> Types \cup {Unknown, Undeclared}]
               /\ \A n \in Names : known[n] # Undeclared => later[n] \in {Unknown, known[n]}
               /\ \A n \in Names :
                     later[n] \notin {Unknown, Undeclared} =>
                        \/ later[n] = known[n]
                        \/ s.do \in {"var", "const", "assign"} /\ s.name = n
<1> DEFINE later == CollectVarNames(known, s)
<1>1. CASE s.do \in {"var", "const"} \/ (s.do = "assign" /\ known[s.name] # Undeclared)
  <2>1. later = MergeVarType(known, s.name, s.expr)
    BY <1>1 DEF CollectVarNames
  <2>2. s.name \in Names /\ s.expr \in Exprs
    BY <1>1, StatementFields
  <2>3. Infer(known, s.expr) \in Types \cup {Unknown}
    BY <2>2 DEF Infer, Exprs, Names, Types, Unknown, Undeclared
  <2>4. QED
    BY <1>1, <2>1, <2>2, <2>3 DEF MergeVarType
<1>2. CASE s.do \in {"for", "catch"}
  <2>1. later = Declare(known, s.name)
    BY <1>2 DEF CollectVarNames
  <2>2. s.name \in Names
    BY <1>2, StatementFields
  <2>3. QED
    BY <1>2, <2>1, <2>2 DEF Declare, Unknown, Undeclared
<1>3. CASE ~(\/ s.do \in {"var", "const"} \/ (s.do = "assign" /\ known[s.name] # Undeclared)
             \/ s.do \in {"for", "catch"})
  BY <1>3 DEF CollectVarNames
<1>4. QED
  BY <1>1, <1>2, <1>3

LEMMA LookWidens ==
    ASSUME NEW before \in Views, NEW s \in Statements
    PROVE  /\ Look(before, s) \in Views
           /\ Widens(before, Look(before, s))
           /\ \A n \in Names :
                 Look(before, s).known[n] \notin {Unknown, Undeclared} =>
                    \/ Look(before, s).known[n] = before.known[n]
                    \/ s.do \in {"var", "const", "assign"} /\ s.name = n
<1> DEFINE after == Look(before, s)
<1>1. /\ before.consts \in SUBSET Names /\ before.clean \in BOOLEAN
      /\ before.known \in [Names -> Types \cup {Unknown, Undeclared}]
  BY DEF Views
<1>2. /\ after.consts = WalkConsts(before.consts, s)
      /\ after.clean = (before.clean /\ ~Reassigns(before.consts, s))
      /\ after.known = CollectVarNames(before.known, s)
      /\ after.diverts = AlwaysDiverts(s, before)
  BY DEF Look
<1>3. after.consts \in SUBSET Names /\ before.consts \subseteq after.consts
  BY <1>1, <1>2, StatementFields DEF WalkConsts
<1>4. after.clean \in BOOLEAN /\ (after.clean => before.clean)
  BY <1>1, <1>2
<1>5. after.diverts \in BOOLEAN
  BY <1>2 DEF AlwaysDiverts
<1>6. after.known \in [Names -> Types \cup {Unknown, Undeclared}]
  BY <1>1, <1>2, TypeMerges
<1>7. after \in Views
  BY <1>3, <1>4, <1>5, <1>6 DEF Look, Views
<1>8. Widens(before, after)
  BY <1>1, <1>2, <1>3, <1>4, TypeMerges DEF Widens
<1>9. QED
  BY <1>1, <1>2, <1>7, <1>8, TypeMerges

LEMMA WidensAgain ==
    ASSUME NEW u \in Views, NEW v \in Views, NEW w \in Views, Widens(u, v), Widens(v, w)
    PROVE  Widens(u, w)
<1>1. /\ u.known \in [Names -> Types \cup {Unknown, Undeclared}]
      /\ v.known \in [Names -> Types \cup {Unknown, Undeclared}]
      /\ w.known \in [Names -> Types \cup {Unknown, Undeclared}]
  BY DEF Views
<1>2. QED
  BY <1>1 DEF Widens, Unknown, Undeclared

-----------------------------------------------------------------------------
(* Writing keeps the text in order.                                        *)

LEMMA WriteAppends ==
    ASSUME BodyTypeOK, Walked, NEW s \in Statements, Write(s)
    PROVE  /\ body' \in Seq(Statements) /\ Len(body') = Len(body) + 1
           /\ DOMAIN body' = 1..(Len(body) + 1)
           /\ \A k \in DOMAIN body : body'[k] = body[k]
           /\ body'[Len(body) + 1] = s
           /\ walk' \in Seq(Views) /\ Len(walk') = Len(walk) + 1
           /\ DOMAIN walk' = 1..(Len(walk) + 1)
           /\ \A k \in DOMAIN walk : walk'[k] = walk[k]
           /\ walk'[Len(walk) + 1] = Look(walk[Len(walk)], s)
           /\ walk[Len(walk)] \in Views
<1>1. Len(walk) \in 1..Len(walk) /\ walk[Len(walk)] \in Views
  BY Texts DEF Walked
<1>2. Last(walk) = walk[Len(walk)]
  BY DEF Last
<1>3. Look(walk[Len(walk)], s) \in Views
  BY <1>1, LookWidens
<1>4. body' = Append(body, s) /\ walk' = Append(walk, Look(walk[Len(walk)], s))
  BY <1>2 DEF Write
<1>5. /\ body' \in Seq(Statements) /\ Len(body') = Len(body) + 1
      /\ DOMAIN body' = 1..(Len(body) + 1)
      /\ \A k \in DOMAIN body : body'[k] = body[k]
      /\ body'[Len(body) + 1] = s
  BY <1>4, Texts
<1>6. /\ walk' \in Seq(Views) /\ Len(walk') = Len(walk) + 1
      /\ DOMAIN walk' = 1..(Len(walk) + 1)
      /\ \A k \in DOMAIN walk : walk'[k] = walk[k]
      /\ walk'[Len(walk) + 1] = Look(walk[Len(walk)], s)
  BY <1>3, <1>4, Texts
<1>7. QED
  BY <1>1, <1>5, <1>6

LEMMA WriteWalks ==
    ASSUME BodyTypeOK, Marked, Walked, NEW s \in Statements, Write(s),
           s.do = "fi" => s.of \in DOMAIN body
    PROVE  Walked'
<1> DEFINE new == Len(body) + 1
<1>1. /\ DOMAIN body = 1..Len(body) /\ Len(body) \in Nat
      /\ Len(body') = new /\ DOMAIN body' = 1..new
      /\ \A k \in DOMAIN body : body'[k] = body[k]
      /\ body'[new] = s
  BY WriteAppends, Texts
<1>2. /\ DOMAIN walk = 1..new /\ Len(walk) = new /\ new \in DOMAIN walk
      /\ Len(walk') = Len(body') + 1 /\ DOMAIN walk' = 1..(new + 1)
      /\ \A k \in DOMAIN walk : walk'[k] = walk[k] /\ walk[k] \in Views
      /\ walk'[new + 1] = Look(walk[new], s)
  BY WriteAppends, Texts DEF Walked
<1>3. walk'[1] = [consts |-> Inputs, clean |-> TRUE, known |-> Given, diverts |-> FALSE]
  <2>1. 1 \in DOMAIN walk
    BY <1>1, <1>2
  <2>2. walk'[1] = walk[1]
    BY <1>2, <2>1
  <2>3. QED
    BY <2>2 DEF Walked
<1> USE <1>1, <1>2
<1>4. ASSUME NEW k \in DOMAIN body'
      PROVE  (walk[k + 1] = Look(walk[k], body[k]))'
  <2>1. CASE k \in DOMAIN body
    <3>0. k \in DOMAIN walk /\ k + 1 \in DOMAIN walk
      BY <2>1
    <3>1. walk[k + 1] = Look(walk[k], body[k])
      BY <2>1 DEF Walked
    <3>2. walk'[k + 1] = Look(walk[k], body[k]) /\ walk'[k] = walk[k] /\ body'[k] = body[k]
      BY <2>1, <3>0, <3>1
    <3>3. body[k].do = "fi" => walk'[body[k].of] = walk[body[k].of]
      BY <1>2, <2>1, Texts DEF Marked, IsMark, Ends
    <3>4. QED
      BY <3>2, <3>3 DEF Look, AlwaysDiverts
  <2>2. CASE k = new
    <3>1. walk'[k + 1] = Look(walk[k], s) /\ walk'[k] = walk[k] /\ body'[k] = s
      BY <1>2, <2>2, Texts
    <3>2. s.do = "fi" => walk'[s.of] = walk[s.of]
      BY <1>2, Texts
    <3>3. QED
      BY <3>1, <3>2 DEF Look, AlwaysDiverts
  <2>3. QED
    BY <1>4, <2>1, <2>2, Texts
<1>5. ASSUME NEW k \in DOMAIN walk', NEW l \in DOMAIN walk', k <= l
      PROVE  Widens(walk'[k], walk'[l])
  <2>1. CASE l \in DOMAIN walk
    <3>1. k \in DOMAIN walk /\ walk'[k] = walk[k] /\ walk'[l] = walk[l]
      BY <1>5, <2>1
    <3>2. Widens(walk[k], walk[l])
      BY <1>5, <2>1, <3>1 DEF Walked
    <3>3. QED
      BY <3>1, <3>2
  <2>2. CASE l = new + 1 /\ k \in DOMAIN walk
    <3>1. Widens(walk[k], walk[new])
      <4>1. k <= new
        BY <2>2
      <4>2. QED
        BY <2>2, <4>1 DEF Walked
    <3>2. walk'[l] = Look(walk[new], s) /\ walk'[k] = walk[k]
      BY <1>2, <2>2
    <3>3. walk[k] \in Views /\ walk[new] \in Views
      BY <1>2, <2>2, Texts
    <3>4. QED
      BY <3>1, <3>2, <3>3, LookWidens, WidensAgain
  <2>3. CASE k = new + 1 /\ l = new + 1
    BY <2>3 DEF Widens
  <2>4. QED
    BY <1>2, <1>5, <2>1, <2>2, <2>3, Texts
<1>6. ASSUME NEW k \in DOMAIN walk', NEW n \in Names,
             walk'[k].known[n] \notin {Undeclared, Unknown}
      PROVE  Assigned(n)'
  <2>1. Assigned(n) => Assigned(n)'
    BY Texts DEF Assigned
  <2>2. CASE k \in DOMAIN walk
    BY <1>6, <2>1, <2>2 DEF Walked
  <2>3. CASE k = new + 1
    <3>1. walk'[k] = Look(walk[new], s) /\ walk[new] \in Views
      BY <1>2, <2>3
    <3>2. CASE walk'[k].known[n] = walk[new].known[n]
      BY <1>2, <1>6, <2>1, <3>2 DEF Walked
    <3>3. CASE s.do \in {"var", "const", "assign"} /\ s.name = n
      BY <3>3, Texts DEF Assigned
    <3>4. QED
      BY <1>6, <3>1, <3>2, <3>3, LookWidens
  <2>4. QED
    BY <1>2, <1>6, <2>2, <2>3, Texts
<1>7. QED
  BY <1>2, <1>3, <1>4, <1>5, <1>6 DEF Walked

LEMMA PlainStatements ==
    ASSUME NEW s \in Plain \cup Openers
    PROVE  /\ s \in Statements /\ ~IsMark(s) /\ s.do # "fi"
           /\ s \in Plain => ~Begins(s)
           /\ s \in Openers => Begins(s)
<1>1. s \in Statements
  BY DEF Statements
<1>2. CASE s \in Plain
  BY <1>1, <1>2 DEF Plain, Begins, IsMark, Ends, Openers
<1>3. CASE s \in Openers
  BY <1>1, <1>3 DEF Openers, Begins, IsMark, Ends, Plain
<1>4. QED
  BY <1>1, <1>2, <1>3

LEMMA MarkStatements ==
    ASSUME BodyTypeOK, Marked, open # <<>>, NEW s \in Marks(Last(open))
    PROVE  /\ s \in Statements /\ IsMark(s) /\ s.of = Last(open)
           /\ Last(open) = open[Len(open)] /\ Len(open) \in DOMAIN open
           /\ Last(open) \in DOMAIN body /\ Begins(body[Last(open)])
           /\ s.do = Closing(body[Last(open)].do)
           /\ s.do \in Ends <=> ~Begins(s)
<1> DEFINE b == Last(open)
<1>1. /\ b = open[Len(open)] /\ Len(open) \in DOMAIN open
  <2>1. Len(open) \in Nat \ {0} /\ DOMAIN open = 1..Len(open)
    BY FrontOf, Texts
  <2>2. QED
    BY <2>1 DEF Last
<1>2. b \in DOMAIN body /\ Begins(body[b])
  BY <1>1 DEF Marked
<1>3. b \in Nat
  BY <1>2, Texts
<1> HIDE DEF b
<1>4. CASE body[b].do = "try"
  <2>1. s \in [do : {"catch"}, of : {b}, name : Names]
    BY <1>4 DEF Marks, b
  <2>2. s \in [do : {"catch"}, of : Nat, name : Names]
    BY <1>3, <2>1
  <2>3. s \in Statements
    BY <2>2 DEF Statements
  <2>4. /\ s.do = "catch" /\ s.of = b /\ Closing(body[b].do) = "catch"
    BY <1>4, <2>1 DEF Closing
  <2>5. QED
    BY <1>1, <1>2, <2>3, <2>4 DEF IsMark, Ends, Begins, b
<1>5. CASE body[b].do # "try"
  <2>1. s \in [do : {Closing(body[b].do)}, of : {b}]
    BY <1>5 DEF Marks, b
  <2>2. Closing(body[b].do) \in {"else", "finally"} \cup Ends
    BY <1>2, <1>5 DEF Begins, Closing, Ends
  <2>3. /\ s.do = Closing(body[b].do) /\ s.of = b
        /\ s \in [do : {"else", "finally"} \cup Ends, of : Nat]
    BY <1>3, <2>1, <2>2
  <2>4. s \in Statements
    BY <2>3 DEF Statements
  <2>5. QED
    BY <1>1, <1>2, <2>2, <2>3, <2>4 DEF IsMark, Ends, Begins, b
<1>6. QED
  BY <1>4, <1>5

LEMMA WritePlainMarks ==
    ASSUME BodyTypeOK, Marked, Walked, WritePlain
    PROVE  Marked' /\ Walked'
<1>1. PICK s \in Plain : Write(s)
  BY DEF WritePlain
<1>2. s \in Statements /\ ~IsMark(s) /\ ~Begins(s) /\ s.do # "fi"
  BY PlainStatements
<1> DEFINE new == Len(body) + 1
<1>3. /\ DOMAIN body = 1..Len(body) /\ Len(body) \in Nat
      /\ DOMAIN body' = 1..new /\ body'[new] = s
      /\ \A k \in DOMAIN body : body'[k] = body[k]
      /\ open' = open
  BY <1>1, <1>2, WriteAppends, Texts DEF WritePlain
<1>4. \A k \in DOMAIN body' : IsMark(body'[k]) \/ Begins(body'[k]) => k \in DOMAIN body
  BY <1>2, <1>3
<1>5. Marked'
  BY <1>3, <1>4 DEF Marked
<1>6. QED
  BY <1>1, <1>2, <1>5, WriteWalks

LEMMA WriteOpenerMarks ==
    ASSUME BodyTypeOK, Marked, Walked, WriteOpener
    PROVE  Marked' /\ Walked'
<1>1. PICK s \in Openers : Write(s)
  BY DEF WriteOpener
<1>2. s \in Statements /\ ~IsMark(s) /\ Begins(s) /\ s.do # "fi"
  BY PlainStatements
<1> DEFINE new == Len(body) + 1
<1>3. /\ DOMAIN body = 1..Len(body) /\ Len(body) \in Nat
      /\ DOMAIN body' = 1..new /\ body'[new] = s
      /\ \A k \in DOMAIN body : body'[k] = body[k]
  BY <1>1, <1>2, WriteAppends, Texts
<1>4. /\ DOMAIN open = 1..Len(open) /\ Len(open) \in Nat
      /\ DOMAIN open' = 1..(Len(open) + 1)
      /\ \A i \in DOMAIN open : open'[i] = open[i]
      /\ open'[Len(open) + 1] = new
  BY <1>3, Texts DEF WriteOpener
<1>5. \A i \in DOMAIN open' : open'[i] \in DOMAIN body' /\ Begins(body'[open'[i]])
  BY <1>2, <1>3, <1>4 DEF Marked
<1>6. \A i, j \in DOMAIN open' : i < j => open'[i] < open'[j]
  BY <1>3, <1>4 DEF Marked
<1>7. ASSUME NEW m \in DOMAIN body', IsMark(body'[m])
      PROVE  /\ body'[m].of \in 1..(m - 1) /\ Begins(body'[body'[m].of])
             /\ body'[m].do = Closing(body'[body'[m].of].do)
             /\ \A i \in DOMAIN open' : open'[i] <= body'[m].of \/ m <= open'[i]
             /\ \A c \in DOMAIN body' :
                   IsMark(body'[c]) /\ body'[m].of < body'[c].of /\ body'[c].of < m => c < m
  <2>1. m \in DOMAIN body /\ body'[m] = body[m] /\ IsMark(body[m])
    BY <1>2, <1>3, <1>7
  <2>2. /\ body[m].of \in 1..(m - 1) /\ Begins(body[body[m].of])
        /\ body[m].do = Closing(body[body[m].of].do)
    BY <2>1 DEF Marked
  <2>3. body'[body[m].of] = body[body[m].of]
    BY <1>3, <2>1, <2>2
  <2>4. \A i \in DOMAIN open' : open'[i] <= body[m].of \/ m <= open'[i]
    BY <1>3, <1>4, <2>1 DEF Marked
  <2>5. \A c \in DOMAIN body' :
           IsMark(body'[c]) /\ body[m].of < body'[c].of /\ body'[c].of < m => c < m
    BY <1>2, <1>3, <2>1 DEF Marked
  <2>6. QED
    BY <2>1, <2>2, <2>3, <2>4, <2>5
<1>8. ASSUME NEW b \in DOMAIN body', Begins(body'[b])
      PROVE  \/ \E i \in DOMAIN open' : open'[i] = b
             \/ \E m \in DOMAIN body' : IsMark(body'[m]) /\ body'[m].of = b
  BY <1>3, <1>4, <1>8 DEF Marked
<1>9. Marked'
  BY <1>5, <1>6, <1>7, <1>8 DEF Marked
<1>10. QED
  BY <1>1, <1>2, <1>9, WriteWalks

LEMMA WriteMarkMarks ==
    ASSUME BodyTypeOK, Marked, Walked, WriteMark
    PROVE  Marked' /\ Walked'
<1>1. PICK s \in Marks(Last(open)) :
         /\ Write(s)
         /\ open' = IF s.do \in Ends THEN Front(open) ELSE Append(Front(open), Len(body) + 1)
  BY DEF WriteMark
<1> DEFINE new == Len(body) + 1
           top == Last(open)
<1>2. /\ s \in Statements /\ IsMark(s) /\ s.of = top
      /\ top = open[Len(open)] /\ Len(open) \in DOMAIN open
      /\ top \in DOMAIN body /\ Begins(body[top]) /\ s.do = Closing(body[top].do)
      /\ s.do \in Ends <=> ~Begins(s)
  BY MarkStatements DEF WriteMark
<1>3. /\ DOMAIN body = 1..Len(body) /\ Len(body) \in Nat
      /\ DOMAIN body' = 1..new /\ body'[new] = s
      /\ \A k \in DOMAIN body : body'[k] = body[k]
  BY <1>1, <1>2, WriteAppends, Texts
<1> DEFINE d == Len(open) - 1
<1>4. open \in Seq(Nat) /\ open # <<>>
  BY Texts DEF WriteMark
<1>5. /\ open \in Seq(Nat) /\ open # <<>> /\ d \in Nat /\ Len(open) = d + 1
      /\ DOMAIN open = 1..(d + 1) /\ top = open[d + 1]
  <2>1. open # <<>> /\ open \in Seq(Nat) /\ DOMAIN open = 1..Len(open)
    BY Texts DEF WriteMark
  <2>2. QED
    BY <1>2, <2>1, FrontOf
<1> HIDE DEF d, top
<1>6. /\ \A i \in 1..d : i \in DOMAIN open /\ i \in 1..(Len(open) - 1)
       /\ d + 1 \in DOMAIN open /\ Len(open) - 1 = d
  BY <1>5
\* The blocks below the top stay open; the new mark begins one or not.
<1>7. \A i \in 1..d : open'[i] = open[i]
  <2>1. CASE s.do \in Ends
    <3>1. open' = Front(open)
      BY <1>1, <2>1
    <3>2. \A i \in 1..(Len(open) - 1) : Front(open)[i] = open[i]
      BY <1>4, FrontOf
    <3>3. QED
      BY <1>6, <3>1, <3>2, Zenon
  <2>2. CASE s.do \notin Ends
    <3>1. open' = Append(Front(open), new) /\ new \in Nat
      BY <1>1, <1>3, <2>2
    <3>2. \A i \in 1..(Len(open) - 1) : Append(Front(open), new)[i] = open[i]
      BY <1>4, <3>1, NewTop
    <3>3. QED
      BY <1>6, <3>1, <3>2, Zenon
  <2>3. QED
    BY <2>1, <2>2
<1>8. /\ s.do \in Ends => DOMAIN open' = 1..d
      /\ s.do \notin Ends => DOMAIN open' = 1..(d + 1) /\ open'[d + 1] = new /\ Begins(s)
  <2>1. CASE s.do \in Ends
    <3>1. open' = Front(open) /\ Front(open) \in Seq(Nat) /\ Len(Front(open)) = d
      BY <1>1, <1>5, <2>1, FrontOf
    <3>2. QED
      BY <2>1, <3>1
  <2>2. CASE s.do \notin Ends
    BY <1>1, <1>2, <1>3, <1>5, <2>2, NewTop
  <2>3. QED
    BY <2>1, <2>2
<1>9. \A i \in 1..d : open[i] < top
  BY <1>5 DEF Marked
<1>10. \A i \in DOMAIN open' : open'[i] \in DOMAIN body' /\ Begins(body'[open'[i]])
  <2>1. \A i \in 1..d : open[i] \in DOMAIN body /\ Begins(body[open[i]])
    BY <1>6, Zenon DEF Marked
  <2>2. \A i \in 1..d : open'[i] \in DOMAIN body' /\ Begins(body'[open'[i]])
    BY <1>3, <1>7, <2>1
  <2>3. QED
    BY <1>3, <1>5, <1>8, <2>2
<1>11. \A i, j \in DOMAIN open' : i < j => open'[i] < open'[j]
  <2>1. \A i, j \in 1..d : i < j => open'[i] < open'[j]
    BY <1>5, <1>7 DEF Marked
  <2>2. \A i \in 1..d : open'[i] < new
    BY <1>2, <1>3, <1>7, <1>9, <1>5 DEF Marked
  <2>3. QED
    BY <1>5, <1>8, <2>1, <2>2
<1>12. ASSUME NEW m \in DOMAIN body', IsMark(body'[m])
       PROVE  /\ body'[m].of \in 1..(m - 1) /\ Begins(body'[body'[m].of])
              /\ body'[m].do = Closing(body'[body'[m].of].do)
              /\ \A i \in DOMAIN open' : open'[i] <= body'[m].of \/ m <= open'[i]
              /\ \A c \in DOMAIN body' :
                    IsMark(body'[c]) /\ body'[m].of < body'[c].of /\ body'[c].of < m => c < m
  <2>1. CASE m \in DOMAIN body
    <3>1. body'[m] = body[m] /\ IsMark(body[m])
      BY <1>3, <1>12, <2>1
    <3>2. /\ body[m].of \in 1..(m - 1) /\ Begins(body[body[m].of])
          /\ body[m].do = Closing(body[body[m].of].do)
          /\ \A i \in DOMAIN open : open[i] <= body[m].of \/ m <= open[i]
          /\ \A c \in DOMAIN body :
                IsMark(body[c]) /\ body[m].of < body[c].of /\ body[c].of < m => c < m
      BY <2>1, <3>1 DEF Marked
    <3>3. body'[body[m].of] = body[body[m].of]
      BY <1>3, <2>1, <3>2
    <3>4. \A i \in DOMAIN open' : open'[i] <= body[m].of \/ m <= open'[i]
      <4>1. \A i \in 1..d : open'[i] <= body[m].of \/ m <= open'[i]
        BY <1>6, <1>7, <3>2, Zenon
      <4>2. m <= new
        BY <1>3, <2>1
      <4>3. \A i \in DOMAIN open' : i \in 1..d \/ open'[i] = new
        BY <1>5, <1>8
      <4>4. QED
        BY <4>1, <4>2, <4>3, Zenon
    <3>5. \A c \in DOMAIN body' :
             IsMark(body'[c]) /\ body[m].of < body'[c].of /\ body'[c].of < m => c < m
      BY <1>2, <1>3, <2>1, <3>2
    <3>6. QED
      BY <3>1, <3>2, <3>3, <3>4, <3>5
  <2>2. CASE m = new
    <3>1. body'[m] = s /\ body'[top] = body[top] /\ top \in 1..(m - 1)
      BY <1>2, <1>3, <2>2
    <3>2. \A i \in DOMAIN open' : open'[i] <= top \/ m <= open'[i]
      BY <1>2, <1>3, <1>5, <1>7, <1>8, <1>9, <2>2
    <3>3. \A c \in DOMAIN body' :
             IsMark(body'[c]) /\ top < body'[c].of /\ body'[c].of < m => c < m
      BY <1>2, <1>3, <2>2
    <3>4. QED
      BY <1>2, <3>1, <3>2, <3>3
  <2>3. QED
    BY <1>3, <2>1, <2>2
<1>13. ASSUME NEW b \in DOMAIN body', Begins(body'[b])
       PROVE  \/ \E i \in DOMAIN open' : open'[i] = b
              \/ \E m \in DOMAIN body' : IsMark(body'[m]) /\ body'[m].of = b
  <2>1. CASE b = new
    BY <1>2, <1>3, <1>5, <1>8, <1>13, <2>1
  <2>2. CASE b = top
    BY <1>2, <1>3, <2>2
  <2>3. CASE b \in DOMAIN body /\ b # top
    <3>1. \/ \E i \in DOMAIN open : open[i] = b
          \/ \E m \in DOMAIN body : IsMark(body[m]) /\ body[m].of = b
      BY <1>3, <1>13, <2>3 DEF Marked
    <3>2. CASE \E i \in DOMAIN open : open[i] = b
      <4>1. PICK i \in 1..(d + 1) : open[i] = b
        BY <1>5, <3>2
      <4>2. i # d + 1
        BY <1>5, <2>3, <4>1
      <4>3. i \in 1..d /\ i \in DOMAIN open'
        BY <1>5, <1>8, <4>1, <4>2
      <4>4. QED
        BY <1>7, <4>1, <4>3
    <3>3. CASE \E m \in DOMAIN body : IsMark(body[m]) /\ body[m].of = b
      BY <1>3, <3>3
    <3>4. QED
      BY <3>1, <3>2, <3>3
  <2>4. QED
    BY <1>3, <2>1, <2>2, <2>3
<1>14. Marked'
  BY <1>10, <1>11, <1>12, <1>13 DEF Marked
<1>15. QED
  BY <1>1, <1>2, <1>14, WriteWalks

-----------------------------------------------------------------------------
(* Writing, and the beginning of the run.                                  *)

LEMMA WriteTypes ==
    ASSUME BodyTypeOK, Marked, Walked, WritePlain \/ WriteOpener \/ WriteMark
    PROVE  /\ body' \in Seq(Statements) /\ walk' \in Seq(Views) /\ open' \in Seq(Nat)
           /\ line = 0
           /\ UNCHANGED <<line, sig, frames, env, pipe, consts, had, outcome, again, raised,
                          overridden>>
<1>1. \E s \in Statements : Write(s)
  BY PlainStatements, MarkStatements DEF WritePlain, WriteOpener, WriteMark
<1>2. body' \in Seq(Statements) /\ walk' \in Seq(Views) /\ line = 0
  BY <1>1, WriteAppends DEF Write
<1>3. UNCHANGED <<line, sig, frames, env, pipe, consts, had, outcome, again, raised, overridden>>
  BY <1>1 DEF Write, data, past
<1>4. Len(body) + 1 \in Nat /\ open \in Seq(Nat)
  BY Texts
<1>5. open' \in Seq(Nat)
  <2>1. CASE WritePlain
    BY <1>4, <2>1 DEF WritePlain
  <2>2. CASE WriteOpener
    BY <1>4, <2>2 DEF WriteOpener
  <2>3. CASE WriteMark
    <3>1. open # <<>> /\ open' \in {Front(open), Append(Front(open), Len(body) + 1)}
      BY <2>3 DEF WriteMark
    <3>2. Front(open) \in Seq(Nat)
      BY <1>4, <3>1, FrontOf
    <3>3. Append(Front(open), Len(body) + 1) \in Seq(Nat)
      BY <1>4, <3>2
    <3>4. QED
      BY <3>1, <3>2, <3>3
  <2>4. QED
    BY <2>1, <2>2, <2>3
<1>6. QED
  BY <1>2, <1>3, <1>5

LEMMA WriteKeeps ==
    ASSUME BodyInv, WritePlain \/ WriteOpener \/ WriteMark
    PROVE  BodyInv'
<1>1. BodyTypeOK /\ Marked /\ Walked /\ Fresh
  BY DEF BodyInv, Text, Control
<1>2. Marked' /\ Walked'
  BY <1>1, WritePlainMarks, WriteOpenerMarks, WriteMarkMarks
<1>3. /\ body' \in Seq(Statements) /\ walk' \in Seq(Views) /\ open' \in Seq(Nat)
      /\ line = 0
      /\ UNCHANGED <<line, sig, frames, env, pipe, consts, had, outcome, again, raised, overridden>>
  BY <1>1, WriteTypes
<1>4. BodyTypeOK'
  BY <1>1, <1>3 DEF BodyTypeOK
<1>5. /\ sig = "next" /\ frames = <<>> /\ outcome = "none" /\ raised = {} /\ Fresh'
  BY <1>1, <1>3 DEF Fresh
<1>6. Control'
  BY <1>3, <1>5 DEF Control, Framed, Falls, Carried, Blamed, Returned
<1>7. Known'
  BY <1>3 DEF Known
<1>8. QED
  BY <1>2, <1>4, <1>6, <1>7 DEF BodyInv, Text

\* What a step of the run leaves of the text.
LEMMA TextStays ==
    ASSUME BodyTypeOK, Text, UNCHANGED text
    PROVE  /\ UNCHANGED <<body, open, walk>>
           /\ Text'
           /\ \A b : Closer(b)' = Closer(b)
           /\ Rebinds' = Rebinds
<1>1. UNCHANGED <<body, open, walk>>
  BY DEF text
<1>2. Marked'
  BY <1>1 DEF Text, Marked
<1>3. Walked'
  BY <1>1 DEF Text, Walked, Look, AlwaysDiverts, Assigned
<1>4. \A b : Closer(b)' = Closer(b)
  BY <1>1 DEF Closer
<1>5. Rebinds' = Rebinds
  BY <1>1 DEF Rebinds
<1>6. QED
  BY <1>1, <1>2, <1>3, <1>4, <1>5 DEF Text

LEMMA BeginKeeps ==
    ASSUME BodyInv, Begin
    PROVE  BodyInv'
<1>1. /\ BodyTypeOK /\ Text /\ Fresh /\ UNCHANGED text /\ line = 0 /\ line' = 1 /\ open = <<>>
      /\ UNCHANGED <<sig, frames, env, pipe, consts, had, outcome, again, raised, overridden>>
  BY DEF BodyInv, Control, Begin, data, past
<1>2. Text' /\ UNCHANGED <<body, open, walk>>
  BY <1>1, TextStays
<1>3. BodyTypeOK'
  BY <1>1, <1>2 DEF BodyTypeOK
<1>4. /\ sig = "next" /\ frames = <<>> /\ outcome = "none" /\ raised = {}
      /\ env = [n \in Names |-> Undeclared] /\ pipe = Given /\ consts = Inputs /\ had = {}
  BY <1>1 DEF Fresh
<1>5. 1 \in DOMAIN walk /\ walk[1].consts = Inputs /\ walk[1].known = Given /\ ~walk[1].diverts
  BY <1>1, Texts DEF Text, Walked
<1>6. Control'
  BY <1>1, <1>2, <1>4, <1>5 DEF Control, Fresh, Framed, Falls, Carried, Blamed, Returned
<1>7. Fits(Given)'
  BY <1>1, <1>4 DEF Fits, Undeclared, Types
<1>8. Known'
  <2>1. line' = 1 /\ walk'[line'].consts = Inputs /\ walk'[line'].known = Given /\ consts' = Inputs
    BY <1>1, <1>2, <1>4, <1>5
  <2>2. QED
    BY <1>7, <2>1 DEF Known, KnownAt, Fits
<1>9. QED
  BY <1>2, <1>3, <1>6, <1>8 DEF BodyInv

-----------------------------------------------------------------------------
(* What is bound, and what the walk knows.                                 *)

LEMMA LaterKnown ==
    ASSUME BodyTypeOK, Walked, NEW k \in DOMAIN walk, NEW l \in DOMAIN walk, k <= l, KnownAt(k)
    PROVE  KnownAt(l)
<1>1. Widens(walk[k], walk[l]) /\ walk[k] \in Views /\ walk[l] \in Views
  BY Texts DEF Walked
<1>2. consts \subseteq walk[l].consts
  BY <1>1 DEF KnownAt, Widens
<1>3. ASSUME NEW n \in Names, NEW v \in Types, walk[k].known[n] \in {Unknown, v}
      PROVE  walk[l].known[n] \in {Unknown, v}
  BY <1>1, <1>3 DEF Widens, Types, Unknown, Undeclared
<1>4. had \subseteq Names \X Types
  BY DEF BodyTypeOK
<1>5. Fits(walk[k].known) => Fits(walk[l].known)
  BY <1>3, <1>4 DEF Fits
<1>6. QED
  BY <1>2, <1>5 DEF KnownAt

\* Nothing bound, and not back in the text.
LEMMA KnownOnward ==
    ASSUME BodyTypeOK, Text, Known, line \in DOMAIN walk, UNCHANGED <<text, data, again>>,
           line' \in DOMAIN walk, line <= line'
    PROVE  Known'
<1>1. CASE again
  BY <1>1 DEF Known
<1>2. CASE ~again
  <2>1. line > 0
    BY Texts
  <2>2. KnownAt(line')
    BY <1>2, <2>1, LaterKnown DEF Known, Text
  <2>3. UNCHANGED <<body, open, walk, env, pipe, consts, had>> /\ Rebinds' = Rebinds
    BY TextStays DEF data
  <2>4. QED
    BY <2>2, <2>3 DEF Known, KnownAt, Fits
<1>3. QED
  BY <1>1, <1>2

\* A value is bound, and the walk knows the name to hold such or anything.
LEMMA BoundKnown ==
    ASSUME BodyTypeOK, Text, Known, line \in DOMAIN walk, UNCHANGED <<text, again>>,
           line' \in DOMAIN walk, line <= line',
           NEW n \in Names, NEW v \in Types, Bind(n, v) \/ BindPipe(n, v),
           ~again => consts' \subseteq walk[line'].consts,
           ~again /\ ~Rebinds => walk[line'].known[n] \in {Unknown, v}
    PROVE  Known'
<1>1. CASE again
  BY <1>1 DEF Known
<1>2. CASE ~again
  <2>1. line > 0
    BY Texts
  <2>2. KnownAt(line')
    BY <1>2, <2>1, LaterKnown DEF Known, Text
  <2>3. UNCHANGED <<body, open, walk>> /\ Rebinds' = Rebinds
    BY TextStays
  <2>4. /\ env \in [Names -> Types \cup {Undeclared}]
        /\ pipe \in [Names -> Types \cup {Undeclared}]
        /\ had' = had \cup {<<n, v>>}
        /\ env' \in {env, [env EXCEPT ![n] = v]} /\ pipe' \in {pipe, [pipe EXCEPT ![n] = v]}
    BY DEF BodyTypeOK, Bind, BindPipe
  <2>5. ASSUME ~Rebinds
        PROVE  /\ \A m \in Names : env'[m] \in Types => walk[line'].known[m] \in {Unknown, env'[m]}
               /\ \A m \in Names : pipe'[m] \in Types => walk[line'].known[m] \in {Unknown, pipe'[m]}
               /\ \A p \in had' : walk[line'].known[p[1]] \in {Unknown, p[2]}
    <3>1. Fits(walk[line'].known) /\ walk[line'].known[n] \in {Unknown, v}
      BY <1>2, <2>2, <2>5 DEF KnownAt
    <3>2. QED
      BY <2>4, <3>1 DEF Fits
  <2>6. QED
    BY <1>2, <2>3, <2>5 DEF Known, KnownAt, Fits
<1>3. QED
  BY <1>1, <1>2

LEMMA BindTypes ==
    ASSUME BodyTypeOK, NEW n \in Names, NEW v \in Types, Bind(n, v) \/ BindPipe(n, v)
    PROVE  /\ env' \in [Names -> Types \cup {Undeclared}]
           /\ pipe' \in [Names -> Types \cup {Undeclared}]
           /\ had' \subseteq Names \X Types
<1>1. /\ env \in [Names -> Types \cup {Undeclared}] /\ pipe \in [Names -> Types \cup {Undeclared}]
      /\ had \subseteq Names \X Types
  BY DEF BodyTypeOK
<1>2. /\ had' = had \cup {<<n, v>>}
      /\ env' \in {env, [env EXCEPT ![n] = v]} /\ pipe' \in {pipe, [pipe EXCEPT ![n] = v]}
  BY DEF Bind, BindPipe
<1>3. had' \subseteq Names \X Types
  BY <1>1, <1>2
<1>4. QED
  BY <1>1, <1>2, <1>3

LEMMA ValueTypes ==
    ASSUME BodyTypeOK, NEW e \in Exprs
    PROVE  /\ Value(e) \in Types \cup {Undeclared}
           /\ Undeclared \notin Types
           /\ \A n \in Names : Visible(n) \in Types \cup {Undeclared}
BY DEF BodyTypeOK, Value, Visible, Exprs, Names, Types, Undeclared

\* An expression has the type inferred for it, if one is.
LEMMA InferFits ==
    ASSUME BodyTypeOK, NEW known \in [Names -> Types \cup {Unknown, Undeclared}], Fits(known),
           NEW e \in Exprs, Value(e) \in Types
    PROVE  Infer(known, e) \in {Unknown, Value(e)}
<1>1. CASE e \in Types
  BY <1>1 DEF Infer, Value
<1>2. CASE e \notin Types
  <2>1. e \in Names /\ Value(e) = Visible(e)
    BY <1>2 DEF Value, Exprs, Names
  <2>2. known[e] \in {Unknown, Visible(e)}
    BY <2>1 DEF Fits, Visible, BodyTypeOK
  <2>3. QED
    BY <1>2, <2>1, <2>2 DEF Infer
<1>3. QED
  BY <1>1, <1>2

LEMMA LookAt ==
    ASSUME Text, NEW k \in DOMAIN body
    PROVE  /\ walk[k + 1].consts = WalkConsts(walk[k].consts, body[k])
           /\ walk[k + 1].clean = (walk[k].clean /\ ~Reassigns(walk[k].consts, body[k]))
           /\ walk[k + 1].known = CollectVarNames(walk[k].known, body[k])
           /\ walk[k + 1].diverts = AlwaysDiverts(body[k], walk[k])
<1>1. walk[k + 1] = Look(walk[k], body[k])
  BY DEF Text, Walked
<1>2. QED
  BY <1>1 DEF Look

\* What a const, a var or an assignment binds is what the walk knows behind it.
LEMMA MergeFits ==
    ASSUME BodyTypeOK, Text, NEW k \in DOMAIN body, Fits(walk[k].known),
           body[k].do \in {"const", "var", "assign"},
           body[k].do = "assign" => Visible(body[k].name) \in Types,
           Value(body[k].expr) \in Types
    PROVE  walk[k + 1].known[body[k].name] \in {Unknown, Value(body[k].expr)}
<1> DEFINE known == walk[k].known
           n == body[k].name
           e == body[k].expr
<1>1. n \in Names /\ e \in Exprs
  BY Texts, StatementFields
<1>2. known \in [Names -> Types \cup {Unknown, Undeclared}]
  <2>1. k \in DOMAIN walk
    BY Texts DEF Text, Walked
  <2>2. QED
    BY <2>1, Texts DEF Views
<1>3. walk[k + 1].known = CollectVarNames(known, body[k])
  BY LookAt
<1>4. body[k].do = "assign" => known[n] # Undeclared
  BY <1>1, <1>2 DEF Fits, Visible, BodyTypeOK, Types, Unknown, Undeclared
<1>5. CollectVarNames(known, body[k]) = MergeVarType(known, n, e)
  BY <1>4 DEF CollectVarNames
<1>6. Infer(known, e) \in {Unknown, Value(e)}
  BY <1>1, <1>2, InferFits
<1> HIDE DEF known, n, e
<1>7. MergeVarType(known, n, e)[n] \in {Unknown, Infer(known, e)}
  BY <1>1, <1>2 DEF MergeVarType
<1>8. QED
  BY <1>3, <1>5, <1>6, <1>7 DEF n, e, known

\* What a for or a catch binds is nothing the walk knows the type of.
LEMMA DeclareFits ==
    ASSUME BodyTypeOK, Text, ~Rebinds, NEW k \in DOMAIN body, body[k].do \in {"for", "catch"}
    PROVE  walk[k + 1].known[body[k].name] = Unknown
<1> DEFINE n == body[k].name
<1>1. n \in Names
  BY Texts, StatementFields
<1>2. k \in DOMAIN walk /\ k + 1 \in DOMAIN walk
  BY Texts DEF Text, Walked
<1>3. ~Assigned(n)
  BY DEF Assigned, Rebinds
<1>4. walk[k + 1].known[n] \in {Undeclared, Unknown}
  BY <1>1, <1>2, <1>3 DEF Text, Walked
<1>5. walk[k].known \in [Names -> Types \cup {Unknown, Undeclared}]
  BY <1>2, Texts DEF Views
<1>6. walk[k + 1].known = Declare(walk[k].known, n)
  BY LookAt DEF CollectVarNames
<1>7. QED
  BY <1>1, <1>4, <1>5, <1>6 DEF Declare, Unknown, Undeclared

-----------------------------------------------------------------------------
(* Where the run stands.                                                   *)

\* A statement is reached by a run that is not over.
LEMMA ReachedRuns ==
    ASSUME BodyInv, NEW do, Reached(do)
    PROVE  /\ line \in DOMAIN body /\ line \in DOMAIN walk /\ line + 1 \in DOMAIN walk
           /\ line \in Nat /\ line > 0 /\ sig = "next" /\ outcome = "none" /\ open = <<>>
           /\ Here.do = do /\ Here \in Statements
<1>1. /\ BodyTypeOK /\ Walked /\ Fresh /\ Framed /\ Returned
      /\ line \in DOMAIN body /\ sig = "next" /\ Here.do = do
  BY DEF BodyInv, Text, Control, Reached
<1>2. line \in Nat /\ line > 0 /\ line # Len(body) + 1
  BY <1>1, Texts
<1>3. line \in DOMAIN walk /\ line + 1 \in DOMAIN walk
  BY <1>1, Texts DEF Walked
<1>4. outcome = "none"
  BY <1>1, <1>2 DEF Returned
<1>5. Here \in Statements
  BY <1>1, Texts DEF Here
<1>6. QED
  BY <1>1, <1>2, <1>3, <1>4, <1>5 DEF Framed

\* The blocks run hold what comes next, unless the statement ends one of theirs.
LEMMA NextInside ==
    ASSUME BodyInv, NEW do, Reached(do), do \notin {"done", "catch", "finally", "end"},
           NEW i \in DOMAIN frames
    PROVE  /\ frames[i].at < line /\ line + 1 <= Closer(frames[i].at)
           /\ Begins(Here) => Closer(line) + 1 <= Closer(frames[i].at)
<1> DEFINE b == frames[i].at
<1>1. /\ BodyTypeOK /\ Marked /\ line > 0 /\ Framed
      /\ line \in DOMAIN body /\ open = <<>> /\ Here = body[line] /\ Here.do = do
  BY ReachedRuns DEF BodyInv, Text, Control, Here
<1>2. /\ b \in DOMAIN body /\ b < line /\ line <= Closer(b)
      /\ body[b].do \in {"while", "for", "try", "catch", "finally"}
  BY <1>1 DEF Framed
<1>3. Begins(body[b])
  BY <1>2 DEF Begins
<1> HIDE DEF b
<1>4. Closer(b) \in DOMAIN body /\ body[Closer(b)].do = Closing(body[b].do)
  BY <1>1, <1>2, <1>3, CloserEnds
<1>5. Closing(body[b].do) \in {"done", "catch", "finally", "end"}
  BY <1>2 DEF Closing
<1>6. line # Closer(b)
  BY <1>1, <1>4, <1>5
<1>7. line < Closer(b) /\ line + 1 <= Closer(b)
  BY <1>1, <1>2, <1>4, <1>6, Texts
<1>8. ASSUME Begins(Here)
      PROVE  Closer(line) + 1 <= Closer(b)
  <2>1. Closer(line) \in DOMAIN body
    BY <1>1, <1>8, CloserEnds
  <2>2. Closer(line) < Closer(b)
    BY <1>1, <1>2, <1>3, <1>7, <1>8, BlocksNest
  <2>3. QED
    BY <1>4, <2>1, <2>2, Texts, <1>1
<1>9. QED
  BY <1>2, <1>7, <1>8 DEF b

\* The block of frame i holds that of the innermost frame.
Encloses(i) ==
    /\ i \in DOMAIN frames /\ frames[i].at < Top.at
    /\ frames[i].at \in DOMAIN body /\ Begins(body[frames[i].at])
    /\ Closer(frames[i].at) \in DOMAIN body
    /\ Closer(Top.at) < Closer(frames[i].at)

LEMMA TopFrame ==
    ASSUME BodyInv, line > 0, frames # <<>>
    PROVE  /\ frames \in Seq(Frames) /\ Len(frames) \in Nat \ {0}
           /\ DOMAIN frames = 1..Len(frames)
           /\ Top = frames[Len(frames)] /\ Top \in Frames
           /\ Top.at \in DOMAIN body /\ Begins(body[Top.at])
           /\ body[Top.at].do \in {"while", "for", "try", "catch", "finally"}
           /\ Top.pending # "next" => body[Top.at].do = "finally"
           /\ Top.at < line /\ line <= Closer(Top.at)
           /\ Closer(Top.at) \in DOMAIN body
           /\ body[Closer(Top.at)].do = Closing(body[Top.at].do)
           /\ \A i \in 1..(Len(frames) - 1) : Encloses(i)
           /\ outcome = "none" /\ open = <<>>
<1>1. BodyTypeOK /\ Marked /\ Framed /\ Returned /\ open = <<>>
  BY DEF BodyInv, Text, Control, Framed
<1>2. frames \in Seq(Frames)
  BY <1>1 DEF BodyTypeOK
<1>3. Len(frames) \in Nat \ {0} /\ Top = frames[Len(frames)] /\ Top \in Frames
  BY <1>2, FrontOf DEF Top
<1>4. DOMAIN frames = 1..Len(frames) /\ Len(frames) \in DOMAIN frames
  BY <1>2, <1>3
<1>5. ASSUME NEW i \in DOMAIN frames
      PROVE  /\ frames[i].at \in DOMAIN body
             /\ body[frames[i].at].do \in {"while", "for", "try", "catch", "finally"}
             /\ frames[i].pending # "next" => body[frames[i].at].do = "finally"
             /\ frames[i].at < line /\ line <= Closer(frames[i].at)
             /\ Begins(body[frames[i].at])
             /\ Closer(frames[i].at) \in DOMAIN body
             /\ body[Closer(frames[i].at)].do = Closing(body[frames[i].at].do)
  <2>1. /\ frames[i].at \in DOMAIN body
        /\ body[frames[i].at].do \in {"while", "for", "try", "catch", "finally"}
        /\ frames[i].pending # "next" => body[frames[i].at].do = "finally"
        /\ frames[i].at < line /\ line <= Closer(frames[i].at)
    BY <1>1, <1>5 DEF Framed
  <2>2. Begins(body[frames[i].at])
    BY <2>1 DEF Begins
  <2>3. QED
    BY <1>1, <2>1, <2>2, CloserEnds
<1>6. ASSUME NEW i \in 1..(Len(frames) - 1)
      PROVE  /\ i \in DOMAIN frames /\ frames[i].at < Top.at
             /\ Closer(Top.at) < Closer(frames[i].at)
  <2>1. i \in DOMAIN frames /\ i < Len(frames)
    BY <1>3, <1>4
  <2>2. frames[i].at < Top.at
    BY <1>1, <1>3, <1>4, <2>1 DEF Framed
  <2>3. Top.at < Closer(frames[i].at)
    <3>1. Top.at \in DOMAIN body /\ Top.at < line
      BY <1>3, <1>4, <1>5
    <3>2. line <= Closer(frames[i].at) /\ Closer(frames[i].at) \in DOMAIN body
      BY <1>5, <2>1
    <3>3. line \in Nat
      BY <1>1 DEF BodyTypeOK
    <3>4. QED
      BY <1>1, <3>1, <3>2, <3>3, Texts
  <2>4. QED
    BY <1>1, <1>3, <1>4, <1>5, <2>1, <2>2, <2>3, BlocksNest
<1>7. \A i \in 1..(Len(frames) - 1) : Encloses(i)
  BY <1>5, <1>6 DEF Encloses
<1>8. outcome = "none"
  BY <1>1 DEF Returned
<1>9. QED
  BY <1>1, <1>2, <1>3, <1>4, <1>5, <1>7, <1>8

LEMMA NotDiverting ==
    ASSUME BodyInv, NEW k \in DOMAIN body, body[k].do \notin {"goto", "fail"},
           body[k].do = "fi" => ~walk[k].diverts \/ ~walk[body[k].of].diverts
    PROVE  ~walk[k + 1].diverts
<1>1. walk[k + 1].diverts = AlwaysDiverts(body[k], walk[k])
  BY LookAt DEF BodyInv
<1>2. QED
  BY <1>1 DEF AlwaysDiverts, BothDivert

-----------------------------------------------------------------------------
(* What the kinds of steps keep of control.                                *)

\* Framed of the next state, said of the text as it is.
LEMMA FramedNext ==
    ASSUME BodyTypeOK, Text, UNCHANGED text, open = <<>>, line' \in DOMAIN walk,
           \A i \in DOMAIN frames' :
              /\ frames'[i].at \in DOMAIN body
              /\ body[frames'[i].at].do \in {"while", "for", "try", "catch", "finally"}
              /\ frames'[i].pending # "next" => body[frames'[i].at].do = "finally"
              /\ frames'[i].at < line' /\ line' <= Closer(frames'[i].at),
           \A i, j \in DOMAIN frames' : i < j => frames'[i].at < frames'[j].at
    PROVE  Framed'
<1>1. UNCHANGED <<body, open, walk>> /\ \A b : Closer(b)' = Closer(b)
  BY TextStays
<1>2. QED
  BY <1>1 DEF Framed

LEMMA RaiseControl ==
    ASSUME BodyInv, NEW do, Reached(do), NEW s \in Signals \cup Errors, Raise(s),
           s = "constant" /\ ~again => ~Last(walk).clean
    PROVE  Control'
<1>1. /\ BodyTypeOK /\ Text /\ Control /\ UNCHANGED text
      /\ UNCHANGED <<line, frames, outcome, again, overridden>>
      /\ sig' = s /\ raised' = raised \cup ({s} \cap Signals)
  BY DEF BodyInv, Raise
<1>2. line > 0 /\ sig = "next" /\ outcome = "none"
  BY ReachedRuns
<1>3. s # "next"
  BY DEF Signals, Errors
<1>4. UNCHANGED <<body, open, walk>> /\ \A b : Closer(b)' = Closer(b)
  BY <1>1, TextStays
<1>5. Framed'
  BY <1>1, <1>4 DEF Control, Framed
<1>6. Fresh' /\ Falls' /\ Returned'
  BY <1>1, <1>2, <1>3, Texts DEF Fresh, Falls, Returned
<1>7. Carried'
  BY <1>1, <1>2 DEF Control, Carried, Signals
<1>8. Blamed'
  BY <1>1, <1>2, <1>4 DEF Control, Blamed
<1>9. QED
  BY <1>5, <1>6, <1>7, <1>8 DEF Control

LEMMA ProceedControl ==
    ASSUME BodyInv, NEW do, Reached(do), NEW p \in DOMAIN walk, Proceed(p), line < p,
           \A i \in DOMAIN frames : p <= Closer(frames[i].at), ~walk[p].diverts
    PROVE  Control'
<1>1. /\ BodyTypeOK /\ Text /\ Control /\ UNCHANGED text
      /\ UNCHANGED <<sig, frames, outcome, again, raised, overridden>> /\ line' = p
  BY DEF BodyInv, Proceed, past
<1>2. line > 0 /\ sig = "next" /\ outcome = "none" /\ open = <<>>
  BY ReachedRuns
<1>3. UNCHANGED <<body, open, walk>>
  BY <1>1, TextStays
<1>4. p > 0 /\ p \in Nat /\ line \in Nat
  BY <1>1, Texts DEF BodyTypeOK
<1>5. \A i \in DOMAIN frames : frames[i].at \in Nat /\ frames[i].at < p
  <2>1. \A i \in DOMAIN frames : frames[i].at \in DOMAIN body /\ frames[i].at < line
    BY <1>1, <1>2 DEF Control, Framed
  <2>2. QED
    BY <1>1, <1>4, <2>1, Texts
<1>6. Framed'
  <2>1. /\ \A i \in DOMAIN frames :
              /\ frames[i].at \in DOMAIN body
              /\ body[frames[i].at].do \in {"while", "for", "try", "catch", "finally"}
              /\ frames[i].pending # "next" => body[frames[i].at].do = "finally"
        /\ \A i, j \in DOMAIN frames : i < j => frames[i].at < frames[j].at
    BY <1>1, <1>2 DEF Control, Framed
  <2>2. QED
    BY <1>1, <1>2, <1>5, <2>1, FramedNext
<1>7. Fresh' /\ Falls' /\ Returned'
  BY <1>1, <1>2, <1>3, <1>4 DEF Fresh, Falls, Returned
<1>8. Carried' /\ Blamed'
  BY <1>1, <1>3 DEF Control, Carried, Blamed
<1>9. QED
  BY <1>6, <1>7, <1>8 DEF Control

\* A block of a loop or a section of a try is entered.
LEMMA EnterControl ==
    ASSUME BodyInv, NEW do \in {"while", "for", "try"}, Reached(do),
           NEW t \in Nat, NEW u \in Nat, Enter(Frame(line, t, u, "next"))
    PROVE  Control' /\ frames' \in Seq(Frames) /\ line' \in DOMAIN walk
<1> DEFINE f == Frame(line, t, u, "next")
           n == Len(frames)
<1>1. /\ BodyTypeOK /\ Text /\ Control /\ UNCHANGED text
      /\ UNCHANGED <<sig, outcome, again, raised, overridden>>
      /\ line' = line + 1 /\ frames' = Append(frames, f)
  BY DEF BodyInv, Enter, past
<1>2. /\ line \in DOMAIN body /\ line + 1 \in DOMAIN walk /\ line \in Nat /\ line > 0
      /\ sig = "next" /\ outcome = "none" /\ open = <<>> /\ body[line].do = do
  BY ReachedRuns DEF Here
<1>3. UNCHANGED <<body, open, walk>>
  BY <1>1, TextStays
<1>4. f \in Frames /\ f.at = line /\ f.pending = "next"
  BY <1>2 DEF Frame, Frames, Endings
<1>5. frames \in Seq(Frames) /\ n \in Nat /\ DOMAIN frames = 1..n
  BY <1>1 DEF BodyTypeOK
<1> HIDE DEF f, n
<1>6. /\ frames' \in Seq(Frames) /\ DOMAIN frames' = 1..(n + 1)
      /\ \A i \in 1..n : frames'[i] = frames[i]
      /\ frames'[n + 1] = f
  BY <1>1, <1>4, <1>5 DEF n
<1>7. Begins(body[line]) /\ line + 1 <= Closer(line)
  <2>1. Begins(body[line])
    BY <1>2 DEF Begins
  <2>2. Closer(line) \in DOMAIN body /\ line < Closer(line)
    BY <1>1, <1>2, <2>1, CloserEnds DEF Text
  <2>3. QED
    BY <1>1, <1>2, <2>1, <2>2, Texts
<1>8. ASSUME NEW i \in 1..n
      PROVE  /\ frames[i].at \in DOMAIN body /\ frames[i].at < line
             /\ frames[i].at < line + 1 /\ line + 1 <= Closer(frames[i].at)
             /\ body[frames[i].at].do \in {"while", "for", "try", "catch", "finally"}
             /\ frames[i].pending # "next" => body[frames[i].at].do = "finally"
             /\ \A j \in 1..n : i < j => frames[i].at < frames[j].at
  <2>1. /\ frames[i].at \in DOMAIN body /\ frames[i].at < line
        /\ body[frames[i].at].do \in {"while", "for", "try", "catch", "finally"}
        /\ frames[i].pending # "next" => body[frames[i].at].do = "finally"
        /\ \A j \in 1..n : i < j => frames[i].at < frames[j].at
    BY <1>1, <1>2, <1>5 DEF Control, Framed
  <2>2. line + 1 <= Closer(frames[i].at)
    BY <1>5, NextInside
  <2>3. frames[i].at < line + 1
    BY <1>1, <1>2, <2>1, Texts
  <2>4. QED
    BY <2>1, <2>2, <2>3
<1>9. Framed'
  <2>1. \A i \in DOMAIN frames' :
           /\ frames'[i].at \in DOMAIN body
           /\ body[frames'[i].at].do \in {"while", "for", "try", "catch", "finally"}
           /\ frames'[i].pending # "next" => body[frames'[i].at].do = "finally"
           /\ frames'[i].at < line' /\ line' <= Closer(frames'[i].at)
    BY <1>1, <1>2, <1>4, <1>5, <1>6, <1>7, <1>8
  <2>2. \A i, j \in DOMAIN frames' : i < j => frames'[i].at < frames'[j].at
    BY <1>4, <1>5, <1>6, <1>8
  <2>3. QED
    BY <1>1, <1>2, <2>1, <2>2, FramedNext
<1>10. Falls'
  <2>1. ~walk[line + 1].diverts
    BY <1>2, NotDiverting
  <2>2. QED
    BY <1>1, <1>3, <2>1 DEF Falls
<1>11. Fresh' /\ Returned'
  BY <1>1, <1>2 DEF Fresh, Returned
<1>12. Carried' /\ Blamed'
  BY <1>1, <1>3, <1>4, <1>5, <1>6 DEF Control, Carried, Blamed, Signals
<1>13. QED
  BY <1>1, <1>2, <1>6, <1>9, <1>10, <1>11, <1>12 DEF Control

\* The innermost frame is dropped.
LEMMA DropFrame ==
    ASSUME BodyInv, line > 0, frames # <<>>, frames' = Front(frames), UNCHANGED text,
           line' \in DOMAIN walk, Top.at < line', line' <= Closer(Top.at) + 1
    PROVE  /\ Framed' /\ frames' \in Seq(Frames)
           /\ \A X : (\E i \in DOMAIN frames : frames[i].pending \in X) =>
                        Top.pending \in X \/ \E i \in DOMAIN frames' : frames'[i].pending \in X
           /\ \A i \in DOMAIN frames' : i \in DOMAIN frames /\ frames'[i] = frames[i]
<1>1. BodyTypeOK /\ Text /\ Framed
  BY DEF BodyInv, Control
<1>2. /\ frames \in Seq(Frames) /\ Len(frames) \in Nat \ {0} /\ DOMAIN frames = 1..Len(frames)
      /\ Top = frames[Len(frames)] /\ open = <<>>
      /\ Top.at \in DOMAIN body /\ Closer(Top.at) \in DOMAIN body
  BY TopFrame
<1> DEFINE d == Len(frames) - 1
<1>3. \A i \in 1..d : Encloses(i)
  BY TopFrame
<1>4. /\ frames' \in Seq(Frames) /\ Len(frames') = d /\ \A i \in 1..d : frames'[i] = frames[i]
  <2>1. frames \in Seq(Frames)
    BY <1>2
  <2>2. QED
    BY <2>1, FrontOf
<1>5. d \in Nat /\ Len(frames) = d + 1 /\ DOMAIN frames' = 1..d
  BY <1>2, <1>4
<1> HIDE DEF d
<1>6. ASSUME NEW i \in 1..d
      PROVE  /\ frames'[i] = frames[i] /\ i \in DOMAIN frames
             /\ frames[i].at < line' /\ line' <= Closer(frames[i].at)
  <2>1. /\ i \in DOMAIN frames /\ frames[i].at < Top.at
        /\ frames[i].at \in DOMAIN body /\ Closer(frames[i].at) \in DOMAIN body
        /\ Closer(Top.at) < Closer(frames[i].at)
    BY <1>3 DEF Encloses
  <2>2. QED
    BY <1>1, <1>2, <1>4, <2>1, Texts
<1>7. Framed'
  <2>1. \A i \in DOMAIN frames' :
           /\ frames'[i].at \in DOMAIN body
           /\ body[frames'[i].at].do \in {"while", "for", "try", "catch", "finally"}
           /\ frames'[i].pending # "next" => body[frames'[i].at].do = "finally"
           /\ frames'[i].at < line' /\ line' <= Closer(frames'[i].at)
    BY <1>1, <1>5, <1>6 DEF Framed
  <2>2. \A i, j \in DOMAIN frames' : i < j => frames'[i].at < frames'[j].at
    BY <1>1, <1>5, <1>6 DEF Framed
  <2>3. QED
    BY <1>1, <1>2, <2>1, <2>2, FramedNext
<1>8. ASSUME NEW X, NEW i \in DOMAIN frames, frames[i].pending \in X, Top.pending \notin X
      PROVE  \E j \in DOMAIN frames' : frames'[j].pending \in X
  <2>1. i # d + 1 /\ i \in 1..(d + 1)
    BY <1>2, <1>5, <1>8
  <2>2. i \in 1..d
    BY <1>5, <2>1
  <2>3. QED
    BY <1>5, <1>6, <1>8, <2>2
<1>9. QED
  BY <1>4, <1>5, <1>6, <1>7, <1>8

LEMMA LeaveLoopControl ==
    ASSUME BodyInv, NEW word \in {"while", "for"}, TurnOver(word), LeaveLoop
    PROVE  Control' /\ frames' \in Seq(Frames) /\ line' \in DOMAIN walk
<1>1. /\ BodyTypeOK /\ Text /\ Control /\ UNCHANGED text
      /\ UNCHANGED <<sig, outcome, again, raised, overridden>>
      /\ line' = line + 1 /\ frames' = Front(frames)
      /\ Reached("done") /\ frames # <<>> /\ body[Top.at].do = word
  BY DEF BodyInv, LeaveLoop, TurnOver, past
<1>2. /\ line \in DOMAIN body /\ line + 1 \in DOMAIN walk /\ line \in Nat /\ line > 0
      /\ sig = "next" /\ outcome = "none" /\ body[line].do = "done"
  BY <1>1, ReachedRuns DEF Here
<1>3. UNCHANGED <<body, open, walk>>
  BY <1>1, TextStays
<1>4. /\ Top.at < line /\ line <= Closer(Top.at) /\ Top.at \in DOMAIN body
      /\ Closer(Top.at) \in DOMAIN body /\ Top.pending = "next"
  BY <1>1, <1>2, TopFrame
<1>5. line' \in DOMAIN walk /\ Top.at < line' /\ line' <= Closer(Top.at) + 1
  BY <1>1, <1>2, <1>4, Texts
<1>6. /\ Framed' /\ frames' \in Seq(Frames)
      /\ \A X : (\E i \in DOMAIN frames : frames[i].pending \in X) =>
                   Top.pending \in X \/ \E i \in DOMAIN frames' : frames'[i].pending \in X
      /\ \A i \in DOMAIN frames' : i \in DOMAIN frames /\ frames'[i] = frames[i]
  BY <1>1, <1>2, <1>5, DropFrame
<1>7. Falls'
  <2>1. ~walk[line + 1].diverts
    BY <1>2, NotDiverting
  <2>2. QED
    BY <1>1, <1>3, <2>1 DEF Falls
<1>8. Carried'
  <2>1. Top.pending \notin Signals
    BY <1>4 DEF Signals
  <2>2. QED
    BY <1>1, <1>6, <2>1 DEF Control, Carried
<1>9. Fresh' /\ Returned' /\ Blamed'
  BY <1>1, <1>2, <1>3, <1>6 DEF Control, Fresh, Returned, Blamed
<1>10. QED
  BY <1>5, <1>6, <1>7, <1>8, <1>9 DEF Control

LEMMA NextTurnControl ==
    ASSUME BodyInv, NEW word \in {"while", "for"}, TurnOver(word), NextTurn
    PROVE  Control' /\ frames' \in Seq(Frames) /\ line' \in DOMAIN walk
<1> DEFINE n == Len(frames)
<1>1. /\ BodyTypeOK /\ Text /\ Control /\ UNCHANGED text
      /\ UNCHANGED <<sig, outcome, raised, overridden>>
      /\ line' = Top.at + 1 /\ frames' = [frames EXCEPT ![n].turn = @ + 1] /\ again' = TRUE
      /\ Reached("done") /\ frames # <<>> /\ body[Top.at].do = word
  BY DEF BodyInv, NextTurn, TurnOver
<1>2. /\ line \in DOMAIN body /\ line \in Nat /\ line > 0
      /\ sig = "next" /\ outcome = "none" /\ open = <<>>
  BY <1>1, ReachedRuns
<1>3. UNCHANGED <<body, open, walk>>
  BY <1>1, TextStays
<1>4. /\ frames \in Seq(Frames) /\ n \in Nat \ {0} /\ DOMAIN frames = 1..n
      /\ Top = frames[n] /\ Top \in Frames
      /\ Top.at < line /\ line <= Closer(Top.at) /\ Top.at \in DOMAIN body
      /\ Closer(Top.at) \in DOMAIN body
      /\ \A i \in 1..(n - 1) : Encloses(i)
  BY <1>1, <1>2, TopFrame
<1>5. line' \in DOMAIN walk /\ line' \in Nat /\ Top.at < line' /\ line' <= Closer(Top.at)
  BY <1>1, <1>2, <1>4, Texts DEF Text, Walked
<1> HIDE DEF n
<1>6. /\ frames' \in Seq(Frames) /\ DOMAIN frames' = DOMAIN frames
      /\ \A i \in DOMAIN frames :
            frames'[i].at = frames[i].at /\ frames'[i].pending = frames[i].pending
  <2>1. frames' = [frames EXCEPT ![n] = [frames[n] EXCEPT !.turn = @ + 1]]
    BY <1>1
  <2>2. [frames[n] EXCEPT !.turn = @ + 1] \in Frames
    <3>1. frames[n] \in Frames
      BY <1>4
    <3>2. QED
      BY <3>1 DEF Frames
  <2>3. frames' \in Seq(Frames)
    BY <1>4, <2>1, <2>2
  <2>4. QED
    BY <1>4, <2>1, <2>3 DEF Frames
<1>7. Framed'
  <2>1. ASSUME NEW i \in DOMAIN frames
        PROVE  frames[i].at < line' /\ line' <= Closer(frames[i].at)
    <3>1. CASE i = n
      BY <1>4, <1>5, <3>1
    <3>2. CASE i \in 1..(n - 1)
      <4>1. /\ frames[i].at < Top.at /\ Closer(Top.at) < Closer(frames[i].at)
            /\ frames[i].at \in DOMAIN body /\ Closer(frames[i].at) \in DOMAIN body
            /\ Top.at \in DOMAIN body /\ Closer(Top.at) \in DOMAIN body
        BY <1>4, <3>2 DEF Encloses
      <4>2. QED
        BY <1>1, <1>5, <4>1, Texts
    <3>3. QED
      BY <1>4, <2>1, <3>1, <3>2
  <2>2. \A i \in DOMAIN frames' :
           /\ frames'[i].at \in DOMAIN body
           /\ body[frames'[i].at].do \in {"while", "for", "try", "catch", "finally"}
           /\ frames'[i].pending # "next" => body[frames'[i].at].do = "finally"
           /\ frames'[i].at < line' /\ line' <= Closer(frames'[i].at)
    BY <1>1, <1>2, <1>6, <2>1 DEF Control, Framed
  <2>3. \A i, j \in DOMAIN frames' : i < j => frames'[i].at < frames'[j].at
    BY <1>1, <1>2, <1>6 DEF Control, Framed
  <2>4. QED
    BY <1>1, <1>2, <1>5, <2>2, <2>3, FramedNext
<1>8. Falls'
  <2>1. ~walk[Top.at + 1].diverts
    BY <1>1, <1>4, NotDiverting
  <2>2. QED
    BY <1>1, <1>3, <2>1 DEF Falls
<1>9. Carried'
  BY <1>1, <1>6 DEF Control, Carried
<1>10. Fresh' /\ Returned' /\ Blamed'
  <2>1. line' # 0
    BY <1>1, <1>4, Texts
  <2>2. outcome' = "none" /\ again' = TRUE
    BY <1>1, <1>2
  <2>3. QED
    BY <2>1, <2>2 DEF Fresh, Returned, Blamed
<1>11. QED
  BY <1>5, <1>6, <1>7, <1>8, <1>9, <1>10 DEF Control

\* The next section of a try is begun.
LEMMA SectionControl ==
    ASSUME BodyInv, line > 0, frames # <<>>, body[Top.at].do \in {"try", "catch"},
           NEW at \in DOMAIN body, body[at].do \in {"catch", "finally"}, Top.at < at, line <= at,
           \A i \in 1..(Len(frames) - 1) : at < Closer(frames[i].at),
           NEW p \in Endings, p \in {"next", sig}, p # "next" => body[at].do = "finally",
           sig \in Signals => p = sig,
           Section(at, p), UNCHANGED <<again, raised, overridden>>
    PROVE  Control' /\ frames' \in Seq(Frames) /\ line' \in DOMAIN walk /\ line <= line'
<1> DEFINE d == Len(frames) - 1
           f == Frame(at, 0, 0, p)
<1>1. /\ BodyTypeOK /\ Text /\ Control /\ UNCHANGED text
      /\ UNCHANGED outcome
      /\ line' = at + 1 /\ frames' = Append(Front(frames), f) /\ sig' = "next"
  BY DEF BodyInv, Section
<1>2. UNCHANGED <<body, open, walk>>
  BY <1>1, TextStays
<1>3. /\ frames \in Seq(Frames) /\ Len(frames) \in Nat \ {0} /\ DOMAIN frames = 1..Len(frames)
      /\ Top = frames[Len(frames)] /\ outcome = "none" /\ open = <<>>
      /\ Top.at \in DOMAIN body /\ Closer(Top.at) \in DOMAIN body /\ Top.pending = "next"
      /\ \A i \in 1..d : Encloses(i)
  BY TopFrame
<1>4. at \in Nat /\ at + 1 \in DOMAIN walk /\ f \in Frames /\ f.at = at /\ f.pending = p
  BY <1>1, Texts DEF Text, Walked, Frame, Frames
<1>5. Begins(body[at]) /\ Closer(at) \in DOMAIN body /\ at < Closer(at) /\ at + 1 <= Closer(at)
  <2>1. Begins(body[at])
    BY DEF Begins
  <2>2. Closer(at) \in DOMAIN body /\ at < Closer(at)
    BY <1>1, <1>3, <2>1, CloserEnds DEF Text
  <2>3. QED
    BY <1>1, <1>4, <2>1, <2>2, Texts
<1> HIDE DEF f
<1>6. /\ frames' \in Seq(Frames) /\ DOMAIN frames' = 1..(d + 1) /\ d \in Nat
      /\ Len(frames) = d + 1
      /\ \A i \in 1..d : frames'[i] = frames[i]
      /\ frames'[d + 1] = f
  <2>1. /\ frames' \in Seq(Frames) /\ DOMAIN frames' = 1..Len(frames)
        /\ \A i \in 1..(Len(frames) - 1) : frames'[i] = frames[i]
        /\ frames'[Len(frames)] = f
    <3>1. frames \in Seq(Frames) /\ f \in Frames
      BY <1>3, <1>4
    <3>2. /\ Append(Front(frames), f) \in Seq(Frames)
          /\ DOMAIN Append(Front(frames), f) = 1..Len(frames)
          /\ \A i \in 1..(Len(frames) - 1) : Append(Front(frames), f)[i] = frames[i]
          /\ Append(Front(frames), f)[Len(frames)] = f
      BY <3>1, NewTop
    <3>3. QED
      BY <1>1, <3>2
  <2>2. QED
    BY <1>3, <2>1
<1>7. \A i \in 1..d : at < Closer(frames[i].at)
  OBVIOUS
<1> HIDE DEF d
<1>8. ASSUME NEW i \in 1..d
      PROVE  /\ frames[i].at < at /\ frames[i].at < line' /\ line' <= Closer(frames[i].at)
  <2>1. /\ frames[i].at \in DOMAIN body /\ frames[i].at < Top.at
        /\ Closer(frames[i].at) \in DOMAIN body /\ at < Closer(frames[i].at)
    BY <1>3, <1>7 DEF Encloses
  <2>2. QED
    BY <1>1, <1>3, <1>4, <2>1, Texts
<1>9. Framed'
  <2>1. \A i \in DOMAIN frames' :
           /\ frames'[i].at \in DOMAIN body
           /\ body[frames'[i].at].do \in {"while", "for", "try", "catch", "finally"}
           /\ frames'[i].pending # "next" => body[frames'[i].at].do = "finally"
           /\ frames'[i].at < line' /\ line' <= Closer(frames'[i].at)
    <3>1. ASSUME NEW i \in 1..d
          PROVE  /\ frames'[i].at \in DOMAIN body
                 /\ body[frames'[i].at].do \in {"while", "for", "try", "catch", "finally"}
                 /\ frames'[i].pending # "next" => body[frames'[i].at].do = "finally"
                 /\ frames'[i].at < line' /\ line' <= Closer(frames'[i].at)
      BY <1>1, <1>3, <1>6, <1>8 DEF Control, Framed
    <3>2. /\ f.at \in DOMAIN body /\ body[f.at].do \in {"while", "for", "try", "catch", "finally"}
          /\ f.pending # "next" => body[f.at].do = "finally"
          /\ f.at < line' /\ line' <= Closer(f.at)
      BY <1>1, <1>4, <1>5
    <3>3. \A i \in DOMAIN frames' : i \in 1..d \/ i = d + 1
      BY <1>6
    <3>4. QED
      BY <1>6, <3>1, <3>2, <3>3, Zenon
  <2>2. \A i, j \in DOMAIN frames' : i < j => frames'[i].at < frames'[j].at
    BY <1>1, <1>3, <1>4, <1>6, <1>8 DEF Control, Framed
  <2>3. QED
    BY <1>1, <1>3, <1>4, <2>1, <2>2, FramedNext
<1>10. Falls'
  <2>1. ~walk[at + 1].diverts
    BY NotDiverting
  <2>2. QED
    BY <1>1, <1>2, <2>1 DEF Falls
<1>11. Fresh' /\ Returned'
  BY <1>1, <1>3, <1>4 DEF Fresh, Returned
\* What was pending still is.
<1>12. Carried'
  <2>1. ASSUME raised' # {}, ~overridden', ~(p \in Signals)
        PROVE  \E i \in DOMAIN frames' : frames'[i].pending \in Signals
    <3>1. PICK i \in DOMAIN frames : frames[i].pending \in Signals
      BY <1>1, <2>1 DEF Control, Carried
    <3>2. i \in 1..d
      BY <1>3, <1>6, <3>1 DEF Signals
    <3>3. QED
      BY <1>6, <3>1, <3>2
  <2>2. (p \in Signals) => \E i \in DOMAIN frames' : frames'[i].pending \in Signals
    BY <1>4, <1>6
  <2>3. QED
    BY <2>1, <2>2 DEF Carried
<1>13. Blamed'
  <2>1. ASSUME ~again, NEW i \in DOMAIN frames', frames'[i].pending = "constant"
        PROVE  ~Last(walk).clean
    <3>1. CASE i \in 1..d
      BY <1>1, <1>3, <1>6, <2>1, <3>1 DEF Control, Blamed
    <3>2. CASE i = d + 1
      BY <1>1, <1>4, <1>6, <2>1, <3>2 DEF Control, Blamed
    <3>3. QED
      BY <1>6, <3>1, <3>2
  <2>2. QED
    BY <1>1, <1>2, <2>1 DEF Blamed
<1>14. QED
  BY <1>1, <1>4, <1>6, <1>9, <1>10, <1>11, <1>12, <1>13, Texts DEF Control, BodyTypeOK

-----------------------------------------------------------------------------
(* What each step of the run keeps.                                        *)

LEMMA RunTypes ==
    ASSUME BodyTypeOK, UNCHANGED text, line' \in DOMAIN walk, sig' \in Endings,
           frames' \in Seq(Frames),
           env' \in [Names -> Types \cup {Undeclared}],
           pipe' \in [Names -> Types \cup {Undeclared}],
           consts' \subseteq Names, had' \subseteq Names \X Types,
           outcome' = outcome, again' \in BOOLEAN,
           raised' \subseteq Signals, overridden' \in BOOLEAN
    PROVE  BodyTypeOK'
<1>1. line' \in Nat
  BY Texts
<1>2. body' = body /\ open' = open /\ walk' = walk
  BY DEF text
<1>3. QED
  BY <1>1, <1>2 DEF BodyTypeOK

LEMMA RaiseKeeps ==
    ASSUME BodyInv, NEW do, Reached(do), NEW s \in Signals \cup Errors, Raise(s),
           s = "constant" /\ ~again => ~Last(walk).clean
    PROVE  BodyInv'
<1>1. BodyTypeOK /\ Text /\ Known /\ UNCHANGED <<text, data, again>> /\ line' = line
  BY DEF BodyInv, Raise
<1>2. line \in DOMAIN walk /\ line \in Nat
  BY ReachedRuns
<1>3. Text'
  BY <1>1, TextStays
<1>4. Control'
  BY RaiseControl
<1>5. Known'
  BY <1>1, <1>2, KnownOnward
<1>6. sig' \in Endings /\ raised' \subseteq Signals /\ UNCHANGED <<frames, outcome, overridden>>
  BY <1>1 DEF Raise, Endings, BodyTypeOK
<1>7. BodyTypeOK'
  BY <1>1, <1>2, <1>6 DEF BodyTypeOK, text, data
<1>8. QED
  BY <1>3, <1>4, <1>5, <1>7 DEF BodyInv

\* An assignment stopped at a constant was looked at by the walk.
LEMMA ConstantSeen ==
    ASSUME BodyInv, NEW do \in {"var", "assign", "self"}, Reached(do), Here.name \in consts, ~again
    PROVE  ~Last(walk).clean
<1>1. /\ BodyTypeOK /\ Text /\ line \in DOMAIN body /\ line \in DOMAIN walk /\ line > 0
      /\ line + 1 \in DOMAIN walk /\ Here.do = do /\ Here = body[line]
  BY ReachedRuns DEF BodyInv, Here
<1>2. Here.name \in walk[line].consts
  BY <1>1 DEF BodyInv, Known, KnownAt
<1>3. ~walk[line + 1].clean
  BY <1>1, <1>2, LookAt DEF Reassigns
<1>4. /\ Len(walk) \in DOMAIN walk /\ line + 1 <= Len(walk) /\ Last(walk) = walk[Len(walk)]
  BY <1>1, Texts DEF Last
<1>5. QED
  BY <1>1, <1>3, <1>4 DEF Text, Walked, Widens

LEMMA ProceedTypes ==
    ASSUME BodyTypeOK, NEW p \in DOMAIN walk, Proceed(p),
           env' \in [Names -> Types \cup {Undeclared}],
           pipe' \in [Names -> Types \cup {Undeclared}],
           consts' \subseteq Names, had' \subseteq Names \X Types
    PROVE  BodyTypeOK'
<1>1. line' \in DOMAIN walk /\ UNCHANGED <<text, sig, frames, outcome, again, raised, overridden>>
  BY DEF Proceed, past
<1>2. /\ sig' \in Endings /\ frames' \in Seq(Frames) /\ outcome' = outcome
      /\ again' \in BOOLEAN /\ raised' \subseteq Signals /\ overridden' \in BOOLEAN
  BY <1>1 DEF BodyTypeOK
<1>3. QED
  BY <1>1, <1>2, RunTypes

LEMMA PassKeeps ==
    ASSUME BodyInv, NEW do, Reached(do), NEW p \in DOMAIN walk, Proceed(p),
           UNCHANGED data, line < p,
           \A i \in DOMAIN frames : p <= Closer(frames[i].at), ~walk[p].diverts
    PROVE  BodyInv'
<1>1. /\ BodyTypeOK /\ Text /\ Known /\ line' = p
      /\ UNCHANGED text /\ again' = again
  BY DEF BodyInv, Proceed, past
<1>2. line \in DOMAIN walk /\ line \in Nat
  BY ReachedRuns
<1>3. Text'
  BY <1>1, TextStays
<1>4. Control'
  BY ProceedControl
<1>5. line <= line' /\ line' \in DOMAIN walk
  BY <1>1, <1>2, Texts
<1>6. Known'
  BY <1>1, <1>2, <1>5, KnownOnward
<1>7. BodyTypeOK'
  <2>1. UNCHANGED <<env, pipe, consts, had>>
    BY DEF data
  <2>2. /\ env' \in [Names -> Types \cup {Undeclared}]
        /\ pipe' \in [Names -> Types \cup {Undeclared}]
        /\ consts' \subseteq Names /\ had' \subseteq Names \X Types
    BY <1>1, <2>1 DEF BodyTypeOK
  <2>3. QED
    BY <1>1, <2>2, ProceedTypes
<1>8. QED
  BY <1>3, <1>4, <1>6, <1>7 DEF BodyInv

LEMMA BindKeeps ==
    ASSUME BodyInv, NEW do \in {"const", "var", "assign", "self"}, Reached(do),
           do = "assign" => Visible(Here.name) \in Types,
           Value(Here.expr) \in Types,
           Bind(Here.name, Value(Here.expr)) \/ BindPipe(Here.name, Value(Here.expr)),
           consts' = consts \/ (do = "const" /\ consts' = consts \cup {Here.name}),
           Proceed(line + 1)
    PROVE  BodyInv'
<1> DEFINE n == Here.name
           v == Value(Here.expr)
<1>1. /\ BodyTypeOK /\ Text /\ Known /\ line' = line + 1
      /\ UNCHANGED text /\ again' = again
  BY DEF BodyInv, Proceed, past
<1>2. /\ line \in DOMAIN body /\ line \in DOMAIN walk /\ line + 1 \in DOMAIN walk
      /\ line \in Nat /\ line > 0 /\ Here = body[line] /\ Here.do = do /\ Here \in Statements
  BY ReachedRuns DEF Here
<1>3. n \in Names
  BY <1>2, StatementFields
<1>4. Control'
  <2>1. ~walk[line + 1].diverts
    BY <1>2, NotDiverting
  <2>2. \A i \in DOMAIN frames : line + 1 <= Closer(frames[i].at)
    BY NextInside
  <2>3. line < line + 1
    BY <1>2
  <2>4. QED
    BY <1>2, <2>1, <2>2, <2>3, ProceedControl
<1>5. Known'
  <2>1. ASSUME ~again
        PROVE  consts' \subseteq walk[line + 1].consts
    <3>1. consts \subseteq walk[line].consts
      BY <1>1, <1>2, <2>1 DEF Known, KnownAt
    <3>2. walk[line + 1].consts = WalkConsts(walk[line].consts, Here)
      BY <1>1, <1>2, LookAt
    <3>3. QED
      BY <1>2, <3>1, <3>2 DEF WalkConsts
  <2>2. ASSUME ~again, ~Rebinds
        PROVE  walk[line + 1].known[n] \in {Unknown, v}
    <3>1. Fits(walk[line].known)
      BY <1>1, <1>2, <2>2 DEF Known, KnownAt
    <3>2. do # "self"
      BY <1>2, <2>2 DEF Rebinds
    <3>3. QED
      BY <1>1, <1>2, <3>1, <3>2, MergeFits
  <2>3. line <= line' /\ line' \in DOMAIN walk
    BY <1>1, <1>2
  <2> HIDE DEF n, v
  <2>4. Bind(n, v) \/ BindPipe(n, v)
    BY DEF n, v
  <2>5. v \in Types
    BY DEF v
  <2>6. QED
    BY <1>1, <1>2, <1>3, <2>1, <2>2, <2>3, <2>4, <2>5, BoundKnown
<1>6. Text'
  BY <1>1, TextStays
<1>7. BodyTypeOK'
  <2>1. consts' \subseteq Names
    BY <1>1, <1>3 DEF BodyTypeOK
  <2>2. QED
    BY <1>1, <1>2, <1>3, <2>1, BindTypes, ProceedTypes
<1>8. QED
  BY <1>4, <1>5, <1>6, <1>7 DEF BodyInv

LEMMA StatementsKeep ==
    ASSUME BodyInv, Const \/ Var \/ Assign \/ AssignSelf
    PROVE  BodyInv'
<1>1. PICK do \in {"const", "var", "assign", "self"} : Reached(do)
  BY DEF Const, Var, Assign, AssignSelf
<1>2. /\ Here.do = do /\ Here \in Statements /\ BodyTypeOK
  BY <1>1, ReachedRuns DEF BodyInv
<1>3. Here.name \in Names /\ Here.expr \in Exprs
  BY <1>2, StatementFields
<1>4. /\ Value(Here.expr) \in Types \cup {Undeclared} /\ Undeclared \notin Types
      /\ Visible(Here.name) \in Types \cup {Undeclared}
  BY <1>2, <1>3, ValueTypes
<1>5. CASE \E s \in {"constant", "undefined"} :
              Raise(s) /\ (s = "constant" => Here.name \in consts /\ do # "const")
  <2>1. PICK s \in {"constant", "undefined"} :
           Raise(s) /\ (s = "constant" => Here.name \in consts /\ do # "const")
    BY <1>5
  <2>2. s \in Signals \cup Errors
    BY DEF Errors
  <2>3. s = "constant" /\ ~again => ~Last(walk).clean
    BY <1>1, <2>1, ConstantSeen
  <2>4. QED
    BY <1>1, <2>1, <2>2, <2>3, RaiseKeeps
<1>6. CASE /\ Proceed(line + 1) /\ Value(Here.expr) # Undeclared
           /\ do = "assign" => Visible(Here.name) # Undeclared
           /\ Bind(Here.name, Value(Here.expr)) \/ BindPipe(Here.name, Value(Here.expr))
           /\ consts' = consts \/ (do = "const" /\ consts' = consts \cup {Here.name})
  BY <1>1, <1>4, <1>6, BindKeeps
<1>7. CASE Const
  <2>1. do = "const"
    BY <1>2, <1>7 DEF Const, Reached
  <2>2. QED
    BY <1>5, <1>6, <1>7, <2>1 DEF Const
<1>8. CASE Var
  <2>1. do = "var"
    BY <1>2, <1>8 DEF Var, Reached
  <2>2. QED
    BY <1>5, <1>6, <1>8, <2>1 DEF Var
<1>9. CASE Assign
  <2>1. do = "assign"
    BY <1>2, <1>9 DEF Assign, Reached
  <2>2. QED
    BY <1>5, <1>6, <1>9, <2>1 DEF Assign, BindPipe
<1>10. CASE AssignSelf
  <2>1. do = "self"
    BY <1>2, <1>10 DEF AssignSelf, Reached
  <2>2. QED
    BY <1>5, <1>6, <1>10, <2>1 DEF AssignSelf, BindPipe
<1>11. QED
  BY <1>7, <1>8, <1>9, <1>10

LEMMA LeaveKeeps ==
    ASSUME BodyInv, Leave \/ Mistyped
    PROVE  BodyInv'
<1>1. PICK do \in {"return", "goto", "fail", "if", "while", "for"},
             s \in {"return", "goto", "fail", "mistyped"} : Reached(do) /\ Raise(s)
  BY DEF Leave, Mistyped
<1>2. s \in Signals \cup Errors /\ s # "constant"
  BY DEF Signals, Errors
<1>3. QED
  BY <1>1, <1>2, RaiseKeeps

\* Where a block ends that begins with the statement reached.
LEMMA CloserHere ==
    ASSUME BodyInv, NEW do \in {"if", "else", "while", "for", "try"}, Reached(do)
    PROVE  /\ Begins(Here) /\ Closer(line) \in DOMAIN body /\ line < Closer(line)
           /\ Closer(line) + 1 \in DOMAIN walk /\ line < Closer(line) + 1
           /\ body[Closer(line)].of = line /\ body[Closer(line)].do = Closing(do)
<1>1. /\ BodyTypeOK /\ Text /\ line \in DOMAIN body /\ open = <<>> /\ Here = body[line]
      /\ Here.do = do
  BY ReachedRuns DEF BodyInv, Here
<1>2. Begins(Here)
  BY <1>1 DEF Begins
<1>3. /\ Closer(line) \in DOMAIN body /\ body[Closer(line)].of = line /\ line < Closer(line)
      /\ body[Closer(line)].do = Closing(do)
  BY <1>1, <1>2, CloserEnds DEF Text
<1>4. QED
  BY <1>1, <1>2, <1>3, Texts DEF Text, Walked

\* Past the block that begins with the statement reached.
LEMMA PastKeeps ==
    ASSUME BodyInv, NEW do \in {"if", "else", "while", "for"}, Reached(do),
           Proceed(Closer(line) + 1), UNCHANGED data
    PROVE  BodyInv'
<1>1. /\ Begins(Here) /\ Closer(line) \in DOMAIN body /\ line < Closer(line) + 1
      /\ Closer(line) + 1 \in DOMAIN walk
      /\ body[Closer(line)].of = line /\ body[Closer(line)].do = Closing(do)
  BY CloserHere
<1>2. line \in DOMAIN body /\ ~walk[line].diverts
  BY ReachedRuns DEF BodyInv, Control, Falls
<1>3. body[Closer(line)].do \in {"else", "fi", "done"}
  BY <1>1 DEF Closing
<1>4. ~walk[Closer(line) + 1].diverts
  BY <1>1, <1>2, <1>3, NotDiverting
<1>5. \A i \in DOMAIN frames : Closer(line) + 1 <= Closer(frames[i].at)
  BY <1>1, NextInside
<1>6. QED
  BY <1>1, <1>4, <1>5, PassKeeps

\* The next statement.
LEMMA AdvanceKeeps ==
    ASSUME BodyInv, NEW do \in {"if", "fi"}, Reached(do), Proceed(line + 1), UNCHANGED data
    PROVE  BodyInv'
<1>1. /\ line \in DOMAIN body /\ line + 1 \in DOMAIN walk /\ line < line + 1 /\ body[line].do = do
      /\ ~walk[line].diverts
  BY ReachedRuns DEF BodyInv, Control, Falls, Here
<1>2. ~walk[line + 1].diverts
  BY <1>1, NotDiverting
<1>3. \A i \in DOMAIN frames : line + 1 <= Closer(frames[i].at)
  BY NextInside
<1>4. QED
  BY <1>1, <1>2, <1>3, PassKeeps

LEMMA IfKeeps ==
    ASSUME BodyInv, If \/ EndThen \/ EndIf
    PROVE  BodyInv'
<1>1. CASE If
  <2>1. Reached("if") /\ UNCHANGED data /\ (Proceed(line + 1) \/ Proceed(Closer(line) + 1))
    BY <1>1 DEF If
  <2>2. QED
    BY <2>1, PastKeeps, AdvanceKeeps
<1>2. CASE EndThen
  BY <1>2, PastKeeps DEF EndThen
<1>3. CASE EndIf
  BY <1>3, AdvanceKeeps DEF EndIf
<1>4. QED
  BY <1>1, <1>2, <1>3

\* A loop or a try is entered; nothing is bound, or the variable of a for.
LEMMA EnterKeeps ==
    ASSUME BodyInv, NEW do \in {"while", "for", "try"}, Reached(do),
           NEW t \in Nat, NEW u \in Nat, Enter(Frame(line, t, u, "next")),
           UNCHANGED data \/ (do = "for" /\ Bind(Here.name, "string") /\ UNCHANGED consts)
    PROVE  BodyInv'
<1>1. /\ BodyTypeOK /\ Text /\ Known /\ line' = line + 1 /\ UNCHANGED <<text, again>>
      /\ UNCHANGED <<sig, outcome, raised, overridden>>
  BY DEF BodyInv, Enter, past
<1>2. /\ line \in DOMAIN body /\ line \in DOMAIN walk /\ line + 1 \in DOMAIN walk /\ line > 0
      /\ line \in Nat /\ Here = body[line] /\ Here.do = do /\ Here \in Statements
  BY ReachedRuns DEF Here
<1>3. Control' /\ frames' \in Seq(Frames)
  BY EnterControl
<1>4. Text'
  BY <1>1, TextStays
<1>5. line <= line' /\ line' \in DOMAIN walk
  BY <1>1, <1>2
<1>6. CASE UNCHANGED data
  <2>1. Known'
    BY <1>1, <1>2, <1>5, <1>6, KnownOnward
  <2>2. BodyTypeOK'
    BY <1>1, <1>3, <1>5, <1>6, RunTypes DEF BodyTypeOK, data
  <2>3. QED
    BY <1>3, <1>4, <2>1, <2>2 DEF BodyInv
<1>7. CASE do = "for" /\ Bind(Here.name, "string") /\ UNCHANGED consts
  <2>1. Here.name \in Names /\ "string" \in Types
    BY <1>2, <1>7, StatementFields DEF Types
  <2>2. ~again => consts' \subseteq walk[line'].consts
    <3>1. ~again => consts \subseteq walk[line].consts
      BY <1>2, <1>1 DEF Known, KnownAt
    <3>2. walk[line + 1].consts = WalkConsts(walk[line].consts, Here)
      BY <1>1, <1>2, LookAt
    <3>3. QED
      BY <1>1, <1>7, <3>1, <3>2 DEF WalkConsts
  <2>3. ~Rebinds => walk[line'].known[Here.name] = Unknown
    BY <1>1, <1>2, <1>7, DeclareFits
  <2>4. Known'
    BY <1>1, <1>2, <1>5, <1>7, <2>1, <2>2, <2>3, BoundKnown
  <2>5. BodyTypeOK'
    <3>1. /\ env' \in [Names -> Types \cup {Undeclared}]
          /\ pipe' \in [Names -> Types \cup {Undeclared}]
          /\ had' \subseteq Names \X Types
      BY <1>1, <1>7, <2>1, BindTypes
    <3>2. QED
      BY <1>1, <1>3, <1>5, <1>7, <3>1, RunTypes DEF BodyTypeOK
  <2>6. QED
    BY <1>3, <1>4, <2>4, <2>5 DEF BodyInv
<1>8. QED
  BY <1>6, <1>7

LEMMA EnterBlockKeeps ==
    ASSUME BodyInv, While \/ For \/ EnterTry
    PROVE  BodyInv'
<1>1. CASE While
  <2>1. MaxTurns \in Nat
    BY BodyAssumption
  <2>2. QED
    BY <1>1, <2>1, PastKeeps, EnterKeeps DEF While, Passes
<1>2. CASE For
  <2>1. CASE Raise("endless")
    <3>1. "endless" \in Signals \cup Errors /\ "endless" # "constant"
      BY DEF Errors
    <3>2. QED
      BY <1>2, <2>1, <3>1, RaiseKeeps DEF For
  <2>2. CASE Passes
    BY <1>2, <2>2, PastKeeps DEF For, Passes
  <2>3. CASE \E n \in 1..MaxTurns :
                /\ Enter(Frame(line, 1, n, "next"))
                /\ Bind(Here.name, "string") /\ UNCHANGED consts
    <3>1. PICK n \in 1..MaxTurns :
             /\ Enter(Frame(line, 1, n, "next"))
             /\ Bind(Here.name, "string") /\ UNCHANGED consts
      BY <2>3
    <3>2. n \in Nat /\ 1 \in Nat
      BY BodyAssumption
    <3>3. QED
      BY <1>2, <3>1, <3>2, EnterKeeps DEF For
  <2>4. QED
    BY <1>2, <2>1, <2>2, <2>3 DEF For
<1>3. CASE EnterTry
  <2>1. 0 \in Nat
    OBVIOUS
  <2>2. QED
    BY <1>3, <2>1, EnterKeeps DEF EnterTry
<1>4. QED
  BY <1>1, <1>2, <1>3

LEMMA LeaveLoopKeeps ==
    ASSUME BodyInv, NEW word \in {"while", "for"}, TurnOver(word), LeaveLoop
    PROVE  BodyInv'
<1>1. /\ BodyTypeOK /\ Text /\ Known /\ line' = line + 1
      /\ UNCHANGED <<text, data, sig, outcome, again, raised, overridden>>
  BY DEF BodyInv, LeaveLoop, past
<1>2. line \in DOMAIN walk /\ line \in Nat
  BY ReachedRuns DEF TurnOver
<1>3. Control' /\ frames' \in Seq(Frames) /\ line' \in DOMAIN walk
  BY LeaveLoopControl
<1>4. Known'
  BY <1>1, <1>2, <1>3, KnownOnward
<1>5. Text'
  BY <1>1, TextStays
<1>6. BodyTypeOK'
  BY <1>1, <1>3, RunTypes DEF BodyTypeOK, data
<1>7. QED
  BY <1>3, <1>4, <1>5, <1>6 DEF BodyInv

LEMMA NextTurnKeeps ==
    ASSUME BodyInv, NEW word \in {"while", "for"}, TurnOver(word), NextTurn,
           \/ UNCHANGED data
           \/ word = "for" /\ Bind(body[Top.at].name, "string") /\ UNCHANGED consts
    PROVE  BodyInv'
<1>1. /\ BodyTypeOK /\ Text /\ again' = TRUE
      /\ UNCHANGED <<text, sig, outcome, raised, overridden>>
  BY DEF BodyInv, NextTurn
<1>2. Control' /\ frames' \in Seq(Frames) /\ line' \in DOMAIN walk
  BY NextTurnControl
<1>3. Known'
  BY <1>1 DEF Known
<1>4. Text'
  BY <1>1, TextStays
<1>5. /\ env' \in [Names -> Types \cup {Undeclared}]
      /\ pipe' \in [Names -> Types \cup {Undeclared}]
      /\ had' \subseteq Names \X Types /\ consts' \subseteq Names
  <2>1. CASE UNCHANGED data
    BY <1>1, <2>1 DEF BodyTypeOK, data
  <2>2. CASE word = "for" /\ Bind(body[Top.at].name, "string") /\ UNCHANGED consts
    <3>1. line > 0 /\ frames # <<>>
      BY ReachedRuns DEF TurnOver
    <3>2. Top.at \in DOMAIN body /\ body[Top.at].do = "for"
      BY <2>2, <3>1, TopFrame DEF TurnOver
    <3>3. body[Top.at].name \in Names /\ "string" \in Types
      BY <1>1, <3>2, Texts, StatementFields DEF Types
    <3>4. consts' \subseteq Names
      BY <1>1, <2>2 DEF BodyTypeOK
    <3>5. QED
      BY <1>1, <2>2, <3>3, <3>4, BindTypes
  <2>3. QED
    BY <2>1, <2>2
<1>6. BodyTypeOK'
  BY <1>1, <1>2, <1>5, RunTypes DEF BodyTypeOK
<1>7. QED
  BY <1>2, <1>3, <1>4, <1>6 DEF BodyInv

LEMMA TurnKeeps ==
    ASSUME BodyInv, WhileTurn \/ ForTurn
    PROVE  BodyInv'
<1>1. ASSUME NEW s \in {"endless", "mistyped"}, Raise(s), Reached("done")
      PROVE  BodyInv'
  <2>1. s \in Signals \cup Errors /\ s # "constant"
    BY DEF Errors
  <2>2. QED
    BY <1>1, <2>1, RaiseKeeps
<1>2. CASE WhileTurn
  <2>1. TurnOver("while") /\ Reached("done")
    BY <1>2 DEF WhileTurn, TurnOver
  <2>2. \/ Raise("endless") \/ LeaveLoop \/ Raise("mistyped") \/ (NextTurn /\ UNCHANGED data)
    BY <1>2 DEF WhileTurn
  <2>3. QED
    BY <1>1, <2>1, <2>2, LeaveLoopKeeps, NextTurnKeeps
<1>3. CASE ForTurn
  <2>1. TurnOver("for")
    BY <1>3 DEF ForTurn
  <2>2. \/ LeaveLoop
        \/ NextTurn /\ Bind(body[Top.at].name, "string") /\ UNCHANGED consts
    BY <1>3 DEF ForTurn
  <2>3. QED
    BY <2>1, <2>2, LeaveLoopKeeps, NextTurnKeeps
<1>4. QED
  BY <1>2, <1>3

LEMMA UnwindKeeps ==
    ASSUME BodyInv, UnwindLoop
    PROVE  BodyInv'
<1>1. /\ BodyTypeOK /\ Text /\ Known /\ Control /\ sig # "next" /\ frames # <<>>
      /\ body[Top.at].do \in {"while", "for"} /\ frames' = Front(frames)
      /\ UNCHANGED <<text, data, line, sig, outcome, again, raised, overridden>>
  BY DEF BodyInv, UnwindLoop, Within, past
<1>2. line > 0 /\ line \in DOMAIN walk
  <2>1. line # 0 /\ line \in Nat
    BY <1>1 DEF Control, Fresh, BodyTypeOK
  <2>2. QED
    BY <1>1, <2>1 DEF Control, Framed
<1>3. UNCHANGED <<body, open, walk>>
  BY <1>1, TextStays
<1>4. /\ Top.at < line /\ line <= Closer(Top.at) /\ Top.pending = "next" /\ outcome = "none"
      /\ Closer(Top.at) \in Nat
  BY <1>1, <1>2, TopFrame, Texts
<1>5. line' \in DOMAIN walk /\ Top.at < line' /\ line' <= Closer(Top.at) + 1 /\ line <= line'
  BY <1>1, <1>2, <1>4, Texts
<1>6. /\ Framed' /\ frames' \in Seq(Frames)
      /\ \A X : (\E i \in DOMAIN frames : frames[i].pending \in X) =>
                   Top.pending \in X \/ \E i \in DOMAIN frames' : frames'[i].pending \in X
      /\ \A i \in DOMAIN frames' : i \in DOMAIN frames /\ frames'[i] = frames[i]
  BY <1>1, <1>2, <1>5, DropFrame
<1>7. Carried'
  <2>1. Top.pending \notin Signals
    BY <1>4 DEF Signals
  <2>2. QED
    BY <1>1, <1>6, <2>1 DEF Control, Carried
<1>8. Fresh' /\ Falls' /\ Returned' /\ Blamed'
  BY <1>1, <1>2, <1>3, <1>4, <1>6 DEF Control, Fresh, Falls, Returned, Blamed
<1>9. Known'
  BY <1>1, <1>2, <1>5, KnownOnward
<1>10. Text'
  BY <1>1, TextStays
<1>11. BodyTypeOK'
  BY <1>1, <1>5, <1>6, RunTypes DEF BodyTypeOK, data
<1>12. QED
  BY <1>6, <1>7, <1>8, <1>9, <1>10, <1>11 DEF BodyInv, Control

\* A section of a try that is over was begun, and its end begins another or is behind it.
LEMMA OverSection ==
    ASSUME BodyInv, NEW word \in {"try", "catch", "finally"}, SectionOver(word)
    PROVE  /\ BodyTypeOK /\ Text /\ Control /\ Known
           /\ line > 0 /\ line \in DOMAIN walk /\ line \in Nat
           /\ frames # <<>> /\ body[Top.at].do = word /\ outcome = "none" /\ open = <<>>
           /\ Top.at \in DOMAIN body /\ Top.at < line /\ line <= Closer(Top.at)
           /\ Top \in Frames
           /\ Closer(Top.at) \in DOMAIN body /\ Top.at < Closer(Top.at)
           /\ body[Closer(Top.at)].do = Closing(word)
           /\ \A i \in 1..(Len(frames) - 1) : Closer(Top.at) < Closer(frames[i].at)
<1>1. /\ BodyTypeOK /\ Text /\ Control /\ Known /\ frames # <<>> /\ body[Top.at].do = word
  BY DEF BodyInv, SectionOver, Within
<1>2. line > 0 /\ line \in DOMAIN walk /\ line \in Nat
  <2>1. line # 0 /\ line \in Nat
    BY <1>1 DEF Control, Fresh, BodyTypeOK
  <2>2. QED
    BY <1>1, <2>1 DEF Control, Framed
<1>3. /\ outcome = "none" /\ open = <<>> /\ Top \in Frames
      /\ Top.at \in DOMAIN body /\ Top.at < line /\ line <= Closer(Top.at)
      /\ Closer(Top.at) \in DOMAIN body
      /\ body[Closer(Top.at)].do = Closing(body[Top.at].do)
      /\ \A i \in 1..(Len(frames) - 1) : Closer(Top.at) < Closer(frames[i].at)
  BY <1>1, <1>2, TopFrame DEF Encloses
<1>4. Top.at < Closer(Top.at)
  BY <1>1, <1>2, <1>3, Texts
<1>5. QED
  BY <1>1, <1>2, <1>3, <1>4

\* The section begun next, and all that its beginning leaves to show is what is bound.
LEMMA SectionKeeps ==
    ASSUME BodyInv, NEW word \in {"try", "catch"}, SectionOver(word),
           NEW at \in DOMAIN body, body[at].do \in {"catch", "finally"}, Top.at < at, line <= at,
           \A i \in 1..(Len(frames) - 1) : at < Closer(frames[i].at),
           NEW p \in Endings, p \in {"next", sig}, p # "next" => body[at].do = "finally",
           sig \in Signals => p = sig,
           Section(at, p), UNCHANGED <<again, raised, overridden>>,
           \/ UNCHANGED data
           \/ body[at].do = "catch" /\ Bind(body[at].name, "string") /\ UNCHANGED consts
    PROVE  BodyInv'
<1>1. /\ BodyTypeOK /\ Text /\ Known /\ line > 0 /\ frames # <<>> /\ line \in DOMAIN walk
      /\ body[Top.at].do = word
  BY OverSection
<1>2. Control' /\ frames' \in Seq(Frames) /\ line' \in DOMAIN walk /\ line <= line'
  BY <1>1, SectionControl
<1>3. UNCHANGED <<text, outcome, again, raised, overridden>> /\ sig' = "next" /\ line' = at + 1
  BY DEF Section
<1>4. Text'
  BY <1>1, <1>3, TextStays
<1>5. sig' \in Endings
  BY <1>3 DEF Endings
<1>6. CASE UNCHANGED data
  <2>1. Known'
    BY <1>1, <1>2, <1>3, <1>6, KnownOnward
  <2>2. BodyTypeOK'
    BY <1>1, <1>2, <1>3, <1>5, <1>6, RunTypes DEF BodyTypeOK, data
  <2>3. QED
    BY <1>2, <1>4, <2>1, <2>2 DEF BodyInv
<1>7. CASE body[at].do = "catch" /\ Bind(body[at].name, "string") /\ UNCHANGED consts
  <2>1. body[at].name \in Names /\ "string" \in Types
    BY <1>1, <1>7, Texts, StatementFields DEF Types
  <2>2. ~again => consts' \subseteq walk[line'].consts
    <3>1. ~again => consts \subseteq walk[line].consts
      BY <1>1 DEF Known, KnownAt
    <3>2. Widens(walk[line], walk[line'])
      BY <1>1, <1>2 DEF Text, Walked
    <3>3. QED
      BY <1>7, <3>1, <3>2 DEF Widens
  <2>3. ~Rebinds => walk[line'].known[body[at].name] = Unknown
    BY <1>1, <1>3, <1>7, DeclareFits
  <2> DEFINE n == body[at].name
  <2> HIDE DEF n
  <2>4. n \in Names /\ Bind(n, "string")
    BY <1>7, <2>1 DEF n
  <2>5. ~again /\ ~Rebinds => walk[line'].known[n] \in {Unknown, "string"}
    BY <2>3 DEF n
  <2>6. Known'
    BY <1>1, <1>2, <1>3, <2>1, <2>2, <2>4, <2>5, BoundKnown
  <2>7. BodyTypeOK'
    <3>1. /\ env' \in [Names -> Types \cup {Undeclared}]
          /\ pipe' \in [Names -> Types \cup {Undeclared}]
          /\ had' \subseteq Names \X Types
      BY <1>1, <2>1, <2>4, BindTypes
    <3>2. QED
      BY <1>1, <1>2, <1>3, <1>5, <1>7, <3>1, RunTypes DEF BodyTypeOK
  <2>8. QED
    BY <1>2, <1>4, <2>6, <2>7 DEF BodyInv
<1>8. QED
  BY <1>6, <1>7

LEMMA CatchKeeps ==
    ASSUME BodyInv, Catch
    PROVE  BodyInv'
<1> DEFINE at == Closer(Top.at)
<1>1. /\ SectionOver("try") /\ Caught(sig) /\ Section(at, "next")
      /\ Bind(body[at].name, "string") /\ UNCHANGED consts /\ UNCHANGED <<again, raised, overridden>>
  BY DEF Catch, Section, past
<1>2. /\ at \in DOMAIN body /\ body[at].do = "catch" /\ Top.at < at /\ line <= at
      /\ \A i \in 1..(Len(frames) - 1) : at < Closer(frames[i].at)
  BY <1>1, OverSection DEF Closing
<1>3. sig \notin Signals /\ "next" \in Endings
  BY <1>1 DEF Caught, IsControlSignal, Endings
<1> HIDE DEF at
<1>4. QED
  BY <1>1, <1>2, <1>3, SectionKeeps

LEMMA SkipCatchKeeps ==
    ASSUME BodyInv, SkipCatch
    PROVE  BodyInv'
<1> DEFINE c == Closer(Top.at)
           at == Closer(c)
<1>1. /\ SectionOver("try") /\ ~Caught(sig) /\ Section(at, sig) /\ UNCHANGED data
      /\ UNCHANGED <<again, raised, overridden>>
  BY DEF SkipCatch, Section, past
<1>2. /\ BodyTypeOK /\ Text /\ Control /\ open = <<>> /\ line \in Nat
      /\ Top.at \in DOMAIN body
      /\ c \in DOMAIN body /\ body[c].do = "catch" /\ Top.at < c /\ line <= c
      /\ \A i \in 1..(Len(frames) - 1) : c < Closer(frames[i].at)
      /\ frames # <<>> /\ line > 0
  BY <1>1, OverSection DEF Closing
<1>3. Begins(body[c]) /\ Closing("catch") = "finally"
  BY <1>2 DEF Begins, Closing
<1>4. at \in DOMAIN body /\ body[at].do = "finally" /\ c < at
  BY <1>2, <1>3, CloserEnds DEF Text
<1>5. Top.at < at /\ line <= at
  BY <1>2, <1>4, Texts
<1>6. ASSUME NEW i \in 1..(Len(frames) - 1)
      PROVE  at < Closer(frames[i].at)
  <2>1. frames[i].at < Top.at /\ frames[i].at \in DOMAIN body /\ Begins(body[frames[i].at])
    BY <1>2, TopFrame DEF Encloses
  <2>2. frames[i].at < c /\ c < Closer(frames[i].at)
    BY <1>2, <2>1, Texts
  <2>3. QED
    BY <1>2, <1>3, <2>1, <2>2, BlocksNest DEF Text
<1>7. sig \in Endings
  BY <1>2 DEF BodyTypeOK
<1> HIDE DEF at
<1>8. QED
  BY <1>1, <1>4, <1>5, <1>6, <1>7, SectionKeeps

LEMMA CatchOverKeeps ==
    ASSUME BodyInv, CatchOver
    PROVE  BodyInv'
<1> DEFINE at == Closer(Top.at)
<1>1. /\ SectionOver("catch") /\ Section(at, sig) /\ UNCHANGED data
      /\ UNCHANGED <<again, raised, overridden>>
  BY DEF CatchOver, Section, past
<1>2. /\ at \in DOMAIN body /\ body[at].do = "finally" /\ Top.at < at /\ line <= at
      /\ \A i \in 1..(Len(frames) - 1) : at < Closer(frames[i].at)
  BY <1>1, OverSection DEF Closing
<1>3. sig \in Endings
  BY DEF BodyInv, BodyTypeOK
<1> HIDE DEF at
<1>4. QED
  BY <1>1, <1>2, <1>3, SectionKeeps

LEMMA FinallyOverKeeps ==
    ASSUME BodyInv, FinallyOver
    PROVE  BodyInv'
<1> DEFINE p == Top.pending
<1>1. /\ SectionOver("finally") /\ sig' = (IF sig = "next" THEN p ELSE sig)
      /\ overridden' = (overridden \/ (sig # "next" /\ p # "next"))
      /\ line' = Closer(Top.at) + 1 /\ frames' = Front(frames)
      /\ UNCHANGED <<text, data, outcome, again, raised>>
  BY DEF FinallyOver, Finish
<1>2. /\ BodyTypeOK /\ Text /\ Control /\ Known
      /\ line > 0 /\ line \in DOMAIN walk /\ line \in Nat
      /\ frames # <<>> /\ outcome = "none" /\ open = <<>> /\ Top \in Frames
      /\ Top.at \in DOMAIN body /\ Top.at < line /\ line <= Closer(Top.at)
      /\ Closer(Top.at) \in DOMAIN body /\ Top.at < Closer(Top.at)
      /\ body[Closer(Top.at)].do = "end"
  BY <1>1, OverSection DEF Closing
<1>3. UNCHANGED <<body, open, walk>>
  BY <1>1, <1>2, TextStays
<1>4. /\ line' \in DOMAIN walk /\ Top.at < line' /\ line' <= Closer(Top.at) + 1
      /\ line <= line' /\ line' > 0
  BY <1>1, <1>2, Texts DEF Text, Walked
<1>5. /\ Framed' /\ frames' \in Seq(Frames)
      /\ \A X : (\E i \in DOMAIN frames : frames[i].pending \in X) =>
                   Top.pending \in X \/ \E i \in DOMAIN frames' : frames'[i].pending \in X
      /\ \A i \in DOMAIN frames' : i \in DOMAIN frames /\ frames'[i] = frames[i]
  BY <1>1, <1>2, <1>4, DropFrame
<1>6. p \in Endings /\ sig \in Endings /\ overridden \in BOOLEAN
  BY <1>2 DEF Frames, BodyTypeOK
<1>7. Len(frames) \in DOMAIN frames /\ p = frames[Len(frames)].pending
  BY <1>2, TopFrame
<1>8. Falls'
  <2>1. ~walk[Closer(Top.at) + 1].diverts
    BY <1>2, NotDiverting
  <2>2. QED
    BY <1>1, <1>3, <2>1 DEF Falls
<1> HIDE DEF p
\* A signal pending here is under way again, or overridden by what finally came to.
<1>9. Carried'
  <2>1. raised # {} => overridden \/ sig \in Signals \/ p \in Signals
                        \/ \E i \in DOMAIN frames' : frames'[i].pending \in Signals
    BY <1>2, <1>5 DEF Control, Carried, p
  <2>2. "next" \notin Signals
    BY DEF Signals
  <2>3. QED
    BY <1>1, <2>1, <2>2 DEF Carried
<1>10. Blamed'
  <2>1. ~again /\ (\/ sig = "constant" \/ p = "constant"
                   \/ \E i \in DOMAIN frames' : frames'[i].pending = "constant")
        => ~Last(walk).clean
    BY <1>2, <1>5, <1>7 DEF Control, Blamed
  <2>2. QED
    BY <1>1, <1>3, <2>1 DEF Blamed
<1>11. Fresh' /\ Returned'
  BY <1>1, <1>2, <1>4 DEF Fresh, Returned
<1>12. Known'
  BY <1>1, <1>2, <1>4, KnownOnward
<1>13. Text'
  BY <1>1, <1>2, TextStays
<1>14. BodyTypeOK'
  <2>1. sig' \in Endings /\ overridden' \in BOOLEAN
    BY <1>1, <1>6
  <2>2. QED
    BY <1>1, <1>2, <1>4, <1>5, <2>1, RunTypes DEF BodyTypeOK, data
<1>15. QED
  BY <1>5, <1>8, <1>9, <1>10, <1>11, <1>12, <1>13, <1>14 DEF BodyInv, Control

LEMMA RunStepKeeps ==
    ASSUME BodyInv, RunStep
    PROVE  BodyInv'
<1>1. /\ BodyTypeOK /\ Text /\ Control /\ Known
      /\ line > 0 /\ frames = <<>> /\ (sig # "next" \/ line = Len(body) + 1)
      /\ outcome' = IF sig = "return" THEN "next" ELSE sig
      /\ UNCHANGED <<text, data, line, sig, frames, again, raised, overridden>>
  BY DEF BodyInv, RunStep, past
<1>2. UNCHANGED <<body, open, walk>> /\ Text' /\ \A b : Closer(b)' = Closer(b)
  BY <1>1, TextStays
<1>3. line \in DOMAIN walk /\ line \in Nat
  BY <1>1, Texts DEF Control, Framed
<1>4. Framed'
  BY <1>1, <1>2 DEF Control, Framed
<1>5. Fresh' /\ Falls' /\ Carried' /\ Blamed' /\ Returned'
  BY <1>1, <1>2 DEF Control, Fresh, Falls, Carried, Blamed, Returned
<1>6. Known'
  BY <1>1, <1>3, KnownOnward
<1>7. outcome' \in {"none", "next", "goto"} \cup Errors
  BY <1>1 DEF BodyTypeOK, Endings, Signals
<1>8. BodyTypeOK'
  BY <1>1, <1>2, <1>7 DEF BodyTypeOK, data
<1>9. QED
  BY <1>2, <1>4, <1>5, <1>6, <1>8 DEF BodyInv, Control

LEMMA StepBegins == StepInit => BodyInv
<1> SUFFICES ASSUME StepInit PROVE BodyInv
  OBVIOUS
<1>1. /\ Given \in [Names -> Types \cup {Unknown, Undeclared}]
      /\ Given \in [Names -> Types \cup {Undeclared}]
  BY DEF Given, Types
<1> DEFINE v == [consts |-> Inputs, clean |-> TRUE, known |-> Given, diverts |-> FALSE]
<1>2. v \in Views /\ Inputs \subseteq Names
  BY <1>1 DEF Views, Names
<1>3. /\ body = <<>> /\ open = <<>> /\ walk = <<v>> /\ line = 0 /\ sig = "next" /\ frames = <<>>
      /\ outcome = "none" /\ env = [n \in Names |-> Undeclared] /\ pipe = Given /\ consts = Inputs
      /\ had = {} /\ again = FALSE /\ raised = {} /\ overridden = FALSE
  BY DEF StepInit
<1> HIDE DEF v
<1>4. BodyTypeOK
  <2>1. /\ <<>> \in Seq(Statements) /\ <<>> \in Seq(Nat) /\ <<v>> \in Seq(Views)
        /\ <<>> \in Seq(Frames)
    BY <1>2
  <2>2. /\ body \in Seq(Statements) /\ open \in Seq(Nat) /\ walk \in Seq(Views)
        /\ frames \in Seq(Frames)
    BY <1>3, <2>1
  <2>3. /\ line \in Nat /\ sig \in Endings /\ outcome \in {"none"}
        /\ env \in [Names -> Types \cup {Undeclared}]
        /\ pipe \in [Names -> Types \cup {Undeclared}]
        /\ consts \subseteq Names /\ had \subseteq Names \X Types
    BY <1>1, <1>2, <1>3 DEF Endings
  <2>4. again \in BOOLEAN /\ raised \subseteq Signals /\ overridden \in BOOLEAN
    BY <1>3
  <2>5. QED
    BY <2>2, <2>3, <2>4 DEF BodyTypeOK
<1>5. Marked
  BY <1>3 DEF Marked
<1>6. Walked
  <2>1. Len(walk) = 1 /\ DOMAIN walk = {1} /\ walk[1] = v /\ Len(body) = 0 /\ DOMAIN body = {}
    BY <1>3
  <2>2. Widens(v, v)
    BY <1>2 DEF Widens
  <2>3. \A n \in Names : v.known[n] \notin {Undeclared, Unknown} => Assigned(n)
    BY DEF v, Given, Assigned
  <2>4. walk[1] = [consts |-> Inputs, clean |-> TRUE, known |-> Given, diverts |-> FALSE]
    BY <2>1 DEF v
  <2>5. /\ \A k, l \in DOMAIN walk : k <= l => Widens(walk[k], walk[l])
        /\ \A k \in DOMAIN walk : \A n \in Names :
              walk[k].known[n] \notin {Undeclared, Unknown} => Assigned(n)
    BY <2>1, <2>2, <2>3, Zenon
  <2>6. Len(walk) = Len(body) + 1
    BY <2>1
  <2>7. QED
    BY <2>1, <2>4, <2>5, <2>6 DEF Walked
<1>7. Control
  BY <1>3 DEF Control, Fresh, Framed, Falls, Carried, Blamed, Returned
<1>8. Known
  BY <1>3 DEF Known
<1>9. QED
  BY <1>4, <1>5, <1>6, <1>7, <1>8 DEF BodyInv, Text

LEMMA StepsKeep == BodyInv /\ [StepNext]_stepVars => BodyInv'
<1> SUFFICES ASSUME BodyInv, [StepNext]_stepVars PROVE BodyInv'
  OBVIOUS
<1>1. CASE WritePlain \/ WriteOpener \/ WriteMark
  BY <1>1, WriteKeeps
<1>2. CASE Begin
  BY <1>2, BeginKeeps
<1>3. CASE Const \/ Var \/ Assign \/ AssignSelf
  BY <1>3, StatementsKeep
<1>4. CASE Leave \/ Mistyped
  BY <1>4, LeaveKeeps
<1>5. CASE If \/ EndThen \/ EndIf
  BY <1>5, IfKeeps
<1>6. CASE While \/ For \/ EnterTry
  BY <1>6, EnterBlockKeeps
<1>7. CASE WhileTurn \/ ForTurn
  BY <1>7, TurnKeeps
<1>8. CASE UnwindLoop
  BY <1>8, UnwindKeeps
<1>9. CASE Catch \/ SkipCatch \/ CatchOver
  BY <1>9, CatchKeeps, SkipCatchKeeps, CatchOverKeeps
<1>10. CASE FinallyOver
  BY <1>10, FinallyOverKeeps
<1>11. CASE RunStep
  BY <1>11, RunStepKeeps
<1>12. CASE UNCHANGED stepVars
  <2>1. /\ BodyTypeOK /\ Text /\ Control /\ Known /\ UNCHANGED text
        /\ UNCHANGED <<line, sig, frames, env, pipe, consts, had, outcome, again, raised, overridden>>
    BY <1>12 DEF BodyInv, stepVars, text, data, past
  <2>2. /\ UNCHANGED <<body, open, walk>> /\ Text' /\ Rebinds' = Rebinds
        /\ \A b : Closer(b)' = Closer(b)
    BY <2>1, TextStays
  <2>3. BodyTypeOK'
    BY <2>1, <2>2 DEF BodyTypeOK
  <2>4. Framed'
    BY <2>1, <2>2 DEF Control, Framed
  <2>5. Fresh' /\ Falls' /\ Carried' /\ Blamed' /\ Returned'
    BY <2>1, <2>2 DEF Control, Fresh, Falls, Carried, Blamed, Returned
  <2>6. Known'
    BY <2>1, <2>2 DEF Known, KnownAt, Fits
  <2>7. QED
    BY <2>2, <2>3, <2>4, <2>5, <2>6 DEF BodyInv, Control
<1>13. QED
  BY <1>1, <1>2, <1>3, <1>4, <1>5, <1>6, <1>7, <1>8, <1>9, <1>10, <1>11, <1>12 DEF StepNext

\* The invariant of the text, of lint's walks and of the run holds, whatever is written and
\* however its conditions come out.
THEOREM BodyInvariant == StepSpec => []BodyInv
  BY StepBegins, StepsKeep, PTL DEF StepSpec

\* The text, lint's walks and the run keep their types.
THEOREM BodyTypeCorrect == StepSpec => []BodyTypeOK
<1>1. BodyInv => BodyTypeOK
  BY DEF BodyInv
<1>2. QED
  BY <1>1, BodyInvariant, PTL

\* checkConstReassign foretells every stop at a constant (const.go against
\* checkConstAssign) of a body of any length, until a loop comes round again.
THEOREM ConstIsForetold == StepSpec => []ConstForetold
<1>1. BodyInv => ConstForetold
  BY DEF BodyInv, Control, Blamed, ConstForetold
<1>2. QED
  BY <1>1, BodyInvariant, PTL

\* A list alwaysDiverts speaks for (fallthrough.go) does not run off its end, however its
\* blocks nest, unless it returned.
THEOREM DivertsAreForetold == StepSpec => []DivertsForetold
<1>1. ASSUME BodyInv, outcome = "next", Last(walk).diverts
      PROVE  sig = "return"
  <2>1. /\ BodyTypeOK /\ Walked /\ Fresh /\ Falls /\ Returned /\ outcome # "none"
    BY <1>1 DEF BodyInv, Text, Control
  <2>2. /\ line # 0 /\ line \in Nat
        /\ sig # "next" \/ line = Len(body) + 1
        /\ outcome = IF sig = "return" THEN "next" ELSE sig
    BY <2>1 DEF Fresh, Returned, BodyTypeOK
  <2>3. CASE sig = "next"
    <3>1. line > 0 /\ Last(walk) = walk[line]
      BY <2>1, <2>2, <2>3 DEF Walked, Last
    <3>2. QED
      BY <1>1, <2>1, <2>3, <3>1 DEF Falls
  <2>4. QED
    BY <1>1, <2>2, <2>3
<1>2. BodyInv => DivertsForetold
  BY <1>1 DEF DivertsForetold
<1>3. QED
  BY <1>2, BodyInvariant, PTL

\* A name whose type lint infers (collectVarNames, mergeVarType) is bound to nothing else,
\* for any names and any body, until a loop comes round again.
THEOREM TypesAreForetold == StepSpec => []TypesForetold
<1>1. ASSUME BodyInv, ~again, ~Rebinds, NEW p \in had
      PROVE  Last(walk).known[p[1]] \in {Unknown, p[2]}
  <2>1. /\ BodyTypeOK /\ Walked /\ Fresh /\ Framed /\ Known
    BY <1>1 DEF BodyInv, Text, Control
  <2>2. line # 0 /\ line \in Nat
    BY <1>1, <2>1 DEF Fresh, BodyTypeOK
  <2>3. line \in DOMAIN walk /\ KnownAt(line)
    BY <1>1, <2>1, <2>2 DEF Framed, Known
  <2>4. Len(walk) \in DOMAIN walk /\ line <= Len(walk) /\ Last(walk) = walk[Len(walk)]
    BY <2>1, <2>3, Texts DEF Last
  <2>5. KnownAt(Len(walk))
    BY <2>1, <2>3, <2>4, LaterKnown
  <2>6. QED
    BY <1>1, <2>4, <2>5 DEF KnownAt, Fits
<1>2. BodyInv => TypesForetold
  BY <1>1 DEF TypesForetold
<1>3. QED
  BY <1>2, BodyInvariant, PTL

\* A step that runs off its end raised no signal (execTry unwinds past every section),
\* unless a finally came to something else meanwhile.
THEOREM SignalsDoLeave == StepSpec => []SignalsLeave
<1>1. ASSUME BodyInv, outcome = "next", sig # "return", ~overridden
      PROVE  raised = {}
  <2>1. Carried /\ Returned
    BY <1>1 DEF BodyInv, Control
  <2>2. frames = <<>> /\ sig = "next" /\ "next" \notin Signals
    BY <1>1, <2>1 DEF Returned, Signals
  <2>3. QED
    BY <1>1, <2>1, <2>2 DEF Carried
<1>2. BodyInv => SignalsLeave
  BY <1>1 DEF SignalsLeave
<1>3. QED
  BY <1>2, BodyInvariant, PTL
=============================================================================
