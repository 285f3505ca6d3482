------------------------- MODULE ExtensionProcessProofs -------------------------
(***************************************************************************)
(* Theorems about ExtensionProcess, for any number of callers, restarts    *)
(* and children, whatever of Faults a child does.                          *)
(***************************************************************************)
EXTENDS ExtensionProcess, FiniteSetTheorems, TLAPS

USE ProcessAssumption

-----------------------------------------------------------------------------
(* The inductive invariant.                                                *)

\* Children are started in order, and one not started has no reader.
Numbered ==
    \A g \in Kid :
       /\ kid[g].child = "none" <=> g > Cardinality(Started)
       /\ kid[g].child = "none" =>
             kid[g].reader = "over" /\ kid[g].target = None /\ ~kid[g].closed

\* A process that is closed has exited; a reader has a target only while it delivers.
Reading ==
    \A g \in Kid :
       /\ kid[g].closed => ~Up(g)
       /\ kid[g].target # None => kid[g].reader = "deliver"

\* A call under way is about a child; a handshake has the mutex, taken when there was
\* no child that could be used.
Placed ==
    /\ \A c \in Caller :
          /\ caller[c].pc \notin {"idle", "enter"} => caller[c].kid \in Kid
          /\ caller[c].op = "initialize" => ext.mu = c
    /\ ext.mu # None /\ ext.proc # 0 => kid[ext.proc].closed
    /\ closer.pc \in {"notify", "writing", "grace"} => closer.kid \in Kid

\* A request about to be written is in the table, unless the process is closed.
Tabled ==
    \A c \in Caller : caller[c].pc = "write" =>
       c \in kid[caller[c].kid].pending \/ kid[caller[c].kid].closed

IInv == TypeOK /\ Numbered /\ Reading /\ Placed /\ Tabled /\ NoOrphan /\ NobodyForgotten

Memory(k, c, chan) ==
    c \in k.pending \cap k.asked \/ k.target = c \/ c \in k.tell \/ chan # "empty"

-----------------------------------------------------------------------------
(* Types.                                                                  *)

LEMMA Fields ==
    ASSUME TypeOK
    PROVE  /\ kid \in [Kid -> Kids] /\ \A g \in Kid : kid[g] \in Kids
           /\ caller \in [Caller -> Callers] /\ \A c \in Caller : caller[c] \in Callers
           /\ ext \in [proc : 0..MaxKids, restarts : 0..MaxRestarts, mu : Caller \cup {None}]
           /\ closer \in [pc : {"idle", "notify", "writing", "grace", "over"}, kid : 0..MaxKids]
           /\ ext.proc # 0 => ext.proc \in Kid
           /\ 0 \notin Kid
BY DEF TypeOK, Kid

LEMMA IdleType == Idle \in Callers
BY DEF Idle, Callers

LEMMA StartedFinite == IsFiniteSet(Started) /\ Cardinality(Started) \in Nat
<1>1. IsFiniteSet(Kid) /\ Started \subseteq Kid
  BY FS_Interval DEF Kid, Started
<1> QED
  BY <1>1, FS_Subset, FS_CardinalityType

LEMMA LeftFields ==
    ASSUME NEW k \in Kids, NEW c \in Caller, NEW unread \in BOOLEAN
    PROVE  LET left == Left(k, c, unread) IN
           /\ left \in Kids
           /\ left.child = k.child /\ left.closed = k.closed /\ left.deaf = k.deaf
           /\ left.killed = k.killed
           /\ left.pending = k.pending \ {c} /\ left.asked = k.asked \ {c}
           /\ left.tell = k.tell \ {c}
           /\ left.target = IF k.target = c THEN None ELSE k.target
           /\ k.target # c => left.reader = k.reader
<1> DEFINE left == Left(k, c, unread)
<1>1. left \in Kids
  BY DEF Left, Kids
<1>2. /\ left.child = k.child /\ left.closed = k.closed /\ left.deaf = k.deaf
      /\ left.killed = k.killed
      /\ left.pending = k.pending \ {c} /\ left.asked = k.asked \ {c}
      /\ left.tell = k.tell \ {c}
      /\ left.target = IF k.target = c THEN None ELSE k.target
      /\ k.target # c => left.reader = k.reader
  BY DEF Left, Kids
<1> HIDE DEF left
<1> QED
  BY <1>1, <1>2 DEF left

LEMMA LeftType ==
    ASSUME NEW k \in Kids, NEW c \in Caller, NEW unread \in BOOLEAN, NEW yes \in BOOLEAN
    PROVE  LET new == Killed(Left(k, c, unread), yes) IN
           /\ new \in Kids
           /\ new.child = k.child /\ new.closed = k.closed /\ new.deaf = k.deaf
           /\ k.killed \/ yes => new.killed
           /\ new.pending = k.pending \ {c} /\ new.asked = k.asked \ {c}
           /\ new.tell = k.tell \ {c}
           /\ new.target = IF k.target = c THEN None ELSE k.target
           /\ k.target # c => new.reader = k.reader
<1> DEFINE left == Left(k, c, unread)
<1>1. left \in Kids
  BY LeftFields
<1>2. /\ left.child = k.child /\ left.closed = k.closed /\ left.deaf = k.deaf
      /\ left.killed = k.killed
      /\ left.pending = k.pending \ {c} /\ left.asked = k.asked \ {c}
      /\ left.tell = k.tell \ {c}
      /\ left.target = IF k.target = c THEN None ELSE k.target
      /\ k.target # c => left.reader = k.reader
  BY LeftFields
<1> HIDE DEF left
<1>3. /\ Killed(left, yes) \in Kids
      /\ left.killed \/ yes => Killed(left, yes).killed
  <2>1. CASE yes
    <3>1. Killed(left, yes) = [left EXCEPT !.killed = TRUE]
      BY <2>1 DEF Killed
    <3>2. [left EXCEPT !.killed = TRUE] \in Kids
      BY <1>1 DEF Kids
    <3>3. [left EXCEPT !.killed = TRUE].killed
      BY <1>1 DEF Kids
    <3> QED
      BY <3>1, <3>2, <3>3
  <2>2. CASE ~ yes
    <3>1. Killed(left, yes) = left
      BY <2>2 DEF Killed
    <3> QED
      BY <1>1, <2>2, <3>1
  <2> QED
    BY <2>1, <2>2
<1>4. /\ Killed(left, yes).child = left.child /\ Killed(left, yes).closed = left.closed
      /\ Killed(left, yes).deaf = left.deaf /\ Killed(left, yes).pending = left.pending
      /\ Killed(left, yes).asked = left.asked /\ Killed(left, yes).tell = left.tell
      /\ Killed(left, yes).target = left.target /\ Killed(left, yes).reader = left.reader
  BY <1>1 DEF Killed, Kids
<1> QED
  BY <1>2, <1>3, <1>4 DEF left

-----------------------------------------------------------------------------
(* A caller's step.                                                        *)

\* What a step of c leaves alone of the children: their lives, and the other callers.
Gently(c) ==
    /\ kid' \in [Kid -> Kids]
    /\ \A h \in Kid :
          /\ kid'[h].child = kid[h].child /\ kid'[h].closed = kid[h].closed
          /\ kid[h].killed => kid'[h].killed
          /\ kid'[h].child = "none" => kid'[h].reader = "over" /\ kid'[h].target = None
          /\ kid'[h].target # None => kid'[h].reader = "deliver"
          /\ \A d \in Caller \ {c} :
                /\ d \in kid[h].pending => d \in kid'[h].pending
                /\ d \in kid[h].asked => d \in kid'[h].asked
                /\ d \in kid[h].tell => d \in kid'[h].tell
                /\ kid[h].target = d => kid'[h].target = d

LEMMA SameIsGentle ==
    ASSUME IInv, NEW c \in Caller, kid' = kid
    PROVE  Gently(c)
BY Fields DEF IInv, Gently, Numbered, Reading

LEMMA ChangeIsGentle ==
    ASSUME IInv, NEW c \in Caller, NEW g \in Kid, NEW new \in Kids,
           kid' = [kid EXCEPT ![g] = new],
           new.child = kid[g].child, new.closed = kid[g].closed,
           kid[g].killed => new.killed,
           \/ new.target = kid[g].target /\ new.reader = kid[g].reader
           \/ kid[g].target = c /\ new.target = None,
           kid[g].pending \ {c} \subseteq new.pending,
           kid[g].asked \ {c} \subseteq new.asked,
           kid[g].tell \ {c} \subseteq new.tell
    PROVE  Gently(c)
<1>1. TypeOK /\ Numbered /\ Reading
  BY DEF IInv
<1>2. kid \in [Kid -> Kids] /\ kid' \in [Kid -> Kids] /\ kid'[g] = new
  BY <1>1, Fields
<1>3. \A h \in Kid : h # g => kid'[h] = kid[h]
  BY <1>2
<1> SUFFICES ASSUME NEW h \in Kid
             PROVE  /\ kid'[h].child = kid[h].child /\ kid'[h].closed = kid[h].closed
                    /\ kid[h].killed => kid'[h].killed
                    /\ kid'[h].child = "none" => kid'[h].reader = "over" /\ kid'[h].target = None
                    /\ kid'[h].target # None => kid'[h].reader = "deliver"
                    /\ \A d \in Caller \ {c} :
                          /\ d \in kid[h].pending => d \in kid'[h].pending
                          /\ d \in kid[h].asked => d \in kid'[h].asked
                          /\ d \in kid[h].tell => d \in kid'[h].tell
                          /\ kid[h].target = d => kid'[h].target = d
  BY <1>2 DEF Gently
<1>4. CASE h # g
  BY <1>1, <1>3, <1>4 DEF Numbered, Reading
<1>5. CASE h = g
  BY <1>1, <1>2, <1>5 DEF Numbered, Reading
<1> QED
  BY <1>4, <1>5

LEMMA CallerKeeps ==
    ASSUME IInv, NEW c \in Caller, NEW rec \in Callers, Gently(c),
           caller' = [caller EXCEPT ![c] = rec], closer' = closer,
           ext' \in [proc : 0..MaxKids, restarts : 0..MaxRestarts, mu : Caller \cup {None}],
           rec.pc \notin {"idle", "enter"} => rec.kid \in Kid,
           rec.pc = "write" => c \in kid'[rec.kid].pending \/ kid'[rec.kid].closed,
           rec.pc = "await" => Memory(kid'[rec.kid], c, rec.chan),
           rec.op = "initialize" => ext'.mu = c,
           ext'.mu = ext.mu \/ (ext.mu = c /\ ext'.mu = None),
           ext'.proc = ext.proc \/ (ext.mu = c /\ ext'.mu = None),
           caller[c].op = "initialize" =>
              \/ kid'[caller[c].kid].killed
              \/ ext'.proc = caller[c].kid
              \/ rec.op = "initialize" /\ rec.kid = caller[c].kid
    PROVE  IInv'
<1>1. TypeOK /\ Numbered /\ Reading /\ Placed /\ Tabled /\ NoOrphan /\ NobodyForgotten
  BY DEF IInv
<1>2. /\ caller'[c] = rec /\ \A d \in Caller \ {c} : caller'[d] = caller[d]
      /\ caller' \in [Caller -> Callers]
  BY <1>1, Fields
<1>3. TypeOK'
  BY <1>1, <1>2 DEF TypeOK, Gently
<1>4. Numbered'
  <2>1. Started' = Started
    BY DEF Started, Gently
  <2> QED
    BY <1>1, <2>1 DEF Numbered, Gently
<1>5. Reading'
  BY <1>1 DEF Reading, Gently, Up
<1>6. Placed'
  <2>1. \A d \in Caller :
           /\ caller'[d].pc \notin {"idle", "enter"} => caller'[d].kid \in Kid
           /\ caller'[d].op = "initialize" => ext'.mu = d
    <3> SUFFICES ASSUME NEW d \in Caller
                 PROVE  /\ caller'[d].pc \notin {"idle", "enter"} => caller'[d].kid \in Kid
                        /\ caller'[d].op = "initialize" => ext'.mu = d
      OBVIOUS
    <3>1. CASE d = c
      BY <1>2, <3>1
    <3>2. CASE d # c
      BY <1>1, <1>2, <3>2 DEF Placed
    <3> QED
      BY <3>1, <3>2
  <2>2. ext'.mu # None /\ ext'.proc # 0 => kid'[ext'.proc].closed
    <3> SUFFICES ASSUME ext'.mu # None, ext'.proc # 0
                 PROVE  kid'[ext'.proc].closed
      OBVIOUS
    <3>1. ext'.mu = ext.mu /\ ext'.proc = ext.proc
      OBVIOUS
    <3> QED
      BY <1>1, <3>1, Fields DEF Placed, Gently
  <2> QED
    BY <1>1, <2>1, <2>2 DEF Placed
<1>7. Tabled'
  <2> SUFFICES ASSUME NEW d \in Caller, caller'[d].pc = "write"
               PROVE  d \in kid'[caller'[d].kid].pending \/ kid'[caller'[d].kid].closed
    BY DEF Tabled
  <2>1. CASE d = c
    BY <1>2, <2>1
  <2>2. CASE d # c
    BY <1>1, <1>2, <2>2 DEF Tabled, Placed, Gently
  <2> QED
    BY <2>1, <2>2
<1>8. NobodyForgotten'
  <2> SUFFICES ASSUME NEW d \in Caller, caller'[d].pc = "await"
               PROVE  Memory(kid'[caller'[d].kid], d, caller'[d].chan)
    BY DEF NobodyForgotten, Memory
  <2>1. CASE d = c
    BY <1>2, <2>1
  <2>2. CASE d # c
    <3>1. caller'[d] = caller[d] /\ caller[d].kid \in Kid
      BY <1>1, <1>2, <2>2 DEF Placed
    <3>2. Memory(kid[caller[d].kid], d, caller[d].chan)
      BY <1>1, <3>1 DEF NobodyForgotten, Memory
    <3> QED
      BY <2>2, <3>1, <3>2 DEF Memory, Gently
  <2> QED
    BY <2>1, <2>2
<1>9. NoOrphan'
  <2> SUFFICES ASSUME NEW h \in Kid, Up(h)'
               PROVE  ext'.proc = h \/ Handshaking(h)' \/ Closing(h)' \/ kid'[h].killed
    BY DEF NoOrphan
  <2>1. Up(h)
    BY DEF Up, Gently
  <2>2. CASE ext.proc = h
    <3>1. ext'.proc = ext.proc
      <4> SUFFICES ASSUME ext.mu = c
                   PROVE  FALSE
        OBVIOUS
      <4>1. kid[h].closed
        BY <1>1, <2>2, Fields DEF Placed
      <4> QED
        BY <1>1, <2>1, <4>1 DEF Reading
    <3> QED
      BY <2>2, <3>1
  <2>3. CASE Handshaking(h)
    <3>1. PICK d \in Caller : ext.mu = d /\ caller[d].kid = h /\ caller[d].op = "initialize"
      BY <2>3 DEF Handshaking
    <3>2. CASE d = c
      BY <1>2, <3>1, <3>2 DEF Handshaking
    <3>3. CASE d # c
      BY <1>2, <3>1, <3>3 DEF Handshaking
    <3> QED
      BY <3>2, <3>3
  <2>4. CASE Closing(h)
    BY <2>4 DEF Closing
  <2>5. CASE kid[h].killed
    BY <2>5 DEF Gently
  <2> QED
    BY <1>1, <2>1, <2>2, <2>3, <2>4, <2>5 DEF NoOrphan
<1> QED
  BY <1>3, <1>4, <1>5, <1>6, <1>7, <1>8, <1>9 DEF IInv

\* A step of c that leaves the children and the mutex as they are.
LEMMA QuietStep ==
    ASSUME IInv, NEW c \in Caller, NEW rec \in Callers, Gently(c),
           caller' = [caller EXCEPT ![c] = rec], closer' = closer, ext' = ext,
           rec.pc \notin {"idle", "enter"} => rec.kid \in Kid,
           rec.pc = "write" => c \in kid'[rec.kid].pending \/ kid'[rec.kid].closed,
           rec.pc = "await" => Memory(kid'[rec.kid], c, rec.chan),
           rec.op = caller[c].op,
           caller[c].op = "initialize" => rec.kid = caller[c].kid
    PROVE  IInv'
<1>1. ext' \in [proc : 0..MaxKids, restarts : 0..MaxRestarts, mu : Caller \cup {None}]
  BY Fields DEF IInv
<1>2. rec.op = "initialize" => ext'.mu = c
  BY DEF IInv, Placed
<1> QED
  BY <1>1, <1>2, CallerKeeps

LEMMA FailKeeps ==
    ASSUME IInv, NEW c \in Caller, NEW k, NEW unread \in BOOLEAN,
           caller[c].kid \in Kid,
           \/ k = kid[caller[c].kid]
           \/ k = [kid[caller[c].kid] EXCEPT !.writer = "none"],
           Fail(c, k, unread), closer' = closer
    PROVE  IInv'
<1> DEFINE g == caller[c].kid
           yes == caller[c].op = "initialize"
           new == Killed(Left(k, c, unread), yes)
<1>0. yes \in BOOLEAN
  OBVIOUS
<1>1. TypeOK /\ g \in Kid /\ kid[g] \in Kids
  BY Fields DEF IInv
<1>2. /\ k \in Kids /\ k.child = kid[g].child /\ k.closed = kid[g].closed
      /\ k.killed = kid[g].killed /\ k.pending = kid[g].pending /\ k.asked = kid[g].asked
      /\ k.tell = kid[g].tell /\ k.target = kid[g].target /\ k.reader = kid[g].reader
  BY <1>1 DEF Kids
<1>3. /\ kid' = [kid EXCEPT ![g] = new] /\ caller' = [caller EXCEPT ![c] = Idle]
      /\ ext' = [ext EXCEPT !.mu = IF @ = c THEN None ELSE @]
  BY DEF Fail
<1> HIDE DEF yes
<1>4. /\ new \in Kids /\ new.child = k.child /\ new.closed = k.closed
      /\ k.killed \/ yes => new.killed
      /\ new.pending = k.pending \ {c} /\ new.asked = k.asked \ {c}
      /\ new.tell = k.tell \ {c}
      /\ new.target = IF k.target = c THEN None ELSE k.target
      /\ k.target # c => new.reader = k.reader
  BY <1>0, <1>2, LeftType
<1> HIDE DEF new
<1>5. Gently(c)
  <2>1. \/ new.target = kid[g].target /\ new.reader = kid[g].reader
        \/ kid[g].target = c /\ new.target = None
    BY <1>2, <1>4
  <2> QED
    BY <1>1, <1>2, <1>3, <1>4, <2>1, ChangeIsGentle
<1>6. caller[c].op = "initialize" => kid'[caller[c].kid].killed
  BY <1>1, <1>3, <1>4, Fields DEF yes
<1>7. /\ Idle \in Callers /\ Idle.pc = "idle" /\ Idle.op = "call"
  BY IdleType DEF Idle
<1>8. /\ ext' \in [proc : 0..MaxKids, restarts : 0..MaxRestarts, mu : Caller \cup {None}]
      /\ ext'.proc = ext.proc /\ (ext'.mu = ext.mu \/ (ext.mu = c /\ ext'.mu = None))
  BY <1>1, <1>3, Fields
<1> QED
  BY <1>3, <1>5, <1>6, <1>7, <1>8, CallerKeeps

LEMMA BeginKeeps == ASSUME IInv, NEW c \in Caller, Begin(c) PROVE IInv'
<1> DEFINE rec == [caller[c] EXCEPT !.pc = "enter"]
<1>1. /\ rec \in Callers /\ rec.pc = "enter" /\ rec.op = caller[c].op
      /\ rec.kid = caller[c].kid
  BY Fields DEF IInv, Callers
<1>2. /\ caller' = [caller EXCEPT ![c] = rec] /\ kid' = kid /\ ext' = ext
      /\ closer' = closer
  BY DEF Begin
<1> HIDE DEF rec
<1> QED
  BY <1>1, <1>2, SameIsGentle, QuietStep

LEMMA EnterUseKeeps == ASSUME IInv, NEW c \in Caller, EnterUse(c) PROVE IInv'
<1> DEFINE rec == [caller[c] EXCEPT !.pc = "register", !.kid = ext.proc]
<1>1. ext.proc \in Kid /\ ext.proc \in 0..MaxKids /\ caller[c] \in Callers
  BY Fields DEF IInv, EnterUse
<1>2. /\ rec \in Callers /\ rec.pc = "register" /\ rec.op = caller[c].op
      /\ rec.kid = ext.proc
  BY <1>1 DEF Callers
<1>3. /\ caller' = [caller EXCEPT ![c] = rec] /\ kid' = kid /\ ext' = ext
      /\ closer' = closer /\ ext.mu = None
  BY DEF EnterUse
<1>4. caller[c].op # "initialize"
  BY <1>3 DEF IInv, Placed
<1> HIDE DEF rec
<1> QED
  BY <1>1, <1>2, <1>3, <1>4, SameIsGentle, QuietStep

\* Nobody is enrolled: the caller has its error.
LEMMA LeavesKeeps ==
    ASSUME IInv, NEW c \in Caller, caller' = [caller EXCEPT ![c] = Idle], ext.mu = None,
           kid' = kid, closer' = closer, ext'.mu = ext.mu, ext'.proc = ext.proc,
           ext' \in [proc : 0..MaxKids, restarts : 0..MaxRestarts, mu : Caller \cup {None}]
    PROVE  IInv'
<1>1. caller[c].op # "initialize"
  BY DEF IInv, Placed
<1>2. /\ Idle \in Callers /\ Idle.pc = "idle" /\ Idle.op = "call"
  BY IdleType DEF Idle
<1> QED
  BY <1>1, <1>2, SameIsGentle, CallerKeeps

LEMMA EnterRefusedKeeps == ASSUME IInv, NEW c \in Caller, EnterRefused(c) PROVE IInv'
BY LeavesKeeps, Fields DEF IInv, EnterRefused

LEMMA RegisterKeeps == ASSUME IInv, NEW c \in Caller, Register(c) PROVE IInv'
<1> DEFINE g == caller[c].kid
           new == [kid[g] EXCEPT !.pending = @ \cup {c}]
           rec == [caller[c] EXCEPT !.pc = "write", !.chan = "empty"]
<1>1. g \in Kid /\ kid[g] \in Kids /\ caller[c] \in Callers
  BY Fields DEF IInv, Placed, Register
<1>2. CASE kid[g].closed /\ Fail(c, kid[g], FALSE)
  BY <1>1, <1>2, FailKeeps DEF Register
<1>3. CASE ~kid[g].closed /\ ext' = ext /\ kid' = [kid EXCEPT ![g].pending = @ \cup {c}]
           /\ caller' = [caller EXCEPT ![c].pc = "write", ![c].chan = "empty"]
  <2>1. /\ rec \in Callers /\ rec.pc = "write" /\ rec.op = caller[c].op /\ rec.kid = g
    BY <1>1 DEF Callers
  <2>2. /\ new \in Kids /\ new.child = kid[g].child /\ new.closed = kid[g].closed
        /\ new.killed = kid[g].killed /\ new.target = kid[g].target
        /\ new.reader = kid[g].reader /\ new.asked = kid[g].asked /\ new.tell = kid[g].tell
        /\ new.pending = kid[g].pending \cup {c}
    BY <1>1 DEF Kids
  <2>3. kid' = [kid EXCEPT ![g] = new] /\ kid'[g] = new
    BY <1>1, <1>3, Fields DEF IInv
  <2>4. caller' = [caller EXCEPT ![c] = rec] /\ closer' = closer
    BY <1>3, Fields DEF IInv, Register
  <2> HIDE DEF new, rec
  <2>5. Gently(c)
    BY <1>1, <2>2, <2>3, ChangeIsGentle
  <2> QED
    BY <1>1, <1>3, <2>1, <2>2, <2>3, <2>4, <2>5, QuietStep
<1> QED
  BY <1>2, <1>3 DEF Register

LEMMA WriteKeeps == ASSUME IInv, NEW c \in Caller, Write(c) PROVE IInv'
<1> DEFINE g == caller[c].kid
           k == kid[g]
<1>1. g \in Kid /\ kid[g] \in Kids /\ caller[c] \in Callers
  BY Fields DEF IInv, Placed, Write
<1>2. CASE Fail(c, k, caller[c].chan # "empty")
  <2>1. (caller[c].chan # "empty") \in BOOLEAN
    OBVIOUS
  <2> QED
    BY <1>1, <1>2, <2>1, FailKeeps DEF Write
<1>3. CASE ~k.closed /\ ext' = ext /\ kid' = [kid EXCEPT ![g].asked = @ \cup {c}]
           /\ caller' = [caller EXCEPT ![c].pc = "await"]
  <2> DEFINE new == [kid[g] EXCEPT !.asked = @ \cup {c}]
             rec == [caller[c] EXCEPT !.pc = "await"]
  <2>1. /\ rec \in Callers /\ rec.pc = "await" /\ rec.op = caller[c].op /\ rec.kid = g
    BY <1>1 DEF Callers
  <2>2. /\ new \in Kids /\ new.child = kid[g].child /\ new.closed = kid[g].closed
        /\ new.killed = kid[g].killed /\ new.target = kid[g].target
        /\ new.reader = kid[g].reader /\ new.asked = kid[g].asked \cup {c}
        /\ new.tell = kid[g].tell /\ new.pending = kid[g].pending
    BY <1>1 DEF Kids
  <2>3. kid' = [kid EXCEPT ![g] = new] /\ kid'[g] = new
    BY <1>1, <1>3, Fields DEF IInv
  <2>4. caller' = [caller EXCEPT ![c] = rec] /\ closer' = closer
    BY <1>3, Fields DEF IInv, Write
  <2>5. c \in kid[g].pending
    BY <1>3 DEF IInv, Tabled, Write
  <2> HIDE DEF new, rec
  <2>6. Memory(kid'[rec.kid], c, rec.chan)
    BY <2>1, <2>2, <2>3, <2>5 DEF Memory
  <2>7. Gently(c)
    BY <1>1, <2>2, <2>3, ChangeIsGentle
  <2> QED
    BY <1>1, <1>3, <2>1, <2>2, <2>3, <2>4, <2>6, <2>7, QuietStep
<1>4. CASE ~k.closed /\ ext' = ext /\ kid' = [kid EXCEPT ![g].writer = "caller"]
           /\ caller' = [caller EXCEPT ![c].pc = "writing"]
  <2> DEFINE new == [kid[g] EXCEPT !.writer = "caller"]
             rec == [caller[c] EXCEPT !.pc = "writing"]
  <2>1. /\ rec \in Callers /\ rec.pc = "writing" /\ rec.op = caller[c].op /\ rec.kid = g
    BY <1>1 DEF Callers
  <2>2. /\ new \in Kids /\ new.child = kid[g].child /\ new.closed = kid[g].closed
        /\ new.killed = kid[g].killed /\ new.target = kid[g].target
        /\ new.reader = kid[g].reader /\ new.asked = kid[g].asked
        /\ new.tell = kid[g].tell /\ new.pending = kid[g].pending
    BY <1>1 DEF Kids
  <2>3. kid' = [kid EXCEPT ![g] = new]
    BY <1>1, <1>4, Fields DEF IInv
  <2>4. caller' = [caller EXCEPT ![c] = rec] /\ closer' = closer
    BY <1>4, Fields DEF IInv, Write
  <2> HIDE DEF new, rec
  <2>5. Gently(c)
    BY <1>1, <2>2, <2>3, ChangeIsGentle
  <2> QED
    BY <1>1, <1>4, <2>1, <2>4, <2>5, QuietStep
<1> QED
  BY <1>2, <1>3, <1>4 DEF Write

LEMMA WriteBreaksKeeps == ASSUME IInv, NEW c \in Caller, WriteBreaks(c) PROVE IInv'
<1>1. caller[c].kid \in Kid
  BY DEF IInv, Placed, WriteBreaks
<1>2. (caller[c].chan # "empty") \in BOOLEAN
  OBVIOUS
<1> QED
  BY <1>1, <1>2, FailKeeps DEF WriteBreaks

LEMMA GiveUpKeeps == ASSUME IInv, NEW c \in Caller, GiveUp(c) PROVE IInv'
<1>1. caller[c].kid \in Kid
  BY DEF IInv, Placed, GiveUp
<1>2. (caller[c].chan # "empty") \in BOOLEAN
  OBVIOUS
<1> QED
  BY <1>1, <1>2, FailKeeps DEF GiveUp

LEMMA ReceiveKeeps == ASSUME IInv, NEW c \in Caller, Receive(c) PROVE IInv'
<1> DEFINE g == caller[c].kid
           new == Left(kid[g], c, FALSE)
<1>1. g \in Kid /\ kid[g] \in Kids /\ caller[c] \in Callers
  BY Fields DEF IInv, Placed, Receive
<1>2. CASE Fail(c, kid[g], FALSE)
  BY <1>1, <1>2, FailKeeps DEF Receive
<1>3. /\ new \in Kids /\ new.child = kid[g].child /\ new.closed = kid[g].closed
      /\ new.killed = kid[g].killed /\ new.pending = kid[g].pending \ {c}
      /\ new.asked = kid[g].asked \ {c} /\ new.tell = kid[g].tell \ {c}
      /\ new.target = IF kid[g].target = c THEN None ELSE kid[g].target
      /\ kid[g].target # c => new.reader = kid[g].reader
  <2> DEFINE unread == FALSE
  <2>1. new = Left(kid[g], c, unread) /\ unread \in BOOLEAN
    OBVIOUS
  <2> HIDE DEF new, unread
  <2> QED
    BY <1>1, <2>1, LeftFields
<1> HIDE DEF new
<1>4. ASSUME kid' = [kid EXCEPT ![g] = new] PROVE Gently(c)
  <2>1. \/ new.target = kid[g].target /\ new.reader = kid[g].reader
        \/ kid[g].target = c /\ new.target = None
    BY <1>3
  <2> QED
    BY <1>1, <1>3, <1>4, <2>1, ChangeIsGentle
<1>5. CASE /\ caller[c].op = "call" /\ kid' = [kid EXCEPT ![g] = new]
           /\ caller' = [caller EXCEPT ![c] = Idle] /\ ext' = ext
  <2>1. /\ Idle \in Callers /\ Idle.pc = "idle" /\ Idle.op = "call"
    BY IdleType DEF Idle
  <2> QED
    BY <1>4, <1>5, <2>1, QuietStep DEF Receive
<1>6. CASE /\ caller[c].op = "initialize" /\ kid' = [kid EXCEPT ![g] = new]
           /\ caller' = [caller EXCEPT ![c] = [@ EXCEPT !.pc = "register", !.op = "call",
                                                        !.chan = "empty"]]
           /\ ext' = [ext EXCEPT !.proc = g, !.mu = None]
  <2> DEFINE rec == [caller[c] EXCEPT !.pc = "register", !.op = "call", !.chan = "empty"]
  <2>1. /\ rec \in Callers /\ rec.pc = "register" /\ rec.op = "call" /\ rec.kid = g
    BY <1>1 DEF Callers
  <2>2. caller' = [caller EXCEPT ![c] = rec] /\ closer' = closer
    BY <1>6, Fields DEF IInv, Receive
  <2>3. /\ ext' \in [proc : 0..MaxKids, restarts : 0..MaxRestarts, mu : Caller \cup {None}]
        /\ ext'.proc = g /\ ext'.mu = None
    <3>1. /\ g \in 0..MaxKids
          /\ ext \in [proc : 0..MaxKids, restarts : 0..MaxRestarts, mu : Caller \cup {None}]
      BY <1>1, Fields DEF IInv, Kid
    <3> HIDE DEF g
    <3> QED
      BY <1>6, <3>1
  <2>4. ext.mu = c
    BY <1>6 DEF IInv, Placed
  <2> HIDE DEF rec
  <2> QED
    BY <1>1, <1>4, <1>6, <2>1, <2>2, <2>3, <2>4, CallerKeeps
<1> QED
  BY <1>2, <1>5, <1>6 DEF Receive, new

LEMMA EnterStartKeeps == ASSUME IInv, NEW c \in Caller, EnterStart(c) PROVE IInv'
<1> DEFINE g == Cardinality(Started) + 1
           restarts == IF ext.proc = 0 THEN ext.restarts ELSE ext.restarts + 1
           rec == [caller[c] EXCEPT !.pc = "register", !.kid = g, !.op = "initialize"]
           new == [kid[g] EXCEPT !.child = "up", !.reader = "scan"]
<1>1. TypeOK /\ Numbered /\ Reading /\ Placed /\ Tabled /\ NoOrphan /\ NobodyForgotten
  BY DEF IInv
<1>2. /\ ext.mu = None /\ closer' = closer
      /\ ext.proc # 0 => kid[ext.proc].closed /\ MayRestart
  BY DEF EnterStart
<1>3. restarts \in 0..MaxRestarts
  BY <1>1, <1>2, Fields DEF MayRestart
<1>4. /\ \A d \in Caller : caller[d].op # "initialize"
      /\ \A h \in Kid : ~Handshaking(h)
  BY <1>1, <1>2 DEF Placed, Handshaking
<1>5. CASE ext' = [ext EXCEPT !.restarts = restarts] /\ caller' = [caller EXCEPT ![c] = Idle]
           /\ kid' = kid
  <2> HIDE DEF restarts
  <2>1. /\ ext' \in [proc : 0..MaxKids, restarts : 0..MaxRestarts, mu : Caller \cup {None}]
        /\ ext'.proc = ext.proc /\ ext'.mu = ext.mu
    BY <1>1, <1>3, <1>5, Fields
  <2> QED
    BY <1>2, <1>5, <2>1, LeavesKeeps
<1>6. CASE /\ g <= MaxKids
           /\ kid' = [kid EXCEPT ![g].child = "up", ![g].reader = "scan"]
           /\ caller' = [caller EXCEPT ![c] = [@ EXCEPT !.pc = "register", !.kid = g,
                                                        !.op = "initialize"]]
           /\ ext' = [ext EXCEPT !.restarts = restarts, !.mu = c]
  <2>1. g \in Kid /\ g \in 0..MaxKids /\ g \in Nat
    BY <1>6, StartedFinite DEF Kid
  <2> HIDE DEF restarts
  <2>2. /\ ext' \in [proc : 0..MaxKids, restarts : 0..MaxRestarts, mu : Caller \cup {None}]
        /\ ext'.proc = ext.proc /\ ext'.mu = c
    BY <1>1, <1>3, <1>6, Fields
  <2>3. Cardinality(Started) = g - 1 /\ g > Cardinality(Started)
    BY StartedFinite
  <2>4. kid[g].child = "none" /\ g \notin Started
    BY <1>1, <2>1, <2>3 DEF Numbered, Started
  <2>5. kid[g].target = None /\ ~kid[g].closed /\ kid[g] \in Kids /\ caller[c] \in Callers
    BY <1>1, <2>1, <2>4, Fields DEF Numbered
  <2> HIDE DEF g
  <2>6. /\ rec \in Callers /\ rec.pc = "register" /\ rec.kid = g /\ rec.op = "initialize"
    BY <2>1, <2>5 DEF Callers
  <2>7. /\ new \in Kids /\ new.child = "up" /\ new.reader = "scan"
        /\ new.target = kid[g].target /\ new.closed = kid[g].closed
        /\ new.pending = kid[g].pending /\ new.asked = kid[g].asked /\ new.tell = kid[g].tell
    BY <2>5 DEF Kids
  <2>8. /\ kid' = [kid EXCEPT ![g] = new] /\ caller' = [caller EXCEPT ![c] = rec]
    BY <1>1, <1>6, <2>1, Fields
  <2> HIDE DEF new, rec
  <2>9. /\ kid' \in [Kid -> Kids] /\ kid'[g] = new
        /\ \A h \in Kid \ {g} : kid'[h] = kid[h]
        /\ caller' \in [Caller -> Callers] /\ caller'[c] = rec
        /\ \A d \in Caller \ {c} : caller'[d] = caller[d]
    BY <1>1, <2>1, <2>6, <2>7, <2>8, Fields
  <2>10. TypeOK'
    BY <1>1, <1>2, <2>2, <2>9 DEF TypeOK
  <2>11. Numbered'
    <3>1. Started' = Started \cup {g}
      <4>1. new.child # "none"
        BY <2>7
      <4>2. \A h \in Kid : kid'[h].child # "none" <=> h = g \/ kid[h].child # "none"
        BY <2>9, <4>1
      <4>3. \A h \in Kid : h \in Started' <=> h \in Started \cup {g}
        BY <4>2 DEF Started
      <4>4. Started' \subseteq Kid /\ Started \cup {g} \subseteq Kid
        BY <2>1 DEF Started
      <4> QED
        BY <4>3, <4>4
    <3>2. Cardinality(Started') = g
      <4>1. Cardinality(Started \cup {g}) = Cardinality(Started) + 1
        BY <2>4, StartedFinite, FS_AddElement
      <4>2. Cardinality(Started) \in Nat /\ g \in Nat
        BY <2>1, StartedFinite DEF Kid
      <4> QED
        BY <2>3, <3>1, <4>1, <4>2
    <3> SUFFICES ASSUME NEW h \in Kid
                 PROVE  /\ kid'[h].child = "none" <=> h > g
                        /\ kid'[h].child = "none" =>
                              kid'[h].reader = "over" /\ kid'[h].target = None /\ ~kid'[h].closed
      BY <3>2 DEF Numbered
    <3>3. CASE h = g
      BY <2>1, <2>7, <2>9, <3>3
    <3>4. CASE h # g
      <4>1. h > g <=> h > Cardinality(Started)
        BY <2>1, <2>3, <3>4, StartedFinite DEF Kid
      <4> QED
        BY <1>1, <2>9, <3>4, <4>1 DEF Numbered
    <3> QED
      BY <3>3, <3>4
  <2>12. Reading'
    <3> SUFFICES ASSUME NEW h \in Kid
                 PROVE  /\ kid'[h].closed => kid'[h].child # "up"
                        /\ kid'[h].target # None => kid'[h].reader = "deliver"
      BY DEF Reading, Up
    <3>1. CASE h = g
      BY <2>5, <2>7, <2>9, <3>1
    <3>2. CASE h # g
      BY <1>1, <2>9, <3>2 DEF Reading, Up
    <3> QED
      BY <3>1, <3>2
  <2>13. Placed'
    <3>1. ext'.proc # 0 => kid'[ext'.proc].closed
      BY <1>1, <1>2, <2>2, <2>5, <2>9, Fields
    <3>2. \A d \in Caller :
             /\ caller'[d].pc \notin {"idle", "enter"} => caller'[d].kid \in Kid
             /\ caller'[d].op = "initialize" => ext'.mu = d
      BY <1>1, <1>4, <2>1, <2>2, <2>6, <2>9 DEF Placed
    <3> QED
      BY <1>1, <1>2, <3>1, <3>2 DEF Placed
  <2>14. Tabled'
    <3> SUFFICES ASSUME NEW d \in Caller, caller'[d].pc = "write"
                 PROVE  d \in kid'[caller'[d].kid].pending \/ kid'[caller'[d].kid].closed
      BY DEF Tabled
    <3>1. d # c /\ caller'[d] = caller[d] /\ caller[d].kid \in Kid
      BY <1>1, <2>6, <2>9 DEF Placed
    <3>2. d \in kid[caller[d].kid].pending \/ kid[caller[d].kid].closed
      BY <1>1, <3>1 DEF Tabled
    <3> QED
      BY <2>7, <2>9, <3>1, <3>2
  <2>15. NobodyForgotten'
    <3> SUFFICES ASSUME NEW d \in Caller, caller'[d].pc = "await"
                 PROVE  Memory(kid'[caller'[d].kid], d, caller'[d].chan)
      BY DEF NobodyForgotten, Memory
    <3>1. d # c /\ caller'[d] = caller[d] /\ caller[d].kid \in Kid
      BY <1>1, <2>6, <2>9 DEF Placed
    <3>2. Memory(kid[caller[d].kid], d, caller[d].chan)
      BY <1>1, <3>1 DEF NobodyForgotten, Memory
    <3> QED
      BY <2>7, <2>9, <3>1, <3>2 DEF Memory
  <2>16. NoOrphan'
    <3> SUFFICES ASSUME NEW h \in Kid, kid'[h].child = "up"
                 PROVE  ext'.proc = h \/ Handshaking(h)' \/ Closing(h)' \/ kid'[h].killed
      BY DEF NoOrphan, Up
    <3>1. CASE h = g
      BY <2>2, <2>6, <2>9, <3>1 DEF Handshaking
    <3>2. CASE h # g
      <4>1. kid'[h] = kid[h] /\ Up(h)
        BY <2>9, <3>2 DEF Up
      <4> QED
        BY <1>1, <1>2, <1>4, <2>2, <4>1 DEF NoOrphan, Closing
    <3> QED
      BY <3>1, <3>2
  <2> QED
    BY <2>10, <2>11, <2>12, <2>13, <2>14, <2>15, <2>16 DEF IInv
<1> QED
  BY <1>5, <1>6 DEF EnterStart

-----------------------------------------------------------------------------
(* A step of a reader, of the closer or of a child.                        *)

LEMMA KidKeeps ==
    ASSUME IInv, NEW g \in Kid, NEW new \in Kids, kid' = [kid EXCEPT ![g] = new],
           ext' = ext, caller' \in [Caller -> Callers],
           closer' \in [pc : {"idle", "notify", "writing", "grace", "over"}, kid : 0..MaxKids],
           closer'.pc \in {"notify", "writing", "grace"} => closer'.kid \in Kid,
           \A h \in Kid : Closing(h) /\ kid'[h].child = "up" => Closing(h)' \/ kid'[h].killed,
           \A c \in Caller :
              /\ caller'[c].pc = caller[c].pc /\ caller'[c].op = caller[c].op
              /\ caller'[c].kid = caller[c].kid
              /\ caller[c].chan # "empty" => caller'[c].chan # "empty",
           new.child = "none" <=> kid[g].child = "none",
           new.child = "up" => kid[g].child = "up",
           new.child = "none" => new.reader = "over" /\ new.target = None /\ ~new.closed,
           new.closed => new.child # "up",
           kid[g].closed => new.closed,
           kid[g].killed /\ new.child = "up" => new.killed,
           new.target # None => new.reader = "deliver",
           kid[g].pending \subseteq new.pending \/ new.closed,
           \A c \in Caller :
              Memory(kid[g], c, caller[c].chan) => Memory(new, c, caller'[c].chan)
    PROVE  IInv'
<1>1. TypeOK /\ Numbered /\ Reading /\ Placed /\ Tabled /\ NoOrphan /\ NobodyForgotten
  BY DEF IInv
<1>2. /\ kid' \in [Kid -> Kids] /\ kid'[g] = new
      /\ \A h \in Kid \ {g} : kid'[h] = kid[h]
  BY <1>1, Fields
<1>3. TypeOK'
  BY <1>1, <1>2 DEF TypeOK
<1>4. Numbered'
  <2>1. \A h \in Kid : kid'[h].child = "none" <=> kid[h].child = "none"
    BY <1>2
  <2>2. Started' = Started
    BY <2>1 DEF Started
  <2>3. \A h \in Kid : kid'[h].child = "none" =>
             kid'[h].reader = "over" /\ kid'[h].target = None /\ ~kid'[h].closed
    BY <1>1, <1>2 DEF Numbered
  <2> QED
    BY <1>1, <2>1, <2>2, <2>3 DEF Numbered
<1>5. Reading'
  BY <1>1, <1>2 DEF Reading, Up
<1>6. Placed'
  BY <1>1, <1>2, Fields DEF Placed
<1>7. Tabled'
  <2> SUFFICES ASSUME NEW c \in Caller, caller'[c].pc = "write"
               PROVE  c \in kid'[caller'[c].kid].pending \/ kid'[caller'[c].kid].closed
    BY DEF Tabled
  <2>1. caller[c].pc = "write" /\ caller'[c].kid = caller[c].kid /\ caller[c].kid \in Kid
    BY <1>1 DEF Placed
  <2>2. c \in kid[caller[c].kid].pending \/ kid[caller[c].kid].closed
    BY <1>1, <2>1 DEF Tabled
  <2> QED
    BY <1>2, <2>1, <2>2
<1>8. NobodyForgotten'
  <2> SUFFICES ASSUME NEW c \in Caller, caller'[c].pc = "await"
               PROVE  Memory(kid'[caller'[c].kid], c, caller'[c].chan)
    BY DEF NobodyForgotten, Memory
  <2>1. caller[c].pc = "await" /\ caller'[c].kid = caller[c].kid /\ caller[c].kid \in Kid
    BY <1>1 DEF Placed
  <2>2. Memory(kid[caller[c].kid], c, caller[c].chan)
    BY <1>1, <2>1 DEF NobodyForgotten, Memory
  <2>3. CASE caller[c].kid = g
    BY <1>2, <2>1, <2>2, <2>3
  <2>4. CASE caller[c].kid # g
    BY <1>2, <2>1, <2>2, <2>4 DEF Memory
  <2> QED
    BY <2>3, <2>4
<1>9. NoOrphan'
  <2> SUFFICES ASSUME NEW h \in Kid, kid'[h].child = "up"
               PROVE  ext'.proc = h \/ Handshaking(h)' \/ Closing(h)' \/ kid'[h].killed
    BY DEF NoOrphan, Up
  <2>1. Up(h) /\ (kid[h].killed => kid'[h].killed)
    BY <1>2 DEF Up
  <2>2. Handshaking(h) => Handshaking(h)'
    BY DEF Handshaking
  <2> QED
    BY <1>1, <2>1, <2>2 DEF NoOrphan
<1> QED
  BY <1>3, <1>4, <1>5, <1>6, <1>7, <1>8, <1>9 DEF IInv

\* A step of child g, or of its reader, that neither ends nor closes the process and
\* forgets no caller.
LEMMA ReaderKeeps ==
    ASSUME IInv, NEW g \in Kid, NEW new \in Kids, kid' = [kid EXCEPT ![g] = new],
           kid[g].child # "none",
           ext' = ext, caller' = caller, closer' = closer,
           new.child = kid[g].child, new.closed = kid[g].closed, new.killed = kid[g].killed,
           new.target # None => new.reader = "deliver",
           kid[g].pending \subseteq new.pending,
           \A c \in Caller :
              Memory(kid[g], c, caller[c].chan) => Memory(new, c, caller[c].chan)
    PROVE  IInv'
<1>1. /\ caller' \in [Caller -> Callers]
      /\ closer' \in [pc : {"idle", "notify", "writing", "grace", "over"}, kid : 0..MaxKids]
      /\ closer'.pc \in {"notify", "writing", "grace"} => closer'.kid \in Kid
      /\ kid[g].closed => kid[g].child # "up"
  BY Fields DEF IInv, Placed, Reading, Up
<1>2. \A h \in Kid : Closing(h) => Closing(h)'
  BY DEF Closing
<1> QED
  BY <1>1, <1>2, KidKeeps

\* A child with a reader has been started, and is closed only once its reader has told.
LEMMA Started1 ==
    ASSUME IInv, NEW g \in Kid, kid[g].reader # "over"
    PROVE  kid[g].child # "none"
BY DEF IInv, Numbered

LEMMA ReadReplyKeeps ==
    ASSUME IInv, NEW g \in Kid, NEW c \in Caller, ReadReply(g, c) PROVE IInv'
<1> DEFINE new == [kid[g] EXCEPT !.reader = "deliver", !.target = c, !.asked = @ \ {c}]
<1>1. kid[g] \in Kids /\ kid[g].child # "none" /\ kid[g].target = None
  BY Fields, Started1 DEF IInv, Reading, ReadReply
<1>2. /\ new \in Kids /\ new.child = kid[g].child /\ new.closed = kid[g].closed
      /\ new.killed = kid[g].killed /\ new.reader = "deliver" /\ new.target = c
      /\ new.pending = kid[g].pending /\ new.asked = kid[g].asked \ {c}
      /\ new.tell = kid[g].tell
  BY <1>1 DEF Kids
<1>3. kid' = [kid EXCEPT ![g] = new]
  BY DEF ReadReply
<1> HIDE DEF new
<1>4. \A d \in Caller : Memory(kid[g], d, caller[d].chan) => Memory(new, d, caller[d].chan)
  BY <1>1, <1>2 DEF Memory
<1> QED
  BY <1>1, <1>2, <1>3, <1>4, ReaderKeeps DEF ReadReply

\* A step of the reader that concerns no caller.
LEMMA ScanKeeps ==
    ASSUME IInv, NEW g \in Kid, NEW new \in Kids, kid' = [kid EXCEPT ![g] = new],
           kid[g].child # "none", kid[g].reader # "deliver",
           ext' = ext, caller' = caller, closer' = closer,
           new.child = kid[g].child, new.closed = kid[g].closed, new.killed = kid[g].killed,
           new.target = kid[g].target, new.pending = kid[g].pending,
           new.asked = kid[g].asked, new.tell = kid[g].tell
    PROVE  IInv'
<1>1. new.target = None
  BY DEF IInv, Reading
<1>2. \A d \in Caller : Memory(kid[g], d, caller[d].chan) => Memory(new, d, caller[d].chan)
  BY DEF Memory
<1> QED
  BY <1>1, <1>2, ReaderKeeps

LEMMA ReadRequestKeeps == ASSUME IInv, NEW g \in Kid, ReadRequest(g) PROVE IInv'
<1> DEFINE new == [kid[g] EXCEPT !.reader = "answer"]
<1>1. kid[g] \in Kids /\ kid[g].child # "none" /\ kid[g].reader # "deliver"
  BY Fields, Started1 DEF IInv, ReadRequest
<1>2. /\ new \in Kids /\ new.child = kid[g].child /\ new.closed = kid[g].closed
      /\ new.killed = kid[g].killed /\ new.target = kid[g].target
      /\ new.pending = kid[g].pending /\ new.asked = kid[g].asked /\ new.tell = kid[g].tell
  BY <1>1 DEF Kids
<1>3. kid' = [kid EXCEPT ![g] = new]
  BY Fields DEF IInv, ReadRequest
<1> HIDE DEF new
<1> QED
  BY <1>1, <1>2, <1>3, ScanKeeps DEF ReadRequest

LEMMA ScanEndsKeeps == ASSUME IInv, NEW g \in Kid, ScanEnds(g) PROVE IInv'
<1> DEFINE new == [kid[g] EXCEPT !.reader = "wait"]
<1>1. kid[g] \in Kids /\ kid[g].child # "none" /\ kid[g].reader # "deliver"
  BY Fields, Started1 DEF IInv, ScanEnds
<1>2. /\ new \in Kids /\ new.child = kid[g].child /\ new.closed = kid[g].closed
      /\ new.killed = kid[g].killed /\ new.target = kid[g].target
      /\ new.pending = kid[g].pending /\ new.asked = kid[g].asked /\ new.tell = kid[g].tell
  BY <1>1 DEF Kids
<1>3. kid' = [kid EXCEPT ![g] = new]
  BY Fields DEF IInv, ScanEnds
<1>4. ext' = ext /\ caller' = caller /\ closer' = closer
  BY DEF ScanEnds
<1> HIDE DEF new
<1> QED
  BY <1>1, <1>2, <1>3, <1>4, ScanKeeps

LEMMA AnswerKeeps == ASSUME IInv, NEW g \in Kid, Answer(g) PROVE IInv'
<1>1. kid[g] \in Kids /\ kid[g].child # "none" /\ kid[g].reader # "deliver"
  BY Fields, Started1 DEF IInv, Answer
<1>2. ASSUME NEW new \in {[kid[g] EXCEPT !.reader = "blocked", !.writer = "reader"],
                         [kid[g] EXCEPT !.reader = "scan"],
                         [kid[g] EXCEPT !.reader = "scan", !.writer = "none"]},
             kid' = [kid EXCEPT ![g] = new]
      PROVE  IInv'
  <2>1. /\ new \in Kids /\ new.child = kid[g].child /\ new.closed = kid[g].closed
        /\ new.killed = kid[g].killed /\ new.target = kid[g].target
        /\ new.pending = kid[g].pending /\ new.asked = kid[g].asked
        /\ new.tell = kid[g].tell
    <3>1. CASE new = [kid[g] EXCEPT !.reader = "blocked", !.writer = "reader"]
      BY <1>1, <3>1 DEF Kids
    <3>2. CASE new = [kid[g] EXCEPT !.reader = "scan"]
      BY <1>1, <3>2 DEF Kids
    <3>3. CASE new = [kid[g] EXCEPT !.reader = "scan", !.writer = "none"]
      BY <1>1, <3>3 DEF Kids
    <3> QED
      BY <1>2, <3>1, <3>2, <3>3
  <2> QED
    BY <1>1, <1>2, <2>1, ScanKeeps DEF Answer
<1>3. CASE kid' = [kid EXCEPT ![g] =
                     IF Up(g) THEN [kid[g] EXCEPT !.reader = "blocked", !.writer = "reader"]
                     ELSE [kid[g] EXCEPT !.reader = "scan"]]
  BY <1>2, <1>3
<1>4. CASE kid' = [kid EXCEPT ![g] = [kid[g] EXCEPT !.reader = "scan", !.writer = "none"]]
  BY <1>2, <1>4
<1> QED
  BY <1>3, <1>4, Fields DEF Answer, IInv

LEMMA ShutdownKeeps == ASSUME IInv, NEW g \in Kid, Shutdown(g) PROVE IInv'
<1> DEFINE new == [kid[g] EXCEPT !.reader = "tell", !.closed = TRUE,
                                 !.tell = @ \cup kid[g].pending, !.pending = {}]
<1>1. kid[g] \in Kids /\ kid[g].child = "exited"
  <2>1. kid[g] \in Kids /\ kid[g].child # "none" /\ kid[g].child # "up"
    BY Fields, Started1 DEF IInv, Shutdown, Up
  <2> QED
    BY <2>1 DEF Kids
<1>2. /\ new \in Kids /\ new.child = "exited" /\ new.closed /\ new.killed = kid[g].killed
      /\ new.reader = "tell" /\ new.target = kid[g].target
      /\ new.asked = kid[g].asked /\ new.tell = kid[g].tell \cup kid[g].pending
  BY <1>1 DEF Kids
<1>3. kid' = [kid EXCEPT ![g] = new]
  BY DEF Shutdown
<1>4. new.target = None
  BY <1>2 DEF IInv, Reading, Shutdown
<1> HIDE DEF new
<1>5. \A d \in Caller : Memory(kid[g], d, caller[d].chan) => Memory(new, d, caller[d].chan)
  BY <1>2 DEF Memory
<1>6. /\ caller' = caller /\ ext' = ext /\ closer' = closer
      /\ caller' \in [Caller -> Callers]
      /\ closer' \in [pc : {"idle", "notify", "writing", "grace", "over"}, kid : 0..MaxKids]
      /\ closer'.pc \in {"notify", "writing", "grace"} => closer'.kid \in Kid
  BY Fields DEF IInv, Placed, Shutdown
<1>7. \A h \in Kid : Closing(h) => Closing(h)'
  BY <1>6 DEF Closing
<1> QED
  BY <1>1, <1>2, <1>3, <1>4, <1>5, <1>6, <1>7, KidKeeps

\* The reader puts a message into a caller's channel.
LEMMA SendKeeps ==
    ASSUME IInv, NEW g \in Kid, NEW new \in Kids, kid' = [kid EXCEPT ![g] = new],
           NEW c \in Caller, NEW chan \in {"reply", "gone"},
           caller' = [caller EXCEPT ![c].chan = chan],
           kid[g].child # "none", ext' = ext, closer' = closer,
           new.child = kid[g].child, new.closed = kid[g].closed, new.killed = kid[g].killed,
           new.target # None => new.reader = "deliver",
           new.pending = kid[g].pending, new.asked = kid[g].asked,
           kid[g].tell \ {c} \subseteq new.tell,
           new.target = kid[g].target \/ kid[g].target = c
    PROVE  IInv'
<1>1. TypeOK /\ caller \in [Caller -> Callers] /\ caller[c] \in Callers
  BY Fields DEF IInv
<1> DEFINE rec == [caller[c] EXCEPT !.chan = chan]
<1>2. /\ rec \in Callers /\ rec.chan # "empty" /\ rec.pc = caller[c].pc
      /\ rec.op = caller[c].op /\ rec.kid = caller[c].kid
  BY <1>1 DEF Callers
<1>3. caller' = [caller EXCEPT ![c] = rec]
  BY <1>1
<1> HIDE DEF rec
<1>4. /\ caller' \in [Caller -> Callers] /\ caller'[c] = rec
      /\ \A d \in Caller \ {c} : caller'[d] = caller[d]
  BY <1>1, <1>2, <1>3
<1>5. \A d \in Caller :
         /\ caller'[d].pc = caller[d].pc /\ caller'[d].op = caller[d].op
         /\ caller'[d].kid = caller[d].kid
         /\ caller[d].chan # "empty" => caller'[d].chan # "empty"
         /\ Memory(kid[g], d, caller[d].chan) => Memory(new, d, caller'[d].chan)
  <2> SUFFICES ASSUME NEW d \in Caller
               PROVE  /\ caller'[d].pc = caller[d].pc /\ caller'[d].op = caller[d].op
                      /\ caller'[d].kid = caller[d].kid
                      /\ caller[d].chan # "empty" => caller'[d].chan # "empty"
                      /\ Memory(kid[g], d, caller[d].chan) => Memory(new, d, caller'[d].chan)
    OBVIOUS
  <2>1. CASE d = c
    BY <1>2, <1>4, <2>1 DEF Memory
  <2>2. CASE d # c
    BY <1>4, <2>2 DEF Memory
  <2> QED
    BY <2>1, <2>2
<1>6. /\ closer' \in [pc : {"idle", "notify", "writing", "grace", "over"}, kid : 0..MaxKids]
      /\ closer'.pc \in {"notify", "writing", "grace"} => closer'.kid \in Kid
      /\ kid[g].closed => kid[g].child # "up"
  BY Fields DEF IInv, Placed, Reading, Up
<1>7. \A h \in Kid : Closing(h) => Closing(h)'
  BY DEF Closing
<1>8. /\ \A d \in Caller :
            /\ caller'[d].pc = caller[d].pc /\ caller'[d].op = caller[d].op
            /\ caller'[d].kid = caller[d].kid
            /\ caller[d].chan # "empty" => caller'[d].chan # "empty"
      /\ \A d \in Caller : Memory(kid[g], d, caller[d].chan) => Memory(new, d, caller'[d].chan)
  BY <1>5
<1>9. kid[g].pending \subseteq new.pending \/ new.closed
  OBVIOUS
<1>10. caller' \in [Caller -> Callers]
  BY <1>4
<1>11. /\ new.child = "none" <=> kid[g].child = "none"
       /\ new.child = "up" => kid[g].child = "up"
       /\ new.child = "none" => new.reader = "over" /\ new.target = None /\ ~new.closed
       /\ new.closed => new.child # "up"
       /\ kid[g].closed => new.closed
       /\ kid[g].killed /\ new.child = "up" => new.killed
  BY <1>6
<1>12. \A h \in Kid : Closing(h) /\ kid'[h].child = "up" => Closing(h)' \/ kid'[h].killed
  BY <1>7
<1> QED
  BY <1>6, <1>8, <1>9, <1>10, <1>11, <1>12, KidKeeps

LEMMA DeliverKeeps == ASSUME IInv, NEW g \in Kid, Deliver(g) PROVE IInv'
<1> DEFINE new == [kid[g] EXCEPT !.reader = "scan", !.target = None]
<1>1. kid[g] \in Kids /\ kid[g].child # "none" /\ kid[g].target \in Caller \cup {None}
  BY Fields, Started1 DEF IInv, Deliver, Kids
<1>2. /\ new \in Kids /\ new.child = kid[g].child /\ new.closed = kid[g].closed
      /\ new.killed = kid[g].killed /\ new.target = None
      /\ new.pending = kid[g].pending /\ new.asked = kid[g].asked /\ new.tell = kid[g].tell
  BY <1>1 DEF Kids
<1>3. kid' = [kid EXCEPT ![g] = new]
  BY Fields DEF IInv, Deliver
<1> HIDE DEF new
<1>4. CASE kid[g].target \in Caller
  BY <1>1, <1>2, <1>3, <1>4, SendKeeps DEF Deliver
<1>5. CASE kid[g].target = None
  <2>1. caller' = caller
    BY <1>5, Fields DEF IInv, Deliver
  <2>2. \A d \in Caller : Memory(kid[g], d, caller[d].chan) => Memory(new, d, caller[d].chan)
    BY <1>2, <1>5 DEF Memory
  <2> QED
    BY <1>1, <1>2, <1>3, <2>1, <2>2, ReaderKeeps DEF Deliver
<1> QED
  BY <1>1, <1>4, <1>5

LEMMA TellKeeps == ASSUME IInv, NEW g \in Kid, Tell(g) PROVE IInv'
<1>0. ext' = ext /\ closer' = closer
  BY DEF Tell
<1>1. /\ kid[g] \in Kids /\ kid[g].child # "none" /\ kid[g].reader # "deliver"
      /\ kid[g].target = None
  BY Fields, Started1 DEF IInv, Reading, Tell
<1>2. ASSUME NEW c \in kid[g].tell, caller' = [caller EXCEPT ![c].chan = "gone"],
             kid' = [kid EXCEPT ![g].tell = @ \ {c}]
      PROVE  IInv'
  <2> DEFINE new == [kid[g] EXCEPT !.tell = @ \ {c}]
  <2>1. /\ new \in Kids /\ new.child = kid[g].child /\ new.closed = kid[g].closed
        /\ new.killed = kid[g].killed /\ new.target = kid[g].target
        /\ new.pending = kid[g].pending /\ new.asked = kid[g].asked
        /\ new.tell = kid[g].tell \ {c}
    BY <1>1 DEF Kids
  <2>2. kid' = [kid EXCEPT ![g] = new] /\ c \in Caller
    BY <1>1, <1>2, Fields DEF IInv, Kids
  <2> HIDE DEF new
  <2> QED
    BY <1>0, <1>1, <1>2, <2>1, <2>2, SendKeeps
<1>3. ASSUME NEW reader \in {"stuck", "over"}, kid' = [kid EXCEPT ![g].reader = reader],
             caller' = caller
      PROVE  IInv'
  <2> DEFINE new == [kid[g] EXCEPT !.reader = reader]
  <2>1. /\ new \in Kids /\ new.child = kid[g].child /\ new.closed = kid[g].closed
        /\ new.killed = kid[g].killed /\ new.target = kid[g].target
        /\ new.pending = kid[g].pending /\ new.asked = kid[g].asked
        /\ new.tell = kid[g].tell
    BY <1>1 DEF Kids
  <2>2. kid' = [kid EXCEPT ![g] = new]
    BY <1>3, Fields DEF IInv
  <2> HIDE DEF new
  <2> QED
    BY <1>0, <1>1, <1>3, <2>1, <2>2, ScanKeeps
<1> QED
  BY <1>2, <1>3 DEF Tell

LEMMA ExitKeeps == ASSUME IInv, NEW g \in Kid, Exit(g) PROVE IInv'
<1> DEFINE new == [kid[g] EXCEPT !.child = "exited", !.deaf = FALSE, !.killed = FALSE]
<1>1. kid[g] \in Kids /\ kid[g].child = "up" /\ (kid[g].target # None => kid[g].reader = "deliver")
  BY Fields DEF IInv, Reading, Exit, Up
<1>2. /\ new \in Kids /\ new.child = "exited" /\ new.closed = kid[g].closed
      /\ new.target = kid[g].target /\ new.reader = kid[g].reader
      /\ new.pending = kid[g].pending /\ new.asked = kid[g].asked /\ new.tell = kid[g].tell
  BY <1>1 DEF Kids
<1>3. kid' = [kid EXCEPT ![g] = new]
  BY Fields DEF IInv, Exit
<1> HIDE DEF new
<1>4. \A d \in Caller : Memory(kid[g], d, caller[d].chan) => Memory(new, d, caller[d].chan)
  BY <1>2 DEF Memory
<1>5. /\ caller' = caller /\ ext' = ext /\ closer' = closer
      /\ caller' \in [Caller -> Callers]
      /\ closer' \in [pc : {"idle", "notify", "writing", "grace", "over"}, kid : 0..MaxKids]
      /\ closer'.pc \in {"notify", "writing", "grace"} => closer'.kid \in Kid
  BY Fields DEF IInv, Placed, Exit
<1>6. \A h \in Kid : Closing(h) => Closing(h)'
  BY <1>5 DEF Closing
<1> QED
  BY <1>1, <1>2, <1>3, <1>4, <1>5, <1>6, KidKeeps

LEMMA GoDeafKeeps == ASSUME IInv, NEW g \in Kid, GoDeaf(g) PROVE IInv'
<1> DEFINE new == [kid[g] EXCEPT !.deaf = TRUE]
<1>1. kid[g] \in Kids /\ kid[g].child = "up" /\ (kid[g].target # None => kid[g].reader = "deliver")
  BY Fields DEF IInv, Reading, GoDeaf, Up
<1>2. /\ new \in Kids /\ new.child = kid[g].child /\ new.closed = kid[g].closed
      /\ new.killed = kid[g].killed
      /\ new.target = kid[g].target /\ new.reader = kid[g].reader
      /\ new.pending = kid[g].pending /\ new.asked = kid[g].asked /\ new.tell = kid[g].tell
  BY <1>1 DEF Kids
<1>3. kid' = [kid EXCEPT ![g] = new]
  BY Fields DEF IInv, GoDeaf
<1> HIDE DEF new
<1>4. \A d \in Caller : Memory(kid[g], d, caller[d].chan) => Memory(new, d, caller[d].chan)
  BY <1>2 DEF Memory
<1>5. /\ ext' = ext /\ caller' = caller /\ closer' = closer
      /\ kid[g].child # "none" /\ kid[g].pending \subseteq new.pending
      /\ new.target # None => new.reader = "deliver"
  BY <1>1, <1>2 DEF GoDeaf
<1> QED
  BY <1>2, <1>3, <1>4, <1>5, ReaderKeeps

\* A step of the closer that changes nothing of the child but its writer and killed.
LEMMA CloserKeeps ==
    ASSUME IInv, NEW g \in Kid, NEW new \in Kids, kid' = [kid EXCEPT ![g] = new],
           closer.kid = g, ext' = ext, caller' = caller,
           closer' \in [pc : {"idle", "notify", "writing", "grace", "over"}, kid : 0..MaxKids],
           \/ closer'.kid = g /\ closer'.pc \in {"writing", "grace"}
           \/ closer'.pc = "over" /\ (new.killed \/ new.closed),
           new.child = kid[g].child, new.closed = kid[g].closed,
           kid[g].killed => new.killed,
           new.target = kid[g].target, new.reader = kid[g].reader,
           new.pending = kid[g].pending, new.asked = kid[g].asked, new.tell = kid[g].tell
    PROVE  IInv'
<1>1. /\ caller' \in [Caller -> Callers] /\ kid'[g] = new
      /\ kid[g].closed => kid[g].child # "up"
      /\ kid[g].target # None => kid[g].reader = "deliver"
      /\ kid[g].child = "none" =>
            kid[g].reader = "over" /\ kid[g].target = None /\ ~kid[g].closed
  BY Fields DEF IInv, Numbered, Reading, Up
<1>2. \A h \in Kid : Closing(h) /\ kid'[h].child = "up" => Closing(h)' \/ kid'[h].killed
  BY <1>1 DEF Closing
<1>3. \A d \in Caller : Memory(kid[g], d, caller[d].chan) => Memory(new, d, caller'[d].chan)
  BY DEF Memory
<1>4. closer'.pc \in {"notify", "writing", "grace"} => closer'.kid \in Kid
  OBVIOUS
<1>5. /\ new.child = "none" <=> kid[g].child = "none"
      /\ new.child = "up" => kid[g].child = "up"
      /\ new.child = "none" => new.reader = "over" /\ new.target = None /\ ~new.closed
      /\ new.closed => new.child # "up"
      /\ kid[g].closed => new.closed
      /\ kid[g].killed /\ new.child = "up" => new.killed
      /\ new.target # None => new.reader = "deliver"
      /\ kid[g].pending \subseteq new.pending \/ new.closed
  BY <1>1
<1>6. \A d \in Caller :
         /\ caller'[d].pc = caller[d].pc /\ caller'[d].op = caller[d].op
         /\ caller'[d].kid = caller[d].kid
         /\ caller[d].chan # "empty" => caller'[d].chan # "empty"
  OBVIOUS
<1> QED
  BY <1>1, <1>2, <1>3, <1>4, <1>5, <1>6, KidKeeps

LEMMA CloseNotifyKeeps == ASSUME IInv, CloseNotify PROVE IInv'
<1> DEFINE g == closer.kid
<1>1. /\ g \in Kid /\ kid[g] \in Kids
      /\ closer \in [pc : {"idle", "notify", "writing", "grace", "over"}, kid : 0..MaxKids]
  BY Fields DEF IInv, Placed, CloseNotify
<1>2. ext' = ext /\ caller' = caller
  BY DEF CloseNotify
<1>3. ASSUME NEW writer \in {kid[g].writer, "closer", "none"}, NEW pc \in {"writing", "grace"},
             kid' = [kid EXCEPT ![g].writer = writer], closer' = [closer EXCEPT !.pc = pc]
      PROVE  IInv'
  <2> DEFINE new == [kid[g] EXCEPT !.writer = writer]
  <2>1. /\ new \in Kids /\ new.child = kid[g].child /\ new.closed = kid[g].closed
        /\ new.killed = kid[g].killed /\ new.target = kid[g].target
        /\ new.reader = kid[g].reader /\ new.pending = kid[g].pending
        /\ new.asked = kid[g].asked /\ new.tell = kid[g].tell
    BY <1>1 DEF Kids
  <2>2. kid' = [kid EXCEPT ![g] = new]
    BY <1>3, Fields DEF IInv
  <2>3. /\ closer' \in [pc : {"idle", "notify", "writing", "grace", "over"}, kid : 0..MaxKids]
        /\ closer'.kid = g /\ closer'.pc \in {"writing", "grace"}
    BY <1>1, <1>3
  <2> HIDE DEF new
  <2> QED
    BY <1>1, <1>2, <2>1, <2>2, <2>3, CloserKeeps
<1>4. CASE kid' = kid /\ closer' = [closer EXCEPT !.pc = "grace"]
  <2>1. kid' = [kid EXCEPT ![g].writer = kid[g].writer]
    BY <1>1, <1>4, Fields DEF IInv, Kids
  <2> QED
    BY <1>3, <1>4, <2>1
<1> QED
  BY <1>3, <1>4 DEF CloseNotify

LEMMA CloseEndsKeeps == ASSUME IInv, CloseEnds PROVE IInv'
<1> DEFINE g == closer.kid
           yes == ~kid[g].closed
           new == Killed(kid[g], yes)
<1>1. g \in Kid /\ kid[g] \in Kids
  BY Fields DEF IInv, Placed, CloseEnds
<1>2. /\ new \in Kids /\ new.child = kid[g].child /\ new.closed = kid[g].closed
      /\ kid[g].killed => new.killed
      /\ new.killed \/ new.closed
      /\ new.target = kid[g].target
      /\ new.reader = kid[g].reader /\ new.pending = kid[g].pending
      /\ new.asked = kid[g].asked /\ new.tell = kid[g].tell
  <2>1. CASE yes
    BY <1>1, <2>1 DEF Killed, Kids
  <2>2. CASE ~yes
    BY <1>1, <2>2 DEF Killed, Kids
  <2> QED
    BY <2>1, <2>2
<1>3. kid' = [kid EXCEPT ![g] = new] /\ ext' = ext /\ caller' = caller
  BY DEF CloseEnds
<1>4. closer' = [pc |-> "over", kid |-> 0]
  BY DEF CloseEnds
<1>5. /\ closer' \in [pc : {"idle", "notify", "writing", "grace", "over"}, kid : 0..MaxKids]
      /\ closer'.pc = "over"
  BY <1>4
<1> HIDE DEF new, yes
<1> QED
  BY <1>1, <1>2, <1>3, <1>5, CloserKeeps

LEMMA CloseStartKeeps == ASSUME IInv, CloseStart PROVE IInv'
<1>1. TypeOK /\ Numbered /\ Reading /\ Placed /\ Tabled /\ NoOrphan /\ NobodyForgotten
  BY DEF IInv
<1>2. /\ kid' = kid /\ caller' = caller /\ closer.pc = "idle" /\ ext.mu = None
      /\ ext' \in [proc : 0..MaxKids, restarts : 0..MaxRestarts, mu : Caller \cup {None}]
      /\ ext'.proc = 0 /\ ext'.mu = ext.mu
  BY <1>1, Fields DEF CloseStart
<1>3. /\ closer' \in [pc : {"idle", "notify", "writing", "grace", "over"}, kid : 0..MaxKids]
      /\ closer'.pc \in {"notify", "writing", "grace"} => closer'.kid \in Kid
      /\ ext.proc # 0 => closer'.pc = "notify" /\ closer'.kid = ext.proc
  <2>1. CASE ext.proc = 0
    BY <1>1, <2>1, Fields DEF CloseStart
  <2>2. CASE ext.proc # 0
    <3>1. closer' = [pc |-> "notify", kid |-> ext.proc]
      BY <2>2 DEF CloseStart
    <3>2. ext.proc \in Kid /\ ext.proc \in 0..MaxKids
      BY <1>1, <2>2, Fields
    <3> QED
      BY <3>1, <3>2
  <2> QED
    BY <2>1, <2>2
<1>4. TypeOK'
  BY <1>1, <1>2, <1>3 DEF TypeOK
<1>5. Started' = Started
  BY <1>2 DEF Started
<1>6. Numbered' /\ Reading' /\ Tabled' /\ NobodyForgotten'
  BY <1>1, <1>2, <1>5 DEF Numbered, Reading, Up, Tabled, NobodyForgotten
<1>7. Placed'
  BY <1>1, <1>2, <1>3 DEF Placed
<1>8. NoOrphan'
  <2> SUFFICES ASSUME NEW h \in Kid, Up(h)
               PROVE  Closing(h)' \/ kid'[h].killed
    BY <1>2 DEF NoOrphan, Up
  <2>1. ext.proc = h \/ kid[h].killed
    BY <1>1, <1>2 DEF NoOrphan, Handshaking, Closing
  <2> QED
    BY <1>2, <1>3, <2>1 DEF Closing, Kid
<1> QED
  BY <1>4, <1>6, <1>7, <1>8 DEF IInv

-----------------------------------------------------------------------------
(* Theorems.                                                               *)

LEMMA InitInvariant == Init => IInv
<1> SUFFICES ASSUME Init PROVE IInv
  OBVIOUS
<1>1. NoKid \in Kids /\ NoKid.child = "none" /\ NoKid.reader = "over" /\ NoKid.target = None
      /\ ~NoKid.closed
  BY DEF NoKid, Kids
<1>2. Idle \in Callers /\ Idle.pc = "idle" /\ Idle.op = "call"
  BY IdleType DEF Idle
<1>3. /\ \A g \in Kid : kid[g] = NoKid
      /\ \A c \in Caller : caller[c] = Idle
      /\ kid \in [Kid -> Kids] /\ caller \in [Caller -> Callers]
      /\ ext.mu = None /\ closer.pc = "idle"
  BY <1>1, <1>2 DEF Init
<1>4. TypeOK
  BY <1>3 DEF TypeOK, Init
<1>5. Numbered
  <2>1. Started = {}
    BY <1>1, <1>3 DEF Started
  <2>2. Cardinality(Started) = 0
    BY <2>1, FS_EmptySet
  <2> QED
    BY <1>1, <1>3, <2>2 DEF Numbered, Kid
<1>6. Reading /\ Placed /\ Tabled /\ NoOrphan /\ NobodyForgotten
  BY <1>1, <1>2, <1>3 DEF Reading, Placed, Tabled, NoOrphan, NobodyForgotten, Up
<1> QED
  BY <1>4, <1>5, <1>6 DEF IInv

LEMMA NextKeeps == IInv /\ [Next]_vars => IInv'
<1> SUFFICES ASSUME IInv, [Next]_vars PROVE IInv'
  OBVIOUS
<1>1. ASSUME NEW c \in Caller, Begin(c) \/ CallerStep(c) PROVE IInv'
  BY <1>1, BeginKeeps, EnterUseKeeps, EnterRefusedKeeps, EnterStartKeeps, RegisterKeeps,
     WriteKeeps, WriteBreaksKeeps, ReceiveKeeps, GiveUpKeeps DEF CallerStep
<1>2. ASSUME NEW g \in Kid, NEW c \in Caller, ReadReply(g, c) PROVE IInv'
  BY <1>2, ReadReplyKeeps
<1>3. ASSUME NEW g \in Kid,
             \/ Deliver(g) \/ ReadRequest(g) \/ Answer(g) \/ ScanEnds(g) \/ Shutdown(g)
             \/ Tell(g) \/ Exit(g) \/ GoDeaf(g)
      PROVE  IInv'
  BY <1>3, DeliverKeeps, ReadRequestKeeps, AnswerKeeps, ScanEndsKeeps, ShutdownKeeps,
     TellKeeps, ExitKeeps, GoDeafKeeps
<1>4. CASE CloseStart \/ CloserStep
  BY <1>4, CloseStartKeeps, CloseNotifyKeeps, CloseEndsKeeps DEF CloserStep
<1>5. CASE UNCHANGED vars
  <2>1. Started' = Started
    BY <1>5 DEF Started, vars
  <2> QED
    BY <1>5, <2>1 DEF vars, IInv, TypeOK, Numbered, Reading, Placed, Tabled, NoOrphan,
       NobodyForgotten, Up, Handshaking, Closing
<1> QED
  BY <1>1, <1>2, <1>3, <1>4, <1>5 DEF Next

\* The inductive invariant, over every step of External and process (external.go,
\* process.go) and of the child.
THEOREM ProcessInvariant == Spec => []IInv
BY InitInvariant, NextKeeps, PTL DEF Spec

\* For any number of callers, children and restarts every variable keeps its type: the
\* runtime never restarts an extension more often than maxRestarts.
THEOREM ProcessTypeCorrect == Spec => []TypeOK
<1>1. IInv => TypeOK
  BY DEF IInv
<1> QED
  BY <1>1, ProcessInvariant, PTL

\* However handshakes fail, children die and runtimes close, no child is left running
\* that the runtime has lost (External.process, Close).
THEOREM NoChildOrphaned == Spec => []NoOrphan
<1>1. IInv => NoOrphan
  BY DEF IInv
<1> QED
  BY <1>1, ProcessInvariant, PTL

\* However replies, deadlines and the child's death fall together, whoever waits is in
\* the table, being told, or has its message (call, deliver, shutdown).
THEOREM AllRemembered == Spec => []NobodyForgotten
<1>1. IInv => NobodyForgotten
  BY DEF IInv
<1> QED
  BY <1>1, ProcessInvariant, PTL

\* A child the runtime may still talk to: not killed, and not being closed.
Live(g) == Up(g) /\ ~kid[g].killed /\ ~Closing(g)

OneLiveChild == \A g, h \in Kid : Live(g) /\ Live(h) => g = h

\* However often an extension is restarted and whoever starts it, at most one child of it
\* is alive that is neither killed nor being closed: External.process starts another only
\* when the one in use is closed, and a handshake that fails kills its child.
THEOREM NeverTwoChildren == Spec => []OneLiveChild
<1>1. ASSUME IInv
      PROVE  OneLiveChild
  <2>1. \A g \in Kid : Live(g) => ext.proc = g \/ Handshaking(g)
    BY <1>1 DEF IInv, NoOrphan, Live
  <2>2. \A g, h \in Kid : Handshaking(g) /\ Handshaking(h) => g = h
    BY DEF Handshaking
  <2>3. \A g, h \in Kid : Handshaking(g) /\ ext.proc = h => ~Up(h)
    <3> SUFFICES ASSUME NEW g \in Kid, NEW h \in Kid, Handshaking(g), ext.proc = h
                 PROVE  ~Up(h)
      OBVIOUS
    <3>1. ext.mu # None /\ ext.proc # 0
      BY DEF Handshaking, Kid
    <3> QED
      BY <1>1, <3>1 DEF IInv, Placed, Reading
  <2>4. \A g \in Kid : Live(g) => Up(g)
    BY DEF Live
  <2> QED
    BY <2>1, <2>2, <2>3, <2>4 DEF OneLiveChild
<1> QED
  BY <1>1, ProcessInvariant, PTL
=============================================================================
