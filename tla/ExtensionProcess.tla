--------------------------- MODULE ExtensionProcess ---------------------------
(***************************************************************************)
(* An extension as a child process (extension/external): External starts   *)
(* and restarts it on demand, process speaks JSON-RPC with it over its     *)
(* stdin and stdout.  Callers write their requests and wait, each on a     *)
(* channel of capacity one; a single reader goroutine per child delivers   *)
(* the replies, answers the child's own requests, and tells every caller   *)
(* when the child is gone.                                                 *)
(*                                                                         *)
(* The child is the environment: it answers or not, in any order, exits at *)
(* any moment, and may break the protocol in the ways of Faults.  Requests *)
(* and replies are abstracted to the caller they belong to: a reply whose  *)
(* id is no longer pending is dropped, so it is not a step.                *)
(***************************************************************************)
EXTENDS Naturals, FiniteSets

CONSTANTS
    Caller,       \* goroutines that call the extension
    None,
    Timed,        \* the callers whose context has a deadline
    Faults,       \* what a broken child may do: "duplicate", "oversize", "deaf"
    MaxRestarts,  \* maxRestarts
    MaxKids       \* bound: children that start; any further one fails to

Kid == 1..MaxKids

ASSUME ProcessAssumption ==
    /\ None \notin Caller /\ Timed \subseteq Caller
    /\ Faults \subseteq {"duplicate", "oversize", "deaf"}
    /\ MaxRestarts \in Nat /\ MaxKids \in Nat

VARIABLES
    ext,      \* External: the child in use, restarts, who holds the mutex
    kid,      \* every child started so far, with its process record
    caller,   \* each caller's call in progress
    closer    \* External.Close

vars == <<ext, kid, caller, closer>>

-----------------------------------------------------------------------------
\* child: the operating system's process.  deaf: it no longer reads its stdin.
\* writer: who holds writeMu inside a blocked write.  target: whose channel the
\* reader is sending to.  tell: the waiters shutdown has still to tell; lost: one
\* of them left with a message unread, so that the send to it blocks for ever.
Kids == [child : {"none", "up", "exited"}, deaf : BOOLEAN, killed : BOOLEAN,
         closed : BOOLEAN,
         reader : {"scan", "deliver", "answer", "blocked", "wait", "tell", "stuck", "over"},
         target : Caller \cup {None},
         writer : {"none", "caller", "reader", "closer"},
         pending : SUBSET Caller, asked : SUBSET Caller,
         tell : SUBSET Caller, lost : BOOLEAN]

NoKid == [child |-> "none", deaf |-> FALSE, killed |-> FALSE, closed |-> FALSE,
          reader |-> "over", target |-> None, writer |-> "none", pending |-> {},
          asked |-> {}, tell |-> {}, lost |-> FALSE]

\* chan is the caller's channel: empty, or holding a reply or the exit error.
Callers == [pc : {"idle", "enter", "register", "write", "writing", "await"},
            op : {"initialize", "call"}, kid : 0..MaxKids,
            chan : {"empty", "reply", "gone"}]

Idle == [pc |-> "idle", op |-> "call", kid |-> 0, chan |-> "empty"]

Init ==
    /\ ext = [proc |-> 0, restarts |-> 0, mu |-> None]
    /\ kid = [g \in Kid |-> NoKid]
    /\ caller = [c \in Caller |-> Idle]
    /\ closer = [pc |-> "idle", kid |-> 0]

Started == {g \in Kid : kid[g].child # "none"}
Up(g) == kid[g].child = "up"

-----------------------------------------------------------------------------
(* External.process: a live child, started or restarted as needed.         *)

MayRestart == ext.restarts < MaxRestarts

Begin(c) ==
    /\ caller[c].pc = "idle"
    /\ caller' = [caller EXCEPT ![c].pc = "enter"]
    /\ UNCHANGED <<ext, kid, closer>>

EnterUse(c) ==
    /\ caller[c].pc = "enter" /\ ext.mu = None
    /\ ext.proc # 0 /\ ~kid[ext.proc].closed
    /\ caller' = [caller EXCEPT ![c] = [@ EXCEPT !.pc = "register", !.kid = ext.proc]]
    /\ UNCHANGED <<ext, kid, closer>>

EnterRefused(c) ==
    /\ caller[c].pc = "enter" /\ ext.mu = None
    /\ ext.proc # 0 /\ kid[ext.proc].closed
    /\ ~MayRestart
    /\ caller' = [caller EXCEPT ![c] = Idle]
    /\ UNCHANGED <<ext, kid, closer>>

\* A dead child is replaced, up to the cap; the mutex is held over the handshake.
EnterStart(c) ==
    /\ caller[c].pc = "enter" /\ ext.mu = None
    /\ ext.proc # 0 => kid[ext.proc].closed /\ MayRestart
    /\ LET g == Cardinality(Started) + 1
           restarts == IF ext.proc = 0 THEN ext.restarts ELSE ext.restarts + 1
       IN
       \/ /\ g <= MaxKids
          /\ kid' = [kid EXCEPT ![g].child = "up", ![g].reader = "scan"]
          /\ caller' = [caller EXCEPT ![c] = [@ EXCEPT !.pc = "register", !.kid = g,
                                                       !.op = "initialize"]]
          /\ ext' = [ext EXCEPT !.restarts = restarts, !.mu = c]
       \/ /\ ext' = [ext EXCEPT !.restarts = restarts]     \* it does not even start
          /\ caller' = [caller EXCEPT ![c] = Idle]
          /\ UNCHANGED kid
    /\ UNCHANGED closer

-----------------------------------------------------------------------------
(* process.call.                                                           *)

\* The caller takes its entry out of the table and leaves its channel behind,
\* with a message unread or empty; a send to it that is under way blocks for ever
\* in the one case and goes through in the other.
Left(k, c, unread) ==
    [k EXCEPT !.pending = @ \ {c}, !.asked = @ \ {c},
              !.tell = @ \ {c}, !.lost = @ \/ (unread /\ c \in k.tell),
              !.reader = IF k.target # c THEN @ ELSE IF unread THEN "stuck" ELSE "scan",
              !.target = IF @ = c THEN None ELSE @]

Killed(k, yes) == IF yes THEN [k EXCEPT !.killed = TRUE] ELSE k

\* Mutant of Fail: a child whose handshake failed is forgotten.
FailForgetting(c, k, unread) ==
    /\ kid' = [kid EXCEPT ![caller[c].kid] = Left(k, c, unread)]
    /\ caller' = [caller EXCEPT ![c] = Idle]
    /\ ext' = [ext EXCEPT !.mu = IF @ = c THEN None ELSE @]

\* The call returns an error; a failed handshake kills the child.
Fail(c, k, unread) ==
    /\ kid' = [kid EXCEPT ![caller[c].kid] =
                  Killed(Left(k, c, unread), caller[c].op = "initialize")]
    /\ caller' = [caller EXCEPT ![c] = Idle]
    /\ ext' = [ext EXCEPT !.mu = IF @ = c THEN None ELSE @]

Register(c) ==
    LET k == kid[caller[c].kid] IN
    /\ caller[c].pc = "register"
    /\ \/ k.closed /\ Fail(c, k, FALSE)
       \/ /\ ~k.closed
          /\ kid' = [kid EXCEPT ![caller[c].kid].pending = @ \cup {c}]
          /\ caller' = [caller EXCEPT ![c].pc = "write", ![c].chan = "empty"]
          /\ UNCHANGED ext
    /\ UNCHANGED closer

\* The write fails once the child is gone, and blocks while it does not read.
Write(c) ==
    LET k == kid[caller[c].kid] IN
    /\ caller[c].pc = "write" /\ k.writer = "none"
    /\ \/ (k.closed \/ k.child = "exited") /\ Fail(c, k, caller[c].chan # "empty")
       \/ /\ ~k.closed /\ k.child = "up" /\ ~k.deaf
          /\ kid' = [kid EXCEPT ![caller[c].kid].asked = @ \cup {c}]
          /\ caller' = [caller EXCEPT ![c].pc = "await"]
          /\ UNCHANGED ext
       \/ /\ ~k.closed /\ k.child = "up" /\ k.deaf
          /\ kid' = [kid EXCEPT ![caller[c].kid].writer = "caller"]
          /\ caller' = [caller EXCEPT ![c].pc = "writing"]
          /\ UNCHANGED ext
    /\ UNCHANGED closer

\* The pipe of the blocked write breaks.
WriteBreaks(c) ==
    LET k == kid[caller[c].kid] IN
    /\ caller[c].pc = "writing" /\ k.child = "exited"
    /\ Fail(c, [k EXCEPT !.writer = "none"], caller[c].chan # "empty")
    /\ UNCHANGED closer

\* A reply: the result, or an error of the extension's.
Receive(c) ==
    LET k == kid[caller[c].kid] IN
    /\ caller[c].pc = "await" /\ caller[c].chan # "empty"
    /\ \/ /\ caller[c].chan = "reply" /\ caller[c].op = "call"
          /\ kid' = [kid EXCEPT ![caller[c].kid] = Left(k, c, FALSE)]
          /\ caller' = [caller EXCEPT ![c] = Idle]
          /\ UNCHANGED ext
       \/ /\ caller[c].chan = "reply" /\ caller[c].op = "initialize"
          /\ kid' = [kid EXCEPT ![caller[c].kid] = Left(k, c, FALSE)]
          /\ caller' = [caller EXCEPT ![c] = [@ EXCEPT !.pc = "register", !.op = "call",
                                                       !.chan = "empty"]]
          /\ ext' = [ext EXCEPT !.proc = caller[c].kid, !.mu = None]
       \/ Fail(c, k, FALSE)
    /\ UNCHANGED closer

\* Mutant of GiveUp: the handshake does not get the caller's context.
GiveUpInCallOnly(c) ==
    /\ caller[c].pc = "await" /\ c \in Timed /\ caller[c].op = "call"
    /\ Fail(c, kid[caller[c].kid], caller[c].chan # "empty")
    /\ UNCHANGED closer

\* The deadline, at any moment: select takes it even if a reply has come.
GiveUp(c) ==
    /\ caller[c].pc = "await" /\ c \in Timed
    /\ Fail(c, kid[caller[c].kid], caller[c].chan # "empty")
    /\ UNCHANGED closer

-----------------------------------------------------------------------------
(* The reader goroutine of child g.                                        *)

\* A reply was read, and the caller looked up in the table.  A child that answers
\* twice finds it there as long as the first reply has not been taken.
ReadReply(g, c) ==
    LET k == kid[g] IN
    /\ k.reader = "scan" /\ c \in k.pending
    /\ c \in k.asked \/ ("duplicate" \in Faults /\ caller[c].chan = "reply")
    /\ kid' = [kid EXCEPT ![g] = [k EXCEPT !.reader = "deliver", !.target = c,
                                           !.asked = @ \ {c}]]
    /\ UNCHANGED <<ext, caller, closer>>

Deliver(g) ==
    LET k == kid[g] IN
    /\ k.reader = "deliver" /\ caller[k.target].chan = "empty"
    /\ caller' = [caller EXCEPT ![k.target].chan = "reply"]
    /\ kid' = [kid EXCEPT ![g].reader = "scan", ![g].target = None]
    /\ UNCHANGED <<ext, closer>>

\* The child asks for a secret, and the reader writes the answer itself: that is
\* over at once if the child reads it, and holds the reader up if it does not.
ReadRequest(g) ==
    /\ kid[g].reader = "scan" /\ Up(g) /\ kid[g].deaf
    /\ kid' = [kid EXCEPT ![g].reader = "answer"]
    /\ UNCHANGED <<ext, caller, closer>>

Answer(g) ==
    LET k == kid[g] IN
    /\ \/ /\ k.reader = "answer" /\ k.writer = "none"
          /\ kid' = [kid EXCEPT ![g] =
                        IF Up(g) THEN [@ EXCEPT !.reader = "blocked", !.writer = "reader"]
                        ELSE [@ EXCEPT !.reader = "scan"]]
       \/ /\ k.reader = "blocked" /\ ~Up(g)
          /\ kid' = [kid EXCEPT ![g] = [@ EXCEPT !.reader = "scan", !.writer = "none"]]
    /\ UNCHANGED <<ext, caller, closer>>

\* The scan ends: at the end of the output, or at a line longer than maxLine.
ScanEnds(g) ==
    /\ kid[g].reader = "scan"
    /\ ~Up(g) \/ "oversize" \in Faults
    /\ kid' = [kid EXCEPT ![g].reader = "wait"]
    /\ UNCHANGED <<ext, caller, closer>>

\* Mutant of Shutdown: the table is emptied, but nobody in it is told.
ShutdownForgetting(g) ==
    /\ kid[g].reader = "wait" /\ ~Up(g)
    /\ kid' = [kid EXCEPT ![g] = [@ EXCEPT !.reader = "tell", !.closed = TRUE, !.pending = {}]]
    /\ UNCHANGED <<ext, caller, closer>>

\* cmd.Wait returns, and shutdown takes the table of waiters.
Shutdown(g) ==
    LET k == kid[g] IN
    /\ k.reader = "wait" /\ ~Up(g)
    /\ kid' = [kid EXCEPT ![g] = [k EXCEPT !.reader = "tell", !.closed = TRUE,
                                           !.tell = @ \cup k.pending, !.pending = {}]]
    /\ UNCHANGED <<ext, caller, closer>>

Tell(g) ==
    LET k == kid[g] IN
    /\ k.reader = "tell"
    /\ \/ \E c \in k.tell :
             /\ caller[c].chan = "empty"
             /\ caller' = [caller EXCEPT ![c].chan = "gone"]
             /\ kid' = [kid EXCEPT ![g].tell = @ \ {c}]
       \/ k.lost /\ kid' = [kid EXCEPT ![g].reader = "stuck"] /\ UNCHANGED caller
       \/ /\ k.tell = {} /\ ~k.lost
          /\ kid' = [kid EXCEPT ![g].reader = "over"]
          /\ UNCHANGED caller
    /\ UNCHANGED <<ext, closer>>

-----------------------------------------------------------------------------
(* External.Close: ask, wait for the grace period, kill.                   *)

CloseStart ==
    /\ closer.pc = "idle" /\ ext.mu = None
    /\ ext' = [ext EXCEPT !.proc = 0]
    /\ closer' = IF ext.proc = 0 THEN [closer EXCEPT !.pc = "over"]
                 ELSE [pc |-> "notify", kid |-> ext.proc]
    /\ UNCHANGED <<kid, caller>>

CloseNotify ==
    LET k == kid[closer.kid] IN
    /\ \/ /\ closer.pc = "notify" /\ k.writer = "none"
          /\ IF k.child = "up" /\ k.deaf
             THEN /\ kid' = [kid EXCEPT ![closer.kid].writer = "closer"]
                  /\ closer' = [closer EXCEPT !.pc = "writing"]
             ELSE closer' = [closer EXCEPT !.pc = "grace"] /\ UNCHANGED kid
       \/ /\ closer.pc = "writing" /\ k.child = "exited"
          /\ kid' = [kid EXCEPT ![closer.kid].writer = "none"]
          /\ closer' = [closer EXCEPT !.pc = "grace"]
    /\ UNCHANGED <<ext, caller>>

\* Mutant of CloseEnds: it waits for done alone.
CloseEndsWhenDone ==
    /\ closer.pc = "grace" /\ kid[closer.kid].reader = "over"
    /\ closer' = [pc |-> "over", kid |-> 0]
    /\ UNCHANGED <<ext, kid, caller>>

\* done is closed, or the grace period is over.
CloseEnds ==
    /\ closer.pc = "grace"
    /\ closer' = [pc |-> "over", kid |-> 0]
    /\ kid' = [kid EXCEPT ![closer.kid] = Killed(kid[closer.kid], ~kid[closer.kid].closed)]
    /\ UNCHANGED <<ext, caller>>

-----------------------------------------------------------------------------
(* The child.                                                              *)

Exit(g) ==
    /\ Up(g)
    /\ kid' = [kid EXCEPT ![g] = [@ EXCEPT !.child = "exited", !.deaf = FALSE, !.killed = FALSE]]
    /\ UNCHANGED <<ext, caller, closer>>

GoDeaf(g) ==
    /\ "deaf" \in Faults /\ Up(g) /\ ~kid[g].deaf
    /\ kid' = [kid EXCEPT ![g].deaf = TRUE]
    /\ UNCHANGED <<ext, caller, closer>>

CallerStep(c) ==
    \/ EnterUse(c) \/ EnterRefused(c) \/ EnterStart(c)
    \/ Register(c) \/ Write(c) \/ WriteBreaks(c) \/ Receive(c) \/ GiveUp(c)

ReaderStep(g) == Deliver(g) \/ Answer(g) \/ (~Up(g) /\ ScanEnds(g)) \/ Shutdown(g) \/ Tell(g)

CloserStep == CloseNotify \/ CloseEnds

Next ==
    \/ \E c \in Caller : Begin(c) \/ CallerStep(c)
    \/ \E g \in Kid :
          \/ \E c \in Caller : ReadReply(g, c)
          \/ Deliver(g) \/ ReadRequest(g) \/ Answer(g) \/ ScanEnds(g) \/ Shutdown(g) \/ Tell(g)
          \/ Exit(g) \/ GoDeaf(g)
    \/ CloseStart \/ CloserStep

Spec == Init /\ [][Next]_vars

\* The host's goroutines run, and get a mutex they wait for in turn; deadlines pass
\* (GiveUp) and a killed process dies; whether the child ever answers or exits by
\* itself is open.
FairSpec ==
    /\ Spec
    /\ \A c \in Caller : SF_vars(CallerStep(c))
    /\ \A g \in Kid : WF_vars(ReaderStep(g)) /\ WF_vars(kid[g].killed /\ Exit(g))
    /\ WF_vars(CloserStep)

-----------------------------------------------------------------------------
(* Properties.                                                             *)

TypeOK ==
    /\ ext \in [proc : 0..MaxKids, restarts : 0..MaxRestarts, mu : Caller \cup {None}]
    /\ kid \in [Kid -> Kids]
    /\ caller \in [Caller -> Callers]
    /\ closer \in [pc : {"idle", "notify", "writing", "grace", "over"}, kid : 0..MaxKids]

Handshaking(g) ==
    \E c \in Caller : ext.mu = c /\ caller[c].kid = g /\ caller[c].op = "initialize"

Closing(g) == closer.kid = g /\ closer.pc \in {"notify", "writing", "grace"}

\* No child is left running behind the runtime's back: one that is up is the one
\* in use, is being handshaken or closed, or has been killed.
NoOrphan == \A g \in Kid : Up(g) => ext.proc = g \/ Handshaking(g) \/ Closing(g) \/ kid[g].killed

\* Whoever waits for a reply is remembered: its request is pending, its reply on the
\* way or in its channel, or shutdown is about to tell it, whichever way replies,
\* deadlines and the child's end fall together.
NobodyForgotten ==
    \A c \in Caller : caller[c].pc = "await" =>
       LET k == kid[caller[c].kid] IN
       c \in k.pending \cap k.asked \/ k.target = c \/ c \in k.tell \/ caller[c].chan # "empty"

\* A call with a deadline returns, whatever the child does on its output, unless a
\* child has stopped reading its input.
CallsReturn ==
    \A c \in Caller : caller[c].pc # "idle" ~> caller[c].pc = "idle" \/ \E g \in Kid : kid[g].deaf

\* A runtime that closes gets through, unless the child has stopped reading.
CloseReturns ==
    closer.pc \in {"notify", "writing", "grace"} ~> closer.pc = "over" \/ \E g \in Kid : kid[g].deaf
=============================================================================
