------------------------------- MODULE StepBody -------------------------------
(***************************************************************************)
(* What a step's statements do (engine/interpreter/exec.go) and what three *)
(* analyses of lint say of them without running them (internal/lang/lint): *)
(* checkConstReassign (const.go), alwaysDiverts (fallthrough.go) and the   *)
(* types collectVarNames infers (checks.go, varinfer.go).                  *)
(*                                                                         *)
(* A body is the sequence of its statements in the order they are written, *)
(* blocks marked off: if .. else .. fi, while .. done, for .. done,        *)
(* try .. catch .. finally .. end.  It is written statement by statement,  *)
(* the walks of lint in step with it, and then run.                        *)
(*                                                                         *)
(* A value is its type, and a condition or the length of an array may be   *)
(* anything whenever it is looked at.  goto stands for the signals that    *)
(* leave a step: goto, break, pause, complete.                             *)
(***************************************************************************)
EXTENDS Naturals, FiniteSets, SequencesExt

CONSTANTS
    Local,        \* names a step may declare
    Inputs,       \* the pipeline's inputs: read-only
    PipeVars,     \* the pipeline's own variables
    MaxTurns,     \* maxLoopIterations
    MaxStatements \* bound: the statements of a body

Names == Local \cup Inputs \cup PipeVars
Types == {"number", "string"}
Unknown == "any"            \* to lint: of some type
Undeclared == "none"

ASSUME BodyAssumption == MaxTurns \in Nat \ {0}

VARIABLES
    body,         \* the statements and marks written so far
    open,         \* the marks of the blocks still open, outermost first
    walk,         \* what lint's walks have found above each position
    line,         \* the statement to run, 0 while the body is written
    sig,          \* the error or signal under way, if any
    frames,       \* the loops and the sections of try being run, outermost first
    env,          \* the types of the step's variables
    pipe,         \* and of the pipeline's
    consts,       \* the constants the step knows of
    outcome,      \* what RunStep returned
    \* history
    had,          \* what each name was ever bound to
    again,        \* a loop went round again
    raised,       \* the signals raised
    overridden    \* a finally came to something else than what was under way

text == <<body, open, walk>>
data == <<env, pipe, consts, had>>
past == <<again, raised, overridden>>
stepVars == <<text, line, sig, frames, data, outcome, past>>

-----------------------------------------------------------------------------
(* Statements and the marks of blocks.                                     *)

Exprs == Types \cup Local \cup PipeVars      \* a literal, or a name

\* self is an assignment to self.name.
Plain ==
    [do : {"const", "var", "assign", "self"}, name : Names, expr : Exprs]
        \cup [do : {"return", "goto", "fail"}]

Openers == [do : {"if", "while", "try"}] \cup [do : {"for"}, name : Names]

\* The mark that ends the block another one begins.
Closing(do) ==
    CASE do = "if" -> "else"
      [] do = "else" -> "fi"
      [] do \in {"while", "for"} -> "done"
      [] do = "try" -> "catch"
      [] do = "catch" -> "finally"
      [] do = "finally" -> "end"

\* The marks that may end the block begun at b; catch names its error.
Marks(b) ==
    IF body[b].do = "try" THEN [do : {"catch"}, of : {b}, name : Names]
    ELSE [do : {Closing(body[b].do)}, of : {b}]

Ends == {"fi", "done", "end"}
IsMark(s) == s.do \in {"else", "catch", "finally"} \cup Ends

\* Where the block begun at b ends.
Closer(b) == CHOOSE m \in DOMAIN body : IsMark(body[m]) /\ body[m].of = b

-----------------------------------------------------------------------------
(* checkConstReassign.                                                     *)

\* Mutant of Reassigns: only an assignment is looked at.
ReassignsOnly(found, s) == s.do \in {"assign", "self"} /\ s.name \in found

Reassigns(found, s) == s.do \in {"var", "assign", "self"} /\ s.name \in found

WalkConsts(found, s) == found \cup (IF s.do = "const" THEN {s.name} ELSE {})

-----------------------------------------------------------------------------
(* alwaysDiverts.                                                          *)

\* Mutant of BothDivert: one branch of the if is enough.
BothDivertEither(then, else) == then \/ else

BothDivert(then, else) == then /\ else

\* A list that ends with s diverts, where an if ends with its second list.
AlwaysDiverts(s, before) ==
    \/ s.do \in {"goto", "fail"}
    \/ /\ s.do = "fi"
       /\ BothDivert(walk[s.of].diverts, before.diverts)

-----------------------------------------------------------------------------
(* collectVarNames and mergeVarType.                                       *)

Infer(known, e) ==
    IF e \in Types THEN e ELSE IF known[e] # Undeclared THEN known[e] ELSE Unknown

\* Mutant of MergeVarType: the last assignment decides.
MergeVarTypeLast(known, n, e) == [known EXCEPT ![n] = Infer(known, e)]

\* First seen decides; anything that disagrees makes the type unknown for good.
MergeVarType(known, n, e) ==
    [known EXCEPT ![n] = IF @ \in {Undeclared, Infer(known, e)} THEN Infer(known, e) ELSE Unknown]

Declare(known, n) == [known EXCEPT ![n] = IF @ = Undeclared THEN Unknown ELSE @]

\* self.name = ... is not a bare name, and passed over; a catch name is declared after
\* the block it guards.
CollectVarNames(known, s) ==
    IF s.do \in {"var", "const"} \/ (s.do = "assign" /\ known[s.name] # Undeclared)
    THEN MergeVarType(known, s.name, s.expr)
    ELSE IF s.do \in {"for", "catch"} THEN Declare(known, s.name)
    ELSE known

\* The types of the pipeline's inputs and variables, as declared.
Given == [n \in Names |-> IF n \in Inputs \cup PipeVars THEN "number" ELSE Undeclared]

-----------------------------------------------------------------------------
(* Writing a body.                                                         *)

Look(before, s) ==
    [consts |-> WalkConsts(before.consts, s),
     clean |-> before.clean /\ ~Reassigns(before.consts, s),
     known |-> CollectVarNames(before.known, s),
     diverts |-> AlwaysDiverts(s, before)]

Written == Cardinality({k \in DOMAIN body : ~IsMark(body[k])})

Write(s) ==
    /\ line = 0
    /\ body' = Append(body, s)
    /\ walk' = Append(walk, Look(Last(walk), s))
    /\ UNCHANGED <<line, sig, frames, data, outcome, past>>

WritePlain ==
    /\ Written < MaxStatements
    /\ \E s \in Plain : Write(s)
    /\ UNCHANGED open

WriteOpener ==
    /\ Written < MaxStatements
    /\ \E s \in Openers : Write(s)
    /\ open' = Append(open, Len(body) + 1)

\* A mark ends a block and, unless it is the last of its statement, begins the next.
WriteMark ==
    /\ open # <<>>
    /\ \E s \in Marks(Last(open)) :
          /\ Write(s)
          /\ open' = IF s.do \in Ends THEN Front(open) ELSE Append(Front(open), Len(body) + 1)

-----------------------------------------------------------------------------
(* Running it.                                                             *)

Signals == {"return", "goto"}
IsControlSignal(s) == s \in Signals
Errors == {"fail", "constant", "undefined", "mistyped", "endless"}
Endings == {"next"} \cup Signals \cup Errors

\* RunStep begins with the step's first statement.
Begin ==
    /\ line = 0 /\ open = <<>>
    /\ line' = 1
    /\ UNCHANGED <<text, sig, frames, data, outcome, past>>

Here == body[line]
Reached(do) == line \in DOMAIN body /\ sig = "next" /\ Here.do = do

\* What a name stands for: the step's own variable, else the pipeline's.
Visible(n) == IF env[n] # Undeclared THEN env[n] ELSE pipe[n]
Value(e) == IF e \in Types THEN e ELSE Visible(e)

Raise(s) ==
    /\ sig' = s
    /\ raised' = raised \cup ({s} \cap Signals)
    /\ UNCHANGED <<text, line, frames, data, outcome, again, overridden>>

Proceed(p) ==
    /\ line' = p
    /\ UNCHANGED <<text, sig, frames, outcome, past>>

Bind(n, v) ==
    /\ env' = [env EXCEPT ![n] = v]
    /\ had' = had \cup {<<n, v>>}
    /\ UNCHANGED pipe

BindPipe(n, v) ==
    /\ pipe' = [pipe EXCEPT ![n] = v]
    /\ had' = had \cup {<<n, v>>}
    /\ UNCHANGED <<env, consts>>

\* const: bound and noted as a constant; declaring it again binds it again.
Const ==
    /\ Reached("const")
    /\ \/ Value(Here.expr) = Undeclared /\ Raise("undefined")
       \/ /\ Value(Here.expr) # Undeclared
          /\ Bind(Here.name, Value(Here.expr))
          /\ consts' = consts \cup {Here.name}
          /\ Proceed(line + 1)

Var ==
    /\ Reached("var")
    /\ \/ Here.name \in consts /\ Raise("constant")
       \/ Here.name \notin consts /\ Value(Here.expr) = Undeclared /\ Raise("undefined")
       \/ /\ Here.name \notin consts /\ Value(Here.expr) # Undeclared
          /\ Bind(Here.name, Value(Here.expr))
          /\ UNCHANGED consts
          /\ Proceed(line + 1)

\* execAssign: the step's own variable, else the pipeline's; never declares.
Assign ==
    /\ Reached("assign")
    /\ \/ Here.name \in consts /\ Raise("constant")
       \/ /\ Here.name \notin consts
          /\ Undeclared \in {Visible(Here.name), Value(Here.expr)}
          /\ Raise("undefined")
       \/ /\ Here.name \notin consts
          /\ Undeclared \notin {Visible(Here.name), Value(Here.expr)}
          /\ IF env[Here.name] # Undeclared
             THEN Bind(Here.name, Value(Here.expr)) /\ UNCHANGED consts
             ELSE BindPipe(Here.name, Value(Here.expr))
          /\ Proceed(line + 1)

\* self.name is the pipeline's variable, whatever the step calls by that name; what may
\* be written is still asked of the name.
AssignSelf ==
    /\ Reached("self")
    /\ \/ Here.name \in consts /\ Raise("constant")
       \/ /\ Here.name \notin consts
          /\ Undeclared \in {pipe[Here.name], Value(Here.expr)}
          /\ Raise("undefined")
       \/ /\ Here.name \notin consts
          /\ Undeclared \notin {pipe[Here.name], Value(Here.expr)}
          /\ BindPipe(Here.name, Value(Here.expr))
          /\ Proceed(line + 1)

Leave == \E do \in {"return", "goto", "fail"} : Reached(do) /\ Raise(do)

\* A condition that is no bool, an iterable that is no array.
Mistyped == \E do \in {"if", "while", "for"} : Reached(do) /\ Raise("mistyped")

\* execIf: the then block, or what is behind its mark.
If ==
    /\ Reached("if")
    /\ \E taken \in BOOLEAN : Proceed(IF taken THEN line + 1 ELSE Closer(line) + 1)
    /\ UNCHANGED data

EndThen == Reached("else") /\ Proceed(Closer(line) + 1) /\ UNCHANGED data
EndIf == Reached("fi") /\ Proceed(line + 1) /\ UNCHANGED data

-----------------------------------------------------------------------------
(* Loops.  turn counts the turns begun, of the turns an array has elements *)
(* for.                                                                    *)

Frame(at, turn, turns, pending) ==
    [at |-> at, turn |-> turn, turns |-> turns, pending |-> pending]

Top == Last(frames)
Within(words) == frames # <<>> /\ body[Top.at].do \in words

Enter(frame) ==
    /\ frames' = Append(frames, frame)
    /\ line' = line + 1
    /\ UNCHANGED <<text, sig, outcome, past>>

Passes == Proceed(Closer(line) + 1) /\ UNCHANGED data

While ==
    /\ Reached("while")
    /\ Passes \/ (Enter(Frame(line, 1, MaxTurns, "next")) /\ UNCHANGED data)

\* execForIn looks at the length of its array before the first turn.
For ==
    /\ Reached("for")
    /\ \/ Raise("endless")
       \/ Passes
       \/ \E n \in 1..MaxTurns :
             /\ Enter(Frame(line, 1, n, "next"))
             /\ Bind(Here.name, "string") /\ UNCHANGED consts

\* A turn is over.  execWhile looks at its count before it looks at the condition.
TurnOver(word) ==
    /\ Reached("done") /\ frames # <<>> /\ Top.at = Here.of /\ body[Top.at].do = word

LeaveLoop ==
    /\ line' = line + 1
    /\ frames' = Front(frames)
    /\ UNCHANGED <<text, sig, data, outcome, past>>

NextTurn ==
    /\ line' = Top.at + 1
    /\ frames' = [frames EXCEPT ![Len(frames)].turn = @ + 1]
    /\ again' = TRUE
    /\ UNCHANGED <<text, sig, outcome, raised, overridden>>

WhileTurn ==
    /\ TurnOver("while")
    /\ \/ Top.turn >= MaxTurns /\ Raise("endless")
       \/ Top.turn < MaxTurns /\ (LeaveLoop \/ Raise("mistyped") \/ (NextTurn /\ UNCHANGED data))

ForTurn ==
    /\ TurnOver("for")
    /\ \/ Top.turn = Top.turns /\ LeaveLoop
       \/ /\ Top.turn < Top.turns /\ NextTurn
          /\ Bind(body[Top.at].name, "string") /\ UNCHANGED consts

\* An error or a signal leaves the loop.
UnwindLoop ==
    /\ sig # "next" /\ Within({"while", "for"})
    /\ frames' = Front(frames)
    /\ UNCHANGED <<text, line, sig, data, outcome, past>>

-----------------------------------------------------------------------------
(* try.  Each of its three sections has a frame of its own, begun at its   *)
(* mark; that of finally keeps what is to be returned behind it.           *)

EnterTry ==
    /\ Reached("try")
    /\ Enter(Frame(line, 0, 0, "next"))
    /\ UNCHANGED data

\* The section being run is over: its last statement is, or one of them failed.
SectionOver(word) ==
    /\ Within({word})
    /\ sig # "next" \/ line = Closer(Top.at)

Section(at, pending) ==
    /\ frames' = Append(Front(frames), Frame(at, 0, 0, pending))
    /\ line' = at + 1
    /\ sig' = "next"
    /\ UNCHANGED <<text, outcome, past>>

Caught(s) == s # "next" /\ ~IsControlSignal(s)

\* An error is bound to the name of the catch; a signal passes it by.
Catch ==
    /\ SectionOver("try") /\ Caught(sig)
    /\ Section(Closer(Top.at), "next")
    /\ Bind(body[Closer(Top.at)].name, "string") /\ UNCHANGED consts

SkipCatch ==
    /\ SectionOver("try") /\ ~Caught(sig)
    /\ Section(Closer(Closer(Top.at)), sig)
    /\ UNCHANGED data

CatchOver ==
    /\ SectionOver("catch")
    /\ Section(Closer(Top.at), sig)
    /\ UNCHANGED data

\* Mutant of Finish: what finally comes to is all that is returned.
FinishLast(before, after) == after

\* What finally comes to overrides what came before it, if it comes to anything.
Finish(before, after) == IF after = "next" THEN before ELSE after

FinallyOver ==
    /\ SectionOver("finally")
    /\ sig' = Finish(Top.pending, sig)
    /\ overridden' = (overridden \/ (sig # "next" /\ Top.pending # "next"))
    /\ line' = Closer(Top.at) + 1
    /\ frames' = Front(frames)
    /\ UNCHANGED <<text, data, outcome, again, raised>>

\* The block of the step is over; a return ends it like its last statement.
RunStep ==
    /\ line > 0 /\ outcome = "none" /\ frames = <<>>
    /\ sig # "next" \/ line = Len(body) + 1
    /\ outcome' = IF sig = "return" THEN "next" ELSE sig
    /\ UNCHANGED <<text, line, sig, frames, data, past>>

-----------------------------------------------------------------------------
StepInit ==
    /\ body = <<>> /\ open = <<>>
    /\ walk = <<[consts |-> Inputs, clean |-> TRUE, known |-> Given, diverts |-> FALSE]>>
    /\ line = 0 /\ sig = "next" /\ frames = <<>> /\ outcome = "none"
    /\ env = [n \in Names |-> Undeclared] /\ pipe = Given /\ consts = Inputs
    /\ had = {} /\ again = FALSE /\ raised = {} /\ overridden = FALSE

StepNext ==
    \/ WritePlain \/ WriteOpener \/ WriteMark \/ Begin
    \/ Const \/ Var \/ Assign \/ AssignSelf \/ Leave \/ Mistyped
    \/ If \/ EndThen \/ EndIf
    \/ While \/ For \/ WhileTurn \/ ForTurn \/ UnwindLoop
    \/ EnterTry \/ Catch \/ SkipCatch \/ CatchOver \/ FinallyOver
    \/ RunStep

StepSpec == StepInit /\ [][StepNext]_stepVars

-----------------------------------------------------------------------------
(* Properties.                                                             *)

Statements ==
    Plain \cup Openers
        \cup [do : {"else", "finally"} \cup Ends, of : Nat]
        \cup [do : {"catch"}, of : Nat, name : Names]

Views ==
    [consts : SUBSET Names, clean : BOOLEAN,
     known : [Names -> Types \cup {Unknown, Undeclared}], diverts : BOOLEAN]

Frames == [at : Nat, turn : Nat, turns : Nat, pending : Endings]

\* Type invariant of the text being written, of lint's walks and of the run.
BodyTypeOK ==
    /\ body \in Seq(Statements) /\ open \in Seq(Nat) /\ walk \in Seq(Views)
    /\ line \in Nat /\ sig \in Endings /\ frames \in Seq(Frames)
    /\ env \in [Names -> Types \cup {Undeclared}]
    /\ pipe \in [Names -> Types \cup {Undeclared}]
    /\ consts \subseteq Names /\ outcome \in {"none", "next", "goto"} \cup Errors
    /\ had \subseteq Names \X Types
    /\ again \in BOOLEAN /\ raised \subseteq Signals /\ overridden \in BOOLEAN

\* The pass does not look at it: a variable of a for or a catch, bound although its
\* name is one of the pipeline or of another statement, or an assignment to self.
Rebinds ==
    \E k \in DOMAIN body :
       \/ body[k].do = "self"
       \/ /\ body[k].do \in {"for", "catch"}
          /\ \/ body[k].name \in Inputs \cup PipeVars
             \/ \E j \in DOMAIN body : /\ body[j].do \in {"var", "const", "assign"}
                                       /\ body[j].name = body[k].name

\* checkConstReassign "mirrors the interpreter's const enforcement" (const.go:9): a
\* body it has nothing to say about never stops at a constant -- as long as no loop
\* comes back to an assignment that stands above the declaration.
ConstForetold == Last(walk).clean /\ ~again => sig # "constant"

\* A list that always diverts does not run off its end (fallthrough.go:5): the
\* fragment merged behind it is not fallen into -- unless an early return ended it.
DivertsForetold == outcome = "next" /\ Last(walk).diverts => sig = "return"

\* "An incorrectly-confident static type is worse than giving up" (varinfer.go): a
\* name of known type is never bound to anything else -- as long as no loop runs
\* again and nothing is bound that the pass does not look at.
TypesForetold ==
    ~again /\ ~Rebinds => \A p \in had : Last(walk).known[p[1]] \in {Unknown, p[2]}

\* A return, break or goto inside a try unwinds past it (exec.go:672): a body that
\* runs off its end raised none, unless a finally came to something else meanwhile.
SignalsLeave == outcome = "next" /\ sig # "return" /\ ~overridden => raised = {}
=============================================================================
