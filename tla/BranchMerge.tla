------------------------------ MODULE BranchMerge ------------------------------
(***************************************************************************)
(* The variables of a parallel group (runParallelStage and mergeRefFields, *)
(* engine/runtime/runner.go; engine/value/value.go).  A variable holds a   *)
(* scalar or a ref: a shared object with an ID and mutable fields.  Each   *)
(* branch works on a clone of all variables and of every object they       *)
(* reach; at the join the assignments are merged by variable and the field *)
(* changes by object ID, and one object per ID is to be left.              *)
(*                                                                         *)
(* Every field of an object is present from the start.  A clone keeps the  *)
(* ID, so one view names an object by its ID; after the join a pointer     *)
(* also says whose clone it points to.  The actions have names apart from  *)
(* those of StepGroup, which runs the branches.                            *)
(***************************************************************************)
EXTENDS ParallelGroup, TLC, SequencesExt

CONSTANTS
    Vars,         \* the pipeline's variables
    Ids,          \* objects that exist before the fork
    Fields,
    Links,        \* bound: the fields that may hold an object at the fork
    Null, One,    \* scalars
    MaxWrites     \* bound: assignments the branches make

Owner == 0..Branches        \* 0 is the parent
AllIds == Ids \cup Branch   \* a branch b may create one object: b
Scalars == {Null, One}
Values == Scalars \cup AllIds

\* Null and One are no objects, and what a branch creates is new.
ASSUME MergeAssumption ==
    /\ Branches \in Nat
    /\ IsFiniteSet(Vars) /\ IsFiniteSet(Ids)
    /\ Ids \cap Branch = {} /\ Scalars \cap AllIds = {}

VARIABLES
    view,     \* what each owner's variables and objects hold
    writes,   \* assignments made
    joined    \* the merged variables and objects, or why there are none

mergeVars == <<view, writes, joined>>

Views == [vars : [Vars -> Values], heap : [AllIds -> [Fields -> Values]]]
Blank == [f \in Fields |-> Null]
Running == [ok |-> "running"]
Conflict == [ok |-> "conflict"]

\* The parent's variables and one object graph, cloned for every branch.
Fork ==
    /\ \E vs \in [Vars -> Ids \cup {Null}], h \in [Ids -> [Links -> Ids \cup {Null}]] :
          view = [o \in Owner |->
                     [vars |-> vs,
                      heap |-> [i \in AllIds |-> [f \in Fields |->
                                  IF i \in Ids /\ f \in Links THEN h[i][f] ELSE Null]]]]
    /\ writes = 0
    /\ joined = Running

-----------------------------------------------------------------------------
(* CollectRefs: the objects reached from a set of values through the heap, *)
(* without passing through those already met.                              *)

\* S holds start's objects and what the fields of its own lead to, but for those met.
Closed(S, heap, start, met) ==
    /\ (start \cap AllIds) \ met \subseteq S
    /\ \A i \in S, f \in Fields : heap[i][f] \in AllIds \ met => heap[i][f] \in S

ReachFrom(heap, start, met) ==
    {i \in AllIds : \A S \in SUBSET AllIds : Closed(S, heap, start, met) => i \in S}

CollectRefs(v) == ReachFrom(v.heap, {v.vars[x] : x \in Vars}, {})

-----------------------------------------------------------------------------
(* A branch writes.                                                        *)

Write(b, v) ==
    /\ view' = [view EXCEPT ![b] = v]
    /\ writes' = writes + 1
    /\ UNCHANGED joined

Known(b) == Scalars \cup CollectRefs(view[b])

AssignVar(b, x, val) ==
    /\ view[b].vars[x] # val
    /\ Write(b, [view[b] EXCEPT !.vars[x] = val])

AssignField(b, i, f, val) ==
    /\ view[b].heap[i][f] # val
    /\ Write(b, [view[b] EXCEPT !.heap[i][f] = val])

\* x = ref { ... }
NewRef(b, x) ==
    /\ view[b].heap[b] = Blank /\ b \notin CollectRefs(view[b])
    /\ Write(b, [view[b] EXCEPT !.vars[x] = b])

\* One assignment of a branch whose step runs.
Assign(b) ==
    /\ joined = Running /\ writes < MaxWrites
    /\ \/ \E val \in Known(b), x \in Vars : AssignVar(b, x, val)
       \/ \E x \in Vars : NewRef(b, x)
       \/ \E val \in Known(b) : \E i \in CollectRefs(view[b]), f \in Fields :
             AssignField(b, i, f, val)

-----------------------------------------------------------------------------
(* The join.                                                               *)

Differ(S) == \E a, b \in S : a # b

\* A variable counts as assigned when it holds another value or another object.
VarWriters(x) == {b \in Branch : view[b].vars[x] # view[0].vars[x]}
VarConflict(x) == Differ({view[b].vars[x] : b \in VarWriters(x)})

Forked == CollectRefs(view[0])

FieldWriters(i, f) ==
    {b \in Branch : /\ view[b].heap[i][f] # view[0].heap[i][f]
                    /\ i \in CollectRefs(view[b]) \cap Forked}
FieldConflict(i, f) == Differ({view[b].heap[i][f] : b \in FieldWriters(i, f)})

AnyConflict == \/ \E x \in Vars : VarConflict(x)
               \/ \E i \in Forked, f \in Fields : FieldConflict(i, f)

\* The first of the branches, in the order they are merged.
FirstAmong(S, bs) ==
    bs[CHOOSE n \in DOMAIN bs : bs[n] \in S /\ \A m \in 1..(n - 1) : bs[m] \notin S]

\* Whose graph the value of a variable points into, after the merge by variable.
Holder(x, bs) == IF VarWriters(x) = {} THEN 0 ELSE FirstAmong(VarWriters(x), bs)
Held(x, bs) == view[Holder(x, bs)].vars[x]

\* canon: for each ID reached from the merged variables the clone met first; a
\* map's order is any order.  Objects a branch created are added.
Visit(canon, x, bs) ==
    LET new == ReachFrom(view[Holder(x, bs)].heap, {Held(x, bs)}, DOMAIN canon)
    IN  [i \in new \cup DOMAIN canon |-> IF i \in new THEN Holder(x, bs) ELSE canon[i]]

\* What the walk has met after n of the variables.
Walked(order, bs) ==
    LET walked[n \in 0..Cardinality(Vars)] ==
            IF n = 0 THEN [i \in {} |-> 0] ELSE Visit(walked[n - 1], order[n], bs)
    IN  walked

Canon(order, bs) ==
    LET seen == Walked(order, bs)[Cardinality(Vars)]
        made == UNION {CollectRefs(view[b]) \ Forked : b \in Branch} \ DOMAIN seen
    IN  [i \in made \cup DOMAIN seen |-> IF i \in made THEN i ELSE seen[i]]

\* Mutant of Canonical: the clones a branch brought are left as they are.
CanonicalAsIs(canon, ptr) == ptr

\* Canonicalize: the one object of an ID, where canon has one.
Canonical(canon, ptr) ==
    IF ptr.val \in DOMAIN canon THEN [ptr EXCEPT !.owner = canon[ptr.val]] ELSE ptr

\* Changes reach the canonical objects only.
FieldAfter(canon, o, i, f, bs) ==
    LET writers == FieldWriters(i, f)
        changed == i \in DOMAIN canon /\ canon[i] = o /\ writers # {}
        from == IF changed THEN FirstAmong(writers, bs) ELSE o
    IN  Canonical(canon, [owner |-> from, val |-> view[from].heap[i][f]])

Merged(order, bs) ==
    LET canon == Canon(order, bs)
    IN  [ok |-> "merged", canon |-> canon,
         vars |-> [x \in Vars |->
                     Canonical(canon, [owner |-> Holder(x, bs), val |-> Held(x, bs)])],
         heap |-> [o \in Owner |-> [i \in AllIds |-> [f \in Fields |->
                     FieldAfter(canon, o, i, f, bs)]]]]

\* Mutant of Outcome: a later branch's assignment is taken without a look.
OutcomeRegardless(order, bs) == Merged(order, bs)

Outcome(order, bs) == IF AnyConflict THEN Conflict ELSE Merged(order, bs)

InOrder == [n \in Branch |-> n]

Merge ==
    /\ joined = Running
    /\ \E order \in SetToSeqs(Vars) : joined' = Outcome(order, InOrder)
    /\ UNCHANGED <<view, writes>>

MergeNext == (\E b \in Branch : Assign(b)) \/ Merge

MergeSpec == Fork /\ [][MergeNext]_mergeVars

-----------------------------------------------------------------------------
(* What the merged variables reach.                                        *)

Merges == joined.ok = "merged"

Objects(S) == {p \in S : p.val \in AllIds}
Fielded(m, S) == {m.heap[p.owner][p.val][f] : p \in S, f \in Fields}

\* A path over canonical objects, or from them to the first that is not, is no longer.
Longest == Cardinality(AllIds)

\* The pointers n fields or fewer away.
Within(m) ==
    LET within[n \in 0..Longest] ==
            IF n = 0 THEN Objects({m.vars[x] : x \in Vars})
            ELSE within[n - 1] \cup Objects(Fielded(m, within[n - 1]))
    IN  within

Pointers(m) == Within(m)[Longest]

\* What a program can see of them: values, and each object's fields.
Seen(m) == [vars |-> [x \in Vars |-> m.vars[x].val],
            heap |-> {<<p.val, [f \in Fields |-> m.heap[p.owner][p.val][f].val]>> :
                         p \in Pointers(m)}]

\* Every object the merged variables lead to was met before the field changes were
\* applied.
InSight(m) == {p.val : p \in Pointers(m)} \subseteq DOMAIN m.canon

-----------------------------------------------------------------------------
(* Properties.                                                             *)

\* After the join an ID is one object, by whatever name it is reached, so a later
\* write by one name is seen by the others; and each field that any branch changed
\* holds that change ("two branches changing different fields of one ref both
\* land", runner.go:520) -- as long as no branch moves an object to where only a
\* changed field leads to it.
MergedInSight ==
    Merges /\ InSight(joined) =>
        /\ \A p, q \in Pointers(joined) : p.val = q.val => p = q
        /\ \A p \in Pointers(joined), f \in Fields : \A b \in FieldWriters(p.val, f) :
              joined.heap[p.owner][p.val][f].val = view[b].heap[p.val][f]

\* The outcome is always deterministic (runner.go:513-515): neither the order in which
\* Go walks the variables nor the order of the branches decides what is seen, as long
\* as it does not decide what is in sight.
OutcomeDetermined ==
    Merges /\ InSight(joined) =>
        LET seen == Seen(joined) IN
        \A order \in SetToSeqs(Vars), bs \in SetToSeqs(Branch) :
            LET other == Outcome(order, bs)
            IN  other.ok = "merged" /\ (InSight(other) => Seen(other) = seen)

\* What the comments of runParallelStage and mergeRefFields say without the
\* proviso: the changes of both branches land on the one object.
ChangesLand ==
    Merges => \A p \in Pointers(joined), f \in Fields : \A b \in FieldWriters(p.val, f) :
                 joined.heap[p.owner][p.val][f].val = view[b].heap[p.val][f]
=============================================================================
