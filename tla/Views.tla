------------------------------- MODULE Views --------------------------------
(***************************************************************************)
(* The compiler's stale-view analysis (src/compiler/checker/views_*.go):   *)
(* its transfer functions over checked expressions and statements, the     *)
(* summaries of the callables and the rules that reject a program.         *)
(*                                                                         *)
(* Bindings have one of the types "list" (an allocated List or String      *)
(* handle), "view", "obj" (an object of a handle member h and a view       *)
(* member v), "pair" (the same, the view member's name being hh), "arr"    *)
(* (an inline List of views), "fun" and "data".                            *)
(*                                                                         *)
(* The view state st belongs to one point of one path.  What the walk      *)
(* shares between paths is threaded as a: the diagnostics, the summaries,  *)
(* the values of the operands evaluated so far, the cleanup scopes, the    *)
(* loop frames and the unsafe depth.  A path that ended has no state: o is *)
(* the set of the at most one state that continues.                        *)
(*                                                                         *)
(* Left out: methods and their receivers (a receiver is a first argument), *)
(* pipelines, interpolation and the ADT and union wrappers of a value.     *)
(***************************************************************************)
EXTENDS ViewState, FiniteSetsExt, TLC

CONSTANTS
  TypeOfBinding,  \* binding -> type
  Functions,      \* name -> [params, captures, body, result]
  Order           \* the functions in source order

CanCarryHandles(type) == type \in {"list", "obj", "pair", "arr"}
TypeMayHoldView(type) == type \in {"view", "obj", "pair", "arr"}

RECURSIVE TypeOf(_)
TypeOf(e) ==
  CASE e.k = "var" -> TypeOfBinding[e.b]
    [] e.k = "member" -> IF e.m = "h" THEN "list" ELSE "view"
    [] e.k = "new" -> "list"
    [] e.k \in {"index", "address", "reslice", "reveal"} -> "view"
    [] e.k = "object" -> IF e.m = "hh" THEN "pair" ELSE "obj"
    [] e.k = "array" -> "arr"
    [] e.k \in {"funref", "literal"} -> "fun"
    [] e.k = "call" -> Functions[e.f].result
    [] e.k = "callvalue" -> "data"
    [] e.k = "match" -> TypeOf(e.args[1])
    [] OTHER -> "data"

Structural == {"push", "pop", "clear", "free"}  \* structuralListOperation

-----------------------------------------------------------------------------
\* The values of expressions: the views and the handle roots at each path, the
\* place an aggregate was read from and the callables of a function value.
NoValue == [facts |-> << >>, roots |-> << >>, alias |-> {}, targets |-> NoTargets]

SingleFact(fact) == [NoValue EXCEPT !.facts = << >> :> fact]
HoldsView(value) == DOMAIN value.facts # {}
Whole(value) == JoinFacts(Range(value.facts))
HandleRoots(value) == IF << >> \in DOMAIN value.roots THEN value.roots[<< >>] ELSE {}
NewView(roots) ==
  IF roots = {} THEN NoValue ELSE SingleFact([roots |-> roots, stale |-> FALSE])
RetainFacts(value) == IF HoldsView(value) THEN SingleFact(Whole(value)) ELSE NoValue

\* mergeWhole: the alternatives of a match as one value.
MergeWhole(values) ==
  LET viewing == {v \in values : HoldsView(v)}
      naming == {v \in values : HandleRoots(v) # {}} IN
  [NoValue EXCEPT
     !.facts = IF viewing = {} THEN @ ELSE << >> :> JoinFacts({Whole(v) : v \in viewing}),
     !.roots = IF naming = {} THEN @ ELSE << >> :> UNION {HandleRoots(v) : v \in naming}]

\* placeOfNode: the tracked places an expression names, at most one.
RECURSIVE PlaceOf(_)
PlaceOf(e) ==
  CASE e.k = "var" -> {<<e.b, << >>>>}
    [] e.k = "member" -> {Child(p, MemberPath(e.m)) : p \in PlaceOf(e.e)}
    [] e.k = "index" -> {Child(p, <<"[]">>) : p \in PlaceOf(e.e)}
    [] OTHER -> {}

\* resolveRoots: an explicit relation, then that of an aggregate above the
\* place that was copied, then the place itself.
RECURSIVE ResolveRoots(_, _, _)
ResolveRoots(st, place, depth) ==
  IF Told(st, place) \/ depth = 8 THEN NamedRoots(st, place)
  ELSE UNION {ResolveRoots(st, Child(source, Relative(place, p)), depth + 1) :
                <<p, source>> \in {<<q, s>> \in Copies(st, place) \X UNION Range(st.aliases) :
                                     s \in st.aliases[q]}}

RootsOfPlace(st, place) == ResolveRoots(st, place, 0)

\* readPlace: the facts below a place, and those at a prefix of it.
ReadPlace(st, place) ==
  LET below == {p \in DOMAIN st.facts : Below(p, place)}
      above == {p \in DOMAIN st.facts : ~Below(p, place) /\ Below(place, p)}
      here(path) == {p \in below : Relative(p, place) = path}
                      \cup {p \in above : path = << >>}
      roots == RootsOfPlace(st, place) IN
  [facts |-> [path \in {Relative(p, place) : p \in below} \cup {<< >> : p \in above} |->
                JoinFacts({st.facts[p] : p \in here(path)})],
   roots |-> IF roots = {} THEN << >> ELSE << >> :> roots,
   alias |-> {place},
   targets |-> IF place \in DOMAIN st.funcs THEN st.funcs[place] ELSE NoTargets]

At(f, x, default) == IF x \in DOMAIN f THEN f[x] ELSE default

\* bindValue: make a place hold a value; a weak update joins, for the storage
\* all the elements of an inline List share.
BindValue(st, place, value, weak) ==
  LET base == IF weak THEN st ELSE ClearPlace(st, place)
      at(f) == {Child(place, path) : path \in DOMAIN f}
      fact(p) == LET new == value.facts[Relative(p, place)] IN
                 IF weak /\ p \in DOMAIN base.facts
                 THEN JoinFacts({base.facts[p], new}) ELSE new
      roots(p) == value.roots[Relative(p, place)]
                    \cup (IF weak THEN RootsOfPlace(base, p) ELSE {})
      targets == IF weak THEN JoinTargets({value.targets, At(base.funcs, place, NoTargets)})
                 ELSE value.targets IN
  [base EXCEPT
     !.facts = [p \in at(value.facts) |-> fact(p)] @@ @,
     !.handles = [p \in at(value.roots) |-> roots(p)] @@ @,
     !.aliases = IF value.alias = {} THEN @
                 ELSE (place :> (At(@, place, {}) \cup value.alias)) @@ @,
     !.funcs = IF value.targets = NoTargets THEN @ ELSE (place :> targets) @@ @]

\* Mutant of BindPlace: a place's fresh storage is not told apart from its last.
BindPlaceUnsited(st, place, value, weak, site) ==
  BindValue(st, place, [value EXCEPT !.roots = [path \in DOMAIN @ |->
    (@[path] \ {Fresh}) \cup (IF Fresh \in @[path] THEN {Child(place, path)} ELSE {})]], weak)

\* bindPlace: fresh storage becomes the place's own root, told apart by site.
BindPlace(st, place, value, weak, site) ==
  LET own(path) == <<place[1], place[2] \o path \o site>>
      named(path) == IF Fresh \in value.roots[path]
                     THEN (value.roots[path] \ {Fresh}) \cup {own(path)}
                     ELSE value.roots[path] IN
  BindValue(st, place, [value EXCEPT !.roots = [path \in DOMAIN @ |-> named(path)]], weak)

-----------------------------------------------------------------------------
\* The analyzer's own state.
NoSummary == [changes |-> {}, escapes |-> {}, borrows |-> {}]

Param(b, f) == CHOOSE i \in 1..Len(Functions[f].params) : Functions[f].params[i] = b
IsParam(b, a) == a.fn \in DOMAIN Functions /\ b \in Range(Functions[a.fn].params)
IsCaptured(b, a) == a.fn \in DOMAIN Functions /\ b \in Functions[a.fn].captures

\* A piece of a callable's interface: parameter i at a path, or, when i is 0,
\* a binding it captures.
SummaryRoot(root, a) ==
  [param |-> IF IsParam(root[1], a) THEN Param(root[1], a.fn) ELSE 0,
   b |-> IF IsParam(root[1], a) THEN "none" ELSE root[1],
   path |-> IF root[2] = <<"#view">> THEN root[2] ELSE StripGeneration(root[2])]

Report(a, what, if) == IF if THEN [a EXCEPT !.diags = @ \cup {what}] ELSE a

RecordChange(a, roots) ==
  [a EXCEPT !.sums[a.fn].changes = @ \cup
     {SummaryRoot(r, a) : r \in {x \in roots : (IsParam(x[1], a) \/ IsCaptured(x[1], a))
                                                  /\ ~IsSpecialPath(x[2])}}]

\* Mutant of Invalidate: the operands evaluated so far keep their views.
InvalidateLate(st, a, roots) ==
  [st |-> InvalidateFacts(st, roots), a |-> RecordChange(a, roots)]

\* invalidate: mark every view into the roots, held by a place or in flight.
Invalidate(st, a, roots) ==
  [st |-> InvalidateFacts(st, roots),
   a |-> [RecordChange(a, roots) EXCEPT
            !.values = [i \in DOMAIN @ |->
               IF i \notin Range(st.inflight) THEN @[i]
               ELSE [@[i] EXCEPT !.facts = [p \in DOMAIN @ |-> Mark(@[p], roots)]]]]]

\* escape: hiding a view in storage the analysis does not follow.
Escape(value, a) ==
  LET roots == IF HoldsView(value) THEN Whole(value).roots ELSE {}
      incoming == {r \in roots : IsParam(r[1], a) /\ r[2] = <<"#view">>} IN
  Report([a EXCEPT !.sums[a.fn].escapes = @ \cup {SummaryRoot(r, a) : r \in incoming}],
         "escape", roots # incoming /\ a.unsafe = 0)

EscapeAll(args, a) == FoldLeft(LAMBDA b, arg : Escape(arg.value, b), a, args)

\* useCheck: a place that holds a stale view is not read.
UseCheck(place, st, a) == Report(a, "stale", IsStale(st, place))

\* handleRootsOf
HandleRootsOf(e, value, st) ==
  IF PlaceOf(e) # {} THEN UNION {RootsOfPlace(st, p) : p \in PlaceOf(e)}
  ELSE HandleRoots(value)

-----------------------------------------------------------------------------
\* Calls.  A summary that is not known fails closed.
MergeTargets(targets, a) ==
  [unknown |-> targets.unknown \/ targets.list = {},
   changes |-> UNION {a.sums[f].changes : f \in targets.list},
   escapes |-> UNION {a.sums[f].escapes : f \in targets.list},
   borrows |-> UNION {a.sums[f].borrows : f \in targets.list}]

ChangesParam(summary, i) == summary.unknown \/ \E r \in summary.changes : r.param = i
EscapesParam(summary, i) == summary.unknown \/ \E r \in summary.escapes : r.param = i

\* viewArg.rootsAt: the handle roots of an argument's member.
RootsAt(arg, path, st) ==
  IF path = << >> THEN arg.roots
  ELSE IF arg.place # {} THEN UNION {RootsOfPlace(st, Child(p, path)) : p \in arg.place}
  ELSE {<<r[1], r[2] \o path>> : r \in arg.roots}

\* applyCall's rules for one argument that carries a view.
CheckArgument(summary, args, i, a) ==
  LET roots == Whole(args[i].value).roots
      incoming == {r \in roots : IsParam(r[1], a) /\ r[2] = <<"#view">>}
      captured == {<<c.b, c.path>> : c \in {x \in summary.changes : x.param = 0}}
      shared == {j \in 1..Len(args) \ {i} : roots \cap args[j].roots # {}}
      noted == IF EscapesParam(summary, i)
               THEN [a EXCEPT !.sums[a.fn].escapes = @ \cup {SummaryRoot(r, a) : r \in incoming}]
               ELSE a IN
  IF ~HoldsView(args[i].value) THEN a
  ELSE Report(Report(noted, "escape",
                EscapesParam(summary, i) /\ a.unsafe = 0 /\ roots # incoming),
         "passed with root",
         \/ \E j \in shared : ChangesParam(summary, j) \/ EscapesParam(summary, i)
         \/ ~summary.unknown /\ roots \cap captured # {})

\* applyChanges: the storage the callee may change.
ApplyChanges(summary, args, st, a) ==
  LET changed(s) ==
        IF summary.unknown THEN UNION {args[i].roots : i \in 1..Len(args)}
        ELSE UNION {IF c.param = 0 THEN {<<c.b, c.path>>}
                    ELSE RootsAt(args[c.param], c.path, s) : c \in summary.changes} IN
  Invalidate(st, a, changed(st))

\* callResult: the views and handles the result derives from the arguments.
CallResult(summary, args, st, type) ==
  LET borrowed(c) == IF c.param = 0 THEN {<<c.b, c.path>>}
                     ELSE IF c.path = <<"#view">> THEN {} ELSE RootsAt(args[c.param], c.path, st)
      viewed(i) == IF HoldsView(args[i].value) THEN Whole(args[i].value).roots ELSE {}
      handles == IF summary.unknown THEN UNION {args[i].roots : i \in 1..Len(args)}
                 ELSE UNION {borrowed(c) : c \in summary.borrows}
      views == handles \cup
               (IF summary.unknown THEN UNION {viewed(i) : i \in 1..Len(args)}
                ELSE UNION {viewed(c.param) : c \in {x \in summary.borrows :
                                                        x.param # 0 /\ x.path = <<"#view">>}}) IN
  [NoValue EXCEPT
     !.facts = IF TypeMayHoldView(type) /\ views # {}
               THEN << >> :> [roots |-> views, stale |-> FALSE] ELSE @,
     !.roots = IF CanCarryHandles(type) THEN << >> :> (handles \cup {Fresh}) ELSE @]

\* applyCall: the rules, then the changes, then the result.
ApplyCall(summary, args, st, a, type) ==
  LET checked == FoldLeft(LAMBDA b, i : CheckArgument(summary, args, i, b), a,
                          [i \in 1..Len(args) |-> i])
      finish(changed) ==
        [v |-> CallResult(summary, args, changed.st, type), st |-> changed.st, a |-> changed.a] IN
  finish(ApplyChanges(summary, args, st, checked))

Known(f, a) == [unknown |-> FALSE] @@ a.sums[f]

-----------------------------------------------------------------------------
\* Expressions.  Eval returns the value, the state and the analyzer after it.
Result(v, st, a) == [v |-> v, st |-> st, a |-> a]

\* The state after the alternatives that were evaluated on copies of it.
Joined(states) == JoinStates({Clone(s) : s \in states})

RECURSIVE Eval(_, _, _), EvalArguments(_, _, _)

\* evalOperand
WithoutHandles(v) == [v EXCEPT !.roots = << >>, !.alias = {}]

EvalOperand(e, st, a) ==
  [Eval(e, st, a) EXCEPT !.v = IF CanCarryHandles(TypeOf(e)) THEN @ ELSE WithoutHandles(@)]

\* A call's operands, with the handle roots they name when the call is made.
CallArguments(es, st, a) ==
  Then(EvalArguments(es, st, a), LAMBDA r :
    [r EXCEPT !.args = [i \in DOMAIN @ |->
       [value |-> @[i].value, place |-> PlaceOf(es[i]),
        roots |-> IF CanCarryHandles(TypeOf(es[i]))
                  THEN HandleRootsOf(es[i], @[i].value, r.st) ELSE {}]]])

\* A finished operand is in flight while the later ones are evaluated.
Fly(r) ==
  [st |-> [r.st EXCEPT !.inflight = Append(@, Len(r.a.values) + 1)],
   a |-> [r.a EXCEPT !.values = Append(@, r.v)]]

\* inflight = inflight[:registered]
Landed(st, before) ==
  [st EXCEPT !.inflight = SubSeq(@, 1, Min({Len(@), Len(before.inflight)}))]

\* evalObject keeps the views and the roots of each member at its path.
EvalObject(e, st, a) ==
  LET tail(m, p) == SubSeq(p, Len(MemberPath(m)) + 1, Len(p))
      under(m, f) == [p \in {MemberPath(m) \o path : path \in DOMAIN f} |-> f[tail(m, p)]]
      members(h, v) == [NoValue EXCEPT !.facts = under(e.m, v.facts) @@ under("h", h.facts),
                                       !.roots = under(e.m, v.roots) @@ under("h", h.roots)] IN
  Then(Fly(EvalOperand(e.h, st, a)), LAMBDA h :
    Then(EvalOperand(e.v, h.st, h.a), LAMBDA v :
      Result(members(v.a.values[Len(h.a.values)], v.v), Landed(v.st, st), v.a)))

\* evalMatch: the arms are alternative paths.
EvalMatch(e, st, a) ==
  Then(Eval(e.e, st, a), LAMBDA scrutinee :
    Then(FoldLeft(LAMBDA acc, arm :
           Then(EvalOperand(arm, Clone(scrutinee.st), acc.a), LAMBDA r :
             [states |-> acc.states \cup {r.st}, values |-> acc.values \cup {r.v}, a |-> r.a]),
           [states |-> {}, values |-> {}, a |-> scrutinee.a], e.args), LAMBDA arms :
      Result(MergeWhole(arms.values), Joined(arms.states), arms.a)))

\* evalCollectionMethod and evalStringMethod: the operations on storage.
EvalMethod(e, st, a) ==
  LET changed(roots, s, b) ==
        IF e.name \in Structural
        THEN Then(Invalidate(s, b, roots), LAMBDA i : Result(NoValue, i.st, i.a))
        ELSE Result(NoValue, s, b) IN
  Then(Eval(e.e, st, a), LAMBDA receiver :
    Then(EvalArguments(e.args, receiver.st, receiver.a), LAMBDA r :
      changed(HandleRootsOf(e.e, receiver.v, r.st), r.st,
              IF e.name = "push" THEN EscapeAll(r.args, r.a) ELSE r.a)))

EvalCall(e, st, a) ==
  Then(IF e.k = "call" THEN Result(NoValue, st, a) ELSE Eval(e.e, st, a), LAMBDA callee :
    Then(CallArguments(e.args, callee.st, callee.a), LAMBDA r :
      ApplyCall(IF e.k = "call" THEN Known(e.f, r.a) ELSE MergeTargets(callee.v.targets, r.a),
                r.args, r.st, r.a, TypeOf(e))))

\* evalNode
Eval(e, st, a) ==
  CASE e.k = "var" ->
         Result(IF CanCarryHandles(TypeOfBinding[e.b]) THEN ReadPlace(st, <<e.b, << >>>>)
                ELSE WithoutHandles(ReadPlace(st, <<e.b, << >>>>)),
                st, UseCheck(<<e.b, << >>>>, st, a))
    [] e.k \in {"member", "index"} ->
         IF PlaceOf(e) = {} THEN [Eval(e.e, st, a) EXCEPT !.v = NoValue]
         ELSE Then(CHOOSE p \in PlaceOf(e) : TRUE, LAMBDA p :
                Result(ReadPlace(st, p), st, UseCheck(p, st, a)))
    [] e.k = "new" -> Result([NoValue EXCEPT !.roots = << >> :> {Fresh}], st, a)
    [] e.k = "address" ->
         Then(Eval(e.e, st, a), LAMBDA r :
           [r EXCEPT !.v = NewView(HandleRootsOf(e.e, r.v, r.st))])
    [] e.k = "reslice" -> [Eval(e.e, st, a) EXCEPT !.v = RetainFacts(@)]
    [] e.k = "load" -> [Eval(e.e, st, a) EXCEPT !.v = NoValue]
    [] e.k = "method" -> EvalMethod(e, st, a)
    [] e.k = "hide" ->
         Then(EvalArguments(e.args, st, a), LAMBDA r :
           Result(NoValue, r.st, EscapeAll(r.args, r.a)))
    [] e.k = "object" -> EvalObject(e, st, a)
    [] e.k = "array" ->
         LET viewing(r) == {i \in DOMAIN r.args : HoldsView(r.args[i].value)}
             elements(facts) == IF facts = {} THEN NoValue
                                ELSE [NoValue EXCEPT !.facts = <<"[]">> :> JoinFacts(facts)] IN
         Then(EvalArguments(e.args, st, a), LAMBDA r :
           Result(elements({Whole(r.args[i].value) : i \in viewing(r)}), r.st, r.a))
    [] e.k \in {"call", "callvalue"} -> EvalCall(e, st, a)
    [] e.k = "match" -> EvalMatch(e, st, a)
    [] e.k = "and" ->
         Then(Eval(e.l, st, a), LAMBDA left :
           Then(Eval(e.r, Clone(left.st), left.a), LAMBDA right :
             Result(NoValue, Joined({left.st, right.st}), right.a)))
    [] e.k = "funref" ->
         Result([NoValue EXCEPT !.targets = [list |-> {e.f}, unknown |-> FALSE]], st, a)
    [] e.k = "literal" ->
         Result([NoValue EXCEPT !.targets = [list |-> {}, unknown |-> TRUE]], st, a)
    [] OTHER -> Result(NoValue, st, a)

\* evalArguments: left to right, each operand in flight while the later ones
\* are evaluated, and all of them checked again at the end.
EvalArguments(es, st, a) ==
  LET value(r, i) == r.a.values[r.at[i].n]
      stale(r) == \E i \in DOMAIN r.at : HoldsView(value(r, i)) /\ Whole(value(r, i)).stale IN
  Then(FoldLeft(LAMBDA acc, e :
         Then(EvalOperand(e, acc.st, acc.a), LAMBDA r :
           [at |-> Append(acc.at, [n |-> Len(r.a.values) + 1, roots |-> HandleRoots(r.v)])] @@ Fly(r)),
         [st |-> st, a |-> a, at |-> << >>], es), LAMBDA r :
    [st |-> Landed(r.st, st),
     a |-> Report(r.a, "stale", stale(r)),
     args |-> [i \in DOMAIN es |->
                 [value |-> value(r, i), place |-> {}, roots |-> r.at[i].roots]]])

-----------------------------------------------------------------------------
\* Statements.  Walk returns the states that continue and the analyzer.
After(o, a) == [o |-> o, a |-> a]

\* runDeferred, last registered first: the operands were fixed when the call
\* was registered, and its effect is applied now.
RunDeferred(actions, st, a) ==
  FoldRight(LAMBDA action, acc :
    IF action.k = "method"
    THEN IF action.name \in Structural
         THEN Invalidate(acc.st, acc.a, action.args[1].roots) ELSE acc
    ELSE ApplyCall(IF action.k = "call" THEN Known(action.f, acc.a)
                   ELSE MergeTargets(action.callee, acc.a),
                   action.args, acc.st, acc.a, "data"),
    actions, [st |-> st, a |-> a])

\* exitScopesDown: the cleanup of every scope a jump leaves, innermost first.
ExitScopesDown(depth, st, a) ==
  FoldRight(LAMBDA scope, acc : RunDeferred(scope, acc.st, acc.a),
            SubSeq(a.scopes, depth, Len(a.scopes)), [st |-> st, a |-> a])

\* registerDefer evaluates the operands of the call.
RegisterDefer(e, st, a) ==
  LET head(receiver, s) ==
        [value |-> receiver.v, place |-> {}, roots |-> HandleRootsOf(e.e, receiver.v, s)]
      action(receiver, r) ==
        [k |-> e.k, name |-> IF e.k = "method" THEN e.name ELSE "",
         f |-> IF e.k = "call" THEN e.f ELSE "", callee |-> receiver.v.targets,
         args |-> IF e.k = "method" THEN <<head(receiver, r.st)>> \o r.args ELSE r.args] IN
  Then(IF e.k = "call" THEN Result(NoValue, st, a) ELSE Eval(e.e, st, a), LAMBDA receiver :
    Then(CallArguments(e.args, receiver.st, receiver.a), LAMBDA r :
      After({r.st}, [r.a EXCEPT !.scopes[Len(r.a.scopes)] = Append(@, action(receiver, r))])))

\* returnValue: what the result derives from; a view of storage that the
\* summary cannot name is rejected.
ReturnValue(value, a) ==
  LET roots == IF HoldsView(value) THEN Whole(value).roots ELSE {}
      named(r) == IsParam(r[1], a) \/ IsCaptured(r[1], a) IN
  Report([a EXCEPT !.sums[a.fn].borrows = @ \cup
            {SummaryRoot(r, a) : r \in {x \in roots \cup HandleRoots(value) : named(x)}}],
         "escape", a.unsafe = 0 /\ \E r \in roots : ~named(r))

\* assign, given the value: a place that is not tracked, or that a callable
\* captures, is storage the analysis does not follow.
Assign(s, r) ==
  LET tracked == {p \in PlaceOf(s.target) : ~IsCaptured(p[1], r.a)}
      weak(p) == "[]" \in Range(p[2]) IN
  IF tracked # {}
  THEN After({BindPlace(r.st, p, r.v, weak(p), <<s.site>>) : p \in tracked}, r.a)
  ELSE Then(IF s.target.k = "load" THEN Eval(s.target.e, r.st, r.a) ELSE r, LAMBDA t :
         After({t.st}, Escape(r.v, t.a)))

RECURSIVE Statement(_, _, _), WalkLoop(_, _, _, _, _, _)

\* stmts
Walk(statements, o, a) ==
  FoldLeft(LAMBDA acc, s :
             IF acc.o = {} THEN acc
             ELSE Statement(s, CHOOSE st \in acc.o : TRUE, acc.a), After(o, a), statements)

\* body: a nested statement list in its own cleanup scope.
WalkBody(statements, st, a) ==
  LET close(inner, popped) ==
        IF inner.o = {} THEN After({}, popped)
        ELSE Then(RunDeferred(Last(inner.a.scopes), CHOOSE s \in inner.o : TRUE, popped),
                  LAMBDA r : After({r.st}, r.a)) IN
  Then(Walk(statements, {st}, [a EXCEPT !.scopes = Append(@, << >>)]), LAMBDA inner :
    close(inner, [inner.a EXCEPT !.scopes = Front(@)]))

JoinedOnly(states) == IF states = {} THEN {} ELSE {JoinStates(states)}

\* ifStmt: the conditions of the else-ifs are evaluated on one state; the
\* body of the else is the last branch.
WalkIf(s, st, a) ==
  LET else == s.else # << >>
      branch(acc, b) ==
        Then(EvalOperand(b.c, acc.st, acc.a), LAMBDA c :
          Then(WalkBody(b.body, Clone(c.st), c.a), LAMBDA r :
            [st |-> c.st, a |-> r.a, o |-> acc.o \cup r.o])) IN
  Then(FoldLeft(branch, [st |-> st, a |-> a, o |-> {}],
                IF else THEN Append(s.branches, [c |-> [k |-> "data"], body |-> s.else])
                ELSE s.branches), LAMBDA r :
    After(JoinedOnly(r.o \cup IF else THEN {} ELSE {r.st}), r.a))

PushLoop(a) ==
  [a EXCEPT !.loops = Append(@, [breaks |-> {}, continues |-> {}, depth |-> Len(a.scopes) + 1])]
PopLoop(a) == [a EXCEPT !.loops = Front(@)]

MaxLoopIterations == 32

\* whileStmt and forStmt: to a fixpoint of the state at the loop's head.  The
\* condition of a while is part of each round and the binders of a for are
\* given no facts.
WalkLoop(s, entry, head, a, exit, iteration) ==
  LET tested == IF s.k = "while" THEN EvalOperand(s.c, Clone(head), PushLoop(a))
                ELSE Result(NoValue, head, PushLoop(a))
      next(r) == JoinStates({entry} \cup JoinedOnly(r.o \cup Last(r.a.loops).continues))
      left(c, r) == JoinedOnly(Last(r.a.loops).breaks
                                 \cup IF s.k = "while" /\ s.forever THEN {} ELSE {c.st}) IN
  IF iteration = MaxLoopIterations THEN After(exit, a)
  ELSE Then(tested, LAMBDA c :
         Then(WalkBody(s.body, Clone(c.st), c.a), LAMBDA r :
           Then(next(r), LAMBDA new :
             IF new = Clone(head) THEN After(left(c, r), PopLoop(r.a))
             ELSE WalkLoop(s, entry, new, PopLoop(r.a), left(c, r), iteration + 1))))

\* BreakStatement and ContinueStatement: the jump runs the cleanup it leaves.
Jump(s, st, a) ==
  LET n == Len(a.loops) IN
  Then(ExitScopesDown(a.loops[n].depth, st, a), LAMBDA r :
    After({}, IF s.k = "break" THEN [r.a EXCEPT !.loops[n].breaks = @ \cup {r.st}]
              ELSE [r.a EXCEPT !.loops[n].continues = @ \cup {r.st}]))

\* stmt.  A declaration, an assignment, a call and a return evaluate their
\* operand first, and so does the source of a for.
Statement(s, st, a) ==
  Then(IF "e" \in DOMAIN s /\ s.k # "defer" THEN EvalOperand(s.e, st, a)
       ELSE Result(NoValue, st, a), LAMBDA r :
    CASE s.k = "declare" -> After({BindPlace(r.st, <<s.b, << >>>>, r.v, FALSE, << >>)}, r.a)
      [] s.k = "assign" -> Assign(s, r)
      [] s.k = "do" -> After({r.st}, r.a)
      [] s.k = "return" -> After({}, ExitScopesDown(1, r.st, ReturnValue(r.v, r.a)).a)
      [] s.k = "defer" -> RegisterDefer(s.e, st, a)
      [] s.k = "if" -> WalkIf(s, st, a)
      [] s.k \in {"while", "for"} -> WalkLoop(s, r.st, Clone(r.st), r.a, {}, 0)
      [] s.k \in {"break", "continue"} -> Jump(s, st, a)
      [] s.k = "unsafe" ->
           Then(WalkBody(s.body, st, [a EXCEPT !.unsafe = @ + 1]), LAMBDA body :
             After(body.o, [body.a EXCEPT !.unsafe = @ - 1])))

-----------------------------------------------------------------------------
\* Callables.
Analyzer(fn, sums) ==
  [fn |-> fn, sums |-> sums, diags |-> {}, values |-> << >>, scopes |-> <<<< >>>>,
   loops |-> << >>, unsafe |-> 0]

\* analyze: a parameter that can carry a view holds an abstract incoming one.
Analyze(f, sums) ==
  LET viewing == {b \in Range(Functions[f].params) : TypeMayHoldView(TypeOfBinding[b])}
      seeded == [NewState EXCEPT !.facts =
                   [p \in {<<b, << >>>> : b \in viewing} |->
                      [roots |-> {Incoming(p[1])}, stale |-> FALSE]]] IN
  Then(Walk(Functions[f].body, {seeded}, Analyzer(f, sums)), LAMBDA end :
    IF end.o = {} THEN end.a
    ELSE RunDeferred(end.a.scopes[1], CHOOSE st \in end.o : TRUE, end.a).a)

\* checkCollectionViews: the summaries' least fixpoint over the callables.
RECURSIVE Summarize(_)
Summarize(sums) ==
  Then(FoldLeft(LAMBDA acc, f : Analyze(f, acc).sums, sums, Order), LAMBDA next :
    IF next = sums THEN sums ELSE Summarize(next))

Summaries ==
  Summarize([f \in DOMAIN Functions \cup {"entry"} |-> NoSummary])

\* The callables that are reported clean.
Accepted == {f \in DOMAIN Functions : Analyze(f, Summaries).diags = {}}
=============================================================================
