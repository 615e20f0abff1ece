------------------------------ MODULE ViewsRun ------------------------------
(***************************************************************************)
(* The stale-view analysis beside the execution of the program it reads.   *)
(* The state is what the analysis knows and what the program's memory is   *)
(* at one point of the entry body: each step appends one statement, which  *)
(* the analysis walks and the program executes along one of its paths.  A  *)
(* program the analysis has accepted so far must not read through a view   *)
(* whose storage was changed after the view was taken.                     *)
(***************************************************************************)
EXTENDS Views

CONSTANTS
  Statements,  \* name and site -> a statement the body goes on with
  Families,    \* the declarations a body starts with, and the statements it goes on with
  Straight,    \* the statements that execute along one path only
  MaxLoop,     \* rounds of a loop that are executed
  MaxDeferred  \* calls the body defers

\* Only programs whose callables are all accepted are compiled.
ASSUME CallablesAccepted == Accepted = DOMAIN Functions

VARIABLES
  family,  \* the declarations and the statements of this body
  todo,    \* the declarations that are still to come
  exact,   \* has the body only one path so far?
  st,      \* viewState at this point
  sums,    \* the summaries of the callables
  scopes,  \* the cleanup scopes that are open
  diags,   \* what was reported
  memory,  \* the program's memory: bindings, hidden views, dangling reads
  ended,   \* has the body ended?
  gap      \* history: was a view lost in one of the four ways of Gaps?

vars == <<family, todo, exact, sums, st, scopes, diags, memory, ended, gap>>

-----------------------------------------------------------------------------
\* Values.  A view is live until its store is structurally changed.
Data == [t |-> "data"]
Handle(s) == [t |-> "list", s |-> s]
View(s) == [t |-> "view", s |-> s, live |-> TRUE]

\* The values a value holds, itself included.
Parts(v) ==
  CASE v.t = "obj" -> {v, v.h, v.v}
    [] v.t = "arr" -> {v} \cup Range(v.els)
    [] OTHER -> {v}

Stale(v, s) ==
  LET mark(x) == IF x.t = "view" /\ x.s = s THEN [x EXCEPT !.live = FALSE] ELSE x IN
  CASE v.t = "obj" -> [v EXCEPT !.v = mark(@)]
    [] v.t = "arr" -> [v EXCEPT !.els = [i \in DOMAIN @ |-> mark(@[i])]]
    [] OTHER -> mark(v)

\* The memory: env holds the bindings, temps the operands evaluated so far,
\* hidden the views in storage the analysis does not follow, cleanups the
\* deferred calls of each scope with their operands.
Empty == [env |-> << >>, temps |-> << >>, hidden |-> {}, cleanups |-> <<<< >>>>,
          trusted |-> 0, bad |-> FALSE]

Stores(m) ==
  {x.s : x \in {y \in UNION {Parts(v) : v \in
                   Range(m.env) \cup Range(m.temps) \cup m.hidden
                     \cup UNION {UNION {Range(c.args) : c \in Range(scope)} :
                                   scope \in Range(m.cleanups)}} :
                y.t \in {"list", "view"}}}

\* A structural change to a store, wherever its views are held.
Change(m, s) ==
  LET all(vs) == [i \in DOMAIN vs |-> Stale(vs[i], s)] IN
  [m EXCEPT !.env = all(@), !.temps = all(@), !.hidden = {Stale(v, s) : v \in @},
            !.cleanups = [i \in DOMAIN @ |->
               [j \in DOMAIN @[i] |-> [@[i][j] EXCEPT !.args = all(@)]]]]

Hide(m, values) ==
  IF m.trusted > 0 THEN m
  ELSE [m EXCEPT !.hidden = @ \cup {x \in UNION {Parts(v) : v \in values} : x.t = "view"}]

Set(m, b, v) == [m EXCEPT !.env = (b :> v) @@ @]

-----------------------------------------------------------------------------
\* Execution.  Do gives the values an expression may have, with the memory
\* after each; Run gives how a statement may end.
Got(v, m) == [v |-> v, m |-> m]
Ends(how, v, m) == [how |-> how, v |-> v, m |-> m]

RECURSIVE Do(_, _), DoAll(_, _), Call(_, _, _), Run(_, _), RunList(_, _), Loop(_, _, _)

\* The operands from left to right, left on temps.
DoAll(es, m) ==
  IF es = << >> THEN {m}
  ELSE UNION {DoAll(Tail(es), [x.m EXCEPT !.temps = Append(@, x.v)]) : x \in Do(Head(es), m)}

Taken(m, n) == SubSeq(m.temps, Len(m.temps) - n + 1, Len(m.temps))
Drop(m, n) == [m EXCEPT !.temps = SubSeq(@, 1, Len(@) - n)]

\* A built-in method of a collection, given its receiver and arguments.
Performed(name, args, m) ==
  LET hidden == IF name = "push" THEN Hide(m, Range(Tail(args))) ELSE m IN
  IF name \in Structural THEN Change(hidden, args[1].s) ELSE hidden

Assigned(target, v, m) ==
  CASE target.k = "var" -> {Set(m, target.b, v)}
    [] target.k = "member" ->
         {Set(m, target.e.b, IF target.m = "h" THEN [m.env[target.e.b] EXCEPT !.h = v]
                             ELSE [m.env[target.e.b] EXCEPT !.v = v])}
    [] target.k = "index" -> {Set(m, target.e.b, [m.env[target.e.b] EXCEPT !.els[target.i] = v])}
    [] target.k = "load" -> {Hide(m, {v})}

Do(e, m) ==
  CASE e.k = "var" -> {Got(m.env[e.b], m)}
    [] e.k = "member" -> {Got(IF e.m = "h" THEN x.v.h ELSE x.v.v, x.m) : x \in Do(e.e, m)}
    [] e.k = "index" -> {Got(x.v.els[e.i], x.m) : x \in Do(e.e, m)}
    [] e.k = "new" -> {Got(Handle(CHOOSE s \in 1..20 : s \notin Stores(m) /\ 1..(s - 1) \subseteq Stores(m)), m)}
    [] e.k = "address" -> {Got(View(x.v.s), x.m) : x \in Do(e.e, m)}
    [] e.k = "reslice" -> Do(e.e, m)
    [] e.k = "load" -> {Got(Data, [x.m EXCEPT !.bad = @ \/ ~x.v.live]) : x \in Do(e.e, m)}
    [] e.k = "method" ->
         {Got(Data, Drop(Performed(e.name, Taken(x, Len(e.args) + 1), x), Len(e.args) + 1)) :
            x \in DoAll(<<e.e>> \o e.args, m)}
    [] e.k = "hide" ->
         {Got(Data, Drop(Hide(x, Range(Taken(x, Len(e.args)))), Len(e.args))) :
            x \in DoAll(e.args, m)}
    [] e.k = "reveal" -> {Got(v, m) : v \in m.hidden}
    [] e.k = "object" ->
         {Got([t |-> "obj", m |-> e.m, h |-> Taken(x, 2)[1], v |-> Taken(x, 2)[2]], Drop(x, 2)) :
            x \in DoAll(<<e.h, e.v>>, m)}
    [] e.k = "array" ->
         {Got([t |-> "arr", els |-> Taken(x, Len(e.args))], Drop(x, Len(e.args))) :
            x \in DoAll(e.args, m)}
    [] e.k = "call" ->
         UNION {Call(e.f, Taken(x, Len(e.args)), Drop(x, Len(e.args))) : x \in DoAll(e.args, m)}
    [] e.k = "callvalue" ->
         UNION {UNION {Call(c.v.f, Taken(x, Len(e.args)), Drop(x, Len(e.args))) :
                         x \in DoAll(e.args, c.m)} : c \in Do(e.e, m)}
    [] e.k \in {"funref", "literal"} -> {Got([t |-> "fun", f |-> e.f], m)}
    [] e.k = "match" ->
         UNION {UNION {Do(e.args[i], x.m) : i \in DOMAIN e.args} : x \in Do(e.e, m)}
    [] e.k = "and" -> UNION {{Got(Data, x.m)} \cup Do(e.r, x.m) : x \in Do(e.l, m)}
    [] OTHER -> {Got(Data, m)}

\* A call runs the body with the parameters bound, and drops what it declared.
Call(f, args, m) ==
  LET fun == Functions[f]
      entered == [m EXCEPT !.env =
                    [b \in Range(fun.params) |-> args[CHOOSE i \in DOMAIN args : fun.params[i] = b]] @@ @] IN
  {Got(x.v, [x.m EXCEPT !.env = Restrict(@, DOMAIN m.env)]) : x \in RunList(fun.body, entered)}

\* The deferred calls of the innermost scope, last registered first.
RECURSIVE CleanUp(_)
CleanUp(m) ==
  LET scope == Last(m.cleanups)
      c == Last(scope)
      rest == [m EXCEPT !.cleanups[Len(m.cleanups)] = Front(@)] IN
  IF scope = << >> THEN {[m EXCEPT !.cleanups = Front(@)]}
  ELSE IF c.k = "method" THEN CleanUp(Performed(c.name, c.args, rest))
  ELSE UNION {CleanUp(x.m) : x \in Call(c.f, c.args, rest)}

\* A statement list in a scope of its own.
RunList(statements, m) ==
  LET RECURSIVE Steps(_, _)
      Steps(list, x) ==
        IF list = << >> THEN {Ends("next", Data, x)}
        ELSE LET ends == Run(Head(list), x) IN
             {r \in ends : r.how # "next"}
               \cup UNION {Steps(Tail(list), r.m) : r \in {q \in ends : q.how = "next"}} IN
  UNION {{Ends(r.how, Last(x.temps), Drop(x, 1)) :
            x \in CleanUp([r.m EXCEPT !.temps = Append(@, r.v)])} :
           r \in Steps(statements, [m EXCEPT !.cleanups = Append(@, << >>)])}

\* Registering a deferred call evaluates its operands.
Register(e, m) ==
  LET n == IF e.k = "method" THEN Len(e.args) + 1 ELSE Len(e.args)
      call(c, x) == [k |-> e.k, name |-> IF e.k = "method" THEN e.name ELSE "",
                     f |-> IF e.k = "method" THEN "" ELSE c.f, args |-> Taken(x, n)]
      callee == IF e.k = "callvalue" THEN Do(e.e, m)
                ELSE {Got([f |-> IF e.k = "call" THEN e.f ELSE ""], m)} IN
  UNION {{[Drop(x, n) EXCEPT !.cleanups[Len(x.cleanups)] = Append(@, call(c.v, x))] :
            x \in DoAll(IF e.k = "method" THEN <<e.e>> \o e.args ELSE e.args, c.m)} :
         c \in callee}

\* The rounds of a loop: n more may be executed.
Loop(s, m, n) ==
  LET over == IF s.k = "for" \/ ~s.forever THEN {Ends("next", Data, m)} ELSE {}
      entered == IF s.k = "for" /\ s.binder # "none"
                 THEN {Set(m, s.binder, v) : v \in Range(m.env[s.e.b].els)} ELSE {m}
      rounds == UNION {RunList(s.body, x) : x \in entered}
      tested(x) == IF s.k = "for" THEN {x} ELSE {c.m : c \in Do(s.c, x)} IN
  over \cup
  (IF n = 0 THEN {}
   ELSE {Ends("next", Data, r.m) : r \in {x \in rounds : x.how = "break"}}
          \cup {r \in rounds : r.how = "return"}
          \cup UNION {UNION {Loop(s, y, n - 1) : y \in tested(r.m)} :
                        r \in {x \in rounds : x.how \in {"next", "continue"}}})

Run(s, m) ==
  CASE s.k = "declare" -> {Ends("next", Data, Set(x.m, s.b, x.v)) : x \in Do(s.e, m)}
    [] s.k = "assign" ->
         UNION {{Ends("next", Data, y) : y \in Assigned(s.target, x.v, x.m)} : x \in Do(s.e, m)}
    [] s.k = "do" -> {Ends("next", Data, x.m) : x \in Do(s.e, m)}
    [] s.k = "defer" -> {Ends("next", Data, x) : x \in Register(s.e, m)}
    [] s.k = "return" -> {Ends("return", x.v, x.m) : x \in Do(s.e, m)}
    [] s.k = "if" ->
         LET RECURSIVE Branch(_, _)
             Branch(i, x) ==
               IF i > Len(s.branches)
               THEN IF s.else = << >> THEN {Ends("next", Data, x)} ELSE RunList(s.else, x)
               ELSE UNION {RunList(s.branches[i].body, c.m) \cup Branch(i + 1, c.m) :
                             c \in Do(s.branches[i].c, x)} IN
         Branch(1, m)
    [] s.k = "while" -> UNION {Loop(s, x.m, MaxLoop) : x \in Do(s.c, m)}
    [] s.k = "for" -> UNION {Loop(s, x.m, MaxLoop) : x \in Do(s.e, m)}
    [] s.k \in {"break", "continue"} -> {Ends(s.k, Data, m)}
    [] s.k = "unsafe" ->
         {[r EXCEPT !.m.trusted = @ - 1] :
            r \in RunList(s.body, [m EXCEPT !.trusted = @ + 1])}

-----------------------------------------------------------------------------
Entry == [Analyzer("entry", sums) EXCEPT !.scopes = scopes]

Init ==
  /\ family \in Families
  /\ todo = family.prologue
  /\ exact = TRUE
  /\ sums = Summaries
  /\ st = NewState
  /\ memory = Empty
  /\ scopes = <<<< >>>>
  /\ diags = {}
  /\ ended = FALSE
  /\ gap = FALSE

-----------------------------------------------------------------------------
\* Four ways in which the analysis loses a view that the program holds; no guard
\* reads gap.

\* A deferred call holds a view: registerDefer keeps it apart from the facts that
\* invalidate marks, and runDeferred does not look at it.
DefersView(m) ==
  \E scope \in Range(m.cleanups) : \E c \in Range(scope) : \E x \in Range(c.args) :
    \E v \in Parts(x) : v.t = "view"

\* A member is assigned, and clearPlace forgets one whose name extends its name.
ClearsAnother(s) ==
  /\ s.k = "assign" /\ s.target.k = "member" /\ s.target.m = "h"
  /\ TypeOf(s.target.e) = "pair"

\* A member's handle was bound on some paths, and on others its aggregate was
\* copied: joinViewStates keeps both, and resolveRoots looks at the former only.
HalfCopied(s) == \E p \in DOMAIN s.handles : p \in s.handles[p] /\ Copies(s, p) # {}

\* A copied aggregate was bound again: resolveRoots answers for the copy, which
\* holds the handles of before, with those that the original holds now.
OldCopy(before, now) ==
  \E source \in UNION Range(now.aliases) : \E p \in DOMAIN before.handles :
    Below(p, source) /\ NamedRoots(before, p) # NamedRoots(now, p)

Gaps(s) ==
  gap \/ DefersView(memory') \/ ClearsAnother(s) \/ HalfCopied(st') \/ OldCopy(st, st')

-----------------------------------------------------------------------------
\* Two sites of one program differ: those of a statement are renamed to sites
\* that no fact uses.
UsedSites ==
  UNION {Range(r[2]) : r \in UNION Range(st.handles)
                              \cup UNION {f.roots : f \in Range(st.facts)}
                              \cup UNION {arg.roots : arg \in UNION {Range(c.args) :
                                             c \in UNION {Range(x) : x \in Range(scopes)}}}}

\* What the body may go on with: its declarations come first.
Chosen ==
  IF todo # << >> THEN {[s |-> Head(todo), straight |-> TRUE]}
  ELSE LET free == CHOOSE n \in 1..Len(Sites) : Sites[n] \notin UsedSites IN
       {[s |-> Statements[name][free], straight |-> name \in Straight] : name \in family.body}

\* One more statement of the entry body, walked and executed.
Step ==
  /\ ~ended /\ diags = {}
  /\ \E c \in Chosen :
       /\ \E walked \in {Statement(c.s, st, Entry)} :
            st' \in walked.o /\ scopes' = walked.a.scopes /\ diags' = walked.a.diags
       /\ Len(scopes'[1]) <= MaxDeferred
       /\ memory' \in {r.m : r \in {x \in Run(c.s, memory) : x.how = "next"}}
       /\ exact' = (exact /\ c.straight)
       /\ gap' = Gaps(c.s)
  /\ todo' = IF todo = << >> THEN todo ELSE Tail(todo)
  /\ UNCHANGED <<family, sums, ended>>

\* The body's scope ends: its deferred calls run.
End ==
  /\ ~ended /\ diags = {} /\ todo = << >>
  /\ ended' = TRUE
  /\ \E r \in {RunDeferred(scopes[1], st, Entry)} : st' = r.st /\ diags' = r.a.diags
  /\ scopes' = << >>
  /\ memory' \in CleanUp(memory)
  /\ UNCHANGED <<family, todo, sums, exact, gap>>

Next == Step \/ End

Spec == Init /\ [][Next]_vars

-----------------------------------------------------------------------------
\* The places of a binding that hold a view, with the views there.
ViewsAt(b) ==
  LET v == memory.env[b] IN
  CASE v.t = "view" -> {<<<<b, << >>>>, v>>}
    [] v.t = "obj" -> {<<<<b, MemberPath(v.m)>>, v.v>>}
    [] v.t = "arr" -> {<<<<b, <<"[]">>>>, v.els[i]>> : i \in DOMAIN v.els}
    [] OTHER -> {}

AllViews == UNION {ViewsAt(b) : b \in DOMAIN memory.env}

\* A program that is accepted never reads through a view whose storage was
\* structurally changed after the view was taken, unless it takes one of the
\* four ways of Gaps.  [checkCollectionViews]
NoDanglingRead == diags = {} /\ ~gap => ~memory.bad

\* While a program is accepted, every dangling view that a binding holds is
\* known as stale, so that its next use is rejected; but for the ways of Gaps.
\* [viewState.staleFact]
DanglingKnown ==
  diags = {} /\ ~gap /\ ~ended => \A x \in AllViews : ~x[2].live => IsStale(st, x[1])

\* On a single path nothing is called stale that is not: a re-derived view, or
\* one of other storage, stays usable; but for the ways of Gaps.
\* [viewState.staleFact]
NoFalseStale ==
  exact /\ ~gap /\ ~ended => \A x \in AllViews :
    IsStale(st, x[1]) => \E y \in AllViews : y[1] = x[1] /\ ~y[2].live
=============================================================================
