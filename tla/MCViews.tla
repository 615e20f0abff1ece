------------------------------ MODULE MCViews -------------------------------
(* Two Lists x and y, two views p and q, objects o, c and n (whose members   *)
(* are h and hh), an inline List r and a function value k, with functions    *)
(* that change, borrow, hide and read.                                       *)
EXTENDS ViewsRun

V(b) == [k |-> "var", b |-> b]
D == [k |-> "data"]
New == [k |-> "new"]
Address(e) == [k |-> "address", e |-> e]
Load(e) == [k |-> "load", e |-> e]
Reslice(e) == [k |-> "reslice", e |-> e]
Member(e, m) == [k |-> "member", e |-> e, m |-> m]
Index(e, i) == [k |-> "index", e |-> e, i |-> i]
Method(e, n, args) == [k |-> "method", e |-> e, name |-> n, args |-> args]
Invoke(f, args) == [k |-> "call", f |-> f, args |-> args]
Match(args) == [k |-> "match", e |-> D, args |-> args]
Let(b, e) == [k |-> "declare", b |-> b, e |-> e]
Set_(target, e, i) == [k |-> "assign", target |-> target, e |-> e, site |-> Sites[i]]
Act(e) == [k |-> "do", e |-> e]
Return(e) == [k |-> "return", e |-> e]
Defer(e) == [k |-> "defer", e |-> e]
If(then, else) == [k |-> "if", branches |-> <<[c |-> D, body |-> then]>>, else |-> else]
While(body) == [k |-> "while", c |-> D, forever |-> FALSE, body |-> body]
Forever(body) == [While(body) EXCEPT !.forever = TRUE]
Break == [k |-> "break"]
Continue == [k |-> "continue"]

Push(e) == Act(Method(e, "push", <<D>>))

MCTypes == [b \in {"x", "y", "u"} |-> "list"] @@ [b \in {"p", "q", "w"} |-> "view"]
             @@ ("o" :> "obj") @@ ("c" :> "obj") @@ ("n" :> "pair") @@ ("r" :> "arr") @@ ("k" :> "fun") @@ ("d" :> "data")

Fun(params, captures, result, body) ==
  [params |-> params, captures |-> captures, result |-> result, body |-> body]

\* retry changes its List only through grow, which stands after it.
MCFunctions ==
  [retry |-> Fun(<<"u">>, {}, "data", <<Act(Invoke("grow", <<V("u")>>))>>),
   grow |-> Fun(<<"u">>, {}, "data", <<Push(V("u"))>>),
   size |-> Fun(<<"u">>, {}, "data", << >>),
   peek |-> Fun(<<"w", "d">>, {}, "data", <<Act(Load(V("w")))>>),
   both |-> Fun(<<"u", "w">>, {}, "data", <<Act(Load(V("w")))>>),
   mix |-> Fun(<<"u", "w">>, {}, "data", <<Push(V("u")), Act(Load(V("w")))>>),
   first |-> Fun(<<"u">>, {}, "view", <<Return(Address(V("u")))>>),
   pass |-> Fun(<<"w">>, {}, "view", <<Return(V("w"))>>),
   same |-> Fun(<<"u">>, {}, "list", <<Return(V("u"))>>),
   hide |-> Fun(<<"w">>, {}, "data", <<Act([k |-> "hide", args |-> <<V("w")>>])>>),
   keep |-> Fun(<<"w">>, {}, "data", <<Act(Invoke("hide", <<V("w")>>))>>),
   outer |-> Fun(<< >>, {"x"}, "data", <<Push(V("x"))>>)]

MCOrder == <<"retry", "grow", "size", "peek", "both", "mix", "first", "pass", "same",
             "hide", "keep", "outer">>

Two == <<Let("x", New), Let("y", New), Let("p", Address(V("x"))), Let("q", Address(V("y")))>>
Fields(m, h, v) == [k |-> "object", m |-> m, h |-> h, v |-> v]
Object == <<Let("o", Fields("v", V("x"), Address(V("y"))))>>
Copy == <<Let("c", Fields("v", V("y"), Address(V("y"))))>>
Pair == <<Let("n", Fields("hh", V("x"), Address(V("y"))))>>
Array == <<Let("r", [k |-> "array", args |-> <<Address(V("x")), Address(V("y"))>>])>>
Function == <<Let("k", [k |-> "funref", f |-> "size"])>>

All(i) ==
  [newX |-> Set_(V("x"), New, i),
   xIsY |-> Set_(V("x"), V("y"), i),
   pOfX |-> Set_(V("p"), Address(V("x")), i),
   pOfY |-> Set_(V("p"), Address(V("y")), i),
   qIsP |-> Set_(V("q"), V("p"), i),
   qInP |-> Set_(V("q"), Reslice(V("p")), i),
   growX |-> Push(V("x")),
   clearY |-> Act(Method(V("y"), "clear", << >>)),
   loadP |-> Act(Load(V("p"))),
   loadQ |-> Act(Load(V("q"))),
   hideP |-> Act([k |-> "hide", args |-> <<V("p")>>]),
   pushP |-> Act(Method(V("y"), "push", <<V("p")>>)),
   reveal |-> Act(Load([k |-> "reveal"])),
   trust |-> [k |-> "unsafe", body |-> <<Act([k |-> "hide", args |-> <<V("p")>>])>>],
   maybeX |-> If(<<Push(V("x"))>>, << >>),
   either |-> If(<<Set_(V("p"), Address(V("y")), i)>>, <<Act(Method(V("y"), "free", << >>))>>),
   orElse |-> [If(<<Push(V("x"))>>, << >>) EXCEPT !.branches = @ \o
                 <<[c |-> Method(V("y"), "pop", << >>), body |-> <<Set_(V("q"), V("p"), i)>>]>>],
   round |-> While(<<Set_(V("p"), Address(V("x")), i), Act(Load(V("p"))), Push(V("x"))>>),
   again |-> While(<<Act(Load(V("q"))), Set_(V("q"), V("p"), i), Set_(V("p"), Address(V("x")), i),
                     If(<<Continue>>, << >>), Push(V("y"))>>),
   until |-> Forever(<<Set_(V("p"), Address(V("y")), i), If(<<Push(V("x")), Break>>, << >>)>>),
   each |-> [k |-> "for", e |-> V("y"), binder |-> "none",
             body |-> <<If(<<Push(V("x")), Break>>, <<Set_(V("p"), V("q"), i)>>)>>],
   ohIsY |-> Set_(Member(V("o"), "h"), V("y"), i),
   ohIsNew |-> Set_(Member(V("o"), "h"), New, i),
   ovIsP |-> Set_(Member(V("o"), "v"), V("p"), i),
   pOfOh |-> Set_(V("p"), Address(Member(V("o"), "h")), i),
   qIsOv |-> Set_(V("q"), Member(V("o"), "v"), i),
   growOh |-> Push(Member(V("o"), "h")),
   oIsNew |-> Set_(V("o"), Fields("v", V("y"), V("q")), i),
   cIsO |-> Set_(V("c"), V("o"), i),
   cEither |-> If(<<Set_(V("c"), V("o"), i)>>, <<Set_(V("c"), Fields("v", V("y"), V("q")), i)>>),
   growCh |-> Push(Member(V("c"), "h")),
   qIsCv |-> Set_(V("q"), Member(V("c"), "v"), i),
   nhIsY |-> Set_(Member(V("n"), "h"), V("y"), i),
   nhhIsP |-> Set_(Member(V("n"), "hh"), V("p"), i),
   qIsNhh |-> Set_(V("q"), Member(V("n"), "hh"), i),
   growNh |-> Push(Member(V("n"), "h")),
   xIsNh |-> Set_(V("x"), Member(V("n"), "h"), i),
   loadNhh |-> Act(Load(Member(V("n"), "hh"))),
   r1IsP |-> Set_(Index(V("r"), 1), V("p"), i),
   qIsR2 |-> Set_(V("q"), Index(V("r"), 2), i),
   rIsNew |-> Set_(V("r"), [k |-> "array", args |-> <<V("p"), Address(V("x"))>>], i),
   loadR |-> Act(Load(Index(V("r"), 2))),
   callRetry |-> Act(Invoke("retry", <<V("x")>>)),
   callSize |-> Act(Invoke("size", <<V("x")>>)),
   callPeek |-> Act(Invoke("peek", <<V("p"), D>>)),
   peekLate |-> Act(Invoke("peek", <<V("p"), Method(V("x"), "push", <<D>>)>>)),
   callBoth |-> Act(Invoke("both", <<V("x"), V("p")>>)),
   callMix |-> Act(Invoke("mix", <<V("x"), V("p")>>)),
   qFirst |-> Set_(V("q"), Invoke("first", <<V("x")>>), i),
   qPass |-> Set_(V("q"), Invoke("pass", <<V("p")>>), i),
   ySame |-> Set_(V("y"), Invoke("same", <<V("x")>>), i),
   callKeep |-> Act(Invoke("keep", <<V("p")>>)),
   callOuter |-> Act(Invoke("outer", << >>)),
   kGrow |-> Set_(V("k"), [k |-> "funref", f |-> "retry"], i),
   kMaybe |-> If(<<Set_(V("k"), [k |-> "funref", f |-> "grow"], i)>>, << >>),
   kAny |-> Set_(V("k"), [k |-> "literal", f |-> "grow"], i),
   callK |-> Act([k |-> "callvalue", e |-> V("k"), args |-> <<V("x")>>]),
   choose |-> Set_(V("p"), Match(<<V("q"), Address(V("x"))>>), i),
   andGrow |-> Act([k |-> "and", l |-> Load(V("q")), r |-> Method(V("x"), "push", <<D>>)]),
   lateUse |-> Defer(Invoke("peek", <<V("p"), D>>)),
   scope |-> If(<<Defer(Method(V("x"), "clear", << >>)), Set_(V("x"), V("y"), i),
                  Act(Load(V("p")))>>, << >>),
   leave |-> While(<<Defer(Method(V("x"), "pop", << >>)), Act(Load(V("p"))),
                     If(<<Break>>, << >>), Set_(V("p"), Address(V("y")), i)>>)]

MCStatements == [name \in DOMAIN All(1) |-> [i \in 1..8 |-> All(i)[name]]]

Common == {"newX", "pOfX", "growX", "clearY", "loadP"}

Body(prologue, body) == [prologue |-> prologue, body |-> body]

MCBodies ==
  <<Body(Two, Common \cup {"xIsY", "qIsP", "loadQ"}),
    Body(Two, Common \cup {"pOfY", "qInP", "hideP", "pushP", "reveal", "trust"}),
    Body(Two, {"pOfX", "pOfY", "growX", "newX", "loadP", "loadQ", "maybeX", "either"}),
    Body(Two, {"pOfX", "pOfY", "growX", "clearY", "loadP", "loadQ", "orElse"}),
    Body(Two, {"pOfY", "qInP", "growX", "clearY", "loadP", "loadQ", "round", "again"}),
    Body(Two, {"pOfX", "pOfY", "qIsP", "growX", "loadP", "loadQ", "until", "each"}),
    Body(Two \o Object, {"growX", "clearY", "loadP", "loadQ", "newX", "ohIsY", "ovIsP", "pOfOh", "qIsOv", "growOh"}),
    Body(Two \o Object, {"growX", "loadP", "ohIsNew", "pOfOh", "qIsOv", "growOh", "oIsNew", "loadQ"}),
    Body(Two \o Array, {"pOfX", "growX", "clearY", "loadP", "loadQ", "r1IsP", "qIsR2", "loadR"}),
    Body(Two \o Array, {"growX", "clearY", "pOfX", "pOfY", "rIsNew", "qIsR2", "loadQ"}),
    Body(Two, Common \cup {"pOfY", "callRetry", "callSize", "callPeek", "peekLate", "callBoth", "callMix"}),
    Body(Two, {"pOfX", "growX", "clearY", "loadP", "qFirst", "qPass", "ySame", "callKeep", "reveal",
              "callOuter", "loadQ"}),
    Body(Two \o Object \o Copy, {"growX", "loadP", "loadQ", "cIsO", "growCh", "qIsCv", "cEither", "oIsNew"}),
    Body(Two \o Pair, {"pOfX", "growX", "clearY", "loadP", "nhIsY", "nhhIsP", "qIsNhh", "growNh", "xIsNh",
                       "loadNhh"}),
    Body(Two, {"lateUse", "growX", "pOfY", "pOfX", "loadP"}),
    Body(Two \o Function, Common \cup {"pOfY", "kGrow", "kMaybe", "kAny", "callK", "callSize"}),
    Body(Two, Common \cup {"pOfY", "choose", "andGrow", "loadQ", "scope", "leave"})>>

MCFamilies == Range(MCBodies)

MCStraight ==
  DOMAIN All(1) \ {"maybeX", "either", "orElse", "round", "again", "until", "each", "r1IsP", "qIsR2",
                   "ySame", "callK", "kMaybe", "kAny", "choose", "andGrow", "scope", "leave", "cEither"}
=============================================================================
