----------------------------- MODULE MCLowering -----------------------------
(* Functions without effects beyond their event, one that changes x (bump), *)
(* two tests and two that may fail.  A family is a vocabulary of statements. *)
EXTENDS Lowering

Of(f, args) == [k |-> "call", f |-> f, args |-> args]
A == Of("a", << >>)
B == Of("b", << >>)
C == Of("c", << >>)
D == Of("d", << >>)
E == Of("e", << >>)
Bump == Of("bump", << >>)
X == [k |-> "x", args |-> << >>]
One == Const(<<"1">>)
F(p, q) == Of("f", <<p, q>>)
G(p) == Of("g", <<p>>)
Op(kind, args) == [k |-> kind, args |-> args]
Method(args) == [k |-> "method", f |-> "method", args |-> args]
Push(e) == [k |-> "builtin", f |-> "push", args |-> <<One, e>>]
Spawn(args) == [k |-> "spawn", f |-> "spawn", args |-> args]
Find(e) == [k |-> "find", f |-> "find", args |-> <<One, e>>]
Try(e) == Op("try", <<e>>)
Free(e) == Of("free", <<e>>)

S(kind, es, bodies) == [k |-> kind, es |-> es, bodies |-> bodies]
Act(e) == S("do", <<e>>, << >>)
Try_(e) == S("try", <<Try(e)>>, << >>)
Set(e) == S("assign", <<e>>, << >>)
SetAt(i, e) == S("assign", <<i, e>>, << >>)
Back(e) == S("return", <<e>>, << >>)
Defer(e) == S("defer", <<e>>, << >>)
OnError(e) == S("errdefer", <<e>>, << >>)
When(c, body) == S("if", <<c>>, <<body>>)
While(c, body) == S("while", <<c>>, <<body>>)
Each_(e, body) == S("for", <<e>>, <<body>>)
Unsafe(body) == S("unsafe", << >>, <<body>>)
Break == S("break", << >>, << >>)
Continue == S("continue", << >>, << >>)

Choice == Op("match", <<Of("c", <<A, Bump>>), B, G(X)>>)

\* Operands with effects, side by side and inside each other.
Operands_ ==
  {Act(F(X, Bump)), Set(F(A, F(X, B))), Set(Op("binary", <<Bump, F(X, A)>>)),
   Act(F(F(B, Bump), X)), Act(Method(<<A, X, Bump>>)), Act(Method(<<One, F(X, Bump), A>>)),
   Act(Push(F(X, Bump))), Set(Op("object", <<X, Bump>>)), Act(Op("and", <<Of("c", <<X, Bump>>), G(A)>>)),
   SetAt(Bump, F(X, A)), SetAt(F(X, Bump), A), SetAt(One, F(B, X)), Defer(Free(X)),
   Set(Choice), Back(Choice)}

Prologues_ ==
  {Set(Try(E)), Act(F(Try(G(X)), Bump)), Act(F(Bump, X)), Try_(G(X)), Set(Spawn(<<A, Bump, X>>)),
   Act(Push(Spawn(<<Bump, X>>))), Set(Try(Spawn(<<Bump, X>>))), Set(F(Find(Bump), X)),
   SetAt(X, Try(E)), Back(F(Try(E), X)),
   When(Try(E), <<Act(F(X, Bump))>>), Defer(Free(X)), OnError(Free(F(X, Bump)))}

\* Deferred actions and the ways out of their scopes.
Exits ==
  {Defer(Free(X)), Defer(Of("close", <<A>>)), OnError(Free(Bump)), OnError(X), Set(B), Try_(E), Back(E),
   Back(X), When(C, <<Defer(A), Back(E)>>), When(C, <<OnError(A), Try_(E), Defer(B)>>),
   S("if", <<C, D>>, <<<<Back(A)>>, <<Defer(Free(X)), Set(B)>>, <<OnError(X), Back(E)>>>>)}

Loops ==
  {Defer(Free(X)), OnError(Free(X)), Try_(E), Set(A),
   While(C, <<Defer(Free(X)), When(D, <<Defer(B), Break>>), Act(Bump)>>),
   While(C, <<OnError(B), When(D, <<Continue>>), Try_(E)>>),
   While(C, <<Unsafe(<<Defer(B), When(D, <<Break>>)>>), Defer(X), Back(E)>>),
   Each_(F(X, Bump), <<Defer(A), Each_(B, <<Defer(Free(X)), When(D, <<Break>>)>>)>>),
   Each_(A, <<Defer(B), When(C, <<Defer(Bump), Continue>>), Back(X)>>)}

Root ==
  {Defer(Free(X)), OnError(A), Set(Try(E)), Act(Bump), Back(X), When(C, <<OnError(B), Try_(E)>>),
   While(C, <<Defer(B), When(D, <<Back(Bump)>>), Try_(E)>>)}

Family(statements, root) == [statements |-> statements, root |-> root]

MCFamilies ==
  {Family(Operands_, FALSE), Family(Prologues_, FALSE), Family(Exits, FALSE), Family(Loops, FALSE),
   Family(Root, TRUE)}

\* A loop whose condition has two operands, one with an effect.
MCConditions == {Family({While(Of("c", <<X, Bump>>), <<Act(A)>>), Set(B)}, FALSE)}
=============================================================================
