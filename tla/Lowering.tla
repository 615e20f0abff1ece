------------------------------ MODULE Lowering ------------------------------
(***************************************************************************)
(* How the generator turns a body of statements into C                     *)
(* (src/compiler/generator): the prologues it writes before a statement    *)
(* for spawn, Dict.find and try, the temporaries that fix the order of     *)
(* operands, and the deferred actions it writes at every exit of a scope.  *)
(*                                                                         *)
(* Its state "g" has the number of temporaries so far, the scopes around   *)
(* the statement with the actions registered in each (deferStack,          *)
(* registeredDefers, captures), the scope each loop begins at (loopDepths) *)
(* and whether the body is the root's.  An operand with a temporary of its *)
(* own is kept, as "hoisted", beside the temporary: the code that writes   *)
(* the operand decides whether it looks the temporary up.                  *)
(***************************************************************************)
EXTENDS Execution, Naturals

CONSTANTS
  Families,       \* the statements of a body, and whether it is the root's
  MaxStatements,  \* statements in a body
  Closing         \* the kinds of statement that a body ends with

VARIABLES
  family,  \* the statements of this body
  program, \* the statements of the body so far
  means,   \* what can be seen of the body
  does     \* what can be seen of the C generated for it

vars == <<family, program, means, does>>

Temp(n) == [k |-> "temp", n |-> n, args |-> << >>]
Put(n, e) == [k |-> "set", n |-> n, es |-> <<e>>]
Run(e) == [k |-> "do", es |-> <<e>>]
Return(e) == [k |-> "return", es |-> <<e>>]
If(c, then) == [k |-> "if", es |-> <<c>>, bodies |-> <<then>>]
IsError(e) == [k |-> "is error", args |-> <<e>>]

\* A rewritten expression, with the code that goes before it.
Rewritten(pre, e, n) == [pre |-> pre, e |-> e, n |-> n]

\* The same of a sequence of them.
Unchanged(es, n) == [pre |-> << >>, es |-> es, n |-> n]

Joined(each, r) == [pre |-> each.pre \o r.pre, es |-> Append(each.es, r.e), n |-> r.n]

\* F on each of es in turn, the code and the temporaries adding up.
Each(F(_, _), es, n) ==
  FoldLeft(LAMBDA each, e : Joined(each, F(e, each.n)), Unchanged(<< >>, n), es)

Extended(each, more) == [pre |-> each.pre \o more.pre, es |-> each.es \o more.es, n |-> more.n]

\* F on what each leaves.
Before(each, F(_)) == Extended(each, F(each.n))

WithOperands(e, each) == Rewritten(each.pre, [e EXCEPT !.args = each.es], each.n)

-----------------------------------------------------------------------------
\* Rendering.

\* expressionMayObserve; a find only reads, the temporary of a prologue counts
\* as what it was made for.
RECURSIVE Observes(_)
Observes(e) ==
  \/ IsCall(e) \/ e.k \in {"try", "spawn", "match"}
  \/ IF e.k = "lifted" THEN Observes(e.for) ELSE \E i \in DOMAIN e.args : Observes(e.args[i])

\* The C expression for e, with the temporary of each operand that has one.
RECURSIVE Render(_)
Render(e) ==
  IF e.k \in {"hoisted", "lifted"} THEN Temp(e.n)
  ELSE [e EXCEPT !.args = [i \in DOMAIN e.args |-> Render(e.args[i])]]

RenderAll(es) == [i \in DOMAIN es |-> Render(es[i])]

\* renderOperandWithState, whose caller has a copy of the operand: a temporary
\* of the operand itself is not found, those inside it are.
RenderOperand(e) == IF e.k = "hoisted" THEN Render(e.args[1]) ELSE Render(e)

-----------------------------------------------------------------------------
\* Deferred actions.

Always == Const(True)
Never == Const(False)

\* writeDeferredActions: the actions of one scope in reverse; errorExit says
\* whether the scope is left with an Error.
WriteDeferredActions(actions, errorExit) ==
  FlattenSeq([i \in DOMAIN actions |->
    LET action == Reverse(actions)[i] IN
    CASE ~action.onError \/ errorExit = Always -> <<Run(action.e)>>
      [] action.onError /\ errorExit = Never -> << >>
      [] OTHER -> <<If(errorExit, <<Run(action.e)>>)>>])

\* The scopes from the innermost out to the bottom-th.
Unwind(g, bottom, errorExit) ==
  FlattenSeq([i \in 1..(Len(g.stack) - bottom + 1) |->
               WriteDeferredActions(g.stack[Len(g.stack) - i + 1].actions, errorExit)])

UnwindAllDefers(g, errorExit) == Unwind(g, 1, errorExit)

UnwindToLoopDepth(g) == Unwind(g, Last(g.loops), Never)

HasPendingActions(g) == \E i \in DOMAIN g.stack : g.stack[i].some

HasPendingErrDefers(g) == \E i \in DOMAIN g.stack : g.stack[i].errdefers

-----------------------------------------------------------------------------
\* The prologues.

\* writeTryErrorArm
WriteTryErrorArm(t, g) ==
  UnwindAllDefers(g, Always) \o
    (IF g.root THEN <<Run([k |-> "call", f |-> "report", args |-> << >>]), Return(Const(<<"one">>))>>
     ELSE <<Return(t)>>)

\* hoistSpawn: the arguments are put into the frame one by one.
SpawnPrologue(e, n) ==
  LET m == Len(e.args) IN
  Append([i \in 1..m |-> Put(n + i, Render(e.args[i]))],
         Put(n + m + 1, [e EXCEPT !.args = [i \in 1..m |-> Temp(n + i)]]))

\* hoistDictFindInStatement
FindPrologue(e, n) == <<Put(n + 1, Render(e))>>

\* hoistTry
TryPrologue(e, n, g) ==
  LET t == Temp(n + 1) IN
  <<Put(n + 1, Render(e.args[1])), If(IsError(t), WriteTryErrorArm(t, g))>>

\* The prologue of a spawn, a find or a try, and the temporary in its place.
Prologue(e, n, g) ==
  LET t == IF e.k = "spawn" THEN n + Len(e.args) + 1 ELSE n + 1 IN
  Rewritten(CASE e.k = "spawn" -> SpawnPrologue(e, n)
              [] e.k = "find" -> FindPrologue(e, n)
              [] e.k = "try" -> TryPrologue(e, n, g),
            [k |-> "lifted", n |-> t, for |-> e, args |-> << >>], t)

\* walkStatementExpression for one kind of prologue, wherever it stands but in
\* the initializers of an object, which it does not visit.
RECURSIVE Lift(_, _, _, _)
Lift(kind, e, n, g) ==
  CASE e.k = kind -> Prologue(e, n, g)
    [] e.k = "object" -> Rewritten(<< >>, e, n)
    [] OTHER -> WithOperands(e, Each(LAMBDA x, i : Lift(kind, x, i, g), e.args, n))

\* walkStatementExpressions: an assignment's source before its target.
Turn(s, es) == IF s.k = "assign" THEN Reverse(es) ELSE es

Turned(s, each) == [each EXCEPT !.es = Turn(s, @)]

Following(each, more) == [more EXCEPT !.pre = each.pre \o @]

LiftStatement(kind, s, each, g) ==
  Following(each, Turned(s, Each(LAMBDA x, i : Lift(kind, x, i, g), Turn(s, each.es), each.n)))

\* hoistConcurrencyInStatement, hoistDictFindInStatement, hoistTryInStatement
Prologues(s, g) ==
  FoldLeft(LAMBDA each, kind : LiftStatement(kind, s, each, g),
           Unchanged(s.es, g.n), <<"spawn", "find", "try">>)

-----------------------------------------------------------------------------
\* The order of operands.
RECURSIVE Sequence(_, _)

\* A temporary for one operand, after those inside it.
WithTemporary(r) ==
  Rewritten(Append(r.pre, Put(r.n + 1, RenderOperand(r.e))),
            [k |-> "hoisted", n |-> r.n + 1, args |-> <<r.e>>], r.n + 1)

Hoist(e, n) == WithTemporary(Sequence(e, n))

\* Mutant of HoistSequenceSlots: only the operands with an effect.
HoistSequenceSlotsObserving(slots, n) ==
  Each(LAMBDA e, i : IF Observes(e) THEN Hoist(e, i) ELSE Sequence(e, i), slots, n)

\* hoistSequenceSlots: operands that share one C expression.
HoistSequenceSlots(slots, n) ==
  IF Len(slots) = 1 THEN Each(Sequence, slots, n)
  ELSE IF \E i \in DOMAIN slots : Observes(slots[i]) THEN Each(Hoist, slots, n)
  ELSE Unchanged(slots, n)

\* hoistReceiverAndOperandsSequence and hoistMethodCallSequence: a receiver
\* without an effect keeps its place in the call.
HoistReceiverAndOperands(e, n) ==
  IF Observes(e.args[1]) THEN HoistSequenceSlots(e.args, n)
  ELSE Before(Each(Sequence, <<e.args[1]>>, n), LAMBDA i : HoistSequenceSlots(Tail(e.args), i))

\* hoistSequencingInExpression.  A built-in method does not look up the
\* temporaries of its operands and gets none.
Sequence(e, n) ==
  CASE e.k \in {"lifted", "const", "x"} \/ (e.k = "object" /\ Len(e.args) < 2) ->
         Rewritten(<< >>, e, n)
    [] e.k \in {"match", "and", "or"} ->
         WithOperands(e, Before(Each(Sequence, <<e.args[1]>>, n), LAMBDA i : Unchanged(Tail(e.args), i)))
    [] e.k \in {"call", "binary", "object"} -> WithOperands(e, HoistSequenceSlots(e.args, n))
    [] e.k = "method" -> WithOperands(e, HoistReceiverAndOperands(e, n))
    [] OTHER -> WithOperands(e, Each(Sequence, e.args, n))

\* hoistEvaluationOrderInStatement, with forceHoistAssignmentTargetIndex: the
\* index of a target has a temporary when the source has an effect too.
HoistEvaluationOrder(s, each) ==
  Following(each,
    IF s.k = "assign" /\ Len(each.es) = 2 /\ \A i \in 1..2 : Observes(each.es[i])
    THEN Before(Each(Hoist, <<each.es[1]>>, each.n), LAMBDA i : Each(Sequence, <<each.es[2]>>, i))
    ELSE Each(Sequence, each.es, each.n))

-----------------------------------------------------------------------------
\* The statements.
RECURSIVE Statement(_, _), Statements(_, _)

Code(code, g) == [code |-> code, g |-> g]

Beside(acc, r) == [codes |-> Append(acc.codes, r.code), n |-> r.n]

Preceded(code, r) == Code(code \o r.code, r.g)

\* The bodies of a statement, one after the other.
Bodies(bodies, g) ==
  FoldLeft(LAMBDA acc, body : Beside(acc, Statements(body, [g EXCEPT !.n = acc.n])),
           [codes |-> << >>, n |-> g.n], bodies)

\* writeDeferStatement: a call's operands are captured, in order, by
\* captureOperand; any other expression is kept whole.
WriteDefer(s, g) ==
  LET e == s.es[1]
      m == Len(e.args)
      call == [e EXCEPT !.args = [i \in 1..m |-> Temp(g.n + i)]]
      with(action) == [g EXCEPT !.stack[Len(g.stack)].actions =
                         Append(@, [onError |-> s.k = "errdefer", e |-> action])] IN
  IF IsCall(e)
  THEN Code([i \in 1..m |-> Put(g.n + i, RenderOperand(e.args[i]))], [with(call) EXCEPT !.n = @ + m])
  ELSE Code(<< >>, with(Render(e)))

\* renderMatchStatement: the scrutinee in one temporary, the chosen arm in another.
WriteMatch(e, g) ==
  LET arm(i) == <<Put(g.n + 2, RenderOperand(e.args[i]))>> IN
  Code(<<Put(g.n + 1, Render(e.args[1])),
         [k |-> "if", es |-> <<Temp(g.n + 1)>>, bodies |-> <<arm(2), arm(3)>>]>>,
       [g EXCEPT !.n = @ + 2])

\* renderReturnStatement
WriteReturn(e, g) ==
  LET value == Temp(g.n + 1)
      failed == Temp(g.n + 2) IN
  CASE e.k = "match" ->
         LET r == WriteMatch(e, g) IN
         Code(r.code \o UnwindAllDefers(g, Never) \o <<Return(Temp(r.g.n))>>, r.g)
    [] e.k # "match" /\ ~HasPendingActions(g) -> Code(<<Return(RenderOperand(e))>>, g)
    [] OTHER ->
         Code(<<Put(g.n + 1, RenderOperand(e))>> \o
                (IF HasPendingErrDefers(g)
                 THEN <<Put(g.n + 2, IsError(value))>> \o UnwindAllDefers(g, failed)
                 ELSE UnwindAllDefers(g, Never)) \o
                <<Return(value)>>,
              [g EXCEPT !.n = @ + 2])

\* renderRootReturnStatement and writeRootExit: the status, then the cleanup.
WriteRootReturn(e, g) ==
  Code(<<Put(g.n + 1, RenderOperand(e))>> \o UnwindAllDefers(g, Never) \o <<Return(Temp(g.n + 1))>>,
       [g EXCEPT !.n = @ + 1])

\* writeAssignmentStatement, writeDeclarationStatement
WriteAssignment(s, g) ==
  LET match == WriteMatch(Last(s.es), g) IN
  IF Last(s.es).k = "match"
  THEN Code(Append(match.code,
                   [s EXCEPT !.es = Append(RenderAll(Front(@)), Temp(match.g.n))]), match.g)
  ELSE Code(<<[s EXCEPT !.es = RenderAll(@)]>>, g)

\* writeIfStatement, writeWhileStatement, renderForStatement and the unsafe
\* region, which has no code of its own.
WriteCompound(s, g, bodies) ==
  Code(IF s.k = "unsafe" THEN bodies.codes[1]
       ELSE <<[s EXCEPT !.es = RenderAll(@), !.bodies = bodies.codes]>>,
       [g EXCEPT !.n = bodies.n])

\* A loop's body starts at the scope that comes next.
InBodies(s, g) ==
  IF s.k \in {"while", "for"} THEN [g EXCEPT !.loops = Append(@, Len(g.stack) + 1)] ELSE g

Write(s, g) ==
  CASE s.k = "do" -> Code(<<Run(Render(s.es[1]))>>, g)
    [] s.k = "try" -> Code(<< >>, g)
    [] s.k = "assign" -> WriteAssignment(s, g)
    [] s.k = "return" -> IF g.root THEN WriteRootReturn(s.es[1], g) ELSE WriteReturn(s.es[1], g)
    [] s.k \in {"if", "while", "for", "unsafe"} ->
         WriteCompound(s, g, Bodies(s.bodies, InBodies(s, g)))
    [] s.k \in {"break", "continue"} -> Code(UnwindToLoopDepth(g) \o <<s>>, g)
    [] s.k \in {"defer", "errdefer"} -> WriteDefer(s, g)

\* writeStatementsAt, for one statement: the prologues, the temporaries, itself.
Written(s, g, each) == Preceded(each.pre, Write([s EXCEPT !.es = each.es], [g EXCEPT !.n = each.n]))

Statement(s, g) == Written(s, g, HoistEvaluationOrder(s, Prologues(s, g)))

Kinds(list) == {list[i].k : i \in DOMAIN list}

Opened(list, g) ==
  [g EXCEPT !.stack = Append(@, [actions |-> << >>, some |-> Kinds(list) \cap {"defer", "errdefer"} # {},
                                 errdefers |-> "errdefer" \in Kinds(list)])]

Closed(r) ==
  [code |-> r.code \o WriteDeferredActions(Last(r.g.stack).actions, Never), n |-> r.g.n]

\* writeStatementsAt: a scope, with its deferred actions at its end.
Statements(list, g) ==
  Closed(FoldLeft(LAMBDA r, s : Preceded(r.code, Statement(s, r.g)), Code(<< >>, Opened(list, g)), list))

Generated(list, root) ==
  Statements(list, [n |-> 0, stack |-> << >>, loops |-> << >>, root |-> root]).code

-----------------------------------------------------------------------------
Init ==
  /\ family \in Families
  /\ program = << >>
  /\ means = Meaning(<< >>, family.root)
  /\ does = Behaviour(Generated(<< >>, family.root))

\* One more statement; nothing follows one that is closing.
Extend ==
  /\ Len(program) < MaxStatements
  /\ program # << >> => Last(program).k \notin Closing
  /\ \E s \in family.statements : program' = Append(program, s)
  /\ means' = Meaning(program', family.root)
  /\ does' = Behaviour(Generated(program', family.root))
  /\ UNCHANGED family

Next == Extend

Spec == Init /\ [][Next]_vars

\* The generated C does what the source means: whatever the functions answer
\* and in whichever order C evaluates the operands of an expression, it makes
\* the same calls with the same values in the same order, runs the deferred
\* actions that are due at each exit, each once and in reverse, and ends in the
\* same way.  [writeStatementsAt]
FollowsSource == does = means
=============================================================================
