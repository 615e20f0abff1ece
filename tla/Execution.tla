----------------------------- MODULE Execution ------------------------------
(***************************************************************************)
(* What a body of statements does, for the language that the generator     *)
(* reads and for the C that it writes.  The source language is ordered:    *)
(* operands are evaluated from left to right, a scope's deferred actions   *)
(* run in reverse at its end (docs/reference.md, "Values and evaluation"   *)
(* and "defer").  C leaves the order of the operands of one expression     *)
(* open, and has neither scopes with actions nor try.                      *)
(*                                                                         *)
(* An expression is a record of its kind and its operands; a statement     *)
(* holds its expressions "es" in written order and its bodies.  What a     *)
(* function computes is the environment's choice; a call leaves an event.  *)
(***************************************************************************)
EXTENDS Sequences, SequencesExt

CONSTANTS
  Tests,      \* the functions that answer true or false
  Fallible,   \* the functions that may answer an Error
  MaxRounds   \* rounds of a loop that are executed

True == <<"true">>
False == <<"false">>
Error == <<"error">>

Const(v) == [k |-> "const", v |-> v, args |-> << >>]

\* x is the one binding that a function, "bump", changes.
Start(unordered) ==
  [events |-> << >>, x |-> <<"x">>, temps |-> << >>, open |-> << >>, unordered |-> unordered]

\* An outcome: how evaluation goes on, the value, the memory.
Ends(how, v, m) == [how |-> how, v |-> v, m |-> m]

Then(outcomes, F(_)) ==
  UNION {IF r.how = "next" THEN F(r) ELSE {r} : r \in outcomes}

Answers(f) ==
  IF f \in Tests THEN {True, False}
  ELSE IF f \in Fallible THEN {<<"ok">>, Error} ELSE {<<f>>}

Invoke(f, values, m) ==
  {Ends("next", answer,
        [m EXCEPT !.events = Append(@, <<f, values, answer>>),
                  !.x = IF f = "bump" THEN <<"bumped">> ELSE @]) : answer \in Answers(f)}

\* An assignment stores at the place its index gives, or in x.
Store(values, m) ==
  [m EXCEPT !.events = Append(@, <<"store", values, Last(values)>>),
            !.x = IF Len(values) = 1 THEN values[1] ELSE @]

-----------------------------------------------------------------------------
\* Expressions.
IsCall(e) == e.k \in {"call", "method", "builtin"}

Orders(es, m) == IF m.unordered THEN SetToSeqs(DOMAIN es) ELSE {[i \in DOMAIN es |-> i]}

RECURSIVE Do(_, _), Operands(_, _, _, _)

\* The operands es in the given order; the outcome's value is all of theirs.
Operands(es, order, got, m) ==
  IF order = << >> THEN {Ends("next", [i \in DOMAIN es |-> got[i]], m)}
  ELSE Then(Do(es[Head(order)], m),
            LAMBDA r : Operands(es, Tail(order), (Head(order) :> r.v) @@ got, r.m))

All(es, m) == UNION {Operands(es, order, << >>, m) : order \in Orders(es, m)}

Do(e, m) ==
  CASE e.k = "const" -> {Ends("next", e.v, m)}
    [] e.k = "x" -> {Ends("next", m.x, m)}
    [] e.k = "temp" -> {Ends("next", m.temps[e.n], m)}
    [] IsCall(e) \/ e.k \in {"spawn", "find"} ->
         Then(All(e.args, m), LAMBDA r : Invoke(e.f, r.v, r.m))
    [] e.k \in {"binary", "object"} ->
         Then(All(e.args, m), LAMBDA r : {Ends("next", <<e.k>> \o r.v, r.m)})
    [] e.k \in {"and", "or"} ->
         Then(Do(e.args[1], m),
              LAMBDA r : IF (r.v # False) = (e.k = "and") THEN Do(e.args[2], r.m) ELSE {r})
    [] e.k = "match" ->
         Then(Do(e.args[1], m), LAMBDA r : Do(e.args[IF r.v # False THEN 2 ELSE 3], r.m))
    [] e.k = "is error" ->
         Then(Do(e.args[1], m), LAMBDA r : {[r EXCEPT !.v = IF @ = Error THEN True ELSE False]})
    [] e.k = "try" ->
         Then(Do(e.args[1], m), LAMBDA r : {IF r.v = Error THEN [r EXCEPT !.how = "error"] ELSE r})

-----------------------------------------------------------------------------
\* Statements.
Goes(m) == {Ends("next", False, m)}

\* The actions of the innermost scope, the last registered first, for a scope
\* that r leaves; an errdefer runs only when r leaves with an Error.
RECURSIVE CleanUp(_)
CleanUp(r) ==
  LET scope == Last(r.m.open)
      failed == r.how = "error" \/ (r.how = "return" /\ r.v = Error)
      rest == [r.m EXCEPT !.open[Len(r.m.open)] = Front(@)] IN
  IF scope = << >> THEN {[r EXCEPT !.m.open = Front(@)]}
  ELSE IF Last(scope).onError /\ ~failed THEN CleanUp([r EXCEPT !.m = rest])
  ELSE UNION {CleanUp([r EXCEPT !.m = q.m]) : q \in Do(Last(scope).e, rest)}

RECURSIVE Execute(_, _), Steps(_, _), Rounds(_, _, _), Branches(_, _, _)

Steps(list, m) ==
  IF list = << >> THEN Goes(m)
  ELSE Then(Execute(Head(list), m), LAMBDA r : Steps(Tail(list), r.m))

Block(list, m) ==
  UNION {CleanUp(r) : r \in Steps(list, [m EXCEPT !.open = Append(@, << >>)])}

\* An if from its i-th condition on.
Branches(s, i, m) ==
  IF i > Len(s.es) THEN (IF i > Len(s.bodies) THEN Goes(m) ELSE Block(s.bodies[i], m))
  ELSE Then(Do(s.es[i], m),
            LAMBDA r : IF r.v # False THEN Block(s.bodies[i], r.m) ELSE Branches(s, i + 1, r.m))

\* A loop of which n more rounds are executed: a while evaluates its condition
\* before each, a for may end before each.
Rounds(s, m, n) ==
  Then(IF s.k = "for" THEN {Ends("next", v, m) : v \in {True, False}} ELSE Do(s.es[1], m),
       LAMBDA r :
         IF r.v = False THEN {r}
         ELSE IF n = 0 THEN {}
         ELSE UNION {CASE q.how \in {"next", "continue"} -> Rounds(s, q.m, n - 1)
                       [] q.how = "break" -> Goes(q.m)
                       [] OTHER -> {q} : q \in Block(s.bodies[1], r.m)})

\* A deferred call evaluates its operands now, any other action all of itself later.
Register(s, m) ==
  LET e == s.es[1]
      action(r) == [onError |-> s.k = "errdefer",
                    e |-> [e EXCEPT !.args = [i \in DOMAIN r.v |-> Const(r.v[i])]]]
      whole == [onError |-> s.k = "errdefer", e |-> e]
      with(a, y) == Goes([y EXCEPT !.open[Len(y.open)] = Append(@, a)]) IN
  IF IsCall(e) THEN Then(All(e.args, m), LAMBDA r : with(action(r), r.m)) ELSE with(whole, m)

Execute(s, m) ==
  CASE s.k \in {"do", "try"} -> Then(Do(s.es[1], m), LAMBDA r : {r})
    [] s.k = "assign" -> Then(All(s.es, m), LAMBDA r : Goes(Store(r.v, r.m)))
    [] s.k = "set" -> Then(Do(s.es[1], m), LAMBDA r : Goes([r.m EXCEPT !.temps = (s.n :> r.v) @@ @]))
    [] s.k = "return" -> Then(Do(s.es[1], m), LAMBDA r : {[r EXCEPT !.how = "return"]})
    [] s.k \in {"break", "continue"} -> {Ends(s.k, False, m)}
    [] s.k = "if" -> Branches(s, 1, m)
    [] s.k = "while" -> Rounds(s, m, MaxRounds)
    [] s.k = "for" -> Then(Do(s.es[1], m), LAMBDA r : Rounds(s, r.m, MaxRounds))
    [] s.k = "unsafe" -> Block(s.bodies[1], m)
    [] s.k \in {"defer", "errdefer"} -> Register(s, m)

-----------------------------------------------------------------------------
\* What can be seen of a body: its events, the binding, and how it ended.  A
\* try that fails returns the Error from a function; at the root it is
\* reported after the cleanup, and the exit status is one.
Seen(r) == <<r.m.events, r.m.x, r.how, r.v>>

Leave(r, root) ==
  IF r.how # "error" THEN Seen(r)
  ELSE IF root THEN Seen([r EXCEPT !.how = "return", !.v = <<"one">>,
                                   !.m.events = Append(@, <<"report", << >>, <<"report">>>>)])
  ELSE Seen([r EXCEPT !.how = "return"])

Meaning(list, root) == {Leave(r, root) : r \in Block(list, Start(FALSE))}

Behaviour(code) == {Seen(r) : r \in Block(code, Start(TRUE))}
=============================================================================
