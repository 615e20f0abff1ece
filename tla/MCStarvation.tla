---------------------------- MODULE MCStarvation ----------------------------
(* The loop bodies of two statements whose branches hold up to two simple   *)
(* statements each, and nested loops with a conditional inside.             *)
EXTENDS Starvation

Statement(kind, bodies) == [kind |-> kind, bodies |-> bodies]

Simple == {Statement(k, << >>) : k \in {"yield", "other", "continue", "break", "return"}}

One == {<< >>} \cup {<<s>> : s \in Simple}

Two == One \cup {<<s, t>> : s, t \in Simple}

Compound ==
  {Statement(k, <<b>>) : k \in {"if", "unsafe", "loop", "while"}, b \in Two}
    \cup {Statement(k, <<b, c>>) : k \in {"if", "ifelse"}, b, c \in One}

Nested ==
  {Statement(k, <<<<Statement(j, <<b>>)>>>>) :
     k \in {"if", "unsafe", "loop", "while"}, j \in {"if", "loop"}, b \in One}

Statements == Simple \cup Compound \cup Nested

SmallBodies ==
  {<< >>} \cup {<<s>> : s \in Statements} \cup {<<s, t>> : s, t \in Statements}
=============================================================================
