----------------------------- MODULE Starvation -----------------------------
(***************************************************************************)
(* The compiler's starvation check (src/compiler/checker/starvation.go),   *)
(* on which the fairness of cooperative Tasks rests: in a program with     *)
(* Tasks every literal "while true" loop that a Task may reach must        *)
(* execute Task.yield() on every path that repeats it.                     *)
(*                                                                         *)
(* A statement is a record of its kind and of the bodies it holds.  "if"   *)
(* holds the then branch and the else-if branches, "ifelse" an else branch *)
(* after them; "loop" is a literal while true, "while" any other loop, for *)
(* loops included; "other" is any statement that neither yields nor jumps. *)
(***************************************************************************)
EXTENDS Sequences, SequencesExt

CONSTANT Bodies  \* the bodies of literal while-true loops to check

VARIABLES
  body,        \* the loop body the checker is given
  diagnostics, \* the loops it reports
  checked      \* has it run?

vars == <<body, diagnostics, checked>>

Jumps == {"continue", "break", "return"}

-----------------------------------------------------------------------------
\* The checker's functions.

\* loopContainsDirectBreak: a break that targets the loop around these
\* statements, whether or not it can be reached.
RECURSIVE ContainsDirectBreak(_)
ContainsDirectBreak(statements) ==
  \E i \in 1..Len(statements) :
    \/ statements[i].kind = "break"
    \/ /\ statements[i].kind \in {"if", "ifelse", "unsafe"}
       /\ \E j \in 1..Len(statements[i].bodies) :
            ContainsDirectBreak(statements[i].bodies[j])

\* loopFallsThrough
FallsThrough(loop) ==
  loop.kind = "while" \/ ContainsDirectBreak(loop.bodies[1])

\* branchMayRepeatWithoutYield: does the end of a branch arrive without a
\* yield?  "bad" says whether its start did; each branch of a statement starts
\* from what the one before it left.
RECURSIVE Branch(_, _)
Branch(statements, bad) ==
  IF statements = << >> THEN bad
  ELSE LET s == Head(statements)
           rest == Tail(statements) IN
    CASE s.kind = "yield" -> Branch(rest, FALSE)
      [] s.kind \in {"if", "ifelse", "unsafe"} ->
           Branch(rest, FoldLeft(LAMBDA b, inner : Branch(inner, b), bad, s.bodies))
      [] s.kind = "loop" /\ ~FallsThrough(s) -> Branch(rest, FALSE)
      [] s.kind \in {"break", "return"} -> FALSE
      [] s.kind = "continue" /\ ~bad -> FALSE
      [] OTHER -> Branch(rest, bad)

\* loopMayRepeatWithoutYield: does some path reach the backedge without one?
RECURSIVE MayRepeat(_, _)
MayRepeat(statements, bad) ==
  IF statements = << >> THEN bad
  ELSE LET s == Head(statements)
           rest == Tail(statements) IN
    CASE s.kind \in {"yield", "break", "return"} -> MayRepeat(rest, FALSE)
      [] s.kind \in {"if", "ifelse", "unsafe"} -> MayRepeat(rest, Branch(<<s>>, bad))
      [] s.kind = "loop" /\ ~FallsThrough(s) -> MayRepeat(rest, FALSE)
      [] s.kind = "continue" /\ bad -> TRUE
      [] OTHER -> MayRepeat(rest, bad)

\* The bodies of the literal loops in these statements, at any depth.
RECURSIVE Loops(_)
Loops(statements) ==
  UNION {LET s == statements[i] IN
           {s.bodies[j] : j \in IF s.kind = "loop" THEN {1} ELSE {}}
             \cup UNION {Loops(s.bodies[j]) : j \in 1..Len(s.bodies)}
         : i \in 1..Len(statements)}

\* diagnoseStatements, for one literal loop that a Task reaches.
Diagnose ==
  /\ ~checked
  /\ checked' = TRUE
  /\ diagnostics' = {b \in {body} \cup Loops(body) : MayRepeat(b, TRUE)}
  /\ UNCHANGED body

Init == body \in Bodies /\ diagnostics = {} /\ checked = FALSE

Next == Diagnose

Spec == Init /\ [][Next]_vars

-----------------------------------------------------------------------------
\* What the rule says, by paths: how an execution of the statements ends that
\* starts with or without a yield behind it.  Any branch may be taken; yields
\* inside nested loops do not count; a nested loop ends where the checker says
\* it may.
RECURSIVE Paths(_, _)
Paths(statements, yielded) ==
  IF statements = << >> THEN {<<"end", yielded>>}
  ELSE LET s == Head(statements)
           inner == UNION {Paths(s.bodies[j], yielded) : j \in 1..Len(s.bodies)}
           first ==
             CASE s.kind = "yield" -> {<<"end", TRUE>>}
               [] s.kind = "other" -> {<<"end", yielded>>}
               [] s.kind \in Jumps -> {<<s.kind, yielded>>}
               [] s.kind = "if" -> inner \cup {<<"end", yielded>>}
               [] s.kind \in {"ifelse", "unsafe"} -> inner
               [] s.kind \in {"loop", "while"} ->
                    {p \in inner : p[1] = "return"} \cup
                    {<<"end", yielded>> : x \in IF FallsThrough(s) THEN {1} ELSE {}}
       IN {p \in first : p[1] # "end"}
            \cup UNION {Paths(Tail(statements), p[2]) : p \in {q \in first : q[1] = "end"}}

\* The loop can repeat without a yield.
Spins(b) ==
  \/ <<"end", FALSE>> \in Paths(b, FALSE)
  \/ <<"continue", FALSE>> \in Paths(b, FALSE)

\* Every loop that can repeat along a path without a yield is reported, whatever
\* the branches beside that path do: "Yields inside conditionals cover only the
\* paths that execute them" (starvation.go:15).  The code falls short of it:
\* loopMayRepeatWithoutYield and branchMayRepeatWithoutYield keep one flag for
\* all paths, and a branch that yields or leaves clears it for the path that
\* skips the branch.  [diagnoseStatements, loopMayRepeatWithoutYield]
YieldsOnEveryPath ==
  checked => \A b \in {body} \cup Loops(body) : Spins(b) => b \in diagnostics
=============================================================================
