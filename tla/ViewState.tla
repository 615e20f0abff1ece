----------------------------- MODULE ViewState ------------------------------
(***************************************************************************)
(* The facts of the compiler's stale-view analysis at one program point    *)
(* (src/compiler/checker/views_state.go).  A storage root is one allocated *)
(* List or String backing store; a view is a pointer, Slice or cursor into *)
(* it.                                                                     *)
(*                                                                         *)
(* A place is a binding and a path, <<b, path>>: << >> is the binding, a   *)
(* member is added by MemberPath and "[]" is any element of an inline      *)
(* List.  A root is written the same way; a path of a root may end in the  *)
(* site of an assignment (Sites) or be one of the special paths "#view"    *)
(* and "#fresh".  The code keeps a path as one string and compares strings *)
(* by prefix: the tokens of a path cut that string so that a path starts   *)
(* with another exactly when the strings do.  Spans, causes and the noun   *)
(* of a view only word the messages and are left out.                      *)
(***************************************************************************)
EXTENDS Naturals, Sequences, SequencesExt, FiniteSets, Functions

\* The next step of a walk, given what the one before it produced.
Then(x, Step(_)) == Step(x)

Sites == <<"@1", "@2", "@3", "@4", "@5", "@6", "@7", "@8">>
Special == {"#view", "#fresh"}
Fresh == <<"none", <<"#fresh">>>>          \* freshRoot
Incoming(b) == <<b, <<"#view">>>>          \* viewRootIncoming

Child(place, path) == <<place[1], place[2] \o path>>

\* What placeOfNode and evalObject add for a member, the string "." and its name:
\* that of "hh" goes on where that of "h" ends.
MemberPath(m) == IF m = "hh" THEN <<"h", "h">> ELSE <<m>>

\* relativeTo: does the path of place start with that of prefix, and how does it
\* go on?  A member whose name extends another's counts as below the other.
Below(place, prefix) == place[1] = prefix[1] /\ IsPrefix(prefix[2], place[2])
Relative(place, prefix) == SubSeq(place[2], Len(prefix[2]) + 1, Len(place[2]))

\* The tokens of a path before its first generation or special mark.
IsMark(token) == token \in Special \cup Range(Sites)
StripGeneration(path) ==
  LET marks == {i \in 1..Len(path) : IsMark(path[i])} IN
  IF marks = {} THEN path
  ELSE SubSeq(path, 1, (CHOOSE i \in marks : \A j \in marks : i <= j) - 1)

\* isSpecialPath
IsSpecialPath(path) ==
  \E i \in 1..Len(path) : path[i] \in Special /\ StripGeneration(path) = SubSeq(path, 1, i - 1)

-----------------------------------------------------------------------------
\* Facts: the roots a view may point into, and whether one has changed.
JoinFactsMeet(facts) ==  \* mutant: a view is stale if it is on every path
  [roots |-> UNION {f.roots : f \in facts}, stale |-> \A f \in facts : f.stale]

JoinFacts(facts) ==
  [roots |-> UNION {f.roots : f \in facts}, stale |-> \E f \in facts : f.stale]

Mark(fact, roots) ==
  [fact EXCEPT !.stale = @ \/ fact.roots \cap roots # {}]

NoTargets == [list |-> {}, unknown |-> FALSE]

JoinTargets(targets) ==
  [list |-> UNION {t.list : t \in targets}, unknown |-> \E t \in targets : t.unknown]

\* The places some state has an entry for, and the states that have one.
Over(states, field(_)) == UNION {DOMAIN field(s) : s \in states}
With(states, field(_), p) == {s \in states : p \in DOMAIN field(s)}

FactsOf(s) == s.facts
HandlesOf(s) == s.handles
AliasesOf(s) == s.aliases
FuncsOf(s) == s.funcs

NewState ==
  [facts |-> << >>, handles |-> << >>, aliases |-> << >>, funcs |-> << >>,
   inflight |-> << >>]

\* clone: a copy of the state, without the values in flight.
Clone(s) == [s EXCEPT !.inflight = << >>]

\* joinViewStates, of the states of the paths that continue: views union with
\* stale dominating, and a handle missing on one path also names its own root.
JoinStates(states) ==
  [facts |-> [p \in Over(states, FactsOf) |->
      JoinFacts({s.facts[p] : s \in With(states, FactsOf, p)})],
   handles |-> [p \in Over(states, HandlesOf) |->
      (UNION {s.handles[p] : s \in With(states, HandlesOf, p)})
        \cup {q \in {p} : With(states, HandlesOf, p) # states}],
   aliases |-> [p \in Over(states, AliasesOf) |->
      UNION {s.aliases[p] : s \in With(states, AliasesOf, p)}],
   funcs |-> [p \in Over(states, FuncsOf) |->
      JoinTargets({s.funcs[p] : s \in With(states, FuncsOf, p)})],
   inflight |-> << >>]

\* The places at or above a place that hold a copy of another.
Copies(s, place) == {p \in DOMAIN s.aliases : Below(place, p)}

\* resolveRoots, where it does not go on to the original of a copy: the storage it
\* was told, or else the place itself.
Told(s, place) == place \in DOMAIN s.handles \/ Copies(s, place) = {}
NamedRoots(s, place) == IF place \in DOMAIN s.handles THEN s.handles[place] ELSE {place}

\* clearPlace: forget every fact at or below a place.
Keep(f, place) == Restrict(f, {p \in DOMAIN f : ~Below(p, place)})
ClearPlace(s, place) ==
  [s EXCEPT !.facts = Keep(@, place), !.handles = Keep(@, place),
            !.aliases = Keep(@, place), !.funcs = Keep(@, place)]

\* invalidate, for the facts of a state; the values in flight are the
\* analyzer's to mark.
InvalidateFacts(s, roots) ==
  [s EXCEPT !.facts = [p \in DOMAIN @ |-> Mark(@[p], roots)]]

\* staleFact: is a stale view held at, above or below a place?
IsStale(s, place) ==
  \E p \in DOMAIN s.facts :
    s.facts[p].stale /\ (Below(p, place) \/ Below(place, p))
=============================================================================
