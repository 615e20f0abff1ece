--------------------------- MODULE HandleRegistry ---------------------------
(***************************************************************************)
(* The generation-checked handle registry every File, TCP, Process, Pipe   *)
(* and Signals capability resolves through                                 *)
(* (src/compiler/generator/packages/handle.c).                             *)
(*                                                                         *)
(* A slot's own mutex guards its lifecycle and the registry mutex guards   *)
(* the free list: each critical section is one action, and where an actor  *)
(* stands between two of them is part of the state.  An actor is one       *)
(* operation of a Task or of the event loop at a time.  A control block is *)
(* named by the handle it was published under.                             *)
(***************************************************************************)
EXTENDS Integers, FiniteSets, Sequences

CONSTANTS
  Actors,         \* the operations that may run at one time
  Slots,          \* the addresses of slots
  Kinds,          \* hex_handle_kind
  Chunks,         \* the chunks the allocator will return: sequences of slots
  MaxGeneration,  \* UINT64_MAX
  None            \* the null slot, handle or control block

Handles == [slot : Slots, generation : 0..MaxGeneration, kind : Kinds]

\* Chunks are never empty and never overlap.
ASSUME RegistryAssumption ==
  /\ IsFiniteSet(Actors)
  /\ MaxGeneration \in Nat
  /\ Chunks \in Seq(Seq(Slots))
  /\ \A c \in 1..Len(Chunks) : Len(Chunks[c]) > 0
  /\ \A c, d \in 1..Len(Chunks) :
       \A i \in 1..Len(Chunks[c]), j \in 1..Len(Chunks[d]) :
          Chunks[c][i] = Chunks[d][j] => c = d /\ i = j
  /\ None \notin Slots
  /\ None \notin Handles

VARIABLES
  generation,  \* slot -> generation
  kind,        \* slot -> kind
  state,       \* slot -> free, opening, live, closing or retired
  finish,      \* slot -> finish_requested
  inFlight,    \* slot -> in_flight
  control,     \* slot -> its control block
  free,        \* the free list, its head first
  grown,       \* hex_handle_chunk_count
  at,          \* actor -> its place in an operation
  slot,        \* actor -> the slot its operation is on
  mine,        \* actor -> the handle its operation is on
  held,        \* actor -> the control block pointer it keeps
  handles,     \* the handles the program ever got, stale copies included
  freed        \* the control blocks given back to the heap

slotVars == <<generation, kind, state, finish, inFlight, control>>
listVars == <<free, grown>>
vars == <<slotVars, listVars, at, slot, mine, held, handles, freed>>

TypeOK ==
  /\ generation \in [Slots -> 0..MaxGeneration]
  /\ kind \in [Slots -> Kinds]
  /\ state \in [Slots -> {"free", "opening", "live", "closing", "retired"}]
  /\ finish \in [Slots -> BOOLEAN]
  /\ inFlight \in [Slots -> Nat]
  /\ control \in [Slots -> Handles \cup {None}]
  /\ free \in Seq(Slots)
  /\ grown \in 0..Len(Chunks)
  /\ at \in [Actors -> {"idle", "reserved", "opening", "leased", "closing",
                        "recycle", "heap", "push"}]
  /\ slot \in [Actors -> Slots \cup {None}]
  /\ mine \in [Actors -> Handles \cup {None}]
  /\ held \in [Actors -> Handles \cup {None}]
  /\ handles \in SUBSET Handles
  /\ freed \in SUBSET Handles

Init ==
  /\ generation = [s \in Slots |-> 0]
  /\ \E k \in Kinds : kind = [s \in Slots |-> k]
  /\ state = [s \in Slots |-> "free"]
  /\ finish = [s \in Slots |-> FALSE]
  /\ inFlight = [s \in Slots |-> 0]
  /\ control = [s \in Slots |-> None]
  /\ free = << >>
  /\ grown = 0
  /\ at = [a \in Actors |-> "idle"]
  /\ slot = [a \in Actors |-> None]
  /\ mine = [a \in Actors |-> None]
  /\ held = [a \in Actors |-> None]
  /\ handles = {}
  /\ freed = {}

\* Actor a goes on to a place with a slot, a handle and a control block.
Step(a, place, s, h, c) ==
  /\ at' = [at EXCEPT ![a] = place]
  /\ slot' = [slot EXCEPT ![a] = s]
  /\ mine' = [mine EXCEPT ![a] = h]
  /\ held' = [held EXCEPT ![a] = c]

Done(a) == Step(a, "idle", None, None, None)

-----------------------------------------------------------------------------
\* hex_handle_reserve: pop the free list, or grow it by a chunk, under the
\* registry mutex; then open the slot under its own.  Without a free slot or
\* memory it changes nothing and returns the null handle.

\* The free list a new chunk leaves once its last slot is taken.
Linked(chunk) == [i \in 1..(Len(chunk) - 1) |-> chunk[Len(chunk) - i]]

ReservePop(a) ==
  /\ at[a] = "idle"
  /\ free # << >>
  /\ Step(a, "reserved", Head(free), None, None)
  /\ free' = Tail(free)
  /\ UNCHANGED <<slotVars, grown, handles, freed>>

ReserveGrow(a) ==
  /\ at[a] = "idle"
  /\ free = << >>
  /\ grown < Len(Chunks)
  /\ LET chunk == Chunks[grown + 1] IN
       /\ Step(a, "reserved", chunk[Len(chunk)], None, None)
       /\ free' = Linked(chunk)
  /\ grown' = grown + 1
  /\ UNCHANGED <<slotVars, handles, freed>>

ReserveOpen(a, k) ==
  LET s == slot[a] IN
  /\ at[a] = "reserved"
  /\ kind' = [kind EXCEPT ![s] = k]
  /\ state' = [state EXCEPT ![s] = "opening"]
  /\ finish' = [finish EXCEPT ![s] = FALSE]
  /\ inFlight' = [inFlight EXCEPT ![s] = 0]
  /\ control' = [control EXCEPT ![s] = None]
  /\ Step(a, "opening", s,
          [slot |-> s, generation |-> generation[s], kind |-> k], None)
  /\ UNCHANGED <<generation, listVars, handles, freed>>

\* hex_handle_publish: the program gets the handle and may copy it anywhere.
Publish(a) ==
  LET s == slot[a] IN
  /\ at[a] = "opening"
  /\ control' = [control EXCEPT ![s] = mine[a]]
  /\ state' = [state EXCEPT ![s] = "live"]
  /\ handles' = handles \cup {mine[a]}
  /\ Done(a)
  /\ UNCHANGED <<generation, kind, finish, inFlight, listVars, freed>>

\* hex_handle_abandon: the native resource failed to open.
Abandon(a) ==
  /\ at[a] = "opening"
  /\ Step(a, "recycle", slot[a], None, None)
  /\ UNCHANGED <<slotVars, listVars, handles, freed>>

-----------------------------------------------------------------------------
\* hex_handle_resolve and hex_handle_release; a failed resolve changes nothing.

\* The check resolve and close_begin make under the slot's mutex.
Current(h) ==
  /\ state[h.slot] = "live"
  /\ generation[h.slot] = h.generation
  /\ kind[h.slot] = h.kind

Resolve(a, h) ==
  /\ at[a] = "idle"
  /\ h \in handles
  /\ Current(h)
  /\ inFlight' = [inFlight EXCEPT ![h.slot] = @ + 1]
  /\ Step(a, "leased", h.slot, h, control[h.slot])
  /\ UNCHANGED <<generation, kind, state, finish, control, listVars, handles,
                 freed>>

\* After the unlock of a release or of close_finish: recycle, or return.
Settle(a, last) ==
  IF last THEN Step(a, "recycle", slot[a], None, None) ELSE Done(a)

\* Mutants of Release: it leaves recycling to close_finish; it recycles once the
\* slot is closing.
ReleaseForgets(a) ==
  LET s == slot[a] IN
  /\ at[a] = "leased"
  /\ inFlight' = [inFlight EXCEPT ![s] = @ - 1]
  /\ Done(a)
  /\ UNCHANGED <<generation, kind, state, finish, control, listVars, handles,
                 freed>>

ReleaseClosing(a) ==
  LET s == slot[a] IN
  /\ at[a] = "leased"
  /\ inFlight' = [inFlight EXCEPT ![s] = @ - 1]
  /\ Settle(a, state[s] = "closing" /\ inFlight'[s] = 0)
  /\ UNCHANGED <<generation, kind, state, finish, control, listVars, handles,
                 freed>>

\* The operation is over; its lease may be the one a close waits for.
Release(a) ==
  LET s == slot[a] IN
  /\ at[a] = "leased"
  /\ inFlight' = [inFlight EXCEPT ![s] = @ - 1]
  /\ Settle(a, finish[s] /\ inFlight'[s] = 0)
  /\ UNCHANGED <<generation, kind, state, finish, control, listVars, handles,
                 freed>>

-----------------------------------------------------------------------------
\* hex_handle_close_begin, the capability's native close (at "closing"), and
\* hex_handle_close_finish; a failed close_begin changes nothing.

CloseBegin(a, h) ==
  /\ at[a] = "idle"
  /\ h \in handles
  /\ Current(h)
  /\ state' = [state EXCEPT ![h.slot] = "closing"]
  /\ Step(a, "closing", h.slot, h, control[h.slot])
  /\ UNCHANGED <<generation, kind, finish, inFlight, control, listVars, handles,
                 freed>>

\* Mutant of CloseFinish: it does not wait for the leases.
CloseFinishAtOnce(a) ==
  LET s == slot[a] IN
  /\ at[a] = "closing"
  /\ finish' = [finish EXCEPT ![s] = TRUE]
  /\ Settle(a, TRUE)
  /\ UNCHANGED <<generation, kind, state, inFlight, control, listVars, handles,
                 freed>>

CloseFinish(a) ==
  LET s == slot[a] IN
  /\ at[a] = "closing"
  /\ finish' = [finish EXCEPT ![s] = TRUE]
  /\ Settle(a, inFlight[s] = 0)
  /\ UNCHANGED <<generation, kind, state, inFlight, control, listVars, handles,
                 freed>>

-----------------------------------------------------------------------------
\* hex_handle_recycle: under the slot's mutex, then the heap, then under the
\* registry mutex.  A slot whose generation would wrap is retired: the actor
\* has no slot to push.

\* Mutant of RecycleSlot: the generation wraps and the slot is reused.
RecycleSlotWraps(a) ==
  LET s == slot[a] IN
  /\ at[a] = "recycle"
  /\ control' = [control EXCEPT ![s] = None]
  /\ finish' = [finish EXCEPT ![s] = FALSE]
  /\ generation' = [generation EXCEPT ![s] = (@ + 1) % (MaxGeneration + 1)]
  /\ state' = [state EXCEPT ![s] = "free"]
  /\ Step(a, "heap", s, None, control[s])
  /\ UNCHANGED <<kind, inFlight, listVars, handles, freed>>

RecycleSlot(a) ==
  LET s == slot[a]
      retire == generation[s] = MaxGeneration IN
  /\ at[a] = "recycle"
  /\ control' = [control EXCEPT ![s] = None]
  /\ finish' = [finish EXCEPT ![s] = FALSE]
  /\ generation' = IF retire THEN generation
                   ELSE [generation EXCEPT ![s] = @ + 1]
  /\ state' = [state EXCEPT ![s] = IF retire THEN "retired" ELSE "free"]
  /\ Step(a, "heap", IF retire THEN None ELSE s, None, control[s])
  /\ UNCHANGED <<kind, inFlight, listVars, handles, freed>>

RecycleHeap(a) ==
  /\ at[a] = "heap"
  /\ freed' = freed \cup ({held[a]} \ {None})
  /\ IF slot[a] = None THEN Done(a) ELSE Step(a, "push", slot[a], None, None)
  /\ UNCHANGED <<slotVars, listVars, handles>>

RecyclePush(a) ==
  /\ at[a] = "push"
  /\ free' = <<slot[a]>> \o free
  /\ Done(a)
  /\ UNCHANGED <<slotVars, grown, handles, freed>>

-----------------------------------------------------------------------------
Advance(a) ==
  \/ \E k \in Kinds : ReserveOpen(a, k)
  \/ Publish(a) \/ Abandon(a) \/ Release(a) \/ CloseFinish(a)
  \/ RecycleSlot(a) \/ RecycleHeap(a) \/ RecyclePush(a)

Next ==
  \E a \in Actors :
    \/ ReservePop(a) \/ ReserveGrow(a) \/ Advance(a)
    \/ \E h \in handles : Resolve(a, h) \/ CloseBegin(a, h)

Spec == Init /\ [][Next]_vars

\* What lies between two critical sections of the registry goes on.  An operation
\* may keep its lease for ever and a native close may never return: a pipe's close
\* ends no read (ProcessSignal).
Fairness ==
  \A a \in Actors : WF_vars(Advance(a) /\ at[a] \in {"reserved", "recycle", "heap", "push"})

FairSpec == Spec /\ Fairness

-----------------------------------------------------------------------------
\* Safety.

\* A lease, and a close, keep a control block that is still allocated and that
\* is the one their handle was published with: no stale handle reaches the
\* control block of a later use of the slot.  [hex_handle_resolve, _release]
LeasePinned ==
  \A a \in Actors : at[a] \in {"leased", "closing"} =>
    /\ held[a] = mine[a]
    /\ held[a] \notin freed
    /\ \A b \in Actors : at[b] = "heap" => held[b] # held[a]

\* A slot has one place: the free list once, or one actor that reserves or
\* recycles it, or a live or closing capability; and a slot that was ever
\* allocated has one until its generations run out.
\* [hex_handle_reserve, hex_handle_recycle]
InUse(s) ==
  \/ state[s] = "live"
  \/ \E a \in Actors : slot[a] = s /\ at[a] \in {"leased", "closing"}

Owners(s) ==
  {<<"list", i>> : i \in {j \in 1..Len(free) : free[j] = s}}
    \cup {<<"actor", a>> : a \in {b \in Actors : /\ slot[b] = s
                                                /\ at[b] \notin {"leased", "closing"}}}
    \cup IF InUse(s) THEN {<<"program", s>>} ELSE {}

Allocated ==
  UNION {{Chunks[c][i] : i \in 1..Len(Chunks[c])} : c \in 1..grown}

OneOwner ==
  /\ \A s \in Slots : \A p, q \in Owners(s) : p = q
  /\ \A s \in Allocated : Owners(s) # {} \/ state[s] = "retired"

\* Nothing is given away while it is in use, no slot twice, and none is lost.
\* [hex_handle_resolve, _release, _reserve, _close_finish, _recycle]
NothingAstray == LeasePinned /\ OneOwner

\* Once a handle stops being current it is stale for ever, however often its slot
\* is used again.  [hex_handle_close_begin: "invalidates every public copy at this
\* call"; hex_handle_recycle: "reuse always increments the generation before the
\* next publish can expose it"]
StaysClosed ==
  [][\A h \in handles : ~Current(h) => ~Current(h)']_vars

\* Whatever order the close and the last operations end in, a closed capability
\* that none of them holds any more has its control block freed, and a slot that
\* is being recycled comes back to the free list or is retired.
\* [hex_handle_close_finish: "recycles or retires the slot once every lease
\* resolved before the closing transition has released"]
Held(h) == \E a \in Actors : at[a] \in {"leased", "closing"} /\ mine[a] = h

CloseEnds ==
  /\ \A h \in Handles : (h \in handles /\ ~Current(h) /\ ~Held(h)) ~> h \in freed
  /\ \A s \in Slots : (\E a \in Actors : at[a] = "recycle" /\ slot[a] = s) ~>
       (state[s] = "retired" \/ \E i \in 1..Len(free) : free[i] = s)

-----------------------------------------------------------------------------
\* Refinement: slots and generations implement one capability per handle.

Status(h) ==
  IF h \notin handles THEN "unused"
  ELSE IF h \in freed THEN "freed"
  ELSE IF Current(h) THEN "open" ELSE "closing"

Promise == INSTANCE Capability WITH
  status <- [h \in Handles |-> Status(h)],
  users <- [h \in Handles |->
              {a \in Actors : at[a] \in {"leased", "closing"} /\ mine[a] = h}]

\* Every step of the registry is a step of the promised capabilities, and a
\* closed one is freed once its operations are over.  [handle.h]
ImplementsCapability == Promise!FairSpec

=============================================================================
