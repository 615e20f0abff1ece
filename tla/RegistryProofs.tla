--------------------------- MODULE RegistryProofs ---------------------------
(***************************************************************************)
(* Theorems about HandleRegistry for any number of operations, slots and   *)
(* chunks and any last generation: nothing is given away while it is in    *)
(* use, no slot is lost or in two places, a stale handle stays stale, and  *)
(* every step is one of the capabilities that Capability promises.         *)
(***************************************************************************)
EXTENDS HandleRegistry, FiniteSetTheorems, TLAPS

\* The handle that the current use of a slot has or will have.
Name(s) == [slot |-> s, generation |-> generation[s], kind |-> kind[s]]

Leases(s) == {a \in Actors : at[a] = "leased" /\ slot[a] = s}

OnList(s) == \E i \in 1..Len(free) : free[i] = s

\* A handle whose use of the slot is over for good.
Gone(h) == h.generation < generation[h.slot] \/ state[h.slot] = "retired"

\* What an actor's place says of it and of its slot.
Placed(a) ==
  /\ at[a] = "idle" => slot[a] = None
  /\ at[a] \notin {"idle", "heap"} => slot[a] \in Slots
  /\ at[a] = "reserved" => state[slot[a]] = "free"
  /\ at[a] = "opening" => state[slot[a]] = "opening" /\ mine[a] = Name(slot[a])
  /\ at[a] \in {"leased", "closing"} =>
       /\ state[slot[a]] \in {"live", "closing"}
       /\ mine[a] = Name(slot[a]) /\ held[a] = mine[a]
  /\ at[a] = "closing" => state[slot[a]] = "closing" /\ ~finish[slot[a]]
  /\ at[a] = "recycle" => \/ state[slot[a]] = "opening"
                          \/ state[slot[a]] = "closing" /\ finish[slot[a]]
  /\ at[a] = "heap" => slot[a] = None \/ state[slot[a]] = "free"
  /\ at[a] = "push" => state[slot[a]] = "free"

IPlace == \A a \in Actors : Placed(a)

\* What a slot's state says of its other fields.
ISlot ==
  \A s \in Slots :
    /\ state[s] \in {"live", "closing"} => control[s] = Name(s) /\ Name(s) \in handles
    /\ state[s] \notin {"live", "closing"} => control[s] = None
    /\ state[s] # "closing" => ~finish[s]
    /\ state[s] = "closing" /\ ~finish[s] =>
         \E a \in Actors : at[a] = "closing" /\ slot[a] = s

\* in_flight counts the leases.
ICount == \A s \in Slots : inFlight[s] = Cardinality(Leases(s))

\* Only leases and one close may be on a slot together.
IAlone ==
  \A a, b \in Actors : a # b /\ slot[a] = slot[b] /\ slot[a] # None =>
    /\ at[a] \in {"leased", "closing"} /\ at[b] \in {"leased", "closing"}
    /\ at[a] = "leased" \/ at[b] = "leased"

\* A slot is on the free list once, and then nowhere else.
IList ==
  /\ \A i, j \in 1..Len(free) : free[i] = free[j] => i = j
  /\ \A i \in 1..Len(free) :
       /\ state[free[i]] = "free" /\ free[i] \in Allocated
       /\ \A a \in Actors : slot[a] # free[i]

IAllocated ==
  /\ \A a \in Actors : slot[a] # None => slot[a] \in Allocated
  /\ \A s \in Slots : state[s] # "free" => s \in Allocated

\* An allocated slot is somewhere.
INotLost ==
  \A s \in Allocated :
    OnList(s) \/ state[s] \in {"live", "retired"} \/ \E a \in Actors : slot[a] = s

\* A handle is of a use that is over, or of the current one.
INames ==
  \A h \in handles :
    Gone(h) \/ (state[h.slot] \in {"live", "closing"} /\ h = Name(h.slot))

\* What is freed or about to be was handed out, and its use is over; nobody
\* else is about to free it.
IFreed ==
  /\ \A h \in freed : h \in handles /\ Gone(h)
  /\ \A a \in Actors : at[a] = "heap" /\ held[a] # None =>
       /\ held[a] \in handles /\ held[a] \notin freed /\ Gone(held[a])
       /\ \A b \in Actors : at[b] = "heap" /\ held[b] = held[a] => b = a

IInv ==
  /\ TypeOK /\ IPlace /\ ISlot /\ ICount /\ IAlone /\ IList /\ IAllocated
  /\ INotLost /\ INames /\ IFreed

Places == {"idle", "reserved", "opening", "leased", "closing", "recycle", "heap", "push"}

\* A step of actor a alone, field by field.
Moves(a, p, s, h, c) ==
  /\ at' \in [Actors -> Places] /\ slot' \in [Actors -> Slots \cup {None}]
  /\ mine' \in [Actors -> Handles \cup {None}]
  /\ held' \in [Actors -> Handles \cup {None}]
  /\ at'[a] = p /\ slot'[a] = s /\ mine'[a] = h /\ held'[a] = c
  /\ \A b \in Actors : b # a =>
       /\ at'[b] = at[b] /\ slot'[b] = slot[b]
       /\ mine'[b] = mine[b] /\ held'[b] = held[b]

\* Nothing changes of the slots but s.
OnlySlot(s) ==
  \A r \in Slots : r # s =>
    /\ generation'[r] = generation[r] /\ kind'[r] = kind[r] /\ state'[r] = state[r]
    /\ finish'[r] = finish[r] /\ inFlight'[r] = inFlight[r]
    /\ control'[r] = control[r]

SlotType ==
  /\ generation \in [Slots -> 0..MaxGeneration]
  /\ kind \in [Slots -> Kinds]
  /\ state \in [Slots -> {"free", "opening", "live", "closing", "retired"}]
  /\ finish \in [Slots -> BOOLEAN]
  /\ inFlight \in [Slots -> Nat]
  /\ control \in [Slots -> Handles \cup {None}]

\* What the bookkeeping of an operation does to the Actors.
LEMMA StepMoves ==
  ASSUME TypeOK, NEW a \in Actors, NEW p \in Places, NEW s \in Slots \cup {None},
         NEW h \in Handles \cup {None}, NEW c \in Handles \cup {None},
         Step(a, p, s, h, c)
  PROVE  Moves(a, p, s, h, c)
<1>1. /\ at \in [Actors -> Places] /\ slot \in [Actors -> Slots \cup {None}]
      /\ mine \in [Actors -> Handles \cup {None}]
      /\ held \in [Actors -> Handles \cup {None}]
  BY DEF TypeOK, Places
<1> QED
  BY <1>1 DEF Step, Moves

\* The slots that the allocated chunks hold, one by one.
LEMMA AllocatedFacts ==
  ASSUME TypeOK
  PROVE  /\ Allocated \subseteq Slots
         /\ \A s : s \in Allocated <=>
              \E c \in 1..grown : \E i \in 1..Len(Chunks[c]) : s = Chunks[c][i]
         /\ \A c \in 1..grown : c \in 1..Len(Chunks) /\ Chunks[c] \in Seq(Slots)
<1>1. /\ Chunks \in Seq(Seq(Slots)) /\ grown \in 0..Len(Chunks)
      /\ Len(Chunks) \in Nat
  BY RegistryAssumption DEF TypeOK
<1>2. \A c \in 1..grown : c \in 1..Len(Chunks) /\ Chunks[c] \in Seq(Slots)
  BY <1>1
<1>3. \A s : s \in Allocated <=>
        \E c \in 1..grown : \E i \in 1..Len(Chunks[c]) : s = Chunks[c][i]
  BY DEF Allocated
<1>4. Allocated \subseteq Slots
  BY <1>2, <1>3
<1> QED
  BY <1>2, <1>3, <1>4

\* The leases of a slot can be counted.
LEMMA LeaseFacts ==
  ASSUME NEW s
  PROVE  IsFiniteSet(Leases(s)) /\ Cardinality(Leases(s)) \in Nat
         /\ (Cardinality(Leases(s)) = 0 <=> Leases(s) = {})
<1>1. Leases(s) \in SUBSET Actors /\ IsFiniteSet(Actors)
  BY RegistryAssumption DEF Leases
<1>2. IsFiniteSet(Leases(s))
  BY <1>1, FS_Subset
<1> QED
  BY <1>2, FS_CardinalityType, FS_EmptySet

\* A step that neither begins nor ends a lease.
LEMMA LeasesStay ==
  ASSUME NEW a \in Actors, NEW p, NEW s, NEW h, NEW c, Moves(a, p, s, h, c),
         at[a] # "leased", p # "leased"
  PROVE  \A r : Leases(r)' = Leases(r)
<1>1. \A b \in Actors : \A r : (at'[b] = "leased" /\ slot'[b] = r) <=> (at[b] = "leased" /\ slot[b] = r)
  BY DEF Moves
<1> QED
  BY <1>1 DEF Leases

\* The handle of a slot's use, and the parts of any handle.
LEMMA NameFacts ==
  ASSUME SlotType, NEW s \in Slots
  PROVE  /\ Name(s) \in Handles /\ Name(s).slot = s
         /\ Name(s).generation = generation[s] /\ Name(s).kind = kind[s]
<1> QED
  BY DEF SlotType, Name, Handles

LEMMA HandleFacts ==
  ASSUME NEW h \in Handles
  PROVE  h.slot \in Slots /\ h.generation \in 0..MaxGeneration /\ h.kind \in Kinds
<1> QED
  BY DEF Handles

LEMMA TypeFacts == TypeOK => SlotType
<1> QED
  BY DEF TypeOK, SlotType

\* An actor that neither leases nor closes has its slot to itself.
LEMMA SoleActor ==
  ASSUME IAlone, NEW a \in Actors, slot[a] # None, at[a] \notin {"leased", "closing"}
  PROVE  \A b \in Actors : slot[b] = slot[a] => b = a
<1> QED
  BY DEF IAlone

\* A current handle names the use its slot is in, and only leases are on it.
LEMMA CurrentFacts ==
  ASSUME IInv, NEW h \in handles, Current(h)
  PROVE  /\ h \in Handles /\ h.slot \in Slots /\ state[h.slot] = "live"
         /\ h = Name(h.slot) /\ control[h.slot] = h /\ ~finish[h.slot]
         /\ h.slot # None /\ h.slot \in Allocated
         /\ \A b \in Actors : slot[b] = h.slot => at[b] = "leased"
<1>1. h \in Handles /\ h.slot \in Slots /\ h.slot # None /\ state[h.slot] = "live"
  BY HandleFacts, RegistryAssumption DEF IInv, TypeOK, Current
<1>2. h = Name(h.slot)
  <2>1. ~Gone(h)
    BY <1>1, HandleFacts DEF IInv, Gone, Current, TypeOK
  <2> QED
    BY <2>1 DEF IInv, INames
<1>3. control[h.slot] = h /\ ~finish[h.slot] /\ h.slot \in Allocated
  BY <1>1, <1>2 DEF IInv, ISlot, IAllocated
<1>4. ASSUME NEW b \in Actors, slot[b] = h.slot  PROVE at[b] = "leased"
  <2>1. at[b] \in Places
    BY DEF IInv, TypeOK, Places
  <2> QED
    BY <1>1, <1>4, <2>1 DEF IInv, IPlace, Placed, Places
<1> QED
  BY <1>1, <1>2, <1>3, <1>4

Same(r) ==
  /\ generation'[r] = generation[r] /\ kind'[r] = kind[r] /\ state'[r] = state[r]
  /\ finish'[r] = finish[r]

\* A step of one actor leaves the others placed when it changes no slot of theirs.
LEMMA PlacedStay ==
  ASSUME IPlace, NEW a \in Actors, NEW p, NEW s, NEW h, NEW c, Moves(a, p, s, h, c),
         Placed(a)',
         \A b \in Actors : b # a => slot[b] = None \/ Same(slot[b]) \/ Placed(b)'
  PROVE  IPlace'
<1> SUFFICES ASSUME NEW b \in Actors, b # a  PROVE Placed(b)'
  BY DEF IPlace
<1>1. at'[b] = at[b] /\ slot'[b] = slot[b] /\ mine'[b] = mine[b] /\ held'[b] = held[b]
  BY DEF Moves
<1>2. Placed(b)
  BY DEF IPlace
<1>3. CASE slot[b] = None
  BY <1>1, <1>2, <1>3, RegistryAssumption DEF Placed
<1>4. CASE Same(slot[b])
  BY <1>1, <1>2, <1>4 DEF Placed, Same, Name
<1> QED
  BY <1>3, <1>4

\* hex_handle_reserve: a slot from the free list, or from a new chunk; it opens.
LEMMA ReservePopKeeps ==
  ASSUME IInv, NEW a \in Actors, ReservePop(a)
  PROVE  IInv'
<1> USE DEF IInv
<1>1. /\ at[a] = "idle" /\ free # << >> /\ free' = Tail(free)
      /\ Step(a, "reserved", Head(free), None, None)
  BY DEF ReservePop
<1>2. /\ Head(free) = free[1] /\ Head(free) \in Slots
      /\ Len(free) \in Nat /\ Len(free) > 0 /\ 1 \in 1..Len(free)
      /\ free' \in Seq(Slots) /\ Len(free') = Len(free) - 1
      /\ \A i \in 1..Len(free') : free'[i] = free[i + 1] /\ i + 1 \in 1..Len(free)
  BY <1>1 DEF TypeOK
<1>3. Moves(a, "reserved", Head(free), None, None)
  BY <1>1, <1>2, StepMoves DEF Places
<1>4. /\ generation' = generation /\ kind' = kind /\ state' = state /\ finish' = finish
      /\ inFlight' = inFlight /\ control' = control
      /\ grown' = grown /\ handles' = handles /\ freed' = freed
  BY DEF ReservePop, slotVars
<1>5. Allocated' = Allocated
  BY <1>4 DEF Allocated
<1>6. /\ Head(free) \in Allocated /\ state[Head(free)] = "free"
      /\ \A b \in Actors : slot[b] # Head(free)
      /\ Head(free) # None
  BY <1>2, RegistryAssumption DEF IList
<1>7. \A i \in 1..Len(free') : free'[i] # Head(free)
  BY <1>2 DEF IList
<1>8. TypeOK'
  BY <1>2, <1>3, <1>4 DEF Moves, Places, TypeOK
<1>9. IPlace'
  <2>1. Placed(a)'
    BY <1>1, <1>2, <1>3, <1>4, <1>6 DEF Moves, Placed, Name
  <2>2. \A b \in Actors : b # a => slot[b] = None \/ Same(slot[b])
    BY <1>4 DEF Same, OnlySlot, IPlace, Placed, TypeOK
  <2> QED
    BY <1>3, <2>1, <2>2, PlacedStay
<1>10. ISlot'
  BY <1>1, <1>2, <1>3, <1>4 DEF Moves, ISlot, Name
<1>11. ICount'
  <2>1. \A r : Leases(r)' = Leases(r)
    BY <1>1, <1>3, LeasesStay
  <2> QED
    BY <1>4, <2>1 DEF ICount
<1>12. IAlone'
  BY <1>3, <1>6 DEF Moves, IAlone
<1>13. IList'
  BY <1>1, <1>2, <1>3, <1>4, <1>5, <1>6, <1>7 DEF Moves, Places, OnlySlot, IList
<1>14. IAllocated'
  BY <1>3, <1>4, <1>5, <1>6 DEF Moves, IAllocated
<1>15. INotLost'
  <2> SUFFICES ASSUME NEW s \in Allocated
               PROVE  OnList(s)' \/ state'[s] \in {"live", "retired"}
                      \/ \E b \in Actors : slot'[b] = s
    BY <1>5 DEF INotLost
  <2>1. CASE OnList(s)
    <3>1. PICK i \in 1..Len(free) : free[i] = s
      BY <2>1 DEF OnList
    <3>2. CASE i = 1
      BY <3>1, <3>2, <1>2, <1>3 DEF Moves
    <3>3. CASE i # 1
      <4>1. i - 1 \in 1..Len(free') /\ free'[i - 1] = s
        BY <3>1, <3>3, <1>2
      <4> QED
        BY <4>1 DEF OnList
    <3> QED
      BY <3>2, <3>3
  <2>2. CASE state[s] \in {"live", "retired"}
    BY <2>2, <1>4
  <2>3. CASE \E b \in Actors : slot[b] = s
    <3>1. PICK b \in Actors : slot[b] = s
      BY <2>3
    <3>2. s # None /\ slot[a] = None
      BY <1>1, AllocatedFacts, RegistryAssumption DEF IPlace, Placed
    <3> QED
      BY <3>1, <3>2, <1>3 DEF Moves
  <2> QED
    BY <2>1, <2>2, <2>3 DEF INotLost
<1>16. INames'
  BY <1>4 DEF INames, Gone, Name
<1>17. IFreed'
  BY <1>3, <1>4 DEF Moves, IFreed, Gone
<1> QED
  BY <1>8, <1>9, <1>10, <1>11, <1>12, <1>13, <1>14, <1>15, <1>16, <1>17

LEMMA ReserveGrowKeeps ==
  ASSUME IInv, NEW a \in Actors, ReserveGrow(a)
  PROVE  IInv'
<1> USE DEF IInv
<1> DEFINE chunk == Chunks[grown + 1]
           n == Len(chunk)
<1>1. /\ at[a] = "idle" /\ free = << >> /\ grown < Len(Chunks)
      /\ Step(a, "reserved", chunk[n], None, None)
      /\ free' = Linked(chunk) /\ grown' = grown + 1
  BY DEF ReserveGrow
<1>2. /\ grown + 1 \in 1..Len(Chunks) /\ chunk \in Seq(Slots) /\ n \in Nat /\ n > 0
      /\ grown \in Nat /\ n \in 1..n
  BY <1>1, RegistryAssumption DEF TypeOK
<1>3. /\ \A i \in 1..n : chunk[i] \in Slots
      /\ \A i, j \in 1..n : chunk[i] = chunk[j] => i = j
  BY <1>2, RegistryAssumption
<1>4. Moves(a, "reserved", chunk[n], None, None)
  <2>1. chunk[n] \in Slots
    BY <1>2, <1>3
  <2> QED
    BY <1>1, <2>1, StepMoves DEF Places
<1>5. /\ free' \in Seq(Slots) /\ Len(free') = n - 1
      /\ \A i \in 1..Len(free') : free'[i] = chunk[n - i] /\ n - i \in 1..n /\ n - i # n
  <2>1. \A i \in 1..(n - 1) : n - i \in 1..n /\ n - i # n
    BY <1>2
  <2>2. free' = [i \in 1..(n - 1) |-> chunk[n - i]]
    BY <1>1 DEF Linked
  <2>3. n - 1 \in Nat
    BY <1>2
  <2>4. \A i \in 1..(n - 1) : chunk[n - i] \in Slots
    BY <2>1, <1>3
  <2>5. free' \in Seq(Slots) /\ Len(free') = n - 1
    BY <2>2, <2>3, <2>4
  <2> QED
    BY <2>1, <2>2, <2>5
<1>6. \A s : s \in Allocated' <=> s \in Allocated \/ \E i \in 1..n : s = chunk[i]
  <2>1. \A s : s \in Allocated' <=>
          \E c \in 1..grown' : \E i \in 1..Len(Chunks[c]) : s = Chunks[c][i]
    BY DEF Allocated
  <2>2. \A c : c \in 1..grown' <=> (c \in 1..grown \/ c = grown + 1)
    BY <1>1, <1>2
  <2> QED
    BY <2>1, <2>2, AllocatedFacts
<1>7. \A i \in 1..n : chunk[i] \notin Allocated
  <2>1. SUFFICES ASSUME NEW i \in 1..n, chunk[i] \in Allocated  PROVE FALSE
    OBVIOUS
  <2>2. PICK c \in 1..grown : \E j \in 1..Len(Chunks[c]) : chunk[i] = Chunks[c][j]
    BY <2>1, AllocatedFacts
  <2>3. c \in 1..Len(Chunks) /\ c # grown + 1
    BY <1>1, <1>2, AllocatedFacts
  <2> QED
    BY <2>1, <2>2, <2>3, <1>2, RegistryAssumption
<1>8. \A i \in 1..n : /\ state[chunk[i]] = "free" /\ chunk[i] # None
                      /\ \A b \in Actors : slot[b] # chunk[i]
  BY <1>3, <1>7, RegistryAssumption DEF IAllocated
<1>9. /\ generation' = generation /\ kind' = kind /\ state' = state /\ finish' = finish
      /\ inFlight' = inFlight /\ control' = control
      /\ handles' = handles /\ freed' = freed
  BY DEF ReserveGrow, slotVars
<1> HIDE DEF chunk, n
<1>10. TypeOK'
  <2>1. grown' \in 0..Len(Chunks)
    BY <1>1, <1>2, RegistryAssumption
  <2> QED
    BY <1>4, <1>5, <1>9, <2>1 DEF TypeOK, Moves, Places
<1>11. IPlace'
  <2>1. Placed(a)'
    BY <1>2, <1>3, <1>4, <1>8, <1>9 DEF Moves, Placed, Name
  <2>2. \A b \in Actors : b # a => slot[b] = None \/ Same(slot[b])
    BY <1>9 DEF Same, OnlySlot, IPlace, Placed, TypeOK
  <2> QED
    BY <1>4, <2>1, <2>2, PlacedStay
<1>12. ISlot'
  BY <1>1, <1>4, <1>9 DEF ISlot, Moves, Name
<1>13. ICount'
  <2>1. \A r : Leases(r)' = Leases(r)
    BY <1>1, <1>4, LeasesStay
  <2> QED
    BY <1>9, <2>1 DEF ICount
<1>14. IAlone'
  BY <1>2, <1>4, <1>8 DEF Moves, Places, IAlone
<1>15. IList'
  <2>1. \A i, j \in 1..Len(free') : free'[i] = free'[j] => i = j
    <3> SUFFICES ASSUME NEW i \in 1..Len(free'), NEW j \in 1..Len(free'), free'[i] = free'[j]
                 PROVE  i = j
      OBVIOUS
    <3>1. n - i = n - j
      BY <1>3, <1>5
    <3> QED
      BY <3>1, <1>2, <1>5
  <2>2. ASSUME NEW i \in 1..Len(free')
        PROVE  /\ state'[free'[i]] = "free" /\ free'[i] \in Allocated'
               /\ \A b \in Actors : slot'[b] # free'[i]
    <3>1. /\ free'[i] = chunk[n - i] /\ n - i \in 1..n /\ chunk[n - i] # chunk[n]
      BY <1>2, <1>3, <1>5
    <3> QED
      BY <3>1, <1>4, <1>6, <1>8, <1>9 DEF Moves
  <2> QED
    BY <2>1, <2>2 DEF IList
<1>16. IAllocated'
  BY <1>2, <1>4, <1>6, <1>9 DEF Moves, IAllocated
<1>17. INotLost'
  <2> SUFFICES ASSUME NEW s \in Allocated'
               PROVE  OnList(s)' \/ state'[s] \in {"live", "retired"}
                      \/ \E b \in Actors : slot'[b] = s
    BY DEF INotLost
  <2>1. CASE s \in Allocated
    <3>1. s # None /\ slot[a] = None /\ ~OnList(s)
      BY <2>1, <1>1, AllocatedFacts, RegistryAssumption DEF IPlace, Placed, OnList
    <3> QED
      BY <2>1, <3>1, <1>4, <1>9 DEF Moves, INotLost
  <2>2. CASE \E i \in 1..n : s = chunk[i]
    <3>1. PICK i \in 1..n : s = chunk[i]
      BY <2>2
    <3>2. CASE i = n
      BY <3>1, <3>2, <1>4 DEF Moves
    <3>3. CASE i # n
      <4>1. n - i \in 1..Len(free') /\ n - (n - i) = i
        BY <3>3, <1>2, <1>5
      <4>2. free'[n - i] = s
        BY <4>1, <1>5, <3>1
      <4> QED
        BY <4>1, <4>2 DEF OnList
    <3> QED
      BY <3>2, <3>3
  <2> QED
    BY <2>1, <2>2, <1>6
<1>18. INames'
  BY <1>9 DEF INames, Gone, Name
<1>19. IFreed'
  BY <1>1, <1>4, <1>9 DEF Moves, IFreed, Gone
<1> QED
  BY <1>10, <1>11, <1>12, <1>13, <1>14, <1>15, <1>16, <1>17, <1>18,
     <1>19

LEMMA ReserveOpenKeeps ==
  ASSUME IInv, NEW a \in Actors, NEW k \in Kinds, ReserveOpen(a, k)
  PROVE  IInv'
<1> USE DEF IInv
<1>1. PICK s \in Slots : /\ s = slot[a] /\ s # None /\ at[a] = "reserved"
                         /\ state[s] = "free"
  BY RegistryAssumption DEF ReserveOpen, IPlace, Placed
<1>2. PICK h \in Handles : /\ h.slot = s /\ h.generation = generation[s] /\ h.kind = k
                           /\ h = [slot |-> s, generation |-> generation[s], kind |-> k]
  BY <1>1 DEF TypeOK, Handles
<1>3. Moves(a, "opening", s, h, None)
  <2>1. Step(a, "opening", s, h, None)
    BY <1>1, <1>2 DEF ReserveOpen
  <2> QED
    BY <1>1, <1>2, <2>1, StepMoves DEF Places
<1>4. /\ OnlySlot(s) /\ generation' = generation /\ kind'[s] = k /\ state'[s] = "opening"
      /\ finish'[s] = FALSE /\ inFlight'[s] = 0 /\ control'[s] = None
      /\ kind' \in [Slots -> Kinds] /\ finish' \in [Slots -> BOOLEAN]
      /\ state' \in [Slots -> {"free", "opening", "live", "closing", "retired"}]
      /\ inFlight' \in [Slots -> Nat] /\ control' \in [Slots -> Handles \cup {None}]
  BY <1>1 DEF ReserveOpen, OnlySlot, TypeOK
<1>5. /\ free' = free /\ grown' = grown /\ handles' = handles /\ freed' = freed
  BY DEF ReserveOpen, listVars
<1>6. Allocated' = Allocated
  BY <1>5 DEF Allocated
<1>7. \A b \in Actors : slot[b] = s => b = a
  BY <1>1, SoleActor
<1>8. /\ \A r \in Slots : r # s => Name(r)' = Name(r)
      /\ Name(s)' = h
  BY <1>1, <1>2, <1>4 DEF OnlySlot, Name
<1>9. \A h1 \in handles : h1 \in Handles /\ h1.slot \in Slots
  BY HandleFacts DEF TypeOK
<1>10. TypeOK'
  BY <1>3, <1>4, <1>5 DEF Moves, Places, TypeOK
<1>11. IPlace'
  <2>1. Placed(a)'
    BY <1>1, <1>2, <1>3, <1>4 DEF Moves, Placed, Name
  <2>2. \A b \in Actors : b # a => slot[b] = None \/ Same(slot[b])
    BY <1>1, <1>4, <1>7 DEF Same, OnlySlot, IPlace, Placed, TypeOK
  <2> QED
    BY <1>3, <2>1, <2>2, PlacedStay
<1>12. ISlot'
  BY <1>1, <1>3, <1>4, <1>5, <1>8 DEF Moves, OnlySlot, ISlot
<1>13. ICount'
  <2>1. \A r : Leases(r)' = Leases(r)
    BY <1>1, <1>3, LeasesStay
  <2>2. Leases(s) = {}
    BY <1>1, <1>7 DEF Leases
  <2>3. Cardinality(Leases(s)) = 0
    BY <2>2, FS_EmptySet
  <2> QED
    BY <2>1, <2>3, <1>4 DEF ICount, OnlySlot
<1>14. IAlone'
  BY <1>3, <1>7 DEF Moves, IAlone
<1>15. IList'
  BY <1>1, <1>3, <1>4, <1>5, <1>6, SMTT(60) DEF Moves, OnlySlot, IList, TypeOK
<1>16. IAllocated'
  BY <1>1, <1>3, <1>4, <1>6 DEF IAllocated, Moves, OnlySlot
<1>17. INotLost'
  <2> SUFFICES ASSUME NEW r \in Allocated
               PROVE  OnList(r)' \/ state'[r] \in {"live", "retired"}
                      \/ \E b \in Actors : slot'[b] = r
    BY <1>6 DEF INotLost
  <2>1. r \in Slots
    BY AllocatedFacts
  <2>2. OnList(r) \/ state[r] \in {"live", "retired"} \/ \E b \in Actors : slot[b] = r
    BY DEF INotLost
  <2>3. OnList(r) => OnList(r)'
    BY <1>1, <1>3, <1>4, <1>5 DEF OnList
  <2> QED
    BY <2>1, <2>2, <2>3, <1>1, <1>3, <1>4, <1>5 DEF Moves, OnlySlot
<1>18. INames'
  BY <1>1, <1>4, <1>5, <1>8, <1>9 DEF OnlySlot, INames, Gone
<1>19. IFreed'
  BY <1>1, <1>3, <1>4, <1>5, <1>9 DEF Moves, OnlySlot, IFreed, Gone
<1> QED
  BY <1>10, <1>11, <1>12, <1>13, <1>14, <1>15, <1>16, <1>17, <1>18,
     <1>19

\* hex_handle_publish, hex_handle_abandon.
LEMMA PublishKeeps ==
  ASSUME IInv, NEW a \in Actors, Publish(a)
  PROVE  IInv'
<1> USE DEF IInv
<1>1. PICK s \in Slots : /\ s = slot[a] /\ s # None /\ at[a] = "opening"
                         /\ state[s] = "opening" /\ mine[a] = Name(s) /\ ~finish[s]
  BY RegistryAssumption DEF Publish, IPlace, Placed, ISlot
<1>2. Name(s) \in Handles /\ Name(s).slot = s
  BY <1>1, TypeFacts, NameFacts
<1>3. Moves(a, "idle", None, None, None)
  <2>1. Step(a, "idle", None, None, None)
    BY DEF Publish, Done
  <2> QED
    BY <2>1, StepMoves DEF Places
<1>4. /\ OnlySlot(s) /\ generation' = generation /\ kind' = kind /\ finish' = finish
      /\ inFlight' = inFlight /\ state'[s] = "live" /\ control'[s] = Name(s)
      /\ state' \in [Slots -> {"free", "opening", "live", "closing", "retired"}]
      /\ control' \in [Slots -> Handles \cup {None}]
  BY <1>1, <1>2 DEF Publish, OnlySlot, TypeOK
<1>5. /\ free' = free /\ grown' = grown /\ handles' = handles \cup {Name(s)}
      /\ freed' = freed
  BY <1>1 DEF Publish, listVars
<1>6. Allocated' = Allocated
  BY <1>5 DEF Allocated
<1>7. \A b \in Actors : slot[b] = s => b = a
  BY <1>1, SoleActor
<1>8. \A r : Name(r)' = Name(r)
  BY <1>4 DEF Name
<1>9. \A h1 \in handles : h1 \in Handles /\ h1.slot \in Slots
  BY HandleFacts DEF TypeOK
<1>10. TypeOK'
  BY <1>2, <1>3, <1>4, <1>5 DEF Moves, Places, TypeOK
<1>11. IPlace'
  <2>1. Placed(a)'
    BY <1>3 DEF Moves, Placed, Name
  <2>2. \A b \in Actors : b # a => slot[b] = None \/ Same(slot[b])
    BY <1>1, <1>4, <1>7 DEF Same, OnlySlot, IPlace, Placed, TypeOK
  <2> QED
    BY <1>3, <2>1, <2>2, PlacedStay
<1>12. ISlot'
  BY <1>1, <1>3, <1>4, <1>5, <1>8 DEF Moves, OnlySlot, ISlot
<1>13. ICount'
  <2>1. \A r : Leases(r)' = Leases(r)
    BY <1>1, <1>3, LeasesStay
  <2> QED
    BY <1>4, <2>1 DEF ICount
<1>14. IAlone'
  BY <1>3 DEF Moves, IAlone
<1>15. IList'
  BY <1>1, <1>3, <1>4, <1>5, <1>6, RegistryAssumption, SMTT(60)
     DEF Moves, OnlySlot, IList, TypeOK
<1>16. IAllocated'
  BY <1>1, <1>3, <1>4, <1>6 DEF Moves, OnlySlot, IAllocated
<1>17. INotLost'
  <2> SUFFICES ASSUME NEW r \in Allocated
               PROVE  OnList(r)' \/ state'[r] \in {"live", "retired"}
                      \/ \E b \in Actors : slot'[b] = r
    BY <1>6 DEF INotLost
  <2>1. r \in Slots
    BY AllocatedFacts
  <2>2. OnList(r) \/ state[r] \in {"live", "retired"} \/ \E b \in Actors : slot[b] = r
    BY DEF INotLost
  <2>3. OnList(r) => OnList(r)'
    BY <1>1, <1>3, <1>4, <1>5 DEF OnList
  <2> QED
    BY <2>1, <2>2, <2>3, <1>1, <1>3, <1>4, <1>5 DEF Moves, OnlySlot
<1>18. INames'
  BY <1>1, <1>2, <1>4, <1>5, <1>8, <1>9 DEF OnlySlot, INames, Gone
<1>19. IFreed'
  BY <1>1, <1>3, <1>4, <1>5, <1>9 DEF Moves, OnlySlot, IFreed, Gone
<1> QED
  BY <1>10, <1>11, <1>12, <1>13, <1>14, <1>15, <1>16, <1>17, <1>18,
     <1>19

LEMMA AbandonKeeps ==
  ASSUME IInv, NEW a \in Actors, Abandon(a)
  PROVE  IInv'
<1> USE DEF IInv
<1>1. /\ at[a] = "opening" /\ slot[a] \in Slots /\ slot[a] # None
      /\ state[slot[a]] = "opening"
  BY RegistryAssumption DEF Abandon, IPlace, Placed
<1>2. Moves(a, "recycle", slot[a], None, None)
  <2>1. Step(a, "recycle", slot[a], None, None)
    BY DEF Abandon
  <2> QED
    BY <1>1, <2>1, StepMoves DEF Places
<1>3. /\ generation' = generation /\ kind' = kind /\ state' = state /\ finish' = finish
      /\ inFlight' = inFlight /\ control' = control
      /\ free' = free /\ grown' = grown /\ handles' = handles /\ freed' = freed
  BY DEF Abandon, slotVars, listVars
<1>4. Allocated' = Allocated
  BY <1>3 DEF Allocated
<1>5. TypeOK'
  BY <1>2, <1>3 DEF Moves, TypeOK
<1>6. IPlace'
  <2>1. Placed(a)'
    BY <1>1, <1>2, <1>3 DEF Moves, Placed, Name
  <2>2. \A b \in Actors : b # a => slot[b] = None \/ Same(slot[b])
    BY <1>3 DEF Same, OnlySlot, IPlace, Placed, TypeOK
  <2> QED
    BY <1>2, <2>1, <2>2, PlacedStay
<1>7. ISlot'
  BY <1>1, <1>2, <1>3 DEF Moves, ISlot, Name
<1>8. ICount'
  <2>1. \A r : Leases(r)' = Leases(r)
    BY <1>1, <1>2, LeasesStay
  <2> QED
    BY <1>3, <2>1 DEF ICount
<1>9. IAlone'
  BY <1>1, <1>2 DEF Moves, IAlone
<1>10. IList'
  BY <1>2, <1>3, <1>4 DEF Moves, IList
<1>11. IAllocated'
  BY <1>2, <1>3, <1>4 DEF Moves, IAllocated
<1>12. INotLost'
  BY <1>2, <1>3, <1>4 DEF Moves, INotLost, OnList
<1>13. INames'
  BY <1>3 DEF INames, Gone, Name
<1>14. IFreed'
  BY <1>2, <1>3 DEF Moves, IFreed, Gone
<1> QED
  BY <1>5, <1>6, <1>7, <1>8, <1>9, <1>10, <1>11, <1>12, <1>13, <1>14

\* hex_handle_resolve, hex_handle_release: the count and the leases move together.
LEMMA ResolveKeeps ==
  ASSUME IInv, NEW a \in Actors, NEW h \in handles, Resolve(a, h)
  PROVE  IInv'
<1> USE DEF IInv
<1>1. PICK s \in Slots :
        /\ s = h.slot /\ s # None /\ h \in Handles /\ state[s] = "live" /\ h = Name(s)
        /\ control[s] = h /\ s \in Allocated
        /\ \A b \in Actors : slot[b] = s => at[b] = "leased"
  BY CurrentFacts DEF Resolve
<1>2. Moves(a, "leased", s, h, h) /\ at[a] = "idle" /\ slot[a] = None
  <2>1. Step(a, "leased", s, h, h) /\ at[a] = "idle"
    BY <1>1 DEF Resolve
  <2> QED
    BY <1>1, <2>1, StepMoves DEF Places, IPlace, Placed
<1>3. /\ generation' = generation /\ kind' = kind /\ state' = state /\ finish' = finish
      /\ control' = control /\ free' = free /\ grown' = grown /\ handles' = handles
      /\ freed' = freed
  BY DEF Resolve, listVars
<1>4. /\ inFlight' \in [Slots -> Nat] /\ inFlight'[s] = inFlight[s] + 1
      /\ \A r \in Slots : r # s => inFlight'[r] = inFlight[r]
  BY <1>1 DEF Resolve, TypeOK
<1>5. Allocated' = Allocated
  BY <1>3 DEF Allocated
<1>6. \A r : Name(r)' = Name(r)
  BY <1>3 DEF Name
<1>7. TypeOK'
  BY <1>2, <1>3, <1>4 DEF Moves, Places, TypeOK
<1>8. IPlace'
  <2>1. Placed(a)'
    BY <1>1, <1>2, <1>3 DEF Moves, Placed, Name
  <2>2. \A b \in Actors : b # a => slot[b] = None \/ Same(slot[b])
    BY <1>3 DEF Same, OnlySlot, IPlace, Placed, TypeOK
  <2> QED
    BY <1>2, <2>1, <2>2, PlacedStay
<1>9. ISlot'
  BY <1>2, <1>3, <1>6 DEF Moves, ISlot
<1>10. ICount'
  <2>1. ASSUME NEW r \in Slots, r # s  PROVE Leases(r)' = Leases(r)
    BY <2>1, <1>1, <1>2 DEF Leases, Moves
  <2>2. Leases(s)' = Leases(s) \cup {a} /\ a \notin Leases(s)
    BY <1>1, <1>2 DEF Leases, Moves
  <2>3. Cardinality(Leases(s)') = Cardinality(Leases(s)) + 1
    BY <2>2, LeaseFacts, FS_AddElement
  <2> QED
    BY <2>1, <2>3, <1>4 DEF ICount
<1>11. IAlone'
  BY <1>1, <1>2 DEF Moves, IAlone
<1>12. IList'
  BY <1>1, <1>2, <1>3, <1>5 DEF Moves, IList
<1>13. IAllocated'
  BY <1>1, <1>2, <1>3, <1>5 DEF Moves, IAllocated
<1>14. INotLost'
  <2> SUFFICES ASSUME NEW r \in Allocated
               PROVE  OnList(r)' \/ state'[r] \in {"live", "retired"}
                      \/ \E b \in Actors : slot'[b] = r
    BY <1>5 DEF INotLost
  <2>1. r \in Slots
    BY AllocatedFacts
  <2>2. OnList(r) \/ state[r] \in {"live", "retired"} \/ \E b \in Actors : slot[b] = r
    BY DEF INotLost
  <2>3. OnList(r) => OnList(r)'
    BY <1>3 DEF OnList
  <2> QED
    BY <2>1, <2>2, <2>3, <1>1, <1>2, <1>3, RegistryAssumption DEF Moves, OnlySlot
<1>15. INames'
  BY <1>3, <1>6 DEF INames, Gone
<1>16. IFreed'
  BY <1>2, <1>3 DEF Moves, IFreed, Gone
<1> QED
  BY <1>7, <1>8, <1>9, <1>10, <1>11, <1>12, <1>13, <1>14, <1>15, <1>16

LEMMA ReleaseKeeps ==
  ASSUME IInv, NEW a \in Actors, Release(a)
  PROVE  IInv'
<1> USE DEF IInv
<1>1. PICK s \in Slots : /\ s = slot[a] /\ s # None /\ at[a] = "leased"
                         /\ state[s] \in {"live", "closing"}
  BY RegistryAssumption DEF Release, IPlace, Placed
<1>2. PICK last \in BOOLEAN :
        /\ last <=> finish[s] /\ inFlight[s] = 1
        /\ last => Moves(a, "recycle", s, None, None)
        /\ ~last => Moves(a, "idle", None, None, None)
  <2>1. Settle(a, finish[s] /\ inFlight[s] = 1)
    BY <1>1 DEF Release, TypeOK
  <2>2. CASE finish[s] /\ inFlight[s] = 1
    BY <1>1, <2>1, <2>2, StepMoves DEF Settle, Places
  <2>3. CASE ~(finish[s] /\ inFlight[s] = 1)
    BY <1>1, <2>1, <2>3, StepMoves DEF Settle, Done, Places
  <2> QED
    BY <2>2, <2>3
<1>3. /\ generation' = generation /\ kind' = kind /\ state' = state /\ finish' = finish
      /\ control' = control /\ free' = free /\ grown' = grown /\ handles' = handles
      /\ freed' = freed /\ Allocated' = Allocated
  BY DEF Release, listVars, Allocated
<1>4. /\ Leases(s)' = Leases(s) \ {a} /\ a \in Leases(s)
      /\ \A r \in Slots : r # s => Leases(r)' = Leases(r)
      /\ Cardinality(Leases(s)') = inFlight[s] - 1 /\ inFlight[s] - 1 \in Nat
      /\ inFlight' \in [Slots -> Nat] /\ inFlight'[s] = inFlight[s] - 1
      /\ \A r \in Slots : r # s => inFlight'[r] = inFlight[r]
  <2>1. Leases(s)' = Leases(s) \ {a} /\ a \in Leases(s)
    BY <1>1, <1>2 DEF Leases, Moves
  <2>2. ASSUME NEW r \in Slots, r # s  PROVE Leases(r)' = Leases(r)
    BY <2>2, <1>1, <1>2 DEF Leases, Moves
  <2>3. Cardinality(Leases(s)') = inFlight[s] - 1 /\ inFlight[s] - 1 \in Nat
    <3>1. IsFiniteSet(Leases(s)) /\ Leases(s) # {}
      BY <2>1, LeaseFacts
    <3>2. Cardinality(Leases(s) \ {a}) = Cardinality(Leases(s)) - 1
      BY <2>1, <3>1, FS_RemoveElement
    <3>3. Cardinality(Leases(s)) \in Nat /\ Cardinality(Leases(s)) # 0
      BY <3>1, LeaseFacts
    <3> QED
      BY <2>1, <3>2, <3>3 DEF ICount
  <2> QED
    BY <1>1, <2>1, <2>2, <2>3 DEF Release, TypeOK
<1>5. ASSUME last
      PROVE  /\ state[s] = "closing"
             /\ Leases(s)' = {} /\ \A b \in Actors : slot[b] = s => b = a
  <2>1. state[s] = "closing" /\ finish[s]
    BY <1>5, <1>1, <1>2 DEF ISlot
  <2>2. Leases(s)' = {}
    <3>1. IsFiniteSet(Leases(s)') /\ Cardinality(Leases(s)') = 0
      BY <1>5, <1>2, <1>4, LeaseFacts, FS_Subset
    <3> QED
      BY <3>1, FS_EmptySet
  <2>3. ASSUME NEW b \in Actors, slot[b] = s, b # a  PROVE FALSE
    <3>1. at[b] \in {"leased", "closing"}
      BY <2>3, <1>1 DEF IAlone
    <3>2. at[b] # "closing"
      BY <2>1, <2>3 DEF IPlace, Placed
    <3>3. b \in Leases(s)'
      BY <2>3, <3>1, <3>2, <1>4 DEF Leases
    <3> QED
      BY <2>2, <3>3
  <2> QED
    BY <2>1, <2>2, <2>3
<1>6. \A r : Name(r)' = Name(r)
  BY <1>3 DEF Name
<1>7. TypeOK'
  BY <1>2, <1>3, <1>4 DEF Moves, Places, TypeOK
<1>8. IPlace'
  <2>1. Placed(a)'
    <3>1. CASE last
      BY <3>1, <1>1, <1>2, <1>3, <1>5 DEF Moves, Placed
    <3>2. CASE ~last
      BY <3>2, <1>2 DEF Moves, Placed
    <3> QED
      BY <3>1, <3>2
  <2>2. \A b \in Actors : b # a => slot[b] = None \/ Same(slot[b])
    BY <1>3 DEF Same
  <2> QED
    BY <1>2, <2>1, <2>2, PlacedStay
<1>9. ISlot'
  BY <1>1, <1>2, <1>3, <1>6 DEF Moves, ISlot
<1>10. ICount'
  BY <1>3, <1>4 DEF ICount
<1>11. IAlone'
  BY <1>2, <1>5 DEF Moves, IAlone
<1>12. IList'
  BY <1>2, <1>3, <1>5, RegistryAssumption DEF Moves, IList, TypeOK
<1>13. IAllocated'
  BY <1>2, <1>3, <1>5 DEF Moves, IAllocated
<1>14. INotLost'
  <2> SUFFICES ASSUME NEW r \in Allocated
               PROVE  OnList(r)' \/ state'[r] \in {"live", "retired"}
                      \/ \E b \in Actors : slot'[b] = r
    BY <1>3 DEF INotLost
  <2>1. CASE r # s
    <3>1. OnList(r) \/ state[r] \in {"live", "retired"} \/ \E b \in Actors : slot[b] = r
      BY DEF INotLost
    <3>2. OnList(r) => OnList(r)'
      BY <1>3 DEF OnList
    <3> QED
      BY <2>1, <3>1, <3>2, <1>1, <1>2, <1>3 DEF Moves
  <2>2. CASE r = s /\ last
    BY <2>2, <1>2 DEF Moves
  <2>3. CASE r = s /\ ~last /\ state[s] = "closing" /\ finish[s]
    <3>1. Cardinality(Leases(s)') # 0
      BY <2>3, <1>2, <1>4 DEF TypeOK
    <3>2. Leases(s) \ {a} # {}
      BY <3>1, <1>4, FS_EmptySet
    <3>3. PICK b \in Actors : b # a /\ slot[b] = s
      BY <3>2 DEF Leases
    <3> QED
      BY <2>3, <3>3, <1>2 DEF Moves
  <2>4. CASE r = s /\ ~last /\ state[s] = "closing" /\ ~finish[s]
    <3>1. PICK b \in Actors : at[b] = "closing" /\ slot[b] = s
      BY <2>4 DEF ISlot
    <3> QED
      BY <2>4, <3>1, <1>1, <1>2 DEF Moves
  <2> QED
    BY <1>1, <1>3, <2>1, <2>2, <2>3, <2>4
<1>15. INames'
  BY <1>3, <1>6 DEF INames, Gone
<1>16. IFreed'
  BY <1>2, <1>3 DEF Moves, IFreed, Gone
<1> QED
  BY <1>7, <1>8, <1>9, <1>10, <1>11, <1>12, <1>13, <1>14, <1>15, <1>16

\* hex_handle_close_begin, hex_handle_close_finish.
LEMMA CloseBeginKeeps ==
  ASSUME IInv, NEW a \in Actors, NEW h \in handles, CloseBegin(a, h)
  PROVE  IInv'
<1> USE DEF IInv
<1>1. PICK s \in Slots :
        /\ s = h.slot /\ s # None /\ h \in Handles /\ state[s] = "live" /\ h = Name(s)
        /\ control[s] = h /\ s \in Allocated /\ ~finish[s]
        /\ \A b \in Actors : slot[b] = s => at[b] = "leased"
  BY CurrentFacts DEF CloseBegin
<1>2. Moves(a, "closing", s, h, h) /\ at[a] = "idle" /\ slot[a] = None
  <2>1. Step(a, "closing", s, h, h) /\ at[a] = "idle"
    BY <1>1 DEF CloseBegin
  <2> QED
    BY <1>1, <2>1, StepMoves DEF Places, IPlace, Placed
<1>3. /\ generation' = generation /\ kind' = kind /\ finish' = finish
      /\ inFlight' = inFlight /\ control' = control /\ free' = free /\ grown' = grown
      /\ handles' = handles /\ freed' = freed
  BY DEF CloseBegin, listVars
<1>4. /\ state' \in [Slots -> {"free", "opening", "live", "closing", "retired"}]
      /\ state'[s] = "closing" /\ \A r \in Slots : r # s => state'[r] = state[r]
  BY <1>1 DEF CloseBegin, TypeOK
<1>5. Allocated' = Allocated
  BY <1>3 DEF Allocated
<1>6. \A r : Name(r)' = Name(r)
  BY <1>3 DEF Name
<1>7. \A h1 \in handles : h1 \in Handles /\ h1.slot \in Slots
  BY HandleFacts DEF TypeOK
<1>8. TypeOK'
  BY <1>1, <1>2, <1>3, <1>4 DEF Moves, TypeOK
<1>9. IPlace'
  <2>1. Placed(a)'
    BY <1>1, <1>2, <1>3, <1>4, <1>6 DEF Moves, Placed
  <2>2. ASSUME NEW b \in Actors, b # a  PROVE slot[b] = None \/ Same(slot[b]) \/ Placed(b)'
    <3>1. CASE slot[b] = s
      BY <3>1, <2>2, <1>1, <1>2, <1>3, <1>4, <1>6 DEF Moves, IPlace, Placed
    <3>2. CASE slot[b] # s
      BY <3>2, <1>3, <1>4 DEF Same, TypeOK
    <3> QED
      BY <3>1, <3>2
  <2> QED
    BY <1>2, <2>1, <2>2, PlacedStay
<1>10. ISlot'
  BY <1>1, <1>2, <1>3, <1>4, <1>6 DEF Moves, ISlot
<1>11. ICount'
  <2>1. \A r : Leases(r)' = Leases(r)
    BY <1>2, LeasesStay
  <2> QED
    BY <1>3, <2>1 DEF ICount
<1>12. IAlone'
  BY <1>1, <1>2 DEF Moves, IAlone
<1>13. IList'
  BY <1>1, <1>2, <1>3, <1>4, <1>5 DEF Moves, IList, TypeOK
<1>14. IAllocated'
  BY <1>1, <1>2, <1>4, <1>5 DEF Moves, IAllocated
<1>15. INotLost'
  <2> SUFFICES ASSUME NEW r \in Allocated
               PROVE  OnList(r)' \/ state'[r] \in {"live", "retired"}
                      \/ \E b \in Actors : slot'[b] = r
    BY <1>5 DEF INotLost
  <2>1. r \in Slots
    BY AllocatedFacts
  <2>2. OnList(r) \/ state[r] \in {"live", "retired"} \/ \E b \in Actors : slot[b] = r
    BY DEF INotLost
  <2>3. OnList(r) => OnList(r)'
    BY <1>3 DEF OnList
  <2> QED
    BY <2>1, <2>2, <2>3, <1>1, <1>2, <1>3, <1>4, RegistryAssumption DEF Moves, OnlySlot
<1>16. INames'
  BY <1>1, <1>3, <1>4, <1>6, <1>7 DEF INames, Gone
<1>17. IFreed'
  BY <1>1, <1>2, <1>3, <1>4, <1>7 DEF Moves, IFreed, Gone
<1> QED
  BY <1>8, <1>9, <1>10, <1>11, <1>12, <1>13, <1>14, <1>15, <1>16, <1>17

LEMMA CloseFinishKeeps ==
  ASSUME IInv, NEW a \in Actors, CloseFinish(a)
  PROVE  IInv'
<1> USE DEF IInv
<1>1. PICK s \in Slots : /\ s = slot[a] /\ s # None /\ at[a] = "closing"
                         /\ state[s] = "closing"
  BY RegistryAssumption DEF CloseFinish, IPlace, Placed
<1>2. PICK last \in BOOLEAN :
        /\ last <=> inFlight[s] = 0
        /\ last => Moves(a, "recycle", s, None, None)
        /\ ~last => Moves(a, "idle", None, None, None)
  <2>1. Settle(a, inFlight[s] = 0)
    BY <1>1 DEF CloseFinish
  <2>2. CASE inFlight[s] = 0
    BY <1>1, <2>1, <2>2, StepMoves DEF Settle, Places
  <2>3. CASE inFlight[s] # 0
    BY <1>1, <2>1, <2>3, StepMoves DEF Settle, Done, Places
  <2> QED
    BY <2>2, <2>3
<1>3. /\ generation' = generation /\ kind' = kind /\ state' = state
      /\ inFlight' = inFlight /\ control' = control /\ free' = free /\ grown' = grown
      /\ handles' = handles /\ freed' = freed /\ Allocated' = Allocated
  BY DEF CloseFinish, listVars, Allocated
<1>4. /\ finish' \in [Slots -> BOOLEAN] /\ finish'[s]
      /\ \A r \in Slots : r # s => finish'[r] = finish[r]
      /\ \A r : Leases(r)' = Leases(r)
  <2>1. \A r : Leases(r)' = Leases(r)
    BY <1>1, <1>2, LeasesStay
  <2> QED
    BY <1>1, <2>1 DEF CloseFinish, TypeOK
<1>5. ASSUME NEW b \in Actors, slot[b] = s, b # a  PROVE at[b] = "leased" /\ ~last
  <2>1. at[b] = "leased"
    BY <1>1, <1>5 DEF IAlone
  <2>2. b \in Leases(s)
    BY <1>5, <2>1 DEF Leases
  <2> QED
    BY <2>1, <2>2, <1>2, LeaseFacts DEF ICount
<1>6. \A r : Name(r)' = Name(r)
  BY <1>3 DEF Name
<1>7. TypeOK'
  BY <1>2, <1>3, <1>4 DEF Moves, Places, TypeOK
<1>8. IPlace'
  <2>1. Placed(a)'
    <3>1. CASE last
      BY <3>1, <1>1, <1>2, <1>3, <1>4 DEF Moves, Placed
    <3>2. CASE ~last
      BY <3>2, <1>2 DEF Moves, Placed
    <3> QED
      BY <3>1, <3>2
  <2>2. ASSUME NEW b \in Actors, b # a  PROVE slot[b] = None \/ Same(slot[b]) \/ Placed(b)'
    <3>1. CASE slot[b] = s
      BY <3>1, <2>2, <1>1, <1>2, <1>3, <1>5, <1>6 DEF Moves, IPlace, Placed
    <3>2. CASE slot[b] # s
      BY <3>2, <1>3, <1>4 DEF Same, TypeOK
    <3> QED
      BY <3>1, <3>2
  <2> QED
    BY <1>2, <2>1, <2>2, PlacedStay
<1>9. ISlot'
  BY <1>1, <1>2, <1>3, <1>4, <1>6 DEF Moves, ISlot
<1>10. ICount'
  BY <1>3, <1>4 DEF ICount
<1>11. IAlone'
  BY <1>2, <1>5 DEF Moves, IAlone
<1>12. IList'
  BY <1>1, <1>2, <1>3, RegistryAssumption DEF Moves, IList, TypeOK
<1>13. IAllocated'
  BY <1>1, <1>2, <1>3 DEF Moves, IAllocated
<1>14. INotLost'
  <2> SUFFICES ASSUME NEW r \in Allocated
               PROVE  OnList(r)' \/ state'[r] \in {"live", "retired"}
                      \/ \E b \in Actors : slot'[b] = r
    BY <1>3 DEF INotLost
  <2>1. CASE r # s
    <3>1. OnList(r) \/ state[r] \in {"live", "retired"} \/ \E b \in Actors : slot[b] = r
      BY DEF INotLost
    <3>2. OnList(r) => OnList(r)'
      BY <1>3 DEF OnList
    <3> QED
      BY <2>1, <3>1, <3>2, <1>1, <1>2, <1>3 DEF Moves
  <2>2. CASE r = s /\ last
    BY <2>2, <1>2 DEF Moves
  <2>3. CASE r = s /\ ~last
    <3>1. Leases(s) # {}
      BY <2>3, <1>1, <1>2, LeaseFacts DEF ICount
    <3>2. PICK b \in Actors : b # a /\ slot[b] = s
      BY <3>1, <1>1 DEF Leases
    <3> QED
      BY <2>3, <3>2, <1>2 DEF Moves
  <2> QED
    BY <2>1, <2>2, <2>3
<1>15. INames'
  BY <1>3, <1>6 DEF INames, Gone
<1>16. IFreed'
  BY <1>2, <1>3 DEF Moves, IFreed, Gone
<1> QED
  BY <1>7, <1>8, <1>9, <1>10, <1>11, <1>12, <1>13, <1>14, <1>15, <1>16

\* hex_handle_recycle: the slot is cleared, the control block freed, the slot listed.
LEMMA RecycleSlotKeeps ==
  ASSUME IInv, NEW a \in Actors, RecycleSlot(a)
  PROVE  IInv'
<1> USE DEF IInv
<1>1. PICK s \in Slots : /\ s = slot[a] /\ s # None /\ at[a] = "recycle"
                         /\ \/ state[s] = "opening"
                            \/ state[s] = "closing" /\ finish[s]
                         /\ s \in Allocated
                         /\ \A b \in Actors : slot[b] = s => b = a
  BY RegistryAssumption, SoleActor DEF RecycleSlot, IPlace, Placed, IAllocated
<1>2. PICK n \in Slots \cup {None} :
        /\ n = IF generation[s] = MaxGeneration THEN None ELSE s
        /\ Moves(a, "heap", n, None, control[s])
  <2>1. Step(a, "heap", IF generation[s] = MaxGeneration THEN None ELSE s, None, control[s])
    BY <1>1 DEF RecycleSlot
  <2>2. control[s] \in Handles \cup {None}
    BY DEF TypeOK
  <2> QED
    BY <2>1, <2>2, StepMoves DEF Places
<1>3. /\ kind' = kind /\ inFlight' = inFlight /\ free' = free /\ grown' = grown
      /\ handles' = handles /\ freed' = freed /\ Allocated' = Allocated
  BY DEF RecycleSlot, listVars, Allocated
<1>4. /\ generation' \in [Slots -> 0..MaxGeneration]
      /\ generation[s] \in 0..MaxGeneration
      /\ \/ generation'[s] = generation[s] + 1 /\ n = s /\ state'[s] = "free"
         \/ generation'[s] = generation[s] /\ n = None /\ state'[s] = "retired"
  BY <1>1, <1>2, RegistryAssumption DEF RecycleSlot, TypeOK
<1>5. /\ OnlySlot(s) /\ finish'[s] = FALSE /\ control'[s] = None
      /\ state' \in [Slots -> {"free", "opening", "live", "closing", "retired"}]
      /\ finish' \in [Slots -> BOOLEAN] /\ control' \in [Slots -> Handles \cup {None}]
  BY <1>1 DEF RecycleSlot, OnlySlot, TypeOK
<1>6. control[s] = None \/ (control[s] = Name(s) /\ Name(s) \in handles)
  BY <1>1 DEF ISlot
<1>7. \A r \in Slots : r # s => Name(r)' = Name(r)
  BY <1>5 DEF OnlySlot, Name
<1>8. ASSUME NEW h \in handles
      PROVE  /\ h \in Handles /\ h.slot \in Slots
             /\ Gone(h) => Gone(h)'
             /\ h = Name(s) => ~Gone(h)
             /\ h.slot = s => Gone(h)'
  <2>1. h \in Handles /\ h.slot \in Slots /\ h.generation \in 0..MaxGeneration
    BY HandleFacts DEF TypeOK
  <2>2. Gone(h) => Gone(h)'
    <3>1. CASE h.slot = s
      BY <3>1, <2>1, <1>1, <1>4 DEF Gone
    <3>2. CASE h.slot # s
      BY <3>2, <2>1, <1>5 DEF Gone, OnlySlot
    <3> QED
      BY <3>1, <3>2
  <2>3. h = Name(s) => Gone(h)' /\ ~Gone(h)
    BY <2>1, <1>1, <1>4 DEF Gone, Name
  <2>4. h.slot = s => Gone(h)'
    BY <2>1, <2>2, <2>3 DEF INames
  <2> QED
    BY <2>1, <2>2, <2>3, <2>4
<1>9. TypeOK'
  BY <1>2, <1>3, <1>4, <1>5 DEF Moves, Places, TypeOK
<1>10. IPlace'
  <2>1. Placed(a)'
    BY <1>2, <1>4, <1>5, <1>1 DEF Moves, Placed
  <2>2. \A b \in Actors : b # a => slot[b] = None \/ Same(slot[b])
    BY <1>1, <1>3, <1>5 DEF Same, OnlySlot, TypeOK
  <2> QED
    BY <1>2, <2>1, <2>2, PlacedStay
<1>11. ISlot'
  BY <1>1, <1>2, <1>3, <1>4, <1>5, <1>7 DEF Moves, OnlySlot, ISlot
<1>12. ICount'
  <2>1. \A r : Leases(r)' = Leases(r)
    BY <1>1, <1>2, LeasesStay
  <2> QED
    BY <1>3, <2>1 DEF ICount
<1>13. IAlone'
  BY <1>1, <1>2 DEF Moves, IAlone
<1>14. IList'
  BY <1>1, <1>2, <1>3, <1>5, RegistryAssumption
     DEF Moves, OnlySlot, IList, TypeOK
<1>15. IAllocated'
  BY <1>1, <1>2, <1>3, <1>5 DEF Moves, OnlySlot, IAllocated
<1>16. INotLost'
  <2> SUFFICES ASSUME NEW r \in Allocated
               PROVE  OnList(r)' \/ state'[r] \in {"live", "retired"}
                      \/ \E b \in Actors : slot'[b] = r
    BY <1>3 DEF INotLost
  <2>1. r \in Slots
    BY AllocatedFacts
  <2>2. OnList(r) \/ state[r] \in {"live", "retired"} \/ \E b \in Actors : slot[b] = r
    BY DEF INotLost
  <2>3. OnList(r) => OnList(r)'
    BY <1>3 DEF OnList
  <2> QED
    BY <2>1, <2>2, <2>3, <1>1, <1>2, <1>4, <1>5 DEF Moves, OnlySlot
<1>17. INames'
  <2> SUFFICES ASSUME NEW h \in handles
               PROVE  Gone(h)' \/ (state'[h.slot] \in {"live", "closing"} /\ h = Name(h.slot)')
    BY <1>3 DEF INames
  <2>1. CASE Gone(h) \/ h.slot = s
    BY <2>1, <1>8
  <2>2. CASE ~Gone(h) /\ h.slot # s
    BY <2>2, <1>5, <1>7, <1>8 DEF INames, OnlySlot
  <2> QED
    BY <2>1, <2>2
<1>18. IFreed'
  <2>1. \A h \in freed' : h \in handles' /\ Gone(h)'
    BY <1>3, <1>8 DEF IFreed
  <2>2. ASSUME NEW b \in Actors, NEW h, at'[b] = "heap", held'[b] = h, h # None
        PROVE  /\ h \in handles' /\ h \notin freed' /\ Gone(h)'
               /\ \A d \in Actors : at'[d] = "heap" /\ held'[d] = h => d = b
    <3>1. CASE b = a
      <4>1. h = Name(s) /\ h \in handles
        BY <3>1, <2>2, <1>2, <1>6 DEF Moves
      <4>2. ~Gone(h) /\ Gone(h)'
        BY <4>1, <1>1, <1>8, TypeFacts, NameFacts
      <4> QED
        BY <4>1, <4>2, <3>1, <2>2, <1>2, <1>3 DEF Moves, IFreed
    <3>2. CASE b # a
      <4>1. at[b] = "heap" /\ held[b] = h
        BY <3>2, <2>2, <1>2 DEF Moves
      <4>2. h \in handles /\ h \notin freed /\ Gone(h)
        BY <4>1, <2>2 DEF IFreed
      <4>3. h # control[s]
        BY <4>2, <2>2, <1>6, <1>8
      <4> QED
        BY <4>1, <4>2, <4>3, <2>2, <1>2, <1>3, <1>8 DEF Moves, IFreed
    <3> QED
      BY <3>1, <3>2
  <2> QED
    BY <2>1, <2>2 DEF IFreed, Gone
<1> QED
  BY <1>9, <1>10, <1>11, <1>12, <1>13, <1>14, <1>15, <1>16, <1>17, <1>18

LEMMA RecycleHeapKeeps ==
  ASSUME IInv, NEW a \in Actors, RecycleHeap(a)
  PROVE  IInv'
<1> USE DEF IInv
<1>1. PICK n \in Slots \cup {None} :
        /\ n = slot[a] /\ at[a] = "heap"
        /\ n = None => Moves(a, "idle", None, None, None)
        /\ n # None => /\ state[n] = "free" /\ n \in Allocated
                       /\ Moves(a, "push", n, None, None)
                       /\ \A b \in Actors : slot[b] = n => b = a
  <2>1. slot[a] \in Slots \cup {None} /\ at[a] = "heap"
    BY DEF RecycleHeap, TypeOK
  <2>2. CASE slot[a] = None
    <3>1. Step(a, "idle", None, None, None)
      BY <2>2 DEF RecycleHeap, Done
    <3> QED
      BY <2>1, <2>2, <3>1, StepMoves DEF Places
  <2>3. CASE slot[a] # None
    <3>1. Step(a, "push", slot[a], None, None)
      BY <2>3 DEF RecycleHeap
    <3>2. state[slot[a]] = "free" /\ slot[a] \in Allocated
      BY <2>1, <2>3 DEF IPlace, Placed, IAllocated
    <3>3. \A b \in Actors : slot[b] = slot[a] => b = a
      BY <2>1, <2>3, SoleActor
    <3> QED
      BY <2>1, <2>3, <3>1, <3>2, <3>3, StepMoves DEF Places
  <2> QED
    BY <2>2, <2>3
<1>2. /\ generation' = generation /\ kind' = kind /\ state' = state /\ finish' = finish
      /\ inFlight' = inFlight /\ control' = control
      /\ free' = free /\ grown' = grown /\ handles' = handles /\ Allocated' = Allocated
  BY DEF RecycleHeap, slotVars, listVars, Allocated
<1>3. /\ freed' \in SUBSET Handles
      /\ \A h : h \in freed' <=> h \in freed \/ (h = held[a] /\ h # None)
  BY DEF RecycleHeap, TypeOK
<1>4. \A b \in Actors : b # a => at'[b] = at[b] /\ slot'[b] = slot[b] /\ held'[b] = held[b]
  BY <1>1 DEF Moves
<1>5. at'[a] \in {"idle", "push"} /\ slot'[a] = n
  BY <1>1 DEF Moves
<1>6. \A r : Name(r)' = Name(r)
  BY <1>2 DEF Name
<1>7. TypeOK'
  <2>1. CASE n = None
    BY <2>1, <1>1, <1>2, <1>3 DEF TypeOK, Moves, Places
  <2>2. CASE n # None
    BY <2>2, <1>1, <1>2, <1>3 DEF TypeOK, Moves, Places
  <2> QED
    BY <2>1, <2>2
<1>8. IPlace'
  <2>1. \A b \in Actors : b # a => slot[b] = None \/ Same(slot[b])
    BY <1>2 DEF Same
  <2>2. CASE n = None
    <3>1. Placed(a)'
      BY <2>2, <1>1 DEF Moves, Placed
    <3> QED
      BY <1>1, <2>1, <2>2, <3>1, PlacedStay
  <2>3. CASE n # None
    <3>1. Placed(a)'
      BY <2>3, <1>1, <1>2 DEF Moves, Placed
    <3> QED
      BY <1>1, <2>1, <2>3, <3>1, PlacedStay
  <2> QED
    BY <2>2, <2>3
<1>9. ISlot'
  BY <1>1, <1>2, <1>4, <1>6 DEF ISlot
<1>10. ICount'
  <2>1. \A r : Leases(r)' = Leases(r)
    BY <1>1, LeasesStay
  <2> QED
    BY <1>2, <2>1 DEF ICount
<1>11. IAlone'
  BY <1>1, <1>4, <1>5 DEF IAlone
<1>12. IList'
  BY <1>1, <1>2, <1>4, <1>5 DEF IList
<1>13. IAllocated'
  BY <1>1, <1>2, <1>4, <1>5 DEF IAllocated
<1>14. INotLost'
  <2> SUFFICES ASSUME NEW r \in Allocated
               PROVE  OnList(r)' \/ state'[r] \in {"live", "retired"}
                      \/ \E b \in Actors : slot'[b] = r
    BY <1>2 DEF INotLost
  <2>1. OnList(r) \/ state[r] \in {"live", "retired"} \/ \E b \in Actors : slot[b] = r
    BY DEF INotLost
  <2>2. OnList(r) => OnList(r)'
    BY <1>2 DEF OnList
  <2> QED
    BY <2>1, <2>2, <1>1, <1>2, <1>4, <1>5
<1>15. INames'
  BY <1>2, <1>6 DEF INames, Gone
<1>16. IFreed'
  <2>1. \A h : Gone(h)' <=> Gone(h)
    BY <1>2 DEF Gone
  <2>2. \A h \in freed' : h \in handles' /\ Gone(h)'
    BY <1>1, <1>2, <1>3, <2>1 DEF IFreed
  <2>3. ASSUME NEW b \in Actors, NEW h, at'[b] = "heap", held'[b] = h, h # None
        PROVE  /\ h \in handles' /\ h \notin freed' /\ Gone(h)'
               /\ \A d \in Actors : at'[d] = "heap" /\ held'[d] = h => d = b
    <3>1. b # a /\ at[b] = "heap" /\ held[b] = h
      BY <2>3, <1>4, <1>5
    <3>2. /\ h \in handles /\ h \notin freed /\ Gone(h)
          /\ \A d \in Actors : at[d] = "heap" /\ held[d] = h => d = b
      BY <3>1, <2>3 DEF IFreed
    <3>3. h # held[a]
      BY <3>1, <3>2, <1>1
    <3> QED
      BY <3>2, <3>3, <2>1, <1>2, <1>3, <1>4, <1>5
  <2> QED
    BY <2>2, <2>3 DEF IFreed, Gone
<1> QED
  BY <1>7, <1>8, <1>9, <1>10, <1>11, <1>12, <1>13, <1>14, <1>15, <1>16

LEMMA RecyclePushKeeps ==
  ASSUME IInv, NEW a \in Actors, RecyclePush(a)
  PROVE  IInv'
<1> USE DEF IInv
<1>1. PICK s \in Slots : /\ s = slot[a] /\ s # None /\ at[a] = "push" /\ state[s] = "free"
                         /\ s \in Allocated
                         /\ \A b \in Actors : slot[b] = s => b = a
  BY RegistryAssumption, SoleActor DEF RecyclePush, IPlace, Placed, IAllocated
<1>2. Moves(a, "idle", None, None, None)
  <2>1. Step(a, "idle", None, None, None)
    BY DEF RecyclePush, Done
  <2> QED
    BY <2>1, StepMoves DEF Places
<1>3. /\ generation' = generation /\ kind' = kind /\ state' = state /\ finish' = finish
      /\ inFlight' = inFlight /\ control' = control
      /\ grown' = grown /\ handles' = handles /\ freed' = freed /\ Allocated' = Allocated
  BY DEF RecyclePush, slotVars, Allocated
<1>4. /\ free' \in Seq(Slots) /\ Len(free) \in Nat /\ Len(free') = Len(free) + 1
      /\ free'[1] = s /\ \A i \in 2..Len(free') : free'[i] = free[i - 1] /\ i - 1 \in 1..Len(free)
      /\ \A i \in 1..Len(free) : free'[i + 1] = free[i] /\ i + 1 \in 1..Len(free')
  <2>1. free' = <<s>> \o free /\ free \in Seq(Slots)
    BY <1>1 DEF RecyclePush, TypeOK
  <2> QED
    BY <2>1
<1>5. \A i \in 1..Len(free) : free[i] # s
  BY <1>1 DEF IList
<1>6. TypeOK'
  BY <1>2, <1>3, <1>4 DEF Moves, Places, TypeOK
<1>7. IPlace'
  <2>1. Placed(a)'
    BY <1>2 DEF Moves, Placed, Name
  <2>2. \A b \in Actors : b # a => slot[b] = None \/ Same(slot[b])
    BY <1>3 DEF Same, OnlySlot, IPlace, Placed, TypeOK
  <2> QED
    BY <1>2, <2>1, <2>2, PlacedStay
<1>8. ISlot'
  BY <1>1, <1>2, <1>3 DEF ISlot, Moves, Name
<1>9. ICount'
  <2>1. \A r : Leases(r)' = Leases(r)
    BY <1>1, <1>2, LeasesStay
  <2> QED
    BY <1>3, <2>1 DEF ICount
<1>10. IAlone'
  BY <1>2 DEF Moves, IAlone
<1>11. IList'
  <2>1. \A i, j \in 1..Len(free') : free'[i] = free'[j] => i = j
    <3> SUFFICES ASSUME NEW i \in 1..Len(free'), NEW j \in 1..Len(free'), free'[i] = free'[j]
                 PROVE  i = j
      OBVIOUS
    <3>1. CASE i = 1 \/ j = 1
      <4>1. \A m \in 2..Len(free') : free'[m] # s
        BY <1>4, <1>5
      <4>2. \A m \in 1..Len(free') : m = 1 \/ m \in 2..Len(free')
        BY <1>4
      <4> QED
        BY <3>1, <4>1, <4>2, <1>4
    <3>2. CASE i # 1 /\ j # 1
      <4>1. i \in 2..Len(free') /\ j \in 2..Len(free')
        BY <3>2, <1>4
      <4>2. free[i - 1] = free[j - 1] /\ i - 1 \in 1..Len(free) /\ j - 1 \in 1..Len(free)
        BY <4>1, <1>4
      <4>3. i - 1 = j - 1
        BY <4>2 DEF IList
      <4> QED
        BY <4>1, <4>3
    <3> QED
      BY <3>1, <3>2
  <2>2. ASSUME NEW i \in 1..Len(free')
        PROVE  /\ state'[free'[i]] = "free" /\ free'[i] \in Allocated'
               /\ \A b \in Actors : slot'[b] # free'[i]
    <3>1. CASE i = 1
      BY <3>1, <1>1, <1>2, <1>3, <1>4 DEF Moves
    <3>2. CASE i # 1
      <4>1. free'[i] = free[i - 1] /\ i - 1 \in 1..Len(free)
        BY <3>2, <1>4
      <4>2. /\ state[free[i - 1]] = "free" /\ free[i - 1] \in Allocated
            /\ \A b \in Actors : slot[b] # free[i - 1]
        BY <4>1 DEF IList
      <4>3. free[i - 1] # None
        BY <4>1, RegistryAssumption DEF TypeOK
      <4> QED
        BY <4>1, <4>2, <4>3, <1>2, <1>3 DEF Moves
    <3> QED
      BY <3>1, <3>2
  <2> QED
    BY <2>1, <2>2 DEF IList
<1>12. IAllocated'
  BY <1>2, <1>3 DEF Moves, IAllocated
<1>13. INotLost'
  <2> SUFFICES ASSUME NEW r \in Allocated
               PROVE  OnList(r)' \/ state'[r] \in {"live", "retired"}
                      \/ \E b \in Actors : slot'[b] = r
    BY <1>3 DEF INotLost
  <2>1. CASE OnList(r)
    BY <2>1, <1>4 DEF OnList
  <2>2. CASE r = s
    <3>1. 1 \in 1..Len(free')
      BY <1>4
    <3> QED
      BY <2>2, <3>1, <1>4 DEF OnList
  <2>3. CASE ~OnList(r) /\ r # s
    BY <2>3, <1>1, <1>2, <1>3 DEF INotLost, Moves
  <2> QED
    BY <2>1, <2>2, <2>3
<1>14. INames'
  BY <1>3 DEF INames, Gone, Name
<1>15. IFreed'
  BY <1>2, <1>3 DEF Moves, IFreed, Gone
<1> QED
  BY <1>6, <1>7, <1>8, <1>9, <1>10, <1>11, <1>12, <1>13, <1>14, <1>15

\* Nothing is open, listed or leased at the start.
LEMMA InitHolds == Init => IInv
<1> SUFFICES ASSUME Init PROVE IInv
  OBVIOUS
<1>1. TypeOK
  <2>1. free \in Seq(Slots)
    BY DEF Init
  <2>2. grown \in 0..Len(Chunks)
    BY RegistryAssumption DEF Init
  <2>3. /\ kind \in [Slots -> Kinds] /\ generation \in [Slots -> 0..MaxGeneration]
        /\ inFlight \in [Slots -> Nat]
    BY RegistryAssumption DEF Init
  <2> QED
    BY <2>1, <2>2, <2>3 DEF Init, TypeOK
<1>2. IPlace /\ ISlot /\ IAlone /\ INames /\ IFreed
  BY DEF Init, IPlace, Placed, ISlot, IAlone, INames, IFreed
<1>3. ICount
  <2>1. \A s \in Slots : Leases(s) = {}
    BY DEF Init, Leases
  <2> QED
    BY <2>1, FS_EmptySet DEF Init, ICount
<1>4. Allocated = {}
  BY DEF Init, Allocated
<1>5. IList /\ IAllocated /\ INotLost
  <2>1. Len(free) = 0
    BY DEF Init
  <2> QED
    BY <1>4, <2>1 DEF Init, IList, IAllocated, INotLost
<1> QED
  BY <1>1, <1>2, <1>3, <1>5 DEF IInv

\* What any step of the specification that changes something is.
LEMMA StepCases ==
  ASSUME Next
  PROVE  \E a \in Actors :
           \/ ReservePop(a) \/ ReserveGrow(a)
           \/ \E k \in Kinds : ReserveOpen(a, k)
           \/ Publish(a) \/ Abandon(a)
           \/ \E h \in handles : Resolve(a, h)
           \/ Release(a)
           \/ \E h \in handles : CloseBegin(a, h)
           \/ CloseFinish(a) \/ RecycleSlot(a) \/ RecycleHeap(a) \/ RecyclePush(a)
<1> QED
  BY DEF Next, Advance

\* Every step, and a step that changes nothing.
LEMMA StepKeeps ==
  ASSUME IInv, [Next]_vars
  PROVE  IInv'
<1>1. CASE UNCHANGED vars
  <2>1. /\ generation' = generation /\ kind' = kind /\ state' = state /\ finish' = finish
        /\ inFlight' = inFlight /\ control' = control /\ free' = free /\ grown' = grown
        /\ at' = at /\ slot' = slot /\ mine' = mine /\ held' = held
        /\ handles' = handles /\ freed' = freed
    BY <1>1 DEF vars, slotVars, listVars
  <2>2. Allocated' = Allocated /\ \A r : Leases(r)' = Leases(r) /\ Name(r)' = Name(r)
    BY <2>1 DEF Allocated, Leases, Name
  <2>3. TypeOK' /\ ICount' /\ IAlone' /\ IList' /\ IAllocated'
    BY <2>1, <2>2 DEF IInv, TypeOK, ICount, IAlone, IList, IAllocated
  <2>4. IPlace' /\ ISlot' /\ INotLost' /\ INames' /\ IFreed'
    BY <2>1, <2>2 DEF IInv, IPlace, Placed, ISlot, INotLost, OnList, INames, IFreed, Gone, Name
  <2> QED
    BY <2>3, <2>4 DEF IInv
<1>2. CASE Next
  <2>1. PICK a \in Actors :
          \/ ReservePop(a) \/ ReserveGrow(a)
          \/ \E k \in Kinds : ReserveOpen(a, k)
          \/ Publish(a) \/ Abandon(a)
          \/ \E h \in handles : Resolve(a, h)
          \/ Release(a)
          \/ \E h \in handles : CloseBegin(a, h)
          \/ CloseFinish(a) \/ RecycleSlot(a) \/ RecycleHeap(a) \/ RecyclePush(a)
    BY <1>2, StepCases
  <2> QED
    BY <2>1, ReservePopKeeps, ReserveGrowKeeps, ReserveOpenKeeps, PublishKeeps,
       AbandonKeeps, ResolveKeeps, ReleaseKeeps, CloseBeginKeeps, CloseFinishKeeps,
       RecycleSlotKeeps, RecycleHeapKeeps, RecyclePushKeeps
<1> QED
  BY <1>1, <1>2

\* Slots, handles, leases and the free list agree in every reachable state, for any
\* number of Tasks, slots and chunks and any last generation.  [handle.c]
THEOREM InductiveInvariant == Spec => []IInv
<1> QED
  BY InitHolds, StepKeeps, PTL DEF Spec

\* Two owners of a slot would be two places of the invariant.
LEMMA InvImplies == IInv => NothingAstray
<1> SUFFICES ASSUME IInv PROVE NothingAstray
  OBVIOUS
<1>1. LeasePinned
  <2> SUFFICES ASSUME NEW a \in Actors, at[a] \in {"leased", "closing"}
               PROVE  /\ held[a] = mine[a] /\ held[a] \notin freed
                      /\ \A b \in Actors : at[b] = "heap" => held[b] # held[a]
    BY DEF LeasePinned
  <2>1. PICK s \in Slots : /\ s = slot[a] /\ state[s] \in {"live", "closing"}
                           /\ held[a] = mine[a] /\ mine[a] = Name(s)
    BY DEF IInv, IPlace, Placed
  <2>2. ~Gone(Name(s)) /\ Name(s) # None
    <3>1. Name(s) \in Handles /\ Name(s).slot = s /\ Name(s).generation = generation[s]
      BY TypeFacts, NameFacts DEF IInv
    <3>2. ~(generation[s] < generation[s])
      BY DEF IInv, TypeOK
    <3> QED
      BY <2>1, <3>1, <3>2, RegistryAssumption DEF Gone
  <2> QED
    BY <2>1, <2>2 DEF IInv, IFreed
<1>2. ASSUME NEW s \in Slots, NEW p \in Owners(s), NEW q \in Owners(s)
      PROVE  p = q
  <2> DEFINE listed(o) == \E i \in 1..Len(free) : free[i] = s /\ o = <<"list", i>>
             worked(o) == \E b \in Actors : /\ slot[b] = s /\ o = <<"actor", b>>
                                            /\ at[b] \notin {"leased", "closing"}
             used(o) == InUse(s) /\ o = <<"program", s>>
  <2>1. \A o \in Owners(s) : listed(o) \/ worked(o) \/ used(o)
    BY DEF Owners
  <2>2. s # None
    BY RegistryAssumption
  <2>3. ASSUME InUse(s)
        PROVE  /\ ~\E i \in 1..Len(free) : free[i] = s
               /\ \A b \in Actors : slot[b] = s => at[b] \in {"leased", "closing"}
    <3>1. CASE state[s] = "live"
      <4>1. \A i \in 1..Len(free) : free[i] # s
        BY <3>1 DEF IInv, IList
      <4>2. ASSUME NEW b \in Actors, slot[b] = s  PROVE at[b] \in {"leased", "closing"}
        <5>1. at[b] \in Places
          BY DEF IInv, TypeOK, Places
        <5> QED
          BY <3>1, <4>2, <5>1, <2>2 DEF IInv, IPlace, Placed, Places
      <4> QED
        BY <4>1, <4>2
    <3>2. CASE \E a \in Actors : slot[a] = s /\ at[a] \in {"leased", "closing"}
      BY <3>2, <2>2 DEF IInv, IAlone, IList
    <3> QED
      BY <2>3, <3>1, <3>2 DEF InUse
  <2>4. ASSUME NEW i \in 1..Len(free), free[i] = s
        PROVE  /\ \A j \in 1..Len(free) : free[j] = s => j = i
               /\ \A b \in Actors : slot[b] # s
    BY <2>4 DEF IInv, IList
  <2>5. ASSUME NEW b \in Actors, NEW d \in Actors, slot[b] = s, slot[d] = s,
               at[b] \notin {"leased", "closing"}
        PROVE  b = d
    BY <2>2, <2>5 DEF IInv, IAlone
  <2>6. CASE listed(p)
    BY <2>1, <2>3, <2>4, <2>6
  <2>7. CASE worked(p)
    BY <2>1, <2>3, <2>4, <2>5, <2>7
  <2>8. CASE used(p)
    BY <2>1, <2>3, <2>8
  <2> QED
    BY <2>1, <2>6, <2>7, <2>8
<1>3. ASSUME NEW s \in Allocated
      PROVE  Owners(s) # {} \/ state[s] = "retired"
  <2>1. CASE OnList(s)
    BY <2>1 DEF OnList, Owners
  <2>2. CASE state[s] = "live"
    BY <2>2 DEF Owners, InUse
  <2>3. CASE \E a \in Actors : slot[a] = s
    BY <2>3 DEF Owners, InUse
  <2> QED
    BY <2>1, <2>2, <2>3 DEF IInv, INotLost
<1> QED
  BY <1>1, <1>2, <1>3 DEF NothingAstray, OneOwner

\* A lease keeps a control block that is still allocated, a slot is in one place
\* at a time, and no slot is lost: hex_handle_resolve, hex_handle_release,
\* hex_handle_reserve, hex_handle_close_finish and hex_handle_recycle give
\* nothing away that is in use.
THEOREM NothingIsAstray == Spec => []NothingAstray
<1> QED
  BY InductiveInvariant, InvImplies, PTL

-----------------------------------------------------------------------------
\* The operations that may touch a capability's control block.
Busy == {"leased", "closing"}

Users(h) == {a \in Actors : at[a] \in Busy /\ mine[a] = h}

\* An operation that neither begins nor ends a use leaves the users alone.
LEMMA UsersStay ==
  ASSUME TypeOK, NEW a \in Actors, NEW p, NEW s, NEW h, NEW c, Step(a, p, s, h, c),
         at[a] \notin Busy, p \notin Busy
  PROVE  \A g : Users(g)' = Users(g)
<1>1. \A b \in Actors : IF b = a THEN at'[b] = p ELSE at'[b] = at[b] /\ mine'[b] = mine[b]
  BY DEF TypeOK, Step
<1> QED
  BY <1>1 DEF Users

\* The actor joins a capability's users, or leaves them.
LEMMA UsersJoin ==
  ASSUME TypeOK, NEW a \in Actors, NEW p, NEW s, NEW h, NEW c, Step(a, p, s, h, c),
         at[a] \notin Busy, p \in Busy
  PROVE  /\ a \notin Users(h) /\ Users(h)' = Users(h) \cup {a}
         /\ \A g : g # h => Users(g)' = Users(g)
<1>1. \A b \in Actors : IF b = a THEN at'[b] = p /\ mine'[b] = h
                        ELSE at'[b] = at[b] /\ mine'[b] = mine[b]
  BY DEF TypeOK, Step
<1> QED
  BY <1>1 DEF Users

LEMMA UsersLeave ==
  ASSUME TypeOK, NEW a \in Actors, NEW p, NEW s, NEW h, NEW c, Step(a, p, s, h, c),
         at[a] \in Busy, p \notin Busy, NEW m, m = mine[a]
  PROVE  /\ a \in Users(m) /\ Users(m)' = Users(m) \ {a}
         /\ \A g : g # m => Users(g)' = Users(g)
<1>1. \A b \in Actors : IF b = a THEN at'[b] = p ELSE at'[b] = at[b] /\ mine'[b] = mine[b]
  BY DEF TypeOK, Step
<1> QED
  BY <1>1 DEF Users

\* Who may touch a control block holds the handle of a use that is not over.
LEMMA UserFacts ==
  ASSUME IInv, NEW h, NEW a \in Users(h)
  PROVE  h \in handles /\ ~Gone(h) /\ h \in Handles
<1>1. PICK s \in Slots : /\ state[s] \in {"live", "closing"} /\ h = Name(s)
  BY DEF IInv, IPlace, Placed, Users, Busy
<1>2. h \in Handles /\ h.slot = s /\ h.generation = generation[s]
  BY <1>1, TypeFacts, NameFacts DEF IInv
<1>3. h \in handles
  BY <1>1 DEF IInv, ISlot
<1>4. ~(generation[s] < generation[s])
  BY DEF IInv, TypeOK
<1> QED
  BY <1>1, <1>2, <1>3, <1>4 DEF Gone

\* What is gone is not current.
LEMMA GoneFacts ==
  ASSUME TypeOK, NEW h \in Handles, Gone(h)
  PROVE  ~Current(h)
<1> QED
  BY HandleFacts DEF TypeOK, Gone, Current

\* What is freed was handed out and is not current.
LEMMA FreedFacts ==
  ASSUME IInv, NEW h \in freed
  PROVE  h \in handles /\ h \in Handles /\ ~Current(h)
<1> QED
  BY GoneFacts DEF IInv, IFreed, TypeOK

\* Nothing that is promised changes when no handle is got or freed, none starts
\* or stops to be current, and no operation begins or ends.
LEMMA StatusStays ==
  ASSUME handles' = handles, freed' = freed,
         \A h \in handles : Current(h)' <=> Current(h)
  PROVE  \A h : Status(h)' = Status(h)
<1> QED
  BY DEF Status

LEMMA CurrentStays ==
  ASSUME generation' = generation, kind' = kind, state' = state
  PROVE  \A h : Current(h)' <=> Current(h)
<1> QED
  BY DEF Current

\* A step of the promise is a step of it at every handle.
LEMMA PromiseStutters ==
  ASSUME \A h \in Handles : Status(h)' = Status(h) /\ Users(h)' = Users(h)
  PROVE  UNCHANGED Promise!capability
<1> QED
  BY DEF Promise!capability, Users, Busy

\* The five steps of the promise, as changes of a status and a set of users.
LEMMA PromiseOpens ==
  ASSUME NEW h \in Handles, Status(h) = "unused", Status(h)' = "open",
         \A g \in Handles : (g # h => Status(g)' = Status(g)) /\ Users(g)' = Users(g)
  PROVE  Promise!Next
<1>1. Promise!Open(h)
  BY DEF Promise!Open, Users, Busy
<1> QED
  BY <1>1 DEF Promise!Next

LEMMA PromiseUses ==
  ASSUME NEW a \in Actors, NEW h \in Handles, Status(h) = "open", a \notin Users(h),
         Users(h)' = Users(h) \cup {a},
         \A g \in Handles : Status(g)' = Status(g) /\ (g # h => Users(g)' = Users(g))
  PROVE  Promise!Next
<1>1. Promise!Use(a, h)
  <2> DEFINE sts == [g \in Handles |-> Status(g)]
             us == [g \in Handles |-> Users(g)]
  <2>1. us' = [us EXCEPT ![h] = us[h] \cup {a}]
    OBVIOUS
  <2>2. sts' = sts
    OBVIOUS
  <2>3. sts[h] = "open" /\ a \notin us[h]
    OBVIOUS
  <2> QED
    BY <2>1, <2>2, <2>3 DEF Promise!Use, Users, Busy
<1> QED
  BY <1>1 DEF Promise!Next

LEMMA PromiseCloses ==
  ASSUME NEW a \in Actors, NEW h \in Handles, Status(h) = "open", a \notin Users(h),
         Status(h)' = "closing", Users(h)' = Users(h) \cup {a},
         \A g \in Handles : g # h => Status(g)' = Status(g) /\ Users(g)' = Users(g)
  PROVE  Promise!Next
<1>1. Promise!Close(a, h)
  <2> DEFINE sts == [g \in Handles |-> Status(g)]
             us == [g \in Handles |-> Users(g)]
  <2>1. us' = [us EXCEPT ![h] = us[h] \cup {a}]
    OBVIOUS
  <2>2. sts' = [sts EXCEPT ![h] = "closing"]
    OBVIOUS
  <2>3. sts[h] = "open" /\ a \notin us[h]
    OBVIOUS
  <2> QED
    BY <2>1, <2>2, <2>3 DEF Promise!Close, Users, Busy
<1> QED
  BY <1>1 DEF Promise!Next

LEMMA PromiseLeaves ==
  ASSUME NEW a \in Actors, NEW h \in Handles, a \in Users(h),
         Users(h)' = Users(h) \ {a},
         \A g \in Handles : Status(g)' = Status(g) /\ (g # h => Users(g)' = Users(g))
  PROVE  Promise!Next
<1>1. Promise!Leave(a, h)
  <2> DEFINE sts == [g \in Handles |-> Status(g)]
             us == [g \in Handles |-> Users(g)]
  <2>1. us' = [us EXCEPT ![h] = us[h] \ {a}]
    OBVIOUS
  <2>2. sts' = sts
    OBVIOUS
  <2>3. a \in us[h]
    OBVIOUS
  <2> QED
    BY <2>1, <2>2, <2>3 DEF Promise!Leave, Users, Busy
<1> QED
  BY <1>1 DEF Promise!Next

LEMMA PromiseFrees ==
  ASSUME NEW h \in Handles, Status(h) = "closing", Users(h) = {}, Status(h)' = "freed",
         \A g \in Handles : (g # h => Status(g)' = Status(g)) /\ Users(g)' = Users(g)
  PROVE  Promise!Next
<1>1. Promise!Free(h)
  BY DEF Promise!Free, Users, Busy
<1> QED
  BY <1>1 DEF Promise!Next

\* These steps are none of the promise: no handle is handed out, used or closed.
LEMMA ReservePopIsPromised ==
  ASSUME IInv, IInv', NEW a \in Actors, ReservePop(a)
  PROVE  Promise!Next \/ UNCHANGED Promise!capability
<1>1. Step(a, "reserved", Head(free), None, None) /\ at[a] = "idle"
  BY DEF ReservePop
<1>2. \A h : Users(h)' = Users(h)
  BY <1>1, UsersStay DEF IInv, Busy
<1>3. \A h : Status(h)' = Status(h)
  <2>1. /\ generation' = generation /\ kind' = kind /\ state' = state
        /\ handles' = handles /\ freed' = freed
    BY DEF ReservePop, slotVars
  <2> QED
    BY <2>1, CurrentStays, StatusStays
<1> QED
  BY <1>2, <1>3, PromiseStutters

LEMMA ReserveGrowIsPromised ==
  ASSUME IInv, IInv', NEW a \in Actors, ReserveGrow(a)
  PROVE  Promise!Next \/ UNCHANGED Promise!capability
<1>1. \E s : Step(a, "reserved", s, None, None) /\ at[a] = "idle"
  BY DEF ReserveGrow
<1>2. \A h : Users(h)' = Users(h)
  BY <1>1, UsersStay DEF IInv, Busy
<1>3. \A h : Status(h)' = Status(h)
  <2>1. /\ generation' = generation /\ kind' = kind /\ state' = state
        /\ handles' = handles /\ freed' = freed
    BY DEF ReserveGrow, slotVars
  <2> QED
    BY <2>1, CurrentStays, StatusStays
<1> QED
  BY <1>2, <1>3, PromiseStutters

LEMMA AbandonIsPromised ==
  ASSUME IInv, IInv', NEW a \in Actors, Abandon(a)
  PROVE  Promise!Next \/ UNCHANGED Promise!capability
<1>1. Step(a, "recycle", slot[a], None, None) /\ at[a] = "opening"
  BY DEF Abandon
<1>2. \A h : Users(h)' = Users(h)
  BY <1>1, UsersStay DEF IInv, Busy
<1>3. \A h : Status(h)' = Status(h)
  <2>1. /\ generation' = generation /\ kind' = kind /\ state' = state
        /\ handles' = handles /\ freed' = freed
    BY DEF Abandon, slotVars
  <2> QED
    BY <2>1, CurrentStays, StatusStays
<1> QED
  BY <1>2, <1>3, PromiseStutters

LEMMA RecyclePushIsPromised ==
  ASSUME IInv, IInv', NEW a \in Actors, RecyclePush(a)
  PROVE  Promise!Next \/ UNCHANGED Promise!capability
<1>1. Step(a, "idle", None, None, None) /\ at[a] = "push"
  BY DEF RecyclePush, Done
<1>2. \A h : Users(h)' = Users(h)
  BY <1>1, UsersStay DEF IInv, Busy
<1>3. \A h : Status(h)' = Status(h)
  <2>1. /\ generation' = generation /\ kind' = kind /\ state' = state
        /\ handles' = handles /\ freed' = freed
    BY DEF RecyclePush, slotVars
  <2> QED
    BY <2>1, CurrentStays, StatusStays
<1> QED
  BY <1>2, <1>3, PromiseStutters

LEMMA ReserveOpenIsPromised ==
  ASSUME IInv, IInv', NEW a \in Actors, NEW k \in Kinds, ReserveOpen(a, k)
  PROVE  Promise!Next \/ UNCHANGED Promise!capability
<1>1. \A h : Users(h)' = Users(h)
  <2>1. PICK h : Step(a, "opening", slot[a], h, None) /\ at[a] = "reserved"
    BY DEF ReserveOpen
  <2> QED
    BY <2>1, UsersStay DEF IInv, Busy
<1>2. PICK s \in Slots :
        /\ state[s] = "free" /\ state'[s] = "opening"
        /\ \A r \in Slots : r # s => /\ generation'[r] = generation[r]
                                     /\ kind'[r] = kind[r] /\ state'[r] = state[r]
  <2>1. slot[a] \in Slots /\ state[slot[a]] = "free"
    BY DEF ReserveOpen, IInv, IPlace, Placed
  <2> QED
    BY <2>1 DEF ReserveOpen, IInv, TypeOK
<1>3. \A h : Status(h)' = Status(h)
  <2>1. handles' = handles /\ freed' = freed
    BY DEF ReserveOpen
  <2>2. ASSUME NEW h \in handles  PROVE Current(h)' <=> Current(h)
    <3>1. h \in Handles /\ h.slot \in Slots
      BY HandleFacts DEF IInv, TypeOK
    <3>2. CASE h.slot = s
      BY <3>2, <1>2 DEF Current
    <3>3. CASE h.slot # s
      BY <3>1, <3>3, <1>2 DEF Current
    <3> QED
      BY <3>2, <3>3
  <2> QED
    BY <2>1, <2>2, StatusStays
<1> QED
  BY <1>1, <1>3, PromiseStutters

LEMMA RecycleSlotIsPromised ==
  ASSUME IInv, IInv', NEW a \in Actors, RecycleSlot(a)
  PROVE  Promise!Next \/ UNCHANGED Promise!capability
<1>1. \A h : Users(h)' = Users(h)
  <2>1. PICK n : Step(a, "heap", n, None, control[slot[a]]) /\ at[a] = "recycle"
    BY DEF RecycleSlot
  <2> QED
    BY <2>1, UsersStay DEF IInv, Busy
<1>2. PICK s \in Slots :
        /\ state[s] # "live" /\ state'[s] # "live"
        /\ \A r \in Slots : r # s => /\ generation'[r] = generation[r]
                                     /\ kind'[r] = kind[r] /\ state'[r] = state[r]
  <2>1. slot[a] \in Slots /\ state[slot[a]] # "live"
    BY DEF RecycleSlot, IInv, IPlace, Placed
  <2> QED
    BY <2>1 DEF RecycleSlot, IInv, TypeOK
<1>3. \A h : Status(h)' = Status(h)
  <2>1. handles' = handles /\ freed' = freed
    BY DEF RecycleSlot
  <2>2. ASSUME NEW h \in handles  PROVE Current(h)' <=> Current(h)
    <3>1. h \in Handles /\ h.slot \in Slots
      BY HandleFacts DEF IInv, TypeOK
    <3>2. CASE h.slot = s
      BY <3>2, <1>2 DEF Current
    <3>3. CASE h.slot # s
      BY <3>1, <3>3, <1>2 DEF Current
    <3> QED
      BY <3>2, <3>3
  <2> QED
    BY <2>1, <2>2, StatusStays
<1> QED
  BY <1>1, <1>3, PromiseStutters

\* A publish opens the capability of a handle that nobody ever had.
LEMMA PublishIsPromised ==
  ASSUME IInv, IInv', NEW a \in Actors, Publish(a)
  PROVE  Promise!Next \/ UNCHANGED Promise!capability
<1>1. PICK s \in Slots : s = slot[a] /\ mine[a] = Name(s) /\ state[s] = "opening"
  BY DEF Publish, IInv, IPlace, Placed
<1>2. PICK h \in Handles : /\ h = Name(s) /\ h = mine[a] /\ h.slot = s
                           /\ h.generation = generation[s] /\ h.kind = kind[s]
  BY <1>1, TypeFacts, NameFacts DEF IInv
<1>3. \A g : Users(g)' = Users(g)
  <2>1. Step(a, "idle", None, None, None) /\ at[a] = "opening"
    BY DEF Publish, Done
  <2> QED
    BY <2>1, UsersStay DEF IInv, Busy
<1>4. /\ handles' = handles \cup {h} /\ freed' = freed /\ generation' = generation
      /\ kind' = kind /\ state'[s] = "live"
      /\ \A r \in Slots : r # s => state'[r] = state[r]
  BY <1>1, <1>2 DEF Publish, IInv, TypeOK
<1>5. h \notin handles
  <2>1. ~Gone(h)
    BY <1>1, <1>2 DEF Gone, IInv, TypeOK
  <2> QED
    BY <1>1, <1>2, <2>1 DEF IInv, INames
<1>6. Status(h) = "unused" /\ Status(h)' = "open"
  <2>1. h \notin freed'
    BY <1>4, <1>5, FreedFacts
  <2>2. Current(h)' /\ h \in handles'
    BY <1>2, <1>4 DEF Current
  <2> QED
    BY <1>5, <2>1, <2>2 DEF Status
<1>7. ASSUME NEW g \in Handles, g # h  PROVE Status(g)' = Status(g)
  <2>1. CASE g \notin handles
    BY <2>1, <1>4, <1>7 DEF Status
  <2>2. CASE g \in handles /\ g.slot # s
    <3>1. g.slot \in Slots
      BY HandleFacts
    <3>2. Current(g)' <=> Current(g)
      BY <2>2, <3>1, <1>4 DEF Current
    <3> QED
      BY <2>2, <3>2, <1>4 DEF Status
  <2>3. CASE g \in handles /\ g.slot = s
    <3>1. Gone(g)
      BY <2>3, <1>1 DEF IInv, INames
    <3>2. g.generation < generation[s]
      BY <3>1, <2>3, <1>1 DEF Gone
    <3>3. g.generation # generation[s]
      BY <3>2, HandleFacts DEF IInv, TypeOK
    <3>4. ~Current(g) /\ ~Current(g)'
      BY <3>3, <2>3, <1>4 DEF Current
    <3> QED
      BY <2>3, <3>4, <1>4 DEF Status
  <2> QED
    BY <2>1, <2>2, <2>3
<1> QED
  BY <1>3, <1>6, <1>7, PromiseOpens

\* A resolve begins a use of an open capability, a close ends its being open.
LEMMA ResolveIsPromised ==
  ASSUME IInv, IInv', NEW a \in Actors, NEW h \in handles, Resolve(a, h)
  PROVE  Promise!Next \/ UNCHANGED Promise!capability
<1>1. h \in Handles /\ Status(h) = "open"
  <2>1. h \in Handles /\ Current(h)
    BY DEF Resolve, IInv, TypeOK
  <2> QED
    BY <2>1, FreedFacts DEF Status
<1>2. /\ a \notin Users(h) /\ Users(h)' = Users(h) \cup {a}
      /\ \A g : g # h => Users(g)' = Users(g)
  <2>1. PICK s, c : Step(a, "leased", s, h, c) /\ at[a] = "idle"
    BY DEF Resolve
  <2> QED
    BY <2>1, UsersJoin DEF IInv, Busy
<1>3. \A g : Status(g)' = Status(g)
  <2>1. /\ generation' = generation /\ kind' = kind /\ state' = state
        /\ handles' = handles /\ freed' = freed
    BY DEF Resolve
  <2> QED
    BY <2>1, CurrentStays, StatusStays
<1> QED
  BY <1>1, <1>2, <1>3, PromiseUses

LEMMA CloseBeginIsPromised ==
  ASSUME IInv, IInv', NEW a \in Actors, NEW h \in handles, CloseBegin(a, h)
  PROVE  Promise!Next \/ UNCHANGED Promise!capability
<1>1. PICK s \in Slots : /\ h \in Handles /\ h.slot = s /\ h = Name(s) /\ state[s] = "live"
                         /\ Current(h)
  BY CurrentFacts DEF CloseBegin
<1>2. h \notin freed /\ Status(h) = "open"
  BY <1>1, FreedFacts DEF Status
<1>3. /\ a \notin Users(h) /\ Users(h)' = Users(h) \cup {a}
      /\ \A g : g # h => Users(g)' = Users(g)
  <2>1. PICK r, c : Step(a, "closing", r, h, c) /\ at[a] = "idle"
    BY DEF CloseBegin
  <2> QED
    BY <2>1, UsersJoin DEF IInv, Busy
<1>4. /\ generation' = generation /\ kind' = kind /\ handles' = handles /\ freed' = freed
      /\ state'[s] = "closing" /\ \A r \in Slots : r # s => state'[r] = state[r]
  BY <1>1 DEF CloseBegin, IInv, TypeOK
<1>5. Status(h)' = "closing"
  BY <1>1, <1>2, <1>4 DEF Status, Current
<1>6. ASSUME NEW g \in Handles, g # h  PROVE Status(g)' = Status(g)
  <2>1. CASE g \notin handles
    BY <2>1, <1>4 DEF Status
  <2>2. CASE g \in handles /\ g.slot # s
    <3>1. g.slot \in Slots
      BY HandleFacts
    <3>2. Current(g)' <=> Current(g)
      BY <2>2, <3>1, <1>4 DEF Current
    <3> QED
      BY <3>2, <1>4 DEF Status
  <2>3. CASE g \in handles /\ g.slot = s
    <3>1. Gone(g)
      BY <2>3, <1>1, <1>6 DEF IInv, INames
    <3>2. ~Current(g) /\ ~Current(g)'
      BY <3>1, <2>3, <1>4, GoneFacts DEF IInv, Current
    <3> QED
      BY <3>2, <1>4 DEF Status
  <2> QED
    BY <2>1, <2>2, <2>3
<1> QED
  BY <1>1, <1>2, <1>3, <1>5, <1>6, PromiseCloses

\* A release, and the end of a close, end a use.
LEMMA ReleaseIsPromised ==
  ASSUME IInv, IInv', NEW a \in Actors, Release(a)
  PROVE  Promise!Next \/ UNCHANGED Promise!capability
<1>1. PICK h \in Handles : h = mine[a]
  <2>1. mine[a] = Name(slot[a]) /\ slot[a] \in Slots
    BY DEF Release, IInv, IPlace, Placed
  <2> QED
    BY <2>1, TypeFacts, NameFacts DEF IInv
<1>2. /\ a \in Users(h) /\ Users(h)' = Users(h) \ {a}
      /\ \A g : g # h => Users(g)' = Users(g)
  <2>1. PICK p, s : Step(a, p, s, None, None) /\ p \in {"recycle", "idle"}
    BY DEF Release, Settle, Done
  <2>2. at[a] = "leased"
    BY DEF Release
  <2> QED
    BY <1>1, <2>1, <2>2, UsersLeave DEF IInv, Busy
<1>3. \A g : Status(g)' = Status(g)
  <2>1. /\ generation' = generation /\ kind' = kind /\ state' = state
        /\ handles' = handles /\ freed' = freed
    BY DEF Release
  <2> QED
    BY <2>1, CurrentStays, StatusStays
<1> QED
  BY <1>1, <1>2, <1>3, PromiseLeaves

LEMMA CloseFinishIsPromised ==
  ASSUME IInv, IInv', NEW a \in Actors, CloseFinish(a)
  PROVE  Promise!Next \/ UNCHANGED Promise!capability
<1>1. PICK h \in Handles : h = mine[a]
  <2>1. mine[a] = Name(slot[a]) /\ slot[a] \in Slots
    BY DEF CloseFinish, IInv, IPlace, Placed
  <2> QED
    BY <2>1, TypeFacts, NameFacts DEF IInv
<1>2. /\ a \in Users(h) /\ Users(h)' = Users(h) \ {a}
      /\ \A g : g # h => Users(g)' = Users(g)
  <2>1. PICK p, s : Step(a, p, s, None, None) /\ p \in {"recycle", "idle"}
    BY DEF CloseFinish, Settle, Done
  <2>2. at[a] = "closing"
    BY DEF CloseFinish
  <2> QED
    BY <1>1, <2>1, <2>2, UsersLeave DEF IInv, Busy
<1>3. \A g : Status(g)' = Status(g)
  <2>1. /\ generation' = generation /\ kind' = kind /\ state' = state
        /\ handles' = handles /\ freed' = freed
    BY DEF CloseFinish
  <2> QED
    BY <2>1, CurrentStays, StatusStays
<1> QED
  BY <1>1, <1>2, <1>3, PromiseLeaves

\* The control block is freed when no use is left.
LEMMA RecycleHeapIsPromised ==
  ASSUME IInv, IInv', NEW a \in Actors, RecycleHeap(a)
  PROVE  Promise!Next \/ UNCHANGED Promise!capability
<1>1. \A g : Users(g)' = Users(g)
  <2>1. PICK p, s : Step(a, p, s, None, None) /\ p \in {"push", "idle"}
    BY DEF RecycleHeap, Done
  <2>2. at[a] = "heap"
    BY DEF RecycleHeap
  <2> QED
    BY <2>1, <2>2, UsersStay DEF IInv, Busy
<1>2. /\ generation' = generation /\ kind' = kind /\ state' = state
      /\ handles' = handles
  BY DEF RecycleHeap, slotVars
<1>3. \A g : Current(g)' <=> Current(g)
  BY <1>2, CurrentStays
<1>4. CASE held[a] = None
  <2>1. freed' = freed
    BY <1>4 DEF RecycleHeap
  <2> QED
    BY <1>1, <1>2, <1>3, <2>1, StatusStays, PromiseStutters
<1>5. CASE held[a] # None
  <2>1. PICK h \in Handles : /\ h = held[a] /\ h \in handles /\ h \notin freed /\ Gone(h)
                             /\ freed' = freed \cup {h}
    BY <1>5 DEF RecycleHeap, IInv, IFreed, TypeOK
  <2>2. Status(h) = "closing" /\ Status(h)' = "freed"
    BY <2>1, <1>2, GoneFacts DEF Status, IInv
  <2>3. Users(h) = {}
    BY <2>1, UserFacts DEF Users
  <2>4. \A g \in Handles : g # h => Status(g)' = Status(g)
    BY <2>1, <1>2, <1>3 DEF Status
  <2> QED
    BY <2>1, <2>2, <2>3, <2>4, <1>1, PromiseFrees
<1> QED
  BY <1>4, <1>5

\* Every step of the registry is a step of the promise or leaves it alone.
LEMMA StepIsPromised ==
  ASSUME IInv, IInv', [Next]_vars
  PROVE  [Promise!Next]_(Promise!capability)
<1>1. CASE UNCHANGED vars
  <2>1. /\ generation' = generation /\ kind' = kind /\ state' = state
        /\ handles' = handles /\ freed' = freed /\ at' = at /\ mine' = mine
    BY <1>1 DEF vars, slotVars
  <2>2. \A h : Status(h)' = Status(h) /\ Users(h)' = Users(h)
    BY <2>1, CurrentStays, StatusStays DEF Users
  <2> QED
    BY <2>2, PromiseStutters
<1>2. CASE Next
  <2>1. PICK a \in Actors :
          \/ ReservePop(a) \/ ReserveGrow(a)
          \/ \E k \in Kinds : ReserveOpen(a, k)
          \/ Publish(a) \/ Abandon(a)
          \/ \E h \in handles : Resolve(a, h)
          \/ Release(a)
          \/ \E h \in handles : CloseBegin(a, h)
          \/ CloseFinish(a) \/ RecycleSlot(a) \/ RecycleHeap(a) \/ RecyclePush(a)
    BY <1>2, StepCases
  <2> QED
    BY <2>1, ReservePopIsPromised, ReserveGrowIsPromised, ReserveOpenIsPromised,
       PublishIsPromised, AbandonIsPromised, ResolveIsPromised, ReleaseIsPromised,
       CloseBeginIsPromised, CloseFinishIsPromised, RecycleSlotIsPromised,
       RecycleHeapIsPromised, RecyclePushIsPromised
<1> QED
  BY <1>1, <1>2

\* At the start no capability was opened.
LEMMA InitIsPromised == Init => Promise!Init
<1> SUFFICES ASSUME Init PROVE Promise!Init
  OBVIOUS
<1>1. \A h \in Handles : Status(h) = "unused" /\ Users(h) = {}
  BY DEF Init, Status, Users, Busy
<1> QED
  BY <1>1 DEF Promise!Init, Users, Busy

\* Slots and generations implement one capability per handle: it opens once, is
\* used while it is open, is closed once for all its copies, and is freed once
\* when the close and the last operation are over (handle.h).  This is the safety
\* part of ImplementsCapability.
THEOREM ImplementsPromise == Spec => Promise!Spec
<1>1. IInv /\ IInv' /\ [Next]_vars => [Promise!Next]_(Promise!capability)
  BY StepIsPromised
<1> QED
  BY <1>1, InitIsPromised, InductiveInvariant, PTL DEF Spec, Promise!Spec

\* The promise keeps what is closing or freed so.
LEMMA StaleForEver ==
  ASSUME IInv, IInv', [Next]_vars, NEW h \in handles, ~Current(h)
  PROVE  ~Current(h)'
<1>1. h \in Handles /\ Status(h) \in {"freed", "closing"}
  BY DEF Status, IInv, TypeOK
<1>2. [Promise!Next]_(Promise!capability)
  BY StepIsPromised
<1>3. Status(h)' \in {"freed", "closing"}
  <2> DEFINE before == [g \in Handles |-> Status(g)]
  <2>1. before[h] \in {"freed", "closing"}
    BY <1>1
  <2>2. before'[h] \in {"freed", "closing"}
    BY <1>1, <1>2, <2>1 DEF Promise!Next, Promise!Open, Promise!Use, Promise!Close,
       Promise!Leave, Promise!Free, Promise!capability
  <2> QED
    BY <1>1, <2>2
<1>4. CASE Status(h)' = "closing"
  BY <1>4 DEF Status
<1>5. CASE Status(h)' = "freed"
  <2>1. h \in freed'
    BY <1>5 DEF Status
  <2>2. h \in Handles /\ Gone(h)' /\ TypeOK'
    BY <2>1, <1>1 DEF IInv, IFreed, Gone
  <2> QED
    BY <2>2, HandleFacts DEF TypeOK, Gone, Current
<1> QED
  BY <1>3, <1>4, <1>5

\* A handle that is not current never becomes current again, however often its
\* slot is used: hex_handle_close_begin invalidates every public copy, and
\* hex_handle_recycle increments the generation before the next publish.
THEOREM StaleStaysStale == Spec => StaysClosed
<1>1. IInv /\ IInv' /\ [Next]_vars => [\A h \in handles : ~Current(h) => ~Current(h)']_vars
  BY StaleForEver
<1> QED
  BY <1>1, InductiveInvariant, PTL DEF Spec, StaysClosed
=============================================================================
