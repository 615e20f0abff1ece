--------------------------- MODULE SchedulerProofs ---------------------------
(***************************************************************************)
(* Proofs about the scheduler, for any finite set of workers, any Tasks,   *)
(* and whether or not programs keep aliases of Task handles.               *)
(*                                                                         *)
(* The inductive invariant IInv of the module Scheduler says what a Task's *)
(* park phase, fiber and life tell of where the Task is.  Type correctness *)
(* alone is not inductive: a publisher's target is a Task, and not the     *)
(* null pointer, because of IWake.  ILost, which says that neither a wake  *)
(* nor a Task is lost, is inductive over it; so is Awake, which counts the *)
(* workers that no signal needs to wake.                                   *)
(***************************************************************************)
EXTENDS Scheduler, FiniteSetTheorems, TLAPS

\* Removing a queue position keeps the others, in order.
LEMMA WithoutFacts ==
  ASSUME NEW q \in Seq(Tasks), NEW i \in 1..Len(q)
  PROVE  /\ Without(q, i) \in Seq(Tasks)
         /\ Len(Without(q, i)) = Len(q) - 1
         /\ \A j \in 1..Len(Without(q, i)) :
              Without(q, i)[j] = IF j < i THEN q[j] ELSE q[j + 1]
<1>1. Len(q) \in Nat /\ Len(q) >= 1
  OBVIOUS
<1>2. \A j \in 1..(Len(q) - 1) : j \in 1..Len(q) /\ j + 1 \in 1..Len(q)
  BY <1>1
<1>3. \A j \in 1..(Len(q) - 1) : (IF j < i THEN q[j] ELSE q[j + 1]) \in Tasks
  BY <1>2
<1>4. Without(q, i) \in [1..(Len(q) - 1) -> Tasks]
  BY <1>3 DEF Without
<1>5. Without(q, i) \in Seq(Tasks) /\ Len(Without(q, i)) = Len(q) - 1
  BY <1>1, <1>4
<1> QED
  BY <1>4, <1>5 DEF Without

\* Where a signal or a broadcast leaves the workers.
LEMMA SignalledFacts ==
  ASSUME TypeOK, NEW places \in Signalled(at) \cup {Broadcast(at)}
  PROVE  /\ places \in [Workers -> DispatchPlaces \cup FiberPlaces \cup {"trap", "misuse"}]
         /\ \A w \in Workers : \/ places[w] = at[w]
                               \/ at[w] = "sleep" /\ places[w] = "look"
BY DEF TypeOK, Signalled, Broadcast, Sleepers, DispatchPlaces

\* A step of one worker to a place leaves every worker at a place.
LEMMA GotoType ==
  ASSUME TypeOK, NEW w \in Workers, NEW p \in DispatchPlaces, Goto(w, p)
  PROVE  at' \in [Workers -> DispatchPlaces \cup FiberPlaces \cup {"trap", "misuse"}]
BY DEF TypeOK, Goto, DispatchPlaces

\* A Task in a worker's hand has a fiber, and no waker may publish it.
LEMMA HeldFacts ==
  ASSUME IInv, NEW w \in Workers, hand[w] # NoTask
  PROVE  /\ hand[w] \in Tasks
         /\ fiber[hand[w]] \in {"fresh", "entered"}
         /\ phase[hand[w]] # "parked"
<1> USE DEF IInv
<1>1. hand[w] \in Tasks
  BY DEF TypeOK
<1>2. at[w] \in FiberPlaces \cup {"misuse", "resume", "commit", "release"}
  BY DEF TypeOK, IHand, NoTrap, IdlePlaces, DispatchPlaces, FiberPlaces
<1>3. CASE at[w] \in {"user", "join", "detach", "reclaim", "misuse"}
  BY <1>1, <1>3 DEF IHand, Active, Calm
<1>4. CASE at[w] = "resume"
  BY <1>1, <1>4 DEF IHand, Startable, Calm
<1>5. CASE at[w] \in {"switch", "commit"}
  BY <1>1, <1>5 DEF IHand, Switching, Calm
<1>6. CASE at[w] = "release"
  BY <1>1, <1>6 DEF IHand, IFate, Calm
<1> QED
  BY <1>2, <1>3, <1>4, <1>5, <1>6 DEF FiberPlaces

-----------------------------------------------------------------------------
\* One lemma for each action, with one step for each conjunct.

\* A yielding Task keeps the invariant: it stays in its worker's hand.
LEMMA YieldKeeps ==
  ASSUME IInv, NEW w \in Workers, Yield(w)
  PROVE  IInv'
<1> USE DEF IInv, Yield
<1>1. TypeOK'
  BY DEF InUser, Goto, TypeOK, FiberPlaces, IHand, IdlePlaces
<1>2. IHand'
  BY SMTT(30) DEF InUser, Goto, IHand, Active, Startable, Switching, Calm,
      IdlePlaces, TypeOK, IApart
<1>3. IApart'
  BY DEF IApart
<1>4. IQueue'
  BY DEF IQueue, Startable, Calm, IApart
<1>5. IWake'
  BY SMTT(30) DEF InUser, Goto, IWake, Suspended, Startable, Calm, IHand, Active
<1>6. IWaiting'
  BY DEF InUser, IWaiting, Suspended, IHand, Active, Calm
<1>7. IJoiner'
  BY DEF InUser, IJoiner, Suspended, IHand, Active, Calm
<1>8. IOwner'
  BY DEF InUser, Goto, IOwner, Owns
<1>9. IFate'
  BY DEF InUser, IFate, Calm, TypeOK, IHand, Active
<1>10. RootPinned'
  BY DEF RootPinned
<1>11. NoTrap'
  BY DEF NoTrap, TypeOK, InUser, Goto
<1> QED
  BY <1>1, <1>2, <1>3, <1>4, <1>5, <1>6, <1>7, <1>8, <1>9, <1>10, <1>11

\* A Task that registers with a wait source keeps it.
LEMMA ParkKeeps ==
  ASSUME IInv, NEW w \in Workers, Park(w)
  PROVE  IInv'
<1> USE DEF IInv, Park
<1>1. TypeOK'
  BY DEF InUser, Goto, TypeOK, FiberPlaces, IHand, IdlePlaces
<1>2. IHand'
  BY SMTT(30) DEF InUser, Goto, IHand, Active, Startable, Switching, Calm,
      IdlePlaces, TypeOK, IApart
<1>3. IApart'
  BY DEF IApart
<1>4. IQueue'
  BY DEF IQueue, Startable, Calm, IApart
<1>5. IWake'
  BY SMTT(30) DEF InUser, Goto, IWake, Suspended, Startable, Calm, IHand, Active
<1>6. IWaiting'
  BY SMTT(30), SchedulerAssumption DEF SchedulerAssumption, InUser, IWaiting,
      Suspended, TypeOK, IHand, Active, Calm, IdlePlaces, IApart, IWake
<1>7. IJoiner'
  BY DEF IJoiner, Suspended
<1>8. IOwner'
  BY DEF InUser, Goto, IOwner, Owns
<1>9. IFate'
  BY DEF InUser, IFate, Calm, TypeOK, IHand, Active
<1>10. RootPinned'
  BY DEF RootPinned
<1>11. NoTrap'
  BY DEF NoTrap, TypeOK, InUser, Goto
<1> QED
  BY <1>1, <1>2, <1>3, <1>4, <1>5, <1>6, <1>7, <1>8, <1>9, <1>10, <1>11

\* So does a Task whose entry returned.
LEMMA CompleteKeeps ==
  ASSUME IInv, NEW w \in Workers, Complete(w)
  PROVE  IInv'
<1> USE DEF IInv, Complete
<1>1. TypeOK'
  BY DEF InUser, Goto, TypeOK, FiberPlaces, IHand, IdlePlaces
<1>2. IHand'
  BY SMTT(30) DEF InUser, Goto, IHand, Active, Startable, Switching, Calm,
      IdlePlaces, TypeOK, IApart
<1>3. IApart'
  BY DEF IApart
<1>4. IQueue'
  BY DEF IQueue, Startable, Calm, IApart
<1>5. IWake'
  BY SMTT(30) DEF InUser, Goto, IWake, Suspended, Startable, Calm, IApart
<1>6. IWaiting'
  BY DEF IWaiting, Suspended
<1>7. IJoiner'
  BY DEF IJoiner, Suspended
<1>8. IOwner'
  BY DEF InUser, Goto, IOwner, Owns, IHand, Active
<1>9. IFate'
  BY DEF InUser, IFate, Calm, IHand, Active
<1>10. RootPinned'
  BY DEF RootPinned
<1>11. NoTrap'
  BY DEF NoTrap, TypeOK, InUser, Goto
<1> QED
  BY <1>1, <1>2, <1>3, <1>4, <1>5, <1>6, <1>7, <1>8, <1>9, <1>10, <1>11

\* The switch to the dispatcher.
LEMMA SwitchOutKeeps ==
  ASSUME IInv, NEW w \in Workers, SwitchOut(w)
  PROVE  IInv'
<1> USE DEF IInv, SwitchOut
<1>1. TypeOK'
  BY DEF Goto, TypeOK, DispatchPlaces
<1>2. IHand'
  BY SMTT(30) DEF Goto, IHand, Active, Startable, Switching, Calm, IdlePlaces
<1>3. IApart'
  BY DEF IApart
<1>4. IQueue'
  BY DEF IQueue, Startable, Calm
<1>5. IWake'
  BY DEF Goto, IWake, Suspended, Startable, Calm
<1>6. IWaiting'
  BY DEF IWaiting, Suspended
<1>7. IJoiner'
  BY DEF IJoiner, Suspended
<1>8. IOwner'
  BY DEF Goto, IOwner, Owns
<1>9. IFate'
  BY DEF IFate, Calm
<1>10. RootPinned'
  BY DEF RootPinned
<1>11. NoTrap'
  BY DEF NoTrap, TypeOK, Goto
<1> QED
  BY <1>1, <1>2, <1>3, <1>4, <1>5, <1>6, <1>7, <1>8, <1>9, <1>10, <1>11

\* The dispatcher lets go of a parked Task only now: from here a waker may publish it.
LEMMA CommitParkKeeps ==
  ASSUME IInv, NEW w \in Workers, CommitPark(w)
  PROVE  IInv'
<1> USE DEF IInv, CommitPark
<1>1. TypeOK'
  BY SMTT(30) DEF Goto, Drop, TypeOK, DispatchPlaces, IHand, Calm, IdlePlaces
<1>2. IHand'
  BY SMTT(30) DEF Goto, Drop, IHand, Active, Startable, Switching, Calm,
      IdlePlaces, TypeOK, IApart
<1>3. IApart'
  BY SchedulerAssumption DEF SchedulerAssumption, Drop, IApart, TypeOK, IWake
<1>4. IQueue'
  BY DEF IQueue, Startable, Calm
<1>5. IWake'
  BY DEF Goto, IWake, Suspended, Startable, Calm
<1>6. IWaiting'
  BY DEF IWaiting, Suspended
<1>7. IJoiner'
  BY DEF IJoiner, Suspended
<1>8. IOwner'
  BY DEF Goto, Drop, IOwner, Owns
<1>9. IFate'
  BY DEF IFate, Calm
<1>10. RootPinned'
  BY SchedulerAssumption DEF SchedulerAssumption, Drop, RootPinned
<1>11. NoTrap'
  BY DEF NoTrap, TypeOK, Goto, Drop
<1> QED
  BY <1>1, <1>2, <1>3, <1>4, <1>5, <1>6, <1>7, <1>8, <1>9, <1>10, <1>11

\* The dispatcher publishes a Task that was woken while it switched out.
LEMMA CommitNotifiedKeeps ==
  ASSUME IInv, NEW w \in Workers, CommitNotified(w)
  PROVE  IInv'
<1> USE DEF IInv, CommitNotified
<1>1. TypeOK'
  <2>1. phase[hand[w]] = "notified" /\ hand[w] \in Tasks
    BY SchedulerAssumption
    DEF SchedulerAssumption, TypeOK, IHand, Switching, Calm, IdlePlaces
  <2>2. /\ at' \in [Workers -> DispatchPlaces \cup FiberPlaces \cup {"trap", "misuse"}]
        /\ hand' \in [Workers -> Tasks \cup {NoTask}]
    BY SMTT(30), <2>1 DEF TypeOK, Goto, Drop, DispatchPlaces
  <2>3. /\ waking' \in [Actors -> {"no", "first", "second", "publish"}]
        /\ target' \in [Actors -> Tasks \cup {NoTask}]
        /\ phase' \in [Tasks -> {"running", "parking", "parked", "notified", "ready"}]
    BY SMTT(30), <2>1 DEF TypeOK, Actors
  <2> QED
    BY <2>1, <2>2, <2>3 DEF TypeOK
<1>2. IHand'
  BY SMTT(30) DEF Goto, Drop, IHand, Active, Startable, Switching, Calm,
      IdlePlaces, TypeOK, Actors, IApart
<1>3. IApart'
  BY SMTT(30), SchedulerAssumption DEF SchedulerAssumption, Goto, Drop, IApart,
      TypeOK, IHand, Active, Startable, IdlePlaces, IWake, Suspended
<1>4. IQueue'
  BY DEF IQueue, Startable, Calm, TypeOK
<1>5. IWake'
  BY SMTT(30), SchedulerAssumption DEF SchedulerAssumption, Goto, Drop, IWake,
      Suspended, Startable, Calm, Actors, TypeOK, DispatchPlaces, FiberPlaces,
      IHand, Active, Switching, IdlePlaces, IFate
<1>6. IWaiting'
  BY DEF IWaiting, Suspended, TypeOK
<1>7. IJoiner'
  BY DEF IJoiner, Suspended, TypeOK
<1>8. IOwner'
  BY SMTT(30) DEF Goto, Drop, IOwner, Owns, TypeOK, DispatchPlaces, Actors
<1>9. IFate'
  BY DEF IFate, Calm, TypeOK
<1>10. RootPinned'
  BY SchedulerAssumption DEF SchedulerAssumption, Drop, RootPinned, TypeOK
<1>11. NoTrap'
  BY SMTT(30) DEF NoTrap, TypeOK, Goto, Drop, IHand, Switching, Calm
<1> QED
  BY <1>1, <1>2, <1>3, <1>4, <1>5, <1>6, <1>7, <1>8, <1>9, <1>10, <1>11

\* A finished Task is done; its joiner becomes the dispatcher's to wake.
LEMMA CommitDoneKeeps ==
  ASSUME IInv, NEW w \in Workers, CommitDone(w)
  PROVE  IInv'
<1> USE DEF IInv, CommitDone
<1>1. TypeOK'
  <2>1. hand[w] \in Tasks
    BY DEF IHand, IdlePlaces, TypeOK
  <2>6. Goto(w, "look") \/ Goto(w, "release") \/ Goto(w, "shutdown")
    OBVIOUS
  <2>2. at' \in [Workers -> DispatchPlaces \cup FiberPlaces \cup {"trap", "misuse"}]
    BY <2>6, GotoType DEF DispatchPlaces
  <2>5. hand' \in [Workers -> Tasks \cup {NoTask}]
    BY DEF TypeOK, Drop
  <2>3. /\ waking' \in [Actors -> {"no", "first", "second", "publish"}]
        /\ target' \in [Actors -> Tasks \cup {NoTask}]
    BY <2>1 DEF TypeOK, Actors, StartWake
  <2>4. /\ life' \in [Tasks -> {"running", "completing", "done"}]
        /\ joiner' \in [Tasks -> Tasks \cup {NoTask}]
    BY DEF TypeOK
  <2> QED
    BY <2>2, <2>3, <2>4, <2>5 DEF TypeOK
<1>2. IHand'
  BY SMTT(30) DEF Goto, Drop, IHand, Active, Startable, Switching, Calm,
      IdlePlaces, TypeOK, IApart
<1>3. IApart'
  BY SMTT(30), SchedulerAssumption DEF SchedulerAssumption, Drop, StartWake,
      IApart, TypeOK, DispatchPlaces, IHand, Active, Startable, Switching,
      IdlePlaces, IJoiner, IWake
<1>4. IQueue'
  BY DEF IQueue, Startable, Calm, IApart
<1>5. IWake'
  BY SMTT(30) DEF Goto, StartWake, IWake, Suspended, Startable, Calm, TypeOK,
      IHand, Switching, IdlePlaces, IJoiner
<1>6. IWaiting'
  BY SMTT(30) DEF Drop, StartWake, IWaiting, Suspended, TypeOK, IHand,
      IdlePlaces, IJoiner
<1>7. IJoiner'
  <2>1. hand[w] \in Tasks
    BY DEF IHand, IdlePlaces, TypeOK
  <2> SUFFICES ASSUME NEW u \in Tasks, joiner'[u] # NoTask
               PROVE  /\ Suspended(joiner[u])'
                      /\ callee'[joiner'[u]] = u
                      /\ life'[u] # "done"
                      /\ claim'[u] = "join"
                      /\ \A a \in Actors : target'[a] # joiner'[u]
    BY DEF IJoiner
  <2>2. u # hand[w] /\ joiner'[u] = joiner[u] /\ life'[u] = life[u]
    BY <2>1 DEF TypeOK
  <2>3. joiner[hand[w]] # NoTask => joiner[hand[w]] # joiner[u]
    BY <2>1, <2>2 DEF IJoiner
  <2>4. \A a \in Actors : \/ target'[a] = target[a]
                         \/ /\ target'[a] = joiner[hand[w]]
                            /\ joiner[hand[w]] # NoTask
    BY DEF StartWake, TypeOK
  <2>5. \A a \in Actors : target'[a] # joiner'[u]
    BY <2>2, <2>3, <2>4 DEF IJoiner
  <2> QED
    BY <2>2, <2>5 DEF IJoiner, Suspended
<1>8. IOwner'
  BY SMTT(30), SchedulerAssumption DEF SchedulerAssumption, Goto, Drop, IOwner,
      Owns, TypeOK, IHand, Active, Switching, Calm
<1>9. IFate'
  BY DEF IFate, Calm, IHand, Switching
<1>10. RootPinned'
  BY SchedulerAssumption DEF SchedulerAssumption, Drop, RootPinned, TypeOK
<1>11. NoTrap'
  BY DEF NoTrap, TypeOK, Goto, Drop, StartWake
<1> QED
  BY <1>1, <1>2, <1>3, <1>4, <1>5, <1>6, <1>7, <1>8, <1>9, <1>10, <1>11

\* A detached Task is destroyed: nothing else refers to it.
LEMMA ReleaseKeeps ==
  ASSUME IInv, NEW w \in Workers, Release(w)
  PROVE  IInv'
<1> USE DEF IInv, Release
<1>1. TypeOK'
  BY DEF Goto, Drop, TypeOK, DispatchPlaces, IHand, IdlePlaces
<1>2. IHand'
  BY SMTT(30) DEF Goto, Drop, IHand, Active, Startable, Switching, Calm,
      IdlePlaces, TypeOK, IApart
<1>3. IApart'
  BY SchedulerAssumption DEF SchedulerAssumption, Drop, IApart, TypeOK, IWake
<1>4. IQueue'
  BY DEF IQueue, Startable, Calm, IApart
<1>5. IWake'
  BY DEF Goto, IWake, Suspended, Startable, Calm, IApart
<1>6. IWaiting'
  BY DEF IWaiting, Suspended
<1>7. IJoiner'
  BY DEF IJoiner, Suspended
<1>8. IOwner'
  BY DEF Goto, Drop, IOwner, Owns
<1>9. IFate'
  BY DEF IFate, Calm, IHand
<1>10. RootPinned'
  BY SchedulerAssumption DEF SchedulerAssumption, Drop, RootPinned
<1>11. NoTrap'
  BY DEF NoTrap, TypeOK, Goto, Drop
<1> QED
  BY <1>1, <1>2, <1>3, <1>4, <1>5, <1>6, <1>7, <1>8, <1>9, <1>10, <1>11

\* Root's completion stores the flag.
LEMMA StoreShutdownKeeps ==
  ASSUME IInv, NEW w \in Workers, StoreShutdown(w)
  PROVE  IInv'
<1> USE DEF IInv, StoreShutdown
<1>1. TypeOK'
  BY DEF Goto, TypeOK, DispatchPlaces
<1>2. IHand'
  BY SMTT(30) DEF Goto, IHand, Active, Startable, Switching, Calm, IdlePlaces
<1>3. IApart'
  BY DEF IApart
<1>4. IQueue'
  BY DEF IQueue, Startable, Calm
<1>5. IWake'
  BY DEF Goto, IWake, Suspended, Startable, Calm
<1>6. IWaiting'
  BY DEF IWaiting, Suspended
<1>7. IJoiner'
  BY DEF IJoiner, Suspended
<1>8. IOwner'
  BY DEF Goto, IOwner, Owns
<1>9. IFate'
  BY DEF IFate, Calm
<1>10. RootPinned'
  BY DEF RootPinned
<1>11. NoTrap'
  BY DEF NoTrap, TypeOK, Goto
<1> QED
  BY <1>1, <1>2, <1>3, <1>4, <1>5, <1>6, <1>7, <1>8, <1>9, <1>10, <1>11

\* A worker stops with empty hands.
LEMMA LookStopKeeps ==
  ASSUME IInv, NEW w \in Workers, LookStop(w)
  PROVE  IInv'
<1> USE DEF IInv, LookStop
<1>1. TypeOK'
  BY DEF Goto, TypeOK, DispatchPlaces
<1>2. IHand'
  BY SMTT(30) DEF Goto, Looking, IHand, Active, Startable, Switching, Calm,
      IdlePlaces
<1>3. IApart'
  BY DEF IApart
<1>4. IQueue'
  BY DEF IQueue, Startable, Calm
<1>5. IWake'
  BY DEF Goto, Looking, IWake, Suspended, Startable, Calm
<1>6. IWaiting'
  BY DEF IWaiting, Suspended
<1>7. IJoiner'
  BY DEF IJoiner, Suspended
<1>8. IOwner'
  BY DEF Goto, Looking, IOwner, Owns
<1>9. IFate'
  BY DEF IFate, Calm
<1>10. RootPinned'
  BY DEF RootPinned
<1>11. NoTrap'
  BY DEF NoTrap, TypeOK, Goto, Looking
<1> QED
  BY <1>1, <1>2, <1>3, <1>4, <1>5, <1>6, <1>7, <1>8, <1>9, <1>10, <1>11

\* A worker sleeps with empty hands.
LEMMA LookSleepKeeps ==
  ASSUME IInv, NEW w \in Workers, LookSleep(w)
  PROVE  IInv'
<1> USE DEF IInv, LookSleep
<1>1. TypeOK'
  BY DEF Goto, TypeOK, DispatchPlaces
<1>2. IHand'
  BY SMTT(30) DEF Goto, Looking, IHand, Active, Startable, Switching, Calm,
      IdlePlaces
<1>3. IApart'
  BY DEF IApart
<1>4. IQueue'
  BY DEF IQueue, Startable, Calm
<1>5. IWake'
  BY DEF Goto, Looking, IWake, Suspended, Startable, Calm
<1>6. IWaiting'
  BY DEF IWaiting, Suspended
<1>7. IJoiner'
  BY DEF IJoiner, Suspended
<1>8. IOwner'
  BY DEF Goto, Looking, IOwner, Owns
<1>9. IFate'
  BY DEF IFate, Calm
<1>10. RootPinned'
  BY DEF RootPinned
<1>11. NoTrap'
  BY DEF NoTrap, TypeOK, Goto, Looking
<1> QED
  BY <1>1, <1>2, <1>3, <1>4, <1>5, <1>6, <1>7, <1>8, <1>9, <1>10, <1>11

\* A worker wakes without a signal.
LEMMA SpuriousWakeupKeeps ==
  ASSUME IInv, NEW w \in Workers, SpuriousWakeup(w)
  PROVE  IInv'
<1> USE DEF IInv, SpuriousWakeup
<1>1. TypeOK'
  BY DEF Goto, TypeOK, DispatchPlaces
<1>2. IHand'
  BY SMTT(30) DEF Goto, IHand, Active, Startable, Switching, Calm, IdlePlaces
<1>3. IApart'
  BY DEF IApart
<1>4. IQueue'
  BY DEF IQueue, Startable, Calm
<1>5. IWake'
  BY DEF Goto, IWake, Suspended, Startable, Calm
<1>6. IWaiting'
  BY DEF IWaiting, Suspended
<1>7. IJoiner'
  BY DEF IJoiner, Suspended
<1>8. IOwner'
  BY DEF Goto, IOwner, Owns
<1>9. IFate'
  BY DEF IFate, Calm
<1>10. RootPinned'
  BY DEF RootPinned
<1>11. NoTrap'
  BY DEF NoTrap, TypeOK, Goto
<1> QED
  BY <1>1, <1>2, <1>3, <1>4, <1>5, <1>6, <1>7, <1>8, <1>9, <1>10, <1>11

\* A fresh Task begins.
LEMMA EnterKeeps ==
  ASSUME IInv, NEW w \in Workers, Enter(w)
  PROVE  IInv'
<1> USE DEF IInv, Enter
<1>1. TypeOK'
  BY DEF Goto, TypeOK, FiberPlaces, IHand, Switching, IdlePlaces
<1>2. IHand'
  BY SMTT(30) DEF Goto, IHand, Active, Startable, Switching, Calm, IdlePlaces,
      TypeOK, IApart, IFate
<1>3. IApart'
  BY DEF IApart
<1>4. IQueue'
  BY DEF IQueue, Startable, Calm, IApart
<1>5. IWake'
  BY DEF Goto, IWake, Suspended, Startable, Calm, IApart
<1>6. IWaiting'
  BY DEF IWaiting, Suspended
<1>7. IJoiner'
  BY DEF IJoiner, Suspended
<1>8. IOwner'
  BY DEF Goto, IOwner, Owns
<1>9. IFate'
  BY DEF IFate, Calm
<1>10. RootPinned'
  BY DEF RootPinned
<1>11. NoTrap'
  BY DEF NoTrap, TypeOK, Goto
<1> QED
  BY <1>1, <1>2, <1>3, <1>4, <1>5, <1>6, <1>7, <1>8, <1>9, <1>10, <1>11

\* A published Task is resumed, and never finds another phase than ready.
LEMMA ResumeKeeps ==
  ASSUME IInv, NEW w \in Workers, Resume(w)
  PROVE  IInv'
<1> USE DEF IInv, Resume
<1>1. TypeOK'
  <2>1. at' \in [Workers -> DispatchPlaces \cup FiberPlaces \cup {"trap", "misuse"}]
    BY DEF TypeOK, FiberPlaces, Goto
  <2>2. phase' \in [Tasks -> {"running", "parking", "parked", "notified", "ready"}]
    BY DEF TypeOK
  <2>3. pending' \in [Tasks -> BOOLEAN]
    BY DEF TypeOK
  <2> QED
    BY <2>1, <2>2, <2>3 DEF TypeOK
<1>2. IHand'
  BY SMTT(30) DEF Goto, IHand, Active, Startable, Switching, Calm, IdlePlaces,
      TypeOK, IApart
<1>3. IApart'
  BY DEF IApart
<1>4. IQueue'
  BY DEF IQueue, Startable, Calm, TypeOK, IApart
<1>5. IWake'
  BY SMTT(30) DEF Goto, IWake, Suspended, Startable, Calm, TypeOK, IApart
<1>6. IWaiting'
  BY DEF IWaiting, Suspended, TypeOK
<1>7. IJoiner'
  <2>1. phase[hand[w]] = "ready" /\ hand[w] # NoTask
    BY DEF IHand, Startable, IdlePlaces
  <2>2. \A u \in Tasks : joiner[u] # hand[w]
    BY <2>1 DEF IJoiner, Suspended
  <2> QED
    BY <2>1, <2>2 DEF IJoiner, Suspended, TypeOK
<1>8. IOwner'
  BY SMTT(30), SchedulerAssumption DEF SchedulerAssumption, Goto, IOwner, Owns,
      TypeOK, IHand, Startable, Calm, IWake, Suspended, IFate, IJoiner, IWaiting
<1>9. IFate'
  BY DEF IFate, Calm, TypeOK
<1>10. RootPinned'
  BY DEF RootPinned
<1>11. NoTrap'
  BY DEF NoTrap, TypeOK, Goto, IHand, Startable, Calm
<1> QED
  BY <1>1, <1>2, <1>3, <1>4, <1>5, <1>6, <1>7, <1>8, <1>9, <1>10, <1>11

\* A join claims its target, and parks unless the target is done.
LEMMA JoinClaimKeeps ==
  ASSUME IInv, NEW w \in Workers, JoinClaim(w)
  PROVE  IInv'
<1> USE DEF IInv, JoinClaim
<1>1. TypeOK'
  <2>1. at' \in [Workers -> DispatchPlaces \cup FiberPlaces \cup {"trap", "misuse"}]
    BY DEF TypeOK, FiberPlaces, Goto
  <2>2. phase' \in [Tasks -> {"running", "parking", "parked", "notified", "ready"}]
    BY DEF TypeOK
  <2>3. pending' \in [Tasks -> BOOLEAN]
    <3>1. \/ pending' = pending
          \/ pending' = [pending EXCEPT ![hand[w]] = TRUE]
      OBVIOUS
    <3> QED
      BY <3>1 DEF TypeOK
  <2>4. joiner' \in [Tasks -> Tasks \cup {NoTask}]
    BY DEF TypeOK
  <2>5. claim' \in [Tasks -> {"none", "join", "detach"}]
    BY DEF TypeOK
  <2> QED
    BY <2>1, <2>2, <2>3, <2>4, <2>5 DEF TypeOK
<1>2. IHand'
  BY SMTT(30) DEF Goto, IHand, Active, Startable, Switching, Calm, IdlePlaces,
      TypeOK, IApart
<1>3. IApart'
  BY DEF IApart
<1>4. IQueue'
  BY DEF IQueue, Startable, Calm, TypeOK, IApart
<1>5. IWake'
  BY SMTT(30) DEF Goto, IWake, Suspended, Startable, Calm, TypeOK, IHand, Active
<1>6. IWaiting'
  BY DEF IWaiting, Suspended, TypeOK
<1>7. IJoiner'
  BY SMTT(30) DEF IJoiner, Suspended, TypeOK, IHand, Active, Startable, Calm,
      IWake
<1>8. IOwner'
  BY SMTT(30), SchedulerAssumption DEF SchedulerAssumption, Goto, IOwner, Owns,
      TypeOK, DispatchPlaces, FiberPlaces, Actors, IHand, Active, Startable,
      Switching, Calm, IdlePlaces, IFate
<1>9. IFate'
  BY SMTT(30) DEF IFate, Calm, TypeOK, IHand, Startable, Switching, IdlePlaces
<1>10. RootPinned'
  BY DEF RootPinned
<1>11. NoTrap'
  BY DEF NoTrap, TypeOK, Goto
<1> QED
  BY <1>1, <1>2, <1>3, <1>4, <1>5, <1>6, <1>7, <1>8, <1>9, <1>10, <1>11

\* A detach claims its target.
LEMMA DetachClaimKeeps ==
  ASSUME IInv, NEW w \in Workers, DetachClaim(w)
  PROVE  IInv'
<1> USE DEF IInv, DetachClaim
<1>1. TypeOK'
  BY SMTT(30) DEF Goto, TypeOK, FiberPlaces, Actors, IHand, Active, Startable,
      Switching, Calm, IdlePlaces, IApart
<1>2. IHand'
  BY SMTT(30) DEF Goto, IHand, Active, Startable, Switching, Calm, IdlePlaces,
      TypeOK, IApart
<1>3. IApart'
  BY DEF IApart
<1>4. IQueue'
  BY DEF IQueue, Startable, Calm
<1>5. IWake'
  BY SchedulerAssumption DEF SchedulerAssumption, Goto, IWake, Suspended,
      Startable, Calm, TypeOK
<1>6. IWaiting'
  BY DEF IWaiting, Suspended, TypeOK
<1>7. IJoiner'
  BY DEF IJoiner, Suspended, TypeOK
<1>8. IOwner'
  <2> DEFINE self == hand[w]
             t == callee[hand[w]]
  <2>1. self \in Tasks /\ t \in Tasks /\ ~pending[self]
    BY DEF IHand, Active, Calm, IdlePlaces, TypeOK
  <2>2. \A v \in Workers : v # w => at'[v] = at[v] /\ hand[v] # self
    BY <2>1, SchedulerAssumption DEF SchedulerAssumption, Goto, TypeOK, IApart
  <2>3. \A u \in Tasks : u # self /\ Owns(u)' => Owns(u) /\ callee'[u] = callee[u]
    BY <2>1, <2>2 DEF Owns, TypeOK
  <2>4. \A u \in Tasks : claim[u] # "none" => claim'[u] # "none"
    BY <2>1 DEF TypeOK
  <2>5. \A v \in Workers : at'[v] = "release" => at[v] = "release"
    BY <2>2 DEF Goto, TypeOK
  <2>6. CASE life[t] # "done"
    <3>1. ~Owns(self)'
      BY <2>1, <2>6 DEF Owns, TypeOK
    <3> QED
      BY <2>3, <2>4, <2>5, <3>1 DEF IOwner
  <2>7. CASE life[t] = "done"
    <3>1. callee' = callee
      BY <2>7
    <3>2. /\ t # Root /\ fiber[t] \in {"fresh", "entered"}
          /\ \A u \in Tasks : Owns(u) => callee[u] # t
          /\ \A v \in Workers : at[v] = "release" => hand[v] # t
      BY <2>1 DEF IFate, IOwner, IHand, TypeOK
    <3>3. claim'[t] # "none"
      BY <2>1 DEF TypeOK
    <3> QED
      BY <2>1, <2>3, <2>4, <2>5, <2>7, <3>1, <3>2, <3>3 DEF IOwner
  <2> QED
    BY <2>6, <2>7
<1>9. IFate'
  BY SMTT(30) DEF Goto, IFate, Calm, TypeOK, Actors, IHand, Active, Switching,
      IdlePlaces
<1>10. RootPinned'
  BY DEF RootPinned
<1>11. NoTrap'
  BY DEF NoTrap, TypeOK, Goto
<1> QED
  BY <1>1, <1>2, <1>3, <1>4, <1>5, <1>6, <1>7, <1>8, <1>9, <1>10, <1>11

\* A second claim is a misuse.
LEMMA ClaimTrapKeeps ==
  ASSUME IInv, NEW w \in Workers, ClaimTrap(w)
  PROVE  IInv'
<1> USE DEF IInv, ClaimTrap
<1>1. TypeOK'
  BY DEF Goto, TypeOK
<1>2. IHand'
  BY SMTT(30) DEF Goto, IHand, Active, Startable, Switching, Calm, IdlePlaces
<1>3. IApart'
  BY DEF IApart
<1>4. IQueue'
  BY DEF IQueue, Startable, Calm
<1>5. IWake'
  BY DEF Goto, IWake, Suspended, Startable, Calm
<1>6. IWaiting'
  BY DEF IWaiting, Suspended
<1>7. IJoiner'
  BY DEF IJoiner, Suspended
<1>8. IOwner'
  BY DEF Goto, IOwner, Owns
<1>9. IFate'
  BY DEF IFate, Calm
<1>10. RootPinned'
  BY DEF RootPinned
<1>11. NoTrap'
  BY DEF NoTrap, TypeOK, Goto
<1> QED
  BY <1>1, <1>2, <1>3, <1>4, <1>5, <1>6, <1>7, <1>8, <1>9, <1>10, <1>11

\* The owner of a done Task destroys it: nothing else refers to it.
LEMMA ReclaimKeeps ==
  ASSUME IInv, NEW w \in Workers, Reclaim(w)
  PROVE  IInv'
<1> USE DEF IInv, Reclaim
<1>0. hand[w] \in Tasks /\ callee[hand[w]] \in Tasks /\ life[callee[hand[w]]] = "done"
  <2>1. hand[w] \in Tasks /\ callee[hand[w]] \in Tasks /\ ~pending[hand[w]]
    BY DEF IHand, Active, Calm, IdlePlaces, TypeOK
  <2>2. Owns(hand[w])
    BY <2>1, SchedulerAssumption DEF SchedulerAssumption, Owns, IApart
  <2> QED
    BY <2>1, <2>2 DEF IOwner
<1>1. TypeOK'
  BY SchedulerAssumption DEF SchedulerAssumption, Goto, TypeOK, FiberPlaces,
      IHand, IdlePlaces
<1>2. IHand'
  BY SMTT(30) DEF Goto, IHand, Active, Startable, Switching, Calm, IdlePlaces,
      TypeOK, IApart, IOwner, Owns
<1>3. IApart'
  BY DEF IApart
<1>4. IQueue'
  BY <1>0, SchedulerAssumption
  DEF SchedulerAssumption, IQueue, Startable, Calm, TypeOK
<1>5. IWake'
  BY <1>0, SMTT(30) DEF Goto, IWake, Suspended, Startable, Calm, TypeOK
<1>6. IWaiting'
  BY DEF IWaiting, Suspended
<1>7. IJoiner'
  BY DEF IJoiner, Suspended, IHand, Active, Calm
<1>8. IOwner'
  BY SMTT(30) DEF Goto, IOwner, Owns, TypeOK, FiberPlaces, IHand, Startable,
      Switching, Calm, IdlePlaces, IApart
<1>9. IFate'
  BY SMTT(30), SchedulerAssumption DEF SchedulerAssumption, IFate, Calm, TypeOK,
      DispatchPlaces, Actors, IHand, Active, Switching, IdlePlaces, IApart,
      IOwner, Owns
<1>10. RootPinned'
  BY DEF RootPinned
<1>11. NoTrap'
  BY DEF NoTrap, TypeOK, Goto
<1> QED
  BY <1>1, <1>2, <1>3, <1>4, <1>5, <1>6, <1>7, <1>8, <1>9, <1>10, <1>11

\* A new Task is nobody's before its publication.
LEMMA SpawnKeeps ==
  ASSUME IInv, NEW w \in Workers, NEW t \in Tasks, Spawn(w, t)
  PROVE  IInv'
<1> USE DEF IInv, Spawn
<1>1. TypeOK'
  BY DEF TypeOK, Actors
<1>2. IHand'
  BY DEF IHand, Active, Startable, Switching, Calm
<1>3. IApart'
  <2>1. fiber[t] = "none" /\ Calm(t)
    BY DEF IFate
  <2>2. \A v \in Workers : hand[v] # t
    BY <2>1, HeldFacts, SchedulerAssumption DEF SchedulerAssumption, IInv
  <2>3. \A i \in 1..Len(queue) : queue[i] # t
    BY <2>1 DEF IQueue, Startable
  <2>4. \A a \in Actors : target[a] # t
    BY <2>1, SchedulerAssumption
    DEF SchedulerAssumption, IWake, Startable, Suspended, Calm, TypeOK
  <2>5. target' = [target EXCEPT ![w] = t] /\ waking' = [waking EXCEPT ![w] = "publish"]
    OBVIOUS
  <2> QED
    BY <2>2, <2>3, <2>4, <2>5 DEF IApart, TypeOK, Actors
<1>4. IQueue'
  BY DEF IQueue, Startable, Calm
<1>5. IWake'
  BY SMTT(30), SchedulerAssumption DEF SchedulerAssumption, InUser, IWake,
      Suspended, Startable, Calm, TypeOK, IFate
<1>6. IWaiting'
  BY DEF IWaiting, Suspended, IFate, Calm
<1>7. IJoiner'
  BY DEF IJoiner, Suspended, IFate, Calm
<1>8. IOwner'
  BY DEF IOwner, Owns
<1>9. IFate'
  BY DEF IFate, Calm
<1>10. RootPinned'
  BY DEF RootPinned
<1>11. NoTrap'
  BY DEF NoTrap
<1> QED
  BY <1>1, <1>2, <1>3, <1>4, <1>5, <1>6, <1>7, <1>8, <1>9, <1>10, <1>11

\* A Task calls join.
LEMMA CallJoinKeeps ==
  ASSUME IInv, NEW w \in Workers, NEW t \in Tasks, CallJoin(w, t)
  PROVE  IInv'
<1> USE DEF IInv, CallJoin
<1>1. TypeOK'
  BY DEF InUser, Goto, TypeOK, FiberPlaces, IHand, IdlePlaces
<1>2. IHand'
  BY SMTT(30), SchedulerAssumption DEF SchedulerAssumption, InUser, Goto, IHand,
      Active, Startable, Switching, Calm, IdlePlaces, TypeOK, IApart
<1>3. IApart'
  BY DEF IApart
<1>4. IQueue'
  BY DEF IQueue, Startable, Calm
<1>5. IWake'
  BY DEF InUser, Goto, IWake, Suspended, Startable, Calm
<1>6. IWaiting'
  BY DEF InUser, IWaiting, Suspended, IHand, Active, Calm
<1>7. IJoiner'
  BY DEF InUser, IJoiner, Suspended, IHand, Active, Calm
<1>8. IOwner'
  BY DEF Goto, IOwner, Owns, TypeOK
<1>9. IFate'
  BY DEF InUser, HoldsHandle, IFate, Calm, IHand, Active
<1>10. RootPinned'
  BY DEF RootPinned
<1>11. NoTrap'
  BY DEF NoTrap, TypeOK, InUser, Goto, HoldsHandle
<1> QED
  BY <1>1, <1>2, <1>3, <1>4, <1>5, <1>6, <1>7, <1>8, <1>9, <1>10, <1>11

\* A Task calls detach.
LEMMA CallDetachKeeps ==
  ASSUME IInv, NEW w \in Workers, NEW t \in Tasks, CallDetach(w, t)
  PROVE  IInv'
<1> USE DEF IInv, CallDetach
<1>1. TypeOK'
  BY DEF InUser, Goto, TypeOK, FiberPlaces, IHand, IdlePlaces
<1>2. IHand'
  BY SMTT(30), SchedulerAssumption DEF SchedulerAssumption, InUser, Goto, IHand,
      Active, Startable, Switching, Calm, IdlePlaces, TypeOK, IApart
<1>3. IApart'
  BY DEF IApart
<1>4. IQueue'
  BY DEF IQueue, Startable, Calm
<1>5. IWake'
  BY DEF InUser, Goto, IWake, Suspended, Startable, Calm
<1>6. IWaiting'
  BY DEF InUser, IWaiting, Suspended, IHand, Active, Calm
<1>7. IJoiner'
  BY DEF InUser, IJoiner, Suspended, IHand, Active, Calm
<1>8. IOwner'
  BY DEF Goto, IOwner, Owns, TypeOK
<1>9. IFate'
  BY DEF InUser, HoldsHandle, IFate, Calm, IHand, Active
<1>10. RootPinned'
  BY DEF RootPinned
<1>11. NoTrap'
  BY DEF NoTrap, TypeOK, InUser, Goto, HoldsHandle
<1> QED
  BY <1>1, <1>2, <1>3, <1>4, <1>5, <1>6, <1>7, <1>8, <1>9, <1>10, <1>11

\* The first compare-exchange of a waker.
LEMMA WakeFirstKeeps ==
  ASSUME IInv, NEW a \in Actors, WakeFirst(a)
  PROVE  IInv'
<1> USE DEF IInv, WakeFirst
<1>1. TypeOK'
  BY SMTT(30) DEF EndWake, TypeOK, IApart, IWake, Suspended, Startable, Calm
<1>2. IHand'
  BY DEF IHand, Active, Startable, Switching, Calm
<1>3. IApart'
  BY DEF EndWake, IApart, TypeOK, Actors
<1>4. IQueue'
  BY DEF IQueue, Startable, Calm
<1>5. IWake'
  BY SMTT(30) DEF EndWake, IWake, Suspended, Startable, Calm, TypeOK, IApart
<1>6. IWaiting'
  BY SchedulerAssumption DEF SchedulerAssumption, EndWake, IWaiting, Suspended,
      TypeOK
<1>7. IJoiner'
  BY DEF EndWake, IJoiner, Suspended, TypeOK
<1>8. IOwner'
  BY DEF IOwner, Owns
<1>9. IFate'
  BY DEF IFate, Calm
<1>10. RootPinned'
  BY DEF RootPinned
<1>11. NoTrap'
  BY DEF NoTrap
<1> QED
  BY <1>1, <1>2, <1>3, <1>4, <1>5, <1>6, <1>7, <1>8, <1>9, <1>10, <1>11

\* The second one makes the waker the only publisher.
LEMMA WakeSecondKeeps ==
  ASSUME IInv, NEW a \in Actors, WakeSecond(a)
  PROVE  IInv'
<1> USE DEF IInv, WakeSecond
<1>1. TypeOK'
  BY DEF EndWake, TypeOK
<1>2. IHand'
  BY SMTT(30) DEF IHand, Active, Startable, Switching, Calm, IdlePlaces, TypeOK
<1>3. IApart'
  <2>1. /\ phase[target[a]] = "parked"
        /\ target' = target
        /\ target[a] \in Tasks
        /\ waking' = [waking EXCEPT ![a] = "publish"]
    BY DEF IWake, TypeOK
  <2>2. /\ fiber[target[a]] = "entered"
        /\ life[target[a]] = "running"
        /\ pending[target[a]]
    BY <2>1 DEF IWake, Suspended, IFate, TypeOK, Calm
  <2>3. \A w \in Workers : hand[w] # target[a]
    BY <2>1, HeldFacts, SchedulerAssumption DEF SchedulerAssumption, IInv
  <2>4. \A i \in 1..Len(queue) : queue[i] # target[a]
    BY <2>1, <2>2 DEF IQueue, Startable
  <2> QED
    BY <2>1, <2>3, <2>4 DEF IApart, TypeOK
<1>4. IQueue'
  BY DEF IQueue, Startable, Calm, TypeOK
<1>5. IWake'
  BY SMTT(30) DEF IWake, Suspended, Startable, Calm, TypeOK, IFate, IApart
<1>6. IWaiting'
  BY SchedulerAssumption DEF SchedulerAssumption, EndWake, IWaiting, Suspended,
      TypeOK
<1>7. IJoiner'
  BY DEF EndWake, IJoiner, Suspended, TypeOK
<1>8. IOwner'
  BY DEF IOwner, Owns
<1>9. IFate'
  BY DEF IFate, Calm, TypeOK
<1>10. RootPinned'
  BY DEF RootPinned
<1>11. NoTrap'
  BY DEF NoTrap
<1> QED
  BY <1>1, <1>2, <1>3, <1>4, <1>5, <1>6, <1>7, <1>8, <1>9, <1>10, <1>11

\* A registered Task goes over to its waker.
LEMMA WakeWaiterKeeps ==
  ASSUME IInv, NEW a \in Actors, NEW t \in Tasks, WakeWaiter(a, t)
  PROVE  IInv'
<1> USE DEF IInv, WakeWaiter
<1>1. TypeOK'
  BY DEF StartWake, TypeOK
<1>2. IHand'
  BY DEF IHand, Active, Startable, Switching, Calm
<1>3. IApart'
  BY DEF StartWake, IApart, IWaiting
<1>4. IQueue'
  BY DEF IQueue, Startable, Calm
<1>5. IWake'
  BY SMTT(30), SchedulerAssumption DEF SchedulerAssumption, StartWake, IWake,
      Suspended, Startable, Calm, TypeOK, IWaiting
<1>6. IWaiting'
  BY DEF StartWake, IWaiting, Suspended
<1>7. IJoiner'
  BY SchedulerAssumption DEF SchedulerAssumption, StartWake, IJoiner, Suspended,
      IWaiting
<1>8. IOwner'
  BY DEF IOwner, Owns
<1>9. IFate'
  BY DEF IFate, Calm
<1>10. RootPinned'
  BY DEF RootPinned
<1>11. NoTrap'
  BY DEF NoTrap
<1> QED
  BY <1>1, <1>2, <1>3, <1>4, <1>5, <1>6, <1>7, <1>8, <1>9, <1>10, <1>11

\* Root's completion wakes the sleeping workers.
LEMMA BroadcastShutdownKeeps ==
  ASSUME IInv, NEW w \in Workers, BroadcastShutdown(w)
  PROVE  IInv'
<1> USE DEF IInv, BroadcastShutdown
<1>1. TypeOK'
  BY DEF Broadcast, TypeOK, DispatchPlaces
<1>2. IHand'
  BY SMTT(30) DEF Broadcast, IHand, Active, Startable, Switching, Calm,
      IdlePlaces
<1>3. IApart'
  BY DEF IApart
<1>4. IQueue'
  BY DEF IQueue, Startable, Calm
<1>5. IWake'
  BY DEF Broadcast, IWake, Suspended, Startable, Calm
<1>6. IWaiting'
  BY DEF IWaiting, Suspended
<1>7. IJoiner'
  BY DEF IJoiner, Suspended
<1>8. IOwner'
  BY DEF Broadcast, IOwner, Owns
<1>9. IFate'
  BY DEF IFate, Calm
<1>10. RootPinned'
  BY DEF RootPinned
<1>11. NoTrap'
  BY DEF NoTrap, TypeOK, Broadcast
<1> QED
  BY <1>1, <1>2, <1>3, <1>4, <1>5, <1>6, <1>7, <1>8, <1>9, <1>10, <1>11

\* A popped Task goes over from the queue to the worker's hand.
LEMMA LookPopKeeps ==
  ASSUME IInv, NEW w \in Workers, LookPop(w)
  PROVE  IInv'
<1> USE DEF IInv
<1>1. PICK i \in Candidates(w) : /\ hand' = [hand EXCEPT ![w] = queue[i]]
                                 /\ queue' = Without(queue, i)
  BY DEF LookPop
<1>2. /\ i \in 1..Len(queue)
      /\ Len(queue) \in Nat
      /\ w # WorkerZero => queue[i] # Root
  BY DEF Candidates, Eligible, TypeOK
<1>3. /\ queue' \in Seq(Tasks)
      /\ \A j \in 1..Len(queue') : \E k \in 1..Len(queue) \ {i} : queue'[j] = queue[k]
      /\ \A j, k \in 1..Len(queue') : queue'[j] = queue'[k] =>
           \/ j = k
           \/ \E l, m \in 1..Len(queue) : l # m /\ queue[l] = queue[m]
  <2>1. /\ queue' \in Seq(Tasks)
        /\ Len(queue') = Len(queue) - 1
        /\ \A j \in 1..Len(queue') :
             queue'[j] = IF j < i THEN queue[j] ELSE queue[j + 1]
    <3>1. queue \in Seq(Tasks)
      BY DEF TypeOK
    <3>2. /\ Without(queue, i) \in Seq(Tasks)
          /\ Len(Without(queue, i)) = Len(queue) - 1
          /\ \A j \in 1..Len(Without(queue, i)) :
               Without(queue, i)[j] = IF j < i THEN queue[j] ELSE queue[j + 1]
      BY <1>2, <3>1, WithoutFacts
    <3> QED
      BY <1>1, <3>2
  <2> HIDE DEF IInv
  <2> QED
    BY <1>2, <2>1
<1>4. queue[i] \in Tasks /\ Startable(queue[i])
  BY <1>2 DEF TypeOK, IQueue
<1>5. /\ at[w] = "look" /\ at' = [at EXCEPT ![w] = "resume"]
      /\ waking[w] = "no"
      /\ UNCHANGED <<fiber, phase, pending, life, claim, joiner, callee, waiting,
                     waking, target>>
  BY DEF LookPop, Goto, Looking
<1>6. hand[w] = NoTask /\ \A v \in Workers : hand[v] # queue[i]
  BY <1>2, <1>5 DEF IHand, IApart, IdlePlaces
<1>7. \A a \in Actors : waking[a] = "publish" => target[a] # queue[i]
  BY <1>2 DEF IApart
<1>11. TypeOK'
  BY <1>1, <1>3, <1>4, <1>5 DEF TypeOK, DispatchPlaces, LookPop
<1>12. IHand'
  <2>1. queue[i] # NoTask
    BY <1>4, SchedulerAssumption DEF SchedulerAssumption
  <2>2. hand'[w] = queue[i] /\ at'[w] = "resume"
    BY <1>1, <1>5 DEF TypeOK
  <2>3. \A v \in Workers \ {w} : hand'[v] = hand[v] /\ at'[v] = at[v]
    BY <1>1, <1>5 DEF TypeOK
  <2> QED
    BY <1>4, <1>5, <2>1, <2>2, <2>3
    DEF IHand, Active, Startable, Switching, Calm, IdlePlaces
<1>13. IApart'
  <2>1. \A u, v \in Workers : hand'[u] = hand'[v] /\ hand'[u] # NoTask => u = v
    BY <1>1, <1>6 DEF IApart, TypeOK
  <2>2. \A j, k \in 1..Len(queue') : queue'[j] = queue'[k] => j = k
    BY <1>3 DEF IApart
  <2>3. \A v \in Workers, j \in 1..Len(queue') : hand'[v] # queue'[j]
    <3>1. \A v \in Workers : hand'[v] \in {hand[v], queue[i]}
      BY <1>1 DEF TypeOK
    <3> QED
      BY <1>2, <1>3, <3>1 DEF IApart
  <2>4. \A a \in Actors : waking[a] = "publish" =>
          /\ \A v \in Workers : hand'[v] # target[a]
          /\ \A j \in 1..Len(queue') : queue'[j] # target[a]
    BY <1>1, <1>3, <1>7 DEF IApart, TypeOK
  <2> QED
    BY <1>5, <2>1, <2>2, <2>3, <2>4 DEF IApart
<1>14. IQueue'
  BY <1>3, <1>5 DEF IQueue, Startable, Calm
<1>15. IWake'
  BY <1>5 DEF IWake, TypeOK, Suspended, Startable, Calm
<1>16. IWaiting'
  BY <1>5 DEF IWaiting, Suspended
<1>17. IJoiner'
  BY <1>5 DEF IJoiner, Suspended
<1>18. IOwner'
  <2>1. \A t \in Tasks : Owns(t)' <=> Owns(t)
    BY <1>1, <1>5, <1>6 DEF Owns, TypeOK
  <2>2. \A t \in Tasks, v \in Workers :
          (at[v] = "release" => hand[v] # t) => (at'[v] = "release" => hand'[v] # t)
    BY <1>1, <1>5 DEF TypeOK
  <2>3. \A t \in Tasks : callee[t] # NoTask => callee[t] \in Tasks
    BY DEF TypeOK
  <2> QED
    BY <1>5, <2>1, <2>2, <2>3 DEF IOwner, Owns
<1>19. IFate'
  BY <1>5 DEF IFate, Calm
<1>20. RootPinned'
  BY <1>1, <1>2 DEF RootPinned, TypeOK
<1>21. NoTrap'
  BY <1>5 DEF NoTrap, TypeOK
<1> QED
  BY <1>11, <1>12, <1>13, <1>14, <1>15, <1>16, <1>17, <1>18, <1>19, <1>20, <1>21

\* A published Task goes over from its only publisher to the end of the queue.
LEMMA PublishKeeps ==
  ASSUME IInv, NEW a \in Actors, Publish(a)
  PROVE  IInv'
<1> USE DEF IInv
<1>1. /\ at' \in [Workers -> DispatchPlaces \cup FiberPlaces \cup {"trap", "misuse"}]
      /\ \A w \in Workers : \/ at'[w] = at[w]
                            \/ at[w] = "sleep" /\ at'[w] = "look"
  BY SignalledFacts DEF Publish
<1>2. /\ waking[a] = "publish"
      /\ target[a] \in Tasks
      /\ Startable(target[a])
  BY DEF TypeOK, IWake, Publish
<1>3. /\ queue' = Append(queue, target[a])
      /\ waking' = [waking EXCEPT ![a] = "no"]
      /\ target' = [target EXCEPT ![a] = NoTask]
      /\ UNCHANGED <<fiber, phase, pending, life, claim, joiner, callee, waiting,
                     hand>>
  BY DEF Publish
<1>4. /\ queue' \in Seq(Tasks)
      /\ \A i \in 1..Len(queue') : \/ i \in 1..Len(queue) /\ queue'[i] = queue[i]
                                   \/ i = Len(queue') /\ queue'[i] = target[a]
      /\ Len(queue') \notin 1..Len(queue)
  BY <1>2, <1>3 DEF TypeOK
<1>5. /\ \A w \in Workers : hand[w] # target[a]
      /\ \A i \in 1..Len(queue) : queue[i] # target[a]
      /\ \A b \in Actors \ {a} : target[b] # target[a]
  BY <1>2, SchedulerAssumption DEF SchedulerAssumption, IApart
<1>11. TypeOK'
  BY <1>1, <1>3, <1>4 DEF TypeOK, Publish
<1>12. IHand'
  BY <1>1, <1>3 DEF IHand, Active, Startable, Switching, Calm, IdlePlaces
<1>13. IApart'
  <2>1. \A i, j \in 1..Len(queue') : queue'[i] = queue'[j] => i = j
    BY <1>4, <1>5 DEF IApart
  <2>2. \A w \in Workers, i \in 1..Len(queue') : hand[w] # queue'[i]
    BY <1>4, <1>5 DEF IApart
  <2>3. \A b \in Actors : waking'[b] = "publish" =>
          b # a /\ waking[b] = "publish" /\ target'[b] = target[b]
    BY <1>3 DEF TypeOK
  <2>4. \A b \in Actors : waking'[b] = "publish" =>
          /\ \A w \in Workers : hand[w] # target'[b]
          /\ \A i \in 1..Len(queue') : queue'[i] # target'[b]
    BY <1>4, <1>5, <2>3 DEF IApart
  <2>5. \A b, c \in Actors : target'[b] = target'[c] /\ target'[b] # NoTask => b = c
    BY <1>3 DEF IApart, TypeOK
  <2> QED
    BY <1>3, <2>1, <2>2, <2>4, <2>5 DEF IApart
<1>14. IQueue'
  BY <1>2, <1>3, <1>4 DEF IQueue, Startable, Calm
<1>15. IWake'
  <2> SUFFICES ASSUME NEW b \in Actors
               PROVE  /\ waking'[b] = "no" <=> target'[b] = NoTask
                      /\ waking'[b] = "first" => Suspended(target[b])
                      /\ waking'[b] = "second" => /\ Suspended(target[b])
                                                  /\ phase[target[b]] = "parked"
                      /\ waking'[b] = "publish" => Startable(target[b])
                      /\ b \in Workers /\ waking'[b] # "no" => at'[b] \in {"user", "look"}
                      /\ waking'[b] # "no" => target'[b] = target[b]
    BY <1>3 DEF IWake, Suspended, Startable, Calm
  <2>1. CASE b = a
    BY <1>3, <2>1 DEF TypeOK
  <2>2. CASE b # a
    <3>1. waking'[b] = waking[b] /\ target'[b] = target[b]
      BY <1>3, <2>2 DEF TypeOK
    <3> QED
      BY <1>1, <3>1 DEF IWake
  <2> QED
    BY <2>1, <2>2
<1>16. IWaiting'
  <2>1. \A b \in Actors : target'[b] \in {target[b], NoTask}
    BY <1>3 DEF TypeOK
  <2> QED
    BY <1>3, <2>1, SchedulerAssumption
    DEF SchedulerAssumption, IWaiting, Suspended, TypeOK
<1>17. IJoiner'
  <2>1. \A b \in Actors : target'[b] \in {target[b], NoTask}
    BY <1>3 DEF TypeOK
  <2> QED
    BY <1>3, <2>1 DEF IJoiner, Suspended
<1>18. IOwner'
  <2>1. \A w \in Workers : at'[w] # at[w] => hand[w] = NoTask
    BY <1>1 DEF IHand, IdlePlaces
  <2>2. \A t \in Tasks : Owns(t)' <=> Owns(t)
    BY <1>3, <2>1, SchedulerAssumption DEF SchedulerAssumption, Owns
  <2>3. \A w \in Workers : at'[w] = "release" => at[w] = "release"
    BY <1>1
  <2> QED
    BY <1>3, <2>2, <2>3 DEF IOwner, Owns
<1>19. IFate'
  BY <1>3 DEF IFate, Calm
<1>20. RootPinned'
  BY <1>3 DEF RootPinned
<1>21. NoTrap'
  BY <1>1 DEF NoTrap
<1> QED
  BY <1>11, <1>12, <1>13, <1>14, <1>15, <1>16, <1>17, <1>18, <1>19, <1>20, <1>21

-----------------------------------------------------------------------------
\* Every step keeps the inductive invariant.
LEMMA StepKeeps ==
  ASSUME IInv, [Next]_vars
  PROVE  IInv'
<1>1. ASSUME NEW a \in Actors, Waker(a)
      PROVE  IInv'
  BY <1>1, WakeFirstKeeps, WakeSecondKeeps, PublishKeeps DEF Waker
<1>2. ASSUME NEW a \in Actors, NEW t \in Tasks, WakeWaiter(a, t)
      PROVE  IInv'
  BY <1>2, WakeWaiterKeeps
<1>3. ASSUME NEW w \in Workers, FiberCall(w)
      PROVE  IInv'
  BY <1>3, SpawnKeeps, CallJoinKeeps, CallDetachKeeps, JoinClaimKeeps,
     DetachClaimKeeps, ClaimTrapKeeps, ReclaimKeeps DEF FiberCall
<1>4. ASSUME NEW w \in Workers, SwitchAway(w)
      PROVE  IInv'
  BY <1>4, YieldKeeps, ParkKeeps, CompleteKeeps DEF SwitchAway
<1>5. ASSUME NEW w \in Workers, Dispatch(w)
      PROVE  IInv'
  BY <1>5, SwitchOutKeeps, CommitParkKeeps, CommitNotifiedKeeps, CommitDoneKeeps,
     ReleaseKeeps, StoreShutdownKeeps, BroadcastShutdownKeeps, LookStopKeeps,
     LookPopKeeps, LookSleepKeeps, EnterKeeps, ResumeKeeps DEF Dispatch
<1>6. ASSUME NEW w \in Workers, SpuriousWakeup(w)
      PROVE  IInv'
  BY <1>6, SpuriousWakeupKeeps
<1>7. CASE UNCHANGED vars
  BY <1>7 DEF vars, IInv, TypeOK, IHand, IApart, IQueue, IWake, IWaiting, IJoiner,
     IOwner, Owns, IFate, RootPinned, NoTrap, Suspended, Active, Startable,
     Switching, Calm
<1> QED
  BY <1>1, <1>2, <1>3, <1>4, <1>5, <1>6, <1>7 DEF Next

\* The initial state: root runs on worker zero and nobody else exists.
LEMMA InitHolds == Init => IInv
<1> SUFFICES ASSUME Init
             PROVE  IInv
  OBVIOUS
<1> USE SchedulerAssumption DEF SchedulerAssumption, Init, Actors
<1>1. TypeOK
  <2>1. /\ fiber \in [Tasks -> {"none", "fresh", "entered", "destroyed"}]
        /\ phase \in [Tasks -> {"running", "parking", "parked", "notified", "ready"}]
        /\ pending \in [Tasks -> BOOLEAN]
        /\ life \in [Tasks -> {"running", "completing", "done"}]
        /\ claim \in [Tasks -> {"none", "join", "detach"}]
    OBVIOUS
  <2>2. /\ joiner \in [Tasks -> Tasks \cup {NoTask}]
        /\ callee \in [Tasks -> Tasks \cup {NoTask}]
        /\ waiting \in SUBSET Tasks
        /\ shutdown \in BOOLEAN
    OBVIOUS
  <2>5. queue \in Seq(Tasks)
    <3>1. << >> \in Seq(Tasks)
      OBVIOUS
    <3> QED
      BY <3>1
  <2>3. at \in [Workers -> DispatchPlaces \cup FiberPlaces \cup {"trap", "misuse"}]
    BY DEF DispatchPlaces, FiberPlaces
  <2>4. /\ hand \in [Workers -> Tasks \cup {NoTask}]
        /\ waking \in [Actors -> {"no", "first", "second", "publish"}]
        /\ target \in [Actors -> Tasks \cup {NoTask}]
    OBVIOUS
  <2> QED
    BY <2>1, <2>2, <2>3, <2>4, <2>5 DEF TypeOK
<1>2. IHand /\ IQueue /\ IWake /\ IWaiting /\ IJoiner /\ NoTrap /\ RootPinned
  BY DEF IHand, Active, Calm, IdlePlaces, IQueue, IWake, IWaiting, IJoiner, NoTrap,
     RootPinned
<1>3. IApart /\ IOwner /\ IFate
  BY DEF IApart, IOwner, Owns, IFate, Calm
<1> QED
  BY <1>1, <1>2, <1>3 DEF IInv

\* The inductive invariant holds in every reachable state.
THEOREM Invariance == Spec => []IInv
BY InitHolds, StepKeeps, PTL DEF Spec

-----------------------------------------------------------------------------
\* What follows from the invariant.

\* Every variable keeps its type: no step reads a null pointer as a Task.
THEOREM TypeCorrect == Spec => []TypeOK
<1>1. IInv => TypeOK
  BY DEF IInv
<1> QED
  BY <1>1, Invariance, PTL

\* The park protocol's own assertions never fail.
THEOREM AssertionsHold == Spec => []NoTrap
<1>1. IInv => NoTrap
  BY DEF IInv
<1> QED
  BY <1>1, Invariance, PTL

\* No Task is in two places: no fiber runs on two workers, and none is
\* published twice or before its switch is over; and only worker zero ever
\* holds root, whoever pops in whatever order.
THEOREM PlacesAreRight == Spec => []RightPlace
<1>1. ASSUME IInv
      PROVE  OnePlace
  <2> SUFFICES ASSUME NEW t \in Tasks, NEW p \in Holders(t), NEW q \in Holders(t)
               PROVE  p = q
    BY DEF OnePlace
  <2> USE <1>1, SchedulerAssumption DEF SchedulerAssumption, IInv
  <2>1. p[1] \in {"hand", "queue", "publish"} /\ q[1] \in {"hand", "queue", "publish"}
    BY DEF Holders
  <2>2. CASE p[1] = "hand"
    <3>1. PICK w \in Workers : p = <<"hand", w>> /\ hand[w] = t
      BY <2>2 DEF Holders
    <3>2. q[1] = "hand"
      BY <3>1 DEF Holders, IApart
    <3>3. PICK v \in Workers : q = <<"hand", v>> /\ hand[v] = t
      BY <3>2 DEF Holders
    <3> QED
      BY <3>1, <3>3 DEF IApart
  <2>3. CASE p[1] = "queue"
    <3>1. PICK i \in 1..Len(queue) : p = <<"queue", i>> /\ queue[i] = t
      BY <2>3 DEF Holders
    <3>2. q[1] = "queue"
      BY <3>1 DEF Holders, IApart
    <3>3. PICK j \in 1..Len(queue) : q = <<"queue", j>> /\ queue[j] = t
      BY <3>2 DEF Holders
    <3> QED
      BY <3>1, <3>3 DEF IApart
  <2>4. CASE p[1] = "publish"
    <3>1. PICK a \in Actors : /\ p = <<"publish", a>>
                              /\ waking[a] = "publish" /\ target[a] = t
      BY <2>4 DEF Holders
    <3>2. q[1] = "publish"
      BY <3>1 DEF Holders, IApart
    <3>3. PICK b \in Actors : q = <<"publish", b>> /\ target[b] = t
      BY <3>2 DEF Holders
    <3> QED
      BY <3>1, <3>3 DEF IApart
  <2> QED
    BY <2>1, <2>2, <2>3, <2>4
<1>2. IInv => RightPlace
  BY <1>1 DEF RightPlace, IInv
<1> QED
  BY <1>2, Invariance, PTL

\* A released Task is out of reach of every worker, queue, waiter list, joiner
\* and waker, although a program may keep aliases of its handle; and a join takes
\* its result from, and releases, a done Task that is its own.
THEOREM ReleasesAreSafe == Spec => []ReleaseIsSafe
<1>1. ASSUME IInv
      PROVE  NoUseAfterRelease
  <2> SUFFICES ASSUME NEW t \in Tasks, fiber[t] = "destroyed"
               PROVE  /\ Holders(t) = {}
                      /\ t \notin waiting
                      /\ \A u \in Tasks : joiner[u] # t
                      /\ \A a \in Actors : target[a] # t
                      /\ life[t] = "done"
    BY DEF NoUseAfterRelease
  <2> USE <1>1, SchedulerAssumption DEF SchedulerAssumption, IInv
  <2>1. life[t] = "done" /\ Calm(t)
    BY DEF IFate
  <2>2. \A w \in Workers : hand[w] # t
    BY HeldFacts
  <2>3. \A i \in 1..Len(queue) : queue[i] # t
    BY DEF IQueue, Startable
  <2>4. t \notin waiting
    BY <2>1 DEF IWaiting, Suspended, Calm
  <2>5. \A u \in Tasks : joiner[u] # t
    BY <2>1 DEF IJoiner, Suspended, Calm
  <2>6. \A a \in Actors : target[a] # t
    BY <2>1 DEF IWake, Suspended, Startable, Calm, TypeOK
  <2>7. Holders(t) = {}
    BY <2>2, <2>3, <2>6 DEF Holders
  <2> QED
    BY <2>1, <2>4, <2>5, <2>6, <2>7
<1>2. ASSUME IInv
      PROVE  JoinAfterDone
  <2> USE <1>2, SchedulerAssumption DEF SchedulerAssumption, IInv
  <2>1. ASSUME NEW w \in Workers, at[w] = "reclaim"
        PROVE  /\ hand[w] \in Tasks
               /\ Owns(hand[w])
               /\ ~pending[hand[w]]
    <3>1. hand[w] # NoTask /\ callee[hand[w]] # NoTask /\ ~pending[hand[w]]
      BY <2>1 DEF IHand, IdlePlaces, Active, Calm
    <3> QED
      BY <2>1, <3>1 DEF Owns, IApart, TypeOK
  <2>2. ASSUME NEW w \in Workers, at[w] = "reclaim"
        PROVE  life[callee[hand[w]]] = "done" /\ fiber[callee[hand[w]]] = "entered"
    <3>1. /\ life[callee[hand[w]]] = "done"
          /\ fiber[callee[hand[w]]] \in {"fresh", "entered"}
          /\ callee[hand[w]] \in Tasks
      BY <2>1, <2>2 DEF IOwner, Owns, TypeOK
    <3> QED
      BY <3>1 DEF IFate
  <2>3. ASSUME NEW w \in Workers, NEW v \in Workers \ {w},
               at[w] = "reclaim", at[v] = "reclaim"
        PROVE  callee[hand[v]] # callee[hand[w]]
    <3>1. hand[v] # hand[w]
      BY <2>1, <2>3 DEF IApart
    <3> QED
      BY <2>1, <2>3, <3>1 DEF IOwner
  <2> QED
    BY <2>2, <2>3 DEF JoinAfterDone
<1>3. IInv => ReleaseIsSafe
  BY <1>1, <1>2 DEF ReleaseIsSafe
<1> QED
  BY <1>3, Invariance, PTL

-----------------------------------------------------------------------------
\* Neither a wake nor a Task is lost.  ILost is inductive over IInv, which the
\* proof uses in every step.


\* What ILost reads.
reads == <<fiber, phase, pending, life, joiner, waiting, queue, hand, waking,
           target>>

\* Steps that change only places, claims, callees and the shutdown flag.
LEMMA SameReads ==
  ASSUME ILost, UNCHANGED reads
  PROVE  ILost'
BY DEF reads, ILost, NoLostWakeup, Suspended, IParking, IHeld, Held, Runnable

LEMMA InitLosesNothing == Init => ILost
BY DEF Init, ILost, NoLostWakeup, Suspended, IParking, IHeld, Runnable

LEMMA YieldLosesNothing ==
  ASSUME IInv, ILost, NEW w \in Workers, Yield(w)
  PROVE  ILost'
<1> USE DEF IInv, ILost, Yield
<1>1. NoLostWakeup'
  BY DEF NoLostWakeup, Suspended, InUser, IHand, Active, Calm
<1>2. IParking'
  BY DEF IParking
<1>3. IHeld'
  BY DEF IHeld, Held, Runnable
<1> QED
  BY <1>1, <1>2, <1>3

LEMMA ParkLosesNothing ==
  ASSUME IInv, ILost, NEW w \in Workers, Park(w)
  PROVE  ILost'
<1> USE DEF IInv, ILost, Park
<1>1. NoLostWakeup'
  BY DEF NoLostWakeup, Suspended
<1>2. IParking'
  BY DEF IParking
<1>3. IHeld'
  BY DEF IHeld, Held, Runnable
<1> QED
  BY <1>1, <1>2, <1>3

LEMMA CompleteLosesNothing ==
  ASSUME IInv, ILost, NEW w \in Workers, Complete(w)
  PROVE  ILost'
<1> USE DEF IInv, ILost, Complete
<1>1. NoLostWakeup'
  BY DEF NoLostWakeup, Suspended
<1>2. IParking'
  BY DEF IParking
<1>3. IHeld'
  BY DEF IHeld, Held, Runnable
<1> QED
  BY <1>1, <1>2, <1>3

LEMMA CommitParkLosesNothing ==
  ASSUME IInv, ILost, NEW w \in Workers, CommitPark(w)
  PROVE  ILost'
<1> USE DEF IInv, ILost, CommitPark
<1>1. NoLostWakeup'
  BY DEF NoLostWakeup, Suspended
<1>2. IParking'
  BY DEF TypeOK, IParking, Drop
<1>3. IHeld'
  <2>1. hand[w] \in Tasks /\ fiber[hand[w]] = "entered"
    BY DEF IHand, Switching, IdlePlaces, TypeOK
  <2>2. \A t \in Tasks : Runnable(t)' => Runnable(t) /\ t # hand[w]
    BY <2>1 DEF Runnable, TypeOK
  <2>3. \A v \in Workers : hand[v] # hand[w] => hand'[v] = hand[v]
    BY DEF Drop, TypeOK
  <2> QED
    BY <2>2, <2>3 DEF IHeld, Held
<1> QED
  BY <1>1, <1>2, <1>3

LEMMA CommitNotifiedLosesNothing ==
  ASSUME IInv, ILost, NEW w \in Workers, CommitNotified(w)
  PROVE  ILost'
<1> USE DEF IInv, ILost, CommitNotified
<1>1. NoLostWakeup'
  <2>1. /\ hand[w] \in Tasks
        /\ phase[hand[w]] = "notified"
        /\ waking[w] = "no"
    BY DEF IHand, Switching, Calm, IdlePlaces, IWake, TypeOK, Actors
  <2>2. /\ phase' = [phase EXCEPT ![hand[w]] = "ready"]
        /\ waking' = [waking EXCEPT ![w] = "publish"]
        /\ target' = [target EXCEPT ![w] = hand[w]]
        /\ hand' = [hand EXCEPT ![w] = NoTask]
        /\ UNCHANGED <<fiber, pending, life, joiner, waiting, queue>>
    BY <2>1 DEF Drop
  <2>3. \A t \in Tasks : Suspended(t)' => Suspended(t)
    BY <2>1, <2>2 DEF Suspended, TypeOK
  <2>4. \A a \in Actors : waking[a] \in {"first", "second"} =>
          waking'[a] = waking[a] /\ target'[a] = target[a]
    BY <2>1, <2>2 DEF TypeOK
  <2> QED
    BY <2>2, <2>3, <2>4 DEF NoLostWakeup
<1>2. IParking'
  BY DEF TypeOK, IParking, Drop
<1>3. IHeld'
  <2>1. /\ hand[w] \in Tasks
        /\ phase[hand[w]] = "notified"
        /\ waking[w] = "no"
    BY DEF IHand, Switching, Calm, IdlePlaces, IWake, TypeOK, Actors
  <2>2. /\ phase' = [phase EXCEPT ![hand[w]] = "ready"]
        /\ waking' = [waking EXCEPT ![w] = "publish"]
        /\ target' = [target EXCEPT ![w] = hand[w]]
        /\ hand' = [hand EXCEPT ![w] = NoTask]
        /\ UNCHANGED <<fiber, pending, life, joiner, waiting, queue>>
    BY <2>1 DEF Drop
  <2> SUFFICES ASSUME NEW t \in Tasks, Runnable(t)'
               PROVE  Held(t)'
    BY DEF IHeld
  <2>3. CASE t = hand[w]
    <3>1. w \in Actors /\ waking'[w] = "publish" /\ target'[w] = t
      BY <2>2, <2>3 DEF TypeOK, Actors
    <3> QED
      BY <3>1 DEF Held
  <2>4. CASE t # hand[w]
    <3>1. Held(t)
      BY <2>1, <2>2, <2>4 DEF Runnable, IHeld, TypeOK
    <3>2. \A v \in Workers : hand[v] = t => hand'[v] = t
      BY <2>2, <2>4 DEF TypeOK
    <3>3. \A a \in Actors : waking[a] = "publish" /\ target[a] = t =>
            waking'[a] = "publish" /\ target'[a] = t
      BY <2>1, <2>2 DEF TypeOK
    <3> QED
      BY <2>2, <3>1, <3>2, <3>3 DEF Held
  <2> QED
    BY <2>3, <2>4
<1> QED
  BY <1>1, <1>2, <1>3

LEMMA CommitDoneLosesNothing ==
  ASSUME IInv, ILost, NEW w \in Workers, CommitDone(w)
  PROVE  ILost'
<1> USE DEF IInv, ILost, CommitDone
<1>1. NoLostWakeup'
  <2>1. /\ hand[w] \in Tasks
        /\ fiber[hand[w]] = "entered"
        /\ Calm(hand[w])
        /\ waking[w] = "no"
        /\ w \in Actors
    BY DEF IHand, Switching, Calm, IdlePlaces, IWake, TypeOK, Actors
  <2> SUFFICES ASSUME NEW t \in Tasks, Suspended(t)
               PROVE  (\/ t \in waiting
                       \/ \E u \in Tasks : joiner[u] = t /\ life[u] # "done"
                       \/ \E a \in Actors : /\ waking[a] \in {"first", "second"}
                                             /\ target[a] = t)'
    BY DEF NoLostWakeup, Suspended
  <2>2. CASE t \in waiting
    BY <2>2
  <2>3. CASE \E a \in Actors : waking[a] \in {"first", "second"} /\ target[a] = t
    <3>1. PICK a \in Actors : waking[a] \in {"first", "second"} /\ target[a] = t
      BY <2>3
    <3>2. waking'[a] = waking[a] /\ target'[a] = target[a]
      BY <2>1, <3>1 DEF StartWake, TypeOK
    <3> QED
      BY <3>1, <3>2
  <2>4. CASE \E u \in Tasks : joiner[u] = t /\ life[u] # "done"
    <3>1. PICK u \in Tasks : joiner[u] = t /\ life[u] # "done"
      BY <2>4
    <3>2. CASE u # hand[w]
      BY <3>1, <3>2 DEF TypeOK
    <3>3. CASE u = hand[w]
      <4>1. hand[w] # Root /\ joiner[hand[w]] # NoTask
        BY <3>1, <3>3, SchedulerAssumption DEF SchedulerAssumption, IJoiner, IFate
      <4>2. waking'[w] = "first" /\ target'[w] = t
        BY <2>1, <3>1, <3>3, <4>1 DEF StartWake, TypeOK
      <4> QED
        BY <2>1, <4>2
    <3> QED
      BY <3>2, <3>3
  <2> QED
    BY <2>2, <2>3, <2>4 DEF NoLostWakeup
<1>2. IParking'
  BY DEF TypeOK, IParking, Drop, IHand, Switching, Calm
<1>3. IHeld'
  <2>1. /\ hand[w] \in Tasks
        /\ fiber[hand[w]] = "entered"
        /\ Calm(hand[w])
        /\ waking[w] = "no"
        /\ w \in Actors
    BY DEF IHand, Switching, Calm, IdlePlaces, IWake, TypeOK, Actors
  <2>2. \A t \in Tasks : Runnable(t)' => Runnable(t) /\ t # hand[w]
    BY <2>1 DEF Runnable, Calm
  <2>3. \A v \in Workers : hand[v] # hand[w] => hand'[v] = hand[v]
    BY DEF Drop, TypeOK
  <2>4. \A a \in Actors : waking[a] = "publish" =>
          waking'[a] = waking[a] /\ target'[a] = target[a]
    BY <2>1 DEF StartWake, TypeOK
  <2>5. UNCHANGED queue
    OBVIOUS
  <2> QED
    BY <2>2, <2>3, <2>4, <2>5 DEF IHeld, Held
<1> QED
  BY <1>1, <1>2, <1>3

LEMMA ReleaseLosesNothing ==
  ASSUME IInv, ILost, NEW w \in Workers, Release(w)
  PROVE  ILost'
<1> USE DEF IInv, ILost, Release
<1>1. NoLostWakeup'
  BY DEF NoLostWakeup, Suspended
<1>2. IParking'
  BY DEF IParking, Drop, IHand, IFate, Calm
<1>3. IHeld'
  BY DEF IHeld, Held, Runnable, Drop, IHand, IFate, Calm
<1> QED
  BY <1>1, <1>2, <1>3

LEMMA LookPopLosesNothing ==
  ASSUME IInv, ILost, NEW w \in Workers, LookPop(w)
  PROVE  ILost'
<1> USE DEF IInv, ILost, LookPop
<1>1. NoLostWakeup'
  BY DEF NoLostWakeup, Suspended
<1>2. IParking'
  <2>1. hand[w] = NoTask
    BY DEF Looking, IHand, IdlePlaces
  <2>2. \A v \in Workers : v # w => hand'[v] = hand[v]
    BY DEF TypeOK
  <2> QED
    BY <2>1, <2>2, SchedulerAssumption DEF SchedulerAssumption, IParking
<1>3. IHeld'
  <2> SUFFICES ASSUME NEW t \in Tasks, Runnable(t)
               PROVE  Held(t)'
    BY DEF IHeld, Runnable
  <2>1. PICK i \in Candidates(w) : /\ hand' = [hand EXCEPT ![w] = queue[i]]
                                   /\ queue' = Without(queue, i)
    OBVIOUS
  <2>2. i \in 1..Len(queue)
    BY <2>1 DEF Candidates, Eligible
  <2>3. /\ Len(queue) \in Nat
        /\ Len(queue') = Len(queue) - 1
        /\ \A j \in 1..Len(queue') :
             queue'[j] = IF j < i THEN queue[j] ELSE queue[j + 1]
    <3>1. queue \in Seq(Tasks)
      BY DEF TypeOK
    <3>2. /\ Len(Without(queue, i)) = Len(queue) - 1
          /\ \A j \in 1..Len(queue) - 1 :
               Without(queue, i)[j] = IF j < i THEN queue[j] ELSE queue[j + 1]
      BY <2>2, <3>1, WithoutFacts
    <3> HIDE DEF IInv, ILost, LookPop
    <3> QED
      BY <2>1, <3>1, <3>2
  <2>4. hand[w] = NoTask
    BY DEF Looking, IHand, IdlePlaces
  <2>5. Held(t)
    BY DEF IHeld
  <2>6. CASE \E v \in Workers : hand[v] = t
    <3>1. PICK v \in Workers : hand[v] = t
      BY <2>6
    <3>2. hand'[v] = t
      BY <2>1, <2>4, <3>1, SchedulerAssumption DEF SchedulerAssumption, TypeOK
    <3> QED
      BY <3>2 DEF Held
  <2>7. CASE \E j \in 1..Len(queue) : queue[j] = t
    <3>1. PICK j \in 1..Len(queue) : queue[j] = t
      BY <2>7
    <3>2. CASE j = i
      BY <2>1, <3>1, <3>2 DEF Held, TypeOK
    <3>3. CASE j < i
      <4>1. j \in 1..Len(queue') /\ queue'[j] = t
        BY <2>2, <2>3, <3>1, <3>3
      <4> QED
        BY <4>1 DEF Held
    <3>4. CASE j > i
      <4>1. j - 1 \in 1..Len(queue') /\ queue'[j - 1] = t
        BY <2>2, <2>3, <3>1, <3>4
      <4> QED
        BY <4>1 DEF Held
    <3> QED
      BY <2>2, <3>2, <3>3, <3>4
  <2>8. CASE \E a \in Actors : waking[a] = "publish" /\ target[a] = t
    BY <2>8 DEF Held
  <2> QED
    BY <2>5, <2>6, <2>7, <2>8 DEF Held
<1> QED
  BY <1>1, <1>2, <1>3

LEMMA EnterLosesNothing ==
  ASSUME IInv, ILost, NEW w \in Workers, Enter(w)
  PROVE  ILost'
<1> USE DEF IInv, ILost, Enter
<1>1. NoLostWakeup'
  BY DEF NoLostWakeup, Suspended
<1>2. IParking'
  BY DEF IParking
<1>3. IHeld'
  BY DEF IHeld, Held, Runnable
<1> QED
  BY <1>1, <1>2, <1>3

LEMMA ResumeLosesNothing ==
  ASSUME IInv, ILost, NEW w \in Workers, Resume(w)
  PROVE  ILost'
<1> USE DEF IInv, ILost, Resume
<1>1. NoLostWakeup'
  <2>1. hand[w] \in Tasks /\ fiber[hand[w]] = "entered" /\ phase[hand[w]] = "ready"
    BY DEF IHand, Startable, IdlePlaces, TypeOK
  <2>2. \A t \in Tasks : Suspended(t)' => Suspended(t)
    BY <2>1 DEF Suspended, TypeOK
  <2>3. UNCHANGED <<waiting, joiner, life, waking, target>>
    OBVIOUS
  <2> QED
    BY <2>2, <2>3 DEF NoLostWakeup
<1>2. IParking'
  BY DEF TypeOK, IParking
<1>3. IHeld'
  <2>1. hand[w] \in Tasks /\ fiber[hand[w]] = "entered" /\ phase[hand[w]] = "ready"
    BY DEF IHand, Startable, IdlePlaces, TypeOK
  <2>2. \A t \in Tasks : Runnable(t)' => Runnable(t)
    BY <2>1 DEF Runnable, TypeOK
  <2>3. UNCHANGED <<queue, hand, waking, target>>
    OBVIOUS
  <2> QED
    BY <2>2, <2>3 DEF IHeld, Held
<1> QED
  BY <1>1, <1>2, <1>3

LEMMA JoinClaimLosesNothing ==
  ASSUME IInv, ILost, NEW w \in Workers, JoinClaim(w)
  PROVE  ILost'
<1> USE DEF IInv, ILost, JoinClaim
<1>1. NoLostWakeup'
  <2> DEFINE self == hand[w]
             u == callee[self]
  <2>1. self \in Tasks /\ u \in Tasks /\ joiner[u] = NoTask
    BY DEF IHand, IdlePlaces, IJoiner, TypeOK
  <2>2. CASE life[u] = "done"
    BY <2>2 DEF NoLostWakeup, Suspended
  <2>3. CASE life[u] # "done"
    <3>1. /\ joiner' = [joiner EXCEPT ![u] = self]
          /\ UNCHANGED <<waiting, life, waking, target>>
          /\ \A t \in Tasks : Suspended(t)' => Suspended(t) \/ t = self
      BY <2>1, <2>3 DEF Suspended, TypeOK
    <3>2. joiner'[u] = self
      BY <2>1, <3>1 DEF TypeOK
    <3>3. \A t, v \in Tasks : joiner[v] = t => joiner'[v] = t
      BY <2>1, <3>1, SchedulerAssumption DEF SchedulerAssumption, TypeOK
    <3> QED
      BY <2>1, <2>3, <3>1, <3>2, <3>3 DEF NoLostWakeup
  <2> QED
    BY <2>2, <2>3
<1>2. IParking'
  BY DEF TypeOK, IParking
<1>3. IHeld'
  BY DEF TypeOK, IHeld, Held, Runnable
<1> QED
  BY <1>1, <1>2, <1>3

LEMMA ReclaimLosesNothing ==
  ASSUME IInv, ILost, NEW w \in Workers, Reclaim(w)
  PROVE  ILost'
<1> USE DEF IInv, ILost, Reclaim
<1>1. NoLostWakeup'
  BY DEF NoLostWakeup, Suspended
<1>2. IParking'
  BY DEF IParking
<1>3. IHeld'
  BY DEF IHeld, Held, Runnable
<1> QED
  BY <1>1, <1>2, <1>3

LEMMA PublishLosesNothing ==
  ASSUME IInv, ILost, NEW a \in Actors, Publish(a)
  PROVE  ILost'
<1> USE DEF IInv, ILost, Publish
<1>1. NoLostWakeup'
  <2>1. \A b \in Actors : waking[b] \in {"first", "second"} =>
          waking'[b] = waking[b] /\ target'[b] = target[b]
    BY DEF TypeOK
  <2> QED
    BY <2>1 DEF NoLostWakeup, Suspended
<1>2. IParking'
  BY DEF IParking
<1>3. IHeld'
  BY DEF IHeld, Held, Runnable
<1> QED
  BY <1>1, <1>2, <1>3

LEMMA WakeFirstLosesNothing ==
  ASSUME IInv, ILost, NEW a \in Actors, WakeFirst(a)
  PROVE  ILost'
<1> USE DEF IInv, ILost, WakeFirst
<1>1. NoLostWakeup'
  BY DEF TypeOK, NoLostWakeup, Suspended, EndWake
<1>2. IParking'
  BY DEF IParking
<1>3. IHeld'
  <2>1. /\ \A t \in Tasks : Runnable(t)' => Runnable(t) \/ phase[t] = "parking"
        /\ UNCHANGED <<queue, hand>>
    BY DEF Runnable, TypeOK
  <2>2. \A b \in Actors : waking[b] = "publish" =>
          waking'[b] = waking[b] /\ target'[b] = target[b]
    BY DEF EndWake, TypeOK
  <2> QED
    BY <2>1, <2>2 DEF IHeld, Held, IParking
<1> QED
  BY <1>1, <1>2, <1>3

LEMMA WakeSecondLosesNothing ==
  ASSUME IInv, ILost, NEW a \in Actors, WakeSecond(a)
  PROVE  ILost'
<1> USE DEF IInv, ILost, WakeSecond
<1>1. NoLostWakeup'
  BY DEF TypeOK, NoLostWakeup, Suspended, IWake
<1>2. IParking'
  BY DEF TypeOK, IParking
<1>3. IHeld'
  BY DEF TypeOK, IHeld, Held, Runnable, IWake
<1> QED
  BY <1>1, <1>2, <1>3

LEMMA WakeWaiterLosesNothing ==
  ASSUME IInv, ILost, NEW a \in Actors, NEW t \in Tasks, WakeWaiter(a, t)
  PROVE  ILost'
<1> USE DEF IInv, ILost, WakeWaiter
<1>1. NoLostWakeup'
  BY DEF TypeOK, NoLostWakeup, Suspended, StartWake
<1>2. IParking'
  BY DEF IParking
<1>3. IHeld'
  BY DEF IHeld, Held, Runnable, StartWake
<1> QED
  BY <1>1, <1>2, <1>3

LEMMA SpawnLosesNothing ==
  ASSUME IInv, ILost, NEW w \in Workers, NEW t \in Tasks, Spawn(w, t)
  PROVE  ILost'
<1> USE DEF IInv, ILost, Spawn
<1>1. NoLostWakeup'
  BY DEF NoLostWakeup, Suspended, InUser
<1>2. IParking'
  BY DEF IParking
<1>3. IHeld'
  BY DEF TypeOK, Actors, IHeld, Held, Runnable, InUser
<1> QED
  BY <1>1, <1>2, <1>3

-----------------------------------------------------------------------------
LEMMA StepLosesNothing == IInv /\ ILost /\ [Next]_vars => ILost'
<1> SUFFICES ASSUME IInv, ILost, [Next]_vars
             PROVE  ILost'
  OBVIOUS
<1>1. CASE UNCHANGED vars
  BY <1>1, SameReads DEF vars, reads
<1>2. ASSUME NEW a \in Actors, Waker(a)
      PROVE  ILost'
  BY <1>2, PublishLosesNothing, WakeFirstLosesNothing, WakeSecondLosesNothing
  DEF Waker
<1>3. ASSUME NEW a \in Actors, NEW t \in Tasks, WakeWaiter(a, t)
      PROVE  ILost'
  BY <1>3, WakeWaiterLosesNothing
<1>4. ASSUME NEW w \in Workers, FiberCall(w)
      PROVE  ILost'
  <2>1. ASSUME NEW t \in Tasks, Spawn(w, t)
        PROVE  ILost'
    BY <2>1, SpawnLosesNothing
  <2>2. ASSUME NEW t \in Tasks, CallJoin(w, t) \/ CallDetach(w, t)
        PROVE  ILost'
    BY <2>2, SameReads DEF CallJoin, CallDetach, reads
  <2>3. CASE DetachClaim(w) \/ ClaimTrap(w)
    BY <2>3, SameReads DEF DetachClaim, ClaimTrap, reads
  <2> QED
    BY <1>4, <2>1, <2>2, <2>3, JoinClaimLosesNothing, ReclaimLosesNothing
    DEF FiberCall
<1>5. ASSUME NEW w \in Workers, SwitchAway(w)
      PROVE  ILost'
  BY <1>5, YieldLosesNothing, ParkLosesNothing, CompleteLosesNothing
  DEF SwitchAway
<1>6. ASSUME NEW w \in Workers, Dispatch(w)
      PROVE  ILost'
  <2>1. CASE SwitchOut(w) \/ StoreShutdown(w) \/ BroadcastShutdown(w)
    BY <2>1, SameReads DEF SwitchOut, StoreShutdown, BroadcastShutdown, reads
  <2>2. CASE LookStop(w) \/ LookSleep(w)
    BY <2>2, SameReads DEF LookStop, LookSleep, reads
  <2> QED
    BY <1>6, <2>1, <2>2, CommitParkLosesNothing, CommitNotifiedLosesNothing,
       CommitDoneLosesNothing, ReleaseLosesNothing, LookPopLosesNothing,
       EnterLosesNothing, ResumeLosesNothing
    DEF Dispatch
<1>7. ASSUME NEW w \in Workers, SpuriousWakeup(w)
      PROVE  ILost'
  BY <1>7, SameReads DEF SpuriousWakeup, reads
<1> QED
  BY <1>1, <1>2, <1>3, <1>4, <1>5, <1>6, <1>7 DEF Next

\* Nothing is lost in any reachable state of wakes, commits and dispatches.
THEOREM NothingLost == Spec => []ILost
<1>1. IInv /\ IInv' /\ ILost /\ [Next]_vars => ILost'
  BY StepLosesNothing
<1> QED
  BY <1>1, Invariance, InitLosesNothing, PTL DEF Spec

\* A suspended Task is always registered, joining, or about to be woken
\* (hex_task_commit_park against hex_task_wake), and a runnable one always
\* held, queued or about to be (hex_ready_publish).
THEOREM NoneIsLost == Spec => []NothingIsLost
<1>1. ILost => NoLostTask
  <2> SUFFICES ASSUME ILost, NEW t \in Tasks, Runnable(t)
               PROVE  Holders(t) # {}
    BY DEF NoLostTask
  <2>1. Held(t)
    BY DEF ILost, IHeld
  <2>2. CASE \E w \in Workers : hand[w] = t
    <3>1. PICK w \in Workers : hand[w] = t
      BY <2>2
    <3>2. <<"hand", w>> \in Holders(t)
      BY <3>1 DEF Holders
    <3> QED
      BY <3>2
  <2>3. CASE \E i \in 1..Len(queue) : queue[i] = t
    <3>1. PICK i \in 1..Len(queue) : queue[i] = t
      BY <2>3
    <3>2. <<"queue", i>> \in Holders(t)
      BY <3>1 DEF Holders
    <3> QED
      BY <3>2
  <2>4. CASE \E a \in Actors : waking[a] = "publish" /\ target[a] = t
    <3>1. PICK a \in Actors : waking[a] = "publish" /\ target[a] = t
      BY <2>4
    <3>2. <<"publish", a>> \in Holders(t)
      BY <3>1 DEF Holders
    <3> QED
      BY <3>2
  <2> QED
    BY <2>1, <2>2, <2>3, <2>4 DEF Held
<1>2. ILost => NothingIsLost
  BY <1>1 DEF ILost, NothingIsLost
<1> QED
  BY <1>2, NothingLost, PTL

-----------------------------------------------------------------------------
\* No worker idles beside work.  Awake is inductive over IInv.

\* Is Task t in the ready queue?
Queued(t) == \E i \in 1..Len(queue) : queue[i] = t

Lookers == {w \in Workers : at[w] = "look"}

\* The awake workers that are sure to take some Task but root: with root in the
\* queue, worker zero may take root.
Takers == IF Queued(Root) THEN Lookers \ {WorkerZero} ELSE Lookers

\* A sleeping worker zero misses no root, and no worker sleeps beside more
\* Tasks than the takers will take.
Awake ==
  ~shutdown /\ Sleepers # {} =>
    /\ WorkerZero \in Sleepers => ~Queued(Root)
    /\ Cardinality(Eligible) <= Cardinality(Takers)

\* Every set of workers or of queue positions is finite.
LEMMA CountsAreFinite ==
  ASSUME NEW S \in SUBSET Workers
  PROVE  IsFiniteSet(S) /\ Cardinality(S) \in Nat
<1>1. IsFiniteSet(S)
  BY SchedulerAssumption, FS_Subset DEF SchedulerAssumption
<1> QED
  BY <1>1, FS_CardinalityType

LEMMA PositionsAreFinite ==
  ASSUME NEW q \in Seq(Tasks), NEW S \in SUBSET (1..Len(q))
  PROVE  IsFiniteSet(S) /\ Cardinality(S) \in Nat
<1>1. Len(q) \in Nat
  OBVIOUS
<1>2. IsFiniteSet(1..Len(q))
  BY <1>1, FS_Interval
<1>3. IsFiniteSet(S)
  BY <1>2, FS_Subset
<1> QED
  BY <1>3, FS_CardinalityType

\* The first position of a set of queue positions.
LEMMA FirstPosition ==
  ASSUME NEW S \in SUBSET Nat, S # {}
  PROVE  \E i \in S : \A j \in S : i <= j
<1>1. \E i \in S : \A j \in S : ~ (<<j, i>> \in OpToRel(<, Nat))
  BY NatLessThanWellFounded, WFMin
<1>2. PICK i \in S : \A j \in S : ~ (<<j, i>> \in OpToRel(<, Nat))
  BY <1>1
<1>3. ASSUME NEW j \in S
      PROVE  i <= j
  <2>1. i \in Nat /\ j \in Nat
    OBVIOUS
  <2>2. <<j, i>> \in Nat \X Nat
    BY <2>1
  <2>3. ~ (j < i)
    BY <1>2, <2>1, <2>2 DEF OpToRel
  <2> QED
    BY <2>1, <2>3
<1> QED
  BY <1>3

-----------------------------------------------------------------------------
\* Steps that leave the queue alone, put nobody to sleep and send no awake
\* worker away from it.
LEMMA AwakeStays ==
  ASSUME TypeOK, Awake, queue' = queue, shutdown => shutdown',
         \A w \in Workers : at'[w] = "sleep" => at[w] = "sleep",
         \A w \in Workers : at[w] = "look" => at'[w] = "look"
  PROVE  Awake'
<1> SUFFICES ASSUME ~shutdown', Sleepers' # {}
             PROVE  /\ WorkerZero \in Sleepers' => ~Queued(Root)'
                    /\ Cardinality(Eligible') <= Cardinality(Takers')
  BY DEF Awake
<1>1. Sleepers' \subseteq Sleepers
  BY DEF Sleepers
<1>2. /\ Queued(Root)' <=> Queued(Root)
      /\ Eligible' = Eligible
  BY DEF Queued, Eligible
<1>3. /\ WorkerZero \in Sleepers => ~Queued(Root)
      /\ Cardinality(Eligible) <= Cardinality(Takers)
  BY <1>1 DEF Awake
<1>4. Lookers \subseteq Lookers' /\ Lookers' \subseteq Workers
  BY DEF Lookers
<1>5. Takers \subseteq Takers' /\ Takers' \subseteq Workers
  BY <1>2, <1>4 DEF Takers
<1>6. Cardinality(Takers) <= Cardinality(Takers')
  BY <1>5, CountsAreFinite, FS_Subset
<1>7. Cardinality(Takers) \in Nat /\ Cardinality(Takers') \in Nat
  BY <1>5, CountsAreFinite
<1>8. Cardinality(Eligible) \in Nat
  BY PositionsAreFinite DEF Eligible, TypeOK
<1> QED
  BY <1>1, <1>2, <1>3, <1>6, <1>7, <1>8

\* A worker that is neither at the queue nor on its way to sleep.
LEMMA OthersStayAwake ==
  ASSUME TypeOK, Awake, NEW w \in Workers, NEW p, p # "sleep", Goto(w, p),
         at[w] # "look", queue' = queue, shutdown => shutdown'
  PROVE  Awake'
<1>1. \A v \in Workers : at'[v] = IF v = w THEN p ELSE at[v]
  BY DEF TypeOK, Goto
<1> QED
  BY <1>1, AwakeStays

\* Root's publication wakes every sleeper; any other one wakes a sleeper, who is
\* one more to take a Task.
LEMMA PublishAwake ==
  ASSUME TypeOK, IWake, Awake, NEW a \in Actors, Publish(a)
  PROVE  Awake'
<1> SUFFICES ASSUME ~shutdown', Sleepers' # {}
             PROVE  /\ WorkerZero \in Sleepers' => ~Queued(Root)'
                    /\ Cardinality(Eligible') <= Cardinality(Takers')
  BY DEF Awake
<1> DEFINE n == Len(queue)
           t == target[a]
<1>1. /\ ~shutdown
      /\ queue' = Append(queue, t)
      /\ at' \in IF t = Root THEN {Broadcast(at)} ELSE Signalled(at)
  BY DEF Publish
<1>2. n \in Nat /\ t \in Tasks /\ queue \in Seq(Tasks)
  BY SchedulerAssumption DEF SchedulerAssumption, Publish, IWake, TypeOK
<1>3. /\ Len(queue') = n + 1
      /\ queue'[n + 1] = t
      /\ \A i \in 1..n : queue'[i] = queue[i]
  BY <1>1, <1>2
<1>4. t # Root /\ at' \in Signalled(at)
  <2>1. CASE t = Root
    <3>1. at' = Broadcast(at)
      BY <1>1, <2>1
    <3>2. Sleepers' = {}
      BY <3>1 DEF Sleepers, Broadcast, TypeOK
    <3> QED
      BY <3>2
  <2> QED
    BY <1>1, <2>1
<1>5. PICK v \in Sleepers : at' = [at EXCEPT ![v] = "look"]
  <2>1. CASE Sleepers = {}
    <3>1. at' = at
      BY <1>4, <2>1 DEF Signalled
    <3> QED
      BY <2>1, <3>1 DEF Sleepers
  <2> QED
    BY <1>4, <2>1 DEF Signalled
<1>6. /\ v \in Workers
      /\ at[v] = "sleep"
      /\ \A w \in Workers : at'[w] = IF w = v THEN "look" ELSE at[w]
  BY <1>5 DEF Sleepers, TypeOK
<1>7. Sleepers' \subseteq Sleepers
  BY <1>6 DEF Sleepers
<1>8. /\ WorkerZero \in Sleepers => ~Queued(Root)
      /\ Cardinality(Eligible) <= Cardinality(Takers)
  BY <1>1, <1>5 DEF Awake
<1>9. Queued(Root)' <=> Queued(Root)
  <2>1. 1..Len(queue') = (1..n) \cup {n + 1}
    BY <1>2, <1>3
  <2> QED
    BY <1>3, <1>4, <2>1 DEF Queued
<1>10. Eligible' = Eligible \cup {n + 1} /\ n + 1 \notin Eligible
  <2>1. 1..Len(queue') = (1..n) \cup {n + 1} /\ n + 1 \notin 1..n
    BY <1>2, <1>3
  <2> QED
    BY <1>3, <1>4, <2>1 DEF Eligible
<1>11. v \notin Takers /\ Takers \subseteq Workers
  BY <1>6 DEF Takers, Lookers
<1>12. Takers \cup {v} \subseteq Takers' /\ Takers' \subseteq Workers
  <2>1. Lookers' = Lookers \cup {v}
    BY <1>6 DEF Lookers
  <2>2. Queued(Root) => v # WorkerZero
    BY <1>5, <1>8
  <2> QED
    BY <1>9, <2>1, <2>2 DEF Takers, Lookers
<1>13. Cardinality(Eligible') = Cardinality(Eligible) + 1
  BY <1>2, <1>10, PositionsAreFinite, FS_AddElement DEF Eligible
<1>14. Cardinality(Takers \cup {v}) = Cardinality(Takers) + 1
  BY <1>11, CountsAreFinite, FS_AddElement
<1>15. Cardinality(Takers \cup {v}) <= Cardinality(Takers')
  BY <1>12, CountsAreFinite, FS_Subset
<1>16. /\ Cardinality(Takers) \in Nat
       /\ Cardinality(Takers') \in Nat
       /\ Cardinality(Eligible) \in Nat
  BY <1>2, <1>11, <1>12, CountsAreFinite, PositionsAreFinite DEF Eligible
<1>17. Cardinality(Eligible') <= Cardinality(Takers')
  BY <1>8, <1>13, <1>14, <1>15, <1>16
<1> QED
  BY <1>7, <1>8, <1>9, <1>17

\* Without position i of the queue, its Tasks but root are those at the other
\* positions.
LEMMA EligibleWithout ==
  ASSUME queue \in Seq(Tasks), NEW i \in 1..Len(queue), queue' = Without(queue, i)
  PROVE  /\ Queued(Root)' => Queued(Root)
         /\ Cardinality(Eligible') <= Cardinality(Eligible \ {i})
         /\ Eligible' \subseteq 1..Len(queue')
         /\ queue' \in Seq(Tasks)
<1> DEFINE n == Len(queue)
           f == [j \in Eligible' |-> IF j < i THEN j ELSE j + 1]
<1>1. n \in Nat /\ i \in 1..n
  OBVIOUS
<1>2. /\ queue' \in Seq(Tasks)
      /\ Len(queue') = n - 1
      /\ \A j \in 1..Len(queue') : queue'[j] = IF j < i THEN queue[j] ELSE queue[j + 1]
  BY WithoutFacts
<1>3. \A j \in 1..(n - 1) : j \in 1..n /\ j + 1 \in 1..n
  BY <1>1
<1>4. Queued(Root)' => Queued(Root)
  BY <1>2, <1>3 DEF Queued
<1>5. Eligible' \subseteq 1..(n - 1)
  BY <1>2 DEF Eligible
<1>6. ASSUME NEW j \in Eligible'
      PROVE  f[j] \in Eligible \ {i}
  <2>1. j \in 1..(n - 1) /\ queue'[j] # Root
    BY <1>2, <1>6 DEF Eligible
  <2>2. f[j] = IF j < i THEN j ELSE j + 1
    OBVIOUS
  <2>3. f[j] \in 1..n /\ f[j] # i
    BY <1>1, <1>3, <2>1, <2>2
  <2>4. queue[f[j]] = queue'[j]
    BY <1>2, <2>1, <2>2
  <2> QED
    BY <2>1, <2>3, <2>4 DEF Eligible
<1>7. ASSUME NEW j \in Eligible', NEW k \in Eligible', f[j] = f[k]
      PROVE  j = k
  <2>1. j \in Int /\ k \in Int /\ i \in Int
    BY <1>1, <1>5
  <2>2. (IF j < i THEN j ELSE j + 1) = (IF k < i THEN k ELSE k + 1)
    BY <1>7
  <2> QED
    BY <2>1, <2>2
<1>8. f \in Injection(Eligible', Eligible \ {i})
  <2>1. f \in [Eligible' -> Eligible \ {i}]
    BY <1>6
  <2> HIDE DEF f
  <2> QED
    BY <1>7, <2>1 DEF Injection, IsInjective
<1>9. IsFiniteSet(Eligible \ {i})
  BY PositionsAreFinite DEF Eligible
<1>10. Cardinality(Eligible') <= Cardinality(Eligible \ {i})
  BY <1>8, <1>9, FS_Injection
<1> QED
  BY <1>2, <1>4, <1>5, <1>10

\* A worker that pops is one less to take a Task, unless worker zero took root;
\* then root is off the queue and worker zero was no taker.
LEMMA LookPopAwake ==
  ASSUME TypeOK, Awake, NEW w \in Workers, LookPop(w)
  PROVE  Awake'
<1> SUFFICES ASSUME Sleepers' # {}
             PROVE  /\ WorkerZero \in Sleepers' => ~Queued(Root)'
                    /\ Cardinality(Eligible') <= Cardinality(Takers')
  BY DEF Awake
<1>1. /\ ~shutdown
      /\ at[w] = "look"
      /\ at' = [at EXCEPT ![w] = "resume"]
      /\ queue \in Seq(Tasks)
  BY DEF LookPop, Looking, Goto, TypeOK
<1>2. PICK i \in Candidates(w) : queue' = Without(queue, i)
  BY DEF LookPop
<1>3. i \in 1..Len(queue) /\ (w # WorkerZero => i \in Eligible)
  BY <1>2 DEF Candidates, Eligible
<1>4. \A v \in Workers : at'[v] = IF v = w THEN "resume" ELSE at[v]
  BY <1>1 DEF TypeOK
<1>5. Sleepers' = Sleepers /\ Lookers' = Lookers \ {w} /\ w \in Lookers
  BY <1>1, <1>4 DEF Sleepers, Lookers
<1>6. /\ WorkerZero \in Sleepers => ~Queued(Root)
      /\ Cardinality(Eligible) <= Cardinality(Takers)
  BY <1>1, <1>5 DEF Awake
<1>7. /\ Queued(Root)' => Queued(Root)
      /\ Cardinality(Eligible') <= Cardinality(Eligible \ {i})
      /\ Eligible' \subseteq 1..Len(queue')
      /\ queue' \in Seq(Tasks)
  BY <1>1, <1>2, <1>3, EligibleWithout
<1>8. Takers \ {w} \subseteq Takers' /\ Takers' \subseteq Workers
  BY <1>5, <1>7 DEF Takers, Lookers
<1>9. Takers \subseteq Workers
  BY DEF Takers, Lookers
<1>10. /\ Cardinality(Takers \ {w}) <= Cardinality(Takers')
       /\ Cardinality(Takers \ {w}) =
            IF w \in Takers THEN Cardinality(Takers) - 1 ELSE Cardinality(Takers)
  BY <1>8, <1>9, CountsAreFinite, FS_Subset, FS_RemoveElement
<1>11. Cardinality(Eligible \ {i}) =
         IF i \in Eligible THEN Cardinality(Eligible) - 1 ELSE Cardinality(Eligible)
  <2>1. IsFiniteSet(Eligible)
    BY <1>1, PositionsAreFinite DEF Eligible
  <2> QED
    BY <2>1, FS_RemoveElement
<1>12. /\ Cardinality(Eligible) \in Nat
       /\ Cardinality(Eligible') \in Nat
  BY <1>1, <1>7, PositionsAreFinite DEF Eligible
<1>13. Cardinality(Takers) \in Nat /\ Cardinality(Takers') \in Nat
  BY <1>8, <1>9, CountsAreFinite
<1>14. i \notin Eligible => w \notin Takers
  <2> SUFFICES ASSUME i \notin Eligible
               PROVE  w \notin Takers
    OBVIOUS
  <2>1. w = WorkerZero /\ queue[i] = Root
    BY <1>3 DEF Eligible
  <2>2. Queued(Root)
    BY <1>3, <2>1 DEF Queued
  <2> QED
    BY <2>1, <2>2 DEF Takers
<1>15. Cardinality(Eligible') <= Cardinality(Takers')
  BY <1>6, <1>7, <1>10, <1>11, <1>12, <1>13, <1>14
<1> QED
  BY <1>5, <1>6, <1>7, <1>15

\* A worker sleeps only when no Task is left for it.
LEMMA LookSleepAwake ==
  ASSUME TypeOK, Awake, NEW w \in Workers, LookSleep(w)
  PROVE  Awake'
<1>1. /\ ~shutdown
      /\ Candidates(w) = {}
      /\ at' = [at EXCEPT ![w] = "sleep"]
      /\ queue' = queue
      /\ shutdown' = shutdown
  BY DEF LookSleep, Goto
<1>2. Eligible = {} /\ (w = WorkerZero => ~Queued(Root))
  <2>1. CASE w = WorkerZero
    <3>1. 1 \notin 1..Len(queue)
      BY <1>1, <2>1 DEF Candidates
    <3>2. 1..Len(queue) = {}
      BY <3>1 DEF TypeOK
    <3> QED
      BY <3>2 DEF Eligible, Queued
  <2>2. CASE w # WorkerZero
    <3>1. Eligible \subseteq Nat
      BY DEF Eligible, TypeOK
    <3>2. ~ \E i \in Eligible : \A j \in Eligible : i <= j
      BY <1>1, <2>2 DEF Candidates
    <3>3. Eligible = {}
      BY <3>1, <3>2, FirstPosition
    <3> QED
      BY <2>2, <3>3
  <2> QED
    BY <2>1, <2>2
<1>3. Eligible' = {} /\ (Queued(Root)' <=> Queued(Root))
  BY <1>1, <1>2 DEF Eligible, Queued
<1>4. Takers' \subseteq Workers
  BY DEF Takers, Lookers
<1>5. Cardinality(Eligible') <= Cardinality(Takers')
  BY <1>3, <1>4, CountsAreFinite, FS_EmptySet
<1>6. WorkerZero \in Sleepers' => ~Queued(Root)'
  <2>1. WorkerZero \in Sleepers => ~Queued(Root)
    BY <1>1 DEF Awake
  <2>2. \A v \in Workers : at'[v] = IF v = w THEN "sleep" ELSE at[v]
    BY <1>1 DEF TypeOK
  <2> QED
    BY <1>2, <1>3, <2>1, <2>2 DEF Sleepers
<1> QED
  BY <1>5, <1>6 DEF Awake

\* Every other step of a dispatcher.
LEMMA DispatchAwake ==
  ASSUME TypeOK, Awake, NEW w \in Workers, Dispatch(w)
  PROVE  Awake'
<1>1. CASE SwitchOut(w)
  BY <1>1, OthersStayAwake DEF SwitchOut
<1>2. CASE CommitPark(w)
  BY <1>2, OthersStayAwake DEF CommitPark
<1>3. CASE CommitNotified(w)
  <2>1. Goto(w, "look") \/ Goto(w, "trap")
    BY <1>3 DEF CommitNotified
  <2>2. at[w] # "look" /\ queue' = queue /\ shutdown' = shutdown
    BY <1>3 DEF CommitNotified
  <2> QED
    BY <2>1, <2>2, OthersStayAwake
<1>4. CASE CommitDone(w)
  <2>1. Goto(w, "look") \/ Goto(w, "release") \/ Goto(w, "shutdown")
    BY <1>4 DEF CommitDone
  <2>2. at[w] # "look" /\ queue' = queue /\ shutdown' = shutdown
    BY <1>4 DEF CommitDone
  <2> QED
    BY <2>1, <2>2, OthersStayAwake
<1>5. CASE Release(w)
  BY <1>5, OthersStayAwake DEF Release
<1>6. CASE StoreShutdown(w)
  BY <1>6, OthersStayAwake DEF StoreShutdown
<1>7. CASE BroadcastShutdown(w)
  <2>1. /\ at' = Broadcast([at EXCEPT ![w] = "look"])
        /\ queue' = queue
        /\ shutdown' = shutdown
    BY <1>7 DEF BroadcastShutdown
  <2>2. \A v \in Workers : /\ at'[v] # "sleep"
                           /\ at[v] = "look" => at'[v] = "look"
    BY <2>1 DEF Broadcast, TypeOK
  <2> QED
    BY <2>1, <2>2, AwakeStays
<1>8. CASE LookStop(w)
  BY <1>8 DEF LookStop, Awake
<1>9. CASE Enter(w)
  BY <1>9, OthersStayAwake DEF Enter
<1>10. CASE Resume(w)
  <2>1. Goto(w, "user") \/ Goto(w, "reclaim") \/ Goto(w, "trap")
    BY <1>10 DEF Resume
  <2>2. at[w] # "look" /\ queue' = queue /\ shutdown' = shutdown
    BY <1>10 DEF Resume
  <2> QED
    BY <2>1, <2>2, OthersStayAwake
<1> QED
  BY <1>1, <1>2, <1>3, <1>4, <1>5, <1>6, <1>7, <1>8, <1>9, <1>10,
     LookPopAwake, LookSleepAwake DEF Dispatch

\* Every step of a fiber.
LEMMA FiberAwake ==
  ASSUME TypeOK, Awake, NEW w \in Workers, FiberCall(w) \/ SwitchAway(w)
  PROVE  Awake'
<1>1. ASSUME NEW t \in Tasks, Spawn(w, t)
      PROVE  Awake'
  BY <1>1, AwakeStays DEF Spawn
<1>2. ASSUME NEW t \in Tasks, CallJoin(w, t)
      PROVE  Awake'
  <2>1. Goto(w, "join") \/ Goto(w, "misuse")
    BY <1>2 DEF CallJoin
  <2>2. at[w] # "look" /\ queue' = queue /\ shutdown' = shutdown
    BY <1>2 DEF CallJoin, InUser
  <2> QED
    BY <2>1, <2>2, OthersStayAwake
<1>3. ASSUME NEW t \in Tasks, CallDetach(w, t)
      PROVE  Awake'
  BY <1>3, OthersStayAwake DEF CallDetach, InUser
<1>4. CASE JoinClaim(w)
  <2>1. Goto(w, "reclaim") \/ Goto(w, "switch")
    BY <1>4 DEF JoinClaim
  <2>2. at[w] # "look" /\ queue' = queue /\ shutdown' = shutdown
    BY <1>4 DEF JoinClaim
  <2> QED
    BY <2>1, <2>2, OthersStayAwake
<1>5. CASE DetachClaim(w)
  <2>1. Goto(w, "reclaim") \/ Goto(w, "user")
    BY <1>5 DEF DetachClaim
  <2>2. at[w] # "look" /\ queue' = queue /\ shutdown' = shutdown
    BY <1>5 DEF DetachClaim
  <2> QED
    BY <2>1, <2>2, OthersStayAwake
<1>6. CASE ClaimTrap(w)
  BY <1>6, OthersStayAwake DEF ClaimTrap
<1>7. CASE Reclaim(w)
  BY <1>7, OthersStayAwake DEF Reclaim
<1>8. CASE Yield(w)
  BY <1>8, OthersStayAwake DEF Yield, InUser
<1>9. CASE Park(w)
  BY <1>9, OthersStayAwake DEF Park, InUser
<1>10. CASE Complete(w)
  BY <1>10, OthersStayAwake DEF Complete, InUser
<1> QED
  BY <1>1, <1>2, <1>3, <1>4, <1>5, <1>6, <1>7, <1>8, <1>9, <1>10
  DEF FiberCall, SwitchAway

\* Every step keeps Awake.
LEMMA StepAwake == IInv /\ Awake /\ [Next]_vars => Awake'
<1> SUFFICES ASSUME IInv, Awake, [Next]_vars
             PROVE  Awake'
  OBVIOUS
<1>1. TypeOK /\ IWake
  BY DEF IInv
<1>2. CASE UNCHANGED vars
  BY <1>1, <1>2, AwakeStays DEF vars
<1>3. ASSUME NEW a \in Actors, Waker(a)
      PROVE  Awake'
  <2>1. CASE WakeFirst(a) \/ WakeSecond(a)
    BY <1>1, <2>1, AwakeStays DEF WakeFirst, WakeSecond
  <2> QED
    BY <1>1, <1>3, <2>1, PublishAwake DEF Waker
<1>4. ASSUME NEW a \in Actors, NEW t \in Tasks, WakeWaiter(a, t)
      PROVE  Awake'
  BY <1>1, <1>4, AwakeStays DEF WakeWaiter
<1>5. ASSUME NEW w \in Workers, SpuriousWakeup(w)
      PROVE  Awake'
  BY <1>1, <1>5, OthersStayAwake DEF SpuriousWakeup
<1> QED
  BY <1>1, <1>2, <1>3, <1>4, <1>5, DispatchAwake, FiberAwake DEF Next

\* No worker ever sleeps beside a Task it may take, unless as many awake workers
\* as there are such Tasks are on their way to the queue: hex_ready_publish need
\* signal only one worker for a Task, and must broadcast for root.
THEOREM NobodyIdles == Spec => []NoIdleWorker
<1>1. Init => Awake
  BY DEF Init, Awake, Sleepers
<1>2. IInv /\ Awake => NoIdleWorker
  <2> SUFFICES ASSUME TypeOK, Awake, NEW w \in Workers, at[w] = "sleep", ~shutdown
               PROVE  /\ w = WorkerZero => \A i \in 1..Len(queue) : queue[i] # Root
                      /\ Cardinality(Eligible) <= Cardinality(Lookers)
    BY DEF IInv, NoIdleWorker, Lookers
  <2>1. w \in Sleepers
    BY DEF Sleepers
  <2>2. /\ WorkerZero \in Sleepers => ~Queued(Root)
        /\ Cardinality(Eligible) <= Cardinality(Takers)
    BY <2>1 DEF Awake
  <2>3. Takers \subseteq Lookers /\ Lookers \subseteq Workers
    BY DEF Takers, Lookers
  <2>4. Cardinality(Takers) <= Cardinality(Lookers)
    BY <2>3, CountsAreFinite, FS_Subset
  <2>5. /\ Cardinality(Takers) \in Nat
        /\ Cardinality(Lookers) \in Nat
        /\ Cardinality(Eligible) \in Nat
    BY <2>3, CountsAreFinite, PositionsAreFinite DEF Eligible, TypeOK
  <2> QED
    BY <2>1, <2>2, <2>4, <2>5 DEF Queued
<1>3. IInv /\ Awake /\ [Next]_vars => Awake'
  BY StepAwake
<1> QED
  BY <1>1, <1>2, <1>3, Invariance, PTL DEF Spec
=============================================================================
