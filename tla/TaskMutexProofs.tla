--------------------------- MODULE TaskMutexProofs ---------------------------
(***************************************************************************)
(* Theorems about TaskMutex for any number of Tasks.  The inductive        *)
(* invariant adds to the properties that a woken Task already is the owner *)
(* (IPlaces) and that an owner has returned from lock or was woken to      *)
(* (IOwner).                                                               *)
(***************************************************************************)
EXTENDS TaskMutex, TLAPS

\* A Task that parks is put before the waiters, and only it is new.
LEMMA PushWaiter ==
  ASSUME NEW S, NEW s \in Seq(S), NEW t \in S, Distinct(s), t \notin Members(s)
  PROVE  /\ <<t>> \o s \in Seq(S)
         /\ <<t>> \o s # << >>
         /\ Distinct(<<t>> \o s)
         /\ Members(<<t>> \o s) = Members(s) \cup {t}
<1> DEFINE r == <<t>> \o s
<1>1. /\ r \in Seq(S)
      /\ Len(r) = Len(s) + 1
      /\ r[1] = t
      /\ \A i \in 2..Len(r) : r[i] = s[i - 1]
  OBVIOUS
<1>2. r # << >>
  BY <1>1
<1>3. Distinct(r)
  <2> SUFFICES ASSUME NEW i \in 1..Len(r), NEW j \in 1..Len(r), r[i] = r[j]
               PROVE  i = j
    BY DEF Distinct
  <2>1. CASE i = 1 /\ j # 1
    BY <1>1, <2>1 DEF Members
  <2>2. CASE i # 1 /\ j = 1
    BY <1>1, <2>2 DEF Members
  <2>3. CASE i # 1 /\ j # 1
    BY <1>1, <2>3 DEF Distinct
  <2> QED
    BY <2>1, <2>2, <2>3
<1>4. Members(r) = Members(s) \cup {t}
  <2>1. ASSUME NEW i \in 1..Len(r)
        PROVE  r[i] \in Members(s) \cup {t}
    BY <1>1 DEF Members
  <2>2. ASSUME NEW i \in 1..Len(s)
        PROVE  s[i] \in Members(r)
    <3>1. /\ i + 1 \in 1..Len(r)
          /\ r[i + 1] = s[i]
      BY <1>1
    <3> QED
      BY <3>1 DEF Members
  <2>3. t \in Members(r)
    BY <1>1 DEF Members
  <2> QED
    BY <2>1, <2>2, <2>3 DEF Members
<1> QED
  BY <1>1, <1>2, <1>3, <1>4

\* The Task that unlock takes off the list is no longer on it.
LEMMA PopWaiter ==
  ASSUME NEW S, NEW s \in Seq(S), s # << >>, Distinct(s)
  PROVE  /\ Head(s) \in Members(s)
         /\ Head(s) \in S
         /\ Tail(s) \in Seq(S)
         /\ Distinct(Tail(s))
         /\ Members(Tail(s)) = Members(s) \ {Head(s)}
<1> DEFINE r == Tail(s)
<1>1. /\ Head(s) = s[1]
      /\ 1 \in 1..Len(s)
      /\ s[1] \in S
      /\ r \in Seq(S)
      /\ Len(r) = Len(s) - 1
      /\ \A i \in 1..Len(r) : i + 1 \in 1..Len(s) /\ r[i] = s[i + 1]
  OBVIOUS
<1>2. Distinct(r)
  BY <1>1 DEF Distinct
<1>3. Members(r) = Members(s) \ {Head(s)}
  <2>1. ASSUME NEW i \in 1..Len(r)
        PROVE  r[i] \in Members(s) \ {Head(s)}
    BY <1>1 DEF Members, Distinct
  <2>2. ASSUME NEW i \in 1..Len(s), s[i] # Head(s)
        PROVE  s[i] \in Members(r)
    <3>1. i - 1 \in 1..Len(r) /\ r[i - 1] = s[i]
      BY <1>1, <2>2
    <3> QED
      BY <3>1 DEF Members
  <2> QED
    BY <2>1, <2>2 DEF Members
<1> QED
  BY <1>1, <1>2, <1>3 DEF Members

LEMMA InitHolds == Init => IInv
<1> SUFFICES ASSUME Init
             PROVE  IInv
  OBVIOUS
<1>1. TypeOK
  <2>1. << >> \in Seq(Tasks)
    OBVIOUS
  <2>2. trap \in {<<"none", None>>} \cup ({"lock", "unlock", "free"} \X Tasks)
    BY Zenon DEF Init
  <2> QED
    BY <2>1, <2>2 DEF Init, TypeOK
<1>2. NoStrandedWaiter
  <2>1. Members(waitList) = {} /\ Distinct(waitList)
    BY DEF Init, Members, Distinct
  <2> QED
    BY <2>1 DEF Init, NoStrandedWaiter
<1>3. OneHolder /\ TrapDeserved /\ FreedIsUnused /\ IPlaces /\ IOwner /\ IFreed
  BY DEF Init, OneHolder, TrapDeserved, FreedIsUnused, IPlaces, IOwner, IFreed
<1> QED
  BY <1>1, <1>2, <1>3 DEF IInv


LEMMA CallKeeps ==
  ASSUME IInv, NEW t \in Tasks, Call(t)
  PROVE  IInv'
BY TaskMutexAssumption
DEF Call, Goto, Running, IInv, TypeOK, OneHolder, NoStrandedWaiter,
    TrapDeserved, FreedIsUnused, IPlaces, IOwner, IFreed

LEMMA AcquireKeeps ==
  ASSUME IInv, NEW t \in Tasks, Acquire(t)
  PROVE  IInv'
BY TaskMutexAssumption
DEF Acquire, Goto, Running, IInv, TypeOK, OneHolder, NoStrandedWaiter,
    TrapDeserved, FreedIsUnused, IPlaces, IOwner, IFreed

LEMMA LockTrapKeeps ==
  ASSUME IInv, NEW t \in Tasks, LockTrap(t)
  PROVE  IInv'
BY TaskMutexAssumption
DEF LockTrap, Running, IInv, TypeOK, OneHolder, NoStrandedWaiter,
    TrapDeserved, FreedIsUnused, IPlaces, IOwner, IFreed

LEMMA ParkInLockKeeps ==
  ASSUME IInv, NEW t \in Tasks, ParkInLock(t)
  PROVE  IInv'
<1>1. t \notin Members(waitList)
  BY DEF IInv, NoStrandedWaiter, ParkInLock
<1>2. /\ waitList' \in Seq(Tasks)
      /\ waitList' # << >>
      /\ Distinct(waitList')
      /\ Members(waitList') = Members(waitList) \cup {t}
  BY <1>1, PushWaiter DEF IInv, TypeOK, NoStrandedWaiter, ParkInLock
<1>3. TypeOK'
  BY <1>2 DEF IInv, TypeOK, ParkInLock, Goto, SetWakeResult
<1>4. ~freed
  BY DEF IInv, IFreed, ParkInLock
<1>5. NoStrandedWaiter'
  BY <1>2, <1>3, TaskMutexAssumption
  DEF IInv, TypeOK, NoStrandedWaiter, IOwner, OneHolder, ParkInLock, Goto
<1>6. IPlaces' /\ IOwner'
  BY TaskMutexAssumption
  DEF IInv, TypeOK, OneHolder, IPlaces, IOwner, ParkInLock, Goto, SetWakeResult
<1>7. OneHolder' /\ TrapDeserved' /\ FreedIsUnused' /\ IFreed'
  BY <1>4 DEF IInv, OneHolder, TrapDeserved, FreedIsUnused, IFreed, ParkInLock
<1> QED
  BY <1>3, <1>5, <1>6, <1>7 DEF IInv

LEMMA ResumeKeeps ==
  ASSUME IInv, NEW t \in Tasks, Resume(t)
  PROVE  IInv'
BY TaskMutexAssumption
DEF Resume, Goto, Running, IInv, TypeOK, OneHolder, NoStrandedWaiter,
    TrapDeserved, FreedIsUnused, IPlaces, IOwner, IFreed

LEMMA UnlockKeeps ==
  ASSUME IInv, NEW t \in Tasks, Unlock(t)
  PROVE  IInv'
<1>1. CASE waitList = << >>
  <2>1. /\ owner = t
        /\ owner' = None
        /\ holds' = {}
        /\ at[t] = "user"
        /\ UNCHANGED <<waitList, wakeResult, at, trap, freed>>
    BY <1>1 DEF Unlock, IInv, OneHolder
  <2>2. TypeOK' /\ NoStrandedWaiter'
    BY <1>1, <2>1 DEF IInv, TypeOK, NoStrandedWaiter
  <2>3. IPlaces'
    BY <2>1, TaskMutexAssumption DEF IInv, IPlaces
  <2>4. /\ OneHolder' /\ TrapDeserved' /\ FreedIsUnused' /\ IOwner' /\ IFreed'
    BY <2>1 DEF OneHolder, TrapDeserved, FreedIsUnused, IOwner, IFreed,
                Unlock, Running
  <2> QED
    BY <2>2, <2>3, <2>4 DEF IInv
<1>2. CASE waitList # << >>
  <2> DEFINE w == Head(waitList)
  <2>1. /\ w \in Tasks
        /\ at[w] = "parked"
        /\ waitList' \in Seq(Tasks)
        /\ Distinct(waitList')
        /\ Members(waitList') = Members(waitList) \ {w}
    <3>1. /\ waitList \in Seq(Tasks)
          /\ Distinct(waitList)
          /\ Members(waitList) = {u \in Tasks : at[u] = "parked"}
          /\ waitList' = Tail(waitList)
      BY <1>2 DEF IInv, TypeOK, NoStrandedWaiter, Unlock
    <3>2. /\ w \in Members(waitList)
          /\ Tail(waitList) \in Seq(Tasks)
          /\ Distinct(Tail(waitList))
          /\ Members(Tail(waitList)) = Members(waitList) \ {w}
      BY <1>2, <3>1, PopWaiter
    <3> QED
      BY <3>1, <3>2
  <2>2. /\ owner' = w
        /\ at' = [at EXCEPT ![w] = "woken"]
        /\ wakeResult' = [wakeResult EXCEPT ![w] = TRUE]
        /\ holds' = {}
        /\ w # t
        /\ UNCHANGED <<trap, freed>>
    BY <1>2, <2>1 DEF Unlock, Goto, SetWakeResult, IInv, OneHolder
  <2>3. TypeOK'
    BY <2>1, <2>2 DEF IInv, TypeOK
  <2>4. NoStrandedWaiter'
    BY <2>1, <2>2 DEF IInv, TypeOK, NoStrandedWaiter
  <2>5. \A u \in Tasks : at[u] = "woken" => u = t
    BY DEF IInv, IPlaces, Unlock
  <2>6. at[t] = "user"
    BY DEF Unlock
  <2>7. IPlaces'
    BY <2>1, <2>2, <2>5, <2>6 DEF IInv, TypeOK, IPlaces
  <2>8. IOwner'
    BY <2>1, <2>2 DEF IInv, TypeOK, IOwner
  <2>9. OneHolder' /\ FreedIsUnused' /\ IFreed' /\ TrapDeserved'
    BY <1>2, <2>2 DEF OneHolder, FreedIsUnused, IFreed, TrapDeserved, Unlock, Running
  <2> QED
    BY <2>3, <2>4, <2>7, <2>8, <2>9 DEF IInv
<1> QED
  BY <1>1, <1>2

LEMMA UnlockTrapKeeps ==
  ASSUME IInv, NEW t \in Tasks, UnlockTrap(t)
  PROVE  IInv'
BY TaskMutexAssumption
DEF UnlockTrap, Running, IInv, TypeOK, OneHolder, NoStrandedWaiter,
    TrapDeserved, FreedIsUnused, IPlaces, IOwner, IFreed

LEMMA FreeKeeps ==
  ASSUME IInv, NEW t \in Tasks, Free(t)
  PROVE  IInv'
<1>1. \A u \in Tasks : at[u] = "user" /\ u \notin holds
  <2>1. Members(waitList) = {}
    BY DEF Free, Members
  <2> QED
    BY <2>1, TaskMutexAssumption
    DEF Free, IInv, TypeOK, OneHolder, NoStrandedWaiter, IPlaces
<1> QED
  BY <1>1
  DEF Free, IInv, TypeOK, OneHolder, NoStrandedWaiter, TrapDeserved,
      FreedIsUnused, IPlaces, IOwner, IFreed

LEMMA FreeTrapKeeps ==
  ASSUME IInv, NEW t \in Tasks, FreeTrap(t)
  PROVE  IInv'
BY TaskMutexAssumption
DEF FreeTrap, Running, IInv, TypeOK, OneHolder, NoStrandedWaiter,
    TrapDeserved, FreedIsUnused, IPlaces, IOwner, IFreed

LEMMA StepKeeps == IInv /\ [Next]_vars => IInv'
<1> SUFFICES ASSUME IInv, [Next]_vars
             PROVE  IInv'
  OBVIOUS
<1>1. CASE UNCHANGED vars
  BY <1>1
  DEF vars, IInv, TypeOK, OneHolder, NoStrandedWaiter, TrapDeserved,
      FreedIsUnused, IPlaces, IOwner, IFreed
<1>2. CASE Next
  BY <1>2, CallKeeps, AcquireKeeps, LockTrapKeeps, ParkInLockKeeps, ResumeKeeps,
     UnlockKeeps, UnlockTrapKeeps, FreeKeeps, FreeTrapKeeps DEF Next
<1> QED
  BY <1>1, <1>2

\* The invariant holds in every reachable state of lock, unlock and free.
THEOREM MutexInvariance == Spec => []IInv
BY InitHolds, StepKeeps, PTL DEF Spec

\* Mutual exclusion for any number of Tasks (lock, unlock).
THEOREM MutualExclusion == Spec => []OneHolder
<1>1. IInv => OneHolder
  BY DEF IInv
<1> QED
  BY <1>1, MutexInvariance, PTL

\* No Task is left parked in lock without an owner who will hand over.
THEOREM WaitersAreServed == Spec => []NoStrandedWaiter
<1>1. IInv => NoStrandedWaiter
  BY DEF IInv
<1> QED
  BY <1>1, MutexInvariance, PTL

\* lock and unlock trap only the Task that used the Mutex wrongly.
THEOREM TrapsAreDeserved == Spec => []TrapDeserved
<1>1. IInv => TrapDeserved
  BY DEF IInv
<1> QED
  BY <1>1, MutexInvariance, PTL

\* free releases no Mutex that a Task has, awaits or was just handed.
THEOREM FreeIsSafe == Spec => []FreedIsUnused
<1>1. IInv => FreedIsUnused
  BY DEF IInv
<1> QED
  BY <1>1, MutexInvariance, PTL
=============================================================================
