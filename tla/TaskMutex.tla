----------------------------- MODULE TaskMutex ------------------------------
(***************************************************************************)
(* The Mutex that Tasks share (hex_mutex_* in                              *)
(* src/compiler/generator/packages/concurrency.c): an owner and a stack of *)
(* parked Tasks under a raw mutex.  unlock makes the newest waiter the     *)
(* owner before it wakes it; a Task that comes in between parks.           *)
(*                                                                         *)
(* A critical section of the raw mutex is one step.  A wake made in it     *)
(* leads, by what the module Scheduler shows, to one resumption of the     *)
(* woken Task, which may come at any later time: the step Resume.          *)
(***************************************************************************)
EXTENDS Naturals, FiniteSets, Sequences

CONSTANTS
  Tasks,  \* the Tasks that share the Mutex
  None    \* no Task

ASSUME TaskMutexAssumption ==
  /\ IsFiniteSet(Tasks)
  /\ None \notin Tasks

VARIABLES
  owner,       \* owner
  waitList,    \* wait_list, the newest Task first
  wakeResult,  \* Task -> wake_result
  at,          \* Task -> its place in a call
  holds,       \* the Tasks whose last call was a lock that returned
  trap,        \* the call that ended the program, if one did
  freed        \* hex_mutex_free ran

vars == <<owner, waitList, wakeResult, at, holds, trap, freed>>

Distinct(s) == \A i, j \in 1..Len(s) : s[i] = s[j] => i = j
Members(s) == {s[i] : i \in 1..Len(s)}

TypeOK ==
  /\ owner \in Tasks \cup {None}
  /\ waitList \in Seq(Tasks)
  /\ wakeResult \in [Tasks -> BOOLEAN]
  /\ at \in [Tasks -> {"user", "lock", "parked", "woken"}]
  /\ holds \in SUBSET Tasks
  /\ trap \in {<<"none", None>>} \cup ({"lock", "unlock", "free"} \X Tasks)
  /\ freed \in BOOLEAN

\* hex_mutex_new
Init ==
  /\ owner = None
  /\ waitList = << >>
  /\ wakeResult = [t \in Tasks |-> FALSE]
  /\ at = [t \in Tasks |-> "user"]
  /\ holds = {}
  /\ trap = <<"none", None>>
  /\ freed = FALSE

Running == trap[1] = "none"
Goto(t, place) == at' = [at EXCEPT ![t] = place]
SetWakeResult(t, b) == wakeResult' = [wakeResult EXCEPT ![t] = b]

-----------------------------------------------------------------------------
\* hex_mutex_lock: the call, the three outcomes of its critical section, and
\* the resumption, after which only a Task without wake_result tries again.

Call(t) ==
  /\ Running
  /\ at[t] = "user"
  /\ ~freed
  /\ Goto(t, "lock")
  /\ UNCHANGED <<owner, waitList, wakeResult, holds, trap, freed>>

Acquire(t) ==
  /\ Running
  /\ at[t] = "lock"
  /\ owner = None
  /\ owner' = t
  /\ Goto(t, "user")
  /\ holds' = holds \cup {t}
  /\ UNCHANGED <<waitList, wakeResult, trap, freed>>

LockTrap(t) ==
  /\ Running
  /\ at[t] = "lock"
  /\ owner = t
  /\ trap' = <<"lock", t>>
  /\ UNCHANGED <<owner, waitList, wakeResult, at, holds, freed>>

ParkInLock(t) ==
  /\ Running
  /\ at[t] = "lock"
  /\ owner \notin {None, t}
  /\ SetWakeResult(t, FALSE)
  /\ waitList' = <<t>> \o waitList
  /\ Goto(t, "parked")
  /\ UNCHANGED <<owner, holds, trap, freed>>

Resume(t) ==
  /\ Running
  /\ at[t] = "woken"
  /\ IF wakeResult[t] THEN /\ Goto(t, "user")
                           /\ holds' = holds \cup {t}
                      ELSE /\ Goto(t, "lock")
                           /\ UNCHANGED holds
  /\ UNCHANGED <<owner, waitList, wakeResult, trap, freed>>

-----------------------------------------------------------------------------
\* Mutant of Unlock: it wakes the waiter without making it the owner.
UnlockBarging(t) ==
  /\ Running
  /\ at[t] = "user"
  /\ ~freed
  /\ owner = t
  /\ owner' = None
  /\ holds' = holds \ {t}
  /\ IF waitList = << >>
       THEN UNCHANGED <<waitList, wakeResult, at>>
       ELSE /\ waitList' = Tail(waitList)
            /\ SetWakeResult(Head(waitList), TRUE)
            /\ Goto(Head(waitList), "woken")
  /\ UNCHANGED <<trap, freed>>

\* Mutant of Unlock: the waiter is the owner, but its wake_result is not set.
UnlockSilent(t) ==
  /\ Running
  /\ at[t] = "user"
  /\ ~freed
  /\ owner = t
  /\ holds' = holds \ {t}
  /\ IF waitList = << >>
       THEN /\ owner' = None
            /\ UNCHANGED <<waitList, at>>
       ELSE /\ waitList' = Tail(waitList)
            /\ owner' = Head(waitList)
            /\ Goto(Head(waitList), "woken")
  /\ UNCHANGED <<wakeResult, trap, freed>>

\* Mutant of Unlock: the waiter is left on the list.
UnlockStays(t) ==
  /\ Running
  /\ at[t] = "user"
  /\ ~freed
  /\ owner = t
  /\ holds' = holds \ {t}
  /\ IF waitList = << >>
       THEN /\ owner' = None
            /\ UNCHANGED <<waitList, wakeResult, at>>
       ELSE /\ waitList' = waitList
            /\ owner' = Head(waitList)
            /\ SetWakeResult(Head(waitList), TRUE)
            /\ Goto(Head(waitList), "woken")
  /\ UNCHANGED <<trap, freed>>

\* hex_mutex_unlock by the owner: the newest waiter is the next one.
Unlock(t) ==
  /\ Running
  /\ at[t] = "user"
  /\ ~freed
  /\ owner = t
  /\ holds' = holds \ {t}
  /\ IF waitList = << >>
       THEN /\ owner' = None
            /\ UNCHANGED <<waitList, wakeResult, at>>
       ELSE /\ waitList' = Tail(waitList)
            /\ owner' = Head(waitList)
            /\ SetWakeResult(Head(waitList), TRUE)
            /\ Goto(Head(waitList), "woken")
  /\ UNCHANGED <<trap, freed>>

UnlockTrap(t) ==
  /\ Running
  /\ at[t] = "user"
  /\ ~freed
  /\ owner # t
  /\ trap' = <<"unlock", t>>
  /\ UNCHANGED <<owner, waitList, wakeResult, at, holds, freed>>

\* hex_mutex_free: it traps if a Task has or awaits the Mutex.  A program must
\* not free it while another Task is about to lock it.
Free(t) ==
  /\ Running
  /\ at[t] = "user"
  /\ \A u \in Tasks : at[u] # "lock"
  /\ ~freed
  /\ owner = None
  /\ waitList = << >>
  /\ freed' = TRUE
  /\ UNCHANGED <<owner, waitList, wakeResult, at, holds, trap>>

FreeTrap(t) ==
  /\ Running
  /\ at[t] = "user"
  /\ ~freed
  /\ owner # None \/ waitList # << >>
  /\ trap' = <<"free", t>>
  /\ UNCHANGED <<owner, waitList, wakeResult, at, holds, freed>>

-----------------------------------------------------------------------------
Next ==
  \E t \in Tasks :
    \/ Call(t) \/ Acquire(t) \/ LockTrap(t) \/ ParkInLock(t) \/ Resume(t)
    \/ Unlock(t) \/ UnlockTrap(t) \/ Free(t) \/ FreeTrap(t)

Spec == Init /\ [][Next]_vars

-----------------------------------------------------------------------------
\* Mutual exclusion as programs see it: a Task between the return of its lock
\* and its unlock is the owner, so there is one.  A hand-over gives the lock to
\* a Task that may run much later, and nobody may take it meanwhile.
OneHolder == holds \subseteq {owner}

\* Exactly the parked Tasks are on the list, once each, and while there is one
\* the Mutex has an owner who will hand it on: a Task whose lock has returned,
\* or one that was woken and will return from it.
NoStrandedWaiter ==
  /\ Distinct(waitList)
  /\ Members(waitList) = {t \in Tasks : at[t] = "parked"}
  /\ waitList # << >> => owner \in holds \cup {t \in Tasks : at[t] = "woken"}

\* "recursive mutex lock" is said only to a Task that has the lock, and "unlock
\* by a non-owner" only to one that has not: a woken Task, already the owner,
\* must not run into the first check, as the comment on hex_mutex_lock says.
TrapDeserved ==
  /\ trap[1] = "lock" => trap[2] \in holds
  /\ trap[1] = "unlock" => trap[2] \notin holds

\* A Mutex that free released has nobody inside lock: what free reads, without
\* the raw mutex, shows every Task that parked and has not returned yet.
FreedIsUnused == freed => \A t \in Tasks : at[t] = "user" /\ t \notin holds

-----------------------------------------------------------------------------
\* The inductive invariant: a woken Task is the owner and has its wake_result;
\* the owner is in no other place of a call than its next, recursive, lock.
IPlaces ==
  \A t \in Tasks :
    /\ at[t] = "woken" => owner = t /\ wakeResult[t] /\ t \notin holds
    /\ at[t] = "parked" => owner # t

IOwner == owner # None => (owner \in holds) # (at[owner] = "woken")

IFreed == freed => owner = None /\ waitList = << >>

IInv ==
  /\ TypeOK /\ OneHolder /\ NoStrandedWaiter /\ TrapDeserved
  /\ FreedIsUnused /\ IPlaces /\ IOwner /\ IFreed
=============================================================================
