----------------------------- MODULE Scheduler -----------------------------
(***************************************************************************)
(* The M:N cooperative scheduler of the generated C runtime                *)
(* (src/compiler/generator/packages/concurrency.c): Tasks are fibers, a    *)
(* fixed set of worker threads dispatches them from one ready queue, and a *)
(* Task suspends through the two-sided park protocol in which its waker    *)
(* and the dispatcher it switches out to race on the Task's park_phase.    *)
(*                                                                         *)
(* Every compare-exchange, every critical section of the ready mutex and   *)
(* of a Task's lifecycle mutex, and every context switch is a step of its  *)
(* own.  A fiber's program is arbitrary: in user code it may make any      *)
(* runtime call.  Channel, Mutex and event waits are abstracted to the set *)
(* "waiting" of registered Tasks; their own modules refine it.             *)
(***************************************************************************)
EXTENDS Integers, FiniteSets, Sequences

CONSTANTS
  Workers,     \* the worker threads
  WorkerZero,  \* the initial process thread, the only one to run root
  Loop,        \* the event-loop thread: a waker that is no worker
  Tasks,       \* the Tasks a run may create, root included
  Root,        \* hex_root_task
  NoTask,      \* the null hex_task pointer
  Aliases      \* may a program use a Task handle after its join or detach?

\* hex_scheduler_init starts one worker for each processor.
ASSUME SchedulerAssumption ==
  /\ IsFiniteSet(Workers)
  /\ WorkerZero \in Workers
  /\ Loop \notin Workers
  /\ Root \in Tasks
  /\ NoTask \notin Tasks
  /\ Aliases \in BOOLEAN

VARIABLES
  fiber,    \* Task -> its fiber and control block: none, fresh, entered, destroyed
  phase,    \* Task -> park_phase
  pending,  \* Task -> is pending_park non-null?
  life,     \* Task -> life
  claim,    \* Task -> terminal_claim
  joiner,   \* Task -> the Task parked in a join of it
  callee,   \* Task -> the Task its running join or detach is about
  waiting,  \* the Tasks registered with a Channel, a Mutex or the event loop
  queue,    \* the ready FIFO
  at,       \* worker -> where its thread is
  hand,     \* worker -> the Task it holds: popped, running or being committed
  waking,   \* actor -> its place in hex_task_wake / hex_ready_publish
  target,   \* actor -> the Task that call is about
  shutdown  \* hex_shutdown

vars == <<fiber, phase, pending, life, claim, joiner, callee, waiting, queue,
          at, hand, waking, target, shutdown>>

Actors == Workers \cup {Loop}

\* Where a worker is: dispatcher places, then the places of the fiber it runs.
DispatchPlaces == {"look", "sleep", "resume", "commit", "release",
                   "shutdown", "broadcast", "gone", "exit"}
FiberPlaces == {"user", "join", "detach", "reclaim", "switch"}

TypeOK ==
  /\ fiber \in [Tasks -> {"none", "fresh", "entered", "destroyed"}]
  /\ phase \in [Tasks -> {"running", "parking", "parked", "notified", "ready"}]
  /\ pending \in [Tasks -> BOOLEAN]
  /\ life \in [Tasks -> {"running", "completing", "done"}]
  /\ claim \in [Tasks -> {"none", "join", "detach"}]
  /\ joiner \in [Tasks -> Tasks \cup {NoTask}]
  /\ callee \in [Tasks -> Tasks \cup {NoTask}]
  /\ waiting \in SUBSET Tasks
  /\ queue \in Seq(Tasks)
  /\ at \in [Workers -> DispatchPlaces \cup FiberPlaces \cup {"trap", "misuse"}]
  /\ hand \in [Workers -> Tasks \cup {NoTask}]
  /\ waking \in [Actors -> {"no", "first", "second", "publish"}]
  /\ target \in [Actors -> Tasks \cup {NoTask}]
  /\ shutdown \in BOOLEAN

\* hex_scheduler_init: the main thread already runs root's statements, and its
\* first switch enters worker zero's bootstrap at the commit of that switch.
Init ==
  /\ fiber = [t \in Tasks |-> IF t = Root THEN "entered" ELSE "none"]
  /\ phase = [t \in Tasks |-> "running"]
  /\ pending = [t \in Tasks |-> FALSE]
  /\ life = [t \in Tasks |-> "running"]
  /\ claim = [t \in Tasks |-> "none"]
  /\ joiner = [t \in Tasks |-> NoTask]
  /\ callee = [t \in Tasks |-> NoTask]
  /\ waiting = {}
  /\ queue = << >>
  /\ at = [w \in Workers |-> IF w = WorkerZero THEN "user" ELSE "look"]
  /\ hand = [w \in Workers |-> IF w = WorkerZero THEN Root ELSE NoTask]
  /\ waking = [a \in Actors |-> "no"]
  /\ target = [a \in Actors |-> NoTask]
  /\ shutdown = FALSE

-----------------------------------------------------------------------------
\* The ready queue.

Eligible == {i \in 1..Len(queue) : queue[i] # Root}

\* The queue position worker w may take: any worker but zero skips root.
Candidates(w) ==
  IF w = WorkerZero
  THEN {i \in 1..Len(queue) : i = 1}
  ELSE {i \in Eligible : \A j \in Eligible : i <= j}

\* The queue without position i, the others in their order.
Without(q, i) ==
  [j \in 1..(Len(q) - 1) |-> IF j < i THEN q[j] ELSE q[j + 1]]

Sleepers == {w \in Workers : at[w] = "sleep"}

\* hex_cond_broadcast and hex_cond_signal on hex_ready_cond.
Broadcast(places) ==
  [w \in Workers |-> IF places[w] = "sleep" THEN "look" ELSE places[w]]

Signalled(places) ==
  IF Sleepers = {} THEN {places}
  ELSE {[places EXCEPT ![w] = "look"] : w \in Sleepers}

\* Mutants of Publish: a bare signal for root; the newest Task first.
PublishSignal(a) ==
  /\ waking[a] = "publish"
  /\ queue' = Append(queue, target[a])
  /\ at' \in Signalled(at)
  /\ waking' = [waking EXCEPT ![a] = "no"]
  /\ target' = [target EXCEPT ![a] = NoTask]
  /\ UNCHANGED <<fiber, phase, pending, life, claim, joiner, callee, waiting,
                 hand, shutdown>>

PublishNewestFirst(a) ==
  /\ waking[a] = "publish"
  /\ queue' = <<target[a]>> \o queue
  /\ at' \in IF target[a] = Root THEN {Broadcast(at)} ELSE Signalled(at)
  /\ waking' = [waking EXCEPT ![a] = "no"]
  /\ target' = [target EXCEPT ![a] = NoTask]
  /\ UNCHANGED <<fiber, phase, pending, life, claim, joiner, callee, waiting,
                 hand, shutdown>>

\* hex_ready_publish, the last step of a wake, a commit or a spawn.
Publish(a) ==
  /\ waking[a] = "publish"
  /\ queue' = Append(queue, target[a])
  /\ at' \in IF target[a] = Root THEN {Broadcast(at)} ELSE Signalled(at)
  /\ waking' = [waking EXCEPT ![a] = "no"]
  /\ target' = [target EXCEPT ![a] = NoTask]
  /\ UNCHANGED <<fiber, phase, pending, life, claim, joiner, callee, waiting,
                 hand, shutdown>>

-----------------------------------------------------------------------------
\* hex_task_wake by actor a: two compare-exchanges, then the publication.

StartWake(a, t) ==
  /\ waking' = [waking EXCEPT ![a] = "first"]
  /\ target' = [target EXCEPT ![a] = t]

EndWake(a) ==
  /\ waking' = [waking EXCEPT ![a] = "no"]
  /\ target' = [target EXCEPT ![a] = NoTask]

\* Mutant of WakeFirst: the waker publishes a Task still switching out.
WakeFirstEager(a) ==
  LET t == target[a] IN
  /\ waking[a] = "first"
  /\ phase[t] \in {"parking", "parked"}
  /\ phase' = [phase EXCEPT ![t] = "ready"]
  /\ waking' = [waking EXCEPT ![a] = "publish"]
  /\ UNCHANGED <<fiber, pending, life, claim, joiner, callee, waiting, queue,
                 at, hand, target, shutdown>>

\* parking -> notified, unless the Task is already parked or the wake is stale.
WakeFirst(a) ==
  LET t == target[a] IN
  /\ waking[a] = "first"
  /\ phase' = IF phase[t] = "parking"
              THEN [phase EXCEPT ![t] = "notified"] ELSE phase
  /\ IF phase[t] = "parked"
     THEN waking' = [waking EXCEPT ![a] = "second"] /\ UNCHANGED target
     ELSE EndWake(a)
  /\ UNCHANGED <<fiber, pending, life, claim, joiner, callee, waiting, queue,
                 at, hand, shutdown>>

\* parked -> ready, and publish, unless another publisher already did.
WakeSecond(a) ==
  LET t == target[a] IN
  /\ waking[a] = "second"
  /\ IF phase[t] = "parked"
     THEN /\ phase' = [phase EXCEPT ![t] = "ready"]
          /\ waking' = [waking EXCEPT ![a] = "publish"]
          /\ UNCHANGED target
     ELSE EndWake(a) /\ UNCHANGED phase
  /\ UNCHANGED <<fiber, pending, life, claim, joiner, callee, waiting, queue,
                 at, hand, shutdown>>

-----------------------------------------------------------------------------
\* The runtime calls of the fiber that worker w runs.

InUser(w) == at[w] = "user" /\ waking[w] = "no"

Goto(w, place) == at' = [at EXCEPT ![w] = place]

\* hex_task_spawn; a failed allocation changes nothing and returns null.
Spawn(w, t) ==
  /\ InUser(w)
  /\ fiber[t] = "none"
  /\ fiber' = [fiber EXCEPT ![t] = "fresh"]
  /\ waking' = [waking EXCEPT ![w] = "publish"]
  /\ target' = [target EXCEPT ![w] = t]
  /\ UNCHANGED <<phase, pending, life, claim, joiner, callee, waiting, queue,
                 at, hand, shutdown>>

\* Mutant of Yield: park_phase is not stored.
YieldUnarmed(w) ==
  /\ InUser(w)
  /\ pending' = [pending EXCEPT ![hand[w]] = TRUE]
  /\ Goto(w, "switch")
  /\ UNCHANGED <<fiber, phase, life, claim, joiner, callee, waiting, queue, hand,
                 waking, target, shutdown>>

\* hex_task_yield: notified at once, published by the dispatcher.
Yield(w) ==
  LET self == hand[w] IN
  /\ InUser(w)
  /\ pending' = [pending EXCEPT ![self] = TRUE]
  /\ phase' = [phase EXCEPT ![self] = "notified"]
  /\ Goto(w, "switch")
  /\ UNCHANGED <<fiber, life, claim, joiner, callee, waiting, queue, hand,
                 waking, target, shutdown>>

\* A Channel, Mutex or event wait: arm, register under the source's mutex.
Park(w) ==
  LET self == hand[w] IN
  /\ InUser(w)
  /\ pending' = [pending EXCEPT ![self] = TRUE]
  /\ phase' = [phase EXCEPT ![self] = "parking"]
  /\ waiting' = waiting \cup {self}
  /\ Goto(w, "switch")
  /\ UNCHANGED <<fiber, life, claim, joiner, callee, queue, hand, waking,
                 target, shutdown>>

\* A send, receive, close or unlock of the fiber on worker w, or a callback of
\* the event loop, takes a registered waiter and wakes it.
WakeWaiter(a, t) ==
  /\ a = Loop \/ (a \in Workers /\ at[a] = "user")
  /\ waking[a] = "no"
  /\ t \in waiting
  /\ waiting' = waiting \ {t}
  /\ StartWake(a, t)
  /\ UNCHANGED <<fiber, phase, pending, life, claim, joiner, callee, queue, at,
                 hand, shutdown>>

\* A program holds a handle of t: join and detach consume it, unless the
\* program keeps another alias.
HoldsHandle(t) ==
  /\ t # Root
  /\ fiber[t] # "none"
  /\ Aliases \/ (claim[t] = "none" /\ \A u \in Tasks : callee[u] # t)

\* The fiber calls hex_task_join or hex_task_detach on t; a Task that joins
\* itself is a misuse, reported by a trap.
CallJoin(w, t) ==
  /\ InUser(w)
  /\ HoldsHandle(t)
  /\ Aliases \/ t # hand[w]
  /\ callee' = [callee EXCEPT ![hand[w]] = t]
  /\ Goto(w, IF t = hand[w] THEN "misuse" ELSE "join")
  /\ UNCHANGED <<fiber, phase, pending, life, claim, joiner, waiting, queue,
                 hand, waking, target, shutdown>>

CallDetach(w, t) ==
  /\ InUser(w)
  /\ HoldsHandle(t)
  /\ callee' = [callee EXCEPT ![hand[w]] = t]
  /\ Goto(w, "detach")
  /\ UNCHANGED <<fiber, phase, pending, life, claim, joiner, waiting, queue,
                 hand, waking, target, shutdown>>

\* join's critical section: a done target is returned, any other one gets its
\* joiner and the caller parks.
JoinClaim(w) ==
  LET self == hand[w]
      t == callee[self] IN
  /\ at[w] = "join"
  /\ claim[t] = "none"
  /\ claim' = [claim EXCEPT ![t] = "join"]
  /\ IF life[t] = "done"
     THEN /\ Goto(w, "reclaim")
          /\ UNCHANGED <<pending, phase, joiner>>
     ELSE /\ pending' = [pending EXCEPT ![self] = TRUE]
          /\ phase' = [phase EXCEPT ![self] = "parking"]
          /\ joiner' = [joiner EXCEPT ![t] = self]
          /\ Goto(w, "switch")
  /\ UNCHANGED <<fiber, life, callee, waiting, queue, hand, waking, target,
                 shutdown>>

\* Mutant of DetachClaim: a completing target is released at once.
DetachClaimEarly(w) ==
  LET self == hand[w]
      t == callee[self] IN
  /\ at[w] = "detach"
  /\ claim[t] = "none"
  /\ claim' = [claim EXCEPT ![t] = "detach"]
  /\ IF life[t] # "running"
     THEN Goto(w, "reclaim") /\ UNCHANGED callee
     ELSE Goto(w, "user") /\ callee' = [callee EXCEPT ![self] = NoTask]
  /\ UNCHANGED <<fiber, phase, pending, life, joiner, waiting, queue, hand,
                 waking, target, shutdown>>

\* detach's critical section.
DetachClaim(w) ==
  LET self == hand[w]
      t == callee[self] IN
  /\ at[w] = "detach"
  /\ claim[t] = "none"
  /\ claim' = [claim EXCEPT ![t] = "detach"]
  /\ IF life[t] = "done"
     THEN Goto(w, "reclaim") /\ UNCHANGED callee
     ELSE Goto(w, "user") /\ callee' = [callee EXCEPT ![self] = NoTask]
  /\ UNCHANGED <<fiber, phase, pending, life, joiner, waiting, queue, hand,
                 waking, target, shutdown>>

\* A second join or detach of the same Task is a misuse, reported by a trap.
ClaimTrap(w) ==
  /\ at[w] \in {"join", "detach"}
  /\ claim[callee[hand[w]]] # "none"
  /\ Goto(w, "misuse")
  /\ UNCHANGED <<fiber, phase, pending, life, claim, joiner, callee, waiting,
                 queue, hand, waking, target, shutdown>>

\* The joiner copies the result out and releases the target; so does a detach
\* of a done one.
Reclaim(w) ==
  LET self == hand[w] IN
  /\ at[w] = "reclaim"
  /\ fiber' = [fiber EXCEPT ![callee[self]] = "destroyed"]
  /\ callee' = [callee EXCEPT ![self] = NoTask]
  /\ Goto(w, "user")
  /\ UNCHANGED <<phase, pending, life, claim, joiner, waiting, queue, hand,
                 waking, target, shutdown>>

\* hex_task_complete: step one of completion, on the Task's own fiber.
Complete(w) ==
  /\ InUser(w)
  /\ life' = [life EXCEPT ![hand[w]] = "completing"]
  /\ Goto(w, "switch")
  /\ UNCHANGED <<fiber, phase, pending, claim, joiner, callee, waiting, queue,
                 hand, waking, target, shutdown>>

\* hex_context_switch back to the worker's own context.
SwitchOut(w) ==
  /\ at[w] = "switch"
  /\ Goto(w, "commit")
  /\ UNCHANGED <<fiber, phase, pending, life, claim, joiner, callee, waiting,
                 queue, hand, waking, target, shutdown>>

-----------------------------------------------------------------------------
\* The dispatcher of worker w.

Drop(w) == hand' = [hand EXCEPT ![w] = NoTask]

\* Mutant of CommitPark: a plain store instead of the compare-exchange.
CommitParkBlind(w) ==
  LET t == hand[w] IN
  /\ at[w] = "commit"
  /\ pending[t]
  /\ phase' = [phase EXCEPT ![t] = "parked"]
  /\ Drop(w)
  /\ Goto(w, "look")
  /\ UNCHANGED <<fiber, pending, life, claim, joiner, callee, waiting, queue,
                 waking, target, shutdown>>

\* hex_task_commit_park: no waker came, the Task is suspended.
CommitPark(w) ==
  LET t == hand[w] IN
  /\ at[w] = "commit"
  /\ pending[t]
  /\ phase[t] = "parking"
  /\ phase' = [phase EXCEPT ![t] = "parked"]
  /\ Drop(w)
  /\ Goto(w, "look")
  /\ UNCHANGED <<fiber, pending, life, claim, joiner, callee, waiting, queue,
                 waking, target, shutdown>>

\* hex_task_commit_park: a waker came first and the dispatcher publishes; any
\* phase but notified is the trap "invalid Task park phase during commit".
CommitNotified(w) ==
  LET t == hand[w] IN
  /\ at[w] = "commit"
  /\ pending[t]
  /\ phase[t] # "parking"
  /\ IF phase[t] = "notified"
     THEN /\ phase' = [phase EXCEPT ![t] = "ready"]
          /\ waking' = [waking EXCEPT ![w] = "publish"]
          /\ target' = [target EXCEPT ![w] = t]
          /\ Drop(w)
          /\ Goto(w, "look")
     ELSE Goto(w, "trap") /\ UNCHANGED <<phase, waking, target, hand>>
  /\ UNCHANGED <<fiber, pending, life, claim, joiner, callee, waiting, queue,
                 shutdown>>

\* Mutant of CommitDone: the joiner is read after it is cleared.
CommitDoneForgets(w) ==
  LET t == hand[w] IN
  /\ at[w] = "commit"
  /\ ~pending[t]
  /\ life' = [life EXCEPT ![t] = "done"]
  /\ joiner' = [joiner EXCEPT ![t] = NoTask]
  /\ IF t # Root /\ claim[t] = "detach"
     THEN Goto(w, "release") /\ UNCHANGED hand
     ELSE Goto(w, IF t = Root THEN "shutdown" ELSE "look") /\ Drop(w)
  /\ UNCHANGED <<fiber, phase, pending, claim, callee, waiting, queue, waking,
                 target, shutdown>>

\* Step two of completion: done, then root's shutdown, the joiner's wake or the
\* reclamation of a detached Task.
CommitDone(w) ==
  LET t == hand[w] IN
  /\ at[w] = "commit"
  /\ ~pending[t]
  /\ life' = [life EXCEPT ![t] = "done"]
  /\ joiner' = [joiner EXCEPT ![t] = NoTask]
  /\ IF t = Root
     THEN Goto(w, "shutdown") /\ Drop(w) /\ UNCHANGED <<waking, target>>
     ELSE IF joiner[t] # NoTask
     THEN StartWake(w, joiner[t]) /\ Goto(w, "look") /\ Drop(w)
     ELSE IF claim[t] = "detach"
     THEN Goto(w, "release") /\ UNCHANGED <<hand, waking, target>>
     ELSE Goto(w, "look") /\ Drop(w) /\ UNCHANGED <<waking, target>>
  /\ UNCHANGED <<fiber, phase, pending, claim, callee, waiting, queue, shutdown>>

\* hex_task_release of a detached Task by the dispatcher.
Release(w) ==
  /\ at[w] = "release"
  /\ fiber' = [fiber EXCEPT ![hand[w]] = "destroyed"]
  /\ Drop(w)
  /\ Goto(w, "look")
  /\ UNCHANGED <<phase, pending, life, claim, joiner, callee, waiting, queue,
                 waking, target, shutdown>>

\* Root completed: the flag is stored before the ready mutex is taken.
StoreShutdown(w) ==
  /\ at[w] = "shutdown"
  /\ shutdown' = TRUE
  /\ Goto(w, "broadcast")
  /\ UNCHANGED <<fiber, phase, pending, life, claim, joiner, callee, waiting,
                 queue, hand, waking, target>>

\* Mutant of BroadcastShutdown: the flag alone.
BroadcastNobody(w) ==
  /\ at[w] = "broadcast"
  /\ Goto(w, "look")
  /\ UNCHANGED <<fiber, phase, pending, life, claim, joiner, callee, waiting,
                 queue, hand, waking, target, shutdown>>

BroadcastShutdown(w) ==
  /\ at[w] = "broadcast"
  /\ at' = Broadcast([at EXCEPT ![w] = "look"])
  /\ UNCHANGED <<fiber, phase, pending, life, claim, joiner, callee, waiting,
                 queue, hand, waking, target, shutdown>>

Looking(w) == at[w] = "look" /\ waking[w] = "no"

\* hex_worker_loop's critical section of the ready mutex: stop ...
LookStop(w) ==
  /\ Looking(w)
  /\ shutdown
  /\ Goto(w, IF w = WorkerZero THEN "exit" ELSE "gone")
  /\ UNCHANGED <<fiber, phase, pending, life, claim, joiner, callee, waiting,
                 queue, hand, waking, target, shutdown>>

\* ... or take a Task ...
LookPop(w) ==
  /\ Looking(w)
  /\ ~shutdown
  /\ \E i \in Candidates(w) :
       /\ hand' = [hand EXCEPT ![w] = queue[i]]
       /\ queue' = Without(queue, i)
  /\ Goto(w, "resume")
  /\ UNCHANGED <<fiber, phase, pending, life, claim, joiner, callee, waiting,
                 waking, target, shutdown>>

\* ... or wait on hex_ready_cond.
LookSleep(w) ==
  /\ Looking(w)
  /\ ~shutdown
  /\ Candidates(w) = {}
  /\ Goto(w, "sleep")
  /\ UNCHANGED <<fiber, phase, pending, life, claim, joiner, callee, waiting,
                 queue, hand, waking, target, shutdown>>

\* A condition wait may return without a signal; the loop looks again.
SpuriousWakeup(w) ==
  /\ at[w] = "sleep"
  /\ Goto(w, "look")
  /\ UNCHANGED <<fiber, phase, pending, life, claim, joiner, callee, waiting,
                 queue, hand, waking, target, shutdown>>

\* The switch into the popped Task: its entry, or hex_task_resume_commit.
Enter(w) ==
  /\ at[w] = "resume"
  /\ fiber[hand[w]] = "fresh"
  /\ fiber' = [fiber EXCEPT ![hand[w]] = "entered"]
  /\ Goto(w, "user")
  /\ UNCHANGED <<phase, pending, life, claim, joiner, callee, waiting, queue,
                 hand, waking, target, shutdown>>

Resume(w) ==
  LET self == hand[w] IN
  /\ at[w] = "resume"
  /\ fiber[self] # "fresh"
  /\ IF phase[self] = "ready"
     THEN /\ phase' = [phase EXCEPT ![self] = "running"]
          /\ pending' = [pending EXCEPT ![self] = FALSE]
          /\ Goto(w, IF callee[self] = NoTask THEN "user" ELSE "reclaim")
     ELSE Goto(w, "trap") /\ UNCHANGED <<phase, pending>>
  /\ UNCHANGED <<fiber, life, claim, joiner, callee, waiting, queue, hand,
                 waking, target, shutdown>>

-----------------------------------------------------------------------------
\* Worker zero at "exit" has switched back to root's fiber and returns from
\* main; a worker at "trap" or "misuse" is inside abort.  The other threads may
\* still take steps until the process is gone.

Waker(a) == WakeFirst(a) \/ WakeSecond(a) \/ Publish(a)

FiberCall(w) ==
  \/ \E t \in Tasks : Spawn(w, t) \/ CallJoin(w, t) \/ CallDetach(w, t)
  \/ JoinClaim(w) \/ DetachClaim(w) \/ ClaimTrap(w) \/ Reclaim(w)

\* The calls that give the worker back to its dispatcher.
SwitchAway(w) == Yield(w) \/ Park(w) \/ Complete(w)

Dispatch(w) ==
  \/ SwitchOut(w) \/ CommitPark(w) \/ CommitNotified(w) \/ CommitDone(w)
  \/ Release(w) \/ StoreShutdown(w) \/ BroadcastShutdown(w)
  \/ LookStop(w) \/ LookPop(w) \/ LookSleep(w) \/ Enter(w) \/ Resume(w)

Next ==
  \/ \E a \in Actors : Waker(a)
  \/ \E a \in Actors, t \in Tasks : WakeWaiter(a, t)
  \/ \E w \in Workers : FiberCall(w) \/ SwitchAway(w) \/ Dispatch(w)
  \/ \E w \in Workers : SpuriousWakeup(w)

Spec == Init /\ [][Next]_vars

\* Threads run; cooperative fibers give their worker back, as the language asks
\* of them: the module Starvation says how far the compiler enforces it.
Fairness ==
  /\ \A a \in Actors : WF_vars(Waker(a))
  /\ \A w \in Workers :
       /\ WF_vars(Dispatch(w))
       /\ WF_vars(JoinClaim(w) \/ DetachClaim(w) \/ ClaimTrap(w) \/ Reclaim(w))
       /\ SF_vars(SwitchAway(w))

FairSpec == Spec /\ Fairness

-----------------------------------------------------------------------------
\* Safety.

\* A Task is in one place: held by one worker, or in the queue once, or about
\* to be published by one actor.  A fiber that two workers held would run on
\* one stack twice: the park protocol is there to publish it only once and
\* only after its switch.  [hex_task_wake, hex_task_commit_park]
Holders(t) == {<<"hand", w>> : w \in {v \in Workers : hand[v] = t}}
      \cup {<<"queue", i>> : i \in {j \in 1..Len(queue) : queue[j] = t}}
      \cup {<<"publish", a>> : a \in {b \in Actors : /\ waking[b] = "publish"
                                                    /\ target[b] = t}}

OnePlace == \A t \in Tasks : \A p, q \in Holders(t) : p = q

RootPinned == \A w \in Workers : hand[w] = Root => w = WorkerZero

\* No Task is in two places, and root never in a hand but worker zero's.
RightPlace == OnePlace /\ RootPinned

\* A suspended Task can be woken: it is registered with a wait source or with
\* the Task it joins, or a wake for it is under way.  [hex_task_commit_park]
Suspended(t) == pending[t] /\ phase[t] \in {"parking", "parked"}

NoLostWakeup ==
  \A t \in Tasks : Suspended(t) =>
     \/ t \in waiting
     \/ \E u \in Tasks : joiner[u] = t /\ life[u] # "done"
     \/ \E a \in Actors : waking[a] \in {"first", "second"} /\ target[a] = t

\* A Task that may run again is never forgotten: published, being published,
\* or held.  [hex_ready_publish]
Runnable(t) == phase[t] \in {"notified", "ready"}
                \/ fiber[t] = "fresh"

NoLostTask == \A t \in Tasks : Runnable(t) => Holders(t) # {}

\* Neither a wake nor a runnable Task is ever lost.
NothingIsLost == NoLostWakeup /\ NoLostTask

\* Nothing reaches a released control block: no worker, queue, waiter list,
\* joiner or waker.  [hex_task_release against hex_dispatch_commit]
NoUseAfterRelease ==
  \A t \in Tasks : fiber[t] = "destroyed" =>
     /\ Holders(t) = {}
     /\ t \notin waiting
     /\ \A u \in Tasks : joiner[u] # t
     /\ \A a \in Actors : target[a] # t
     /\ life[t] = "done"

\* join returns, and releases its target, only once the target is done and its
\* dispatcher is through with it; the target is its own.  [hex_task_join]
JoinAfterDone ==
  \A w \in Workers : at[w] = "reclaim" =>
     LET t == callee[hand[w]] IN
     /\ life[t] = "done"
     /\ fiber[t] = "entered"
     /\ \A v \in Workers \ {w} : at[v] = "reclaim" => callee[hand[v]] # t

\* A Task is released once, after its end, and out of everybody's reach.
ReleaseIsSafe == NoUseAfterRelease /\ JoinAfterDone

\* No worker sleeps beside work it may take unless enough awake workers are on
\* their way to the queue.  [hex_ready_publish: signal or broadcast]
NoIdleWorker ==
  \A w \in Workers : (at[w] = "sleep" /\ ~shutdown) =>
     /\ w = WorkerZero => \A i \in 1..Len(queue) : queue[i] # Root
     /\ Cardinality(Eligible) <= Cardinality({v \in Workers : at[v] = "look"})

\* The assertions of the code never fail: a park commits from parking or
\* notified and a Task resumes from ready.  [hex_runtime_trap at both]
NoTrap == \A w \in Workers : at[w] # "trap"

-----------------------------------------------------------------------------
\* The inductive invariant: what a Task's phase says of where the Task is.

IdlePlaces == {"look", "sleep", "shutdown", "broadcast", "gone", "exit"}

Calm(t) == phase[t] = "running" /\ ~pending[t]

Active(t) == fiber[t] = "entered" /\ life[t] = "running" /\ Calm(t)

Startable(t) ==
  /\ life[t] = "running"
  /\ \/ fiber[t] = "fresh" /\ Calm(t)
     \/ fiber[t] = "entered" /\ phase[t] = "ready" /\ pending[t]

Switching(t) ==
  /\ fiber[t] = "entered"
  /\ \/ life[t] = "running" /\ pending[t] /\ phase[t] \in {"parking", "notified"}
     \/ life[t] = "completing" /\ Calm(t)

\* What a worker's place says of the Task in its hand.
IHand ==
  \A w \in Workers :
    /\ hand[w] = NoTask <=> at[w] \in IdlePlaces
    /\ at[w] \in {"user", "join", "detach", "reclaim", "misuse"} => Active(hand[w])
    /\ at[w] = "resume" => Startable(hand[w])
    /\ at[w] \in {"switch", "commit"} => Switching(hand[w])
    /\ at[w] = "release" => /\ fiber[hand[w]] = "entered"
                            /\ life[hand[w]] = "done"
                            /\ claim[hand[w]] = "detach"
                            /\ hand[w] # Root
    /\ at[w] = "user" => callee[hand[w]] = NoTask
    /\ at[w] \in {"join", "detach", "reclaim", "misuse"} => callee[hand[w]] # NoTask
    /\ at[w] \in {"switch", "commit"} /\ ~pending[hand[w]] => callee[hand[w]] = NoTask

\* Two holders never hold one Task.
IApart ==
  /\ \A v, w \in Workers : hand[v] = hand[w] /\ hand[v] # NoTask => v = w
  /\ \A i, j \in 1..Len(queue) : queue[i] = queue[j] => i = j
  /\ \A a, b \in Actors : target[a] = target[b] /\ target[a] # NoTask => a = b
  /\ \A w \in Workers, i \in 1..Len(queue) : hand[w] # queue[i]
  /\ \A a \in Actors : waking[a] = "publish" =>
       /\ \A w \in Workers : hand[w] # target[a]
       /\ \A i \in 1..Len(queue) : queue[i] # target[a]

IQueue == \A i \in 1..Len(queue) : Startable(queue[i])

\* What a waker may still be about to do.
IWake ==
  \A a \in Actors :
    /\ waking[a] = "no" <=> target[a] = NoTask
    /\ waking[a] = "first" => Suspended(target[a])
    /\ waking[a] = "second" => Suspended(target[a]) /\ phase[target[a]] = "parked"
    /\ waking[a] = "publish" => Startable(target[a])
    /\ a \in Workers /\ waking[a] # "no" => at[a] \in {"user", "look"}

IWaiting ==
  \A t \in waiting :
    /\ Suspended(t)
    /\ callee[t] = NoTask
    /\ \A a \in Actors : target[a] # t

IJoiner ==
  \A u \in Tasks : joiner[u] # NoTask =>
    /\ Suspended(joiner[u])
    /\ callee[joiner[u]] = u
    /\ life[u] # "done"
    /\ claim[u] = "join"
    /\ \A a \in Actors : target[a] # joiner[u]

\* A Task that claimed its callee, and is not through with it, owns it.
Owns(t) ==
  /\ callee[t] # NoTask
  /\ \A w \in Workers : hand[w] = t => at[w] \notin {"join", "detach", "misuse"}

IOwner ==
  \A t \in Tasks : Owns(t) =>
    /\ callee[t] # Root
    /\ fiber[callee[t]] \in {"fresh", "entered"}
    /\ claim[callee[t]] # "none"
    /\ pending[t] /\ life[callee[t]] # "done" => joiner[callee[t]] = t
    /\ ~pending[t] => life[callee[t]] = "done"
    /\ \A w \in Workers : at[w] = "release" => hand[w] # callee[t]
    /\ \A u \in Tasks : Owns(u) /\ callee[u] = callee[t] => u = t

\* What a Task's fiber and life say of the rest.
IFate ==
  \A t \in Tasks :
    /\ fiber[t] = "none" => claim[t] = "none" /\ joiner[t] = NoTask /\ t # Root
    /\ fiber[t] \in {"none", "fresh"} =>
         Calm(t) /\ callee[t] = NoTask /\ life[t] = "running"
    /\ life[t] # "running" => Calm(t) /\ callee[t] = NoTask
    /\ fiber[t] = "destroyed" => life[t] = "done" /\ claim[t] # "none" /\ t # Root
    /\ callee[t] # NoTask => callee[t] # Root /\ fiber[callee[t]] # "none"
    /\ phase[t] # "running" => pending[t]

IInv ==
  /\ TypeOK /\ IHand /\ IApart /\ IQueue /\ IWake /\ IWaiting /\ IJoiner
  /\ IOwner /\ IFate /\ RootPinned /\ NoTrap

\* Over IInv, that nothing is lost is inductive with one fact more: a Task that
\* is still switching out is in its worker's hand, so that the commit sees it.
Held(t) ==
  \/ \E w \in Workers : hand[w] = t
  \/ \E i \in 1..Len(queue) : queue[i] = t
  \/ \E a \in Actors : waking[a] = "publish" /\ target[a] = t

IParking == \A t \in Tasks : phase[t] = "parking" => \E w \in Workers : hand[w] = t

IHeld == \A t \in Tasks : Runnable(t) => Held(t)

ILost == NoLostWakeup /\ IParking /\ IHeld

-----------------------------------------------------------------------------
\* Liveness.

Executing(t) == \E w \in Workers : hand[w] = t /\ at[w] \in FiberPlaces

\* The process is inside abort after a misuse.
Aborted == \E w \in Workers : at[w] = "misuse"

\* A runnable Task runs, root included, unless the program ends first.
RunnableRuns ==
  \A t \in Tasks : Runnable(t) ~> (Executing(t) \/ shutdown \/ Aborted)

\* A join of a completed Task returns, unless the program ends first.
JoinReturns ==
  \A t, u \in Tasks : (joiner[t] = u /\ life[t] = "completing")
                        ~> (fiber[t] = "destroyed" \/ shutdown \/ Aborted)

\* Once root completes the process exits, whatever the other Tasks do, and the
\* shutdown flag, stored without the ready mutex, reaches sleeping workers.
\* [hex_worker_loop]
RootEnds ==
  /\ life[Root] = "completing" ~> (at[WorkerZero] = "exit" \/ Aborted)
  /\ shutdown ~> (Sleepers = {} \/ Aborted)

=============================================================================
