----------------------------- MODULE EventLoop ------------------------------
(***************************************************************************)
(* The event bridge (src/compiler/generator/packages/event.c): Tasks hand  *)
(* requests to one loop thread and park; the loop thread starts each one,  *)
(* as a job of the thread pool or as a timer, and wakes its Task once.  A  *)
(* request is a record on the stack of its Task's fiber.                   *)
(*                                                                         *)
(* The loop thread is libuv's: its iteration is external code, of which    *)
(* the model keeps what event.c relies on.  The wake handle is coalesced,  *)
(* timers go by a cached clock in whole milliseconds, and a closed handle  *)
(* is the loop's until its close callback.  The order of callbacks in one  *)
(* iteration is left open.                                                 *)
(***************************************************************************)
EXTENDS Integers, FiniteSets, Sequences

CONSTANTS
  Tasks,         \* the Tasks that call the bridge
  Durations,     \* the durations they sleep for, in nanoseconds
  Millisecond,   \* nanoseconds to the millisecond
  MaxTime        \* bound: this reading stands for every later one

ASSUME EventLoopAssumption ==
  /\ IsFiniteSet(Tasks)
  /\ Durations \subseteq Nat \ {0}
  /\ Millisecond \in Nat \ {0}
  /\ MaxTime \in Nat

VARIABLES
  now,       \* uv_hrtime
  loopTime,  \* the loop's cached clock, in milliseconds
  queue,     \* hex_event_head ... hex_event_tail
  async,     \* is the wake handle pending?
  callback,  \* is hex_event_async_callback running?
  at,        \* Task -> its place in a call
  woken,     \* the Tasks that were woken and have not been resumed
  kind,      \* Task -> Work, or the duration that it sleeps for
  stage,     \* Task -> who has its request
  outcome,   \* Task -> what was written to its request's result
  begun,     \* Task -> start
  due,       \* Task -> the millisecond its timer is armed for
  ended      \* Task -> how its last call ended

\* The request is a work call; a sleep of zero is no request.
Work == 0

clocks == <<now, loopTime>>
loop == <<queue, async, callback>>
request == <<kind, stage, outcome, begun, due>>
vars == <<clocks, loop, at, woken, request, ended>>

TypeOK ==
  /\ now \in 0..MaxTime
  /\ loopTime \in 0..(now \div Millisecond)
  /\ queue \in Seq(Tasks)
  /\ async \in BOOLEAN
  /\ callback \in BOOLEAN
  /\ at \in [Tasks -> {"user", "armed", "sending", "parked"}]
  /\ woken \in SUBSET Tasks
  /\ kind \in [Tasks -> Durations \cup {Work}]
  /\ stage \in [Tasks -> {"none", "queued", "job", "ran", "timer", "closing"}]
  /\ outcome \in [Tasks -> {"none", "entry", "failure"}]
  /\ begun \in [Tasks -> 0..MaxTime]
  /\ due \in [Tasks -> Nat]
  /\ ended \in [Tasks -> {"well", "early", "blank"}]

\* hex_event_runtime_init has returned: the loop and its wake handle exist.
Init ==
  /\ now = 0
  /\ loopTime = 0
  /\ queue = << >>
  /\ async = FALSE
  /\ callback = FALSE
  /\ at = [t \in Tasks |-> "user"]
  /\ woken = {}
  /\ kind = [t \in Tasks |-> Work]
  /\ stage = [t \in Tasks |-> "none"]
  /\ outcome = [t \in Tasks |-> "none"]
  /\ begun = [t \in Tasks |-> 0]
  /\ due = [t \in Tasks |-> 0]
  /\ ended = [t \in Tasks |-> "well"]

\* hex_event_sleep_millis: rounded up.
Millis(ns) == (ns + Millisecond - 1) \div Millisecond

Elapsed(t) == now - begun[t]

\* uv_timer_start of t's timer for so many nanoseconds.
Arm(t, ns) ==
  /\ due' = [due EXCEPT ![t] = loopTime + Millis(ns)]
  /\ stage' = [stage EXCEPT ![t] = "timer"]
\* hex_task_event_wake: t's record is no longer the loop's.
Wake(t) ==
  /\ woken' = woken \cup {t}
  /\ stage' = [stage EXCEPT ![t] = "none"]

Sleeping(t) == kind[t] # Work

-----------------------------------------------------------------------------
\* The Task: hex_event_work_call and hex_task_sleep up to hex_event_park, which
\* arms it; the critical section of hex_event_enqueue; its uv_async_send; the
\* return from hex_task_event_suspend.  Whether the fiber has switched out when
\* it is woken is the concern of the module Scheduler.

\* A sleep of zero returns at once, as does a work call outside a Task.
CallWork(t) ==
  /\ at[t] = "user"
  /\ at' = [at EXCEPT ![t] = "armed"]
  /\ kind' = [kind EXCEPT ![t] = Work]
  /\ UNCHANGED <<clocks, loop, woken, stage, outcome, begun, due, ended>>

\* The bounded clock reaches the sleep's end.
CallSleep(t, d) ==
  /\ at[t] = "user"
  /\ now + d <= MaxTime
  /\ at' = [at EXCEPT ![t] = "armed"]
  /\ kind' = [kind EXCEPT ![t] = d]
  /\ begun' = [begun EXCEPT ![t] = now]
  /\ UNCHANGED <<clocks, loop, woken, stage, outcome, due, ended>>

Enqueue(t) ==
  /\ at[t] = "armed"
  /\ queue' = Append(queue, t)
  /\ stage' = [stage EXCEPT ![t] = "queued"]
  /\ at' = [at EXCEPT ![t] = "sending"]
  /\ UNCHANGED <<clocks, async, callback, woken, kind, outcome, begun, due, ended>>

Send(t) ==
  /\ at[t] = "sending"
  /\ async' = TRUE
  /\ at' = [at EXCEPT ![t] = "parked"]
  /\ UNCHANGED <<clocks, queue, callback, woken, request, ended>>

\* The call returns, and its record is gone with its stack frame.
Return(t) ==
  /\ at[t] = "parked"
  /\ t \in woken
  /\ at' = [at EXCEPT ![t] = "user"]
  /\ woken' = woken \ {t}
  /\ ended' = [ended EXCEPT ![t] =
       CASE kind[t] = Work /\ outcome[t] = "none" -> "blank"
         [] Sleeping(t) /\ Elapsed(t) < kind[t]     -> "early"
         [] OTHER                                   -> "well"]
  /\ kind' = [kind EXCEPT ![t] = Work]
  /\ outcome' = [outcome EXCEPT ![t] = "none"]
  /\ begun' = [begun EXCEPT ![t] = 0]
  /\ due' = [due EXCEPT ![t] = 0]
  /\ UNCHANGED <<clocks, loop, stage>>

-----------------------------------------------------------------------------
\* The loop thread: hex_event_async_callback.  Once it begins, libuv no longer
\* has the wake pending.  It pops a command under the queue's mutex and starts
\* it, which touches only what the loop thread owns, until none is left.

Wakeup ==
  /\ async
  /\ ~callback
  /\ async' = FALSE
  /\ callback' = TRUE
  /\ UNCHANGED <<clocks, queue, at, woken, request, ended>>

Pop(t) ==
  /\ callback
  /\ queue # << >>
  /\ t = Head(queue)
  /\ queue' = Tail(queue)

\* hex_event_work_start, when uv_queue_work accepts the job and when not.
StartWork(t) ==
  /\ Pop(t)
  /\ kind[t] = Work
  /\ stage' = [stage EXCEPT ![t] = "job"]
  /\ UNCHANGED <<clocks, async, callback, at, woken, kind, outcome, begun, due,
                 ended>>

StartWorkFailed(t) ==
  /\ Pop(t)
  /\ kind[t] = Work
  /\ outcome' = [outcome EXCEPT ![t] = "failure"]
  /\ Wake(t)
  /\ UNCHANGED <<clocks, async, callback, at, kind, begun, due, ended>>

\* hex_event_sleep_start
StartSleep(t) ==
  /\ Pop(t)
  /\ Sleeping(t)
  /\ Arm(t, kind[t])
  /\ UNCHANGED <<clocks, async, callback, at, woken, kind, outcome, begun, ended>>

\* Mutant of CallbackEnds: it ends whatever is queued.
CallbackEndsEarly ==
  /\ callback
  /\ callback' = FALSE
  /\ UNCHANGED <<clocks, queue, async, at, woken, request, ended>>

CallbackEnds ==
  /\ callback
  /\ queue = << >>
  /\ callback' = FALSE
  /\ UNCHANGED <<clocks, queue, async, at, woken, request, ended>>

-----------------------------------------------------------------------------
\* Work: hex_event_work_run on a thread of the pool, then
\* hex_event_work_complete on the loop thread, with status 0 or, for a job that
\* libuv cancelled before it ran, without.

JobRuns(t) ==
  /\ stage[t] = "job"
  /\ stage' = [stage EXCEPT ![t] = "ran"]
  /\ outcome' = [outcome EXCEPT ![t] = "entry"]
  /\ UNCHANGED <<clocks, loop, at, woken, kind, begun, due, ended>>

JobDone(t) ==
  /\ ~callback
  /\ stage[t] = "ran"
  /\ Wake(t)
  /\ UNCHANGED <<clocks, loop, at, kind, outcome, begun, due, ended>>

JobCancelled(t) ==
  /\ ~callback
  /\ stage[t] = "job"
  /\ outcome' = [outcome EXCEPT ![t] = "failure"]
  /\ Wake(t)
  /\ UNCHANGED <<clocks, loop, at, kind, begun, due, ended>>

-----------------------------------------------------------------------------
\* Sleep: hex_event_sleep_fired, which re-arms for what is left or closes the
\* timer, and hex_event_sleep_closed.

Expired(t) ==
  /\ ~callback
  /\ stage[t] = "timer"
  /\ due[t] <= loopTime \/ now = MaxTime

\* Mutant of Fired: an early expiry is not re-armed.
FiredEarly(t) ==
  /\ Expired(t)
  /\ stage' = [stage EXCEPT ![t] = "closing"]
  /\ UNCHANGED <<clocks, loop, at, woken, kind, outcome, begun, due, ended>>

\* Mutant of Fired: the Task is woken before the timer's close callback.
FiredWakes(t) ==
  /\ Expired(t)
  /\ IF Elapsed(t) < kind[t]
       THEN Arm(t, kind[t] - Elapsed(t)) /\ UNCHANGED woken
       ELSE /\ stage' = [stage EXCEPT ![t] = "closing"]
            /\ woken' = woken \cup {t}
            /\ UNCHANGED due
  /\ UNCHANGED <<clocks, loop, at, kind, outcome, begun, ended>>

Fired(t) ==
  /\ Expired(t)
  /\ IF Elapsed(t) < kind[t]
       THEN Arm(t, kind[t] - Elapsed(t))
       ELSE /\ stage' = [stage EXCEPT ![t] = "closing"]
            /\ UNCHANGED due
  /\ UNCHANGED <<clocks, loop, at, woken, kind, outcome, begun, ended>>

Closed(t) ==
  /\ ~callback
  /\ stage[t] = "closing"
  /\ Wake(t)
  /\ UNCHANGED <<clocks, loop, at, kind, outcome, begun, due, ended>>

-----------------------------------------------------------------------------
\* The monotonic clock, and libuv's cached reading of it between callbacks.

Tick ==
  /\ now < MaxTime
  /\ now' = now + 1
  /\ UNCHANGED <<loopTime, loop, at, woken, request, ended>>

UpdateTime ==
  /\ ~callback
  /\ loopTime' = now \div Millisecond
  /\ UNCHANGED <<now, loop, at, woken, request, ended>>

-----------------------------------------------------------------------------
InCall(t) == Enqueue(t) \/ Send(t) \/ Return(t)

Loop ==
  \/ Wakeup
  \/ \E t \in Tasks : StartWork(t) \/ StartWorkFailed(t) \/ StartSleep(t)
  \/ CallbackEnds

OnRequest(t) == JobRuns(t) \/ JobDone(t) \/ JobCancelled(t) \/ Fired(t) \/ Closed(t)

Next ==
  \/ \E t \in Tasks :
       \/ CallWork(t) \/ InCall(t) \/ OnRequest(t)
       \/ \E d \in Durations : CallSleep(t, d)
  \/ Loop \/ Tick \/ UpdateTime

Spec == Init /\ [][Next]_vars

\* Calls go on, the loop iterates, jobs end and time passes.  An iteration has a
\* place for each kind of callback, so each that stays due gets its turn; only a
\* loop that refused jobs for ever could be kept inside one callback.
FairSpec ==
  /\ Spec
  /\ \A t \in Tasks : WF_vars(InCall(t)) /\ SF_vars(OnRequest(t))
  /\ <>[][\A t \in Tasks : ~StartWorkFailed(t)]_vars
  /\ WF_vars(Loop) /\ WF_vars(Tick) /\ SF_vars(UpdateTime)

-----------------------------------------------------------------------------
\* While a Task is in a call, either the loop has its request or the Task was
\* woken, and never both; outside a call, neither.  A wake with the request
\* still in the loop's hands would let the Task reuse its stack under the loop
\* (the comment on hex_event_sleep_closed), no wake would leave it parked.
RequestOrWake ==
  \A t \in Tasks :
    IF at[t] \in {"sending", "parked"}
      THEN (stage[t] # "none") # (t \in woken)
      ELSE stage[t] = "none" /\ t \notin woken

\* A sleep ends no earlier than the requested duration, although the timer goes
\* by a stale and coarser clock (hex_event_sleep_fired), and a work call returns
\* with a result written by its entry or by its failure, also if the loop
\* refused the job (hex_event_work_start).
EndsRight == \A t \in Tasks : ended[t] \notin {"early", "blank"}

\* Every call returns: wakes coalesce, but the callback leaves no command behind
\* whose enqueue came after an earlier wake (hex_event_async_callback).
CallsEnd == \A t \in Tasks : at[t] = "armed" ~> at[t] = "user"
=============================================================================
