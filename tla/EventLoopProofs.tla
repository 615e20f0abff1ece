--------------------------- MODULE EventLoopProofs ---------------------------
(***************************************************************************)
(* Proofs about the event bridge: whoever has a request, its Task is woken *)
(* once, after its work or its time, whatever the order of callbacks.      *)
(***************************************************************************)
EXTENDS EventLoop, SequenceTheorems, TLAPS

\* The stage "queued" of a request is its place in the queue.
Queued == \A t \in Tasks : stage[t] = "queued" <=> \E i \in 1..Len(queue) : queue[i] = t

\* No request is queued twice.
QueuedOnce == \A i, j \in 1..Len(queue) : queue[i] = queue[j] => i = j

\* What the loop does with the request of t: a job is a work call and a timer a
\* sleep, and neither is ended nor its Task woken before there is something to return.
Served(t) ==
  /\ stage[t] \in {"job", "ran"} => kind[t] = Work
  /\ stage[t] = "ran" => outcome[t] # "none"
  /\ stage[t] \in {"timer", "closing"} => kind[t] # Work
  /\ stage[t] = "closing" => now - begun[t] >= kind[t]
  /\ t \in woken => IF kind[t] = Work THEN outcome[t] # "none" ELSE now - begun[t] >= kind[t]

ServedRight == \A t \in Tasks : Served(t)

\* RequestOrWake and EndsRight hold because a wake says what has been served, and
\* the queue names the Tasks that it should.
IInv == TypeOK /\ Queued /\ QueuedOnce /\ RequestOrWake /\ ServedRight /\ EndsRight

\* The cached clock is a number of whole milliseconds,
LEMMA DivNat == ASSUME NEW a \in Nat, NEW m \in Nat \ {0} PROVE a \div m \in Nat
  OBVIOUS

\* and no earlier reading has more of them than a later one.
LEMMA DivMonotone ==
  ASSUME NEW a \in Nat, NEW b \in Nat, NEW m \in Nat \ {0}, a <= b
  PROVE  a \div m <= b \div m
  OBVIOUS

\* All readings and durations are natural numbers.
LEMMA TimesAreNatural ==
  ASSUME TypeOK
  PROVE  now \in Nat /\ \A t \in Tasks : begun[t] \in Nat /\ kind[t] \in Nat
<1>1. now \in 0..MaxTime /\ begun \in [Tasks -> 0..MaxTime] /\ kind \in [Tasks -> Durations \cup {Work}]
  BY DEF TypeOK
<1>2. 0..MaxTime \subseteq Nat /\ Durations \cup {Work} \subseteq Nat
  BY EventLoopAssumption DEF Work
<1> QED
  BY <1>1, <1>2

\* What hex_event_enqueue makes of the queue,
LEMMA Appended ==
  ASSUME NEW s \in Seq(Tasks), NEW e \in Tasks
  PROVE  /\ Append(s, e) \in Seq(Tasks)
         /\ Len(Append(s, e)) = Len(s) + 1
         /\ \A i \in 1..Len(s) : Append(s, e)[i] = s[i]
         /\ Append(s, e)[Len(s) + 1] = e
  OBVIOUS

\* and what a pop makes of it.
LEMMA Tailed ==
  ASSUME NEW s \in Seq(Tasks), s # << >>
  PROVE  /\ Tail(s) \in Seq(Tasks)
         /\ Len(s) \in Nat \ {0}
         /\ Len(Tail(s)) = Len(s) - 1
         /\ \A i \in 1..Len(Tail(s)) : Tail(s)[i] = s[i + 1]
         /\ Head(s) = s[1] /\ s[1] \in Tasks
  OBVIOUS

\* The Task: hex_event_work_call, hex_task_sleep, hex_event_enqueue.
LEMMA CallWorkKeeps ==
  ASSUME IInv, NEW t \in Tasks, CallWork(t)
  PROVE  IInv'
<1>1. TypeOK'
  BY DEF IInv, TypeOK, CallWork, clocks, loop
<1>2. Queued'
  BY DEF IInv, Queued, CallWork, loop
<1>3. QueuedOnce'
  BY DEF IInv, QueuedOnce, CallWork, loop
<1>4. RequestOrWake'
  BY DEF IInv, RequestOrWake, CallWork
<1>5. ServedRight'
  BY DEF IInv, ServedRight, Served, RequestOrWake, CallWork, clocks
<1>6. EndsRight'
  BY DEF IInv, EndsRight, CallWork
<1> QED
  BY <1>1, <1>2, <1>3, <1>4, <1>5, <1>6 DEF IInv

LEMMA CallSleepKeeps ==
  ASSUME IInv, NEW t \in Tasks, NEW d \in Durations, CallSleep(t, d)
  PROVE  IInv'
<1>1. TypeOK'
  BY DEF IInv, TypeOK, CallSleep, clocks, loop
<1>2. Queued'
  BY DEF IInv, Queued, CallSleep, loop
<1>3. QueuedOnce'
  BY DEF IInv, QueuedOnce, CallSleep, loop
<1>4. RequestOrWake'
  BY DEF IInv, RequestOrWake, CallSleep
<1>5. ServedRight'
  BY DEF IInv, ServedRight, Served, RequestOrWake, CallSleep, clocks
<1>6. EndsRight'
  BY DEF IInv, EndsRight, CallSleep
<1> QED
  BY <1>1, <1>2, <1>3, <1>4, <1>5, <1>6 DEF IInv

LEMMA EnqueueKeeps ==
  ASSUME IInv, NEW t \in Tasks, Enqueue(t)
  PROVE  IInv'
<1>a. /\ stage[t] # "queued"
      /\ t \notin woken
  BY DEF IInv, RequestOrWake, Enqueue
<1>b. /\ queue \in Seq(Tasks)
      /\ queue' = Append(queue, t)
      /\ Len(queue) \in Nat
  BY DEF IInv, TypeOK, Enqueue
<1>c. /\ Len(queue') = Len(queue) + 1
      /\ \A i \in 1..Len(queue) : queue'[i] = queue[i]
      /\ queue'[Len(queue) + 1] = t
  BY <1>b, Appended, Zenon
<1>d. \A i \in 1..Len(queue) : queue[i] # t
  BY <1>a DEF IInv, Queued
<1>e. stage \in [Tasks -> {"none", "queued", "job", "ran", "timer", "closing"}]
  BY DEF IInv, TypeOK
<1>1. TypeOK'
  BY DEF IInv, TypeOK, Enqueue, clocks
<1>2. Queued'
  BY <1>e DEF IInv, Queued, Enqueue
<1>3. QueuedOnce'
  BY <1>c, <1>d DEF IInv, QueuedOnce
<1>4. RequestOrWake'
  BY DEF IInv, TypeOK, RequestOrWake, Enqueue
<1>5. ServedRight'
  BY DEF IInv, ServedRight, Served, Enqueue, clocks
<1>6. EndsRight'
  BY DEF IInv, EndsRight, Enqueue
<1> QED
  BY <1>1, <1>2, <1>3, <1>4, <1>5, <1>6 DEF IInv

LEMMA SendKeeps ==
  ASSUME IInv, NEW t \in Tasks, Send(t)
  PROVE  IInv'
<1>1. TypeOK'
  BY DEF IInv, TypeOK, Send, clocks, request
<1>2. Queued'
  BY DEF IInv, Queued, Send, request
<1>3. QueuedOnce'
  BY DEF IInv, QueuedOnce, Send
<1>4. RequestOrWake'
  BY DEF IInv, RequestOrWake, Send, request
<1>5. ServedRight'
  BY DEF IInv, ServedRight, Served, Send, clocks, request
<1>6. EndsRight'
  BY DEF IInv, EndsRight, Send
<1> QED
  BY <1>1, <1>2, <1>3, <1>4, <1>5, <1>6 DEF IInv

LEMMA ReturnKeeps ==
  ASSUME IInv, NEW t \in Tasks, Return(t)
  PROVE  IInv'
<1>a. /\ kind[t] = Work => outcome[t] # "none"
      /\ kind[t] # Work => ~(now - begun[t] < kind[t])
  BY EventLoopAssumption DEF IInv, TypeOK, ServedRight, Served, Return
<1>b. ended' = [ended EXCEPT ![t] = "well"]
  BY <1>a DEF Return, Sleeping, Elapsed
<1>1. TypeOK'
  BY EventLoopAssumption DEF IInv, TypeOK, Return, clocks, loop
<1>2. Queued'
  BY DEF IInv, Queued, Return, loop
<1>3. QueuedOnce'
  BY DEF IInv, QueuedOnce, Return, loop
<1>4. RequestOrWake'
  BY DEF IInv, TypeOK, RequestOrWake, Return
<1>5. ServedRight'
  BY DEF IInv, ServedRight, Served, RequestOrWake, Return, clocks
<1>6. EndsRight'
  BY <1>b DEF IInv, EndsRight
<1> QED
  BY <1>1, <1>2, <1>3, <1>4, <1>5, <1>6 DEF IInv

\* The loop thread: hex_event_async_callback.
LEMMA WakeupKeeps ==
  ASSUME IInv, Wakeup
  PROVE  IInv'
<1>1. TypeOK'
  BY DEF IInv, TypeOK, Wakeup, clocks, request
<1>2. Queued'
  BY DEF IInv, Queued, Wakeup, request
<1>3. QueuedOnce'
  BY DEF IInv, QueuedOnce, Wakeup
<1>4. RequestOrWake'
  BY DEF IInv, RequestOrWake, Wakeup, request
<1>5. ServedRight'
  BY DEF IInv, ServedRight, Served, Wakeup, clocks, request
<1>6. EndsRight'
  BY DEF IInv, EndsRight, Wakeup
<1> QED
  BY <1>1, <1>2, <1>3, <1>4, <1>5, <1>6 DEF IInv

\* A pop: the head leaves the queue, and only the head.
LEMMA StartWorkKeeps ==
  ASSUME IInv, NEW t \in Tasks, StartWork(t)
  PROVE  IInv'
<1>a. /\ queue \in Seq(Tasks)
      /\ queue # << >>
      /\ t = Head(queue)
      /\ queue' = Tail(queue)
  BY DEF IInv, TypeOK, StartWork, Pop
<1>b. /\ queue' \in Seq(Tasks)
      /\ Len(queue) \in Nat \ {0}
      /\ Len(queue') = Len(queue) - 1
      /\ \A i \in 1..Len(queue') : queue'[i] = queue[i + 1]
      /\ t = queue[1]
  BY <1>a
<1>c. /\ stage[t] = "queued"
      /\ at[t] \in {"sending", "parked"}
      /\ t \notin woken
  BY <1>b DEF IInv, Queued, RequestOrWake
<1>d. \A i \in 1..Len(queue') : queue'[i] # t
  BY <1>b DEF IInv, QueuedOnce
<1>e. \A u \in Tasks \ {t} :
        (\E i \in 1..Len(queue') : queue'[i] = u) <=> \E i \in 1..Len(queue) : queue[i] = u
  <2> SUFFICES ASSUME NEW u \in Tasks \ {t}
               PROVE  (\E i \in 1..Len(queue') : queue'[i] = u) <=> \E i \in 1..Len(queue) : queue[i] = u
    OBVIOUS
  <2>1. ASSUME NEW i \in 1..Len(queue'), queue'[i] = u
        PROVE  \E j \in 1..Len(queue) : queue[j] = u
    <3>1. /\ i + 1 \in 1..Len(queue)
          /\ queue[i + 1] = u
      BY <1>b, <2>1
    <3> QED
      BY <3>1
  <2>2. ASSUME NEW i \in 1..Len(queue), queue[i] = u
        PROVE  \E j \in 1..Len(queue') : queue'[j] = u
    <3>1. i # 1
      BY <1>b, <2>2
    <3>2. /\ i - 1 \in 1..Len(queue')
          /\ i - 1 + 1 = i
      BY <1>b, <3>1
    <3>3. queue'[i - 1] = u
      BY <1>b, <2>2
    <3> QED
      BY <3>2, <3>3
  <2> QED
    BY <2>1, <2>2
<1>f. /\ stage' \in [Tasks -> {"none", "queued", "job", "ran", "timer", "closing"}]
      /\ stage'[t] # "queued"
      /\ \A u \in Tasks \ {t} : stage'[u] = stage[u]
  BY DEF IInv, TypeOK, StartWork
<1>g. /\ at' = at
      /\ woken' = woken
      /\ stage'[t] # "none"
  BY DEF IInv, TypeOK, StartWork
<1>1. TypeOK'
  BY DEF IInv, TypeOK, StartWork, Pop, clocks
<1>2. Queued'
  <2> SUFFICES ASSUME NEW u \in Tasks
               PROVE  (stage'[u] = "queued") <=> \E i \in 1..Len(queue') : queue'[i] = u
    BY DEF Queued
  <2>1. CASE u = t
    BY <2>1, <1>d, <1>f
  <2>2. CASE u # t
    <3>1. (stage[u] = "queued") <=> \E i \in 1..Len(queue) : queue[i] = u
      BY DEF IInv, Queued
    <3>2. stage'[u] = stage[u]
      BY <1>f, <2>2
    <3>3. (\E i \in 1..Len(queue') : queue'[i] = u) <=> \E i \in 1..Len(queue) : queue[i] = u
      BY <1>e, <2>2
    <3> QED
      BY <3>1, <3>2, <3>3, Zenon
  <2> QED
    BY <2>1, <2>2
<1>3. QueuedOnce'
  BY DEF IInv, QueuedOnce, StartWork, Pop
<1>4. RequestOrWake'
  BY <1>c, <1>f, <1>g DEF IInv, RequestOrWake
<1>5. ServedRight'
  BY DEF IInv, ServedRight, Served, StartWork, clocks
<1>6. EndsRight'
  BY DEF IInv, EndsRight, StartWork
<1> QED
  BY <1>1, <1>2, <1>3, <1>4, <1>5, <1>6 DEF IInv

LEMMA StartWorkFailedKeeps ==
  ASSUME IInv, NEW t \in Tasks, StartWorkFailed(t)
  PROVE  IInv'
<1>a. /\ queue \in Seq(Tasks)
      /\ queue # << >>
      /\ t = Head(queue)
      /\ queue' = Tail(queue)
  BY DEF IInv, TypeOK, StartWorkFailed, Pop
<1>b. /\ queue' \in Seq(Tasks)
      /\ Len(queue) \in Nat \ {0}
      /\ Len(queue') = Len(queue) - 1
      /\ \A i \in 1..Len(queue') : queue'[i] = queue[i + 1]
      /\ t = queue[1]
  BY <1>a
<1>c. /\ stage[t] = "queued"
      /\ at[t] \in {"sending", "parked"}
      /\ t \notin woken
  BY <1>b DEF IInv, Queued, RequestOrWake
<1>d. \A i \in 1..Len(queue') : queue'[i] # t
  BY <1>b DEF IInv, QueuedOnce
<1>e. \A u \in Tasks \ {t} :
        (\E i \in 1..Len(queue') : queue'[i] = u) <=> \E i \in 1..Len(queue) : queue[i] = u
  <2> SUFFICES ASSUME NEW u \in Tasks \ {t}
               PROVE  (\E i \in 1..Len(queue') : queue'[i] = u) <=> \E i \in 1..Len(queue) : queue[i] = u
    OBVIOUS
  <2>1. ASSUME NEW i \in 1..Len(queue'), queue'[i] = u
        PROVE  \E j \in 1..Len(queue) : queue[j] = u
    <3>1. /\ i + 1 \in 1..Len(queue)
          /\ queue[i + 1] = u
      BY <1>b, <2>1
    <3> QED
      BY <3>1
  <2>2. ASSUME NEW i \in 1..Len(queue), queue[i] = u
        PROVE  \E j \in 1..Len(queue') : queue'[j] = u
    <3>1. i # 1
      BY <1>b, <2>2
    <3>2. /\ i - 1 \in 1..Len(queue')
          /\ i - 1 + 1 = i
      BY <1>b, <3>1
    <3>3. queue'[i - 1] = u
      BY <1>b, <2>2
    <3> QED
      BY <3>2, <3>3
  <2> QED
    BY <2>1, <2>2
<1>f. /\ stage' \in [Tasks -> {"none", "queued", "job", "ran", "timer", "closing"}]
      /\ stage'[t] # "queued"
      /\ \A u \in Tasks \ {t} : stage'[u] = stage[u]
  BY DEF IInv, TypeOK, StartWorkFailed, Wake
<1>g. /\ at' = at
      /\ woken' = woken \cup {t}
      /\ stage'[t] = "none"
  BY DEF IInv, TypeOK, StartWorkFailed, Wake
<1>1. TypeOK'
  BY DEF IInv, TypeOK, StartWorkFailed, Pop, Wake, clocks
<1>2. Queued'
  <2> SUFFICES ASSUME NEW u \in Tasks
               PROVE  (stage'[u] = "queued") <=> \E i \in 1..Len(queue') : queue'[i] = u
    BY DEF Queued
  <2>1. CASE u = t
    BY <2>1, <1>d, <1>f
  <2>2. CASE u # t
    <3>1. (stage[u] = "queued") <=> \E i \in 1..Len(queue) : queue[i] = u
      BY DEF IInv, Queued
    <3>2. stage'[u] = stage[u]
      BY <1>f, <2>2
    <3>3. (\E i \in 1..Len(queue') : queue'[i] = u) <=> \E i \in 1..Len(queue) : queue[i] = u
      BY <1>e, <2>2
    <3> QED
      BY <3>1, <3>2, <3>3, Zenon
  <2> QED
    BY <2>1, <2>2
<1>3. QueuedOnce'
  BY DEF IInv, QueuedOnce, StartWorkFailed, Pop
<1>4. RequestOrWake'
  BY <1>c, <1>f, <1>g DEF IInv, RequestOrWake
<1>5. ServedRight'
  BY DEF IInv, ServedRight, Served, TypeOK, StartWorkFailed, Wake, clocks
<1>6. EndsRight'
  BY DEF IInv, EndsRight, StartWorkFailed
<1> QED
  BY <1>1, <1>2, <1>3, <1>4, <1>5, <1>6 DEF IInv

LEMMA StartSleepKeeps ==
  ASSUME IInv, NEW t \in Tasks, StartSleep(t)
  PROVE  IInv'
<1>a. /\ queue \in Seq(Tasks)
      /\ queue # << >>
      /\ t = Head(queue)
      /\ queue' = Tail(queue)
  BY DEF IInv, TypeOK, StartSleep, Pop
<1>b. /\ queue' \in Seq(Tasks)
      /\ Len(queue) \in Nat \ {0}
      /\ Len(queue') = Len(queue) - 1
      /\ \A i \in 1..Len(queue') : queue'[i] = queue[i + 1]
      /\ t = queue[1]
  BY <1>a
<1>c. /\ stage[t] = "queued"
      /\ at[t] \in {"sending", "parked"}
      /\ t \notin woken
  BY <1>b DEF IInv, Queued, RequestOrWake
<1>d. \A i \in 1..Len(queue') : queue'[i] # t
  BY <1>b DEF IInv, QueuedOnce
<1>e. \A u \in Tasks \ {t} :
        (\E i \in 1..Len(queue') : queue'[i] = u) <=> \E i \in 1..Len(queue) : queue[i] = u
  <2> SUFFICES ASSUME NEW u \in Tasks \ {t}
               PROVE  (\E i \in 1..Len(queue') : queue'[i] = u) <=> \E i \in 1..Len(queue) : queue[i] = u
    OBVIOUS
  <2>1. ASSUME NEW i \in 1..Len(queue'), queue'[i] = u
        PROVE  \E j \in 1..Len(queue) : queue[j] = u
    <3>1. /\ i + 1 \in 1..Len(queue)
          /\ queue[i + 1] = u
      BY <1>b, <2>1
    <3> QED
      BY <3>1
  <2>2. ASSUME NEW i \in 1..Len(queue), queue[i] = u
        PROVE  \E j \in 1..Len(queue') : queue'[j] = u
    <3>1. i # 1
      BY <1>b, <2>2
    <3>2. /\ i - 1 \in 1..Len(queue')
          /\ i - 1 + 1 = i
      BY <1>b, <3>1
    <3>3. queue'[i - 1] = u
      BY <1>b, <2>2
    <3> QED
      BY <3>2, <3>3
  <2> QED
    BY <2>1, <2>2
<1>f. /\ stage' \in [Tasks -> {"none", "queued", "job", "ran", "timer", "closing"}]
      /\ stage'[t] # "queued"
      /\ \A u \in Tasks \ {t} : stage'[u] = stage[u]
  BY DEF IInv, TypeOK, StartSleep, Arm
<1>g. /\ at' = at
      /\ woken' = woken
      /\ stage'[t] # "none"
  BY DEF IInv, TypeOK, StartSleep, Arm
<1>h. ASSUME NEW n \in Nat
      PROVE  loopTime + Millis(n) \in Nat
  <2>1. n + Millisecond - 1 \in Nat
    BY EventLoopAssumption
  <2>2. (n + Millisecond - 1) \div Millisecond \in Nat
    BY EventLoopAssumption
  <2>3. loopTime \in Nat
    BY DEF IInv, TypeOK
  <2> QED
    BY <2>2, <2>3 DEF Millis
<1>i. kind[t] \in Nat
  BY TimesAreNatural DEF IInv
<1>j. due' \in [Tasks -> Nat]
  BY <1>h, <1>i DEF IInv, TypeOK, StartSleep, Arm
<1>1. TypeOK'
  BY <1>b, <1>f, <1>j DEF IInv, TypeOK, StartSleep, clocks
<1>2. Queued'
  <2> SUFFICES ASSUME NEW u \in Tasks
               PROVE  (stage'[u] = "queued") <=> \E i \in 1..Len(queue') : queue'[i] = u
    BY DEF Queued
  <2>1. CASE u = t
    BY <2>1, <1>d, <1>f
  <2>2. CASE u # t
    <3>1. (stage[u] = "queued") <=> \E i \in 1..Len(queue) : queue[i] = u
      BY DEF IInv, Queued
    <3>2. stage'[u] = stage[u]
      BY <1>f, <2>2
    <3>3. (\E i \in 1..Len(queue') : queue'[i] = u) <=> \E i \in 1..Len(queue) : queue[i] = u
      BY <1>e, <2>2
    <3> QED
      BY <3>1, <3>2, <3>3, Zenon
  <2> QED
    BY <2>1, <2>2
<1>3. QueuedOnce'
  BY DEF IInv, QueuedOnce, StartSleep, Pop
<1>4. RequestOrWake'
  BY <1>c, <1>f, <1>g DEF IInv, RequestOrWake
<1>5. ServedRight'
  BY DEF IInv, ServedRight, Served, StartSleep, Arm, Sleeping, clocks
<1>6. EndsRight'
  BY DEF IInv, EndsRight, StartSleep
<1> QED
  BY <1>1, <1>2, <1>3, <1>4, <1>5, <1>6 DEF IInv

LEMMA CallbackEndsKeeps ==
  ASSUME IInv, CallbackEnds
  PROVE  IInv'
<1>1. TypeOK'
  BY DEF IInv, TypeOK, CallbackEnds, clocks, request
<1>2. Queued'
  BY DEF IInv, Queued, CallbackEnds, request
<1>3. QueuedOnce'
  BY DEF QueuedOnce, CallbackEnds
<1>4. RequestOrWake'
  BY DEF IInv, RequestOrWake, CallbackEnds, request
<1>5. ServedRight'
  BY DEF IInv, ServedRight, Served, CallbackEnds, clocks, request
<1>6. EndsRight'
  BY DEF IInv, EndsRight, CallbackEnds
<1> QED
  BY <1>1, <1>2, <1>3, <1>4, <1>5, <1>6 DEF IInv

\* The pool and the work's completion.
LEMMA JobRunsKeeps ==
  ASSUME IInv, NEW t \in Tasks, JobRuns(t)
  PROVE  IInv'
<1>1. TypeOK'
  BY DEF IInv, TypeOK, JobRuns, clocks, loop
<1>2. Queued'
  BY DEF IInv, Queued, JobRuns, loop
<1>3. QueuedOnce'
  BY DEF IInv, QueuedOnce, JobRuns, loop
<1>4. RequestOrWake'
  BY DEF IInv, RequestOrWake, JobRuns
<1>5. ServedRight'
  BY DEF IInv, ServedRight, Served, TypeOK, JobRuns, clocks
<1>6. EndsRight'
  BY DEF IInv, EndsRight, JobRuns
<1> QED
  BY <1>1, <1>2, <1>3, <1>4, <1>5, <1>6 DEF IInv

LEMMA JobDoneKeeps ==
  ASSUME IInv, NEW t \in Tasks, JobDone(t)
  PROVE  IInv'
<1>1. TypeOK'
  BY DEF IInv, TypeOK, JobDone, Wake, clocks, loop
<1>2. Queued'
  BY DEF IInv, Queued, JobDone, Wake, loop
<1>3. QueuedOnce'
  BY DEF IInv, QueuedOnce, JobDone, loop
<1>4. RequestOrWake'
  BY DEF IInv, TypeOK, RequestOrWake, JobDone, Wake
<1>5. ServedRight'
  BY DEF IInv, ServedRight, Served, JobDone, Wake, clocks
<1>6. EndsRight'
  BY DEF IInv, EndsRight, JobDone
<1> QED
  BY <1>1, <1>2, <1>3, <1>4, <1>5, <1>6 DEF IInv

LEMMA JobCancelledKeeps ==
  ASSUME IInv, NEW t \in Tasks, JobCancelled(t)
  PROVE  IInv'
<1>1. TypeOK'
  BY DEF IInv, TypeOK, JobCancelled, Wake, clocks, loop
<1>2. Queued'
  BY DEF IInv, Queued, JobCancelled, Wake, loop
<1>3. QueuedOnce'
  BY DEF IInv, QueuedOnce, JobCancelled, loop
<1>4. RequestOrWake'
  BY DEF IInv, TypeOK, RequestOrWake, JobCancelled, Wake
<1>5. ServedRight'
  BY DEF IInv, ServedRight, Served, TypeOK, JobCancelled, Wake, clocks
<1>6. EndsRight'
  BY DEF IInv, EndsRight, JobCancelled
<1> QED
  BY <1>1, <1>2, <1>3, <1>4, <1>5, <1>6 DEF IInv

\* The timer: an expiry in time is armed again, and a Task is woken by the close.
LEMMA FiredKeeps ==
  ASSUME IInv, NEW t \in Tasks, Fired(t)
  PROVE  IInv'
<1>h. ASSUME NEW n \in Nat
      PROVE  loopTime + Millis(n) \in Nat
  <2>1. n + Millisecond - 1 \in Nat
    BY EventLoopAssumption
  <2>2. (n + Millisecond - 1) \div Millisecond \in Nat
    BY EventLoopAssumption
  <2>3. loopTime \in Nat
    BY DEF IInv, TypeOK
  <2> QED
    BY <2>2, <2>3 DEF Millis
<1>i. /\ kind[t] \in Nat
      /\ begun[t] \in Nat
      /\ now \in Nat
      /\ stage[t] = "timer"
      /\ at[t] \in {"sending", "parked"}
      /\ t \notin woken
      /\ kind[t] # Work
  <2>1. /\ stage[t] = "timer"
        /\ at[t] \in {"sending", "parked"}
        /\ t \notin woken
        /\ kind[t] # Work
    BY DEF IInv, Fired, Expired, RequestOrWake, ServedRight, Served
  <2> QED
    BY <2>1, TimesAreNatural DEF IInv
<1>k. /\ due' \in [Tasks -> Nat]
      /\ \/ stage' = [stage EXCEPT ![t] = "timer"]
         \/ now - begun[t] >= kind[t] /\ stage' = [stage EXCEPT ![t] = "closing"]
  <2>1. CASE Elapsed(t) < kind[t]
    <3>1. kind[t] - Elapsed(t) \in Nat
      BY <1>i, <2>1 DEF Elapsed
    <3>2. loopTime + Millis(kind[t] - Elapsed(t)) \in Nat
      BY <1>h, <3>1
    <3> QED
      BY <2>1, <3>2 DEF IInv, TypeOK, Fired, Arm
  <2>2. CASE ~(Elapsed(t) < kind[t])
    BY <1>i, <2>2 DEF IInv, TypeOK, Fired, Elapsed
  <2> QED
    BY <2>1, <2>2
<1>l. UNCHANGED <<now, loopTime, queue, async, callback, at, woken, kind, outcome, begun, ended>>
  BY DEF Fired, clocks, loop
<1>1. TypeOK'
  BY <1>k, <1>l DEF IInv, TypeOK
<1>2. Queued'
  <2>1. \A u \in Tasks : stage'[u] = "queued" <=> stage[u] = "queued"
    BY <1>i, <1>k DEF IInv, TypeOK
  <2> QED
    BY <2>1, <1>l DEF IInv, Queued
<1>3. QueuedOnce'
  BY <1>l DEF IInv, QueuedOnce
<1>4. RequestOrWake'
  BY <1>i, <1>k, <1>l DEF IInv, TypeOK, RequestOrWake
<1>5. ServedRight'
  BY <1>i, <1>k, <1>l DEF IInv, TypeOK, ServedRight, Served
<1>6. EndsRight'
  BY <1>l DEF IInv, EndsRight
<1> QED
  BY <1>1, <1>2, <1>3, <1>4, <1>5, <1>6 DEF IInv

LEMMA ClosedKeeps ==
  ASSUME IInv, NEW t \in Tasks, Closed(t)
  PROVE  IInv'
<1>1. TypeOK'
  BY DEF IInv, TypeOK, Closed, Wake, clocks, loop
<1>2. Queued'
  BY DEF IInv, Queued, Closed, Wake, loop
<1>3. QueuedOnce'
  BY DEF IInv, QueuedOnce, Closed, loop
<1>4. RequestOrWake'
  BY DEF IInv, TypeOK, RequestOrWake, Closed, Wake
<1>5. ServedRight'
  BY DEF IInv, ServedRight, Served, Closed, Wake, clocks
<1>6. EndsRight'
  BY DEF IInv, EndsRight, Closed
<1> QED
  BY <1>1, <1>2, <1>3, <1>4, <1>5, <1>6 DEF IInv

\* Time passes: what has elapsed stays elapsed.
LEMMA TickKeeps ==
  ASSUME IInv, Tick
  PROVE  IInv'
<1>a. /\ now \in Nat
      /\ now + 1 \in 0..MaxTime
      /\ now \div Millisecond <= (now + 1) \div Millisecond
      /\ now \div Millisecond \in Nat
      /\ (now + 1) \div Millisecond \in Nat
  <2>1. now \in Nat /\ now + 1 \in 0..MaxTime
    BY EventLoopAssumption DEF IInv, TypeOK, Tick
  <2> QED
    BY <2>1, EventLoopAssumption
<1>b. loopTime \in 0..((now + 1) \div Millisecond)
  <2>1. loopTime \in Int /\ 0 <= loopTime /\ loopTime <= now \div Millisecond
    BY DEF IInv, TypeOK
  <2> QED
    BY <1>a, <2>1
<1>c. \A u \in Tasks : begun[u] \in Nat /\ kind[u] \in Nat
  BY TimesAreNatural DEF IInv
<1>1. TypeOK'
  BY <1>a DEF IInv, TypeOK, Tick, loop, request
<1>2. Queued'
  BY DEF IInv, Queued, Tick, loop, request
<1>3. QueuedOnce'
  BY DEF IInv, QueuedOnce, Tick, loop
<1>4. RequestOrWake'
  BY DEF IInv, RequestOrWake, Tick, request
<1>5. ServedRight'
  BY <1>a, <1>c DEF IInv, ServedRight, Served, Tick, request
<1>6. EndsRight'
  BY DEF IInv, EndsRight, Tick
<1> QED
  BY <1>1, <1>2, <1>3, <1>4, <1>5, <1>6 DEF IInv

LEMMA UpdateTimeKeeps ==
  ASSUME IInv, UpdateTime
  PROVE  IInv'
<1>1. TypeOK'
  BY DEF IInv, TypeOK, UpdateTime, loop, request
<1>2. Queued'
  BY DEF IInv, Queued, UpdateTime, loop, request
<1>3. QueuedOnce'
  BY DEF IInv, QueuedOnce, UpdateTime, loop
<1>4. RequestOrWake'
  BY DEF IInv, RequestOrWake, UpdateTime, request
<1>5. ServedRight'
  BY DEF IInv, ServedRight, Served, UpdateTime, request
<1>6. EndsRight'
  BY DEF IInv, EndsRight, UpdateTime
<1> QED
  BY <1>1, <1>2, <1>3, <1>4, <1>5, <1>6 DEF IInv

\* At the start nobody is in a call.
LEMMA InitRight == Init => IInv
<1> SUFFICES ASSUME Init
             PROVE  IInv
  OBVIOUS
<1>1. TypeOK
  <2>1. 0 \in 0..MaxTime /\ 0 \in 0..(0 \div Millisecond)
    BY EventLoopAssumption
  <2> QED
    BY <2>1, EmptySeq DEF Init, TypeOK
<1>2. Queued /\ QueuedOnce
  BY DEF Init, Queued, QueuedOnce
<1>3. RequestOrWake /\ ServedRight /\ EndsRight
  BY DEF Init, RequestOrWake, ServedRight, Served, EndsRight
<1> QED
  BY <1>1, <1>2, <1>3 DEF IInv

\* Every step, and a step that changes nothing.
LEMMA StepKeeps == IInv /\ [Next]_vars => IInv'
<1> SUFFICES ASSUME IInv, [Next]_vars
             PROVE  IInv'
  OBVIOUS
<1>1. ASSUME NEW t \in Tasks, CallWork(t)
      PROVE  IInv'
  BY <1>1, CallWorkKeeps
<1>2. ASSUME NEW t \in Tasks, NEW d \in Durations, CallSleep(t, d)
      PROVE  IInv'
  BY <1>2, CallSleepKeeps
<1>3. ASSUME NEW t \in Tasks, Enqueue(t)
      PROVE  IInv'
  BY <1>3, EnqueueKeeps
<1>4. ASSUME NEW t \in Tasks, Send(t)
      PROVE  IInv'
  BY <1>4, SendKeeps
<1>5. ASSUME NEW t \in Tasks, Return(t)
      PROVE  IInv'
  BY <1>5, ReturnKeeps
<1>6. CASE Wakeup
  BY <1>6, WakeupKeeps
<1>7. ASSUME NEW t \in Tasks, StartWork(t)
      PROVE  IInv'
  BY <1>7, StartWorkKeeps
<1>8. ASSUME NEW t \in Tasks, StartWorkFailed(t)
      PROVE  IInv'
  BY <1>8, StartWorkFailedKeeps
<1>9. ASSUME NEW t \in Tasks, StartSleep(t)
      PROVE  IInv'
  BY <1>9, StartSleepKeeps
<1>10. CASE CallbackEnds
  BY <1>10, CallbackEndsKeeps
<1>11. ASSUME NEW t \in Tasks, JobRuns(t)
      PROVE  IInv'
  BY <1>11, JobRunsKeeps
<1>12. ASSUME NEW t \in Tasks, JobDone(t)
      PROVE  IInv'
  BY <1>12, JobDoneKeeps
<1>13. ASSUME NEW t \in Tasks, JobCancelled(t)
      PROVE  IInv'
  BY <1>13, JobCancelledKeeps
<1>14. ASSUME NEW t \in Tasks, Fired(t)
      PROVE  IInv'
  BY <1>14, FiredKeeps
<1>15. ASSUME NEW t \in Tasks, Closed(t)
      PROVE  IInv'
  BY <1>15, ClosedKeeps
<1>16. CASE Tick
  BY <1>16, TickKeeps
<1>17. CASE UpdateTime
  BY <1>17, UpdateTimeKeeps
<1>18. CASE UNCHANGED vars
  BY <1>18
     DEF vars, clocks, loop, request, IInv, TypeOK, Queued, QueuedOnce,
     RequestOrWake, ServedRight, Served, EndsRight
<1> QED
  BY <1>1, <1>2, <1>3, <1>4, <1>5, <1>6, <1>7, <1>8, <1>9, <1>10, <1>11, <1>12,
     <1>13, <1>14, <1>15, <1>16, <1>17, <1>18
     DEF Next, InCall, OnRequest, Loop

\* The queue, the requests and the wakes agree in every reachable state, for all
\* Tasks, durations and clocks.  [hex_event_async_callback, hex_task_event_wake]
THEOREM BridgeInvariance == Spec => []IInv
  BY InitRight, StepKeeps, PTL DEF Spec

\* A request is the loop's until its Task is woken, and no longer; the Task parks
\* exactly as long.  [the comment on hex_event_sleep_closed]
THEOREM OneOwner == Spec => []RequestOrWake
  BY BridgeInvariance DEF IInv

\* No sleep ends early and no work call returns a blank result.
\* [hex_event_sleep_fired, hex_event_work_start, hex_event_work_complete]
THEOREM CallsEndRight == Spec => []EndsRight
  BY BridgeInvariance DEF IInv
=============================================================================
