------------------------- MODULE ProcessSignalProofs -------------------------
(***************************************************************************)
(* Theorems about ProcessSignal for any number of Tasks and signals and    *)
(* whatever calls they make.                                               *)
(*                                                                         *)
(* WaitsEndRight says what a Task is told when its wait is over.  Between  *)
(* its wake and its look at the block nothing holds the fact that ended    *)
(* the wait, so that IFact, by which the fact is still there, excepts a    *)
(* next that another call or signal overtook (met).                        *)
(*                                                                         *)
(* NothingDangles is about the native handle and the records that libuv    *)
(* has.  JInv, inductive over IInv, says that there is one close (JOnce),  *)
(* who has yet to close the handle (JCloser, JExit), in whose hands a      *)
(* request is (JQueue, JNative) and that one that met no other is in       *)
(* somebody's (JHeld, from JBusy and JMeet), which leases a call holds     *)
(* meanwhile (JLease), and who alone sees a freed block (JSound).          *)
(***************************************************************************)
EXTENDS ProcessSignal, TLAPS

\* The calls that wait on the list of the block.
Listening(t) == call[t].op \in {"wait", "next"}

\* What the place of a call says of it.
IPlaces ==
  \A t \in Tasks :
    /\ call[t].op = "wait" => kind = "process"
    /\ call[t].op = "next" => kind = "signals"
    /\ call[t].op \in {"read", "write", "shutdown"} => Pipe
    /\ call[t].at \in {"listed", "parked"} => Listening(t)
    /\ call[t].at = "passed" => call[t].op \in Exclusive
    /\ call[t].at \in {"draining", "waiting"} => ~Listening(t)
    /\ call[t].at = "idle" => ~Listening(t)
    /\ call[t].by # "none" => Listening(t) /\ call[t].at \in {"listed", "parked", "leaving"}
    /\ Listening(t) /\ call[t].by = "none" => ~call[t].woken /\ ~call[t].closed

\* The loop answers each command once, and no wait or next.
ICommands ==
  /\ ~Pipe =>
       /\ \A i \in 1..Len(commands) :
            call[commands[i]].at = "waiting" /\ ~call[commands[i]].woken
       /\ \A i, j \in 1..Len(commands) : commands[i] = commands[j] => i = j
  /\ uv.requests # {} => Pipe
  /\ uv.reading # None => Pipe

\* Each kind of block has facts of its own.
IKind ==
  /\ control.exited => kind = "process"
  /\ control.pending # {} => kind = "signals"
  /\ control.waiters # {} => ~Pipe

\* What ended a wait is what the woken Task will find, unless it was overtaken.
IFact ==
  \A t \in Tasks : Waiting(t) =>
    /\ call[t].by = "fact" => ~call[t].closed
    /\ call[t].by = "close" /\ call[t].woken /\ kind = "process" => call[t].closed
    /\ kind = "signals" /\ ~call[t].met =>
         /\ call[t].by = "fact" => control.pending # {}
         /\ call[t].by = "close" => control.pending = {}

IInv ==
  /\ TypeOK /\ IPlaces /\ ICommands /\ IKind /\ IFact
  /\ NobodyForgotten /\ ToldRight

Results == {"none", "exited", "signal", "end", "closed", "busy", "done", "failed", "undefined"}

Places == {"idle", "resolved", "passed", "listed", "parked", "draining", "waiting", "leaving"}

\* Commands are of Tasks.
LEMMA InCommands ==
  ASSUME TypeOK
  PROVE  \A i \in 1..Len(commands) : commands[i] \in Tasks
<1>1. commands \in Seq(Tasks)
  BY DEF TypeOK
<1> QED
  BY <1>1

\* The call of t alone changes, to these fields.
Sets(t, op, at, by, woken, closed) ==
  /\ call' \in [Tasks -> Call]
  /\ \A u \in Tasks : u # t => call'[u] = call[u]
  /\ call'[t].op = op /\ call'[t].at = at /\ call'[t].by = by
  /\ call'[t].woken = woken /\ call'[t].closed = closed

\* A step of one call, field by field.
LEMMA EndsSets ==
  ASSUME TypeOK, NEW t \in Tasks, NEW r \in Results, Ends(t, r)
  PROVE  /\ Sets(t, call[t].op, "leaving", call[t].by, call[t].woken, call[t].closed)
         /\ call'[t].result = r /\ call'[t].met = call[t].met
<1>1. call' = [call EXCEPT ![t] = [call[t] EXCEPT !.at = "leaving", !.result = r]]
  BY DEF Ends
<1>2. call \in [Tasks -> Call] /\ call[t] \in Call
  BY DEF TypeOK
<1>3. [call[t] EXCEPT !.at = "leaving", !.result = r] \in Call
  BY <1>2 DEF Call, Results
<1> QED
  BY <1>1, <1>2, <1>3 DEF Call, Sets

\* A call is answered.
LEMMA AnswerSets ==
  ASSUME TypeOK, NEW t \in Tasks, NEW r \in Results, Answer(t, r)
  PROVE  /\ Sets(t, call[t].op, call[t].at, call[t].by, TRUE, call[t].closed)
         /\ call'[t].result = r
<1>1. call' = [call EXCEPT ![t] = [call[t] EXCEPT !.woken = TRUE, !.result = r]]
  BY DEF Answer
<1>2. call \in [Tasks -> Call] /\ call[t] \in Call
  BY DEF TypeOK
<1>3. [call[t] EXCEPT !.woken = TRUE, !.result = r] \in Call
  BY <1>2 DEF Call, Results
<1> QED
  BY <1>1, <1>2, <1>3 DEF Call, Sets

\* A call asks the loop.
LEMMA SubmitSets ==
  ASSUME TypeOK, NEW t \in Tasks, Submit(t)
  PROVE  /\ Sets(t, call[t].op, "waiting", call[t].by, FALSE, call[t].closed)
         /\ call'[t].result = call[t].result
         /\ commands' \in Seq(Tasks)
         /\ Len(commands') = Len(commands) + 1
         /\ commands'[Len(commands) + 1] = t
         /\ \A i \in 1..Len(commands) : commands'[i] = commands[i]
<1>1. call' = [call EXCEPT ![t] = [call[t] EXCEPT !.at = "waiting", !.woken = FALSE]]
  BY DEF Submit
<1>2. call \in [Tasks -> Call] /\ call[t] \in Call
  BY DEF TypeOK
<1>3. [call[t] EXCEPT !.at = "waiting", !.woken = FALSE] \in Call
  BY <1>2 DEF Call
<1>4. commands \in Seq(Tasks) /\ commands' = Append(commands, t)
  BY DEF TypeOK, Submit
<1>5. /\ commands' \in Seq(Tasks)
      /\ Len(commands') = Len(commands) + 1
      /\ commands'[Len(commands) + 1] = t
      /\ \A i \in 1..Len(commands) : commands'[i] = commands[i]
  BY <1>4
<1> QED
  BY <1>1, <1>2, <1>3, <1>5 DEF Call, Sets

\* A call goes on to a place.
LEMMA MovesSets ==
  ASSUME TypeOK, NEW t \in Tasks, NEW place \in Places,
         call' = [call EXCEPT ![t].at = place]
  PROVE  /\ Sets(t, call[t].op, place, call[t].by, call[t].woken, call[t].closed)
         /\ call'[t].result = call[t].result /\ call'[t].met = call[t].met
<1>1. call' = [call EXCEPT ![t] = [call[t] EXCEPT !.at = place]]
  OBVIOUS
<1>2. call \in [Tasks -> Call] /\ call[t] \in Call
  BY DEF TypeOK
<1>3. [call[t] EXCEPT !.at = place] \in Call
  BY <1>2 DEF Call, Places
<1> QED
  BY <1>1, <1>2, <1>3 DEF Call, Sets

\* A call begins or is forgotten.
LEMMA NewSets ==
  ASSUME TypeOK, NEW t \in Tasks, NEW place \in {"idle", "resolved"},
         NEW op \in {"none", "wait", "terminate", "next", "read", "write", "shutdown", "close"},
         call' = [call EXCEPT ![t] = [NoCall EXCEPT !.op = op, !.at = place]]
  PROVE  Sets(t, op, place, "none", FALSE, FALSE)
<1>1. [NoCall EXCEPT !.op = op, !.at = place] \in Call
  BY DEF NoCall, Call
<1> QED
  BY <1>1 DEF TypeOK, NoCall, Sets

\* The call of u goes on as it was, but may have met another.
Stays(u) ==
  /\ call'[u].op = call[u].op /\ call'[u].at = call[u].at
  /\ call'[u].by = call[u].by /\ call'[u].woken = call[u].woken
  /\ call'[u].closed = call[u].closed /\ call'[u].exited = call[u].exited
  /\ call'[u].result = call[u].result
  /\ call[u].met => call'[u].met

LEMMA MeetSets ==
  ASSUME NEW c \in Call, NEW met \in BOOLEAN, NEW d, d = [c EXCEPT !.met = met]
  PROVE  /\ d \in Call /\ d.op = c.op /\ d.at = c.at /\ d.by = c.by /\ d.woken = c.woken
         /\ d.closed = c.closed /\ d.exited = c.exited /\ d.result = c.result
         /\ d.met = met
BY DEF Call

LEMMA MeetsSets ==
  ASSUME TypeOK, NEW u \in Tasks, NEW meets \in BOOLEAN,
         call'[u] = [call[u] EXCEPT !.met = call[u].met \/ meets]
  PROVE  call'[u] \in Call /\ Stays(u) /\ (meets => call'[u].met)
<1>1. call[u] \in Call /\ call[u].met \in BOOLEAN
  BY DEF TypeOK, Call
<1>2. PICK m : m = (call[u].met \/ meets)
  OBVIOUS
<1>3. m \in BOOLEAN
  BY <1>1, <1>2
<1>4. call'[u] = [call[u] EXCEPT !.met = m]
  BY <1>2
<1>5. /\ call'[u] \in Call /\ call'[u].met = m
      /\ call'[u].op = call[u].op /\ call'[u].at = call[u].at
      /\ call'[u].by = call[u].by /\ call'[u].woken = call[u].woken
      /\ call'[u].closed = call[u].closed /\ call'[u].exited = call[u].exited
      /\ call'[u].result = call[u].result
  BY <1>1, <1>3, <1>4, MeetSets
<1>6. (call[u].met => m) /\ (meets => m)
  BY <1>2
<1> QED
  BY <1>5, <1>6 DEF Stays

\* A call on a pipe finds its flag clear.
LEMMA PassSets ==
  ASSUME TypeOK, NEW t \in Tasks, PipePasses(t)
  PROVE  /\ call' \in [Tasks -> Call]
         /\ \A u \in Tasks : u # t => Stays(u) /\ (u \in Beside(t) => call'[u].met)
         /\ call'[t].op = call[t].op /\ call'[t].at = "passed" /\ call'[t].by = call[t].by
         /\ call'[t].woken = call[t].woken /\ call'[t].closed = call[t].closed
         /\ call'[t].exited = call[t].exited /\ call'[t].result = call[t].result
         /\ call[t].met \/ Beside(t) # {} => call'[t].met
<1>1. call[t] \in Call /\ call[t].met \in BOOLEAN
  BY DEF TypeOK, Call
<1>2. PICK m : m = (call[t].met \/ Beside(t) # {})
  OBVIOUS
<1>3. m \in BOOLEAN
  BY <1>1, <1>2
<1> DEFINE c == [call[t] EXCEPT !.at = "passed", !.met = m]
<1>4. /\ c \in Call /\ c.at = "passed" /\ c.met = m
      /\ c.op = call[t].op /\ c.by = call[t].by /\ c.woken = call[t].woken
      /\ c.closed = call[t].closed /\ c.exited = call[t].exited /\ c.result = call[t].result
  BY <1>1, <1>3 DEF Call
<1>5. /\ call' = [u \in Tasks |-> call'[u]]
      /\ call'[t] = c
      /\ \A u \in Tasks : u # t =>
           call'[u] = [call[u] EXCEPT !.met = call[u].met \/ u \in Beside(t)]
  BY <1>2 DEF PipePasses
<1> HIDE DEF c
<1>6. ASSUME NEW u \in Tasks, u # t
      PROVE  call'[u] \in Call /\ Stays(u) /\ (u \in Beside(t) => call'[u].met)
  <2>1. PICK b : b = (u \in Beside(t))
    OBVIOUS
  <2>2. b \in BOOLEAN
    BY <2>1
  <2>3. call'[u] = [call[u] EXCEPT !.met = call[u].met \/ b]
    BY <1>5, <1>6, <2>1
  <2> QED
    BY <2>1, <2>2, <2>3, MeetsSets
<1>7. call' \in [Tasks -> Call]
  BY <1>4, <1>5, <1>6
<1>8. call[t].met \/ Beside(t) # {} => m
  BY <1>2
<1> QED
  BY <1>4, <1>5, <1>6, <1>7, <1>8

\* A close begins.
LEMMA CloseSets ==
  ASSUME TypeOK, NEW t \in Tasks, CloseBegins(t)
  PROVE  /\ call' \in [Tasks -> Call]
         /\ \A u \in Tasks : u # t => Stays(u) /\ (u \in ReadsUnderWay => call'[u].met)
         /\ call'[t].op = "close" /\ call'[t].at = "resolved" /\ call'[t].by = "none"
         /\ call'[t].woken = FALSE /\ call'[t].closed = FALSE /\ call'[t].exited = FALSE
         /\ call'[t].result = "none"
         /\ ReadsUnderWay # {} => call'[t].met
<1>1. PICK m : m = (ReadsUnderWay # {})
  OBVIOUS
<1>2. m \in BOOLEAN
  BY <1>1
<1> DEFINE c == [NoCall EXCEPT !.op = "close", !.at = "resolved", !.met = m]
<1>3. /\ c \in Call /\ c.op = "close" /\ c.at = "resolved" /\ c.met = m
      /\ c.by = "none" /\ c.woken = FALSE /\ c.closed = FALSE /\ c.exited = FALSE
      /\ c.result = "none"
  BY <1>2 DEF Call, NoCall
<1>4. /\ call' = [u \in Tasks |-> call'[u]]
      /\ call'[t] = c
      /\ \A u \in Tasks : u # t =>
           call'[u] = [call[u] EXCEPT !.met = call[u].met \/ u \in ReadsUnderWay]
  BY <1>1 DEF CloseBegins
<1> HIDE DEF c
<1>5. ASSUME NEW u \in Tasks, u # t
      PROVE  call'[u] \in Call /\ Stays(u) /\ (u \in ReadsUnderWay => call'[u].met)
  <2>1. PICK b : b = (u \in ReadsUnderWay)
    OBVIOUS
  <2>2. b \in BOOLEAN
    BY <2>1
  <2>3. call'[u] = [call[u] EXCEPT !.met = call[u].met \/ b]
    BY <1>4, <1>5, <2>1
  <2> QED
    BY <2>1, <2>2, <2>3, MeetsSets
<1>6. call' \in [Tasks -> Call]
  BY <1>3, <1>4, <1>5
<1>7. ReadsUnderWay # {} => m
  BY <1>1
<1> QED
  BY <1>3, <1>4, <1>5, <1>6, <1>7

\* A write of nothing.
LEMMA BeginsWaiting ==
  ASSUME TypeOK, NEW t \in Tasks,
         call' = [call EXCEPT ![t].at = "waiting", ![t].woken = TRUE]
  PROVE  /\ call' \in [Tasks -> Call]
         /\ \A u \in Tasks : u # t => call'[u] = call[u]
         /\ call'[t].op = call[t].op /\ call'[t].at = "waiting" /\ call'[t].by = call[t].by
         /\ call'[t].woken = TRUE /\ call'[t].closed = call[t].closed
         /\ call'[t].exited = call[t].exited /\ call'[t].result = call[t].result
         /\ call'[t].met = call[t].met
<1>1. call \in [Tasks -> Call] /\ call[t] \in Call
  BY DEF TypeOK
<1> DEFINE c == [call[t] EXCEPT !.at = "waiting", !.woken = TRUE]
<1>2. /\ c \in Call /\ c.at = "waiting" /\ c.woken = TRUE
      /\ c.op = call[t].op /\ c.by = call[t].by /\ c.closed = call[t].closed
      /\ c.exited = call[t].exited /\ c.result = call[t].result /\ c.met = call[t].met
  BY <1>1 DEF Call
<1>3. call' = [call EXCEPT ![t] = c]
  BY <1>1
<1> HIDE DEF c
<1> QED
  BY <1>1, <1>2, <1>3

\* t takes a pending signal and goes; those that were to look meet it.
TakesSignal(t) ==
  control' = Taken /\ Overtakes(t, [call[t] EXCEPT !.at = "leaving", !.result = "signal"])

LEMMA TakesSignalSets ==
  ASSUME TypeOK, NEW t \in Tasks, TakesSignal(t)
  PROVE  /\ call' \in [Tasks -> Call]
         /\ \A u \in Tasks : u # t => Stays(u) /\ (WillLook(u) => call'[u].met)
         /\ call'[t].op = call[t].op /\ call'[t].at = "leaving" /\ call'[t].by = call[t].by
         /\ call'[t].woken = call[t].woken /\ call'[t].closed = call[t].closed
         /\ call'[t].exited = call[t].exited /\ call'[t].result = "signal"
         /\ call'[t].met = call[t].met
         /\ control' \in [exited : BOOLEAN, closed : BOOLEAN, waiters : SUBSET Tasks,
                           pending : SUBSET Signals, busy : SUBSET Exclusive]
         /\ control'.exited = control.exited /\ control'.closed = control.closed
         /\ control'.waiters = control.waiters /\ control'.busy = control.busy
         /\ control'.pending \subseteq control.pending
<1>1. call[t] \in Call
  BY DEF TypeOK
<1> DEFINE c == [call[t] EXCEPT !.at = "leaving", !.result = "signal"]
<1>2. /\ c \in Call /\ c.at = "leaving" /\ c.result = "signal" /\ c.met = call[t].met
      /\ c.op = call[t].op /\ c.by = call[t].by /\ c.woken = call[t].woken
      /\ c.closed = call[t].closed /\ c.exited = call[t].exited
  BY <1>1 DEF Call
<1>3. /\ call' = [u \in Tasks |-> call'[u]]
      /\ call'[t] = c
      /\ \A u \in Tasks : u # t =>
           call'[u] = [call[u] EXCEPT !.met = call[u].met \/ WillLook(u)]
  BY DEF TakesSignal, Overtakes
<1> HIDE DEF c
<1>4. ASSUME NEW u \in Tasks, u # t
      PROVE  call'[u] \in Call /\ Stays(u) /\ (WillLook(u) => call'[u].met)
  <2>1. PICK b : b = WillLook(u)
    OBVIOUS
  <2>2. b \in BOOLEAN
    BY <2>1 DEF WillLook
  <2>3. call'[u] = [call[u] EXCEPT !.met = call[u].met \/ b]
    BY <1>3, <1>4, <2>1
  <2> QED
    BY <2>1, <2>2, <2>3, MeetsSets
<1>5. call' \in [Tasks -> Call]
  BY <1>2, <1>3, <1>4
<1>6. control' = [control EXCEPT !.pending = control.pending \ {First(control.pending)}]
  BY DEF TakesSignal, Taken
<1>7. /\ control' \in [exited : BOOLEAN, closed : BOOLEAN, waiters : SUBSET Tasks,
                        pending : SUBSET Signals, busy : SUBSET Exclusive]
      /\ control'.exited = control.exited /\ control'.closed = control.closed
      /\ control'.waiters = control.waiters /\ control'.busy = control.busy
      /\ control'.pending \subseteq control.pending
  BY <1>6 DEF TypeOK
<1> QED
  BY <1>2, <1>3, <1>4, <1>5, <1>7

\* A step of calls that are not on the list leaves the waiting ones as they are.
LEMMA RequestStep ==
  ASSUME IInv,
         \A u \in Tasks : \/ call'[u] = call[u]
                          \/ Stays(u)
                          \/ /\ ~Listening(u) /\ call'[u].by = "none"
                             /\ call'[u].op \notin {"wait", "next"}
                             /\ \/ call[u].at # "draining"
                                \/ Drained("close"),
         kind' = kind, loop' = loop, status[Block] = "freed" => status'[Block] = "freed",
         control'.exited = control.exited, control'.closed = control.closed,
         control'.waiters = control.waiters, control'.pending = control.pending
  PROVE  IKind' /\ IFact' /\ NobodyForgotten' /\ ToldRight'
<1> USE DEF IInv
<1>1. IKind'
  BY DEF IKind, Pipe
<1>2. ASSUME NEW u \in Tasks, Listening(u)'
      PROVE  Listening(u) /\ Stays(u)
  BY <1>2 DEF Listening, Stays
<1>3. \A u \in Tasks : Waiting(u)' => Waiting(u) /\ Listening(u)'
  BY <1>2 DEF Waiting, Listening, Stays
<1>4. IFact'
  BY <1>2, <1>3 DEF IFact, Stays
<1>5. NobodyForgotten'
  <2>1. ASSUME NEW u \in control.waiters
        PROVE  u \in Tasks /\ Stays(u) /\ Waiting(u) /\ call[u].by = "none"
    BY DEF NobodyForgotten, Waiting, Listening, TypeOK, Stays
  <2>2. \A c \in Tasks : At(c, "close", "draining") =>
          At(c, "close", "draining")' \/ Drained("close")
    BY DEF At, Stays
  <2>3. ASSUME NEW u \in control.waiters
        PROVE  Waiting(u)' /\ call'[u].by = "none"
    BY <2>1 DEF Waiting, Stays
  <2>4. ASSUME NEW u \in Tasks, Waiting(u)', ~call'[u].woken
        PROVE  /\ call'[u].by = "none" => u \in control.waiters
               /\ call'[u].by = "fact" => loop.at = "waking"
               /\ call'[u].by = "close" => \E c \in Tasks : At(c, "close", "draining")'
    <3>1. Waiting(u) /\ Stays(u) /\ ~call[u].woken
      BY <1>2, <1>3, <2>4 DEF Stays
    <3>2. call[u].by = "close" => ~Drained("close")
      BY <3>1 DEF Drained
    <3> QED
      BY <2>2, <3>1, <3>2 DEF NobodyForgotten, Stays
  <2> QED
    BY <2>1, <2>3, <2>4 DEF NobodyForgotten
<1>6. ToldRight'
  <2>1. ASSUME NEW u \in Tasks, Listening(u)' PROVE Deserved(u)' = Deserved(u)
    BY <1>2, <2>1 DEF Deserved, Stays
  <2> QED
    BY <1>2, <2>1 DEF ToldRight, Listening, Stays
<1> QED
  BY <1>1, <1>4, <1>5, <1>6

\* Taking Tasks off the list changes what their calls say of that, no more.
LEMMA TakenSets ==
  ASSUME TypeOK, NEW taken \in SUBSET Tasks, NEW by \in {"fact", "close"}
  PROVE  /\ TakenOff(taken, by) \in [Tasks -> Call]
         /\ \A u \in Tasks : LET c == TakenOff(taken, by)[u] IN
              /\ c.op = call[u].op /\ c.at = call[u].at
              /\ c.woken = call[u].woken /\ c.closed = call[u].closed
              /\ c.result = call[u].result /\ c.met = call[u].met
              /\ c.by = IF u \in taken THEN by ELSE call[u].by
<1>1. \A u \in Tasks : call[u] \in Call /\ [call[u] EXCEPT !.by = by] \in Call
  <2>1. TAKE u \in Tasks
  <2>2. call[u] \in Call
    BY DEF TypeOK
  <2>3. [call[u] EXCEPT !.by = by] \in Call
    BY <2>2 DEF Call
  <2> QED
    BY <2>2, <2>3
<1>2. \A u \in Tasks : TakenOff(taken, by)[u] =
                        IF u \in taken THEN [call[u] EXCEPT !.by = by] ELSE call[u]
  BY DEF TakenOff
<1>3. TakenOff(taken, by) \in [Tasks -> Call]
  BY <1>1 DEF TakenOff
<1> QED
  BY <1>1, <1>2, <1>3 DEF Call

\* The fields that Tasks and the loop share, and the block, one by one.
LEMMA Fields ==
  ASSUME TypeOK
  PROVE  /\ control.exited \in BOOLEAN /\ control.closed \in BOOLEAN
         /\ control.waiters \subseteq Tasks /\ control.pending \subseteq Signals
         /\ control.busy \subseteq Exclusive
         /\ status[Block] \in {"unused", "open", "closing", "freed"}
         /\ status \in [{Block} -> {"unused", "open", "closing", "freed"}]
         /\ users \in [{Block} -> SUBSET (Tasks \cup {Teardown})]
         /\ \A t \in Tasks : call[t].met \in BOOLEAN
         /\ \A t \in Tasks : call[t].by \in {"none", "fact", "close"}
         /\ \A t \in Tasks : call[t].woken \in BOOLEAN /\ call[t].closed \in BOOLEAN
<1> QED
  BY DEF TypeOK, Call

\* A wake of u.
LEMMA WakeSets ==
  ASSUME TypeOK, NEW u \in Tasks, call' = [call EXCEPT ![u].woken = TRUE]
  PROVE  /\ Sets(u, call[u].op, call[u].at, call[u].by, TRUE, call[u].closed)
         /\ call'[u].result = call[u].result /\ call'[u].met = call[u].met
<1>1. call' = [call EXCEPT ![u] = [call[u] EXCEPT !.woken = TRUE]]
  OBVIOUS
<1>2. call \in [Tasks -> Call] /\ call[u] \in Call
  BY DEF TypeOK
<1>3. [call[u] EXCEPT !.woken = TRUE] \in Call
  BY <1>2 DEF Call
<1> QED
  BY <1>1, <1>2, <1>3 DEF Sets, Call

\* A wake of u by the close, which leaves its mark.
LEMMA MarkSets ==
  ASSUME TypeOK, NEW u \in Tasks, NEW c \in BOOLEAN,
         call' = [call EXCEPT ![u].woken = TRUE, ![u].closed = c]
  PROVE  /\ Sets(u, call[u].op, call[u].at, call[u].by, TRUE, c)
         /\ call'[u].result = call[u].result /\ call'[u].met = call[u].met
<1>1. call \in [Tasks -> Call] /\ call[u] \in Call
  BY DEF TypeOK
<1>2. call' = [call EXCEPT ![u] = [call[u] EXCEPT !.woken = TRUE, !.closed = c]]
  BY <1>1
<1>3. [call[u] EXCEPT !.woken = TRUE, !.closed = c] \in Call
  BY <1>1 DEF Call
<1> QED
  BY <1>1, <1>2, <1>3 DEF Sets, Call

\* The loop wakes calls that wait for an answer, and leaves the others alone.
AnswerOnly ==
  /\ call' \in [Tasks -> Call]
  /\ \A u \in Tasks :
       \/ call'[u] = call[u]
       \/ /\ ~Listening(u)
          /\ call'[u].op = call[u].op /\ call'[u].at = call[u].at
          /\ call'[u].by = call[u].by

LEMMA AnswersOnly ==
  ASSUME IInv, NEW t \in Tasks \cup {None}, NEW r \in Results, Answer(t, r),
         Pipe \/ (t \in Tasks /\ call[t].at = "waiting")
  PROVE  AnswerOnly /\ \A u \in Tasks : u # t => call'[u] = call[u]
<1>1. CASE t \in Tasks
  <2>1. ~Listening(t)
    BY <1>1 DEF IInv, IPlaces, Pipe, Listening
  <2> QED
    BY <1>1, <2>1, AnswerSets DEF IInv, Sets, AnswerOnly
<1>2. CASE t \notin Tasks
  <2>1. call \in [Tasks -> Call]
    BY DEF IInv, TypeOK
  <2>2. call' = call
    BY <1>2, <2>1 DEF Answer
  <2> QED
    BY <2>1, <2>2 DEF AnswerOnly
<1> QED
  BY <1>1, <1>2

\* A step of the loop that answers requests or starts a native close.
LEMMA LoopStep ==
  ASSUME IInv, AnswerOnly, UNCHANGED <<kind, status, users, control, loop>>
  PROVE  IPlaces' /\ IKind' /\ IFact' /\ NobodyForgotten' /\ ToldRight'
<1> USE DEF IInv
<1>1. \A u \in Tasks :
        /\ Listening(u) => call'[u] = call[u]
        /\ call'[u].op = call[u].op /\ call'[u].at = call[u].at
        /\ call'[u].by = call[u].by
  BY DEF AnswerOnly
<1>2. \A u \in Tasks : Listening(u)' = Listening(u)
  BY <1>1 DEF Listening
<1>3. Pipe' = Pipe
  BY DEF Pipe
<1>4. IPlaces'
  BY <1>1, <1>2, <1>3 DEF IPlaces
<1>5. IKind'
  BY <1>3 DEF IKind
<1>6. \A u \in Tasks : Waiting(u)' = Waiting(u) /\ (Waiting(u) => call'[u] = call[u])
  BY <1>1 DEF Waiting, Listening
<1>7. IFact'
  BY <1>6 DEF IFact
<1>8. NobodyForgotten'
  <2>1. \A c \in Tasks : At(c, "close", "draining") = At(c, "close", "draining")'
    BY <1>1 DEF At
  <2>2. control.waiters \subseteq Tasks
    BY Fields
  <2> QED
    BY <1>6, <2>1, <2>2 DEF NobodyForgotten
<1>9. ToldRight'
  BY <1>1 DEF ToldRight, Deserved, Listening
<1> QED
  BY <1>4, <1>5, <1>7, <1>8, <1>9

\* Starting a command leaves the later ones, which are other Tasks' unless the
\* block is a pipe.
LEMMA Starts ==
  ASSUME IInv, commands # << >>, commands' = Tail(commands)
  PROVE  /\ Head(commands) \in Tasks
         /\ ~Pipe => call[Head(commands)].at = "waiting"
         /\ commands' \in Seq(Tasks) /\ Len(commands') = Len(commands) - 1
         /\ Len(commands) \in Nat
         /\ \A i \in 1..Len(commands') :
              /\ i + 1 \in 1..Len(commands) /\ commands'[i] = commands[i + 1]
              /\ commands'[i] \in Tasks
              /\ ~Pipe => commands'[i] # Head(commands)
<1>1. commands \in Seq(Tasks)
  BY DEF IInv, TypeOK
<1>2. /\ Len(commands) \in Nat /\ Len(commands) > 0
      /\ Head(commands) = commands[1] /\ commands[1] \in Tasks
      /\ commands' \in Seq(Tasks) /\ Len(commands') = Len(commands) - 1
      /\ \A i \in 1..Len(commands') :
           /\ i + 1 \in 1..Len(commands) /\ commands'[i] = commands[i + 1]
           /\ commands'[i] \in Tasks
  BY <1>1
<1>3. ~Pipe => \A i \in 1..Len(commands') : commands[i + 1] # commands[1]
  <2>1. SUFFICES ASSUME ~Pipe, NEW i \in 1..Len(commands') PROVE commands[i + 1] # commands[1]
    OBVIOUS
  <2>2. 1 \in 1..Len(commands) /\ i + 1 \in 1..Len(commands) /\ i + 1 # 1
    BY <1>2
  <2> QED
    BY <2>1, <2>2 DEF IInv, ICommands
<1>4. ~Pipe => call[commands[1]].at = "waiting"
  BY <1>2 DEF IInv, ICommands
<1> QED
  BY <1>2, <1>3, <1>4

\* The answer to a command, and the rest of the queue.
LEMMA StartsCommands ==
  ASSUME IInv, commands # << >>, commands' = Tail(commands), kind' = kind,
         \A u \in Tasks : u # Head(commands) => call'[u] = call[u],
         uv'.requests # {} => Pipe, uv'.reading # None => Pipe
  PROVE  ICommands'
<1>1. Pipe' = Pipe
  BY DEF Pipe
<1>2. ~Pipe => \A i \in 1..Len(commands') :
        call'[commands'[i]].at = "waiting" /\ ~call'[commands'[i]].woken
  <2>1. SUFFICES ASSUME ~Pipe, NEW i \in 1..Len(commands')
                 PROVE  call'[commands'[i]].at = "waiting" /\ ~call'[commands'[i]].woken
    OBVIOUS
  <2>2. i + 1 \in 1..Len(commands) /\ call'[commands'[i]] = call[commands[i + 1]]
    BY <2>1, Starts
  <2> QED
    BY <2>1, <2>2 DEF IInv, ICommands
<1>3. ~Pipe => \A i, j \in 1..Len(commands') : commands'[i] = commands'[j] => i = j
  <2>1. SUFFICES ASSUME ~Pipe, NEW i \in 1..Len(commands'), NEW j \in 1..Len(commands'),
                        commands'[i] = commands'[j]
                 PROVE  i = j
    OBVIOUS
  <2>2. /\ i + 1 \in 1..Len(commands) /\ j + 1 \in 1..Len(commands)
        /\ commands[i + 1] = commands[j + 1] /\ Len(commands') \in Int
    BY <2>1, Starts
  <2>3. i + 1 = j + 1
    BY <2>1, <2>2 DEF IInv, ICommands
  <2> QED
    BY <2>2, <2>3
<1> QED
  BY <1>1, <1>2, <1>3 DEF ICommands

\* What libuv has of the native handles.
UV == [closes : Nat, closing : SUBSET (Signals \cup {Block}),
       reading : Tasks \cup {None}, requests : SUBSET Tasks, data : Tasks \cup {None}]

\* A native close.
LEMMA NativeCloseSets ==
  ASSUME TypeOK, NEW data \in Tasks \cup {None}, NativeClose(data)
  PROVE  /\ uv' \in UV
         /\ uv'.requests = uv.requests /\ uv'.reading = None
<1>1. uv \in UV
  BY DEF TypeOK, UV
<1>2. uv' = [uv EXCEPT !.closes = uv.closes + 1, !.reading = None, !.data = data,
                       !.closing = IF kind = "signals" THEN Signals ELSE {Block}]
  BY DEF NativeClose
<1>3. uv.closes + 1 \in Nat
  BY <1>1 DEF UV
<1> QED
  BY <1>1, <1>2, <1>3 DEF UV

\* A wait that finds the exit or the close ends at once.
LEMMA WaitKnowsKeeps ==
  ASSUME IInv, NEW t \in Tasks, WaitKnows(t)
  PROVE  IInv'
<1> USE DEF WaitKnows, At, ofTasks, capability, IInv
<1>1. /\ Sets(t, call[t].op, "leaving", call[t].by, call[t].woken, call[t].closed)
      /\ call'[t].result = (IF control.exited THEN "exited" ELSE "closed")
  BY EndsSets DEF Results
<1>2. TypeOK'
  BY <1>1 DEF Sets, TypeOK
<1>3. IPlaces'
  BY <1>1, ZenonT(60) DEF Sets, IPlaces, Listening, Pipe
<1>4. ICommands'
  BY <1>1, InCommands DEF Sets, ICommands, Pipe
<1>5. IKind'
  BY DEF Sets, IKind, Pipe
<1>6. IFact'
  BY <1>1 DEF Sets, IFact, Waiting
<1>7. NobodyForgotten'
  <2>1. \A u \in control.waiters : u # t
    BY Fields DEF NobodyForgotten, Waiting
  <2>2. \A c \in Tasks : At(c, "close", "draining") => At(c, "close", "draining")'
    BY <1>1 DEF Sets
  <2> QED
    BY <1>1, <2>1, <2>2, Fields DEF Sets, NobodyForgotten, Waiting
<1>8. ToldRight'
  <2>1. call[t].by = "none"
    BY Fields DEF IPlaces
  <2> QED
    BY <1>1, <2>1 DEF Sets, ToldRight, Deserved
<1> QED
  BY <1>2, <1>3, <1>4, <1>5, <1>6, <1>7, <1>8

\* A second next is refused.
LEMMA NextBusyKeeps ==
  ASSUME IInv, NEW t \in Tasks, NextBusy(t)
  PROVE  IInv'
<1> USE DEF NextBusy, At, ofTasks, capability, IInv
<1>1. /\ Sets(t, call[t].op, "leaving", call[t].by, call[t].woken, call[t].closed)
      /\ call'[t].result = "busy"
  BY EndsSets DEF Results
<1>2. TypeOK'
  BY <1>1 DEF Sets, TypeOK
<1>3. IPlaces'
  BY <1>1, ZenonT(60) DEF Sets, IPlaces, Listening, Pipe
<1>4. ICommands'
  BY <1>1, InCommands DEF Sets, ICommands, Pipe
<1>5. IKind'
  BY DEF Sets, IKind, Pipe
<1>6. IFact'
  BY <1>1 DEF Sets, IFact, Waiting
<1>7. NobodyForgotten'
  <2>1. \A u \in control.waiters : u # t
    BY Fields DEF NobodyForgotten, Waiting
  <2>2. \A c \in Tasks : At(c, "close", "draining") => At(c, "close", "draining")'
    BY <1>1 DEF Sets
  <2> QED
    BY <1>1, <2>1, <2>2, Fields DEF Sets, NobodyForgotten, Waiting
<1>8. ToldRight'
  BY <1>1 DEF Sets, ToldRight, Deserved, IPlaces
<1> QED
  BY <1>2, <1>3, <1>4, <1>5, <1>6, <1>7, <1>8

\* A next of a closed subscription ends.
LEMMA NextEndsKeeps ==
  ASSUME IInv, NEW t \in Tasks, NextEnds(t)
  PROVE  IInv'
<1> USE DEF NextEnds, At, ofTasks, capability, IInv
<1>1. /\ Sets(t, call[t].op, "leaving", call[t].by, call[t].woken, call[t].closed)
      /\ call'[t].result = "end"
  BY EndsSets DEF Results
<1>2. TypeOK'
  BY <1>1 DEF Sets, TypeOK
<1>3. IPlaces'
  BY <1>1, ZenonT(60) DEF Sets, IPlaces, Listening, Pipe
<1>4. ICommands'
  BY <1>1, InCommands DEF Sets, ICommands, Pipe
<1>5. IKind'
  BY DEF Sets, IKind
<1>6. IFact'
  BY <1>1 DEF Sets, IFact, Waiting
<1>7. NobodyForgotten'
  <2>1. \A u \in control.waiters : u # t
    BY Fields DEF NobodyForgotten, Waiting
  <2>2. \A c \in Tasks : At(c, "close", "draining") => At(c, "close", "draining")'
    BY <1>1 DEF Sets
  <2> QED
    BY <1>1, <2>1, <2>2, Fields DEF Sets, NobodyForgotten, Waiting
<1>8. ToldRight'
  BY <1>1 DEF Sets, ToldRight, Deserved, IPlaces
<1> QED
  BY <1>2, <1>3, <1>4, <1>5, <1>6, <1>7, <1>8

\* A signal is taken: only calls that met the taker may find less than they were
\* woken for.
LEMMA TakesSignalKeeps ==
  ASSUME IInv, NEW t \in Tasks, TakesSignal(t), call[t].op = "next",
         call[t].at \in {"resolved", "parked"}, t \notin control.waiters,
         call[t].by # "close" \/ call[t].met,
         UNCHANGED <<kind, status, users, uv, commands, loop>>
  PROVE  IInv'
<1> USE DEF IInv
<1>1. /\ call' \in [Tasks -> Call]
      /\ \A u \in Tasks : u # t => Stays(u) /\ (WillLook(u) => call'[u].met)
      /\ call'[t].op = "next" /\ call'[t].at = "leaving" /\ call'[t].by = call[t].by
      /\ call'[t].woken = call[t].woken /\ call'[t].closed = call[t].closed
      /\ call'[t].result = "signal" /\ call'[t].met = call[t].met
      /\ control' \in [exited : BOOLEAN, closed : BOOLEAN, waiters : SUBSET Tasks,
                        pending : SUBSET Signals, busy : SUBSET Exclusive]
      /\ control'.exited = control.exited /\ control'.closed = control.closed
      /\ control'.waiters = control.waiters
      /\ control'.pending \subseteq control.pending
  BY TakesSignalSets
<1>2. Pipe' = Pipe /\ kind = "signals"
  BY DEF Pipe, IPlaces
<1>3. \A u \in Tasks : Listening(u)' = Listening(u)
  BY <1>1 DEF Listening, Stays
<1>4. TypeOK'
  BY <1>1 DEF TypeOK
<1>5. IPlaces'
  BY <1>1, <1>2, <1>3 DEF IPlaces, Stays, Listening
<1>6. ICommands'
  <2>1. \A i \in 1..Len(commands) : commands[i] \in Tasks /\ (~Pipe => commands[i] # t)
    BY InCommands DEF ICommands
  <2> QED
    BY <1>1, <1>2, <2>1 DEF ICommands, Stays
<1>7. IKind'
  BY <1>1, <1>2 DEF IKind
<1>8. \A u \in Tasks : Waiting(u)' => u # t /\ Waiting(u) /\ Stays(u)
  BY <1>1 DEF Waiting, Stays
<1>9. IFact'
  <2> SUFFICES ASSUME NEW u \in Tasks, Waiting(u)'
               PROVE  (/\ call[u].by = "fact" => ~call[u].closed
                       /\ call[u].by = "close" /\ call[u].woken /\ kind = "process" =>
                            call[u].closed
                       /\ kind = "signals" /\ ~call[u].met =>
                            /\ call[u].by = "fact" => control.pending # {}
                            /\ call[u].by = "close" => control.pending = {})'
    BY DEF IFact
  <2>1. u # t /\ Waiting(u) /\ Stays(u)
    BY <1>8
  <2>2. ~call'[u].met => ~WillLook(u)
    BY <1>1, <2>1
  <2>3. call[u].op = "next"
    BY <1>2, <2>1 DEF IPlaces, Waiting
  <2>4. ~call'[u].met => call[u].by \notin {"fact", "close"}
    BY <2>1, <2>2, <2>3 DEF WillLook, Waiting
  <2> QED
    BY <1>2, <2>1, <2>4 DEF IFact, Stays
<1>10. NobodyForgotten'
  <2>1. \A u \in control.waiters : u \in Tasks /\ u # t /\ Stays(u)
    BY <1>1, Fields
  <2>2. \A c \in Tasks : At(c, "close", "draining") => At(c, "close", "draining")'
    BY <1>1 DEF At, Stays
  <2>3. ASSUME NEW u \in control'.waiters
        PROVE  (/\ Waiting(u) /\ call[u].by = "none"
                /\ ~control.exited /\ ~control.closed /\ control.pending = {})'
    BY <1>1, <2>1 DEF NobodyForgotten, Waiting, Stays
  <2>4. ASSUME NEW u \in Tasks, Waiting(u)', ~call'[u].woken
        PROVE  (/\ call[u].by = "none" => u \in control.waiters
                /\ call[u].by = "fact" => loop.at = "waking"
                /\ call[u].by = "close" => \E c \in Tasks : At(c, "close", "draining"))'
    BY <1>1, <1>8, <2>2, <2>4 DEF NobodyForgotten, Stays
  <2> QED
    BY <2>3, <2>4 DEF NobodyForgotten
<1>11. ToldRight'
  <2>1. ASSUME NEW u \in Tasks, u # t PROVE Deserved(u)' = Deserved(u) /\ Stays(u)
    BY <1>1, <2>1 DEF Deserved, Stays
  <2>2. call[t].by # "none" => Deserved(t)' = "signal" \/ call'[t].met
    BY <1>1, <1>2, Fields DEF Deserved
  <2> QED
    BY <1>1, <2>1, <2>2 DEF ToldRight, Stays
<1> QED
  BY <1>4, <1>5, <1>6, <1>7, <1>9, <1>10, <1>11

\* A next that finds a signal takes it; nobody else was to find it.
LEMMA NextTakesKeeps ==
  ASSUME IInv, NEW t \in Tasks, NextTakes(t)
  PROVE  IInv'
<1> USE DEF IInv
<1>1. /\ call[t].op = "next" /\ call[t].at = "resolved" /\ control.waiters = {}
      /\ UNCHANGED <<kind, status, users, uv, commands, loop>>
  BY DEF NextTakes, At, ofTasks, capability
<1>2. TakesSignal(t)
  BY DEF NextTakes, TakesSignal
<1>3. call[t].by = "none"
  BY <1>1, Fields DEF IPlaces
<1> QED
  BY <1>1, <1>2, <1>3, TakesSignalKeeps

\* A wait goes on the list while there is nothing to report.
LEMMA WaitRegistersKeeps ==
  ASSUME IInv, NEW t \in Tasks, WaitRegisters(t)
  PROVE  IInv'
<1> USE DEF WaitRegisters, At, ofTasks, capability, IInv
<1>1. /\ Sets(t, call[t].op, "listed", call[t].by, call[t].woken, call[t].closed)
      /\ call'[t].result = call[t].result /\ call'[t].met = call[t].met
      /\ control'.exited = control.exited /\ control'.closed = control.closed
      /\ control'.waiters = control.waiters \cup {t}
      /\ control'.pending = control.pending
  BY MovesSets, ProcessSignalAssumption DEF Places, TypeOK
<1>2. TypeOK'
  BY <1>1 DEF Sets, TypeOK
<1>3. IPlaces'
  BY <1>1, ZenonT(60) DEF Sets, IPlaces, Listening, Pipe
<1>4. ICommands'
  BY <1>1, InCommands, ZenonT(60) DEF Sets, ICommands, Pipe
<1>5. IKind'
  BY <1>1, Fields DEF Sets, IKind, Pipe, IPlaces
<1>6. IFact'
  BY <1>1, Fields DEF Sets, IFact, Waiting, IPlaces
<1>7. NobodyForgotten'
  <2>1. call[t].by = "none" /\ control.pending = {} /\ t \notin control.waiters
    BY Fields DEF IPlaces, IKind, NobodyForgotten, Waiting
  <2>2. \A u \in Tasks : u # t => call'[u] = call[u]
    BY <1>1 DEF Sets
  <2>3. /\ call'[t].op = "wait" /\ call'[t].at = "listed" /\ call'[t].by = "none"
        /\ loop' = loop
    BY <1>1, <2>1 DEF Sets
  <2>4. ASSUME NEW u \in control'.waiters
        PROVE  (Waiting(u) /\ call[u].by = "none" /\ ~control.exited /\ ~control.closed
                 /\ control.pending = {})'
    BY <1>1, <2>1, <2>2, <2>3, Fields DEF NobodyForgotten, Waiting
  <2>5. ASSUME NEW u \in Tasks, Waiting(u)', ~call'[u].woken
        PROVE  (/\ call[u].by = "none" => u \in control.waiters
                /\ call[u].by = "fact" => loop.at = "waking"
                /\ call[u].by = "close" => \E c \in Tasks : At(c, "close", "draining"))'
    BY <1>1, <2>2, <2>3, <2>5 DEF NobodyForgotten, Waiting
  <2> QED
    BY <2>4, <2>5 DEF NobodyForgotten
<1>8. ToldRight'
  BY DEF Sets, ToldRight, Deserved
<1> QED
  BY <1>2, <1>3, <1>4, <1>5, <1>6, <1>7, <1>8

\* So does the only next.
LEMMA NextRegistersKeeps ==
  ASSUME IInv, NEW t \in Tasks, NextRegisters(t)
  PROVE  IInv'
<1> USE DEF NextRegisters, At, ofTasks, capability, IInv
<1>1. /\ Sets(t, call[t].op, "listed", call[t].by, call[t].woken, call[t].closed)
      /\ call'[t].result = call[t].result /\ call'[t].met = call[t].met
      /\ control'.exited = control.exited /\ control'.closed = control.closed
      /\ control'.waiters = {t}
      /\ control'.pending = control.pending
  BY MovesSets, ProcessSignalAssumption DEF Places, TypeOK
<1>2. TypeOK'
  BY <1>1 DEF Sets, TypeOK
<1>3. IPlaces'
  BY <1>1, ZenonT(60) DEF Sets, IPlaces, Listening, Pipe
<1>4. ICommands'
  <2>1. \A i \in 1..Len(commands) : commands[i] \in Tasks /\ (~Pipe => commands[i] # t)
    BY InCommands DEF ICommands
  <2>2. Pipe' = Pipe /\ uv' = uv
    BY DEF Pipe
  <2>3. \A i \in 1..Len(commands) :
          ~Pipe => call'[commands[i]] = call[commands[i]] /\ commands'[i] = commands[i]
    BY <1>1, <2>1 DEF Sets
  <2> QED
    BY <1>1, <2>1, <2>2, <2>3 DEF Sets, ICommands
<1>5. IKind'
  BY <1>1, Fields DEF Sets, IKind, Pipe, IPlaces
<1>6. IFact'
  BY <1>1, Fields DEF Sets, IFact, Waiting, IPlaces
<1>7. NobodyForgotten'
  BY <1>1 DEF Sets, NobodyForgotten, Waiting, IPlaces, IKind
<1>8. ToldRight'
  BY DEF Sets, ToldRight, Deserved
<1> QED
  BY <1>2, <1>3, <1>4, <1>5, <1>6, <1>7, <1>8

\* Giving the lease back does not let the block go.
LEMMA ParksKeeps ==
  ASSUME IInv, NEW t \in Tasks, Parks(t)
  PROVE  IInv'
<1> USE DEF Parks, Registry!Leave, At, ofTasks, capability, IInv
<1>1. /\ Sets(t, call[t].op, "parked", call[t].by, call[t].woken, call[t].closed)
      /\ call'[t].result = call[t].result /\ call'[t].met = call[t].met
      /\ status' = status
      /\ users' \in [{Block} -> SUBSET (Tasks \cup {Teardown})]
      /\ Teardown \in users[Block] => Teardown \in users'[Block]
  BY MovesSets, ProcessSignalAssumption DEF Places, TypeOK
<1>2. TypeOK'
  BY <1>1 DEF Sets, TypeOK
<1>3. IPlaces'
  BY <1>1, Fields, ZenonT(60) DEF Sets, IPlaces, Listening, Pipe
<1>4. ICommands'
  BY <1>1, InCommands, ZenonT(60) DEF Sets, ICommands, Pipe
<1>5. IKind'
  BY DEF Sets, IKind, Pipe
<1>6. IFact'
  BY DEF Sets, IFact, Waiting
<1>7. NobodyForgotten'
  BY DEF Sets, NobodyForgotten, Waiting
<1>8. ToldRight'
  BY DEF Sets, ToldRight, Deserved
<1> QED
  BY <1>2, <1>3, <1>4, <1>5, <1>6, <1>7, <1>8

\* The woken wait finds the exit, or the mark of the close.
LEMMA WaitResumesKeeps ==
  ASSUME IInv, NEW t \in Tasks, WaitResumes(t)
  PROVE  IInv'
<1> USE DEF WaitResumes, At, ofTasks, capability, IInv
<1>1. /\ Sets(t, call[t].op, "leaving", call[t].by, call[t].woken, call[t].closed)
      /\ call'[t].result = (IF call[t].closed THEN "closed"
                            ELSE IF status[Block] = "freed" THEN "undefined" ELSE "exited")
  BY EndsSets DEF Results
<1>2. TypeOK'
  BY <1>1 DEF Sets, TypeOK
<1>3. IPlaces'
  BY <1>1, ZenonT(60) DEF Sets, IPlaces, Listening, Pipe
<1>4. ICommands'
  BY <1>1, InCommands DEF Sets, ICommands, Pipe
<1>5. IKind'
  BY DEF Sets, IKind, Pipe
<1>6. IFact'
  BY <1>1 DEF Sets, IFact, Waiting
<1>7. NobodyForgotten'
  <2>1. call[t].by # "none"
    BY DEF IPlaces, Listening
  <2>2. \A u \in control.waiters : u # t
    BY <2>1, Fields DEF NobodyForgotten
  <2>3. \A c \in Tasks : At(c, "close", "draining") => At(c, "close", "draining")'
    BY <1>1 DEF Sets
  <2> QED
    BY <1>1, <2>2, <2>3, Fields DEF Sets, NobodyForgotten, Waiting
<1>8. ToldRight'
  <2>1. kind = "process" /\ Waiting(t) /\ call[t].by # "none"
    BY DEF IPlaces, Listening, Waiting
  <2>2. call[t].by = "close" => call'[t].result = "closed"
    BY <1>1, <2>1 DEF IFact
  <2>3. call[t].by = "fact" =>
          \/ call'[t].result = "exited"
          \/ call'[t].result = "undefined" /\ status[Block] = "freed"
    BY <1>1, <2>1 DEF IFact
  <2> QED
    BY <1>1, <2>1, <2>2, <2>3, Fields DEF Sets, ToldRight, Deserved
<1> QED
  BY <1>2, <1>3, <1>4, <1>5, <1>6, <1>7, <1>8

\* The woken next finds its signal, or what the close left.
LEMMA NextResumesKeeps ==
  ASSUME IInv, NEW t \in Tasks, NextResumes(t)
  PROVE  IInv'
<1> USE DEF At, ofTasks, capability, IInv
<1>1. /\ kind = "signals" /\ Waiting(t) /\ call[t].by # "none"
      /\ call[t].op = "next" /\ call[t].at = "parked"
      /\ UNCHANGED <<kind, status, users, uv, commands, loop>>
  BY DEF NextResumes, IPlaces, Listening, Waiting
<1>2. CASE TakesSignal(t) /\ control.pending # {}
  <2>1. call[t].by = "close" => call[t].met
    BY <1>1, <1>2 DEF IFact
  <2>2. t \notin control.waiters
    BY <1>1 DEF NobodyForgotten
  <2> QED
    BY <1>1, <1>2, <2>1, <2>2, TakesSignalKeeps
<1>3. ASSUME NEW r \in Results, Ends(t, r), control' = control,
             \/ r = "undefined" /\ status[Block] = "freed"
             \/ r = "end" /\ control.pending = {}
      PROVE  IInv'
  <2>1. /\ Sets(t, call[t].op, "leaving", call[t].by, call[t].woken, call[t].closed)
        /\ call'[t].result = r
    BY <1>3, EndsSets
  <2>2. TypeOK'
    BY <1>1, <1>3, <2>1 DEF Sets, TypeOK
  <2>3. IPlaces'
    BY <1>1, <2>1, ZenonT(60) DEF Sets, IPlaces, Listening, Pipe
  <2>4. ICommands'
    BY <1>1, <2>1, InCommands DEF Sets, ICommands, Pipe
  <2>5. IKind'
    BY <1>1, <1>3 DEF IKind, Pipe
  <2>6. IFact'
    BY <1>1, <1>3, <2>1 DEF Sets, IFact, Waiting
  <2>7. NobodyForgotten'
    <3>1. \A u \in control.waiters : u # t
      BY <1>1 DEF NobodyForgotten
    <3>2. \A c \in Tasks : At(c, "close", "draining") => At(c, "close", "draining")'
      BY <1>1, <2>1 DEF Sets
    <3> QED
      BY <1>1, <1>3, <2>1, <3>1, <3>2, Fields DEF Sets, NobodyForgotten, Waiting
  <2>8. ToldRight'
    <3>1. call'[t].met = call[t].met
      BY <1>3, EndsSets
    <3>2. r = "end" => call[t].by = "close" \/ call[t].met
      BY <1>1, <1>3, Fields DEF IFact
    <3> QED
      BY <1>1, <1>3, <2>1, <3>1, <3>2 DEF Sets, ToldRight, Deserved
  <2> QED
    BY <2>2, <2>3, <2>4, <2>5, <2>6, <2>7, <2>8
<1>4. \/ Ends(t, "undefined") /\ control' = control /\ status[Block] = "freed"
      \/ Ends(t, "end") /\ control' = control /\ control.pending = {}
      \/ TakesSignal(t) /\ control.pending # {}
  BY DEF NextResumes, TakesSignal
<1>5. "undefined" \in Results /\ "end" \in Results
  BY DEF Results
<1> QED
  BY <1>2, <1>3, <1>4, <1>5

\* A call begins where the kind of the block allows it.
LEMMA EnterKeeps ==
  ASSUME IInv, NEW t \in Tasks, NEW op \in Makes[t],
      Enter(t, op)
  PROVE  IInv'
<1> USE DEF Enter, Registry!Use, Offered, At, ofTasks, capability, IInv
<1>1. Sets(t, op, "resolved", "none", FALSE, FALSE)
  BY NewSets, ProcessSignalAssumption, ZenonT(60) DEF Offered
<1>2. TypeOK'
  BY <1>1 DEF Sets, TypeOK
<1>3. IPlaces'
  <2>1. /\ op = "wait" => kind = "process"
        /\ op = "next" => kind = "signals"
        /\ op \in {"read", "write", "shutdown"} => Pipe
    BY DEF Pipe, TypeOK
  <2>2. kind' = kind /\ Pipe' = Pipe
    BY DEF Pipe
  <2>3. \A u \in Tasks : u # t => call'[u] = call[u]
    BY <1>1 DEF Sets
  <2>4. /\ call'[t].op = op /\ call'[t].at = "resolved" /\ call'[t].by = "none"
        /\ call'[t].woken = FALSE /\ call'[t].closed = FALSE
    BY <1>1 DEF Sets
  <2> QED
    BY <2>1, <2>2, <2>3, <2>4, ZenonT(60) DEF IPlaces, Listening
<1>4. ICommands'
  BY <1>1, InCommands, ZenonT(60) DEF Sets, ICommands, Pipe
<1>5. IKind'
  BY DEF Sets, IKind, Pipe
<1>6. IFact'
  BY <1>1, Fields, ZenonT(60) DEF Sets, IFact, Waiting
<1>7. NobodyForgotten'
  BY <1>1, Fields DEF Sets, NobodyForgotten, Waiting
<1>8. ToldRight'
  BY <1>1 DEF Sets, ToldRight, Deserved
<1> QED
  BY <1>2, <1>3, <1>4, <1>5, <1>6, <1>7, <1>8

\* A call ends.
LEMMA LeavesKeeps ==
  ASSUME IInv, NEW t \in Tasks, Leaves(t)
  PROVE  IInv'
<1> USE DEF Leaves, Registry!Leave, At, ofTasks, capability, IInv
<1>1. /\ Sets(t, "none", "idle", "none", FALSE, FALSE)
      /\ status' = status
      /\ users' \in [{Block} -> SUBSET (Tasks \cup {Teardown})]
      /\ Teardown \in users[Block] => Teardown \in users'[Block]
  <2>1. Sets(t, "none", "idle", "none", FALSE, FALSE)
    BY NewSets DEF NoCall
  <2>2. CASE t \in users[Block]
    <3>1. status' = status /\ users' = [users EXCEPT ![Block] = users[Block] \ {t}]
      BY <2>2
    <3> QED
      BY <2>1, <3>1, ProcessSignalAssumption DEF TypeOK
  <2>3. CASE t \notin users[Block]
    BY <2>1, <2>3 DEF TypeOK
  <2> QED
    BY <2>2, <2>3
<1>2. TypeOK'
  BY <1>1 DEF Sets, TypeOK
<1>3. IPlaces'
  BY <1>1 DEF Sets, IPlaces, Listening, Pipe
<1>4. ICommands'
  <2>1. \A i \in 1..Len(commands) : commands[i] \in Tasks /\ (~Pipe => commands[i] # t)
    BY InCommands DEF ICommands
  <2>2. Pipe' = Pipe /\ uv' = uv
    BY DEF Pipe
  <2>3. \A i \in 1..Len(commands) :
          ~Pipe => call'[commands[i]] = call[commands[i]] /\ commands'[i] = commands[i]
    BY <1>1, <2>1 DEF Sets
  <2> QED
    BY <2>1, <2>2, <2>3 DEF ICommands
<1>5. IKind'
  BY DEF Sets, IKind, Pipe
<1>6. IFact'
  BY <1>1 DEF Sets, IFact, Waiting
<1>7. NobodyForgotten'
  BY <1>1 DEF Sets, NobodyForgotten, Waiting
<1>8. ToldRight'
  BY <1>1 DEF Sets, ToldRight, Deserved
<1> QED
  BY <1>2, <1>3, <1>4, <1>5, <1>6, <1>7, <1>8

\* terminate asks the loop.
LEMMA TerminateKeeps ==
  ASSUME IInv, NEW t \in Tasks, Terminate(t)
  PROVE  IInv'
<1> USE DEF Terminate, At, ofTasks, capability, IInv
<1>1. /\ Sets(t, call[t].op, "waiting", call[t].by, FALSE, call[t].closed)
      /\ call'[t].result = call[t].result
      /\ commands' \in Seq(Tasks) /\ Len(commands') = Len(commands) + 1
      /\ commands'[Len(commands) + 1] = t
      /\ \A i \in 1..Len(commands) : commands'[i] = commands[i]
  BY SubmitSets
<1>2. TypeOK'
  BY <1>1 DEF Sets, TypeOK
<1>3. IPlaces'
  <2>1. ~Listening(t) /\ call[t].by = "none"
    BY DEF IPlaces, Listening
  <2>2. kind' = kind /\ Pipe' = Pipe
    BY DEF Pipe
  <2>3. \A u \in Tasks : u # t => call'[u] = call[u]
    BY <1>1 DEF Sets
  <2>4. call'[t].op = call[t].op /\ call'[t].at = "waiting" /\ call'[t].by = "none"
    BY <1>1, <2>1 DEF Sets
  <2> QED
    BY <2>1, <2>2, <2>3, <2>4 DEF IPlaces, Listening
<1>4. ICommands'
  <2>1. \A i \in 1..Len(commands) : commands[i] \in Tasks /\ (~Pipe => commands[i] # t)
    BY InCommands DEF ICommands
  <2>2. Pipe' = Pipe /\ uv' = uv
    BY DEF Pipe
  <2>3. \A i \in 1..Len(commands) :
          ~Pipe => call'[commands[i]] = call[commands[i]] /\ commands'[i] = commands[i]
    BY <1>1, <2>1 DEF Sets
  <2> QED
    BY <1>1, <2>1, <2>2, <2>3 DEF Sets, ICommands
<1>5. IKind' /\ IFact' /\ NobodyForgotten' /\ ToldRight'
  BY <1>1, RequestStep DEF Sets, IPlaces, Listening
<1> QED
  BY <1>2, <1>3, <1>4, <1>5

\* A second call of the kind on a pipe is refused.
LEMMA PipeRefusesKeeps ==
  ASSUME IInv, NEW t \in Tasks, PipeRefuses(t)
  PROVE  IInv'
<1> USE DEF Exclusive, ofTasks, capability, IInv
<1>1. PICK r \in Results :
        /\ Ends(t, r) /\ call[t].op \in Exclusive /\ call[t].at = "resolved"
        /\ UNCHANGED <<kind, status, users, control, uv, commands, loop>>
  BY DEF PipeRefuses, Results
<1>2. Sets(t, call[t].op, "leaving", call[t].by, call[t].woken, call[t].closed)
  BY <1>1, EndsSets
<1>3. TypeOK'
  BY <1>1, <1>2 DEF Sets, TypeOK
<1>4. IPlaces'
  BY <1>1, <1>2 DEF Sets, IPlaces, Listening, Pipe
<1>5. ICommands'
  BY <1>1, <1>2, InCommands DEF Sets, ICommands, Pipe
<1>6. IKind' /\ IFact' /\ NobodyForgotten' /\ ToldRight'
  BY <1>1, <1>2, RequestStep DEF Sets, IPlaces, Listening
<1> QED
  BY <1>3, <1>4, <1>5, <1>6

\* Those that find the flag clear go on; they are told apart by nothing.
LEMMA PipePassesKeeps ==
  ASSUME IInv, NEW t \in Tasks, PipePasses(t)
  PROVE  IInv'
<1> USE DEF IInv
<1>1. /\ call[t].op \in Exclusive /\ call[t].at = "resolved"
      /\ UNCHANGED <<kind, status, users, control, uv, commands, loop>>
  BY DEF PipePasses, ofTasks, capability
<1>2. /\ call' \in [Tasks -> Call]
      /\ \A u \in Tasks : u # t => Stays(u)
      /\ call'[t].op = call[t].op /\ call'[t].at = "passed" /\ call'[t].by = call[t].by
      /\ call'[t].woken = call[t].woken /\ call'[t].closed = call[t].closed
  BY PassSets
<1>3. ~Listening(t) /\ call[t].by = "none" /\ Pipe /\ Pipe' = Pipe
  BY <1>1 DEF IPlaces, Listening, Exclusive, Pipe
<1>4. TypeOK'
  BY <1>1, <1>2 DEF TypeOK
<1>5. IPlaces'
  <2>1. \A u \in Tasks : Listening(u)' = Listening(u)
    BY <1>2 DEF Listening, Stays
  <2> QED
    BY <1>1, <1>2, <1>3, <2>1 DEF IPlaces, Stays
<1>6. ICommands'
  BY <1>1, <1>3 DEF ICommands
<1>7. IKind' /\ IFact' /\ NobodyForgotten' /\ ToldRight'
  BY <1>1, <1>2, <1>3, RequestStep DEF Listening, Exclusive
<1> QED
  BY <1>4, <1>5, <1>6, <1>7

\* Each of them sets the flag, and asks the loop if there is anything to do.
LEMMA PipeSubmitsKeeps ==
  ASSUME IInv, NEW t \in Tasks, PipeSubmits(t)
  PROVE  IInv'
<1> USE DEF IInv
<1>1. /\ call[t].at = "passed" /\ call[t].op \in Exclusive
      /\ control' = [control EXCEPT !.busy = control.busy \cup {call[t].op}]
      /\ UNCHANGED <<kind, status, users, uv, loop>>
  BY DEF PipeSubmits, ofTasks, capability, IPlaces
<1>2. /\ Sets(t, call[t].op, "waiting", call[t].by, call'[t].woken, call[t].closed)
      /\ commands' \in Seq(Tasks)
  <2>1. CASE Submit(t)
    BY <2>1, SubmitSets DEF Sets
  <2>2. CASE ~Submit(t)
    <3>1. call' = [call EXCEPT ![t].at = "waiting", ![t].woken = TRUE] /\ commands' = commands
      BY <2>2 DEF PipeSubmits
    <3> QED
      BY <3>1, BeginsWaiting DEF Sets, TypeOK
  <2> QED
    BY <2>1, <2>2
<1>3. /\ control'.exited = control.exited /\ control'.closed = control.closed
      /\ control'.waiters = control.waiters
      /\ control'.pending = control.pending
      /\ control' \in [exited : BOOLEAN, closed : BOOLEAN, waiters : SUBSET Tasks,
                       pending : SUBSET Signals, busy : SUBSET Exclusive]
  BY <1>1 DEF TypeOK
<1>4. ~Listening(t) /\ call[t].by = "none" /\ Pipe /\ Pipe' = Pipe
  BY <1>1 DEF IPlaces, Listening, Exclusive, Pipe
<1>5. TypeOK'
  BY <1>1, <1>2, <1>3 DEF Sets, TypeOK
<1>6. IPlaces'
  BY <1>1, <1>2, <1>4 DEF Sets, IPlaces, Listening
<1>7. ICommands'
  BY <1>1, <1>4 DEF ICommands
<1>8. IKind' /\ IFact' /\ NobodyForgotten' /\ ToldRight'
  BY <1>1, <1>2, <1>3, <1>4, RequestStep DEF Sets, Listening
<1> QED
  BY <1>5, <1>6, <1>7, <1>8

\* So does shutdown.
LEMMA ShutdownKeeps ==
  ASSUME IInv, NEW t \in Tasks, Shutdown(t)
  PROVE  IInv'
<1> USE DEF Shutdown, At, ofTasks, capability, IInv
<1>1. /\ Sets(t, call[t].op, "waiting", call[t].by, FALSE, call[t].closed)
      /\ call'[t].result = call[t].result
      /\ commands' \in Seq(Tasks) /\ Len(commands') = Len(commands) + 1
      /\ commands'[Len(commands) + 1] = t
      /\ \A i \in 1..Len(commands) : commands'[i] = commands[i]
  BY SubmitSets
<1>2. TypeOK'
  BY <1>1 DEF Sets, TypeOK
<1>3. IPlaces'
  BY <1>1, ZenonT(60) DEF Sets, IPlaces, Listening, Pipe
<1>4. ICommands'
  BY <1>1, Fields, InCommands DEF Sets, ICommands, Pipe, IPlaces
<1>5. IKind' /\ IFact' /\ NobodyForgotten' /\ ToldRight'
  BY <1>1, RequestStep DEF Sets, IPlaces, Listening
<1> QED
  BY <1>2, <1>3, <1>4, <1>5

\* A write asks for its next chunk.
LEMMA WriteGoesOnKeeps ==
  ASSUME IInv, NEW t \in Tasks, WriteGoesOn(t)
  PROVE  IInv'
<1> USE DEF WriteGoesOn, At, ofTasks, capability, IInv
<1>1. /\ Sets(t, call[t].op, "waiting", call[t].by, FALSE, call[t].closed)
      /\ call'[t].result = call[t].result
      /\ commands' \in Seq(Tasks) /\ Len(commands') = Len(commands) + 1
      /\ commands'[Len(commands) + 1] = t
      /\ \A i \in 1..Len(commands) : commands'[i] = commands[i]
  BY SubmitSets
<1>2. TypeOK'
  BY <1>1 DEF Sets, TypeOK
<1>3. IPlaces'
  BY <1>1, ZenonT(60) DEF Sets, IPlaces, Listening, Pipe
<1>4. ICommands'
  BY <1>1, Fields, InCommands DEF Sets, ICommands, Pipe, IPlaces
<1>5. IKind' /\ IFact' /\ NobodyForgotten' /\ ToldRight'
  BY <1>1, RequestStep DEF Sets, IPlaces, Listening
<1> QED
  BY <1>2, <1>3, <1>4, <1>5

\* An answered call clears its flag.
LEMMA RequestReturnsKeeps ==
  ASSUME IInv, NEW t \in Tasks, RequestReturns(t)
  PROVE  IInv'
<1> USE DEF RequestReturns, At, ofTasks, capability, IInv
<1>1. /\ Sets(t, call[t].op, "leaving", call[t].by, call[t].woken, call[t].closed)
      /\ call'[t].result = call[t].result
      /\ control'.exited = control.exited /\ control'.closed = control.closed
      /\ control'.waiters = control.waiters
      /\ control'.pending = control.pending
  BY MovesSets, ProcessSignalAssumption DEF Places, TypeOK
<1>2. TypeOK'
  BY <1>1 DEF Sets, TypeOK
<1>3. IPlaces'
  BY <1>1, ZenonT(60) DEF Sets, IPlaces, Listening, Pipe
<1>4. ICommands'
  BY <1>1, InCommands DEF Sets, ICommands, Pipe
<1>5. IKind' /\ IFact' /\ NobodyForgotten' /\ ToldRight'
  BY <1>1, RequestStep DEF Sets, IPlaces, Listening
<1> QED
  BY <1>2, <1>3, <1>4, <1>5

\* The close keeps the block for its teardown.
LEMMA CloseBeginsKeeps ==
  ASSUME IInv, NEW t \in Tasks, CloseBegins(t)
  PROVE  IInv'
<1> USE DEF IInv
<1>1. /\ call[t].at = "idle" /\ status[Block] = "open"
      /\ status' \in [{Block} -> {"unused", "open", "closing", "freed"}]
      /\ users' \in [{Block} -> SUBSET (Tasks \cup {Teardown})]
      /\ UNCHANGED <<kind, control, uv, commands, loop>>
  BY DEF CloseBegins, Registry!Close, capability, TypeOK
<1>2. /\ call' \in [Tasks -> Call]
      /\ \A u \in Tasks : u # t => Stays(u)
      /\ call'[t].op = "close" /\ call'[t].at = "resolved" /\ call'[t].by = "none"
      /\ call'[t].woken = FALSE /\ call'[t].closed = FALSE
  BY CloseSets
<1>3. ~Listening(t) /\ Pipe' = Pipe
  BY <1>1 DEF IPlaces, Pipe
<1>4. TypeOK'
  BY <1>1, <1>2 DEF TypeOK
<1>5. IPlaces'
  <2>1. \A u \in Tasks : Listening(u)' = Listening(u)
    BY <1>2, <1>3 DEF Listening, Stays
  <2> QED
    BY <1>1, <1>2, <1>3, <2>1 DEF IPlaces, Stays, Exclusive
<1>6. ICommands'
  <2>1. \A i \in 1..Len(commands) : commands[i] \in Tasks /\ (~Pipe => commands[i] # t)
    BY <1>1, InCommands DEF ICommands
  <2> QED
    BY <1>1, <1>2, <1>3, <2>1 DEF ICommands, Stays
<1>7. IKind' /\ IFact' /\ NobodyForgotten' /\ ToldRight'
  BY <1>1, <1>2, <1>3, RequestStep
<1> QED
  BY <1>4, <1>5, <1>6, <1>7

\* The close of a pipe asks the loop at once.
LEMMA PipeCloseSubmitsKeeps ==
  ASSUME IInv, NEW t \in Tasks, PipeCloseSubmits(t)
  PROVE  IInv'
<1> USE DEF PipeCloseSubmits, At, ofTasks, capability, IInv
<1>1. /\ Sets(t, call[t].op, "waiting", call[t].by, FALSE, call[t].closed)
      /\ call'[t].result = call[t].result
      /\ commands' \in Seq(Tasks) /\ Len(commands') = Len(commands) + 1
      /\ commands'[Len(commands) + 1] = t
      /\ \A i \in 1..Len(commands) : commands'[i] = commands[i]
  BY SubmitSets
<1>2. TypeOK'
  BY <1>1 DEF Sets, TypeOK
<1>3. IPlaces'
  BY <1>1, ZenonT(60) DEF Sets, IPlaces, Listening, Pipe
<1>4. ICommands'
  BY DEF Sets, ICommands, Pipe
<1>5. IKind' /\ IFact' /\ NobodyForgotten' /\ ToldRight'
  BY <1>1, RequestStep DEF Sets, IPlaces, Listening
<1> QED
  BY <1>2, <1>3, <1>4, <1>5

\* The close returns.
LEMMA CloseReturnsKeeps ==
  ASSUME IInv, NEW t \in Tasks, CloseReturns(t)
  PROVE  IInv'
<1> USE DEF CloseReturns, Registry!Leave, At, ofTasks, capability, IInv
<1>1. /\ Sets(t, call[t].op, "leaving", call[t].by, call[t].woken, call[t].closed)
      /\ call'[t].result = "done"
      /\ status' = status
      /\ users' \in [{Block} -> SUBSET (Tasks \cup {Teardown})]
      /\ ~Pipe => users' = users
  <2>1. Ends(t, "done") /\ "done" \in Results
    BY DEF Results
  <2>2. CASE Pipe
    <3>1. status' = status /\ users' = [users EXCEPT ![Block] = users[Block] \ {Teardown}]
      BY <2>2
    <3> QED
      BY <2>1, <2>2, <3>1, EndsSets DEF TypeOK
  <2>3. CASE ~Pipe
    BY <2>1, <2>3, EndsSets DEF TypeOK
  <2> QED
    BY <2>2, <2>3
<1>2. TypeOK'
  BY <1>1 DEF Sets, TypeOK
<1>3. IPlaces'
  BY <1>1, ZenonT(60) DEF Sets, IPlaces, Listening, Pipe
<1>4. ICommands'
  BY <1>1, InCommands DEF Sets, ICommands, Pipe
<1>5. IKind' /\ IFact' /\ NobodyForgotten' /\ ToldRight'
  BY <1>1, RequestStep DEF Sets, IPlaces, Listening
<1> QED
  BY <1>2, <1>3, <1>4, <1>5

\* The block becomes open.
LEMMA PublishKeeps ==
  ASSUME IInv, Publish
  PROVE  IInv'
<1> USE DEF Publish, Registry!Open, At, ofTasks, capability, IInv
<1>1. /\ call' = call /\ users' = users
      /\ status' \in [{Block} -> {"unused", "open", "closing", "freed"}]
      /\ status'[Block] = "open"
  BY DEF TypeOK
<1>2. TypeOK'
  BY DEF TypeOK
<1>3. IPlaces'
  BY DEF IPlaces, Listening, Pipe
<1>4. ICommands'
  BY DEF ICommands, Pipe
<1>5. IKind'
  BY DEF IKind, Pipe
<1>6. IFact'
  BY DEF IFact, Waiting
<1>7. NobodyForgotten'
  BY DEF NobodyForgotten, Waiting
<1>8. ToldRight'
  BY DEF ToldRight, Deserved
<1> QED
  BY <1>2, <1>3, <1>4, <1>5, <1>6, <1>7, <1>8

\* A block goes when nobody will look at it.
LEMMA RecycleKeeps ==
  ASSUME IInv, Recycle
  PROVE  IInv'
<1> USE DEF Recycle, Registry!Free, At, ofTasks, capability,
      IInv
<1>1. /\ call' = call /\ users' = users
      /\ status' \in [{Block} -> {"unused", "open", "closing", "freed"}]
      /\ status[Block] = "closing" /\ status'[Block] = "freed"
  BY DEF TypeOK
<1>2. TypeOK'
  BY DEF TypeOK
<1>3. IPlaces'
  BY DEF IPlaces, Listening, Pipe
<1>4. ICommands'
  BY DEF ICommands, Pipe
<1>5. IKind'
  BY DEF IKind, Pipe
<1>6. IFact'
  BY DEF IFact, Waiting
<1>7. NobodyForgotten'
  BY DEF NobodyForgotten, Waiting
<1>8. ToldRight'
  BY DEF ToldRight, Deserved
<1> QED
  BY <1>2, <1>3, <1>4, <1>5, <1>6, <1>7, <1>8

\* The exit takes every waiter off the list.
LEMMA ExitsKeeps ==
  ASSUME IInv, Exits
  PROVE  IInv'
<1> USE DEF Exits, Polling, At, ofTasks, capability, IInv
<1>1. /\ call' \in [Tasks -> Call]
      /\ \A u \in Tasks :
           /\ call'[u].op = call[u].op /\ call'[u].at = call[u].at
           /\ call'[u].woken = call[u].woken /\ call'[u].closed = call[u].closed
           /\ call'[u].result = call[u].result /\ call'[u].met = call[u].met
           /\ call'[u].by = IF u \in control.waiters THEN "fact" ELSE call[u].by
      /\ control'.exited = TRUE /\ control'.closed = control.closed
      /\ control'.waiters = {}
      /\ control'.pending = control.pending
      /\ loop' = [at |-> "waking", closed |-> control.closed]
  BY TakenSets, Fields DEF TypeOK
<1>2. TypeOK'
  <2>1. control' \in [exited : BOOLEAN, closed : BOOLEAN, waiters : SUBSET Tasks,
                     pending : SUBSET Signals, busy : SUBSET Exclusive]
    BY DEF TypeOK
  <2>2. loop' \in [at : {"polling", "waking"}, closed : BOOLEAN]
    BY Fields
  <2> QED
    BY <1>1, <2>1, <2>2 DEF TypeOK
<1>3. IPlaces'
  BY <1>1, Fields DEF IPlaces, Listening, Pipe, NobodyForgotten, Waiting
<1>4. ICommands'
  BY <1>1, InCommands DEF ICommands, Pipe
<1>5. IKind'
  BY DEF IKind
<1>6. IFact'
  BY <1>1, Fields DEF IFact, Waiting, IPlaces, NobodyForgotten
<1>7. NobodyForgotten'
  BY <1>1 DEF NobodyForgotten, Waiting
<1>8. ToldRight'
  BY <1>1 DEF ToldRight, Deserved, NobodyForgotten, Waiting
<1> QED
  BY <1>2, <1>3, <1>4, <1>5, <1>6, <1>7, <1>8

\* A signal marks the waiter, and those that were to look meet it.
LEMMA FiresSets ==
  ASSUME TypeOK, NEW s \in Signals, Fires(s)
  PROVE  /\ call' \in [Tasks -> Call]
         /\ \A u \in Tasks :
              /\ call'[u].op = call[u].op /\ call'[u].at = call[u].at
              /\ call'[u].woken = call[u].woken /\ call'[u].closed = call[u].closed
              /\ call'[u].result = call[u].result /\ call'[u].exited = call[u].exited
              /\ call'[u].by = IF u \in control.waiters THEN "fact" ELSE call[u].by
              /\ u \notin control.waiters => (call[u].met \/ WillLook(u) => call'[u].met)
              /\ u \in control.waiters => call'[u].met = call[u].met
<1>1. /\ call' = [u \in Tasks |-> call'[u]]
      /\ \A u \in Tasks : u \in control.waiters => call'[u] = [call[u] EXCEPT !.by = "fact"]
      /\ \A u \in Tasks : u \notin control.waiters =>
           call'[u] = [call[u] EXCEPT !.met = call[u].met \/ WillLook(u)]
  BY DEF Fires
<1>2. ASSUME NEW u \in Tasks, u \in control.waiters
      PROVE  /\ call'[u] \in Call
             /\ call'[u].op = call[u].op /\ call'[u].at = call[u].at
             /\ call'[u].woken = call[u].woken /\ call'[u].closed = call[u].closed
             /\ call'[u].result = call[u].result /\ call'[u].exited = call[u].exited
             /\ call'[u].by = "fact" /\ call'[u].met = call[u].met
  <2>1. call[u] \in Call /\ call'[u] = [call[u] EXCEPT !.by = "fact"]
    BY <1>1, <1>2 DEF TypeOK
  <2> QED
    BY <2>1 DEF Call
<1>3. ASSUME NEW u \in Tasks, u \notin control.waiters
      PROVE  call'[u] \in Call /\ Stays(u) /\ (WillLook(u) => call'[u].met)
  <2>1. PICK b : b = WillLook(u)
    OBVIOUS
  <2>2. b \in BOOLEAN
    BY <2>1 DEF WillLook
  <2>3. call'[u] = [call[u] EXCEPT !.met = call[u].met \/ b]
    BY <1>1, <1>3, <2>1
  <2> QED
    BY <2>1, <2>2, <2>3, MeetsSets
<1>4. call' \in [Tasks -> Call]
  <2>1. \A u \in Tasks : call'[u] \in Call
    BY <1>2, <1>3
  <2> QED
    BY <1>1, <2>1
<1> QED
  BY <1>2, <1>3, <1>4 DEF Stays

\* A signal takes the waiter off the list.
LEMMA FiresKeeps ==
  ASSUME IInv, NEW s \in Signals, Fires(s)
  PROVE  IInv'
<1> USE DEF ofTasks, capability, IInv
<1>1. /\ kind = "signals" /\ control' = [control EXCEPT !.pending = control.pending \cup {s},
                                                        !.waiters = {}]
      /\ loop' = [at |-> "waking", closed |-> FALSE]
      /\ UNCHANGED <<kind, status, users, uv, commands>>
  BY DEF Fires
<1>2. /\ call' \in [Tasks -> Call]
      /\ \A u \in Tasks :
           /\ call'[u].op = call[u].op /\ call'[u].at = call[u].at
           /\ call'[u].woken = call[u].woken /\ call'[u].closed = call[u].closed
           /\ call'[u].result = call[u].result
           /\ call'[u].by = IF u \in control.waiters THEN "fact" ELSE call[u].by
           /\ u \notin control.waiters => (call[u].met \/ WillLook(u) => call'[u].met)
  BY FiresSets
<1>3. /\ control' \in [exited : BOOLEAN, closed : BOOLEAN, waiters : SUBSET Tasks,
                        pending : SUBSET Signals, busy : SUBSET Exclusive]
      /\ control'.exited = control.exited /\ control'.closed = control.closed
      /\ control'.waiters = {} /\ control'.pending = control.pending \cup {s}
      /\ Pipe' = Pipe
  BY <1>1 DEF TypeOK, Pipe
<1>4. TypeOK'
  <2>1. loop' \in [at : {"polling", "waking"}, closed : BOOLEAN]
    BY <1>1
  <2> QED
    BY <1>1, <1>2, <1>3, <2>1 DEF TypeOK
<1>5. \A u \in control.waiters : u \in Tasks /\ Waiting(u) /\ call[u].by = "none"
  BY Fields DEF NobodyForgotten
<1>6. IPlaces'
  BY <1>1, <1>2, <1>3, <1>5, Fields DEF IPlaces, Listening, Waiting
<1>7. ICommands'
  BY <1>1, <1>2, <1>3, InCommands DEF ICommands
<1>8. IKind'
  BY <1>1, <1>3 DEF IKind
<1>9. IFact'
  <2> SUFFICES ASSUME NEW u \in Tasks, Waiting(u)'
               PROVE  (/\ call[u].by = "fact" => ~call[u].closed
                       /\ call[u].by = "close" /\ call[u].woken /\ kind = "process" =>
                            call[u].closed
                       /\ kind = "signals" /\ ~call[u].met =>
                            /\ call[u].by = "fact" => control.pending # {}
                            /\ call[u].by = "close" => control.pending = {})'
    BY DEF IFact
  <2>1. Waiting(u) /\ call[u].op = "next"
    BY <1>1, <1>2 DEF Waiting, IPlaces
  <2>2. CASE u \in control.waiters
    <3>1. ~call[u].closed
      BY <1>5, <2>2 DEF IPlaces, Listening, Waiting
    <3> QED
      BY <1>1, <1>2, <1>3, <2>2, <3>1
  <2>3. CASE u \notin control.waiters
    <3>1. ~call'[u].met => call[u].by # "close"
      BY <1>2, <2>1, <2>3 DEF WillLook, Waiting
    <3> QED
      BY <1>1, <1>2, <1>3, <2>1, <2>3, <3>1 DEF IFact
  <2> QED
    BY <2>2, <2>3
<1>10. NobodyForgotten'
  BY <1>1, <1>2, <1>3 DEF NobodyForgotten, Waiting, At
<1>11. ToldRight'
  BY <1>1, <1>2, <1>3, <1>5 DEF ToldRight, Deserved, Waiting
<1> QED
  BY <1>4, <1>6, <1>7, <1>8, <1>9, <1>10, <1>11

\* The callback wakes one that it took.
LEMMA LoopWakesKeeps ==
  ASSUME IInv, NEW u \in Tasks, LoopWakes(u)
  PROVE  IInv'
<1> USE DEF LoopWakes, At, ofTasks, capability, IInv
<1>1. /\ Sets(u, call[u].op, call[u].at, call[u].by, TRUE, call[u].closed)
      /\ call'[u].result = call[u].result /\ call'[u].met = call[u].met
  BY WakeSets
<1>2. TypeOK'
  BY <1>1 DEF Sets, TypeOK
<1>3. IPlaces'
  BY <1>1, ZenonT(60) DEF Sets, IPlaces, Listening, Pipe
<1>4. ICommands'
  BY <1>1, Fields, InCommands DEF Sets, ICommands, Pipe, IPlaces
<1>5. IKind'
  BY DEF Sets, IKind, Pipe
<1>6. IFact'
  BY DEF Sets, IFact, Waiting
<1>7. NobodyForgotten'
  BY DEF Sets, NobodyForgotten, Waiting
<1>8. ToldRight'
  BY DEF Sets, ToldRight, Deserved
<1> QED
  BY <1>2, <1>3, <1>4, <1>5, <1>6, <1>7, <1>8

\* The close wakes one that it took, with its mark.
LEMMA CloseWakesKeeps ==
  ASSUME IInv, NEW t \in Tasks, NEW u \in Tasks,
      CloseWakes(t, u)
  PROVE  IInv'
<1> USE DEF CloseWakes, At, ofTasks, capability, IInv
<1>1. /\ Sets(u, call[u].op, call[u].at, call[u].by, TRUE, (kind = "process"))
      /\ call'[u].result = call[u].result /\ call'[u].met = call[u].met
  BY MarkSets
<1>2. TypeOK'
  BY <1>1 DEF Sets, TypeOK
<1>3. IPlaces'
  BY <1>1, ZenonT(60) DEF Sets, IPlaces, Listening, Pipe
<1>4. ICommands'
  BY <1>1, Fields, InCommands DEF Sets, ICommands, Pipe, IPlaces
<1>5. IKind'
  BY DEF Sets, IKind, Pipe
<1>6. IFact'
  <2>1. call'[u].by = "close" /\ (kind = "process" => call'[u].closed)
    BY <1>1 DEF Sets
  <2>2. \A v \in Tasks : Waiting(v)' = Waiting(v) /\ call'[v].by = call[v].by
    BY <1>1 DEF Sets, Waiting
  <2>3. \A v \in Tasks : v # u => call'[v] = call[v]
    BY <1>1 DEF Sets
  <2>4. kind' = kind /\ control' = control
    OBVIOUS
  <2>5. ASSUME NEW v \in Tasks, Waiting(v)
        PROVE  (/\ call[v].by = "fact" => ~call[v].closed
                /\ call[v].by = "close" /\ call[v].woken /\ kind = "process" => call[v].closed)'
    BY <2>1, <2>3, <2>4, <2>5 DEF IFact
  <2>6. call'[u].met = call[u].met
    BY <1>1
  <2> QED
    BY <2>2, <2>3, <2>4, <2>5, <2>6 DEF IFact
<1>7. NobodyForgotten'
  BY <1>1, Fields DEF Sets, NobodyForgotten, Waiting
<1>8. ToldRight'
  BY <1>1 DEF Sets, ToldRight, Deserved
<1> QED
  BY <1>2, <1>3, <1>4, <1>5, <1>6, <1>7, <1>8

\* The close takes every waiter off the list.
LEMMA CloseTakesKeeps ==
  ASSUME IInv, NEW t \in Tasks, CloseTakes(t)
  PROVE  IInv'
<1> USE DEF IInv, ofTasks, capability
<1>1. /\ call[t].op = "close" /\ call[t].at = "resolved" /\ ~Pipe
      /\ control' = [control EXCEPT !.closed = TRUE, !.waiters = {}]
      /\ call' = [TakenOff(control.waiters, "close") EXCEPT
                    ![t].at = "draining", ![t].exited = control.exited]
      /\ UNCHANGED <<kind, status, users, uv, commands, loop>>
  BY DEF CloseTakes, At
<1>2. /\ t \notin control.waiters
      /\ \A u \in control.waiters : Waiting(u) /\ call[u].by = "none" /\ ~control.closed
  BY <1>1 DEF NobodyForgotten, Waiting
<1>3. /\ call' \in [Tasks -> Call]
      /\ \A u \in Tasks :
           /\ call'[u].op = call[u].op /\ call'[u].result = call[u].result
           /\ call'[u].met = call[u].met
           /\ call'[u].woken = call[u].woken /\ call'[u].closed = call[u].closed
           /\ call'[u].by = (IF u \in control.waiters THEN "close" ELSE call[u].by)
           /\ u # t => call'[u].at = call[u].at
      /\ call'[t].at = "draining"
  <2> DEFINE off == TakenOff(control.waiters, "close")
  <2>1. control.waiters \in SUBSET Tasks /\ control.exited \in BOOLEAN
    BY Fields
  <2>2. /\ off \in [Tasks -> Call]
        /\ \A u \in Tasks :
             /\ off[u].op = call[u].op /\ off[u].at = call[u].at
             /\ off[u].woken = call[u].woken /\ off[u].closed = call[u].closed
             /\ off[u].result = call[u].result /\ off[u].met = call[u].met
             /\ off[u].by = IF u \in control.waiters THEN "close" ELSE call[u].by
    BY <2>1, TakenSets
  <2>3. call' = [off EXCEPT ![t] = [off[t] EXCEPT !.at = "draining",
                                                   !.exited = control.exited]]
    BY <1>1, <2>2
  <2>4. off[t] \in Call
    BY <2>2
  <2> HIDE DEF off
  <2>5. LET c == [off[t] EXCEPT !.at = "draining", !.exited = control.exited] IN
          /\ c \in Call /\ c.at = "draining" /\ c.op = off[t].op /\ c.by = off[t].by
          /\ c.woken = off[t].woken /\ c.closed = off[t].closed /\ c.result = off[t].result
          /\ c.met = off[t].met
    BY <2>1, <2>4 DEF Call
  <2> QED
    BY <2>2, <2>3, <2>5
<1>4. /\ control'.exited = control.exited /\ control'.closed = TRUE
      /\ control'.waiters = {} /\ control'.pending = control.pending
      /\ Pipe' = Pipe
  BY <1>1 DEF TypeOK, Pipe
<1>5. TypeOK'
  <2>1. control' \in [exited : BOOLEAN, closed : BOOLEAN, waiters : SUBSET Tasks,
                     pending : SUBSET Signals, busy : SUBSET Exclusive]
    BY <1>1 DEF TypeOK
  <2> QED
    BY <1>1, <1>3, <2>1 DEF TypeOK
<1>6. \A u \in Tasks : Waiting(u)' = Waiting(u)
  BY <1>1, <1>3 DEF Waiting
<1>7. IPlaces'
  BY <1>1, <1>2, <1>3, <1>4, Fields DEF IPlaces, Listening, Waiting
<1>8. ICommands'
  <2>1. \A i \in 1..Len(commands) : commands[i] \in Tasks /\ commands[i] # t
    BY <1>1, InCommands DEF ICommands
  <2> QED
    BY <1>1, <1>3, <1>4, <2>1 DEF ICommands
<1>9. IKind'
  BY <1>1, <1>4 DEF IKind
<1>10. IFact'
  <2>1. SUFFICES ASSUME NEW u \in Tasks, Waiting(u)
                 PROVE  (/\ call[u].by = "fact" => ~call[u].closed
                         /\ call[u].by = "close" /\ call[u].woken /\ kind = "process" =>
                              call[u].closed
                         /\ kind = "signals" /\ ~call[u].met =>
                              /\ call[u].by = "fact" => control.pending # {}
                              /\ call[u].by = "close" => control.pending = {})'
    BY <1>6 DEF IFact
  <2>2. CASE u \in control.waiters
    <3>1. ~call[u].woken /\ control.pending = {}
      BY <2>1, <2>2 DEF IPlaces, Listening, NobodyForgotten, Waiting
    <3> QED
      BY <1>1, <1>3, <1>4, <2>1, <2>2, <3>1
  <2>3. CASE u \notin control.waiters
    BY <1>1, <1>3, <1>4, <2>1, <2>3 DEF IFact
  <2> QED
    BY <2>2, <2>3
<1>11. NobodyForgotten'
  <2>1. At(t, "close", "draining")'
    BY <1>1, <1>3 DEF At
  <2> QED
    BY <1>1, <1>3, <1>4, <1>6, <2>1, Fields DEF NobodyForgotten
<1>12. ToldRight'
  BY <1>1, <1>2, <1>3, <1>4 DEF ToldRight, Deserved, Waiting
<1> QED
  BY <1>5, <1>7, <1>8, <1>9, <1>10, <1>11, <1>12

\* The loop starts a command: at most its own call is answered.
LEMMA StartCommandKeeps ==
  ASSUME IInv, StartCommand
  PROVE  IInv'
<1> DEFINE t == Head(commands)
<1>1. /\ commands # << >> /\ commands' = Tail(commands)
      /\ UNCHANGED <<kind, status, users, control, loop>>
      /\ StartClose(t) \/ StartTerminate(t) \/ StartRead(t) \/ StartRequest(t)
  BY DEF StartCommand, ofTasks, capability
<1>2. t \in Tasks /\ (Pipe \/ call[t].at = "waiting") /\ commands' \in Seq(Tasks)
  BY <1>1, Starts
<1> HIDE DEF t
<1>3. /\ uv \in UV
      /\ uv.requests # {} => Pipe
      /\ uv.reading # None => Pipe
  BY DEF IInv, TypeOK, UV, ICommands
<1>4. ASSUME AnswerOnly, \A u \in Tasks : u # t => call'[u] = call[u], uv' \in UV,
             uv'.requests # {} => Pipe, uv'.reading # None => Pipe
      PROVE  IInv'
  <2>1. TypeOK'
    BY <1>1, <1>2, <1>4 DEF IInv, TypeOK, AnswerOnly, UV
  <2>2. ICommands'
    BY <1>1, <1>4, StartsCommands DEF t
  <2>3. IPlaces' /\ IKind' /\ IFact' /\ NobodyForgotten' /\ ToldRight'
    BY <1>1, <1>4, LoopStep
  <2> QED
    BY <2>1, <2>2, <2>3 DEF IInv
<1>5. CASE StartClose(t)
  <2>1. uv' \in UV /\ uv'.requests = uv.requests /\ uv'.reading = None
    <3>1. PICK data \in Tasks \cup {None} : NativeClose(data)
      BY <1>2, <1>3, <1>5 DEF StartClose, UV
    <3> QED
      BY <3>1, NativeCloseSets DEF IInv
  <2>2. AnswerOnly /\ \A u \in Tasks : u # t => call'[u] = call[u]
    <3>1. CASE Pipe
      BY <1>5, <3>1 DEF StartClose, AnswerOnly, IInv, TypeOK
    <3>2. CASE ~Pipe
      <4>1. Answer(t, "done") /\ "done" \in Results
        BY <1>5, <3>2 DEF StartClose, Results
      <4> QED
        BY <1>2, <4>1, AnswersOnly
    <3> QED
      BY <3>1, <3>2
  <2> QED
    BY <1>3, <1>4, <2>1, <2>2
<1>6. CASE StartTerminate(t)
  <2>1. PICK result \in Results : Answer(t, result)
    BY <1>6 DEF StartTerminate, Results
  <2>2. uv' = uv
    BY <1>6 DEF StartTerminate
  <2> QED
    BY <1>2, <1>3, <1>4, <2>1, <2>2, AnswersOnly
<1>7. CASE StartRead(t)
  <2>1. Pipe
    BY <1>2, <1>7 DEF StartRead, IInv, IPlaces
  <2>2. uv' \in UV
    BY <1>2, <1>3, <1>7 DEF StartRead, UV
  <2>3. AnswerOnly /\ \A u \in Tasks : u # t => call'[u] = call[u]
    <3>1. CASE call' = call
      BY <3>1 DEF AnswerOnly, IInv, TypeOK
    <3>2. CASE Answer(t, "failed")
      BY <1>2, <3>2, AnswersOnly DEF Results
    <3> QED
      BY <1>7, <3>1, <3>2 DEF StartRead
  <2> QED
    BY <1>4, <2>1, <2>2, <2>3
<1>8. CASE StartRequest(t)
  <2>1. Pipe
    BY <1>2, <1>8 DEF StartRequest, IInv, IPlaces
  <2>2. uv' \in UV
    BY <1>2, <1>3, <1>8 DEF StartRequest, UV
  <2>3. AnswerOnly /\ \A u \in Tasks : u # t => call'[u] = call[u]
    <3>1. CASE call' = call
      BY <3>1 DEF AnswerOnly, IInv, TypeOK
    <3>2. CASE Answer(t, "failed")
      BY <1>2, <3>2, AnswersOnly DEF Results
    <3> QED
      BY <1>8, <3>1, <3>2 DEF StartRequest
  <2> QED
    BY <1>4, <2>1, <2>2, <2>3
<1> QED
  BY <1>1, <1>5, <1>6, <1>7, <1>8

\* The callbacks of a pipe answer one call.
LEMMA PipeCallbackKeeps ==
  ASSUME IInv, Pipe, uv' \in UV, NEW t \in Tasks \cup {None}, NEW r \in Results,
         Answer(t, r) \/ UNCHANGED call, UNCHANGED <<kind, status, users, control, commands, loop>>
  PROVE  IInv'
<1>1. AnswerOnly
  BY AnswersOnly DEF AnswerOnly, IInv, TypeOK
<1>2. TypeOK'
  BY <1>1 DEF IInv, TypeOK, AnswerOnly, UV
<1>3. ICommands'
  BY DEF ICommands, Pipe
<1> QED
  BY <1>1, <1>2, <1>3, LoopStep DEF IInv

\* Data came.
LEMMA ReadDoneKeeps ==
  ASSUME IInv, ReadDone
  PROVE  IInv'
<1>1. Pipe /\ "done" \in Results
  BY DEF ReadDone, IInv, ICommands, Results
<1>2. uv' \in UV /\ uv.reading \in Tasks \cup {None}
  BY DEF ReadDone, IInv, TypeOK, UV
<1>3. Answer(uv.reading, "done") \/ UNCHANGED call
  BY DEF ReadDone, TellRecord
<1> QED
  BY <1>1, <1>2, <1>3, PipeCallbackKeeps DEF ReadDone, ofTasks, capability

\* A write or shutdown is over.
LEMMA RequestDoneKeeps ==
  ASSUME IInv, NEW t \in Tasks, RequestDone(t)
  PROVE  IInv'
<1>1. Pipe
  BY DEF RequestDone, IInv, ICommands
<1>2. uv' \in UV
  BY DEF RequestDone, IInv, TypeOK, UV
<1>3. PICK r \in Results : Answer(t, r)
  BY DEF RequestDone, Results
<1> QED
  BY <1>1, <1>2, <1>3, PipeCallbackKeeps DEF RequestDone, ofTasks, capability

\* The pipe's native handle is closed.
LEMMA PipeClosedKeeps ==
  ASSUME IInv, PipeClosed
  PROVE  IInv'
<1>1. Pipe /\ "done" \in Results
  BY DEF PipeClosed, Results
<1>2. uv' \in UV
  BY DEF PipeClosed, IInv, TypeOK, UV
<1>3. PICK t \in Tasks : Answer(t, "done") \/ UNCHANGED call
  BY DEF PipeClosed, TellRecord
<1> QED
  BY <1>1, <1>2, <1>3, PipeCallbackKeeps DEF PipeClosed, ofTasks, capability

\* A step of which the calls notice nothing.
LEMMA CallsStay ==
  ASSUME IInv, UNCHANGED <<kind, status, control, call>>,
         loop' = loop \/ Drained("fact")
  PROVE  IPlaces' /\ IKind' /\ IFact' /\ NobodyForgotten' /\ ToldRight'
<1>1. IPlaces'
  BY DEF IInv, IPlaces, Listening, Pipe
<1>2. IKind'
  BY DEF IInv, IKind, Pipe
<1>3. IFact'
  BY DEF IInv, IFact, Waiting
<1>4. NobodyForgotten'
  BY DEF IInv, NobodyForgotten, Waiting, At, Drained
<1>5. ToldRight'
  BY DEF IInv, ToldRight, Deserved
<1> QED
  BY <1>1, <1>2, <1>3, <1>4, <1>5

\* So is one of the others; the last lets the block go.
LEMMA NativeClosedKeeps ==
  ASSUME IInv, NEW h \in Signals \cup {Block}, NativeClosed(h)
  PROVE  IInv'
<1>1. /\ uv' = [uv EXCEPT !.closing = uv.closing \ {h}]
      /\ UNCHANGED <<kind, control, commands, loop, call>> /\ status' = status
  BY DEF NativeClosed, Registry!Leave, capability
<1>2. users' \in [{Block} -> SUBSET (Tasks \cup {Teardown})]
  <2>1. users' = users \/ users' = [users EXCEPT ![Block] = users[Block] \ {Teardown}]
    BY DEF NativeClosed, Registry!Leave, capability
  <2> QED
    BY <2>1, Fields DEF IInv
<1>3. uv \in UV /\ uv' \in UV /\ uv'.requests = uv.requests /\ uv'.reading = uv.reading
  BY <1>1 DEF IInv, TypeOK, UV
<1>4. TypeOK'
  BY <1>1, <1>2, <1>3 DEF IInv, TypeOK, UV
<1>5. IPlaces' /\ IKind' /\ IFact' /\ NobodyForgotten' /\ ToldRight'
  BY <1>1, CallsStay DEF IInv
<1>6. ICommands'
  BY <1>1, <1>3 DEF IInv, ICommands, Pipe
<1> QED
  BY <1>4, <1>5, <1>6 DEF IInv

\* The callback ends when it has woken all that it took.
LEMMA CallbackEndsKeeps ==
  ASSUME IInv, CallbackEnds
  PROVE  IInv'
<1>1. /\ loop' = [at |-> "polling", closed |-> FALSE] /\ Drained("fact")
      /\ UNCHANGED <<kind, status, users, control, commands, call>>
      /\ (NativeClose(uv.data) /\ loop.closed) \/ uv' = uv
  BY DEF CallbackEnds, ofTasks, capability
<1>2. /\ uv \in UV /\ uv' \in UV /\ uv'.requests = uv.requests
      /\ uv'.reading # None => uv.reading # None
      /\ ~loop.closed => uv' = uv
  <2>1. uv \in UV /\ uv.data \in Tasks \cup {None}
    BY DEF IInv, TypeOK, UV
  <2>2. CASE uv' = uv
    BY <2>1, <2>2
  <2>3. CASE NativeClose(uv.data) /\ loop.closed
    BY <2>1, <2>3, NativeCloseSets DEF IInv
  <2> QED
    BY <1>1, <2>2, <2>3
<1>3. TypeOK'
  BY <1>1, <1>2 DEF IInv, TypeOK, UV
<1>4. IPlaces' /\ IKind' /\ IFact' /\ NobodyForgotten' /\ ToldRight'
  BY <1>1, CallsStay DEF IInv
<1>5. ICommands'
  BY <1>1, <1>2 DEF IInv, ICommands, Pipe
<1> QED
  BY <1>3, <1>4, <1>5 DEF IInv

\* So does the close.
LEMMA CloseGoesOnKeeps ==
  ASSUME IInv, NEW t \in Tasks, CloseGoesOn(t)
  PROVE  IInv'
<1>1. /\ call[t].op = "close" /\ call[t].at = "draining" /\ Drained("close")
      /\ UNCHANGED <<kind, status, users, control, uv, loop>>
      /\ \/ Ends(t, "done") /\ commands' = commands
         \/ Submit(t)
  BY DEF CloseGoesOn, At, ofTasks, capability
<1>2. /\ call' \in [Tasks -> Call]
      /\ \A u \in Tasks : u # t => call'[u] = call[u]
      /\ call'[t].op = "close" /\ call'[t].at \in {"waiting", "leaving"}
      /\ call'[t].by = call[t].by
      /\ commands' = commands \/ (call'[t].at = "waiting" /\ ~call'[t].woken)
      /\ commands' \in Seq(Tasks) /\ Len(commands) \in Nat
      /\ \/ commands' = commands
         \/ /\ Len(commands') = Len(commands) + 1 /\ commands'[Len(commands) + 1] = t
            /\ \A i \in 1..Len(commands) : commands'[i] = commands[i]
  <2>1. CASE Ends(t, "done") /\ commands' = commands
    <3>1. "done" \in Results /\ commands \in Seq(Tasks) /\ TypeOK
      BY DEF Results, IInv, TypeOK
    <3>2. Sets(t, call[t].op, "leaving", call[t].by, call[t].woken, call[t].closed)
      BY <2>1, <3>1, EndsSets
    <3> QED
      BY <1>1, <2>1, <3>1, <3>2 DEF Sets
  <2>2. CASE Submit(t)
    <3>1. commands \in Seq(Tasks) /\ TypeOK
      BY DEF IInv, TypeOK
    <3>2. /\ Sets(t, call[t].op, "waiting", call[t].by, FALSE, call[t].closed)
          /\ commands' \in Seq(Tasks) /\ Len(commands') = Len(commands) + 1
          /\ commands'[Len(commands) + 1] = t
          /\ \A i \in 1..Len(commands) : commands'[i] = commands[i]
      BY <2>2, <3>1, SubmitSets
    <3> QED
      BY <1>1, <3>1, <3>2 DEF Sets
  <2> QED
    BY <1>1, <2>1, <2>2
<1>3. ~Listening(t) /\ call[t].by = "none"
  BY <1>1 DEF IInv, IPlaces, Listening
<1>4. Pipe' = Pipe
  BY <1>1 DEF Pipe
<1>5. TypeOK'
  BY <1>1, <1>2 DEF IInv, TypeOK
<1>6. IPlaces'
  BY <1>1, <1>2, <1>3, <1>4 DEF IInv, IPlaces, Listening
<1>7. ICommands'
  <2>1. \A i \in 1..Len(commands) : commands[i] \in Tasks /\ (~Pipe => commands[i] # t)
    BY <1>1, InCommands DEF IInv, ICommands
  <2> QED
    BY <1>1, <1>2, <1>4, <2>1 DEF IInv, ICommands
<1>8. IKind' /\ IFact' /\ NobodyForgotten' /\ ToldRight'
  BY <1>1, <1>2, <1>3, RequestStep
<1> QED
  BY <1>5, <1>6, <1>7, <1>8 DEF IInv

\* An empty queue.
LEMMA NoCommands ==
  ASSUME commands = << >>
  PROVE  commands \in Seq(Tasks) /\ \A i \in 1..Len(commands) : FALSE
<1>1. << >> \in Seq(Tasks) /\ Len(<< >>) = 0
  OBVIOUS
<1> QED
  BY <1>1

\* The block is reserved and nobody has called.
LEMMA InitHolds == Init => IInv
<1> SUFFICES ASSUME Init PROVE IInv
  OBVIOUS
<1> USE DEF Init, Registry!Init
<1>1. TypeOK
  <2>1. NoCall \in Call
    BY DEF NoCall, Call
  <2>2. call \in [Tasks -> Call]
    BY <2>1
  <2>3. status \in [{Block} -> {"unused", "open", "closing", "freed"}]
    OBVIOUS
  <2>4. users \in [{Block} -> SUBSET (Tasks \cup {Teardown})]
    OBVIOUS
  <2>5. control \in [exited : BOOLEAN, closed : BOOLEAN, waiters : SUBSET Tasks,
                    pending : SUBSET Signals, busy : SUBSET Exclusive]
    OBVIOUS
  <2>6. uv \in UV
    BY DEF UV
  <2>7. commands \in Seq(Tasks)
    BY NoCommands
  <2>8. loop \in [at : {"polling", "waking"}, closed : BOOLEAN]
    OBVIOUS
  <2> QED
    BY <2>2, <2>3, <2>4, <2>5, <2>6, <2>7, <2>8 DEF TypeOK, UV
<1>2. \A t \in Tasks : call[t] = NoCall
  OBVIOUS
<1>3. IPlaces /\ IKind /\ IFact
  BY <1>2 DEF NoCall, IPlaces, Listening, IKind, IFact, Waiting
<1>4. NobodyForgotten /\ ToldRight
  BY <1>2 DEF NoCall, NobodyForgotten, ToldRight, Waiting
<1>5. ICommands
  <2>1. commands = << >> /\ uv.requests = {} /\ uv.reading = None
    OBVIOUS
  <2>2. \A i \in 1..Len(commands) : FALSE
    BY NoCommands
  <2> QED
    BY <2>1, <2>2 DEF ICommands
<1> QED
  BY <1>1, <1>3, <1>4, <1>5 DEF IInv

\* Every step keeps the invariant.
LEMMA StepKeeps == IInv /\ [Next]_vars => IInv'
<1> SUFFICES ASSUME IInv, [Next]_vars PROVE IInv'
  OBVIOUS
<1>1. CASE UNCHANGED vars
  <2>1. UNCHANGED <<kind, status, users, control, uv, commands, loop, call>>
    BY <1>1 DEF vars, capability
  <2>2. TypeOK'
    BY <2>1 DEF IInv, TypeOK
  <2>3. ICommands'
    BY <2>1 DEF IInv, ICommands, Pipe
  <2> QED
    BY <2>1, <2>2, <2>3, CallsStay DEF IInv
<1>2. CASE Publish \/ Recycle \/ Exits \/ ReadDone \/ \E s \in Signals : Fires(s)
  BY <1>2, PublishKeeps, RecycleKeeps, ExitsKeeps, ReadDoneKeeps, FiresKeeps
<1>3. CASE CallbackGoesOn
  BY <1>3, CallbackEndsKeeps, LoopWakesKeeps DEF CallbackGoesOn
<1>4. CASE LoopSettles
  BY <1>4, StartCommandKeeps, PipeClosedKeeps, NativeClosedKeeps, RequestDoneKeeps
     DEF LoopSettles
<1>5. ASSUME NEW t \in Tasks,
             \/ \E op \in Makes[t] : Enter(t, op)
             \/ CloseBegins(t) \/ TaskGoesOn(t) \/ WriteGoesOn(t) \/ RequestDone(t)
      PROVE  IInv'
  <2>1. CASE \E op \in Makes[t] : Enter(t, op)
    BY <2>1, EnterKeeps
  <2>2. CASE CloseBegins(t) \/ WriteGoesOn(t) \/ RequestDone(t)
    BY <2>2, CloseBeginsKeeps, WriteGoesOnKeeps, RequestDoneKeeps
  <2>3. CASE TaskGoesOn(t)
    <3>1. CASE WaitKnows(t) \/ WaitRegisters(t) \/ WaitResumes(t) \/ Parks(t) \/ Leaves(t)
      BY <3>1, WaitKnowsKeeps, WaitRegistersKeeps, WaitResumesKeeps, ParksKeeps, LeavesKeeps
    <3>2. CASE NextBusy(t) \/ NextTakes(t) \/ NextEnds(t) \/ NextRegisters(t) \/ NextResumes(t)
      BY <3>2, NextBusyKeeps, NextTakesKeeps, NextEndsKeeps, NextRegistersKeeps,
         NextResumesKeeps
    <3>3. CASE \/ Terminate(t) \/ PipeRefuses(t) \/ PipePasses(t) \/ PipeSubmits(t) \/ Shutdown(t)
               \/ RequestReturns(t)
      BY <3>3, TerminateKeeps, PipeRefusesKeeps, PipePassesKeeps, PipeSubmitsKeeps,
         ShutdownKeeps, RequestReturnsKeeps
    <3>4. CASE \/ CloseTakes(t) \/ CloseGoesOn(t) \/ PipeCloseSubmits(t) \/ CloseReturns(t)
               \/ \E u \in Tasks : CloseWakes(t, u)
      BY <3>4, CloseTakesKeeps, CloseGoesOnKeeps, PipeCloseSubmitsKeeps, CloseReturnsKeeps,
         CloseWakesKeeps
    <3> QED
      BY <2>3, <3>1, <3>2, <3>3, <3>4 DEF TaskGoesOn
  <2> QED
    BY <1>5, <2>1, <2>2, <2>3
<1> QED
  BY <1>1, <1>2, <1>3, <1>4, <1>5 DEF Next

\* A wait or next is neither forgotten nor misled, but for a next that another
\* overtook and a block that is gone, whatever Tasks there are and whatever they call
\* (hex_process_wait, hex_signals_next, and the locks of the callbacks and closes).
THEOREM NoWaitGoesWrong == Spec => []WaitsEndRight
<1>1. Init => IInv
  BY InitHolds
<1>2. IInv /\ [Next]_vars => IInv'
  BY StepKeeps
<1>3. IInv => WaitsEndRight
  BY DEF IInv, WaitsEndRight
<1> QED
  BY <1>1, <1>2, <1>3, PTL DEF Spec

-----------------------------------------------------------------------------
\* The calls that the loop answers.
Requests == {"terminate", "read", "write", "shutdown"}

\* The loop has the command of t still to start.
InQueue(t) == \E i \in 1..Len(commands) : commands[i] = t

Closes(t) == call[t].op = "close"

\* There is one close, and it comes after the capability was open.
JOnce ==
  /\ \A t, u \in Tasks : Closes(t) /\ Closes(u) => t = u
  /\ \A t \in Tasks : Closes(t) => status[Block] \in {"closing", "freed"}
  /\ status[Block] \in {"unused", "open"} => uv.closes = 0 /\ ~control.closed

\* Who closes the native handle: a close that has the loop do it has not had
\* it done ...
CloserSound(t) ==
  /\ call[t].at = "resolved" => uv.closes = 0 /\ ~control.closed
  /\ call[t].at = "draining" /\ (kind = "process" => call[t].exited) =>
       uv.closes = 0 /\ ~loop.closed
  /\ call[t].at = "draining" => ~Pipe /\ (call[t].exited => control.exited)
  /\ call[t].at = "waiting" /\ kind = "process" => control.exited
  /\ InQueue(t) => uv.closes = 0 /\ ~loop.closed
  /\ call[t].at = "waiting" /\ call[t].woken =>
       uv.closes = 1 /\ (Pipe => uv.closing = {})

JCloser == \A t \in Tasks : Closes(t) => CloserSound(t)

\* ... nor has the exit, which does it if the close came first.
JExit ==
  /\ kind = "process" /\ ~control.exited => uv.closes = 0
  /\ loop.closed => /\ kind = "process" /\ control.exited /\ control.closed
                    /\ uv.closes = 0

\* A command is one of a Task that waits for its answer, and the loop has it once.
JQueue ==
  /\ \A i \in 1..Len(commands) :
       LET t == commands[i] IN
       /\ call[t].op \in Requests \cup {"close"}
       /\ call[t].at = "waiting" /\ ~call[t].woken
       /\ t # uv.reading /\ t \notin uv.requests
  /\ \A i, j \in 1..Len(commands) : commands[i] = commands[j] => i = j

\* What libuv has is a request of a Task that waits for its answer.
JNative ==
  /\ uv.reading # None =>
       /\ uv.reading \in Tasks
       /\ At(uv.reading, "read", "waiting") /\ ~call[uv.reading].woken
       /\ call[uv.reading].met \/ uv.data = uv.reading
  /\ \A t \in uv.requests :
       call[t].op \in {"write", "shutdown"} /\ call[t].at = "waiting" /\ ~call[t].woken
  /\ uv.closing # {} => uv.closes = 1

\* Somebody has the record of a Task that waits and met no other.
HeldSound(t) ==
  /\ call[t].op = "terminate" => InQueue(t)
  /\ call[t].op \in {"write", "shutdown"} => InQueue(t) \/ t \in uv.requests
  /\ call[t].op = "read" /\ ~call[t].met =>
       InQueue(t) \/ (uv.reading = t /\ uv.data = t)
  /\ call[t].op = "close" /\ ~ (Pipe /\ call[t].met) =>
       InQueue(t) \/ (Pipe /\ uv.closing # {} /\ uv.data = t)

JHeld == \A t \in Tasks : call[t].at = "waiting" /\ ~call[t].woken => HeldSound(t)

\* The busy flags keep the calls of one kind apart, or those have met ...
JBusy ==
  /\ \A t \in Tasks : call[t].op \in Exclusive /\ call[t].at = "waiting" /\ ~call[t].met =>
       call[t].op \in control.busy
  /\ \A t, u \in Tasks :
       /\ call[t].op \in Exclusive /\ call[t].op = call[u].op
       /\ call[t].at \in {"passed", "waiting"} /\ call[u].at \in {"passed", "waiting"}
       => t = u \/ call[t].met

\* ... and so have the close of a pipe and a read.
JMeet ==
  \A t, u \in Tasks :
    Closes(t) /\ Pipe /\ call[u].op = "read" /\ call[u].at # "leaving" =>
      call[t].met /\ call[u].met

\* A request keeps the block, and so do the start of a wait and the close of a
\* pipe.
JLease ==
  /\ \A t \in Tasks : call[t].op \in Requests => t \in users[Block]
  /\ \A t \in Tasks :
       Listening(t) /\ call[t].at \in {"resolved", "listed"} => t \in users[Block]
  /\ \A t \in Tasks :
       Closes(t) /\ Pipe /\ call[t].at = "waiting" => Teardown \in users[Block]
  /\ status[Block] = "freed" => users[Block] = {}
  /\ status[Block] \in {"closing", "freed"} /\ Teardown \notin users[Block] =>
       uv.closes = 1 /\ uv.closing = {}

\* Only a woken wait or next saw a freed block, and the handle is closed once.
JSound ==
  /\ \A t \in Tasks :
       /\ call[t].result = "undefined" =>
            /\ Listening(t) /\ call[t].at = "leaving"
            /\ call[t].op = "wait" => call[t].by = "fact"
       /\ call[t].op = "none" => call[t].at = "idle"
  /\ uv.closes <= 1

\* The parts together are inductive over IInv.
JInv ==
  /\ JOnce /\ JCloser /\ JExit /\ JQueue /\ JNative /\ JHeld /\ JBusy /\ JMeet
  /\ JLease /\ JSound

\* The call of t alone changes, to these fields.
Turns(t, op, at, woken, exited) ==
  /\ \A u \in Tasks : u # t => call'[u] = call[u]
  /\ call'[t].op = op /\ call'[t].at = at
  /\ call'[t].woken = woken /\ call'[t].exited = exited
  /\ call'[t].result # "undefined"

\* The step of one call, field by field.
LEMMA CallTurns ==
  ASSUME TypeOK, NEW t \in Tasks, NEW c \in Call, call' = [call EXCEPT ![t] = c],
         c.result # "undefined"
  PROVE  Turns(t, c.op, c.at, c.woken, c.exited) /\ call'[t].met = c.met
BY DEF TypeOK, Turns

\* A call ends, is answered, goes to another place, or begins.
LEMMA EndsTurns ==
  ASSUME TypeOK, NEW t \in Tasks, NEW r \in Results \ {"undefined"}, Ends(t, r)
  PROVE  /\ Turns(t, call[t].op, "leaving", call[t].woken, call[t].exited)
         /\ call'[t].met = call[t].met
<1> DEFINE c == [call[t] EXCEPT !.at = "leaving", !.result = r]
<1>1. call[t] \in Call
  BY DEF TypeOK
<1>2. /\ c \in Call /\ c.op = call[t].op /\ c.at = "leaving" /\ c.met = call[t].met
      /\ c.woken = call[t].woken /\ c.exited = call[t].exited /\ c.result = r
  BY <1>1 DEF Call, Results
<1>3. call' = [call EXCEPT ![t] = c]
  BY DEF Ends
<1> HIDE DEF c
<1> QED
  BY <1>2, <1>3, CallTurns

LEMMA AnswerTurns ==
  ASSUME TypeOK, NEW t \in Tasks, NEW r \in Results \ {"undefined"}, Answer(t, r)
  PROVE  /\ Turns(t, call[t].op, call[t].at, TRUE, call[t].exited)
         /\ call'[t].met = call[t].met
<1> DEFINE c == [call[t] EXCEPT !.woken = TRUE, !.result = r]
<1>1. call[t] \in Call
  BY DEF TypeOK
<1>2. /\ c \in Call /\ c.op = call[t].op /\ c.at = call[t].at /\ c.met = call[t].met
      /\ c.woken = TRUE /\ c.exited = call[t].exited /\ c.result = r
  BY <1>1 DEF Call, Results
<1>3. call' = [call EXCEPT ![t] = c]
  BY DEF Answer
<1> HIDE DEF c
<1> QED
  BY <1>2, <1>3, CallTurns

LEMMA MovesTurns ==
  ASSUME TypeOK, NEW t \in Tasks, NEW place \in Places, call[t].result # "undefined",
         call' = [call EXCEPT ![t].at = place]
  PROVE  Turns(t, call[t].op, place, call[t].woken, call[t].exited)
<1> DEFINE c == [call[t] EXCEPT !.at = place]
<1>1. call[t] \in Call
  BY DEF TypeOK
<1>2. /\ c \in Call /\ c.op = call[t].op /\ c.at = place
      /\ c.woken = call[t].woken /\ c.exited = call[t].exited
      /\ c.result = call[t].result
  BY <1>1 DEF Call, Places
<1>3. call' = [call EXCEPT ![t] = c]
  OBVIOUS
<1> HIDE DEF c
<1> QED
  BY <1>2, <1>3, CallTurns

LEMMA NewTurns ==
  ASSUME TypeOK, NEW t \in Tasks, NEW place \in {"idle", "resolved"},
         NEW op \in {"none", "wait", "terminate", "next", "read", "write", "shutdown", "close"},
         call' = [call EXCEPT ![t] = [NoCall EXCEPT !.op = op, !.at = place]]
  PROVE  Turns(t, op, place, FALSE, FALSE)
<1> DEFINE c == [NoCall EXCEPT !.op = op, !.at = place]
<1>1. /\ c \in Call /\ c.op = op /\ c.at = place
      /\ c.woken = FALSE /\ c.exited = FALSE /\ c.result # "undefined"
  BY DEF Call, NoCall
<1>2. call' = [call EXCEPT ![t] = c]
  OBVIOUS
<1> HIDE DEF c
<1> QED
  BY <1>1, <1>2, CallTurns, ZenonT(60)

\* A submission puts the call at the end of the queue.
LEMMA SubmitTurns ==
  ASSUME TypeOK, NEW t \in Tasks, call[t].result # "undefined", Submit(t)
  PROVE  /\ Turns(t, call[t].op, "waiting", FALSE, call[t].exited)
         /\ call'[t].met = call[t].met
         /\ \A u \in Tasks : InQueue(u)' <=> InQueue(u) \/ u = t
         /\ Len(commands) \in Nat
         /\ \A i \in 1..Len(commands') :
              \/ i \in 1..Len(commands) /\ commands'[i] = commands[i]
              \/ i = Len(commands) + 1 /\ commands'[i] = t
         /\ \A i \in 1..Len(commands) : commands[i] \in Tasks
<1> DEFINE c == [call[t] EXCEPT !.at = "waiting", !.woken = FALSE]
<1>1. call[t] \in Call
  BY DEF TypeOK
<1>2. /\ c \in Call /\ c.op = call[t].op /\ c.at = "waiting" /\ c.met = call[t].met
      /\ c.woken = FALSE /\ c.exited = call[t].exited /\ c.result = call[t].result
  BY <1>1 DEF Call
<1>3. call' = [call EXCEPT ![t] = c]
  BY DEF Submit
<1> HIDE DEF c
<1>4. /\ Turns(t, call[t].op, "waiting", FALSE, call[t].exited)
      /\ call'[t].met = call[t].met
  BY <1>2, <1>3, CallTurns
<1>5. commands \in Seq(Tasks) /\ commands' = Append(commands, t)
  BY DEF TypeOK, Submit
<1>6. /\ Len(commands) \in Nat
      /\ \A i \in 1..Len(commands') :
           \/ i \in 1..Len(commands) /\ commands'[i] = commands[i]
           \/ i = Len(commands) + 1 /\ commands'[i] = t
      /\ \A i \in 1..Len(commands) : commands[i] \in Tasks
  BY <1>5
<1>7. /\ Len(commands') = Len(commands) + 1 /\ commands'[Len(commands) + 1] = t
      /\ \A i \in 1..Len(commands) : commands'[i] = commands[i]
  BY <1>5
<1>8. \A u \in Tasks : InQueue(u)' => InQueue(u) \/ u = t
  BY <1>6 DEF InQueue
<1>9. \A u \in Tasks : InQueue(u) \/ u = t => InQueue(u)'
  <2>1. Len(commands) + 1 \in 1..Len(commands')
    BY <1>6, <1>7
  <2>2. \A i \in 1..Len(commands) : i \in 1..Len(commands')
    BY <1>6, <1>7
  <2> QED
    BY <1>7, <2>1, <2>2 DEF InQueue
<1> QED
  BY <1>4, <1>6, <1>8, <1>9

\* The loop takes the command of t, the first, off the queue.
Takes(t) ==
  /\ InQueue(t)
  /\ \E k \in 1..Len(commands) : commands[k] = t
  /\ \A i \in 1..Len(commands') :
       /\ i + 1 \in 1..Len(commands) /\ commands'[i] = commands[i + 1]
       /\ commands'[i] \in Tasks \ {t}
  /\ \A u \in Tasks : InQueue(u)' <=> InQueue(u) /\ u # t

LEMMA TakesHead ==
  ASSUME IInv, JInv, commands # << >>, commands' = Tail(commands)
  PROVE  Head(commands) \in Tasks /\ Takes(Head(commands))
<1>1. commands \in Seq(Tasks)
  BY DEF IInv, TypeOK
<1>2. /\ 1 \in 1..Len(commands) /\ Head(commands) = commands[1] /\ commands[1] \in Tasks
      /\ \A i \in 1..Len(commands') :
           /\ i + 1 \in 1..Len(commands) /\ i + 1 # 1
           /\ commands'[i] = commands[i + 1] /\ commands'[i] \in Tasks
  BY <1>1
<1>3. \A i \in 1..Len(commands') : commands'[i] # commands[1]
  BY DEF JInv, JQueue
<1>4. \A u \in Tasks : InQueue(u)' => InQueue(u) /\ u # commands[1]
  BY <1>3 DEF InQueue
<1>5. ASSUME NEW u \in Tasks, InQueue(u), u # commands[1]
      PROVE  InQueue(u)'
  <2>1. PICK i \in 1..Len(commands) : commands[i] = u
    BY <1>5 DEF InQueue
  <2>2. i # 1
    BY <1>5, <2>1
  <2>3. i - 1 \in 1..Len(commands') /\ commands'[i - 1] = commands[i]
    BY <1>1, <2>2
  <2> QED
    BY <2>1, <2>3 DEF InQueue
<1> QED
  BY <1>2, <1>4, <1>5 DEF Takes, InQueue

\* The fields of libuv's side.
LEMMA UVFields ==
  ASSUME TypeOK
  PROVE  /\ uv \in UV /\ uv.closes \in Nat
         /\ uv.reading \in Tasks \cup {None} /\ uv.requests \subseteq Tasks
         /\ uv.data \in Tasks \cup {None} /\ None \notin Tasks
BY ProcessSignalAssumption DEF TypeOK, UV

\* A call that listens ends or moves on.
Goes(u) ==
  /\ Listening(u) /\ call'[u].op = call[u].op
  /\ call'[u].at \in {"resolved", "listed"} => call[u].at \in {"resolved", "listed"}
  /\ call'[u].result = "undefined" =>
       call'[u].at = "leaving" /\ (call[u].op = "wait" => call'[u].by = "fact")

\* A step of the calls that listen: nothing here is about them.
LEMMA ListenerStep ==
  ASSUME IInv, JInv,
         \A u \in Tasks : Stays(u) \/ Goes(u),
         UNCHANGED <<kind, status, uv, commands>>,
         \A u \in Tasks : u \in users[Block] /\ u \notin users'[Block] =>
           Listening(u) /\ call'[u].at \notin {"resolved", "listed"},
         users'[Block] \subseteq users[Block],
         Teardown \in users[Block] => Teardown \in users'[Block],
         control'.exited = control.exited, control'.closed = control.closed,
         control'.busy = control.busy, loop'.closed = loop.closed
  PROVE  JInv'
<1> USE DEF JInv
<1>1. \A u \in Tasks : Listening(u)' = Listening(u) /\ call'[u].op = call[u].op
  BY DEF Listening, Stays, Goes
<1>2. \A u \in Tasks : call[u].op \notin {"wait", "next"} =>
        /\ call'[u].op = call[u].op /\ call'[u].at = call[u].at
        /\ call'[u].woken = call[u].woken /\ call'[u].exited = call[u].exited
        /\ call'[u].result = call[u].result /\ (call[u].met => call'[u].met)
  BY DEF Listening, Stays, Goes
<1>3. Pipe' = Pipe
  BY DEF Pipe
<1>4. \A u \in Tasks : Closes(u)' = Closes(u) /\ InQueue(u)' = InQueue(u)
  BY <1>1 DEF Closes, InQueue
<1>5. JOnce' /\ JExit'
  BY <1>4 DEF JOnce, JExit
<1>6. JCloser'
  <2> SUFFICES ASSUME NEW u \in Tasks, Closes(u)
               PROVE  CloserSound(u)'
    BY <1>4 DEF JCloser
  <2>1. CloserSound(u)
    BY DEF JCloser
  <2>2. /\ call'[u].at = call[u].at /\ call'[u].woken = call[u].woken
        /\ call'[u].exited = call[u].exited
    BY <1>2 DEF Closes
  <2> QED
    BY <1>3, <1>4, <2>1, <2>2 DEF CloserSound
<1>7. \A i \in 1..Len(commands) : commands[i] \in Tasks
  BY InCommands DEF IInv
<1>8. JQueue'
  <2>1. \A i \in 1..Len(commands) :
          /\ call'[commands[i]].op = call[commands[i]].op
          /\ call'[commands[i]].at = call[commands[i]].at
          /\ call'[commands[i]].woken = call[commands[i]].woken
    BY <1>2, <1>7 DEF JQueue, Requests
  <2> QED
    BY <2>1 DEF JQueue
<1>9. uv.reading \in Tasks \cup {None} /\ uv.requests \subseteq Tasks
  BY UVFields DEF IInv
<1>10. JNative'
  <2>1. ASSUME uv.reading # None
        PROVE  /\ uv.reading \in Tasks
               /\ call'[uv.reading].op = "read" /\ call'[uv.reading].at = "waiting"
               /\ ~call'[uv.reading].woken
               /\ call'[uv.reading].met \/ uv.data = uv.reading
    <3>1. /\ uv.reading \in Tasks
          /\ call[uv.reading].op = "read" /\ call[uv.reading].at = "waiting"
          /\ ~call[uv.reading].woken
          /\ call[uv.reading].met \/ uv.data = uv.reading
      BY <2>1 DEF JNative, At
    <3> QED
      BY <1>2, <3>1
  <2>2. \A u \in uv.requests :
          call'[u].op \in {"write", "shutdown"} /\ call'[u].at = "waiting" /\ ~call'[u].woken
    BY <1>2, <1>9 DEF JNative
  <2> QED
    BY <2>1, <2>2 DEF JNative, At
<1>11. JHeld'
  <2> SUFFICES ASSUME NEW u \in Tasks, call'[u].at = "waiting", ~call'[u].woken
               PROVE  HeldSound(u)'
    BY DEF JHeld
  <2>1. CASE call[u].op \in {"wait", "next"}
    BY <1>1, <2>1 DEF HeldSound
  <2>2. CASE call[u].op \notin {"wait", "next"}
    <3>1. HeldSound(u) /\ call'[u].op = call[u].op /\ (call[u].met => call'[u].met)
      BY <1>2, <2>2 DEF JHeld
    <3> QED
      BY <1>3, <1>4, <3>1 DEF HeldSound
  <2> QED
    BY <2>1, <2>2
<1>12. JBusy'
  <2>1. \A u \in Tasks : call[u].op \in Exclusive =>
          call'[u].at = call[u].at /\ (call[u].met => call'[u].met)
    BY <1>2 DEF Exclusive
  <2> QED
    BY <1>1, <2>1 DEF JBusy
<1>13. JMeet'
  <2>1. \A u \in Tasks : Closes(u) \/ call[u].op = "read" =>
          call'[u].at = call[u].at /\ (call[u].met => call'[u].met)
    BY <1>2 DEF Closes
  <2> QED
    BY <1>1, <1>3, <1>4, <2>1 DEF JMeet
<1>14. JLease'
  <2>1. \A u \in Tasks : call'[u].op \in Requests => u \in users'[Block]
    BY <1>1 DEF JLease, Requests, Listening
  <2>2. \A u \in Tasks :
          Listening(u)' /\ call'[u].at \in {"resolved", "listed"} => u \in users'[Block]
    BY <1>1 DEF JLease, Stays, Goes
  <2>3. \A u \in Tasks :
          Closes(u)' /\ Pipe' /\ call'[u].at = "waiting" => Teardown \in users'[Block]
    BY <1>2, <1>3, <1>4 DEF JLease, Closes
  <2> QED
    BY <2>1, <2>2, <2>3 DEF JLease
<1>15. JSound'
  <2> SUFFICES ASSUME NEW u \in Tasks
               PROVE  /\ call'[u].result = "undefined" =>
                           /\ Listening(u)' /\ call'[u].at = "leaving"
                           /\ call'[u].op = "wait" => call'[u].by = "fact"
                      /\ call'[u].op = "none" => call'[u].at = "idle"
    BY DEF JSound
  <2>1. CASE Stays(u)
    BY <1>1, <2>1 DEF Stays, JSound
  <2>2. CASE Goes(u)
    BY <1>1, <2>2 DEF Goes, Listening
  <2> QED
    BY <2>1, <2>2
<1> QED
  BY <1>5, <1>6, <1>8, <1>10, <1>11, <1>12, <1>13, <1>14, <1>15

\* One listening call ends or moves on.
LEMMA ListenerTurns ==
  ASSUME IInv, JInv, NEW t \in Tasks, Listening(t), NEW at, NEW woken, NEW exited,
         at \in {"resolved", "listed"} => call[t].at \in {"resolved", "listed"},
         Turns(t, call[t].op, at, woken, exited),
         UNCHANGED <<kind, status, users, uv, commands, loop>>,
         control'.exited = control.exited, control'.closed = control.closed,
         control'.busy = control.busy
  PROVE  JInv'
<1>1. \A u \in Tasks : Stays(u) \/ Goes(u)
  BY DEF Turns, Stays, Goes
<1> QED
  BY <1>1, ListenerStep

\* The steps of a wait or next, and of those that wake it.
LEMMA WaitKnowsSound ==
  ASSUME IInv, JInv, NEW t \in Tasks, WaitKnows(t)
  PROVE  JInv'
<1>1. TypeOK /\ Listening(t)
  BY DEF IInv, WaitKnows, At, Listening
<1>2. PICK r \in Results \ {"undefined"} : Ends(t, r)
  BY DEF WaitKnows, Results
<1>3. Turns(t, call[t].op, "leaving", call[t].woken, call[t].exited)
  BY <1>1, <1>2, EndsTurns
<1>4. /\ UNCHANGED <<kind, status, users, uv, commands, loop>>
      /\ control'.exited = control.exited /\ control'.closed = control.closed
      /\ control'.busy = control.busy
  BY DEF WaitKnows, ofTasks, capability
<1> QED
  BY <1>1, <1>3, <1>4, ListenerTurns

LEMMA NextBusySound ==
  ASSUME IInv, JInv, NEW t \in Tasks, NextBusy(t)
  PROVE  JInv'
<1>1. TypeOK /\ Listening(t)
  BY DEF IInv, NextBusy, At, Listening
<1>2. PICK r \in Results \ {"undefined"} : Ends(t, r)
  BY DEF NextBusy, Results
<1>3. Turns(t, call[t].op, "leaving", call[t].woken, call[t].exited)
  BY <1>1, <1>2, EndsTurns
<1>4. /\ UNCHANGED <<kind, status, users, uv, commands, loop>>
      /\ control'.exited = control.exited /\ control'.closed = control.closed
      /\ control'.busy = control.busy
  BY DEF NextBusy, ofTasks, capability
<1> QED
  BY <1>1, <1>3, <1>4, ListenerTurns

LEMMA TakesSignalSound ==
  ASSUME IInv, JInv, NEW t \in Tasks, Listening(t), TakesSignal(t),
         UNCHANGED <<kind, status, users, uv, commands, loop>>
  PROVE  JInv'
<1>1. TypeOK
  BY DEF IInv
<1>2. /\ \A u \in Tasks : u # t => Stays(u)
      /\ call'[t].op = call[t].op /\ call'[t].at = "leaving" /\ call'[t].result = "signal"
      /\ control'.exited = control.exited /\ control'.closed = control.closed
      /\ control'.busy = control.busy
  BY <1>1, TakesSignalSets
<1>3. \A u \in Tasks : Stays(u) \/ Goes(u)
  BY <1>2 DEF Goes
<1> QED
  BY <1>2, <1>3, ListenerStep

LEMMA NextTakesSound ==
  ASSUME IInv, JInv, NEW t \in Tasks, NextTakes(t)
  PROVE  JInv'
<1>1. /\ Listening(t) /\ TakesSignal(t)
      /\ UNCHANGED <<kind, status, users, uv, commands, loop>>
  BY DEF NextTakes, At, Listening, TakesSignal, ofTasks, capability
<1> QED
  BY <1>1, TakesSignalSound

LEMMA NextEndsSound ==
  ASSUME IInv, JInv, NEW t \in Tasks, NextEnds(t)
  PROVE  JInv'
<1>1. TypeOK /\ Listening(t)
  BY DEF IInv, NextEnds, At, Listening
<1>2. PICK r \in Results \ {"undefined"} : Ends(t, r)
  BY DEF NextEnds, Results
<1>3. Turns(t, call[t].op, "leaving", call[t].woken, call[t].exited)
  BY <1>1, <1>2, EndsTurns
<1>4. /\ UNCHANGED <<kind, status, users, uv, commands, loop>>
      /\ control'.exited = control.exited /\ control'.closed = control.closed
      /\ control'.busy = control.busy
  BY DEF NextEnds, ofTasks, capability
<1> QED
  BY <1>1, <1>3, <1>4, ListenerTurns

LEMMA WaitRegistersSound ==
  ASSUME IInv, JInv, NEW t \in Tasks, WaitRegisters(t)
  PROVE  JInv'
<1>1. TypeOK /\ Listening(t) /\ call[t].at = "resolved" /\ call[t].result # "undefined"
  BY DEF IInv, JInv, JSound, WaitRegisters, At, Listening
<1>2. call' = [call EXCEPT ![t].at = "listed"]
  BY DEF WaitRegisters
<1>3. Turns(t, call[t].op, "listed", call[t].woken, call[t].exited)
  BY <1>1, <1>2, MovesTurns DEF Places
<1>4. /\ UNCHANGED <<kind, status, users, uv, commands, loop>>
      /\ control'.exited = control.exited /\ control'.closed = control.closed
      /\ control'.busy = control.busy
  BY DEF WaitRegisters, ofTasks, capability
<1> QED
  BY <1>1, <1>3, <1>4, ListenerTurns

LEMMA NextRegistersSound ==
  ASSUME IInv, JInv, NEW t \in Tasks, NextRegisters(t)
  PROVE  JInv'
<1>1. TypeOK /\ Listening(t) /\ call[t].at = "resolved" /\ call[t].result # "undefined"
  BY DEF IInv, JInv, JSound, NextRegisters, At, Listening
<1>2. call' = [call EXCEPT ![t].at = "listed"]
  BY DEF NextRegisters
<1>3. Turns(t, call[t].op, "listed", call[t].woken, call[t].exited)
  BY <1>1, <1>2, MovesTurns DEF Places
<1>4. /\ UNCHANGED <<kind, status, users, uv, commands, loop>>
      /\ control'.exited = control.exited /\ control'.closed = control.closed
      /\ control'.busy = control.busy
  BY DEF NextRegisters, ofTasks, capability
<1> QED
  BY <1>1, <1>3, <1>4, ListenerTurns

LEMMA WaitResumesSound ==
  ASSUME IInv, JInv, NEW t \in Tasks, WaitResumes(t)
  PROVE  JInv'
<1>1. TypeOK /\ Listening(t)
  BY DEF IInv, WaitResumes, At, Listening
<1>2. call[t].closed \/ call[t].by = "fact"
  <2>1. /\ call[t].at = "parked" /\ call[t].op = "wait" /\ call[t].woken
        /\ Waiting(t) /\ kind = "process" /\ Listening(t)
    BY DEF WaitResumes, At, Waiting, IInv, IPlaces, Listening
  <2>2. call[t].by \in {"fact", "close"}
    BY <2>1, Fields DEF IInv, IPlaces
  <2> QED
    BY <2>1, <2>2 DEF IInv, IFact
<1>3. PICK r \in Results : Ends(t, r) /\ (r = "undefined" => ~call[t].closed)
  BY DEF WaitResumes, Results
<1>4. /\ \A u \in Tasks : u # t => call'[u] = call[u]
      /\ call'[t].op = call[t].op /\ call'[t].at = "leaving" /\ call'[t].result = r
      /\ call'[t].by = call[t].by
  BY <1>1, <1>3, EndsSets DEF Sets
<1>5. \A u \in Tasks : Stays(u) \/ Goes(u)
  BY <1>1, <1>2, <1>3, <1>4 DEF Goes, Stays
<1>6. UNCHANGED <<kind, status, users, control, uv, commands, loop>>
  BY DEF WaitResumes, ofTasks, capability
<1> QED
  BY <1>4, <1>5, <1>6, ListenerStep

LEMMA NextResumesSound ==
  ASSUME IInv, JInv, NEW t \in Tasks, NextResumes(t)
  PROVE  JInv'
<1>1. /\ TypeOK /\ Listening(t) /\ call[t].op = "next"
      /\ UNCHANGED <<kind, status, users, uv, commands, loop>>
  BY DEF IInv, NextResumes, At, Listening, ofTasks, capability
<1>2. CASE TakesSignal(t)
  BY <1>1, <1>2, TakesSignalSound
<1>3. CASE ~TakesSignal(t)
  <2>1. PICK r \in Results : Ends(t, r) /\ control' = control
    BY <1>3 DEF NextResumes, Results, TakesSignal
  <2>2. /\ \A u \in Tasks : u # t => call'[u] = call[u]
        /\ call'[t].op = call[t].op /\ call'[t].at = "leaving"
    BY <1>1, <2>1, EndsSets DEF Sets
  <2>3. \A u \in Tasks : Stays(u) \/ Goes(u)
    BY <1>1, <2>2 DEF Goes, Stays
  <2> QED
    BY <1>1, <2>1, <2>2, <2>3, ListenerStep
<1> QED
  BY <1>2, <1>3

LEMMA ParksSound ==
  ASSUME IInv, JInv, NEW t \in Tasks, Parks(t)
  PROVE  JInv'
<1>1. TypeOK /\ Listening(t) /\ call[t].result # "undefined"
  BY DEF IInv, JInv, JSound, Parks, IPlaces
<1>2. call' = [call EXCEPT ![t].at = "parked"]
  BY DEF Parks
<1>3. Turns(t, call[t].op, "parked", call[t].woken, call[t].exited)
  BY <1>1, <1>2, MovesTurns DEF Places
<1>4. UNCHANGED <<kind, status, control, uv, commands, loop>>
  BY DEF Parks, Registry!Leave
<1>5. users'[Block] = users[Block] \ {t}
  BY <1>1, Fields DEF Parks, Registry!Leave
<1>6. Teardown # t
  BY ProcessSignalAssumption
<1>7. \A u \in Tasks : Stays(u) \/ Goes(u)
  BY <1>1, <1>3 DEF Turns, Stays, Goes
<1>8. call'[t].at = "parked"
  BY <1>3 DEF Turns
<1> QED
  BY <1>1, <1>4, <1>5, <1>6, <1>7, <1>8, ListenerStep

LEMMA FiresSound ==
  ASSUME IInv, JInv, NEW s \in Signals, Fires(s)
  PROVE  JInv'
<1>1. TypeOK
  BY DEF IInv
<1>2. \A u \in control.waiters : Listening(u) /\ call[u].at # "leaving"
  BY DEF IInv, NobodyForgotten, Waiting, Listening
<1>3. \A u \in Tasks : Stays(u) \/ Goes(u)
  <2> SUFFICES ASSUME NEW u \in Tasks PROVE Stays(u) \/ Goes(u)
    OBVIOUS
  <2>1. /\ call'[u].op = call[u].op /\ call'[u].at = call[u].at
        /\ call'[u].woken = call[u].woken /\ call'[u].closed = call[u].closed
        /\ call'[u].result = call[u].result /\ call'[u].exited = call[u].exited
        /\ call'[u].by = IF u \in control.waiters THEN "fact" ELSE call[u].by
        /\ u \notin control.waiters => (call[u].met \/ WillLook(u) => call'[u].met)
    BY <1>1, FiresSets
  <2>2. CASE u \in control.waiters
    <3>1. call[u].result # "undefined"
      BY <1>2, <2>2 DEF JInv, JSound
    <3> QED
      BY <1>2, <2>1, <2>2, <3>1 DEF Goes
  <2>3. CASE u \notin control.waiters
    BY <2>1, <2>3 DEF Stays
  <2> QED
    BY <2>2, <2>3
<1>4. ~loop.closed
  BY DEF Fires, JInv, JExit
<1>5. /\ UNCHANGED <<kind, status, users, uv, commands>>
      /\ control'.exited = control.exited /\ control'.closed = control.closed
      /\ control'.busy = control.busy /\ loop'.closed = FALSE
  BY DEF Fires, ofTasks, capability
<1>6. loop'.closed = loop.closed
  BY <1>1, <1>4, <1>5 DEF TypeOK
<1> QED
  BY <1>3, <1>5, <1>6, ListenerStep

LEMMA LoopWakesSound ==
  ASSUME IInv, JInv, NEW u \in Tasks, LoopWakes(u)
  PROVE  JInv'
<1>1. TypeOK /\ Listening(u)
  BY DEF IInv, IPlaces, LoopWakes
<1>2. call' = [call EXCEPT ![u].woken = TRUE]
  BY DEF LoopWakes
<1>3. /\ \A v \in Tasks : v # u => call'[v] = call[v]
      /\ call'[u].op = call[u].op /\ call'[u].at = call[u].at
      /\ call'[u].by = call[u].by /\ call'[u].result = call[u].result
  BY <1>1, <1>2, WakeSets DEF Sets
<1>4. Goes(u)
  BY <1>1, <1>3 DEF Goes, JInv, JSound
<1>5. \A v \in Tasks : Stays(v) \/ Goes(v)
  BY <1>3, <1>4 DEF Stays
<1>6. UNCHANGED <<kind, status, users, control, uv, commands, loop>>
  BY DEF LoopWakes, ofTasks, capability
<1> QED
  BY <1>5, <1>6, ListenerStep

LEMMA CloseWakesSound ==
  ASSUME IInv, JInv, NEW t \in Tasks, NEW u \in Tasks, CloseWakes(t, u)
  PROVE  JInv'
<1>1. TypeOK /\ Listening(u)
  BY DEF IInv, IPlaces, CloseWakes
<1>2. call' = [call EXCEPT ![u].woken = TRUE, ![u].closed = (kind = "process")]
  BY DEF CloseWakes
<1>3. /\ \A v \in Tasks : v # u => call'[v] = call[v]
      /\ call'[u].op = call[u].op /\ call'[u].at = call[u].at
      /\ call'[u].by = call[u].by /\ call'[u].result = call[u].result
  BY <1>1, <1>2, MarkSets DEF Sets
<1>4. Goes(u)
  BY <1>1, <1>3 DEF Goes, JInv, JSound
<1>5. \A v \in Tasks : Stays(v) \/ Goes(v)
  BY <1>3, <1>4 DEF Stays
<1>6. UNCHANGED <<kind, status, users, control, uv, commands, loop>>
  BY DEF CloseWakes, ofTasks, capability
<1> QED
  BY <1>5, <1>6, ListenerStep

\* hex_handle_publish, hex_handle_recycle.
LEMMA PublishSound ==
  ASSUME IInv, JInv, Publish
  PROVE  JInv'
<1> USE DEF JInv
<1>1. TypeOK /\ \A i \in 1..Len(commands) : commands[i] \in Tasks
  BY InCommands DEF IInv
<1>2. UNCHANGED <<kind, users, control, uv, commands, loop, call>>
  BY DEF Publish, Registry!Open
<1>3. status[Block] = "unused" /\ status'[Block] = "open"
  BY <1>1, Fields DEF Publish, Registry!Open
<1>4. Pipe' = Pipe /\ \A u \in Tasks : Closes(u)' = Closes(u) /\ InQueue(u)' = InQueue(u)
  BY <1>2 DEF Pipe, Closes, InQueue
<1>5. JOnce'
  BY <1>2, <1>3, <1>4 DEF JOnce
<1>6. JCloser'
  BY <1>3, <1>4 DEF JCloser, JOnce
<1>7. JExit'
  BY <1>2 DEF JExit
<1>8. JQueue'
  BY <1>2 DEF JQueue
<1>9. JNative'
  BY <1>2, <1>4 DEF JNative, At
<1>10. JBusy'
  BY <1>2, <1>3 DEF JBusy
<1>11. JLease'
  BY <1>2, <1>3, <1>4 DEF JLease, Listening
<1>12. JSound'
  BY <1>2 DEF JSound, Listening
<1>13. JHeld'
  BY <1>2, <1>4 DEF JHeld, HeldSound
<1>14. JMeet'
  BY <1>2, <1>4 DEF JMeet
<1> QED
  BY <1>13, <1>14, <1>5, <1>6, <1>7, <1>8, <1>9, <1>10, <1>11, <1>12

LEMMA RecycleSound ==
  ASSUME IInv, JInv, Recycle
  PROVE  JInv'
<1> USE DEF JInv
<1>1. TypeOK /\ \A i \in 1..Len(commands) : commands[i] \in Tasks
  BY InCommands DEF IInv
<1>2. UNCHANGED <<kind, users, control, uv, commands, loop, call>>
  BY DEF Recycle, Registry!Free
<1>3. status[Block] = "closing" /\ status'[Block] = "freed" /\ users[Block] = {}
  BY <1>1, Fields DEF Recycle, Registry!Free
<1>4. Pipe' = Pipe /\ \A u \in Tasks : Closes(u)' = Closes(u) /\ InQueue(u)' = InQueue(u)
  BY <1>2 DEF Pipe, Closes, InQueue
<1>5. JOnce'
  BY <1>3, <1>4 DEF JOnce
<1>6. JCloser'
  BY <1>2, <1>4 DEF JCloser, CloserSound
<1>7. JExit'
  BY <1>2 DEF JExit
<1>8. JQueue'
  BY <1>2 DEF JQueue
<1>9. JNative'
  BY <1>2, <1>4 DEF JNative, At
<1>10. JBusy'
  BY <1>2, <1>3, <1>4 DEF JBusy
<1>11. JLease'
  BY <1>2, <1>3, <1>4 DEF JLease, Listening
<1>12. JSound'
  BY <1>2 DEF JSound, Listening
<1>13. JHeld'
  BY <1>2, <1>4 DEF JHeld, HeldSound
<1>14. JMeet'
  BY <1>2, <1>4 DEF JMeet
<1> QED
  BY <1>13, <1>14, <1>5, <1>6, <1>7, <1>8, <1>9, <1>10, <1>11, <1>12

\* A call begins: it has the lease, and is not in the loop's hands.
LEMMA EnterSound ==
  ASSUME IInv, JInv, NEW t \in Tasks, NEW op \in Makes[t], Enter(t, op)
  PROVE  JInv'
<1> USE DEF JInv
<1>1. TypeOK /\ \A i \in 1..Len(commands) : commands[i] \in Tasks
  BY InCommands DEF IInv
<1>2. \A u \in Tasks : InQueue(u) => call[u].at = "waiting" /\ ~call[u].woken
  BY DEF InQueue, JQueue
<1>3. /\ call[t].at = "idle" /\ op \in Offered
      /\ UNCHANGED <<kind, status, control, uv, commands, loop>>
  BY DEF Enter, Registry!Use
<1>4. op \in Requests \cup {"wait", "next"} /\ (op \in {"read", "write", "shutdown"} => Pipe)
  BY <1>1, <1>3 DEF Offered, Requests, Pipe, TypeOK
<1>5. status[Block] = "open" /\ users'[Block] = users[Block] \cup {t}
  BY <1>1, Fields DEF Enter, Registry!Use
<1>6. Turns(t, op, "resolved", FALSE, FALSE)
  BY <1>1, <1>4, NewTurns DEF Enter, Requests
<1>7. \A u \in Tasks : InQueue(u)' = InQueue(u) /\ (u # t => Closes(u)' = Closes(u))
  BY <1>3, <1>6 DEF InQueue, Closes, Turns
<1>8. ~Closes(t)' /\ Pipe' = Pipe /\ uv.reading \in Tasks \cup {None} /\ uv.requests \subseteq Tasks
  BY <1>1, <1>3, <1>4, <1>6, UVFields DEF Turns, Closes, Requests, Pipe
<1>9. JOnce'
  BY <1>3, <1>7, <1>8 DEF JOnce
<1>10. JCloser'
  BY <1>5, <1>7, <1>8 DEF JCloser, JOnce
<1>11. JExit'
  BY <1>3 DEF JExit
<1>12. JQueue'
  BY <1>1, <1>3, <1>6 DEF JQueue, Turns
<1>13. JNative'
  BY <1>1, <1>3, <1>6, <1>8 DEF JNative, At, Turns
<1>14. JBusy'
  BY <1>3, <1>5, <1>6 DEF JBusy, Turns
<1>15. JLease'
  BY <1>3, <1>5, <1>6, <1>7, <1>8 DEF JLease, Listening, Turns
<1>16. JSound'
  BY <1>3, <1>4, <1>6 DEF JSound, Listening, Requests, Turns
<1>17. JHeld'
  BY <1>3, <1>6, <1>7, <1>8 DEF JHeld, HeldSound, Turns
<1>18. JMeet'
  BY <1>3, <1>5, <1>7, <1>8 DEF JMeet, JOnce
<1> QED
  BY <1>17, <1>18, <1>9, <1>10, <1>11, <1>12, <1>13, <1>14, <1>15, <1>16

\* A request is submitted: by a call that the loop does not have.
LEMMA RequestSubmits ==
  ASSUME IInv, JInv, NEW t \in Tasks, Submit(t), call[t].op \in Requests,
         \/ call[t].at = "resolved" /\ call[t].op \notin Exclusive
         \/ call[t].at = "passed"
         \/ call[t].at = "waiting" /\ call[t].woken,
         call[t].op \in Exclusive /\ ~call[t].met => call[t].op \in control'.busy,
         UNCHANGED <<kind, status, users, uv, loop>>,
         control'.exited = control.exited, control'.closed = control.closed,
         control.busy \subseteq control'.busy
  PROVE  JInv'
<1> USE DEF JInv
<1>1. /\ TypeOK /\ call[t].result # "undefined"
      /\ uv.reading \in Tasks \cup {None} /\ uv.requests \subseteq Tasks
  <2>1. ~Listening(t)
    BY DEF Listening, Requests
  <2> QED
    BY <2>1, UVFields DEF IInv, JSound
<1>2. \A u \in Tasks : InQueue(u) => call[u].at = "waiting" /\ ~call[u].woken
  BY DEF InQueue, JQueue
<1>3. /\ Turns(t, call[t].op, "waiting", FALSE, call[t].exited)
      /\ call'[t].met = call[t].met
      /\ \A u \in Tasks : InQueue(u)' <=> InQueue(u) \/ u = t
      /\ Len(commands) \in Nat
      /\ \A i \in 1..Len(commands') :
           \/ i \in 1..Len(commands) /\ commands'[i] = commands[i]
           \/ i = Len(commands) + 1 /\ commands'[i] = t
      /\ \A i \in 1..Len(commands) : commands[i] \in Tasks
  BY <1>1, SubmitTurns
<1>4. /\ \A u \in Tasks : u # t => call'[u] = call[u]
      /\ call'[t].op = call[t].op /\ call'[t].at = "waiting"
      /\ call'[t].met = call[t].met
      /\ ~call'[t].woken /\ call'[t].result # "undefined"
  BY <1>3 DEF Turns
<1>5. ~Closes(t) /\ Pipe' = Pipe
  BY DEF Closes, Requests, Pipe
<1>6. \A u \in Tasks : Closes(u)' = Closes(u)
  BY <1>4 DEF Closes
<1>7. \A i \in 1..Len(commands) : commands[i] # t
  BY <1>2 DEF InQueue
<1>8. t # uv.reading /\ t \notin uv.requests
  BY <1>1, UVFields DEF JNative, At
<1>9. JOnce' /\ JExit'
  BY <1>6 DEF JOnce, JExit
<1>10. JCloser'
  <2> SUFFICES ASSUME NEW u \in Tasks, Closes(u)
               PROVE  CloserSound(u)'
    BY <1>6 DEF JCloser
  <2>1. u # t /\ CloserSound(u)
    BY <1>5 DEF JCloser
  <2> QED
    BY <1>3, <1>4, <1>5, <2>1 DEF CloserSound
<1>11. JQueue'
  <2>1. \A i \in 1..Len(commands') :
          /\ call'[commands'[i]].op \in Requests \cup {"close"}
          /\ call'[commands'[i]].at = "waiting" /\ ~call'[commands'[i]].woken
          /\ commands'[i] # uv.reading /\ commands'[i] \notin uv.requests
    <3>1. ASSUME NEW i \in 1..Len(commands), commands'[i] = commands[i]
          PROVE  /\ call'[commands'[i]].op \in Requests \cup {"close"}
                 /\ call'[commands'[i]].at = "waiting" /\ ~call'[commands'[i]].woken
                 /\ commands'[i] # uv.reading /\ commands'[i] \notin uv.requests
      <4>1. call'[commands'[i]] = call[commands[i]]
        BY <1>3, <1>4, <1>7, <3>1
      <4> QED
        BY <3>1, <4>1 DEF JQueue
    <3> QED
      BY <1>3, <1>4, <1>8, <3>1
  <2>2. ASSUME NEW i \in 1..Len(commands'), NEW j \in 1..Len(commands'),
               commands'[i] = commands'[j]
        PROVE  i = j
    <3>1. \/ i \in 1..Len(commands) /\ commands'[i] = commands[i]
          \/ i = Len(commands) + 1 /\ commands'[i] = t
      BY <1>3
    <3>2. \/ j \in 1..Len(commands) /\ commands'[j] = commands[j]
          \/ j = Len(commands) + 1 /\ commands'[j] = t
      BY <1>3
    <3> QED
      BY <2>2, <3>1, <3>2 DEF JQueue
  <2> QED
    BY <2>1, <2>2 DEF JQueue
<1>12. JNative'
  <2>1. \A u \in Tasks : u # t => call'[u] = call[u]
    BY <1>4
  <2> QED
    BY <1>1, <1>8, <2>1 DEF JNative, At
<1>13. JHeld'
  <2> SUFFICES ASSUME NEW u \in Tasks, call'[u].at = "waiting", ~call'[u].woken
               PROVE  HeldSound(u)'
    BY DEF JHeld
  <2>1. CASE u = t
    BY <1>3, <1>4, <1>5, <2>1 DEF HeldSound, Closes
  <2>2. CASE u # t
    <3>1. call'[u] = call[u] /\ (InQueue(u) => InQueue(u)')
      BY <1>3, <1>4, <2>2
    <3>2. HeldSound(u)
      BY <3>1 DEF JHeld
    <3> QED
      BY <1>5, <3>1, <3>2 DEF HeldSound
  <2> QED
    BY <2>1, <2>2
<1>14. JBusy'
  <2>1. \A u \in Tasks : call'[u].op = call[u].op /\ call'[u].met = call[u].met
    BY <1>4
  <2>2. \A u \in Tasks : call[u].op \in Exclusive =>
          (call'[u].at \in {"passed", "waiting"} <=> call[u].at \in {"passed", "waiting"})
    BY <1>4
  <2>3. \A u \in Tasks : call[u].op \in Exclusive /\ call'[u].at = "waiting" /\ ~call[u].met =>
          call[u].op \in control'.busy
    BY <1>4 DEF JBusy
  <2> QED
    BY <2>1, <2>2, <2>3 DEF JBusy
<1>15. JMeet'
  BY <1>4, <1>5, <1>6 DEF JMeet
<1>16. JLease'
  BY <1>4, <1>5, <1>6 DEF JLease, Listening, Closes, Requests
<1>17. JSound'
  BY <1>4, <1>5 DEF JSound, Listening, Requests
<1> QED
  BY <1>9, <1>10, <1>11, <1>12, <1>13, <1>14, <1>15, <1>16, <1>17

\* The calls that submit a request: hex_process_terminate, hex_pipe_read, _write.
LEMMA TerminateSound ==
  ASSUME IInv, JInv, NEW t \in Tasks, Terminate(t)
  PROVE  JInv'
<1>1. TypeOK /\ call[t].op \in Requests
  BY DEF IInv, Terminate, At, Requests
<1>2. /\ Submit(t)
      /\ \/ call[t].at = "resolved" /\ call[t].op \notin Exclusive
         \/ call[t].at = "passed"
         \/ call[t].at = "waiting" /\ call[t].woken
      /\ UNCHANGED <<kind, status, users, control, uv, loop>>
  BY DEF Terminate, At, Exclusive, ofTasks, capability
<1>3. call[t].op \in Exclusive /\ ~call[t].met => call[t].op \in control'.busy
  BY <1>2 DEF Terminate, At, Exclusive
<1> QED
  BY <1>1, <1>2, <1>3, RequestSubmits

LEMMA ShutdownSound ==
  ASSUME IInv, JInv, NEW t \in Tasks, Shutdown(t)
  PROVE  JInv'
<1>1. TypeOK /\ call[t].op \in Requests
  BY DEF IInv, Shutdown, At, Requests
<1>2. /\ Submit(t)
      /\ \/ call[t].at = "resolved" /\ call[t].op \notin Exclusive
         \/ call[t].at = "passed"
         \/ call[t].at = "waiting" /\ call[t].woken
      /\ UNCHANGED <<kind, status, users, control, uv, loop>>
  BY DEF Shutdown, At, Exclusive, ofTasks, capability
<1>3. call[t].op \in Exclusive /\ ~call[t].met => call[t].op \in control'.busy
  BY <1>2 DEF Shutdown, At, Exclusive
<1> QED
  BY <1>1, <1>2, <1>3, RequestSubmits

LEMMA WriteGoesOnSound ==
  ASSUME IInv, JInv, NEW t \in Tasks, WriteGoesOn(t)
  PROVE  JInv'
<1>1. TypeOK /\ call[t].op \in Requests
  BY DEF IInv, WriteGoesOn, At, Requests
<1>2. /\ Submit(t)
      /\ \/ call[t].at = "resolved" /\ call[t].op \notin Exclusive
         \/ call[t].at = "passed"
         \/ call[t].at = "waiting" /\ call[t].woken
      /\ UNCHANGED <<kind, status, users, control, uv, loop>>
  BY DEF WriteGoesOn, At, Exclusive, ofTasks, capability
<1>3. call[t].op \in Exclusive /\ ~call[t].met => call[t].op \in control'.busy
  BY <1>2 DEF WriteGoesOn, At, JInv, JBusy
<1> QED
  BY <1>1, <1>2, <1>3, RequestSubmits

\* A write of nothing has its answer at once.
LEMMA WriteOfNothing ==
  ASSUME IInv, JInv, NEW t \in Tasks, call[t].op = "write", call[t].at = "passed",
         \A u \in Tasks : u # t => call'[u] = call[u],
         call'[t].op = "write", call'[t].at = "waiting", call'[t].woken,
         call'[t].result = call[t].result, call'[t].met = call[t].met,
         UNCHANGED <<kind, status, users, uv, commands, loop>>,
         control'.exited = control.exited, control'.closed = control.closed,
         control'.busy = control.busy \cup {"write"}
  PROVE  JInv'
<1> USE DEF JInv
<1>1. /\ TypeOK /\ \A i \in 1..Len(commands) : commands[i] \in Tasks
      /\ uv.reading \in Tasks \cup {None} /\ uv.requests \subseteq Tasks
      /\ None \notin Tasks
  BY InCommands, UVFields DEF IInv
<1>2. /\ Pipe' = Pipe
      /\ \A u \in Tasks : Closes(u)' = Closes(u) /\ InQueue(u)' = InQueue(u)
      /\ ~Closes(t) /\ ~Closes(t)'
  BY DEF Pipe, Closes, InQueue
<1>3. \A u \in Tasks : call'[u].op = call[u].op /\ call'[u].met = call[u].met
  OBVIOUS
<1>4. JOnce' /\ JExit'
  BY <1>2 DEF JOnce, JExit
<1>5. JCloser'
  <2> SUFFICES ASSUME NEW u \in Tasks, Closes(u)
               PROVE  CloserSound(u)'
    BY <1>2 DEF JCloser
  <2>1. CloserSound(u) /\ call'[u] = call[u]
    BY <1>2 DEF JCloser
  <2> QED
    BY <1>2, <2>1 DEF CloserSound
<1>6. JQueue'
  <2>1. \A i \in 1..Len(commands) : call'[commands[i]] = call[commands[i]]
    BY <1>1 DEF JQueue
  <2> QED
    BY <2>1 DEF JQueue
<1>7. JNative'
  <2>1. t # uv.reading /\ t \notin uv.requests
    BY <1>1 DEF JNative, At
  <2> QED
    BY <1>1, <2>1 DEF JNative, At
<1>8. JHeld'
  <2> SUFFICES ASSUME NEW u \in Tasks, call'[u].at = "waiting", ~call'[u].woken
               PROVE  HeldSound(u)'
    BY DEF JHeld
  <2>1. HeldSound(u) /\ call'[u] = call[u]
    BY DEF JHeld
  <2> QED
    BY <1>2, <2>1 DEF HeldSound
<1>9. JBusy'
  <2>1. \A u \in Tasks : call'[u].at \in {"passed", "waiting"} <=>
                           call[u].at \in {"passed", "waiting"}
    OBVIOUS
  <2>2. \A u \in Tasks :
          call[u].op \in Exclusive /\ call'[u].at = "waiting" /\ ~call[u].met =>
            call[u].op \in control'.busy
    BY DEF JBusy
  <2> QED
    BY <1>3, <2>1, <2>2 DEF JBusy
<1>10. JMeet'
  BY <1>2, <1>3 DEF JMeet
<1>11. JLease'
  BY <1>2, <1>3 DEF JLease, Listening, Closes
<1>12. JSound'
  BY DEF JSound, Listening
<1> QED
  BY <1>4, <1>5, <1>6, <1>7, <1>8, <1>9, <1>10, <1>11, <1>12

LEMMA PipeSubmitsSound ==
  ASSUME IInv, JInv, NEW t \in Tasks, PipeSubmits(t)
  PROVE  JInv'
<1>1. /\ TypeOK /\ call[t].at = "passed" /\ call[t].op \in Exclusive
      /\ call[t].op \in Requests
      /\ UNCHANGED <<kind, status, users, uv, loop>>
      /\ control' = [control EXCEPT !.busy = control.busy \cup {call[t].op}]
  BY DEF IInv, IPlaces, PipeSubmits, Exclusive, Requests, ofTasks, capability
<1>2. /\ control'.exited = control.exited /\ control'.closed = control.closed
      /\ control'.busy = control.busy \cup {call[t].op}
  BY <1>1 DEF TypeOK
<1>3. CASE Submit(t)
  BY <1>1, <1>2, <1>3, RequestSubmits
<1>4. CASE /\ call[t].op = "write" /\ UNCHANGED commands
           /\ call' = [call EXCEPT ![t].at = "waiting", ![t].woken = TRUE]
  <2>1. /\ \A u \in Tasks : u # t => call'[u] = call[u]
        /\ call'[t].op = "write" /\ call'[t].at = "waiting" /\ call'[t].woken
        /\ call'[t].result = call[t].result /\ call'[t].met = call[t].met
    BY <1>1, <1>4, BeginsWaiting
  <2> QED
    BY <1>1, <1>2, <1>4, <2>1, WriteOfNothing
<1> QED
  BY <1>3, <1>4 DEF PipeSubmits

\* A request leaves: one that the loop does not have.
LEMMA RequestEnds ==
  ASSUME IInv, JInv, NEW t \in Tasks, call[t].op # "close",
         call[t].at = "resolved" \/ (call[t].at = "waiting" /\ call[t].woken),
         NEW woken, NEW exited, Turns(t, call[t].op, "leaving", woken, exited),
         UNCHANGED <<kind, status, users, uv, commands, loop>>,
         control'.exited = control.exited, control'.closed = control.closed,
         \A op \in control.busy :
           op \in control'.busy \/ (op = call[t].op /\ call[t].at = "waiting")
  PROVE  JInv'
<1> USE DEF JInv
<1>1. /\ TypeOK /\ \A i \in 1..Len(commands) : commands[i] \in Tasks
      /\ uv.reading \in Tasks \cup {None} /\ uv.requests \subseteq Tasks
      /\ None \notin Tasks
  BY InCommands, UVFields DEF IInv
<1>2. \A i \in 1..Len(commands) : commands[i] # t
  BY DEF JQueue
<1>3. /\ \A u \in Tasks : u # t => call'[u] = call[u]
      /\ call'[t].op = call[t].op /\ call'[t].at = "leaving"
      /\ call'[t].result # "undefined"
  BY DEF Turns
<1>4. /\ \A u \in Tasks : Closes(u)' = Closes(u) /\ InQueue(u)' = InQueue(u)
      /\ ~Closes(t) /\ Pipe' = Pipe
  BY <1>3 DEF Closes, InQueue, Pipe
<1>5. t # uv.reading /\ t \notin uv.requests
  BY <1>1 DEF JNative, At
<1>6. JOnce' /\ JExit'
  BY <1>4 DEF JOnce, JExit
<1>7. JCloser'
  <2> SUFFICES ASSUME NEW u \in Tasks, Closes(u)
               PROVE  CloserSound(u)'
    BY <1>4 DEF JCloser
  <2>1. u # t /\ CloserSound(u)
    BY <1>4 DEF JCloser
  <2> QED
    BY <1>3, <1>4, <2>1 DEF CloserSound
<1>8. JQueue'
  BY <1>1, <1>3 DEF JQueue
<1>9. JNative'
  BY <1>1, <1>3, <1>4 DEF JNative, At
<1>10. JHeld'
  <2> SUFFICES ASSUME NEW u \in Tasks, call'[u].at = "waiting", ~call'[u].woken
               PROVE  HeldSound(u)'
    BY DEF JHeld
  <2>1. call'[u] = call[u]
    BY <1>3
  <2>2. HeldSound(u)
    BY <2>1 DEF JHeld
  <2> QED
    BY <1>4, <2>1, <2>2 DEF HeldSound
<1>11. JBusy'
  <2>1. ASSUME NEW u \in Tasks, call'[u].op \in Exclusive, call'[u].at = "waiting",
               ~call'[u].met
        PROVE  call'[u].op \in control'.busy
    <3>1. u # t /\ call'[u] = call[u]
      BY <1>3, <2>1
    <3>2. call[u].op \in control.busy
      BY <2>1, <3>1 DEF JBusy
    <3>3. ~ (call[u].op = call[t].op /\ call[t].at = "waiting")
      BY <2>1, <3>1 DEF JBusy
    <3> QED
      BY <3>1, <3>2, <3>3
  <2>2. \A u, v \in Tasks :
          /\ call'[u].op \in Exclusive /\ call'[u].op = call'[v].op
          /\ call'[u].at \in {"passed", "waiting"} /\ call'[v].at \in {"passed", "waiting"}
          => u = v \/ call'[u].met
    BY <1>3 DEF JBusy
  <2> QED
    BY <2>1, <2>2 DEF JBusy
<1>12. JMeet'
  BY <1>3, <1>4 DEF JMeet
<1>13. JLease'
  BY <1>3, <1>4 DEF JLease, Listening
<1>14. JSound'
  BY <1>3 DEF JSound, Listening
<1> QED
  BY <1>6, <1>7, <1>8, <1>9, <1>10, <1>11, <1>12, <1>13, <1>14

\* The calls that end without one, and what a call does at its end.
LEMMA PipeRefusesSound ==
  ASSUME IInv, JInv, NEW t \in Tasks, PipeRefuses(t)
  PROVE  JInv'
<1>1. TypeOK /\ call[t].at = "resolved" /\ call[t].op # "close"
  BY DEF IInv, PipeRefuses, Exclusive
<1>2. PICK r \in Results \ {"undefined"} : Ends(t, r)
  BY DEF PipeRefuses, Results
<1>3. Turns(t, call[t].op, "leaving", call[t].woken, call[t].exited)
  BY <1>1, <1>2, EndsTurns
<1>4. UNCHANGED <<kind, status, users, control, uv, commands, loop>>
  BY DEF PipeRefuses, ofTasks, capability
<1> QED
  BY <1>1, <1>3, <1>4, RequestEnds

\* A call that passes meets those that passed before it.
LEMMA PipePassesSound ==
  ASSUME IInv, JInv, NEW t \in Tasks, PipePasses(t)
  PROVE  JInv'
<1> USE DEF JInv
<1>1. /\ TypeOK /\ \A i \in 1..Len(commands) : commands[i] \in Tasks
      /\ uv.reading \in Tasks \cup {None} /\ uv.requests \subseteq Tasks
      /\ None \notin Tasks
  BY InCommands, UVFields DEF IInv
<1>2. /\ call[t].op \in Exclusive /\ call[t].op \notin control.busy
      /\ call[t].at = "resolved"
      /\ UNCHANGED <<kind, status, users, control, uv, commands, loop>>
  BY DEF PipePasses, ofTasks, capability
<1>3. /\ \A u \in Tasks : u # t => Stays(u) /\ (u \in Beside(t) => call'[u].met)
      /\ call'[t].op = call[t].op /\ call'[t].at = "passed"
      /\ call'[t].result = call[t].result
      /\ call[t].met \/ Beside(t) # {} => call'[t].met
  BY <1>1, PassSets
<1>4. /\ \A u \in Tasks : call'[u].op = call[u].op /\ call'[u].result = call[u].result
      /\ \A u \in Tasks : call[u].met => call'[u].met
      /\ \A u \in Tasks : u # t =>
           /\ call'[u].at = call[u].at /\ call'[u].woken = call[u].woken
           /\ call'[u].by = call[u].by /\ call'[u].exited = call[u].exited
  BY <1>3 DEF Stays
<1>5. /\ Pipe' = Pipe
      /\ \A u \in Tasks : Closes(u)' = Closes(u) /\ InQueue(u)' = InQueue(u)
      /\ ~Closes(t)
  BY <1>2, <1>4 DEF Pipe, Closes, InQueue, Exclusive
<1>6. JOnce' /\ JExit'
  BY <1>2, <1>5 DEF JOnce, JExit
<1>7. JCloser'
  <2> SUFFICES ASSUME NEW u \in Tasks, Closes(u)
               PROVE  CloserSound(u)'
    BY <1>5 DEF JCloser
  <2>1. /\ CloserSound(u) /\ call'[u].at = call[u].at
        /\ call'[u].woken = call[u].woken /\ call'[u].exited = call[u].exited
    BY <1>4, <1>5 DEF JCloser
  <2> QED
    BY <1>2, <1>5, <2>1 DEF CloserSound
<1>8. JQueue'
  <2>1. \A i \in 1..Len(commands) :
          /\ call'[commands[i]].op = call[commands[i]].op
          /\ call'[commands[i]].at = call[commands[i]].at
          /\ call'[commands[i]].woken = call[commands[i]].woken
    BY <1>1, <1>2, <1>4 DEF JQueue
  <2> QED
    BY <1>2, <2>1 DEF JQueue
<1>9. JNative'
  <2>1. t # uv.reading /\ t \notin uv.requests
    BY <1>1, <1>2 DEF JNative, At
  <2> QED
    BY <1>1, <1>2, <1>4, <2>1 DEF JNative, At
<1>10. JHeld'
  <2> SUFFICES ASSUME NEW u \in Tasks, call'[u].at = "waiting", ~call'[u].woken
               PROVE  HeldSound(u)'
    BY DEF JHeld
  <2>1. u # t
    BY <1>3
  <2>2. HeldSound(u)
    BY <1>4, <2>1 DEF JHeld
  <2> QED
    BY <1>2, <1>4, <1>5, <2>2 DEF HeldSound
<1>11. JBusy'
  <2>1. \A u \in Tasks :
          call'[u].op \in Exclusive /\ call'[u].at = "waiting" /\ ~call'[u].met =>
            call'[u].op \in control.busy
    BY <1>3, <1>4 DEF JBusy
  <2>2. ASSUME NEW u \in Tasks, u # t, call[u].op = call[t].op,
               call[u].at \in {"passed", "waiting"}
        PROVE  call'[u].met /\ call'[t].met
    <3>1. call[u].at = "waiting" => call[u].met
      BY <1>2, <2>2 DEF JBusy
    <3>2. u \in Beside(t)
      BY <2>2, <3>1 DEF Beside
    <3> QED
      BY <1>3, <2>2, <3>2
  <2>3. ASSUME NEW u \in Tasks, NEW v \in Tasks, u # v,
               call[u].op \in Exclusive, call[u].op = call[v].op,
               call'[u].at \in {"passed", "waiting"}, call'[v].at \in {"passed", "waiting"}
        PROVE  call'[u].met
    <3>1. CASE u = t
      BY <1>4, <2>2, <2>3, <3>1
    <3>2. CASE v = t
      BY <1>4, <2>2, <2>3, <3>2
    <3>3. CASE u # t /\ v # t
      BY <1>4, <2>3, <3>3 DEF JBusy
    <3> QED
      BY <3>1, <3>2, <3>3
  <2> QED
    BY <1>2, <1>4, <2>1, <2>3 DEF JBusy
<1>12. JMeet'
  <2> SUFFICES ASSUME NEW c \in Tasks, NEW u \in Tasks, Closes(c), Pipe,
                      call[u].op = "read", call'[u].at # "leaving"
               PROVE  call'[c].met /\ call'[u].met
    BY <1>4, <1>5 DEF JMeet
  <2>1. call[u].at # "leaving"
    BY <1>2, <1>4
  <2> QED
    BY <1>4, <2>1 DEF JMeet
<1>13. JLease'
  <2>1. \A u \in Tasks : Listening(u)' = Listening(u) /\ (Listening(u) => u # t)
    BY <1>2, <1>4 DEF Listening, Exclusive
  <2> QED
    BY <1>2, <1>4, <1>5, <2>1 DEF JLease
<1>14. JSound'
  <2>1. call[t].op \notin {"none", "wait", "next"}
    BY <1>2 DEF Exclusive
  <2> QED
    BY <1>2, <1>4, <2>1 DEF JSound, Listening
<1> QED
  BY <1>6, <1>7, <1>8, <1>9, <1>10, <1>11, <1>12, <1>13, <1>14

LEMMA RequestReturnsSound ==
  ASSUME IInv, JInv, NEW t \in Tasks, RequestReturns(t)
  PROVE  JInv'
<1>1. /\ TypeOK /\ call[t].at = "waiting" /\ call[t].woken /\ call[t].op # "close"
      /\ call[t].result # "undefined"
      /\ call' = [call EXCEPT ![t].at = "leaving"]
      /\ UNCHANGED <<kind, status, users, uv, commands, loop>>
  BY DEF IInv, RequestReturns, ofTasks, capability, JInv, JSound
<1>2. Turns(t, call[t].op, "leaving", call[t].woken, call[t].exited)
  BY <1>1, MovesTurns DEF Places
<1>3. /\ control'.exited = control.exited /\ control'.closed = control.closed
      /\ control'.busy = control.busy \ {call[t].op}
  BY DEF RequestReturns
<1> QED
  BY <1>1, <1>2, <1>3, RequestEnds

LEMMA LeavesSound ==
  ASSUME IInv, JInv, NEW t \in Tasks, Leaves(t)
  PROVE  JInv'
<1> USE DEF JInv
<1>1. /\ TypeOK /\ \A i \in 1..Len(commands) : commands[i] \in Tasks
      /\ uv.reading \in Tasks \cup {None} /\ uv.requests \subseteq Tasks
      /\ None \notin Tasks /\ Teardown # t
  BY InCommands, UVFields, ProcessSignalAssumption DEF IInv
<1>2. /\ call[t].at = "leaving" /\ call' = [call EXCEPT ![t] = NoCall]
      /\ UNCHANGED <<kind, status, control, uv, commands, loop>>
  BY DEF Leaves, Registry!Leave, capability
<1>3. /\ \A u \in Tasks : u # t => call'[u] = call[u]
      /\ call'[t].op = "none" /\ call'[t].at = "idle"
      /\ call'[t].result # "undefined"
  BY <1>1, <1>2 DEF TypeOK, NoCall
<1>4. users'[Block] = users[Block] \ {t}
  BY <1>1, Fields DEF Leaves, Registry!Leave, capability
<1>5. \A i \in 1..Len(commands) : commands[i] # t
  BY <1>2 DEF JQueue
<1>6. /\ \A u \in Tasks : InQueue(u)' = InQueue(u) /\ (u # t => Closes(u)' = Closes(u))
      /\ ~Closes(t)' /\ Pipe' = Pipe
  BY <1>2, <1>3 DEF Closes, InQueue, Pipe
<1>7. t # uv.reading /\ t \notin uv.requests
  BY <1>1, <1>2 DEF JNative, At
<1>8. JOnce'
  BY <1>2, <1>6 DEF JOnce
<1>9. JCloser'
  <2> SUFFICES ASSUME NEW u \in Tasks, Closes(u)'
               PROVE  CloserSound(u)'
    BY DEF JCloser
  <2>1. u # t /\ Closes(u) /\ CloserSound(u)
    BY <1>6 DEF JCloser
  <2> QED
    BY <1>2, <1>6, <2>1 DEF CloserSound
<1>10. JExit'
  BY <1>2 DEF JExit
<1>11. JQueue'
  BY <1>2 DEF JQueue
<1>12. JNative'
  BY <1>2, <1>6 DEF JNative, At
<1>13. JHeld'
  <2> SUFFICES ASSUME NEW u \in Tasks, call'[u].at = "waiting", ~call'[u].woken
               PROVE  HeldSound(u)'
    BY DEF JHeld
  <2>1. call'[u] = call[u]
    BY <1>3
  <2>2. HeldSound(u)
    BY <2>1 DEF JHeld
  <2> QED
    BY <1>2, <1>6, <2>1, <2>2 DEF HeldSound
<1>14. JBusy'
  <2>1. \A u \in Tasks : call'[u].op \in Exclusive => call'[u] = call[u]
    BY <1>3 DEF Exclusive
  <2> QED
    BY <1>2, <2>1 DEF JBusy
<1>15. JMeet'
  BY <1>3, <1>6 DEF JMeet
<1>16. JLease'
  BY <1>1, <1>2, <1>3, <1>4, <1>6 DEF JLease, Requests, Listening
<1>17. JSound'
  BY <1>2, <1>3 DEF JSound, Listening
<1> QED
  BY <1>8, <1>9, <1>10, <1>11, <1>12, <1>13, <1>14, <1>15, <1>16, <1>17

\* The closes: begin, take the waiters, submit, end.
LEMMA CloseBeginsSound ==
  ASSUME IInv, JInv, NEW t \in Tasks, CloseBegins(t)
  PROVE  JInv'
<1> USE DEF JInv
<1>1. /\ TypeOK /\ \A i \in 1..Len(commands) : commands[i] \in Tasks
      /\ uv.reading \in Tasks \cup {None} /\ uv.requests \subseteq Tasks
      /\ None \notin Tasks /\ Teardown # t
  BY InCommands, UVFields, ProcessSignalAssumption DEF IInv
<1>2. call[t].at = "idle" /\ UNCHANGED <<kind, control, uv, commands, loop>>
  BY DEF CloseBegins
<1>3. /\ status[Block] = "open" /\ status'[Block] = "closing"
      /\ users'[Block] = users[Block] \cup {Teardown}
  BY <1>1, Fields DEF CloseBegins, Registry!Close
<1>4. /\ \A u \in Tasks : u # t => Stays(u) /\ (u \in ReadsUnderWay => call'[u].met)
      /\ call'[t].op = "close" /\ call'[t].at = "resolved"
      /\ call'[t].result = "none"
      /\ ReadsUnderWay # {} => call'[t].met
  BY <1>1, CloseSets
<1>5. \A u \in Tasks : u # t =>
        /\ call'[u].op = call[u].op /\ call'[u].at = call[u].at
        /\ call'[u].woken = call[u].woken /\ call'[u].exited = call[u].exited
        /\ call'[u].by = call[u].by /\ call'[u].result = call[u].result
        /\ call[u].met => call'[u].met
  BY <1>4 DEF Stays
<1>6. \A i \in 1..Len(commands) : commands[i] # t
  BY <1>2 DEF JQueue
<1>7. /\ \A u \in Tasks : ~Closes(u)
      /\ \A u \in Tasks : Closes(u)' => u = t
      /\ uv.closes = 0 /\ ~control.closed /\ uv.closing = {}
  BY <1>3, <1>5 DEF Closes, JOnce, JNative
<1>8. Pipe' = Pipe /\ ~InQueue(t)' /\ \A u \in Tasks : InQueue(u)' = InQueue(u)
  BY <1>2, <1>6 DEF Pipe, InQueue
<1>9. t # uv.reading /\ t \notin uv.requests
  BY <1>1, <1>2 DEF JNative, At
<1>10. JOnce'
  BY <1>3, <1>7 DEF JOnce
<1>11. JCloser'
  BY <1>2, <1>4, <1>7, <1>8 DEF JCloser, CloserSound
<1>12. JExit'
  BY <1>2 DEF JExit
<1>13. JQueue'
  <2>1. \A i \in 1..Len(commands) :
          /\ call'[commands[i]].op = call[commands[i]].op
          /\ call'[commands[i]].at = call[commands[i]].at
          /\ call'[commands[i]].woken = call[commands[i]].woken
    BY <1>1, <1>5, <1>6
  <2> QED
    BY <1>2, <2>1 DEF JQueue
<1>14. JNative'
  BY <1>1, <1>2, <1>5, <1>9 DEF JNative, At
<1>15. JHeld'
  <2> SUFFICES ASSUME NEW u \in Tasks, call'[u].at = "waiting", ~call'[u].woken
               PROVE  HeldSound(u)'
    BY DEF JHeld
  <2>1. u # t
    BY <1>4
  <2>2. HeldSound(u) /\ ~Closes(u)
    BY <1>5, <1>7, <2>1 DEF JHeld
  <2> QED
    BY <1>2, <1>5, <1>8, <2>1, <2>2 DEF HeldSound, Closes
<1>16. JBusy'
  <2>1. \A u \in Tasks : call'[u].op \in Exclusive => u # t
    BY <1>4 DEF Exclusive
  <2> QED
    BY <1>2, <1>5, <2>1 DEF JBusy
<1>17. JMeet'
  <2> SUFFICES ASSUME NEW c \in Tasks, NEW u \in Tasks, Closes(c)',
                      call'[u].op = "read", call'[u].at # "leaving"
               PROVE  call'[c].met /\ call'[u].met
    BY DEF JMeet
  <2>1. c = t /\ u # t
    BY <1>4, <1>7
  <2>2. u \in ReadsUnderWay
    BY <1>5, <2>1 DEF ReadsUnderWay
  <2> QED
    BY <1>4, <2>1, <2>2
<1>18. JLease'
  BY <1>3, <1>4, <1>5 DEF JLease, Requests, Listening, Closes
<1>19. JSound'
  BY <1>2, <1>4, <1>5 DEF JSound, Listening
<1> QED
  BY <1>10, <1>11, <1>12, <1>13, <1>14, <1>15, <1>16, <1>17, <1>18, <1>19

LEMMA CloseTakesSound ==
  ASSUME IInv, JInv, NEW t \in Tasks, CloseTakes(t)
  PROVE  JInv'
<1> USE DEF JInv
<1>1. /\ TypeOK /\ \A i \in 1..Len(commands) : commands[i] \in Tasks
      /\ uv.reading \in Tasks \cup {None} /\ uv.requests \subseteq Tasks
      /\ None \notin Tasks /\ Teardown # t
  BY InCommands, UVFields, ProcessSignalAssumption DEF IInv
<1>2. /\ call[t].op = "close" /\ call[t].at = "resolved" /\ ~Pipe
      /\ UNCHANGED <<kind, status, users, uv, commands, loop>>
  BY DEF CloseTakes, At, ofTasks, capability
<1>3. /\ control'.exited = control.exited /\ control'.closed = TRUE
      /\ control'.busy = control.busy
  BY DEF CloseTakes
<1>4. /\ \A u \in Tasks : Listening(u) => u # t
      /\ \A u \in control.waiters : Listening(u)
  BY <1>2 DEF IInv, NobodyForgotten, Waiting, Listening
<1>5. /\ \A u \in Tasks : ~Listening(u) /\ u # t => call'[u] = call[u]
      /\ \A u \in Tasks : Listening(u) =>
           /\ call'[u].op = call[u].op /\ call'[u].at = call[u].at
           /\ call'[u].result = call[u].result
           /\ u \notin control.waiters => call'[u] = call[u]
      /\ call'[t].op = "close" /\ call'[t].at = "draining"
      /\ call'[t].exited = control.exited /\ call'[t].result = call[t].result
  <2> DEFINE f == TakenOff(control.waiters, "close")
             c == [f[t] EXCEPT !.at = "draining", !.exited = control.exited]
  <2>1. control.waiters \in SUBSET Tasks /\ control.exited \in BOOLEAN
    BY <1>1, Fields
  <2>2. /\ f \in [Tasks -> Call]
        /\ \A u \in Tasks : f[u].op = call[u].op /\ f[u].at = call[u].at
                             /\ f[u].result = call[u].result
    BY <1>1, <2>1, TakenSets
  <2>3. \A u \in Tasks : ~Listening(u) \/ u \notin control.waiters => f[u] = call[u]
    BY <1>4 DEF TakenOff
  <2> HIDE DEF f
  <2>4. f[t] \in Call
    BY <2>2
  <2>5. /\ c \in Call /\ c.op = f[t].op /\ c.result = f[t].result
        /\ c.at = "draining" /\ c.exited = control.exited
    BY <2>1, <2>4 DEF Call
  <2>6. call' = [f EXCEPT ![t] = c]
    BY DEF CloseTakes, f
  <2> HIDE DEF c
  <2> QED
    BY <1>2, <1>4, <2>2, <2>3, <2>5, <2>6
<1>6. /\ \A u \in Tasks : call'[u].op = call[u].op
      /\ \A u \in Tasks : call[u].op \notin {"wait", "next", "close"} => call'[u] = call[u]
  BY <1>2, <1>5 DEF Listening
<1>7. /\ \A u \in Tasks : Closes(u) => u = t
      /\ Closes(t) /\ CloserSound(t) /\ status[Block] \in {"closing", "freed"}
  BY DEF JOnce, JCloser, Closes, CloseTakes, At
<1>8. \A u \in Tasks : Closes(u)' = Closes(u) /\ InQueue(u)' = InQueue(u)
  BY <1>2, <1>6 DEF Closes, InQueue
<1>9. /\ Pipe' = Pipe /\ uv.closes = 0 /\ ~loop.closed /\ ~control.closed
      /\ ~InQueue(t)
  BY <1>2, <1>7 DEF Pipe, CloserSound, JExit, InQueue, JQueue
<1>10. \A u \in Tasks : u # t => call[u].op # "close"
  BY <1>7 DEF Closes
<1>11. JOnce'
  BY <1>2, <1>7, <1>8 DEF JOnce
<1>12. JCloser'
  <2> SUFFICES ASSUME NEW u \in Tasks, Closes(u)'
               PROVE  CloserSound(u)'
    BY DEF JCloser
  <2>1. u = t
    BY <1>7, <1>8
  <2> QED
    BY <1>2, <1>3, <1>5, <1>9, <2>1 DEF CloserSound
<1>13. JExit'
  BY <1>2, <1>9 DEF JExit
<1>14. JQueue'
  <2>1. \A i \in 1..Len(commands) : commands[i] # t
    BY <1>2 DEF JQueue
  <2>2. \A i \in 1..Len(commands) : call'[commands[i]] = call[commands[i]]
    BY <1>1, <1>6, <1>10, <2>1 DEF JQueue, Requests
  <2> QED
    BY <1>2, <2>2 DEF JQueue
<1>15. JNative'
  BY <1>1, <1>2, <1>6, <1>9 DEF JNative, At
<1>16. JBusy'
  BY <1>3, <1>6 DEF JBusy, Exclusive
<1>17. JLease'
  BY <1>2, <1>5, <1>6, <1>8, <1>9 DEF JLease, Listening
<1>18. JSound'
  <2>1. \A u \in control.waiters : call[u].at # "leaving"
    BY DEF IInv, NobodyForgotten, Waiting
  <2>2. \A u \in Tasks : u # t =>
          call'[u] = call[u] \/ (Listening(u) /\ call[u].at # "leaving")
    BY <1>5, <2>1
  <2>3. \A u \in Tasks : call'[u].result = "undefined" => call'[u] = call[u]
    BY <1>2, <1>5, <2>2 DEF JSound, Listening
  <2> QED
    BY <1>2, <1>5, <1>6, <2>3 DEF JSound, Listening
<1>19. JHeld'
  <2> SUFFICES ASSUME NEW u \in Tasks, call'[u].at = "waiting", ~call'[u].woken
               PROVE  HeldSound(u)'
    BY DEF JHeld
  <2>1. u # t
    BY <1>5
  <2>2. CASE call[u].op \in {"wait", "next"}
    BY <1>6, <2>2 DEF HeldSound
  <2>3. CASE call[u].op \notin {"wait", "next"}
    <3>1. call'[u] = call[u]
      BY <1>6, <1>10, <2>1, <2>3
    <3>2. HeldSound(u)
      BY <3>1 DEF JHeld
    <3> QED
      BY <1>2, <1>8, <1>9, <3>1, <3>2 DEF HeldSound
  <2> QED
    BY <2>2, <2>3
<1>20. JMeet'
  BY <1>2, <1>9 DEF JMeet
<1> QED
  BY <1>19, <1>20, <1>11, <1>12, <1>13, <1>14, <1>15, <1>16, <1>17, <1>18

\* A close submits, and it is its turn to have the native handle closed.
LEMMA CloseSubmits ==
  ASSUME IInv, JInv, NEW t \in Tasks, call[t].op = "close", Submit(t),
         call[t].at \in {"resolved", "draining"},
         kind = "process" => call[t].at = "draining" /\ call[t].exited,
         UNCHANGED <<kind, status, users, control, uv, loop>>
  PROVE  JInv'
<1> USE DEF JInv
<1>1. /\ TypeOK /\ call[t].result # "undefined"
      /\ uv.reading \in Tasks \cup {None} /\ uv.requests \subseteq Tasks
      /\ None \notin Tasks
  BY UVFields DEF IInv, JSound, Listening
<1>2. /\ Turns(t, call[t].op, "waiting", FALSE, call[t].exited)
      /\ call'[t].met = call[t].met
      /\ \A u \in Tasks : InQueue(u)' <=> InQueue(u) \/ u = t
      /\ Len(commands) \in Nat
      /\ \A i \in 1..Len(commands') :
           \/ i \in 1..Len(commands) /\ commands'[i] = commands[i]
           \/ i = Len(commands) + 1 /\ commands'[i] = t
      /\ \A i \in 1..Len(commands) : commands[i] \in Tasks
  BY <1>1, SubmitTurns
<1>3. /\ \A u \in Tasks : u # t => call'[u] = call[u]
      /\ call'[t].op = "close" /\ call'[t].at = "waiting"
      /\ ~call'[t].woken /\ call'[t].result # "undefined" /\ call'[t].met = call[t].met
  BY <1>2 DEF Turns
<1>4. Pipe' = Pipe /\ \A u \in Tasks : Closes(u)' = Closes(u)
  BY <1>3 DEF Closes, Pipe
<1>5. /\ \A u \in Tasks : Closes(u) => u = t
      /\ CloserSound(t)
  BY DEF JOnce, JCloser, Closes
<1>6. uv.closes = 0 /\ ~loop.closed /\ (kind = "process" => control.exited)
  BY <1>5 DEF CloserSound, JExit
<1>7. \A i \in 1..Len(commands) : commands[i] # t
  BY DEF JQueue
<1>8. t # uv.reading /\ t \notin uv.requests
  BY <1>1 DEF JNative, At
<1>9. JOnce' /\ JExit'
  BY <1>4 DEF JOnce, JExit
<1>10. JCloser'
  BY <1>3, <1>4, <1>6 DEF JCloser, CloserSound
<1>11. JQueue'
  <2>1. \A i \in 1..Len(commands') :
          /\ call'[commands'[i]].op \in Requests \cup {"close"}
          /\ call'[commands'[i]].at = "waiting" /\ ~call'[commands'[i]].woken
          /\ commands'[i] # uv.reading /\ commands'[i] \notin uv.requests
    <3>1. ASSUME NEW i \in 1..Len(commands), commands'[i] = commands[i]
          PROVE  /\ call'[commands'[i]].op \in Requests \cup {"close"}
                 /\ call'[commands'[i]].at = "waiting" /\ ~call'[commands'[i]].woken
                 /\ commands'[i] # uv.reading /\ commands'[i] \notin uv.requests
      <4>1. call'[commands'[i]] = call[commands[i]]
        BY <1>2, <1>3, <1>7, <3>1
      <4> QED
        BY <3>1, <4>1 DEF JQueue
    <3> QED
      BY <1>2, <1>3, <1>8, <3>1
  <2>2. ASSUME NEW i \in 1..Len(commands'), NEW j \in 1..Len(commands'),
               commands'[i] = commands'[j]
        PROVE  i = j
    <3>1. \/ i \in 1..Len(commands) /\ commands'[i] = commands[i]
          \/ i = Len(commands) + 1 /\ commands'[i] = t
      BY <1>2
    <3>2. \/ j \in 1..Len(commands) /\ commands'[j] = commands[j]
          \/ j = Len(commands) + 1 /\ commands'[j] = t
      BY <1>2
    <3> QED
      BY <2>2, <3>1, <3>2 DEF JQueue
  <2> QED
    BY <2>1, <2>2 DEF JQueue
<1>12. JNative'
  BY <1>1, <1>3, <1>8 DEF JNative, At
<1>13. JHeld'
  <2> SUFFICES ASSUME NEW u \in Tasks, call'[u].at = "waiting", ~call'[u].woken
               PROVE  HeldSound(u)'
    BY DEF JHeld
  <2>1. CASE u = t
    BY <1>2, <1>3, <2>1 DEF HeldSound
  <2>2. CASE u # t
    <3>1. call'[u] = call[u] /\ (InQueue(u) => InQueue(u)')
      BY <1>2, <1>3, <2>2
    <3>2. HeldSound(u)
      BY <3>1 DEF JHeld
    <3> QED
      BY <1>4, <3>1, <3>2 DEF HeldSound
  <2> QED
    BY <2>1, <2>2
<1>14. JBusy'
  BY <1>3, <1>4 DEF JBusy, Exclusive
<1>15. JMeet'
  BY <1>3, <1>4 DEF JMeet
<1>16. JLease'
  <2>1. Teardown \in users[Block]
    BY <1>6 DEF JLease, JOnce, Closes
  <2> QED
    BY <1>3, <1>4, <2>1 DEF JLease, Listening, Requests
<1>17. JSound'
  BY <1>3 DEF JSound, Listening
<1> QED
  BY <1>9, <1>10, <1>11, <1>12, <1>13, <1>14, <1>15, <1>16, <1>17

\* A close leaves when it is not, or no more, its turn.
LEMMA CloseEnds ==
  ASSUME IInv, JInv, NEW t \in Tasks, call[t].op = "close", Ends(t, "done"),
         call[t].at = "draining" \/ (call[t].at = "waiting" /\ call[t].woken),
         UNCHANGED <<kind, status, control, uv, commands, loop>>,
         \/ users' = users
         \/ /\ users'[Block] = users[Block] \ {Teardown}
            /\ uv.closes = 1 /\ uv.closing = {}
  PROVE  JInv'
<1> USE DEF JInv
<1>1. /\ TypeOK /\ \A i \in 1..Len(commands) : commands[i] \in Tasks
      /\ uv.reading \in Tasks \cup {None} /\ uv.requests \subseteq Tasks
      /\ None \notin Tasks /\ Teardown \notin Tasks
  BY InCommands, UVFields, ProcessSignalAssumption DEF IInv
<1>2. /\ Turns(t, call[t].op, "leaving", call[t].woken, call[t].exited)
      /\ call'[t].met = call[t].met
  BY <1>1, EndsTurns DEF Results
<1>3. /\ \A u \in Tasks : u # t => call'[u] = call[u]
      /\ call'[t].op = "close" /\ call'[t].at = "leaving"
      /\ call'[t].result # "undefined" /\ call'[t].met = call[t].met
  BY <1>2 DEF Turns
<1>4. Pipe' = Pipe /\ \A u \in Tasks : Closes(u)' = Closes(u) /\ InQueue(u)' = InQueue(u)
  BY <1>3 DEF Closes, Pipe, InQueue
<1>5. /\ \A u \in Tasks : Closes(u) => u = t
      /\ CloserSound(t)
  BY DEF JOnce, JCloser, Closes
<1>6. \A i \in 1..Len(commands) : commands[i] # t
  BY DEF JQueue
<1>7. t # uv.reading /\ t \notin uv.requests
  BY <1>1 DEF JNative, At
<1>8. ~Pipe \/ uv.closing = {}
  BY <1>5 DEF CloserSound
<1>9. ~InQueue(t)
  BY <1>6 DEF InQueue
<1>10. JOnce' /\ JExit'
  BY <1>4 DEF JOnce, JExit
<1>11. JCloser'
  BY <1>3, <1>4 DEF JCloser, CloserSound
<1>12. JQueue'
  BY <1>1, <1>3 DEF JQueue
<1>13. JNative'
  BY <1>1, <1>3, <1>7 DEF JNative, At
<1>14. JHeld'
  <2> SUFFICES ASSUME NEW u \in Tasks, call'[u].at = "waiting", ~call'[u].woken
               PROVE  HeldSound(u)'
    BY DEF JHeld
  <2>1. call'[u] = call[u]
    BY <1>3
  <2>2. HeldSound(u)
    BY <2>1 DEF JHeld
  <2> QED
    BY <1>4, <2>1, <2>2 DEF HeldSound
<1>15. JBusy'
  BY <1>3, <1>4 DEF JBusy, Exclusive
<1>16. JMeet'
  BY <1>3, <1>4 DEF JMeet
<1>17. JLease'
  <2>1. \A u \in Tasks : Closes(u)' => call'[u].at = "leaving"
    BY <1>3, <1>4, <1>5
  <2> QED
    BY <1>1, <1>3, <2>1 DEF JLease, Listening, Requests
<1>18. JSound'
  BY <1>3 DEF JSound, Listening
<1> QED
  BY <1>10, <1>11, <1>12, <1>13, <1>14, <1>15, <1>16, <1>17, <1>18

LEMMA CloseGoesOnSound ==
  ASSUME IInv, JInv, NEW t \in Tasks, CloseGoesOn(t)
  PROVE  JInv'
<1>1. /\ call[t].op = "close" /\ call[t].at = "draining"
      /\ UNCHANGED <<kind, status, users, control, uv, loop>>
      /\ \/ Ends(t, "done") /\ UNCHANGED commands
         \/ (kind = "process" => call[t].exited) /\ Submit(t)
  BY DEF CloseGoesOn, At, ofTasks, capability
<1> QED
  BY <1>1, CloseSubmits, CloseEnds

LEMMA PipeCloseSubmitsSound ==
  ASSUME IInv, JInv, NEW t \in Tasks, PipeCloseSubmits(t)
  PROVE  JInv'
<1>1. /\ call[t].op = "close" /\ call[t].at = "resolved" /\ kind # "process"
      /\ UNCHANGED <<kind, status, users, control, uv, loop>>
      /\ Submit(t)
  BY DEF PipeCloseSubmits, At, ofTasks, capability, Pipe
<1> QED
  BY <1>1, CloseSubmits

LEMMA CloseReturnsSound ==
  ASSUME IInv, JInv, NEW t \in Tasks, CloseReturns(t)
  PROVE  JInv'
<1>1. /\ call[t].op = "close" /\ call[t].at = "waiting" /\ call[t].woken
      /\ UNCHANGED <<kind, status, control, uv, commands, loop>>
      /\ Ends(t, "done")
  BY DEF CloseReturns, At, Registry!Leave, capability
<1>2. CASE Pipe
  <2>1. users'[Block] = users[Block] \ {Teardown}
    BY <1>2, Fields DEF CloseReturns, Registry!Leave, IInv
  <2>2. uv.closes = 1 /\ uv.closing = {}
    BY <1>1, <1>2 DEF JInv, JCloser, Closes, CloserSound
  <2> QED
    BY <1>1, <2>1, <2>2, CloseEnds
<1>3. CASE ~Pipe
  <2>1. users' = users
    BY <1>3 DEF CloseReturns, capability
  <2> QED
    BY <1>1, <2>1, CloseEnds
<1> QED
  BY <1>2, <1>3

\* An answer to a request: the call that it wakes is nobody else's.
LEMMA AnswerSound ==
  ASSUME IInv, JInv, NEW t \in Tasks, NEW r \in Results \ {"undefined"}, Answer(t, r),
         call[t].op \in Requests,
         UNCHANGED <<kind, status, users, control, loop>>,
         \A i \in 1..Len(commands') :
           \E j \in 1..Len(commands) : commands'[i] = commands[j] /\ commands[j] # t,
         \A i, j \in 1..Len(commands') : commands'[i] = commands'[j] => i = j,
         \A u \in Tasks : u # t /\ InQueue(u) => InQueue(u)',
         uv'.closes = uv.closes, uv'.closing = uv.closing,
         uv'.reading \in {uv.reading, None},
         \A u \in Tasks : u # t /\ uv.reading = u => uv'.reading = u,
         uv'.requests \subseteq uv.requests, uv.requests \subseteq uv'.requests \cup {t},
         uv'.reading # t, t \notin uv'.requests,
         \A u \in Tasks :
           /\ u # t /\ uv.data = u /\ call[u].at = "waiting"
           /\ call[u].op = "read" \/ (Closes(u) /\ Pipe)
           => call[u].met \/ uv'.data = u
  PROVE  JInv'
<1> USE DEF JInv
<1>1. /\ TypeOK /\ \A i \in 1..Len(commands) : commands[i] \in Tasks
      /\ uv.reading \in Tasks \cup {None} /\ uv.requests \subseteq Tasks
      /\ uv.data \in Tasks \cup {None} /\ None \notin Tasks
  BY InCommands, UVFields DEF IInv
<1>2. /\ Turns(t, call[t].op, call[t].at, TRUE, call[t].exited)
      /\ call'[t].met = call[t].met
  BY <1>1, AnswerTurns
<1>3. /\ \A u \in Tasks : u # t => call'[u] = call[u]
      /\ call'[t].op = call[t].op /\ call'[t].at = call[t].at /\ call'[t].woken
      /\ call'[t].result # "undefined" /\ call'[t].met = call[t].met
  BY <1>2 DEF Turns
<1>4. /\ Pipe' = Pipe /\ ~Closes(t)
      /\ \A u \in Tasks : Closes(u)' = Closes(u) /\ (InQueue(u)' => InQueue(u))
  <2>1. ASSUME NEW u \in Tasks, InQueue(u)'
        PROVE  InQueue(u)
    <3>1. PICK i \in 1..Len(commands') : commands'[i] = u
      BY <2>1 DEF InQueue
    <3>2. PICK j \in 1..Len(commands) : commands'[i] = commands[j]
      OBVIOUS
    <3> QED
      BY <3>1, <3>2 DEF InQueue
  <2>2. \A u \in Tasks : Closes(u)' = Closes(u)
    BY <1>3 DEF Closes
  <2> QED
    BY <2>1, <2>2 DEF Closes, Pipe, Requests
<1>5. \A u \in Tasks : /\ call'[u].op = call[u].op /\ call'[u].at = call[u].at
                       /\ call'[u].met = call[u].met
  BY <1>3
<1>6. JOnce' /\ JExit'
  BY <1>4 DEF JOnce, JExit
<1>7. JCloser'
  <2> SUFFICES ASSUME NEW u \in Tasks, Closes(u)
               PROVE  CloserSound(u)'
    BY <1>4 DEF JCloser
  <2>1. u # t /\ CloserSound(u)
    BY <1>4 DEF JCloser
  <2> QED
    BY <1>3, <1>4, <2>1 DEF CloserSound
<1>8. JQueue'
  <2>1. ASSUME NEW i \in 1..Len(commands')
        PROVE  /\ call'[commands'[i]].op \in Requests \cup {"close"}
               /\ call'[commands'[i]].at = "waiting" /\ ~call'[commands'[i]].woken
               /\ commands'[i] # uv'.reading /\ commands'[i] \notin uv'.requests
    <3>1. PICK j \in 1..Len(commands) : commands'[i] = commands[j] /\ commands[j] # t
      OBVIOUS
    <3>2. call'[commands'[i]] = call[commands[j]] /\ commands[j] \in Tasks
      BY <1>1, <1>3, <3>1
    <3> QED
      BY <1>1, <3>2 DEF JQueue
  <2> QED
    BY <2>1 DEF JQueue
<1>9. JNative'
  <2>1. ASSUME uv'.reading # None
        PROVE  /\ uv'.reading \in Tasks
               /\ call'[uv'.reading].op = "read" /\ call'[uv'.reading].at = "waiting"
               /\ ~call'[uv'.reading].woken
               /\ call'[uv'.reading].met \/ uv'.data = uv'.reading
    <3>1. uv'.reading = uv.reading /\ uv.reading # None /\ uv.reading # t
      BY <2>1
    <3>2. /\ uv.reading \in Tasks
          /\ call[uv.reading].op = "read" /\ call[uv.reading].at = "waiting"
          /\ ~call[uv.reading].woken
          /\ call[uv.reading].met \/ uv.data = uv.reading
      BY <3>1 DEF JNative, At
    <3>3. call'[uv.reading] = call[uv.reading]
      BY <1>3, <3>1, <3>2
    <3> QED
      BY <3>1, <3>2, <3>3
  <2>2. \A u \in uv'.requests :
          call'[u].op \in {"write", "shutdown"} /\ call'[u].at = "waiting" /\ ~call'[u].woken
    BY <1>1, <1>3 DEF JNative
  <2>3. uv'.closing # {} => uv'.closes = 1
    BY DEF JNative
  <2> QED
    BY <2>1, <2>2, <2>3 DEF JNative, At
<1>10. JHeld'
  <2> SUFFICES ASSUME NEW u \in Tasks, call'[u].at = "waiting", ~call'[u].woken
               PROVE  HeldSound(u)'
    BY DEF JHeld
  <2>1. u # t
    BY <1>3
  <2>2. call'[u] = call[u]
    BY <1>3, <2>1
  <2>3. HeldSound(u) /\ (InQueue(u) => InQueue(u)')
    BY <2>1, <2>2 DEF JHeld
  <2>4. u \in uv.requests => u \in uv'.requests
    BY <2>1
  <2> QED
    BY <1>4, <2>1, <2>2, <2>3, <2>4 DEF HeldSound, Closes
<1>11. JBusy'
  BY <1>5 DEF JBusy
<1>12. JMeet'
  BY <1>4, <1>5 DEF JMeet
<1>13. JLease'
  BY <1>4, <1>5 DEF JLease, Listening
<1>14. JSound'
  BY <1>3, <1>5 DEF JSound, Listening
<1> QED
  BY <1>6, <1>7, <1>8, <1>9, <1>10, <1>11, <1>12, <1>13, <1>14

\* libuv gets a request.
LEMMA HandedSound ==
  ASSUME IInv, JInv, NEW t \in Tasks, UNCHANGED <<kind, status, users, control, loop, call>>,
         call[t].op \in {"read", "write", "shutdown"},
         call[t].at = "waiting" /\ ~call[t].woken,
         \A i \in 1..Len(commands') :
           \E j \in 1..Len(commands) : commands'[i] = commands[j] /\ commands[j] # t,
         \A i, j \in 1..Len(commands') : commands'[i] = commands'[j] => i = j,
         \A u \in Tasks : u # t /\ InQueue(u) => InQueue(u)',
         uv'.closes = uv.closes, uv'.closing = uv.closing,
         \/ /\ call[t].op = "read" /\ uv'.reading = t /\ uv'.data = t
            /\ uv'.requests = uv.requests /\ uv.closing = {} /\ uv.reading = None
         \/ /\ call[t].op # "read" /\ uv'.reading = uv.reading /\ uv'.data = uv.data
            /\ uv'.requests = uv.requests \cup {t}
  PROVE  JInv'
<1> USE DEF JInv
<1>1. /\ \A i \in 1..Len(commands) : commands[i] \in Tasks
      /\ None \notin Tasks
  BY InCommands, UVFields DEF IInv
<1>2. /\ Pipe' = Pipe
      /\ \A u \in Tasks : Closes(u)' = Closes(u) /\ (InQueue(u)' => InQueue(u))
  BY DEF Closes, Pipe, InQueue
<1>3. JOnce' /\ JExit'
  BY <1>2 DEF JOnce, JExit
<1>4. JCloser'
  BY <1>2 DEF JCloser, CloserSound
<1>5. JQueue'
  BY DEF JQueue
<1>6. JNative'
  BY <1>2 DEF JNative, At
<1>7. JHeld'
  <2> SUFFICES ASSUME NEW u \in Tasks, call[u].at = "waiting", ~call[u].woken
               PROVE  HeldSound(u)'
    BY DEF JHeld
  <2>1. HeldSound(u)
    BY DEF JHeld
  <2>2. CASE u = t
    BY <2>2 DEF HeldSound
  <2>3. CASE u # t
    BY <1>1, <1>2, <2>1, <2>3 DEF HeldSound
  <2> QED
    BY <2>2, <2>3
<1>8. JBusy' /\ JMeet'
  BY <1>2 DEF JBusy, JMeet
<1>9. JLease' /\ JSound'
  BY <1>2 DEF JLease, JSound, Listening
<1> QED
  BY <1>3, <1>4, <1>5, <1>6, <1>7, <1>8, <1>9

\* The native handle is closed: the one time, and the Teardown's lease is there.
LEMMA ClosesNative ==
  ASSUME IInv, JInv, NEW data \in Tasks \cup {None}, NativeClose(data), uv.closes = 0,
         status[Block] \in {"closing", "freed"},
         kind = "process" => control.exited,
         \A u \in Tasks : Closes(u) => call[u].at # "resolved",
         \A u \in Tasks : Closes(u) /\ call[u].at = "draining" =>
           ~ (kind = "process" => call[u].exited),
         \A u \in Tasks : ~InQueue(u)' \/ ~Closes(u),
         \A u \in Tasks : Closes(u) /\ ~Pipe => call'[u].woken \/ ~InQueue(u),
         \A u \in Tasks : InQueue(u)' => InQueue(u),
         \A u \in Tasks : InQueue(u) /\ ~Closes(u) => InQueue(u)',
         UNCHANGED <<kind, status, users, control>>, ~loop'.closed,
         \A u \in Tasks : \/ call'[u] = call[u]
                          \/ /\ Closes(u) /\ ~Pipe /\ ~InQueue(u)'
                             /\ call'[u].op = call[u].op /\ call'[u].at = call[u].at
                             /\ call'[u].exited = call[u].exited
                             /\ call'[u].result # "undefined" /\ call'[u].woken
                             /\ call'[u].met = call[u].met,
         \A i \in 1..Len(commands') : \E j \in 1..Len(commands) : commands'[i] = commands[j],
         \A i, j \in 1..Len(commands') : commands'[i] = commands'[j] => i = j,
         Pipe => data \in Tasks /\ At(data, "close", "waiting")
                   /\ \A u \in Tasks : Closes(u) => u = data
  PROVE  JInv'
<1> USE DEF JInv
<1>1. /\ TypeOK /\ \A i \in 1..Len(commands) : commands[i] \in Tasks
      /\ uv \in UV /\ uv.closes \in Nat
      /\ uv.reading \in Tasks \cup {None} /\ uv.requests \subseteq Tasks
      /\ None \notin Tasks
  BY InCommands, UVFields DEF IInv
<1>2. uv'.closes = 1 /\ uv'.reading = None /\ uv'.data = data /\ uv'.requests = uv.requests
  BY <1>1 DEF NativeClose, UV
<1>3. /\ Pipe' = Pipe
      /\ \A u \in Tasks : call'[u].op = call[u].op /\ call'[u].at = call[u].at
                            /\ Closes(u)' = Closes(u)
  BY DEF Closes, Pipe
<1>4. \A u \in Tasks : ~Closes(u) => call'[u] = call[u]
  OBVIOUS
<1>5. Teardown \in users[Block]
  BY DEF JLease
<1>6. JOnce' /\ JExit'
  BY <1>3 DEF JOnce, JExit
<1>7. JCloser'
  <2> SUFFICES ASSUME NEW u \in Tasks, Closes(u)
               PROVE  CloserSound(u)'
    BY <1>3 DEF JCloser
  <2>1. CloserSound(u) /\ ~InQueue(u)'
    BY DEF JCloser
  <2>2. call'[u] = call[u] \/ ~Pipe
    OBVIOUS
  <2>3. call'[u].exited = call[u].exited
    OBVIOUS
  <2>4. Pipe => ~(call'[u].at = "waiting" /\ call'[u].woken)
    BY <2>1 DEF CloserSound
  <2> QED
    BY <1>2, <1>3, <2>1 DEF CloserSound
<1>8. JQueue'
  <2>1. ASSUME NEW i \in 1..Len(commands')
        PROVE  /\ call'[commands'[i]].op \in Requests \cup {"close"}
               /\ call'[commands'[i]].at = "waiting" /\ ~call'[commands'[i]].woken
               /\ commands'[i] # uv'.reading /\ commands'[i] \notin uv'.requests
    <3>1. PICK j \in 1..Len(commands) : commands'[i] = commands[j]
      OBVIOUS
    <3>2. commands[j] \in Tasks
      BY <1>1
    <3>3. \E k \in 1..Len(commands') : commands'[k] = commands[j]
      BY <3>1
    <3>4. ~Closes(commands[j])
      BY <3>2, <3>3 DEF InQueue
    <3>5. call'[commands'[i]] = call[commands[j]]
      BY <3>1, <3>2, <3>4
    <3> QED
      BY <1>1, <1>2, <3>2, <3>5 DEF JQueue
  <2> QED
    BY <2>1 DEF JQueue
<1>9. JNative'
  <2>1. \A u \in uv.requests : ~Closes(u)
    BY DEF JNative, Closes
  <2> QED
    BY <1>1, <1>2, <1>3, <2>1 DEF JNative, At
<1>10. Pipe => uv'.closing # {}
  BY <1>1 DEF NativeClose, Pipe, UV
<1>11. JHeld'
  <2> SUFFICES ASSUME NEW u \in Tasks, call'[u].at = "waiting", ~call'[u].woken
               PROVE  HeldSound(u)'
    BY DEF JHeld
  <2>1. call'[u] = call[u]
    OBVIOUS
  <2>2. HeldSound(u)
    BY <2>1 DEF JHeld
  <2>3. CASE Closes(u)
    <3>1. CASE Pipe
      BY <1>2, <1>3, <1>10, <2>1, <2>3, <3>1 DEF HeldSound, Closes
    <3>2. CASE ~Pipe
      <4>1. InQueue(u)
        BY <2>2, <2>3, <3>2 DEF HeldSound, Closes
      <4> QED
        BY <2>1, <2>3, <3>2, <4>1
    <3> QED
      BY <3>1, <3>2
  <2>4. CASE ~Closes(u)
    <3>1. call[u].op = "read" => call[u].met
      <4>1. call[u].op = "read" => Pipe
        BY DEF IInv, IPlaces
      <4> QED
        BY <2>1, <4>1 DEF JMeet, At, Closes
    <3> QED
      BY <1>2, <1>3, <2>1, <2>2, <2>4, <3>1 DEF HeldSound, Closes
  <2> QED
    BY <2>3, <2>4
<1>12. JBusy'
  <2>1. \A u \in Tasks : call'[u].met = call[u].met
    OBVIOUS
  <2> QED
    BY <1>3, <2>1 DEF JBusy
<1>13. JMeet'
  <2>1. \A u \in Tasks : call'[u].met = call[u].met
    OBVIOUS
  <2> QED
    BY <1>3, <2>1 DEF JMeet
<1>14. JLease'
  BY <1>2, <1>3, <1>5 DEF JLease, Listening
<1>15. JSound'
  <2>1. \A u \in Tasks : Closes(u) => ~Listening(u) /\ call[u].op # "none"
    BY DEF Closes, Listening
  <2>2. \A u \in Tasks : ~Closes(u) => call'[u] = call[u]
    BY <1>4
  <2> QED
    BY <1>2, <1>3, <2>1, <2>2 DEF JSound, Listening, Closes
<1> QED
  BY <1>6, <1>7, <1>8, <1>9, <1>11, <1>12, <1>13, <1>14, <1>15

\* hex_event_async_callback starts the first command of the queue.
LEMMA StartCommandSound ==
  ASSUME IInv, JInv, StartCommand
  PROVE  JInv'
<1> DEFINE t == Head(commands)
<1>1. /\ commands # << >> /\ commands' = Tail(commands)
      /\ UNCHANGED <<kind, status, users, control, loop>>
      /\ StartClose(t) \/ StartTerminate(t) \/ StartRead(t) \/ StartRequest(t)
  BY DEF StartCommand, ofTasks, capability
<1>2. t \in Tasks /\ Takes(t)
  BY <1>1, TakesHead
<1> HIDE DEF t
<1>3. /\ TypeOK /\ uv \in UV /\ uv.reading \in Tasks \cup {None}
      /\ uv.data \in Tasks \cup {None} /\ None \notin Tasks
  BY UVFields DEF IInv
<1>4. /\ call[t].op \in Requests \cup {"close"} /\ call[t].at = "waiting"
      /\ ~call[t].woken /\ t # uv.reading /\ t \notin uv.requests
  BY <1>2 DEF JInv, JQueue, Takes
<1>5. /\ \A i \in 1..Len(commands') :
           \E j \in 1..Len(commands) : commands'[i] = commands[j] /\ commands[j] # t
      /\ \A u \in Tasks : InQueue(u)' <=> InQueue(u) /\ u # t
  BY <1>2 DEF Takes
<1>6. \A i, j \in 1..Len(commands') : commands'[i] = commands'[j] => i = j
  <2>1. \A i \in 1..Len(commands') :
          i + 1 \in 1..Len(commands) /\ commands'[i] = commands[i + 1]
    BY <1>2 DEF Takes
  <2>2. ASSUME NEW i \in 1..Len(commands'), NEW j \in 1..Len(commands'),
               commands'[i] = commands'[j]
        PROVE  i = j
    <3>1. i + 1 = j + 1
      BY <2>1, <2>2 DEF JInv, JQueue
    <3>2. i \in Int /\ j \in Int
      OBVIOUS
    <3> QED
      BY <3>1
  <2> QED
    BY <2>2
<1>7. ASSUME call[t].op = "read"
      PROVE  \A u \in Tasks :
               /\ u # t /\ call[u].at = "waiting"
               /\ call[u].op = "read" \/ (Closes(u) /\ Pipe)
               => call[u].met
  <2> SUFFICES ASSUME NEW u \in Tasks, u # t, call[u].at = "waiting",
                      call[u].op = "read" \/ (Closes(u) /\ Pipe)
               PROVE  call[u].met
    OBVIOUS
  <2>1. CASE call[u].op = "read"
    BY <1>2, <1>4, <1>7, <2>1 DEF JInv, JBusy, Exclusive
  <2>2. CASE Closes(u) /\ Pipe
    BY <1>2, <1>4, <1>7, <2>2 DEF JInv, JMeet
  <2> QED
    BY <2>1, <2>2
<1>8. CASE StartClose(t)
  <2>1. /\ Closes(t) /\ InQueue(t) /\ CloserSound(t)
        /\ \A u \in Tasks : Closes(u) => u = t
        /\ status[Block] \in {"closing", "freed"}
    BY <1>2, <1>8 DEF StartClose, Closes, Takes, JInv, JCloser, JOnce
  <2>2. uv.closes = 0 /\ ~loop.closed /\ (kind = "process" => control.exited)
    BY <1>4, <2>1 DEF CloserSound
  <2>3. PICK data \in Tasks \cup {None} :
          NativeClose(data) /\ (Pipe => data = t)
    BY <1>2, <1>3, <1>8 DEF StartClose
  <2>4. \A u \in Tasks : \/ call'[u] = call[u]
                         \/ /\ Closes(u) /\ ~Pipe /\ ~InQueue(u)'
                            /\ call'[u].op = call[u].op /\ call'[u].at = call[u].at
                            /\ call'[u].exited = call[u].exited
                            /\ call'[u].result # "undefined" /\ call'[u].woken
                            /\ call'[u].met = call[u].met
    <3>1. CASE Pipe
      BY <1>8, <3>1 DEF StartClose
    <3>2. CASE ~Pipe
      <4>1. /\ Turns(t, call[t].op, call[t].at, TRUE, call[t].exited)
            /\ call'[t].met = call[t].met
        BY <1>2, <1>3, <1>8, <3>2, AnswerTurns DEF StartClose, Results
      <4> QED
        BY <1>5, <2>1, <3>2, <4>1 DEF Turns
    <3> QED
      BY <3>1, <3>2
  <2>5. Pipe => /\ data \in Tasks /\ At(data, "close", "waiting")
                /\ \A u \in Tasks : Closes(u) => u = data
    BY <1>2, <1>4, <2>1, <2>3 DEF At, Closes
  <2>6. \A u \in Tasks : Closes(u) => call[u].at = "waiting" /\ ~InQueue(u)'
    BY <1>4, <1>5, <2>1
  <2>7. \A u \in Tasks : Closes(u) /\ ~Pipe => call'[u].woken \/ ~InQueue(u)
    <3>1. ~Pipe => Turns(t, call[t].op, call[t].at, TRUE, call[t].exited)
      BY <1>2, <1>3, <1>8, AnswerTurns DEF StartClose, Results
    <3> QED
      BY <2>1, <3>1 DEF Turns
  <2> QED
    BY <1>1, <1>5, <1>6, <2>1, <2>2, <2>3, <2>4, <2>5, <2>6, <2>7, ClosesNative, ZenonT(60)
<1>9. CASE StartTerminate(t)
  <2>1. uv' = uv /\ call[t].op = "terminate"
    BY <1>9 DEF StartTerminate
  <2>2. PICK r \in Results \ {"undefined"} : Answer(t, r)
    BY <1>9 DEF StartTerminate, Results
  <2> QED
    BY <1>1, <1>2, <1>4, <1>5, <1>6, <2>1, <2>2, AnswerSound
<1>10. CASE StartRead(t)
  <2>1. call[t].op = "read"
    BY <1>10 DEF StartRead
  <2>2. CASE /\ call' = call /\ uv' = [uv EXCEPT !.data = t, !.reading = t]
             /\ uv.closes = 0 /\ uv.reading = None
    <3>1. /\ uv'.closes = uv.closes /\ uv'.closing = uv.closing /\ uv'.reading = t
          /\ uv'.data = t /\ uv'.requests = uv.requests
      BY <1>3, <2>2 DEF UV
    <3>2. uv.closing = {}
      BY <2>2 DEF JInv, JNative
    <3> QED
      BY <1>1, <1>2, <1>4, <1>5, <1>6, <2>1, <2>2, <3>1, <3>2, HandedSound
  <2>3. CASE Answer(t, "failed") /\ uv' = [uv EXCEPT !.data = t]
    <3>1. /\ uv'.closes = uv.closes /\ uv'.closing = uv.closing
          /\ uv'.reading = uv.reading /\ uv'.requests = uv.requests
      BY <1>3, <2>3 DEF UV
    <3>2. "failed" \in Results \ {"undefined"}
      BY DEF Results
    <3>3. /\ uv'.reading \in {uv.reading, None} /\ uv'.reading # t
          /\ uv'.requests \subseteq uv.requests
          /\ uv.requests \subseteq uv'.requests \cup {t}
          /\ t \notin uv'.requests
          /\ \A u \in Tasks : u # t /\ uv.reading = u => uv'.reading = u
      BY <1>4, <3>1
    <3>4. call[t].op \in Requests
      BY <2>1 DEF Requests
    <3> QED
      BY <1>1, <1>2, <1>5, <1>6, <1>7, <2>1, <2>3, <3>1, <3>2, <3>3, <3>4, AnswerSound
  <2> QED
    BY <1>10, <2>2, <2>3 DEF StartRead
<1>11. CASE StartRequest(t)
  <2>1. call[t].op \in {"write", "shutdown"}
    BY <1>11 DEF StartRequest
  <2>2. CASE call' = call /\ uv' = [uv EXCEPT !.requests = uv.requests \cup {t}]
    <3>1. /\ uv'.closes = uv.closes /\ uv'.closing = uv.closing
          /\ uv'.reading = uv.reading /\ uv'.data = uv.data
          /\ uv'.requests = uv.requests \cup {t}
      BY <2>2
    <3> QED
      BY <1>1, <1>2, <1>4, <1>5, <1>6, <2>1, <2>2, HandedSound
  <2>3. CASE Answer(t, "failed") /\ uv' = uv
    BY <1>1, <1>2, <1>4, <1>5, <1>6, <2>1, <2>3, AnswerSound DEF Results
  <2> QED
    BY <1>11, <2>2, <2>3 DEF StartRequest
<1> QED
  BY <1>1, <1>8, <1>9, <1>10, <1>11

\* An exit after the close takes over the native handle.
LEMMA ExitsSound ==
  ASSUME IInv, JInv, Exits
  PROVE  JInv'
<1> USE DEF JInv
<1>1. /\ TypeOK /\ control.waiters \in SUBSET Tasks
      /\ \A i \in 1..Len(commands) : commands[i] \in Tasks
      /\ uv.reading \in Tasks \cup {None} /\ uv.requests \subseteq Tasks
  BY Fields, InCommands, UVFields DEF IInv
<1>2. /\ kind = "process" /\ ~control.exited
      /\ UNCHANGED <<kind, status, users, uv, commands>>
      /\ loop'.closed = control.closed
      /\ call' = TakenOff(control.waiters, "fact")
  BY DEF Exits, ofTasks, capability
<1>3. /\ control'.exited = TRUE /\ control'.closed = control.closed
      /\ control'.busy = control.busy
  BY DEF Exits
<1>4. \A u \in control.waiters : Listening(u)
  BY DEF IInv, NobodyForgotten, Waiting, Listening
<1>5. /\ \A u \in Tasks : ~Listening(u) => call'[u] = call[u]
      /\ \A u \in Tasks : /\ call'[u].op = call[u].op /\ call'[u].at = call[u].at
                           /\ call'[u].result = call[u].result
      /\ \A u \in Tasks : u \notin control.waiters => call'[u] = call[u]
  <2>1. \A u \in Tasks : u \notin control.waiters => call'[u] = call[u]
    BY <1>2 DEF TakenOff
  <2> QED
    BY <1>1, <1>2, <1>4, <2>1, TakenSets
<1>6. \A u \in Tasks : call[u].op \notin {"wait", "next"} => call'[u] = call[u]
  BY <1>5 DEF Listening
<1>7. /\ Pipe' = Pipe /\ ~Pipe /\ uv.closes = 0
      /\ \A u \in Tasks : Closes(u)' = Closes(u) /\ InQueue(u)' = InQueue(u)
  BY <1>2, <1>5 DEF Pipe, JExit, Closes, InQueue
<1>8. JOnce' /\ JExit'
  BY <1>2, <1>3, <1>7 DEF JOnce, JExit
<1>9. JCloser'
  <2> SUFFICES ASSUME NEW u \in Tasks, Closes(u)
               PROVE  CloserSound(u)'
    BY <1>7 DEF JCloser
  <2>1. CloserSound(u) /\ call'[u] = call[u]
    BY <1>6 DEF JCloser, Closes
  <2>2. ~InQueue(u)
    BY <1>2, <2>1 DEF CloserSound, InQueue, JQueue
  <2> QED
    BY <1>2, <1>3, <1>7, <2>1, <2>2 DEF CloserSound
<1>10. JQueue'
  BY <1>1, <1>2, <1>6 DEF JQueue, Requests
<1>11. JNative'
  BY <1>1, <1>2, <1>6, <1>7 DEF JNative, At
<1>12. JHeld'
  <2> SUFFICES ASSUME NEW u \in Tasks, call'[u].at = "waiting", ~call'[u].woken
               PROVE  HeldSound(u)'
    BY DEF JHeld
  <2>1. CASE call[u].op \in {"wait", "next"}
    BY <1>5, <2>1 DEF HeldSound
  <2>2. CASE call[u].op \notin {"wait", "next"}
    <3>1. call'[u] = call[u]
      BY <1>6, <2>2
    <3>2. HeldSound(u)
      BY <3>1 DEF JHeld
    <3> QED
      BY <1>2, <1>7, <3>1, <3>2 DEF HeldSound
  <2> QED
    BY <2>1, <2>2
<1>13. JBusy' /\ JMeet'
  BY <1>3, <1>5, <1>6, <1>7 DEF JBusy, JMeet, Exclusive
<1>14. JLease'
  BY <1>2, <1>5, <1>7 DEF JLease, Listening
<1>15. JSound'
  <2>1. \A u \in control.waiters : call[u].result # "undefined"
    BY <1>1, <1>4 DEF IInv, NobodyForgotten, Waiting, JSound
  <2> QED
    BY <1>2, <1>5, <2>1 DEF JSound, Listening
<1> QED
  BY <1>8, <1>9, <1>10, <1>11, <1>12, <1>13, <1>14, <1>15

\* The exit's callback lets go of the block, or closes the handle for the close.
LEMMA CallbackEndsSound ==
  ASSUME IInv, JInv, CallbackEnds
  PROVE  JInv'
<1> USE DEF JInv
<1>1. /\ TypeOK /\ \A i \in 1..Len(commands) : commands[i] \in Tasks
      /\ uv.data \in Tasks \cup {None} /\ uv.reading \in Tasks \cup {None}
      /\ uv.requests \subseteq Tasks
      /\ status[Block] \in {"unused", "open", "closing", "freed"}
  BY Fields, InCommands, UVFields DEF IInv
<1>2. /\ UNCHANGED <<kind, status, users, control, commands, call>>
      /\ loop'.closed = FALSE
      /\ IF loop.closed THEN NativeClose(uv.data) ELSE uv' = uv
  BY DEF CallbackEnds, ofTasks, capability
<1>3. CASE loop.closed
  <2>1. /\ kind = "process" /\ control.exited /\ control.closed /\ uv.closes = 0
        /\ ~Pipe
    BY <1>3 DEF JExit, Pipe
  <2>2. status[Block] \in {"closing", "freed"}
    BY <1>1, <2>1 DEF JOnce
  <2>3. \A u \in Tasks : Closes(u) =>
          /\ call[u].at # "resolved"
          /\ ~InQueue(u)
          /\ call[u].at = "draining" => ~call[u].exited
    <3> SUFFICES ASSUME NEW u \in Tasks, Closes(u)
                 PROVE  /\ call[u].at # "resolved"
                        /\ ~InQueue(u)
                        /\ call[u].at = "draining" => ~call[u].exited
      OBVIOUS
    <3>1. CloserSound(u)
      BY DEF JCloser
    <3> QED
      BY <1>3, <2>1, <3>1 DEF CloserSound
  <2>4. \A i \in 1..Len(commands) : \E j \in 1..Len(commands) : commands[i] = commands[j]
    OBVIOUS
  <2>5. \A i, j \in 1..Len(commands) : commands[i] = commands[j] => i = j
    BY DEF JQueue
  <2>6. \A u \in Tasks : InQueue(u)' = InQueue(u)
    BY <1>2 DEF InQueue
  <2> QED
    BY <1>1, <1>2, <1>3, <2>1, <2>2, <2>3, <2>5, <2>6, ClosesNative
<1>4. CASE ~loop.closed
  <2>1. loop'.closed = loop.closed /\ uv' = uv
    BY <1>1, <1>2, <1>4 DEF TypeOK
  <2>2. \A u \in Tasks : Stays(u)
    BY <1>2 DEF Stays
  <2> QED
    BY <1>2, <2>1, <2>2, ListenerStep
<1> QED
  BY <1>3, <1>4

\* libuv's callbacks answer the requests that it has.
LEMMA ReadDoneSound ==
  ASSUME IInv, JInv, ReadDone
  PROVE  JInv'
<1> DEFINE t == uv.reading
<1>1. /\ t \in Tasks /\ call[t].op = "read" /\ uv.reading = t /\ call[t].at = "waiting"
      /\ call[t].met \/ uv.data = t
      /\ TypeOK /\ uv \in UV /\ None \notin Tasks
      /\ UNCHANGED <<kind, status, users, control, commands, loop>>
      /\ TellRecord(t) /\ uv' = [uv EXCEPT !.reading = None]
  BY UVFields DEF ReadDone, JInv, JNative, At, IInv, ofTasks, capability
<1>2. /\ uv'.closes = uv.closes /\ uv'.closing = uv.closing /\ uv'.reading = None
      /\ uv'.data = uv.data /\ uv'.requests = uv.requests
  BY <1>1 DEF UV
<1>3. /\ \A i \in 1..Len(commands) : commands[i] # t
      /\ \A i, j \in 1..Len(commands) : commands[i] = commands[j] => i = j
      /\ t \notin uv.requests
  BY <1>1 DEF JInv, JQueue, JNative
<1> HIDE DEF t
<1>4. CASE uv.data = t
  <2>1. Answer(t, "done")
    BY <1>1, <1>4 DEF TellRecord
  <2>2. "done" \in Results \ {"undefined"} /\ call[t].op \in Requests
    BY <1>1 DEF Results, Requests
  <2>3. \A u \in Tasks : InQueue(u)' = InQueue(u)
    BY <1>1 DEF InQueue
  <2>4. uv'.reading # t /\ \A u \in Tasks : u # t /\ uv.reading = u => uv'.reading = u
    BY <1>1, <1>2
  <2> QED
    BY <1>1, <1>2, <1>3, <2>1, <2>2, <2>3, <2>4, AnswerSound
<1>5. CASE uv.data # t
  <2> USE DEF JInv
  <2>1. call' = call /\ call[t].met
    BY <1>1, <1>5 DEF TellRecord
  <2>2. Pipe' = Pipe /\ \A u \in Tasks : Closes(u)' = Closes(u) /\ InQueue(u)' = InQueue(u)
    BY <1>1, <2>1 DEF Pipe, Closes, InQueue
  <2>3. JOnce' /\ JExit' /\ JBusy' /\ JMeet'
    BY <1>1, <1>2, <2>1, <2>2 DEF JOnce, JExit, JBusy, JMeet
  <2>4. JCloser'
    BY <1>1, <1>2, <2>1, <2>2 DEF JCloser, CloserSound
  <2>5. JQueue'
    <3>1. \A i \in 1..Len(commands) : commands[i] # None
      BY <1>1, InCommands
    <3> QED
      BY <1>1, <1>2, <2>1, <3>1 DEF JQueue
  <2>6. JNative'
    BY <1>1, <1>2, <2>1 DEF JNative
  <2>7. JHeld'
    BY <1>1, <1>2, <2>1, <2>2 DEF JHeld, HeldSound
  <2>8. JLease' /\ JSound'
    BY <1>1, <1>2, <2>1, <2>2 DEF JLease, JSound, Listening
  <2> QED
    BY <2>3, <2>4, <2>5, <2>6, <2>7, <2>8
<1> QED
  BY <1>4, <1>5

LEMMA RequestDoneSound ==
  ASSUME IInv, JInv, NEW t \in Tasks, RequestDone(t)
  PROVE  JInv'
<1>1. /\ call[t].op \in {"write", "shutdown"} /\ t \in uv.requests
      /\ uv \in UV /\ None \notin Tasks
      /\ UNCHANGED <<kind, status, users, control, commands, loop>>
      /\ uv' = [uv EXCEPT !.requests = uv.requests \ {t}]
  BY UVFields DEF RequestDone, JInv, JNative, IInv, ofTasks, capability
<1>2. /\ uv'.closes = uv.closes /\ uv'.closing = uv.closing /\ uv'.reading = uv.reading
      /\ uv'.data = uv.data /\ uv'.requests = uv.requests \ {t}
  BY <1>1 DEF UV
<1>3. PICK r \in Results \ {"undefined"} : Answer(t, r)
  BY DEF RequestDone, Results
<1>4. /\ \A i \in 1..Len(commands) : commands[i] # t
      /\ \A i, j \in 1..Len(commands) : commands[i] = commands[j] => i = j
      /\ t # uv.reading
  BY <1>1 DEF JInv, JQueue, JNative, At
<1>5. /\ call[t].op \in Requests
      /\ \A u \in Tasks : InQueue(u)' = InQueue(u)
  BY <1>1 DEF Requests, InQueue
<1> QED
  BY <1>1, <1>2, <1>3, <1>4, <1>5, AnswerSound

\* A handle is closed; with the last the Teardown's lease goes.
LEMMA NativeClosedSound ==
  ASSUME IInv, JInv, NEW h, NativeClosed(h)
  PROVE  JInv'
<1> USE DEF JInv
<1>1. /\ TypeOK /\ \A i \in 1..Len(commands) : commands[i] \in Tasks
      /\ uv \in UV /\ Teardown \notin Tasks
  BY InCommands, UVFields, ProcessSignalAssumption DEF IInv
<1>2. /\ ~Pipe /\ h \in uv.closing
      /\ uv' = [uv EXCEPT !.closing = uv.closing \ {h}]
      /\ UNCHANGED <<kind, status, control, commands, loop, call>>
  BY DEF NativeClosed, Registry!Leave, capability
<1>3. /\ uv'.closes = uv.closes /\ uv'.closing \subseteq uv.closing /\ uv'.reading = uv.reading
      /\ uv'.data = uv.data /\ uv'.requests = uv.requests
  BY <1>1, <1>2 DEF UV
<1>4. uv.closes = 1
  BY <1>2 DEF JNative
<1>5. \/ users'[Block] = users[Block]
      \/ users'[Block] = users[Block] \ {Teardown} /\ uv'.closing = {}
  BY <1>1, Fields DEF NativeClosed, Registry!Leave, capability
<1>6. Pipe' = Pipe /\ \A u \in Tasks : Closes(u)' = Closes(u) /\ InQueue(u)' = InQueue(u)
  BY <1>2 DEF Pipe, Closes, InQueue
<1>7. JOnce' /\ JExit' /\ JSound'
  BY <1>2, <1>3, <1>6 DEF JOnce, JExit, JSound, Listening
<1>8. JCloser'
  BY <1>2, <1>6 DEF JCloser, CloserSound
<1>9. JQueue'
  BY <1>2 DEF JQueue
<1>10. JNative'
  BY <1>2, <1>6 DEF JNative, At
<1>11. JBusy'
  BY <1>2, <1>6 DEF JBusy
<1>12. JLease'
  BY <1>1, <1>2, <1>3, <1>4, <1>5, <1>6 DEF JLease, Listening
<1>13. JHeld'
  BY <1>2, <1>3, <1>6 DEF JHeld, HeldSound
<1>14. JMeet'
  BY <1>2, <1>6 DEF JMeet
<1> QED
  BY <1>13, <1>14, <1>7, <1>8, <1>9, <1>10, <1>11, <1>12

\* The record in pipe.data is the closer's.
LEMMA PipeClosedSound ==
  ASSUME IInv, JInv, PipeClosed
  PROVE  JInv'
<1> USE DEF JInv
<1>1. /\ TypeOK /\ \A i \in 1..Len(commands) : commands[i] \in Tasks
      /\ uv \in UV /\ None \notin Tasks
      /\ uv.reading \in Tasks \cup {None} /\ uv.requests \subseteq Tasks
  BY InCommands, UVFields DEF IInv
<1>2. /\ Pipe /\ uv.closing # {}
      /\ uv' = [uv EXCEPT !.closing = {}]
      /\ UNCHANGED <<kind, status, users, control, commands, loop>>
  BY DEF PipeClosed, ofTasks, capability
<1>3. PICK t \in Tasks : At(t, "close", "waiting") /\ TellRecord(t)
  BY DEF PipeClosed
<1>4. uv.closes = 1 /\ call[t].op = "close" /\ call[t].at = "waiting"
  BY <1>2, <1>3 DEF JNative, At
<1>5. /\ \A u \in Tasks : u # t => call'[u] = call[u]
      /\ call'[t].op = "close" /\ call'[t].at = "waiting"
      /\ call'[t].exited = call[t].exited /\ call'[t].result # "undefined"
      /\ call'[t].met = call[t].met
      /\ call'[t].woken \/ (uv.data # t /\ call' = call)
  <2>1. CASE uv.data = t
    <3>1. Answer(t, "done")
      BY <1>3, <2>1 DEF TellRecord
    <3>2. /\ Turns(t, call[t].op, call[t].at, TRUE, call[t].exited)
          /\ call'[t].met = call[t].met
      BY <1>1, <3>1, AnswerTurns DEF Results
    <3> QED
      BY <1>4, <3>2 DEF Turns
  <2>2. CASE uv.data # t
    <3>1. call' = call
      BY <1>3, <2>2 DEF TellRecord
    <3>2. call[t].result # "undefined"
      BY <1>4 DEF JSound
    <3> QED
      BY <1>4, <2>2, <3>1, <3>2
  <2> QED
    BY <2>1, <2>2
<1>6. /\ uv'.closes = 1 /\ uv'.closing = {} /\ uv'.reading = uv.reading
      /\ uv'.data = uv.data /\ uv'.requests = uv.requests
  BY <1>1, <1>2, <1>4 DEF UV
<1>7. /\ Pipe' = Pipe
      /\ \A u \in Tasks : Closes(u)' = Closes(u) /\ InQueue(u)' = InQueue(u)
  BY <1>2, <1>4, <1>5 DEF Pipe, Closes, InQueue
<1>8. \A u \in Tasks : Closes(u) => u = t /\ CloserSound(u)
  BY <1>4 DEF JOnce, JCloser, Closes
<1>9. ~InQueue(t)
  BY <1>4, <1>8 DEF CloserSound, Closes
<1>10. JOnce' /\ JExit'
  BY <1>2, <1>4, <1>6, <1>7 DEF JOnce, JExit
<1>11. JCloser'
  BY <1>2, <1>4, <1>5, <1>6, <1>7, <1>8 DEF JCloser, CloserSound
<1>12. JQueue'
  <2>1. \A i \in 1..Len(commands) : commands[i] # t
    BY <1>9 DEF InQueue
  <2> QED
    BY <1>1, <1>2, <1>5, <1>6, <2>1 DEF JQueue
<1>13. JNative'
  <2>1. t # uv.reading /\ t \notin uv.requests
    BY <1>1, <1>4 DEF JNative, At
  <2> QED
    BY <1>1, <1>5, <1>6, <2>1 DEF JNative, At
<1>14. JHeld'
  <2> SUFFICES ASSUME NEW u \in Tasks, call'[u].at = "waiting", ~call'[u].woken
               PROVE  HeldSound(u)'
    BY DEF JHeld
  <2>1. CASE u = t
    <3>1. uv.data # t /\ call' = call
      BY <1>5, <2>1
    <3>2. HeldSound(t)
      BY <2>1, <3>1 DEF JHeld
    <3>3. Pipe /\ call[t].met
      BY <1>2, <1>4, <1>9, <3>1, <3>2 DEF HeldSound
    <3> QED
      BY <1>5, <1>7, <2>1, <3>3 DEF HeldSound
  <2>2. CASE u # t
    <3>1. call'[u] = call[u] /\ ~Closes(u)
      BY <1>5, <1>8, <2>2
    <3>2. HeldSound(u)
      BY <3>1 DEF JHeld
    <3> QED
      BY <1>6, <1>7, <3>1, <3>2 DEF HeldSound, Closes
  <2> QED
    BY <2>1, <2>2
<1>15. JBusy' /\ JMeet'
  <2>1. \A u \in Tasks :
          /\ call'[u].op = call[u].op /\ call'[u].at = call[u].at
          /\ call'[u].met = call[u].met
    BY <1>4, <1>5
  <2> QED
    BY <1>2, <1>7, <2>1 DEF JBusy, JMeet
<1>16. JLease'
  <2>1. \A u \in Tasks : call'[u].op = call[u].op /\ call'[u].at = call[u].at
    BY <1>4, <1>5
  <2> QED
    BY <1>2, <1>6, <1>7, <2>1 DEF JLease, Listening
<1>17. JSound'
  BY <1>4, <1>5, <1>6 DEF JSound, Listening
<1> QED
  BY <1>10, <1>11, <1>12, <1>13, <1>14, <1>15, <1>16, <1>17

\* There has been no call and no close.
LEMMA InitSound ==
  ASSUME Init
  PROVE  JInv
<1> USE DEF Init, Registry!Init
<1>1. /\ \A t \in Tasks : call[t] = NoCall
      /\ uv.requests = {} /\ uv.reading = None /\ uv.closing = {} /\ uv.closes = 0
      /\ control.closed = FALSE /\ loop.closed = FALSE
      /\ status[Block] = "unused" /\ users[Block] = {}
  OBVIOUS
<1>2. \A i \in 1..Len(commands) : FALSE
  BY NoCommands
<1>3. \A t \in Tasks : call[t].op = "none" /\ call[t].at = "idle" /\ call[t].result # "undefined"
  BY DEF NoCall
<1> HIDE DEF Init
<1>4. JOnce /\ JCloser /\ JExit
  BY <1>1, <1>3 DEF JOnce, JCloser, JExit, Closes
<1>5. JQueue
  BY <1>2 DEF JQueue
<1>6. JNative /\ JHeld /\ JBusy /\ JMeet
  BY <1>1, <1>3 DEF JNative, JHeld, JBusy, JMeet, Closes
<1>7. JLease /\ JSound
  BY <1>1, <1>3 DEF JLease, JSound, Requests, Listening, Closes
<1> QED
  BY <1>4, <1>5, <1>6, <1>7 DEF JInv

\* Every step keeps the second invariant too.
LEMMA StepSound == IInv /\ JInv /\ [Next]_vars => JInv'
<1> SUFFICES ASSUME IInv, JInv, [Next]_vars PROVE JInv'
  OBVIOUS
<1>1. CASE UNCHANGED vars
  <2>1. UNCHANGED <<kind, status, users, control, uv, commands, loop, call>>
    BY <1>1 DEF vars, capability
  <2>2. \A u \in Tasks : Stays(u)
    BY <2>1 DEF Stays
  <2> QED
    BY <2>1, <2>2, ListenerStep
<1>2. CASE Publish \/ Recycle \/ Exits \/ ReadDone \/ \E s \in Signals : Fires(s)
  BY <1>2, PublishSound, RecycleSound, ExitsSound, ReadDoneSound, FiresSound
<1>3. CASE CallbackGoesOn
  BY <1>3, CallbackEndsSound, LoopWakesSound DEF CallbackGoesOn
<1>4. CASE LoopSettles
  BY <1>4, StartCommandSound, PipeClosedSound, NativeClosedSound,
     RequestDoneSound
     DEF LoopSettles
<1>5. ASSUME NEW t \in Tasks,
             \/ \E op \in Makes[t] : Enter(t, op)
             \/ CloseBegins(t) \/ TaskGoesOn(t) \/ WriteGoesOn(t) \/ RequestDone(t)
      PROVE  JInv'
  <2>1. CASE \E op \in Makes[t] : Enter(t, op)
    BY <2>1, EnterSound
  <2>2. CASE CloseBegins(t) \/ WriteGoesOn(t) \/ RequestDone(t)
    BY <2>2, CloseBeginsSound, WriteGoesOnSound, RequestDoneSound
  <2>3. CASE TaskGoesOn(t)
    <3>1. CASE WaitKnows(t) \/ WaitRegisters(t) \/ WaitResumes(t) \/ Parks(t) \/ Leaves(t)
      BY <3>1, WaitKnowsSound, WaitRegistersSound, WaitResumesSound, ParksSound,
         LeavesSound
    <3>2. CASE NextBusy(t) \/ NextTakes(t) \/ NextEnds(t) \/ NextRegisters(t) \/ NextResumes(t)
      BY <3>2, NextBusySound, NextTakesSound, NextEndsSound, NextRegistersSound,
         NextResumesSound
    <3>3. CASE \/ Terminate(t) \/ PipeRefuses(t) \/ PipePasses(t) \/ PipeSubmits(t)
               \/ Shutdown(t) \/ RequestReturns(t)
      BY <3>3, TerminateSound, PipeRefusesSound, PipePassesSound, PipeSubmitsSound,
         ShutdownSound, RequestReturnsSound
    <3>4. CASE \/ CloseTakes(t) \/ CloseGoesOn(t) \/ PipeCloseSubmits(t) \/ CloseReturns(t)
               \/ \E u \in Tasks : CloseWakes(t, u)
      BY <3>4, CloseTakesSound, CloseGoesOnSound, PipeCloseSubmitsSound,
         CloseReturnsSound, CloseWakesSound
    <3> QED
      BY <2>3, <3>1, <3>2, <3>3, <3>4 DEF TaskGoesOn
  <2> QED
    BY <1>5, <2>1, <2>2, <2>3
<1> QED
  BY <1>1, <1>2, <1>3, <1>4, <1>5 DEF Next

\* A freed block has nothing left to end.
LEMMA SoundDangles == IInv /\ JInv => NothingDangles
<1> SUFFICES ASSUME IInv, JInv PROVE NothingDangles
  OBVIOUS
<1> USE DEF JInv
<1>1. /\ TypeOK /\ commands \in Seq(Tasks)
      /\ uv.requests \subseteq Tasks /\ None \notin Tasks
      /\ \A i \in 1..Len(commands) : commands[i] \in Tasks
  BY InCommands, UVFields DEF IInv, TypeOK
<1>2. ASSUME status[Block] = "freed"
      PROVE  /\ uv.closes = 1 /\ uv.closing = {} /\ uv.requests = {} /\ commands = << >>
             /\ \A t \in Tasks : ~UsesBlock(t)
  <2>1. users[Block] = {} /\ uv.closes = 1 /\ uv.closing = {}
    BY <1>2 DEF JLease
  <2>2. \A t \in Tasks : call[t].op \notin Requests
    BY <2>1 DEF JLease
  <2>3. uv.requests = {}
    BY <1>1, <2>2 DEF JNative, Requests
  <2>4. ASSUME NEW t \in Tasks, Closes(t), InQueue(t) PROVE FALSE
    BY <2>1, <2>4 DEF JCloser, CloserSound
  <2>5. ASSUME NEW i \in 1..Len(commands) PROVE FALSE
    <3>1. commands[i] \in Tasks /\ Closes(commands[i]) /\ InQueue(commands[i])
      BY <1>1, <2>2 DEF JQueue, Closes, InQueue
    <3> QED
      BY <2>4, <3>1
  <2>6. commands = << >>
    <3>1. Len(commands) \in Nat
      BY <1>1
    <3>2. Len(commands) = 0
      BY <2>5, <3>1
    <3> QED
      BY <1>1, <3>2
  <2>7. ASSUME NEW t \in Tasks, UsesBlock(t) PROVE FALSE
    <3>1. CASE Listening(t)
      <4>1. call[t].at \in {"resolved", "listed"}
        BY <2>7, <3>1 DEF UsesBlock, IInv, IPlaces, Listening, Exclusive
      <4> QED
        BY <2>1, <3>1, <4>1 DEF JLease
    <3>2. CASE Closes(t)
      <4>1. CloserSound(t)
        BY <3>2 DEF JCloser
      <4>2. call[t].at \notin {"passed", "listed"}
        BY <3>2 DEF IInv, IPlaces, Listening, Closes, Exclusive
      <4>3. call[t].at = "waiting" /\ ~call[t].woken
        BY <2>1, <2>7, <3>2, <4>1, <4>2 DEF UsesBlock, CloserSound, Closes
      <4>4. HeldSound(t)
        BY <4>3 DEF JHeld
      <4>5. CASE Pipe
        BY <2>1, <3>2, <4>3, <4>5 DEF JLease
      <4>6. CASE ~Pipe
        BY <2>4, <3>2, <4>4, <4>6 DEF HeldSound, Closes
      <4> QED
        BY <4>5, <4>6
    <3>3. CASE call[t].op \in Requests
      BY <2>2, <3>3
    <3>4. CASE call[t].op = "none"
      BY <2>7, <3>4 DEF UsesBlock, JSound
    <3>5. call[t].op \in {"none", "wait", "next", "close"} \cup Requests
      BY <1>1 DEF TypeOK, Call, Requests
    <3> QED
      BY <3>1, <3>2, <3>3, <3>4, <3>5 DEF Listening, Closes
  <2> QED
    BY <2>1, <2>3, <2>6, <2>7
<1>3. \A t \in Tasks : call[t].result = "undefined" =>
        call[t].op = "next" \/ (call[t].op = "wait" /\ call[t].by = "fact")
  BY DEF JSound, Listening
<1>4. uv.reading # None =>
        \/ call[uv.reading].met
        \/ uv.data = uv.reading /\ At(uv.data, "read", "waiting")
  BY DEF JNative
<1>5. ASSUME NEW t \in Tasks, Lost(t)
      PROVE  call[t].met /\ call[t].op \in {"read", "close"}
  <2>1. call[t].at = "waiting" /\ HeldSound(t) /\ ~Named(t)
    BY <1>5 DEF Lost, JHeld
  <2>2. ~InQueue(t) /\ t \notin uv.requests
        /\ ~ (uv.reading = t /\ uv.data = t)
        /\ ~ (Pipe /\ uv.closing # {} /\ uv.data = t)
    BY <2>1 DEF Named, InQueue
  <2>3. call[t].op \notin {"none", "wait", "next"}
    BY <2>1 DEF IInv, IPlaces, Listening, JSound
  <2>4. call[t].op \in {"none", "wait", "next", "close"} \cup Requests
    BY <1>1 DEF TypeOK, Call, Requests
  <2> QED
    BY <2>1, <2>2, <2>3, <2>4 DEF HeldSound, Requests
<1>6. uv.closes <= 1
  BY DEF JSound
<1> QED
  BY <1>2, <1>3, <1>4, <1>5, <1>6 DEF NothingDangles

\* The native handle is closed once and before the block is freed; only a next, or
\* a wait that the exit woke, can see a freed block; and the record that libuv's
\* callbacks find is that of a Task that waits, and no waiting Task's is lost, but
\* where reads were let in together or a pipe was closed beside a read, whatever
\* Tasks there are (hex_process_exited against hex_process_close;
\* hex_pipe_close_done).
THEOREM NothingLeftDangling == Spec => []NothingDangles
<1>1. Init => IInv /\ JInv
  BY InitHolds, InitSound
<1>2. IInv /\ JInv /\ [Next]_vars => (IInv /\ JInv)'
  BY StepKeeps, StepSound
<1>3. IInv /\ JInv => NothingDangles
  BY SoundDangles
<1> QED
  BY <1>1, <1>2, <1>3, PTL DEF Spec
=============================================================================
