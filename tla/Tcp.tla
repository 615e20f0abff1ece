-------------------------------- MODULE Tcp ---------------------------------
(***************************************************************************)
(* TCP connections and listeners (src/compiler/generator/packages/         *)
(* network.c, from hex_tcp_control on).  A Task leases the control block,  *)
(* sends the loop a command and parks; its request is a record on its own  *)
(* stack.  The loop thread alone touches the socket: it decides each       *)
(* request once, whichever comes first of completion, deadline and close,  *)
(* and wakes the Task once.                                                *)
(*                                                                         *)
(* The model follows one control block, a connection or a listener, from   *)
(* its allocation to its release.  The registry is taken by its promise    *)
(* (Capability), the event bridge as a queue of commands (EventLoop), the  *)
(* scheduler as a wake that resumes a Task once (Scheduler).  What libuv   *)
(* has of the socket is external, and kept in uv and clients.held.         *)
(***************************************************************************)
EXTENDS Integers, FiniteSets, Sequences

CONSTANTS
  Tasks,
  Block,      \* the control block
  Programs,   \* bound: Task -> the calls that it makes, besides the opening one
  Chunks,     \* bound: the numbers of chunks that a write may have
  MaxHeld,    \* clients that libuv takes in before the program does: one
              \* where it then stops watching, more where it queues them
  None

ASSUME TcpAssumption ==
  /\ IsFiniteSet(Tasks)
  /\ Programs \subseteq
       [Tasks -> SUBSET {"read", "write", "accept", "shutdown", "no_delay", "close"}]
  /\ Chunks \subseteq Nat
  /\ MaxHeld \in Nat \ {0}
  /\ None \notin Tasks

VARIABLES
  kind,           \* what the control block is for, and the program that uses it
  status, users,  \* its capability in the registry
  memory,         \* its storage
  busy,           \* the calls with a busy flag -> the flag
  control,        \* the fields that only the loop thread touches
  clients,        \* of a listener: who has arrived, and where they are; the
                  \* history givenUp
  uv,             \* what libuv has to do with the socket
  commands,       \* the commands that the loop has not started
  call            \* Task -> its call, with the request record and the history met

capability == <<status, users>>
vars == <<kind, capability, memory, busy, control, clients, uv, commands, call>>

Registry == INSTANCE Capability WITH Actors <- Tasks, Handles <- {Block}

\* One at a time of each is meant to be let in: the others get Busy.
Exclusive == {"read", "write", "accept"}

Calls == Exclusive \cup {"connect", "listen", "shutdown", "no_delay", "close", "discard"}

Kinds == [of : {"connection", "listener"}, makes : Programs]

Timers == {"none", "stopped", "armed"}

Call == [op : Calls \cup {"none"},
         at : {"idle", "resolved", "passed", "waiting", "woken"},
         deadline : {"none", "ahead", "past"},
         outcome : {"pending", "done", "deadline", "closed"},
         status : {"ok", "failed", "timed out", "closed"},
         left : Nat,
         client : BOOLEAN,
         met : BOOLEAN]   \* history: was it let in beside another of its kind?

NoCall == [op |-> "none", at |-> "idle", deadline |-> "none", outcome |-> "pending",
           status |-> "ok", left |-> 0, client |-> FALSE, met |-> FALSE]

TypeOK ==
  /\ kind \in Kinds
  /\ status \in [{Block} -> {"unused", "open", "closing", "freed"}]
  /\ users \in [{Block} -> SUBSET Tasks]
  /\ memory \in {"none", "allocated", "freed"}
  /\ busy \in [Exclusive -> BOOLEAN]
  /\ control \in [state : {"open", "closing", "closed"},
                  readOp : Tasks \cup {None}, writeOp : Tasks \cup {None},
                  acceptCommand : Tasks \cup {None}, closer : Tasks \cup {None},
                  closePending : 0..3, readTimer : Timers, writeTimer : Timers]
  /\ clients \in [pending : BOOLEAN, spare : BOOLEAN, declined : BOOLEAN,
                  held : 0..MaxHeld, givenUp : BOOLEAN]
  /\ uv \in [reading : BOOLEAN, listening : BOOLEAN, requests : SUBSET Tasks,
             closing : SUBSET {"socket", "read timer", "write timer"}]
  /\ commands \in Seq(Tasks)
  /\ call \in [Tasks -> Call]

Init ==
  /\ kind \in Kinds
  /\ Registry!Init
  /\ memory = "none"
  /\ busy = [op \in Exclusive |-> FALSE]
  /\ control = [state |-> "open", readOp |-> None, writeOp |-> None,
                acceptCommand |-> None, closer |-> None, closePending |-> 0,
                readTimer |-> "none", writeTimer |-> "none"]
  /\ clients = [pending |-> FALSE, spare |-> FALSE, declined |-> FALSE,
                held |-> 0, givenUp |-> FALSE]
  /\ uv = [reading |-> FALSE, listening |-> FALSE, requests |-> {}, closing |-> {}]
  /\ commands = << >>
  /\ call = [t \in Tasks |-> NoCall]

At(t, place) == call' = [call EXCEPT ![t].at = place]
Idle(t) == call' = [call EXCEPT ![t] = NoCall]

\* hex_event_submit: the Task parks until a wake.
Submit(t, c) ==
  /\ commands' = Append(commands, t)
  /\ call' = [call EXCEPT ![t] = [c EXCEPT !.at = "waiting"]]

\* hex_task_event_wake of t, after its result was written.
Answer(t, result) == call' = [call EXCEPT ![t].at = "woken", ![t].status = result]

onLoop == <<control, clients, uv>>
ofTasks == <<kind, capability, memory, busy>>

-----------------------------------------------------------------------------
\* The Task: up to hex_event_submit.

\* hex_tcp_connect, hex_tcp_listen: the control block; when it or a slot cannot
\* be had, nothing has happened.
Open(t) ==
  /\ call[t].at = "idle"
  /\ memory = "none"
  /\ memory' = "allocated"
  /\ call' = [call EXCEPT ![t] =
       [NoCall EXCEPT !.op = IF kind.of = "connection" THEN "connect" ELSE "listen",
                      !.at = "passed"]]
  /\ UNCHANGED <<kind, capability, busy, onLoop, commands>>

Offered ==
  IF kind.of = "connection" THEN {"read", "write", "shutdown", "no_delay"} ELSE {"accept"}

\* hex_handle_resolve.  A read or a write may have a deadline, a write has
\* one chunk, several or none.
Enter(t, op, deadline, left) ==
  /\ call[t].at = "idle"
  /\ op \in Offered \cap kind.makes[t]
  /\ op \notin {"read", "write"} => deadline = "none"
  /\ IF op = "write" THEN left \in Chunks ELSE left = 0
  /\ Registry!Use(t, Block)
  /\ call' = [call EXCEPT ![t] = [NoCall EXCEPT
       !.op = op, !.at = "resolved", !.deadline = deadline, !.left = left]]
  /\ UNCHANGED <<kind, memory, busy, onLoop, commands>>

\* Busy: another call of this kind is active.  A read of no bytes ends here, too.
Refuse(t) ==
  /\ call[t].at = "resolved"
  /\ call[t].op \in Exclusive
  /\ busy[call[t].op] \/ call[t].op = "read"
  /\ Registry!Leave(t, Block)
  /\ Idle(t)
  /\ UNCHANGED <<kind, memory, busy, onLoop, commands>>

\* The calls of this kind that have read the flag and not set it, and those that
\* met another and so may find their flag cleared by it.
Beside(t) ==
  {u \in Tasks \ {t} : call[u].op = call[t].op /\
     (call[u].at = "passed" \/ (call[u].at \in {"waiting", "woken"} /\ call[u].met))}

\* The flag was clear.  No lock is held: a Task on another worker may have read it
\* as clear, too, and Send sets it.
Admit(t) ==
  /\ call[t].at = "resolved"
  /\ call[t].op \in Exclusive
  /\ ~busy[call[t].op]
  /\ call' = [u \in Tasks |->
       IF u = t THEN [call[u] EXCEPT !.at = "passed", !.met = Beside(t) # {}]
       ELSE IF u \in Beside(t) THEN [call[u] EXCEPT !.met = TRUE] ELSE call[u]]
  /\ UNCHANGED <<ofTasks, onLoop, commands>>

\* A write of nothing sends no command.
Send(t) ==
  LET op == call[t].op IN
  /\ call[t].at = "passed" \/ (call[t].at = "resolved" /\ op \notin Exclusive)
  /\ busy' = IF op \in Exclusive THEN [busy EXCEPT ![op] = TRUE] ELSE busy
  /\ IF op = "write" /\ call[t].left = 0
       THEN At(t, "woken") /\ UNCHANGED commands
       ELSE Submit(t, call[t])
  /\ UNCHANGED <<kind, capability, memory, onLoop>>

\* hex_tcp_close, hex_tcp_listener_close: hex_handle_close_begin.
CloseBegin(t) ==
  /\ call[t].at = "idle"
  /\ "close" \in kind.makes[t]
  /\ Registry!Close(t, Block)
  /\ call' = [call EXCEPT ![t] = [NoCall EXCEPT !.op = "close", !.at = "resolved"]]
  /\ UNCHANGED <<kind, memory, busy, onLoop, commands>>

-----------------------------------------------------------------------------
\* The Task again, after its wake.

\* The connection or listener is published.
Publish(t) ==
  /\ call[t].at = "woken"
  /\ call[t].op \in {"connect", "listen"}
  /\ call[t].status = "ok"
  /\ Registry!Open(Block)
  /\ Idle(t)
  /\ UNCHANGED <<kind, memory, busy, onLoop, commands>>

\* The slot is abandoned, and hex_tcp_native_close closes the socket.
Abandon(t) ==
  /\ call[t].at = "woken"
  /\ call[t].op \in {"connect", "listen"}
  /\ call[t].status = "failed"
  /\ Submit(t, [NoCall EXCEPT !.op = "discard"])
  /\ UNCHANGED <<ofTasks, onLoop>>

Discard(t) ==
  /\ call[t].at = "woken"
  /\ call[t].op = "discard"
  /\ memory' = "freed"
  /\ Idle(t)
  /\ UNCHANGED <<kind, capability, busy, onLoop, commands>>

MoreToWrite(c) == c.op = "write" /\ c.status = "ok" /\ c.left > 1

\* The next chunk has a record of its own.
NextChunk(t) ==
  /\ call[t].at = "woken"
  /\ MoreToWrite(call[t])
  /\ Submit(t, [call[t] EXCEPT !.left = @ - 1, !.outcome = "pending"])
  /\ UNCHANGED <<ofTasks, onLoop>>

\* The flag is cleared, the lease released; a close is finished.  An accepted
\* client gets a capability of its own, or is closed for want of a slot.
Finish(t) ==
  LET op == call[t].op IN
  /\ call[t].at = "woken"
  /\ op \notin {"connect", "listen", "discard"}
  /\ ~MoreToWrite(call[t])
  /\ busy' = IF op \in Exclusive THEN [busy EXCEPT ![op] = FALSE] ELSE busy
  /\ Registry!Leave(t, Block)
  /\ Idle(t)
  /\ UNCHANGED <<kind, memory, onLoop, commands>>

\* hex_handle_recycle, by the last that leaves.
Recycle ==
  /\ Registry!Free(Block)
  /\ memory' = "freed"
  /\ UNCHANGED <<kind, busy, onLoop, commands, call>>

-----------------------------------------------------------------------------
\* The loop thread: what ends a request.

Stop(timer) == IF timer = "none" THEN "none" ELSE "stopped"

\* hex_tcp_read_settle: no callback reaches the record after uv_read_stop.
ReadSettle(t, outcome, result) ==
  /\ control' = [control EXCEPT !.readOp = None, !.readTimer = Stop(@)]
  /\ uv' = [uv EXCEPT !.reading = FALSE]
  /\ call' = [call EXCEPT ![t].at = "woken", ![t].outcome = outcome, ![t].status = result]

\* The native handles of the control block.
NativeHandles ==
  {"socket"} \cup (IF control.readTimer = "none" THEN {} ELSE {"read timer"})
             \cup (IF control.writeTimer = "none" THEN {} ELSE {"write timer"})

\* Mutant of Cut: it wakes the writer, whom libuv's completion wakes, too.
CutWakesAll(t, c) ==
  CASE t = control.readOp        -> [c EXCEPT !.at = "woken", !.outcome = "closed"]
    [] t = control.acceptCommand -> [c EXCEPT !.at = "woken"]
    [] t = control.writeOp       -> [c EXCEPT !.at = "woken", !.status = "closed"]
    [] OTHER                     -> c

\* What hex_tcp_begin_close does to the call c of t: a write is libuv's to end.
Cut(t, c) ==
  CASE t = control.readOp        -> [c EXCEPT !.at = "woken", !.outcome = "closed"]
    [] t = control.acceptCommand -> [c EXCEPT !.at = "woken"]
    [] t = control.writeOp /\ c.outcome = "pending" -> [c EXCEPT !.outcome = "closed"]
    [] OTHER                     -> c

\* hex_tcp_begin_close, once the calls are as given; clients that nobody took
\* are discarded with the sockets that hold them.
BeginClose(closer, calls) ==
  /\ control' = [control EXCEPT
       !.state = "closing", !.closer = closer, !.readOp = None, !.acceptCommand = None,
       !.readTimer = Stop(@), !.writeTimer = Stop(@),
       !.closePending = Cardinality(NativeHandles)]
  /\ clients' = [clients EXCEPT !.pending = FALSE, !.spare = FALSE, !.held = 0,
                                    !.givenUp = FALSE]
  /\ uv' = [uv EXCEPT !.reading = FALSE, !.listening = FALSE, !.closing = NativeHandles]
  /\ call' = [t \in Tasks |-> Cut(t, calls[t])]

-----------------------------------------------------------------------------
\* The loop thread: the start of a command.

Starts(t, op) ==
  /\ commands # << >>
  /\ t = Head(commands)
  /\ call[t].op = op
  /\ commands' = Tail(commands)

\* libuv has the request until its callback.
Request(t) == uv' = [uv EXCEPT !.requests = @ \cup {t}]

\* hex_tcp_connect_start, hex_tcp_connect_done.
ConnectStart(t) ==
  /\ Starts(t, "connect")
  /\ \/ Request(t) /\ UNCHANGED call
     \/ Answer(t, "failed") /\ UNCHANGED uv
  /\ UNCHANGED <<ofTasks, control, clients>>

ConnectDone(t, result) ==
  /\ t \in uv.requests
  /\ call[t].op = "connect"
  /\ uv' = [uv EXCEPT !.requests = @ \ {t}]
  /\ Answer(t, result)
  /\ UNCHANGED <<ofTasks, control, clients, commands>>

\* hex_tcp_listen_start: bind and listen.
ListenStart(t, result) ==
  /\ Starts(t, "listen")
  /\ uv' = [uv EXCEPT !.listening = (result = "ok")]
  /\ Answer(t, result)
  /\ UNCHANGED <<ofTasks, control, clients>>

\* A call on a socket that is no longer open: the first lines of the starts.
\* A refused read has a record whose outcome says so.
StartClosed(t) ==
  /\ \E op \in {"read", "write", "shutdown", "no_delay", "accept"} : Starts(t, op)
  /\ control.state # "open"
  /\ IF call[t].op = "read"
       THEN call' = [call EXCEPT ![t].at = "woken", ![t].outcome = "closed"]
       ELSE Answer(t, IF call[t].op = "accept" THEN "ok" ELSE "closed")
  /\ UNCHANGED <<ofTasks, onLoop>>

\* hex_tcp_timer_arm, for a call with a deadline.
Armed(timer, t) == IF call[t].deadline = "none" THEN timer ELSE "armed"

StartsOpen(t, op) == Starts(t, op) /\ control.state = "open"

\* hex_tcp_read_start.
ReadLate(t) ==
  /\ StartsOpen(t, "read")
  /\ call[t].deadline = "past"
  /\ call' = [call EXCEPT ![t].at = "woken", ![t].outcome = "deadline"]
  /\ UNCHANGED <<ofTasks, onLoop>>

\* uv_read_start refuses, as it does when it reads already.  (A timer of an
\* open socket can always be armed.)
ReadFails(t) ==
  /\ StartsOpen(t, "read")
  /\ call[t].deadline # "past"
  /\ control' = [control EXCEPT !.readTimer = Stop(Armed(@, t)), !.readOp = None]
  /\ call' = [call EXCEPT ![t].at = "woken", ![t].outcome = "done", ![t].status = "failed"]
  /\ UNCHANGED <<ofTasks, clients, uv>>

ReadStart(t) ==
  /\ StartsOpen(t, "read")
  /\ call[t].deadline # "past"
  /\ ~uv.reading
  /\ control' = [control EXCEPT !.readOp = t, !.readTimer = Armed(@, t)]
  /\ uv' = [uv EXCEPT !.reading = TRUE]
  /\ call' = [call EXCEPT ![t].outcome = "done"]
  /\ UNCHANGED <<ofTasks, clients>>

\* hex_tcp_write_start.  A write that comes too late closes the socket.
WriteLate(t) ==
  /\ StartsOpen(t, "write")
  /\ call[t].deadline = "past"
  /\ BeginClose(None, [call EXCEPT ![t].at = "woken", ![t].status = "timed out"])
  /\ UNCHANGED ofTasks

WriteFails(t) ==
  /\ StartsOpen(t, "write")
  /\ call[t].deadline # "past"
  /\ control' = [control EXCEPT !.writeTimer = Stop(Armed(@, t)), !.writeOp = None]
  /\ Answer(t, "failed")
  /\ UNCHANGED <<ofTasks, clients, uv>>

WriteStart(t) ==
  /\ StartsOpen(t, "write")
  /\ call[t].deadline # "past"
  /\ control' = [control EXCEPT !.writeOp = t, !.writeTimer = Armed(@, t)]
  /\ Request(t)
  /\ UNCHANGED <<ofTasks, clients, call>>

\* hex_tcp_shutdown_start, of which libuv takes one at a time.
ShutdownStart(t) ==
  /\ StartsOpen(t, "shutdown")
  /\ \/ /\ \A u \in uv.requests : call[u].op # "shutdown"
        /\ Request(t)
        /\ UNCHANGED call
     \/ Answer(t, "failed") /\ UNCHANGED uv
  /\ UNCHANGED <<ofTasks, control, clients>>

\* hex_tcp_nodelay_start.
NoDelayStart(t, result) ==
  /\ StartsOpen(t, "no_delay")
  /\ Answer(t, result)
  /\ UNCHANGED <<ofTasks, onLoop>>

\* Mutant of CloseStart: a socket that is closing counts as closed.
CloseStartClosing(t) ==
  /\ \E op \in {"close", "discard"} : Starts(t, op)
  /\ CASE control.state = "open" -> BeginClose(t, call)
       [] OTHER -> Answer(t, "ok") /\ UNCHANGED onLoop
  /\ UNCHANGED ofTasks

\* hex_tcp_close_start: a write deadline may have begun the close, or ended it.
CloseStart(t) ==
  /\ \E op \in {"close", "discard"} : Starts(t, op)
  /\ CASE control.state = "open" -> BeginClose(t, call)
       [] control.state = "closing" ->
            control' = [control EXCEPT !.closer = t] /\ UNCHANGED <<clients, uv, call>>
       [] control.state = "closed" -> Answer(t, "ok") /\ UNCHANGED onLoop
  /\ UNCHANGED ofTasks

-----------------------------------------------------------------------------
\* The loop thread: callbacks.

\* hex_tcp_read_cb: bytes or the end of the stream, or an error.
ReadCb(t, result) ==
  /\ uv.reading
  /\ t = control.readOp
  /\ ReadSettle(t, "done", result)
  /\ UNCHANGED <<ofTasks, clients, commands>>

\* Mutant of ReadTimerFired: an early expiry settles the read.
ReadTimerFiredEarly(t) ==
  /\ control.readTimer = "armed"
  /\ t = control.readOp
  /\ ReadSettle(t, "deadline", "ok")
  /\ UNCHANGED <<ofTasks, clients, commands>>

\* hex_tcp_read_timer_fired; an expiry before the deadline arms the timer again,
\* and no deadline is the time 0.
ReadTimerFired(t) ==
  /\ control.readTimer = "armed"
  /\ t = control.readOp
  /\ call[t].deadline # "ahead"
  /\ ReadSettle(t, "deadline", "ok")
  /\ UNCHANGED <<ofTasks, clients, commands>>

\* Mutant of WriteTimerFired: the write is not cut off.
WriteTimerFiredOnly(t) ==
  /\ control.writeTimer = "armed"
  /\ t = control.writeOp
  /\ call[t].outcome = "pending"
  /\ call[t].deadline # "ahead"
  /\ call' = [call EXCEPT ![t].outcome = "deadline"]
  /\ UNCHANGED <<ofTasks, onLoop, commands>>

\* hex_tcp_write_timer_fired: a write can be cut off only with its socket.
WriteTimerFired(t) ==
  /\ control.writeTimer = "armed"
  /\ t = control.writeOp
  /\ call[t].outcome = "pending"
  /\ call[t].deadline # "ahead"
  /\ BeginClose(None, [call EXCEPT ![t].outcome = "deadline"])
  /\ UNCHANGED <<ofTasks, commands>>

\* hex_tcp_write_done: libuv's own result counts only if nothing came before it.
WriteDone(t, result) ==
  /\ t \in uv.requests
  /\ call[t].op = "write"
  /\ uv' = [uv EXCEPT !.requests = @ \ {t}]
  /\ control' = [control EXCEPT !.writeOp = None,
       !.writeTimer = IF control.state = "open" THEN Stop(@) ELSE @]
  /\ Answer(t, CASE call[t].outcome = "deadline" -> "timed out"
                 [] call[t].outcome = "closed"   -> "closed"
                 [] OTHER                        -> result)
  /\ UNCHANGED <<ofTasks, clients, commands>>

\* hex_tcp_shutdown_done.
ShutdownDone(t, result) ==
  /\ t \in uv.requests
  /\ call[t].op = "shutdown"
  /\ uv' = [uv EXCEPT !.requests = @ \ {t}]
  /\ Answer(t, result)
  /\ UNCHANGED <<ofTasks, control, clients, commands>>

\* hex_tcp_close_done, for each native handle; libuv ends a socket's requests
\* before it.
CloseDone(handle) ==
  /\ handle \in uv.closing
  /\ handle = "socket" => uv.requests = {}
  /\ uv' = [uv EXCEPT !.closing = @ \ {handle}]
  /\ IF control.closePending > 1
       THEN /\ control' = [control EXCEPT !.closePending = @ - 1]
            /\ UNCHANGED call
       ELSE /\ control' = [control EXCEPT !.closePending = 0, !.state = "closed",
                                          !.closer = None]
            /\ IF control.closer = None THEN UNCHANGED call ELSE Answer(control.closer, "ok")
  /\ UNCHANGED <<ofTasks, clients, commands>>

-----------------------------------------------------------------------------
\* The loop thread: clients of a listener.

\* hex_tcp_accept_take: what it makes of the clients q, and whether it takes one.
\* Without a spare socket it needs memory for one, and may get none.
Take(q) ==
  {IF q.held > 0
     THEN <<[q EXCEPT !.spare = FALSE, !.held = @ - 1, !.givenUp = @ /\ q.held > 1], TRUE>>
     ELSE <<[q EXCEPT !.spare = TRUE], FALSE>>}
    \cup IF q.spare THEN {} ELSE {<<q, FALSE>>}

\* hex_tcp_accept_resume.  It takes any failure for a sign that libuv holds
\* nobody: after one for want of memory nothing looks for whom libuv does hold.
Resume(q) ==
  IF ~q.declined \/ q.pending THEN {q}
  ELSE {IF taken[2] THEN [taken[1] EXCEPT !.pending = TRUE]
        ELSE [taken[1] EXCEPT !.declined = FALSE, !.givenUp = q.held > 0] : taken \in Take(q)}

\* Mutant of AcceptStart: what libuv holds waits for the next callback.
AcceptStartNoResume(t) ==
  /\ StartsOpen(t, "accept")
  /\ IF clients.pending
       THEN /\ clients' = [clients EXCEPT !.pending = FALSE]
            /\ call' = [call EXCEPT ![t].at = "woken", ![t].client = TRUE]
            /\ UNCHANGED control
       ELSE /\ control' = [control EXCEPT !.acceptCommand = t]
            /\ UNCHANGED <<clients, call>>
  /\ UNCHANGED <<ofTasks, uv>>

\* hex_tcp_accept_start: the pending client, and the next in its place.
AcceptStart(t) ==
  /\ StartsOpen(t, "accept")
  /\ \E q \in Resume(clients) :
       IF q.pending
         THEN /\ clients' \in Resume([q EXCEPT !.pending = FALSE])
              /\ call' = [call EXCEPT ![t].at = "woken", ![t].client = TRUE]
              /\ UNCHANGED control
         ELSE /\ clients' = q
              /\ control' = [control EXCEPT !.acceptCommand = t]
              /\ UNCHANGED call
  /\ UNCHANGED <<ofTasks, uv>>

\* hex_tcp_connection_arrived: libuv holds one more client; it is left there
\* while another is pending, or when no socket can be had for it.  The next
\* accept is to try again; but there is none where one is parked already.
Arrived ==
  LET waiting == control.acceptCommand
      q == [clients EXCEPT !.held = @ + 1] IN
  /\ uv.listening
  /\ clients.held < MaxHeld
  /\ IF waiting = None /\ clients.pending
       THEN /\ clients' = [q EXCEPT !.declined = TRUE, !.givenUp = FALSE]
            /\ UNCHANGED <<control, call>>
       ELSE \E taken \in Take(q) :
              CASE ~taken[2] ->
                     /\ clients' = [taken[1] EXCEPT !.declined = TRUE,
                                                    !.givenUp = (waiting # None)]
                     /\ UNCHANGED <<control, call>>
                [] taken[2] /\ waiting # None ->
                     /\ clients' = taken[1]
                     /\ control' = [control EXCEPT !.acceptCommand = None]
                     /\ call' = [call EXCEPT ![waiting].at = "woken", ![waiting].client = TRUE]
                [] OTHER ->
                     /\ clients' = [taken[1] EXCEPT !.pending = TRUE]
                     /\ UNCHANGED <<control, call>>
  /\ UNCHANGED <<ofTasks, uv, commands>>

-----------------------------------------------------------------------------
\* The deadline of a call passes.
Elapse(t) ==
  /\ call[t].deadline = "ahead"
  /\ call' = [call EXCEPT ![t].deadline = "past"]
  /\ UNCHANGED <<ofTasks, onLoop, commands>>

Results == {"ok", "failed"}

GoesOn(t) ==
  \/ Refuse(t) \/ Admit(t) \/ Send(t)
  \/ Publish(t) \/ Abandon(t) \/ Discard(t) \/ NextChunk(t) \/ Finish(t)

Command ==
  \E t \in Tasks :
    \/ ConnectStart(t) \/ StartClosed(t) \/ ReadLate(t) \/ ReadFails(t) \/ ReadStart(t)
    \/ WriteLate(t) \/ WriteFails(t) \/ WriteStart(t) \/ ShutdownStart(t)
    \/ CloseStart(t) \/ AcceptStart(t)
    \/ \E result \in Results : ListenStart(t, result) \/ NoDelayStart(t, result)

Completes(t) ==
  \E result \in Results : ConnectDone(t, result) \/ WriteDone(t, result) \/ ShutdownDone(t, result)

Expires(t) == ReadTimerFired(t) \/ WriteTimerFired(t)

Closes == \E handle \in uv.closing : CloseDone(handle)

Next ==
  \/ \E t \in Tasks :
       \/ Open(t) \/ CloseBegin(t) \/ GoesOn(t) \/ Completes(t) \/ Expires(t) \/ Elapse(t)
       \/ \E op \in Calls, deadline \in {"none", "ahead"}, left \in Chunks \cup {0} :
            Enter(t, op, deadline, left)
       \/ \E result \in Results : ReadCb(t, result)
  \/ Command \/ Closes \/ Arrived \/ Recycle

Spec == Init /\ [][Next]_vars

\* Tasks run, the loop starts commands, time passes and timers expire.  A peer
\* owes nothing: libuv must end a request only once its socket is being closed.
Fairness ==
  /\ \A t \in Tasks :
       /\ WF_vars(GoesOn(t)) /\ WF_vars(Elapse(t)) /\ WF_vars(Expires(t))
       /\ WF_vars(Completes(t) /\ control.state # "open")
  /\ WF_vars(Command) /\ WF_vars(Closes) /\ WF_vars(Recycle)

FairSpec == Spec /\ Fairness

-----------------------------------------------------------------------------
\* A parked call is in the hands of the loop, and nothing else is: the queue,
\* the control block and libuv name no record whose Task was woken, and lose
\* none whose Task waits, but a read or an accept that met another of its kind,
\* whose place that took; and the control block is given back only when libuv
\* has let go of every handle in it.  [the comment on hex_tcp_control: "no libuv
\* callback reaches a record after that wake"]
Named(t) ==
  \/ \E i \in 1..Len(commands) : commands[i] = t
  \/ t \in {control.readOp, control.acceptCommand, control.closer} \cup uv.requests

Lost(t) == call[t].at = "waiting" /\ ~Named(t)

NothingDangles ==
  /\ \A t \in Tasks :
       /\ Named(t) => call[t].at = "waiting"
       /\ Lost(t) => call[t].met /\ call[t].op \in {"read", "accept"}
  /\ control.writeOp \in uv.requests \cup {None}
  /\ memory = "freed" => uv.closing = {} /\ control.state = "closed"

\* The first of completion, deadline and close decides what a call is told:
\* TimedOut never before the deadline, and for a write only with the socket on
\* its way to closed, Closed or no client never while the socket is open, and a
\* close has returned only when every handle is closed.  Only a write that met
\* another can time out without a deadline, by the other's timer.
\* [hex_tcp_read_core, hex_tcp_write_done, hex_tcp_accept, hex_tcp_native_close]
ToldRight ==
  \A t \in Tasks : call[t].at = "woken" =>
    /\ call[t].outcome = "deadline" \/ call[t].status = "timed out" =>
         \/ call[t].deadline = "past"
         \/ call[t].op = "write" /\ call[t].met /\ call[t].deadline = "none"
    /\ \/ call[t].outcome = "closed"
       \/ call[t].status \in {"closed", "timed out"}
       \/ call[t].op = "accept" /\ ~call[t].client
       => control.state # "open"
    /\ call[t].op \in {"close", "discard"} =>
         control.state = "closed" /\ control.closePending = 0

\* No client waits beside a parked accept, and libuv holds none that the next
\* accept would not look for; but for a client that was given up for want of
\* memory, in one of two ways: hex_tcp_accept_resume took the failure for an
\* empty listener, or an accept was parked already when the callback failed.
\* An accept that met another may be parked when that takes the clients.
\* [hex_tcp_connection_arrived: "libuv still holds the connection; the next
\* accept command retries"]
NoStrandedClient ==
  /\ control.acceptCommand # None =>
       \/ ~clients.pending /\ (clients.held = 0 \/ clients.givenUp)
       \/ call[control.acceptCommand].met
  /\ clients.held > 0 => clients.declined \/ clients.givenUp

\* A close ends every call and gives the control block back, unless a call was
\* lost before; a call with a deadline ends, unless it met another of its kind.
CallsEnd ==
  /\ status[Block] = "closing" ~> memory = "freed" \/ \E t \in Tasks : Lost(t)
  /\ \A t \in Tasks : call[t].deadline # "none" ~> call[t].at = "idle" \/ call[t].met
=============================================================================
