---------------------------- MODULE ProcessSignal ----------------------------
(***************************************************************************)
(* Child processes and their pipes (src/compiler/generator/packages/       *)
(* process.c) and signal subscriptions (signal.c): one control block, from *)
(* its publication to its release.  wait and next put the Task on a list   *)
(* in the block, give the lease back, park, and look at the block again    *)
(* when they are woken.  The loop thread records the exit or the signal    *)
(* and wakes them, a close records itself and wakes them too: the two meet *)
(* in the lock of the block.  A process has its native handle closed by    *)
(* the close if it has exited by then, and by its exit otherwise.  The     *)
(* calls on a pipe and terminate are requests on the Task's stack, as in   *)
(* Tcp.                                                                    *)
(*                                                                         *)
(* The registry is taken by its promise (Capability), the event bridge as  *)
(* a queue of commands (EventLoop), a wake as resuming a Task (Scheduler). *)
(***************************************************************************)
EXTENDS Integers, FiniteSets, Sequences

CONSTANTS
  Tasks,
  Block,      \* the control block
  Teardown,   \* the close as a user of the block, which outlasts the call
  Signals,    \* the subscribed signals, in declaration order
  Makes,      \* bound: Task -> the calls that it makes
  None

ASSUME ProcessSignalAssumption ==
  /\ IsFiniteSet(Tasks)
  /\ Signals \subseteq Nat /\ IsFiniteSet(Signals)
  /\ Makes \in [Tasks -> SUBSET {"wait", "terminate", "next", "read", "write",
                                 "shutdown", "close"}]
  /\ Teardown \notin Tasks /\ None \notin Tasks

VARIABLES
  kind,           \* what the control block is for
  status, users,  \* its capability in the registry
  control,        \* the fields that Tasks and the loop share
  uv,             \* what libuv has of the native handles
  commands,       \* the commands that the loop has not started
  loop,           \* where the loop thread is in a callback
  call            \* Task -> its call, with the request or waiter record

capability == <<status, users>>
vars == <<kind, capability, control, uv, commands, loop, call>>

Registry == INSTANCE Capability WITH Actors <- Tasks \cup {Teardown}, Handles <- {Block}

Exclusive == {"read", "write"}

Call == [op : {"none", "wait", "terminate", "next", "read", "write", "shutdown", "close"},
         at : {"idle", "resolved", "passed", "listed", "parked", "draining", "waiting",
               "leaving"},
         by : {"none", "fact", "close"},   \* history: who took it off the list
         met : BOOLEAN,                    \* history: see Overtakes, Beside, CloseBegins
         woken : BOOLEAN,
         closed : BOOLEAN,                 \* waiter.closed
         exited : BOOLEAN,                 \* already_exited
         result : {"none", "exited", "signal", "end", "closed", "busy", "done",
                   "failed", "undefined"}]

NoCall == [op |-> "none", at |-> "idle", by |-> "none", met |-> FALSE, woken |-> FALSE,
           closed |-> FALSE, exited |-> FALSE, result |-> "none"]

TypeOK ==
  /\ kind \in {"process", "signals", "readable pipe", "writable pipe"}
  /\ status \in [{Block} -> {"unused", "open", "closing", "freed"}]
  /\ users \in [{Block} -> SUBSET (Tasks \cup {Teardown})]
  /\ control \in [exited : BOOLEAN, closed : BOOLEAN, waiters : SUBSET Tasks,
                  pending : SUBSET Signals, busy : SUBSET Exclusive]
  /\ uv \in [closes : Nat, closing : SUBSET (Signals \cup {Block}),
             reading : Tasks \cup {None}, requests : SUBSET Tasks,
             data : Tasks \cup {None}]
  /\ commands \in Seq(Tasks)
  /\ loop \in [at : {"polling", "waking"}, closed : BOOLEAN]
  /\ call \in [Tasks -> Call]

\* The child was spawned or the watchers were started; the block is reserved.
Init ==
  /\ kind \in {"process", "signals", "readable pipe", "writable pipe"}
  /\ Registry!Init
  /\ control = [exited |-> FALSE, closed |-> FALSE, waiters |-> {},
                pending |-> {}, busy |-> {}]
  /\ uv = [closes |-> 0, closing |-> {}, reading |-> None, requests |-> {}, data |-> None]
  /\ commands = << >>
  /\ loop = [at |-> "polling", closed |-> FALSE]
  /\ call = [t \in Tasks |-> NoCall]

Submit(t) ==
  /\ commands' = Append(commands, t)
  /\ call' = [call EXCEPT ![t].at = "waiting", ![t].woken = FALSE]

Ends(t, result) == call' = [call EXCEPT ![t].at = "leaving", ![t].result = result]

\* hex_task_event_wake of a submitted t, after its result was written.
Answer(t, result) == call' = [call EXCEPT ![t].woken = TRUE, ![t].result = result]

\* The Tasks that were on the list, taken off it by the exit, a signal or the close.
TakenOff(taken, by) ==
  [t \in Tasks |-> IF t \in taken THEN [call[t] EXCEPT !.by = by] ELSE call[t]]

\* t was taken off the list and will look at the block, which it does not lease.
WillLook(t) ==
  /\ call[t].at \in {"listed", "parked"}
  /\ \/ call[t].by = "fact"
     \/ call[t].by = "close" /\ call[t].op = "next"

\* t goes on with the call c, and those that were to look meet what it took.
Overtakes(t, c) ==
  call' = [u \in Tasks |-> IF u = t THEN c
                           ELSE [call[u] EXCEPT !.met = @ \/ WillLook(u)]]

At(t, op, place) == call[t].op = op /\ call[t].at = place

ofTasks == <<kind, capability>>

\* The parent's end of a pipe has one direction.
Pipe == kind \in {"readable pipe", "writable pipe"}

-----------------------------------------------------------------------------
\* wait and next.

\* hex_handle_publish, at the end of hex_process_start and hex_signals_new.
Publish ==
  /\ Registry!Open(Block)
  /\ UNCHANGED <<kind, control, uv, commands, loop, call>>

Offered ==
  CASE kind = "process" -> {"wait", "terminate"}
    [] kind = "signals" -> {"next"}
    [] kind = "readable pipe" -> {"read"}
    [] kind = "writable pipe" -> {"write", "shutdown"}

\* hex_handle_resolve.
Enter(t, op) ==
  /\ call[t].at = "idle"
  /\ op \in Offered \cap Makes[t]
  /\ Registry!Use(t, Block)
  /\ call' = [call EXCEPT ![t] = [NoCall EXCEPT !.op = op, !.at = "resolved"]]
  /\ UNCHANGED <<kind, control, uv, commands, loop>>

\* In the lock: the exit first, then a close.
WaitKnows(t) ==
  /\ At(t, "wait", "resolved")
  /\ control.exited \/ control.closed
  /\ Ends(t, IF control.exited THEN "exited" ELSE "closed")
  /\ UNCHANGED <<ofTasks, control, uv, commands, loop>>

\* Mutant of WaitRegisters: the test was made before the lock was taken.
WaitRegistersUntested(t) ==
  /\ At(t, "wait", "resolved")
  /\ ~control.closed
  /\ control' = [control EXCEPT !.waiters = @ \cup {t}]
  /\ call' = [call EXCEPT ![t].at = "listed"]
  /\ UNCHANGED <<ofTasks, uv, commands, loop>>

\* hex_task_event_arm, in the lock.
WaitRegisters(t) ==
  /\ At(t, "wait", "resolved")
  /\ ~control.exited /\ ~control.closed
  /\ control' = [control EXCEPT !.waiters = @ \cup {t}]
  /\ call' = [call EXCEPT ![t].at = "listed"]
  /\ UNCHANGED <<ofTasks, uv, commands, loop>>

NextBusy(t) ==
  /\ At(t, "next", "resolved")
  /\ control.waiters # {}
  /\ Ends(t, "busy")
  /\ UNCHANGED <<ofTasks, control, uv, commands, loop>>

First(signals) == CHOOSE s \in signals : \A r \in signals : s <= r

Taken == [control EXCEPT !.pending = @ \ {First(@)}]

NextTakes(t) ==
  /\ At(t, "next", "resolved")
  /\ control.waiters = {} /\ control.pending # {}
  /\ control' = Taken
  /\ Overtakes(t, [call[t] EXCEPT !.at = "leaving", !.result = "signal"])
  /\ UNCHANGED <<ofTasks, uv, commands, loop>>

NextEnds(t) ==
  /\ At(t, "next", "resolved")
  /\ control.waiters = {} /\ control.pending = {} /\ control.closed
  /\ Ends(t, "end")
  /\ UNCHANGED <<ofTasks, control, uv, commands, loop>>

NextRegisters(t) ==
  /\ At(t, "next", "resolved")
  /\ control.waiters = {} /\ control.pending = {} /\ ~control.closed
  /\ control' = [control EXCEPT !.waiters = {t}]
  /\ call' = [call EXCEPT ![t].at = "listed"]
  /\ UNCHANGED <<ofTasks, uv, commands, loop>>

\* The lease goes before the park: from its wake to its look nothing holds the
\* block for the Task, nor the signal or the end it was woken for.
Parks(t) ==
  /\ call[t].at = "listed"
  /\ Registry!Leave(t, Block)
  /\ call' = [call EXCEPT ![t].at = "parked"]
  /\ UNCHANGED <<kind, control, uv, commands, loop>>

\* A waiter that close has marked does not look.
WaitResumes(t) ==
  /\ At(t, "wait", "parked") /\ call[t].woken
  /\ Ends(t, IF call[t].closed THEN "closed"
             ELSE IF status[Block] = "freed" THEN "undefined" ELSE "exited")
  /\ UNCHANGED <<ofTasks, control, uv, commands, loop>>

NextResumes(t) ==
  /\ At(t, "next", "parked") /\ call[t].woken
  /\ IF status[Block] = "freed" THEN Ends(t, "undefined") /\ UNCHANGED control
     ELSE IF control.pending = {} THEN Ends(t, "end") /\ UNCHANGED control
     ELSE /\ control' = Taken
          /\ Overtakes(t, [call[t] EXCEPT !.at = "leaving", !.result = "signal"])
  /\ UNCHANGED <<ofTasks, uv, commands, loop>>

Leaves(t) ==
  /\ call[t].at = "leaving"
  /\ call' = [call EXCEPT ![t] = NoCall]
  /\ IF t \in users[Block] THEN Registry!Leave(t, Block) ELSE UNCHANGED capability
  /\ UNCHANGED <<kind, control, uv, commands, loop>>

-----------------------------------------------------------------------------
\* terminate, and the calls on a pipe.

Terminate(t) ==
  /\ At(t, "terminate", "resolved")
  /\ Submit(t)
  /\ UNCHANGED <<ofTasks, control, uv, loop>>

\* A read of no bytes ends here, too.
PipeRefuses(t) ==
  /\ call[t].op \in Exclusive
  /\ call[t].at = "resolved"
  /\ \/ call[t].op \in control.busy /\ Ends(t, "busy")
     \/ call[t].op = "read" /\ Ends(t, "done")
  /\ UNCHANGED <<ofTasks, control, uv, commands, loop>>

\* The calls of this kind that have read the flag and not set it, and those that
\* met another and so may find their flag cleared by it.
Beside(t) ==
  {u \in Tasks \ {t} : call[u].op = call[t].op /\
     (call[u].at = "passed" \/ (call[u].at = "waiting" /\ call[u].met))}

\* The flag was clear.  No lock is held: as in Tcp, another may find it so, too.
PipePasses(t) ==
  /\ call[t].op \in Exclusive \ control.busy
  /\ call[t].at = "resolved"
  /\ call' = [u \in Tasks |->
       IF u = t THEN [call[u] EXCEPT !.at = "passed", !.met = @ \/ Beside(t) # {}]
       ELSE [call[u] EXCEPT !.met = @ \/ u \in Beside(t)]]
  /\ UNCHANGED <<ofTasks, control, uv, commands, loop>>

\* A write of nothing sends no command.
PipeSubmits(t) ==
  /\ call[t].at = "passed"
  /\ control' = [control EXCEPT !.busy = @ \cup {call[t].op}]
  /\ \/ Submit(t)
     \/ /\ call[t].op = "write"
        /\ call' = [call EXCEPT ![t].at = "waiting", ![t].woken = TRUE]
        /\ UNCHANGED commands
  /\ UNCHANGED <<ofTasks, uv, loop>>

Shutdown(t) ==
  /\ At(t, "shutdown", "resolved")
  /\ Submit(t)
  /\ UNCHANGED <<ofTasks, control, uv, loop>>

\* hex_pipe_write sends the next chunk of its Slice.
WriteGoesOn(t) ==
  /\ At(t, "write", "waiting") /\ call[t].woken /\ call[t].result = "done"
  /\ Submit(t)
  /\ UNCHANGED <<ofTasks, control, uv, loop>>

RequestReturns(t) ==
  /\ call[t].at = "waiting" /\ call[t].woken
  /\ call[t].op # "close"
  /\ control' = [control EXCEPT !.busy = @ \ {call[t].op}]
  /\ call' = [call EXCEPT ![t].at = "leaving"]
  /\ UNCHANGED <<ofTasks, uv, commands, loop>>

-----------------------------------------------------------------------------
\* close.

ReadsUnderWay == {t \in Tasks : call[t].op = "read" /\ call[t].at # "leaving"}

\* A read that is under way keeps its lease, but the close does not wait for it.
CloseBegins(t) ==
  /\ call[t].at = "idle"
  /\ "close" \in Makes[t]
  /\ Registry!Close(Teardown, Block)
  /\ call' = [u \in Tasks |->
       IF u = t
         THEN [NoCall EXCEPT !.op = "close", !.at = "resolved", !.met = ReadsUnderWay # {}]
         ELSE [call[u] EXCEPT !.met = @ \/ u \in ReadsUnderWay]]
  /\ UNCHANGED <<kind, control, uv, commands, loop>>

\* In the lock of the block.
CloseTakes(t) ==
  /\ At(t, "close", "resolved")
  /\ ~Pipe
  /\ control' = [control EXCEPT !.closed = TRUE, !.waiters = {}]
  /\ call' = [TakenOff(control.waiters, "close") EXCEPT
                ![t].at = "draining", ![t].exited = control.exited]
  /\ UNCHANGED <<ofTasks, uv, commands, loop>>

CloseWakes(t, u) ==
  /\ At(t, "close", "draining")
  /\ call[u].by = "close" /\ ~call[u].woken
  /\ call' = [call EXCEPT ![u].woken = TRUE, ![u].closed = kind = "process"]
  /\ UNCHANGED <<ofTasks, control, uv, commands, loop>>

Drained(by) == \A u \in Tasks : call[u].by = by => call[u].woken

\* Mutant of CloseGoesOn: it looks at the exit again when it needs it.
CloseLooksAgain(t) ==
  /\ At(t, "close", "draining")
  /\ Drained("close")
  /\ IF kind = "process" /\ ~control.exited
     THEN Ends(t, "done") /\ UNCHANGED commands
     ELSE Submit(t)
  /\ UNCHANGED <<ofTasks, control, uv, loop>>

\* The exit callback closes the native handle of a process that had not exited.
CloseGoesOn(t) ==
  /\ At(t, "close", "draining")
  /\ Drained("close")
  /\ IF kind = "process" /\ ~call[t].exited
     THEN Ends(t, "done") /\ UNCHANGED commands
     ELSE Submit(t)
  /\ UNCHANGED <<ofTasks, control, uv, loop>>

PipeCloseSubmits(t) ==
  /\ At(t, "close", "resolved")
  /\ Pipe
  /\ Submit(t)
  /\ UNCHANGED <<ofTasks, control, uv, loop>>

\* hex_handle_close_finish is the closer's for a pipe, the loop's for the others.
CloseReturns(t) ==
  /\ At(t, "close", "waiting") /\ call[t].woken
  /\ IF Pipe THEN Registry!Leave(Teardown, Block) ELSE UNCHANGED capability
  /\ Ends(t, "done")
  /\ UNCHANGED <<kind, control, uv, commands, loop>>

\* The registry frees the block.
Recycle ==
  /\ Registry!Free(Block)
  /\ UNCHANGED <<kind, control, uv, commands, loop, call>>

-----------------------------------------------------------------------------
\* The loop thread.

Polling == loop.at = "polling"

\* uv_close of the native handle, or of each watcher.  It stops a read without a
\* callback.
NativeClose(data) ==
  uv' = [uv EXCEPT !.closes = @ + 1, !.reading = None, !.data = data,
                   !.closing = IF kind = "signals" THEN Signals ELSE {Block}]

StartClose(t) ==
  /\ call[t].op = "close"
  /\ NativeClose(IF Pipe THEN t ELSE uv.data)
  /\ IF Pipe THEN UNCHANGED call ELSE Answer(t, "done")

StartTerminate(t) ==
  /\ call[t].op = "terminate"
  /\ \E result \in {"done", "failed"} : Answer(t, result)
  /\ UNCHANGED uv

\* The record is put into pipe.data before libuv refuses, as it does when the
\* pipe is closing or read already.
StartRead(t) ==
  /\ call[t].op = "read"
  /\ \/ /\ uv.closes = 0 /\ uv.reading = None
        /\ uv' = [uv EXCEPT !.data = t, !.reading = t]
        /\ UNCHANGED call
     \/ /\ uv' = [uv EXCEPT !.data = t]
        /\ Answer(t, "failed")

StartRequest(t) ==
  /\ call[t].op \in {"write", "shutdown"}
  /\ \/ /\ uv.closes = 0
        /\ uv' = [uv EXCEPT !.requests = @ \cup {t}]
        /\ UNCHANGED call
     \/ /\ Answer(t, "failed")
        /\ UNCHANGED uv

StartCommand ==
  /\ Polling
  /\ commands # << >>
  /\ LET t == Head(commands) IN
       StartClose(t) \/ StartTerminate(t) \/ StartRead(t) \/ StartRequest(t)
  /\ commands' = Tail(commands)
  /\ UNCHANGED <<ofTasks, control, loop>>

\* hex_process_exited and hex_signals_fired, in the lock of the block.
Exits ==
  /\ Polling
  /\ kind = "process" /\ ~control.exited
  /\ control' = [control EXCEPT !.exited = TRUE, !.waiters = {}]
  /\ loop' = [at |-> "waking", closed |-> control.closed]
  /\ call' = TakenOff(control.waiters, "fact")
  /\ UNCHANGED <<ofTasks, uv, commands>>

Fires(s) ==
  /\ Polling
  /\ kind = "signals" /\ uv.closes = 0
  /\ control' = [control EXCEPT !.pending = @ \cup {s}, !.waiters = {}]
  /\ loop' = [at |-> "waking", closed |-> FALSE]
  /\ call' = [t \in Tasks |->
       IF t \in control.waiters THEN [call[t] EXCEPT !.by = "fact"]
       ELSE [call[t] EXCEPT !.met = @ \/ WillLook(t)]]
  /\ UNCHANGED <<ofTasks, uv, commands>>

LoopWakes(u) ==
  /\ loop.at = "waking"
  /\ call[u].by = "fact" /\ ~call[u].woken
  /\ call' = [call EXCEPT ![u].woken = TRUE]
  /\ UNCHANGED <<ofTasks, control, uv, commands, loop>>

\* Mutant of CallbackEnds: the exit leaves the native handle to the close.
CallbackLeavesHandle ==
  /\ loop.at = "waking"
  /\ Drained("fact")
  /\ loop' = [at |-> "polling", closed |-> FALSE]
  /\ UNCHANGED <<ofTasks, control, uv, commands, call>>

CallbackEnds ==
  /\ loop.at = "waking"
  /\ Drained("fact")
  /\ IF loop.closed THEN NativeClose(uv.data) ELSE UNCHANGED uv
  /\ loop' = [at |-> "polling", closed |-> FALSE]
  /\ UNCHANGED <<ofTasks, control, commands, call>>

\* The callback takes pipe.data for the record of t, and its Task is woken.  Where
\* another start has replaced it, that is the record of a call which failed there
\* and then: nobody is told, and what its memory holds by now is not followed.
TellRecord(t) == IF uv.data = t THEN Answer(t, "done") ELSE UNCHANGED call

\* hex_pipe_read_cb.
ReadDone ==
  /\ Polling
  /\ uv.reading # None
  /\ uv' = [uv EXCEPT !.reading = None]
  /\ TellRecord(uv.reading)
  /\ UNCHANGED <<ofTasks, control, commands, loop>>

\* A request of a closing pipe is cancelled.
RequestDone(t) ==
  /\ Polling
  /\ t \in uv.requests
  /\ uv' = [uv EXCEPT !.requests = @ \ {t}]
  /\ \E result \in {"done", "failed"} :
       /\ uv.closes > 0 => result = "failed"
       /\ Answer(t, result)
  /\ UNCHANGED <<ofTasks, control, commands, loop>>

\* The callback of uv_close: after the last one of a process or of the
\* watchers, hex_handle_close_finish.
NativeClosed(h) ==
  /\ Polling
  /\ ~Pipe
  /\ h \in uv.closing
  /\ uv' = [uv EXCEPT !.closing = @ \ {h}]
  /\ IF uv'.closing = {} THEN Registry!Leave(Teardown, Block) ELSE UNCHANGED capability
  /\ UNCHANGED <<kind, control, commands, loop, call>>

\* hex_pipe_close_done takes the record in pipe.data for the closer's.
PipeClosed ==
  /\ Polling
  /\ Pipe
  /\ Block \in uv.closing /\ uv.requests = {}
  /\ uv' = [uv EXCEPT !.closing = {}]
  /\ \E t \in Tasks : At(t, "close", "waiting") /\ TellRecord(t)
  /\ UNCHANGED <<ofTasks, control, commands, loop>>

-----------------------------------------------------------------------------
TaskGoesOn(t) ==
  \/ WaitKnows(t) \/ WaitRegisters(t) \/ WaitResumes(t)
  \/ NextBusy(t) \/ NextTakes(t) \/ NextEnds(t) \/ NextRegisters(t) \/ NextResumes(t)
  \/ Parks(t) \/ Leaves(t)
  \/ Terminate(t) \/ Shutdown(t) \/ RequestReturns(t)
  \/ PipeRefuses(t) \/ PipePasses(t) \/ PipeSubmits(t)
  \/ CloseTakes(t) \/ CloseGoesOn(t) \/ PipeCloseSubmits(t) \/ CloseReturns(t)
  \/ \E u \in Tasks : CloseWakes(t, u)

\* What ends without the outside world's doing.
LoopSettles ==
  \/ StartCommand \/ PipeClosed
  \/ \E h \in Signals \cup {Block} : NativeClosed(h)
  \/ \E t \in Tasks : RequestDone(t) /\ uv.closes > 0

CallbackGoesOn == CallbackEnds \/ \E u \in Tasks : LoopWakes(u)

Next ==
  \/ Publish \/ Recycle
  \/ \E t \in Tasks :
       \/ \E op \in Makes[t] : Enter(t, op)
       \/ CloseBegins(t) \/ TaskGoesOn(t) \/ WriteGoesOn(t) \/ RequestDone(t)
  \/ LoopSettles \/ CallbackGoesOn \/ Exits \/ ReadDone
  \/ \E s \in Signals : Fires(s)

Spec == Init /\ [][Next]_vars

\* Tasks and the loop run, libuv ends the requests of a closing pipe, and what
\* nobody uses is freed.  No child has to exit and no signal has to come; signals
\* that come for ever do not keep the loop from the rest.
FairSpec ==
  /\ Spec
  /\ \A t \in Tasks : WF_vars(TaskGoesOn(t))
  /\ WF_vars(CallbackGoesOn) /\ SF_vars(LoopSettles)
  /\ WF_vars(Recycle)

-----------------------------------------------------------------------------
Waiting(t) == call[t].op \in {"wait", "next"} /\ call[t].at \in {"listed", "parked"}

\* A wait or next is neither forgotten nor misled.  A Task is on the list only
\* while there is neither exit, nor pending signal, nor close; off the list it is
\* awake or about to be woken by whoever took it off; and whichever of exit or
\* signal and close took it off decides what it is told, while any other call
\* reports the end only of what is closed.  Two things can mislead it between
\* its wake and its look: a next that another call or signal overtook may be told
\* the other's, and a block may be gone.
\* [hex_process_wait, hex_signals_next, and the locks in hex_process_exited,
\* hex_signals_fired and the two closes]
NobodyForgotten ==
  /\ \A t \in control.waiters :
       /\ Waiting(t) /\ call[t].by = "none"
       /\ ~control.exited /\ ~control.closed /\ control.pending = {}
  /\ \A t \in Tasks : Waiting(t) /\ ~call[t].woken =>
       /\ call[t].by = "none" => t \in control.waiters
       /\ call[t].by = "fact" => loop.at = "waking"
       /\ call[t].by = "close" => \E c \in Tasks : At(c, "close", "draining")

Deserved(t) ==
  IF kind = "process" THEN IF call[t].by = "fact" THEN "exited" ELSE "closed"
  ELSE IF call[t].by = "fact" THEN "signal" ELSE "end"

ToldRight ==
  \A t \in Tasks : call[t].at = "leaving" /\ call[t].op \in {"wait", "next"} =>
    /\ call[t].by # "none" =>
         \/ call[t].result = Deserved(t)
         \/ call[t].op = "next" /\ call[t].met /\ call[t].result \in {"signal", "end"}
         \/ call[t].result = "undefined" /\ status[Block] = "freed"
    /\ call[t].by = "none" /\ call[t].result \in {"closed", "end"} => control.closed

WaitsEndRight == NobodyForgotten /\ ToldRight

\* What t waits for can still come: its record is in the queue, in libuv's
\* hands, or where the callback of a read or of uv_close finds it.
Named(t) ==
  \/ \E i \in 1..Len(commands) : commands[i] = t
  \/ t \in uv.requests
  \/ t = uv.data /\ (uv.reading = t \/ (Pipe /\ uv.closing # {}))

Lost(t) == call[t].at = "waiting" /\ ~call[t].woken /\ ~Named(t)

\* t is in code that uses the block, and that is not the look after the wake.
UsesBlock(t) ==
  \/ call[t].at \in {"resolved", "passed", "listed"}
  \/ call[t].at = "draining" /\ (kind = "process" => call[t].exited)
  \/ call[t].at = "waiting" /\ (call[t].op # "close" \/ ~call[t].woken)

\* The native handles are closed once and before the block is freed; no call
\* uses a freed block but a next, or a wait that the exit woke, which looks
\* after its wake without a lease; and the record that libuv's callbacks find is
\* that of a Task that waits, and no waiting Task's is lost, but where reads were
\* let in together or a pipe was closed beside a read: then a read or the close
\* waits for ever.
\* [hex_process_exited against hex_process_close; hex_pipe_close_done]
NothingDangles ==
  /\ uv.closes <= 1
  /\ status[Block] = "freed" =>
       /\ uv.closes = 1 /\ uv.closing = {} /\ uv.requests = {} /\ commands = << >>
       /\ \A t \in Tasks : ~UsesBlock(t)
  /\ \A t \in Tasks : call[t].result = "undefined" =>
       call[t].op = "next" \/ (call[t].op = "wait" /\ call[t].by = "fact")
  /\ uv.reading # None => \/ call[uv.reading].met
                          \/ uv.data = uv.reading /\ At(uv.data, "read", "waiting")
  /\ \A t \in Tasks : Lost(t) => call[t].met /\ call[t].op \in {"read", "close"}

\* After a close every call returns, but for those that are lost, and a child
\* that has exited is given up, unless a lost call keeps the block.
\* [hex_process_close, hex_signals_close, hex_pipe_close]
CallsEnd ==
  /\ status[Block] = "closing" ~> \A t \in Tasks : call[t].at = "idle" \/ Lost(t)
  /\ status[Block] = "closing" /\ (kind = "process" => control.exited)
       ~> status[Block] = "freed" \/ \E t \in Tasks : Lost(t)
=============================================================================
