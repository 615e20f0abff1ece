------------------------------- MODULE Server -------------------------------
(***************************************************************************)
(* The life of an HTTP server (src/compiler/corelib/runtime/server.c): one *)
(* Task runs it and accepts, each connection has a Task of its own, and    *)
(* any Task stops it, waits for its end or frees it.                       *)
(*                                                                         *)
(* A critical section of server->lock is one step (TaskMutex), a step ends *)
(* at each store or load of an atomic flag.  A TCP connection ends its     *)
(* calls when it is closed, and a close returns once it is closed, unless  *)
(* another close came first (Tcp, Capability).  Parsing and the response   *)
(* are left out: a request is in progress from its first byte until it has *)
(* been answered.                                                          *)
(***************************************************************************)
EXTENDS Integers, FiniteSets

CONSTANTS
  Connections,      \* connections that may be there at one time
  Callers,          \* Tasks that stop, wait and free
  Programs,         \* bound: max_connections, and caller -> which of these it does
  None

ASSUME ServerAssumption ==
  /\ IsFiniteSet(Connections)
  /\ Programs \subseteq
       [ceiling : Nat \ {0}, makes : [Callers -> SUBSET {"stop", "wait", "free"}]]
  /\ None \notin Connections

VARIABLES
  program,     \* the configuration, and the calls to come
  phase, stopping, listenerClosed, active,
  connections, stopClosed,   \* the registry; those that shutdown has closed
  idle,        \* connections that wait for the first byte of a request
  done,        \* is the channel done closed?
  memory,      \* the connections whose storage is allocated
  freed,       \* has the server been freed?
  listener, tcp,   \* the native sockets
  run,         \* the Task in hex_http_server_run_raw
  serve,       \* connection -> the place of its Task
  keep,        \* connections that may stay after the request in progress
  call,        \* caller -> its place in stop, wait or free
  late,        \* has the shutdown deadline passed?
  begun,       \* history: connections whose request was in progress at the stop
  missed       \* history: did run begin after a free had looked at the phase?

lifecycle == <<program, phase, stopping, listenerClosed, done, freed>>
registry == <<active, connections, stopClosed>>
native == <<listener, tcp>>
history == <<begun, missed>>
vars == <<lifecycle, registry, idle, memory, native, run, serve, keep, call, late, history>>

RunPlaces ==
  {"none", "stopping?", "room?", "accept", "new", "register", "spawn", "unlink", "reject",
   "rejecting", "free", "stop", "close-listener", "closing-listener", "look", "close", "closing",
   "active?", "deadline?", "finish", "announce", "returned"}

ServePlaces ==
  {"none", "start", "stopping?", "reading", "got", "leave", "head", "handling",
   "blocked", "next", "close", "closing", "unlink", "free", "return"}

CallPlaces ==
  {"none", "stop", "close", "closing", "receive", "result", "free", "close-to-free",
   "closing-to-free", "dispose"}

TypeOK ==
  /\ program \in Programs
  /\ phase \in {"created", "running", "done"}
  /\ stopping \in BOOLEAN /\ listenerClosed \in BOOLEAN /\ done \in BOOLEAN
  /\ late \in BOOLEAN /\ missed \in BOOLEAN /\ freed \in BOOLEAN
  /\ active \in 0..Cardinality(Connections)
  /\ \A s \in {connections, stopClosed, idle, memory, keep, begun} : s \subseteq Connections
  /\ listener \in {"open", "closing", "closed"}
  /\ tcp \in [Connections -> {"open", "closing", "closed"}]
  /\ run \in [at : RunPlaces, with : Connections \cup {None}, forced : BOOLEAN]
  /\ serve \in [Connections -> ServePlaces]
  /\ call \in [Callers -> CallPlaces]

\* hex_http_listen_raw has succeeded.
Init ==
  /\ program \in Programs
  /\ phase = "created" /\ stopping = FALSE /\ listenerClosed = FALSE /\ done = FALSE
  /\ active = 0 /\ connections = {} /\ stopClosed = {} /\ idle = {} /\ memory = {}
  /\ freed = FALSE
  /\ listener = "open" /\ tcp = [c \in Connections |-> "closed"]
  /\ run = [at |-> "none", with |-> None, forced |-> FALSE]
  /\ serve = [c \in Connections |-> "none"]
  /\ keep = {}
  /\ call = [t \in Callers |-> "none"]
  /\ late = FALSE /\ begun = {} /\ missed = FALSE

RunTo(place) == run' = [run EXCEPT !.at = place]
RunWith(place, c) == run' = [run EXCEPT !.at = place, !.with = c]
ServeTo(c, place) == serve' = [serve EXCEPT ![c] = place]
CallTo(t, place) == call' = [call EXCEPT ![t] = place]

ofRun == <<idle, memory, serve, keep, call>>
ofServe == <<lifecycle, listener, run, call>>
ofConnections == <<registry, idle, memory, tcp, serve, keep>>
ofCall == <<program, phase, done, ofConnections, run>>

InProgress == {c \in Connections : serve[c] \in {"got", "head", "handling", "blocked"}}

\* atomic_store(&server->stopping, true).
SetStopping ==
  /\ stopping' = TRUE
  /\ begun' = IF stopping THEN begun ELSE InProgress

\* hex_tcp_close: the first to close waits until it is done.
TcpClose(c) == tcp[c] = "open" /\ tcp' = [tcp EXCEPT ![c] = "closing"]
TcpCloseReturns(c) == tcp[c] # "open" /\ UNCHANGED tcp

\* In hex_http_server_free_raw, after its look at the phase.
InFree(t) == call[t] \in {"close-to-free", "closing-to-free", "dispose"}

BesideFree == \E t \in Callers : InFree(t)

-----------------------------------------------------------------------------
\* hex_http_server_run_raw: a second call changes nothing.

Run ==
  /\ run.at = "none"
  /\ phase = "created"
  /\ ~freed
  /\ phase' = "running"
  /\ RunTo("stopping?")
  /\ missed' = BesideFree
  /\ UNCHANGED <<program, stopping, listenerClosed, done, freed, registry, native, ofRun,
                 late, begun>>

RunChecksStop ==
  /\ run.at = "stopping?"
  /\ RunTo(IF stopping THEN "stop" ELSE "room?")
  /\ UNCHANGED <<lifecycle, registry, native, ofRun, late, history>>

\* Mutant of Full: one connection too many.
FullAbove == active > program.ceiling

Full == active >= program.ceiling

\* At the ceiling the Task sleeps and looks again.
RunChecksRoom ==
  /\ run.at = "room?"
  /\ RunTo(IF Full THEN "stopping?" ELSE "accept")
  /\ UNCHANGED <<lifecycle, registry, native, ofRun, late, history>>

RunAccepts(c) ==
  /\ run.at = "accept"
  /\ listener = "open"
  /\ serve[c] = "none" /\ tcp[c] = "closed" /\ c \notin memory
  /\ tcp' = [tcp EXCEPT ![c] = "open"]
  /\ RunWith("new", c)
  /\ UNCHANGED <<lifecycle, registry, listener, ofRun, late, history>>

\* The listener is closed, or accept fails: the failure is recorded.
RunAcceptEnds ==
  /\ run.at = "accept"
  /\ RunTo("stop")
  /\ UNCHANGED <<lifecycle, registry, native, ofRun, late, history>>

\* hex_http_connection_new, which may fail.
RunAllocates ==
  /\ run.at = "new"
  /\ \/ memory' = memory \cup {run.with} /\ RunTo("register")
     \/ RunTo("reject") /\ UNCHANGED memory
  /\ UNCHANGED <<lifecycle, registry, native, idle, serve, keep, call, late, history>>

RunRegisters ==
  /\ run.at = "register"
  /\ connections' = connections \cup {run.with}
  /\ active' = active + 1
  /\ RunTo("spawn")
  /\ UNCHANGED <<lifecycle, stopClosed, native, ofRun, late, history>>

\* hex_task_spawn, which may fail.
RunSpawns ==
  /\ run.at = "spawn"
  /\ \/ ServeTo(run.with, "start") /\ RunWith("stopping?", None)
     \/ RunTo("unlink") /\ UNCHANGED serve
  /\ UNCHANGED <<lifecycle, registry, native, idle, memory, keep, call, late, history>>

RunUnlinks ==
  /\ run.at = "unlink"
  /\ connections' = connections \ {run.with}
  /\ active' = active - 1
  /\ RunTo("reject")
  /\ UNCHANGED <<lifecycle, stopClosed, native, ofRun, late, history>>

RunRejects ==
  /\ run.at = "reject"
  /\ TcpClose(run.with)
  /\ RunTo("rejecting")
  /\ UNCHANGED <<lifecycle, registry, listener, ofRun, late, history>>

RunRejected ==
  /\ run.at = "rejecting"
  /\ tcp[run.with] = "closed"
  /\ memory' = memory \ {run.with}
  /\ RunWith("stopping?", None)
  /\ UNCHANGED <<lifecycle, registry, native, idle, serve, keep, call, late, history>>

-----------------------------------------------------------------------------
\* hex_http_shutdown, on the same Task.

RunStops ==
  /\ run.at = "stop"
  /\ SetStopping
  /\ RunTo("close-listener")
  /\ UNCHANGED <<program, phase, listenerClosed, done, freed, registry, native,
                 ofRun, late, missed>>

\* hex_http_close_listener: whichever comes first closes it.
RunClosesListener ==
  /\ run.at = "close-listener"
  /\ listenerClosed' = TRUE
  /\ IF listenerClosed
       THEN RunTo("look") /\ UNCHANGED listener
       ELSE RunTo("closing-listener") /\ listener' = "closing"
  /\ UNCHANGED <<program, phase, stopping, done, freed, registry, tcp, ofRun, late, history>>

RunClosedListener ==
  /\ run.at = "closing-listener"
  /\ listener = "closed"
  /\ RunTo("look")
  /\ UNCHANGED <<lifecycle, registry, native, ofRun, late, history>>

\* Mutant of Victims: those in the middle of a request, too.
VictimsAll == connections \ stopClosed

\* hex_http_next_to_close looks at each flag once, the registry locked; what it
\* finds, the connections being independent, it would also find at one time.
Victims == {c \in connections \ stopClosed : run.forced \/ c \in idle}

RunLooks ==
  /\ run.at = "look"
  /\ \/ \E c \in Victims : stopClosed' = stopClosed \cup {c} /\ RunWith("close", c)
     \/ Victims = {} /\ RunWith("active?", None) /\ UNCHANGED stopClosed
  /\ UNCHANGED <<lifecycle, active, connections, native, ofRun, late, history>>

RunCloses ==
  /\ run.at = "close"
  /\ \/ TcpClose(run.with) /\ RunTo("closing")
     \/ TcpCloseReturns(run.with) /\ RunTo("look")
  /\ UNCHANGED <<lifecycle, registry, listener, ofRun, late, history>>

RunClosed ==
  /\ run.at = "closing"
  /\ tcp[run.with] = "closed"
  /\ RunTo("look")
  /\ UNCHANGED <<lifecycle, registry, native, ofRun, late, history>>

\* Mutant of Drained: nothing is registered any more.
DrainedRegistry == connections = {}

Drained == active = 0

RunCounts ==
  /\ run.at = "active?"
  /\ RunTo(IF Drained THEN "finish" ELSE "deadline?")
  /\ UNCHANGED <<lifecycle, registry, native, ofRun, late, history>>

\* Before the deadline it sleeps and looks again.
RunForces ==
  /\ run.at = "deadline?"
  /\ run' = [run EXCEPT !.at = "look", !.forced = @ \/ late]
  /\ UNCHANGED <<lifecycle, registry, native, ofRun, late, history>>

RunFinishes ==
  /\ run.at = "finish"
  /\ phase' = "done"
  /\ RunTo("announce")
  /\ UNCHANGED <<program, stopping, listenerClosed, done, freed, registry, native, ofRun,
                 late, history>>

RunAnnounces ==
  /\ run.at = "announce"
  /\ done' = TRUE
  /\ RunTo("returned")
  /\ UNCHANGED <<program, phase, stopping, listenerClosed, freed, registry, native, ofRun,
                 late, history>>

-----------------------------------------------------------------------------
\* hex_http_connection_entry: hex_http_serve and, in it, hex_http_read_head.

\* Mutant of GoesIdle: the flag is left alone.
GoesIdleUnseen(c) ==
  /\ serve[c] = "start"
  /\ ServeTo(c, "stopping?")
  /\ UNCHANGED <<ofServe, registry, idle, memory, tcp, keep, late, history>>

\* No byte of a request is there: idle is set before stopping is read.
GoesIdle(c) ==
  /\ serve[c] = "start"
  /\ idle' = idle \cup {c}
  /\ ServeTo(c, "stopping?")
  /\ UNCHANGED <<ofServe, registry, memory, tcp, keep, late, history>>

ChecksStop(c) ==
  /\ serve[c] = "stopping?"
  /\ ServeTo(c, IF stopping THEN "leave" ELSE "reading")
  /\ UNCHANGED <<ofServe, registry, idle, memory, tcp, keep, late, history>>

\* The read has bytes, which may have come before a close; or the end of the
\* stream, an error or the idle deadline.
ReadReturns(c) ==
  /\ serve[c] = "reading"
  /\ ServeTo(c, "got") \/ ServeTo(c, "leave")
  /\ UNCHANGED <<ofServe, registry, idle, memory, tcp, keep, late, history>>

\* atomic_store(&connection->idle, false) after the read.
ClearsIdle(c) ==
  /\ serve[c] \in {"got", "leave"}
  /\ idle' = idle \ {c}
  /\ ServeTo(c, IF serve[c] = "got" THEN "head" ELSE "close")
  /\ UNCHANGED <<ofServe, registry, memory, tcp, keep, late, history>>

\* A complete head, where keep_alive is the client's wish unless the server
\* stops; or an error, a close or the header deadline, after which at most a
\* status is sent.
HeadEnds(c) ==
  /\ serve[c] = "head"
  /\ \/ /\ keep' \in {keep} \cup (IF stopping THEN {} ELSE {keep \cup {c}})
        /\ ServeTo(c, "handling")
        /\ UNCHANGED begun
     \/ /\ ServeTo(c, "close")
        /\ begun' = begun \ {c}
        /\ UNCHANGED keep
  /\ UNCHANGED <<ofServe, registry, idle, memory, tcp, late, missed>>

\* The handler reads the body or writes.
HandlerBlocks(c) ==
  /\ serve[c] = "handling"
  /\ ServeTo(c, "blocked")
  /\ UNCHANGED <<ofServe, registry, idle, memory, tcp, keep, late, history>>

HandlerGoesOn(c) ==
  /\ serve[c] = "blocked"
  /\ ServeTo(c, "handling")
  /\ UNCHANGED <<ofServe, registry, idle, memory, tcp, keep, late, history>>

\* hex_http_finish: the connection is used again at most when it was to be kept
\* and the response could be sent.
HandlerReturns(c) ==
  /\ serve[c] = "handling"
  /\ \/ c \in keep /\ tcp[c] = "open" /\ ServeTo(c, "next")
     \/ ServeTo(c, "close")
  /\ keep' = keep \ {c}
  /\ begun' = begun \ {c}
  /\ UNCHANGED <<ofServe, registry, idle, memory, tcp, late, missed>>

\* Bytes of the next request may have come with the last.
NextRequest(c) ==
  /\ serve[c] = "next"
  /\ ServeTo(c, "start") \/ ServeTo(c, "head")
  /\ UNCHANGED <<ofServe, registry, idle, memory, tcp, keep, late, history>>

\* hex_http_close; the time it lingers is bounded.
Closes(c) ==
  /\ serve[c] = "close"
  /\ \/ TcpClose(c) /\ ServeTo(c, "closing")
     \/ TcpCloseReturns(c) /\ ServeTo(c, "unlink")
  /\ UNCHANGED <<ofServe, registry, idle, memory, keep, late, history>>

Closed(c) ==
  /\ serve[c] = "closing"
  /\ tcp[c] = "closed"
  /\ ServeTo(c, "unlink")
  /\ UNCHANGED <<ofServe, registry, idle, memory, tcp, keep, late, history>>

Unlinks(c) ==
  /\ serve[c] = "unlink"
  /\ connections' = connections \ {c}
  /\ ServeTo(c, "free")
  /\ UNCHANGED <<ofServe, active, stopClosed, idle, memory, tcp, keep, late, history>>

Frees(c) ==
  /\ serve[c] = "free"
  /\ memory' = memory \ {c}
  /\ stopClosed' = stopClosed \ {c}
  /\ ServeTo(c, "return")
  /\ UNCHANGED <<ofServe, active, connections, idle, tcp, keep, late, history>>

Returns(c) ==
  /\ serve[c] = "return"
  /\ active' = active - 1
  /\ ServeTo(c, "none")
  /\ UNCHANGED <<ofServe, connections, stopClosed, idle, memory, tcp, keep, late, history>>

-----------------------------------------------------------------------------
\* hex_http_server_stop_raw, by any Task, a handler's among them.

Stop(t) ==
  /\ call[t] = "none" /\ "stop" \in program.makes[t]
  /\ ~freed
  /\ SetStopping
  /\ CallTo(t, "stop")
  /\ UNCHANGED <<ofCall, listenerClosed, freed, listener, late, missed>>

\* hex_http_close_listener, for stop and for free.
CloseListener(t) ==
  /\ call[t] \in {"stop", "close-to-free"}
  /\ listenerClosed' = TRUE
  /\ IF listenerClosed
       THEN /\ CallTo(t, IF call[t] = "stop" THEN "none" ELSE "dispose")
            /\ UNCHANGED listener
       ELSE /\ CallTo(t, IF call[t] = "stop" THEN "closing" ELSE "closing-to-free")
            /\ listener' = "closing"
  /\ UNCHANGED <<ofCall, stopping, freed, late, history>>

ClosedListener(t) ==
  /\ call[t] \in {"closing", "closing-to-free"}
  /\ listener = "closed"
  /\ CallTo(t, IF call[t] = "closing" THEN "none" ELSE "dispose")
  /\ UNCHANGED <<ofCall, stopping, listenerClosed, freed, listener, late, history>>

\* hex_http_server_wait_raw; before run it returns at once.
Wait(t) ==
  /\ call[t] = "none" /\ "wait" \in program.makes[t]
  /\ ~freed
  /\ phase # "created"
  /\ CallTo(t, "receive")
  /\ UNCHANGED <<ofCall, stopping, listenerClosed, freed, listener, late, history>>

WaitReceives(t) ==
  /\ call[t] = "receive"
  /\ done
  /\ CallTo(t, "result")
  /\ UNCHANGED <<ofCall, stopping, listenerClosed, freed, listener, late, history>>

WaitReturns(t) ==
  /\ call[t] = "result"
  /\ CallTo(t, "none")
  /\ UNCHANGED <<ofCall, stopping, listenerClosed, freed, listener, late, history>>

\* hex_http_server_free_raw, which traps while the server runs.  A program frees
\* its server once, and calls nothing of it afterwards.
Free(t) ==
  /\ call[t] = "none" /\ "free" \in program.makes[t]
  /\ ~freed /\ ~BesideFree
  /\ phase # "running"
  /\ CallTo(t, "close-to-free")
  /\ UNCHANGED <<ofCall, stopping, listenerClosed, freed, listener, late, history>>

\* The channel done is closed before it goes.
FreeDisposes(t) ==
  /\ call[t] = "dispose"
  /\ freed' = TRUE /\ done' = TRUE
  /\ CallTo(t, "none")
  /\ UNCHANGED <<program, phase, stopping, listenerClosed, ofConnections, run, listener,
                 late, history>>

-----------------------------------------------------------------------------
\* The event loop and the clock.

ListenerCloses ==
  /\ listener = "closing"
  /\ listener' = "closed"
  /\ UNCHANGED <<lifecycle, registry, idle, memory, tcp, run, serve, keep, call, late, history>>

TcpCloses(c) ==
  /\ tcp[c] = "closing"
  /\ tcp' = [tcp EXCEPT ![c] = "closed"]
  /\ UNCHANGED <<lifecycle, registry, idle, memory, listener, run, serve, keep, call, late,
                 history>>

DeadlinePasses ==
  /\ run.at = "deadline?"
  /\ late' = TRUE
  /\ UNCHANGED <<lifecycle, registry, idle, memory, native, run, serve, keep, call, history>>

-----------------------------------------------------------------------------
RunGoesOn ==
  \/ RunChecksStop \/ RunChecksRoom \/ RunAllocates \/ RunRegisters \/ RunSpawns
  \/ RunUnlinks \/ RunRejects \/ RunRejected
  \/ RunStops \/ RunClosesListener \/ RunClosedListener \/ RunLooks \/ RunCloses \/ RunClosed
  \/ RunCounts \/ RunForces \/ RunFinishes \/ RunAnnounces
  \/ (listener # "open" /\ RunAcceptEnds)

ServeGoesOn(c) ==
  \/ GoesIdle(c) \/ ChecksStop(c) \/ ClearsIdle(c) \/ HeadEnds(c)
  \/ NextRequest(c) \/ Closes(c) \/ Closed(c) \/ Unlinks(c)
  \/ Frees(c) \/ Returns(c)
  \/ (tcp[c] # "open" /\ (ReadReturns(c) \/ HandlerGoesOn(c)))

CallGoesOn(t) ==
  CloseListener(t) \/ ClosedListener(t) \/ WaitReceives(t) \/ WaitReturns(t) \/ FreeDisposes(t)

Next ==
  \/ Run \/ RunGoesOn \/ RunAcceptEnds
  \/ \E c \in Connections :
       \/ RunAccepts(c) \/ ServeGoesOn(c) \/ ReadReturns(c) \/ TcpCloses(c)
       \/ HandlerBlocks(c) \/ HandlerGoesOn(c) \/ HandlerReturns(c)
  \/ \E t \in Callers : Stop(t) \/ Wait(t) \/ Free(t) \/ CallGoesOn(t)
  \/ ListenerCloses \/ DeadlinePasses

Spec == Init /\ [][Next]_vars

\* Tasks run and sockets close.  A handler returns unless it is blocked for
\* ever; peers owe nothing.
Fairness ==
  /\ WF_vars(RunGoesOn) /\ WF_vars(ListenerCloses)
  /\ \A c \in Connections :
       WF_vars(ServeGoesOn(c)) /\ SF_vars(HandlerReturns(c)) /\ WF_vars(TcpCloses(c))
  /\ \A t \in Callers : WF_vars(CallGoesOn(t))

FairSpec == Spec /\ Fairness

-----------------------------------------------------------------------------
\* When the server is done, no connection has a Task, storage or an open socket
\* left, and a wait that returns tells of a server that is done.  free is kept off
\* a running server by its look at the phase alone: a server it frees has at most
\* a run on its way to close the channel done, stops and waits on their way out,
\* and a listener that such a stop is closing; but for a run that began after the
\* look.  [the comments on hex_http_shutdown, "no native operation or buffer
\* outlives run", and hex_http_connection_entry; hex_http_server_free_raw]
NothingOutlives ==
  /\ phase = "done" =>
       /\ connections = {} /\ memory = {}
       /\ \A c \in Connections : serve[c] = "none" /\ tcp[c] = "closed"
  /\ \A t \in Callers : call[t] = "result" => phase = "done" \/ missed
  /\ freed /\ ~missed =>
       /\ run.at \in {"none", "announce", "returned"}
       /\ memory = {} /\ \A c \in Connections : serve[c] = "none" /\ tcp[c] = "closed"
       /\ listener = "closed" \/ \E t \in Callers : call[t] = "closing"

\* The storage of connections stays within the ceiling, however their ends and
\* failed starts interleave with accepts.  [hex_http_server_run_raw]
CeilingHolds == Cardinality(memory) <= program.ceiling

\* The shutdown chooses a connection whose request was in progress at the stop
\* only after the deadline, or where that request's first bytes have been read and
\* the flag that tells so is yet to be cleared.
\* [hex_http_shutdown, docs/reference.md "Shutdown"; hex_http_read_head]
RequestsFinish ==
  [][\A c \in stopClosed' \ stopClosed : c \in begun => late \/ serve[c] = "got"]_vars

\* After a stop the server ends: once the deadline has passed, whatever peers
\* do; and without any deadline when no request is blocked for ever, since idle
\* connections do not hold it.  [hex_http_shutdown, hex_http_read_head]
StopEnds ==
  LET Stopping == stopping /\ phase = "running" IN
  /\ (Stopping ~> late \/ phase = "done") => (Stopping ~> phase = "done")
  /\ (\A c \in Connections : []<>(serve[c] # "blocked")) => (Stopping ~> phase = "done")
=============================================================================
