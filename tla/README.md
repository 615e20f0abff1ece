# Hexal: a TLA+ model of its runtime and of three passes of its compiler

Hexal is a compiler, written in Go, that turns Hexal programs into C23 together
with a C runtime. The runtime is a set of C templates
(`src/compiler/generator/packages/`, `src/compiler/corelib/runtime/`); it holds
all of the system's concurrency: an M:N scheduler of cooperative Tasks, the
Channels and Mutexes they share, an event loop on a thread of its own, and
capabilities (Files, sockets, processes, signals) that programs copy freely and
close from anywhere. The compiler is sequential, but three of its passes decide
something about every path of a program: the stale-view analysis, the starvation
check and the generator's lowering of statements. This directory models the
runtime's core and these passes in TLA+, checks them with TLC on small instances
and proves with TLAPS, for all instances, what the runs check of the runtime's safety
and how the stale-view analysis merges its states.

## The system and its parts

| Part | State it keeps | Operations | Hard behaviour |
|---|---|---|---|
| Task scheduler (`concurrency.c`) | Task control blocks (park phase, life, claim, joiner), the ready FIFO, the shutdown flag | spawn, yield, join, detach, complete, wake, dispatch | wakers, dispatchers, joiners and detachers race by compare-exchange; one signal per publication although only worker zero may take root; shutdown without draining |
| Channel (`concurrency.c`) | ring, closed flag, two stacks of parked Tasks | new, send, receive, close, free | woken Tasks retry against barging ones; close while Tasks retry; free beside them |
| Task Mutex (`concurrency.c`) | owner, stack of parked Tasks | lock, unlock, free | ownership is handed over before the wake |
| Event loop (`event.c`) | command FIFO, armed requests on Task stacks, timers | submit, work, sleep, standard-output lock | completion before the submitter has switched out; early timers |
| Handle registry (`handle.c`) | slots with generation, state, lease count; free list | reserve, publish, abandon, resolve, release, close_begin, close_finish | stale copies, reuse of slots, close beside operations, generations that run out |
| File (`file.c`) | one descriptor per control block | open, read, write, seek, flush, close | descriptors are reused by the system; failures after the native open |
| TCP (`network.c`) | open state, busy flags, pending and declined clients, timers, requests on Task stacks | connect, listen, accept, read, write, shutdown, close | plain flags between workers, a deadline that closes beside a read, up to three handles to close, allocation failure in accept |
| Process, Pipe (`process.c`), Signals (`signal.c`) | exit fact, waiters, pending bits; a pipe's current record | start, wait, terminate, read, write, shutdown, next, close | leases released before the Task parks; exit or signal against close; who closes the native handle |
| Streams, printing, terminal (`io.c`, `print.c`, `terminal.c`) | cursors, one lock | read, write, print | arithmetic of the in-memory stream |
| HTTP server (`server.c`) | phase, stop flags, registry of connections, the idle and stop flags of each | run, stop, close, wait, free; accept loop, one Task per connection | idle/stopping handshake, ceiling of connections, handlers that outlast the socket, end of the run |
| HTTP parsing, file serving, JSON, regex, program, entropy, time | none between calls | sequential functions | boundary values |
| Heap, Stash, Pool, List, Dict, String | memory blocks | sequential functions | growth and overflow |
| Stale-view analysis (`checker/views_*.go`) | for each point of a path: the views and handles at each place, their roots and staleness; summaries of callables | walk of statements and calls, invalidate, join, summarize to a fixed point | aliases, joins of paths, rounds of a loop, in-flight operands, deferred calls |
| Starvation check (`checker/starvation.go`) | one flag per loop | scan of a body | paths that differ in what they do |
| Lowering of statements (`generator/sequencing.go`, `defer.go`, `errors.go`, `render_statements.go`) | deferred actions of each scope, loop depths, temporaries | prologues, temporaries, cleanup at each exit | C leaves operand order open; every exit writes the cleanup again |
| Rest of the compiler: lexer, parser, checker, types, templates | a program in memory | sequential passes | size |
| Driver, backend, graph, command line | files on disk | emission, process start | mostly I/O |

Interaction: a fiber calls the runtime directly. It parks by arming its own
control block, registering with a wait source under that source's lock, and
switching to its dispatcher; whoever ends the wait (another fiber, a dispatcher
that commits a completion, the loop thread) calls `hex_task_wake`. An operation
on a capability resolves a handle to a lease on the control block, may hand a
request on its stack to the loop, parks, and releases the lease afterwards.

## Modules

| Module | Models | State and actions against the code |
|---|---|---|
| `Scheduler` | the scheduler | `fiber`, `phase`, `pending`, `life`, `claim`, `joiner` are fields of `hex_task`; `queue` the ready FIFO; `at` and `hand` say where each worker thread is and which Task it has; `waking`/`target` are an actor's place inside `hex_task_wake` and `hex_ready_publish`. Every compare-exchange, every critical section and every context switch is one action. A fiber's program is arbitrary. |
| `SchedulerProofs` | | theorems about `Scheduler` and the invariants they rest on |
| `TaskMutex` | the Mutex of `concurrency.c` | one action per critical section of the raw mutex; `owner` and `waitList` are its fields, `wakeResult` the flag `wake_result` of a Task's control block |
| `TaskMutexProofs` | | theorems about `TaskMutex` |
| `EventLoop` | `event.c` | the Task's side up to its park (enqueue and `uv_async_send` are two steps), and the loop thread's callbacks, one action each; `stage` says who has the request on a Task's stack. libuv keeps what `event.c` relies on: coalesced wakes, a cached clock in milliseconds, a close callback |
| `EventLoopProofs` | | theorems about `EventLoop` |
| `Starvation` | `checker/starvation.go` for one loop, which falls short of the rule (below) | statement trees; `MayRepeat`, `Branch`, `FallsThrough`, `ContainsDirectBreak` are the functions of the file; `Paths` is the reference semantics by execution paths |
| `HandleRegistry` | `handle.c` | one action per critical section of a slot's or the registry's mutex; `at` is an operation's place between two of them; a control block is named by the handle it was published under |
| `RegistryProofs` | | theorems about `HandleRegistry`, its refinement of `Capability` among them |
| `Capability` | the contract in `handle.h` | the abstract specification that `HandleRegistry` implements (`ImplementsCapability`) |
| `FileCapability` | `file.c` over the registry | uses `Capability` for the registry (each registry call is the corresponding abstract action) and adds control blocks, requests and the system's descriptor table |
| `Tcp` | `network.c` from `hex_tcp_control` on, for one connection or listener | the Task's side of each call (`call[t].at` is its place in it), one action per command that the loop starts and one per callback; a busy flag is tested in one step (`Admit`) and set in another (`Send`), and `met` notes a call that was let in beside another; `control` holds the fields that only the loop thread touches, `clients` a listener's accept state, `uv` what libuv has of the socket |
| `TcpProofs` | | theorems about `Tcp` |
| `ProcessSignal` | `process.c` from `hex_process_native_closed` on, without the spawning, and `signal.c` from `hex_signals_watcher_closed` on, for one process, subscription or pipe | one action per critical section of the block's lock, per wake, command and callback; `call[t].by` notes who took a waiter off the list and `met` what came between, `uv.data` is `pipe.data` |
| `ProcessSignalProofs` | | theorems about `ProcessSignal` |
| `Server` | `server.c` for one server | `phase`, `stopping` and the registry of connections are fields of `hex_server`; the accept loop, each connection's Task, `stop`, `wait` and `free` take one action per critical section or socket call; `missed` notes a run that began after a free had looked at the phase. Parsing and what a handler computes are choices |
| `Channel` | the Channel of `concurrency.c` | one action per critical section of the channel mutex; a wake leads to one resumption |
| `ChannelProofs` | | theorems about `Channel`, its refinement of `BoundedFifo` among them |
| `BoundedFifo` | the Channel section of `docs/reference.md` | the abstract specification that `Channel` implements (`ImplementsFifo`) |
| `ViewState` | `checker/views_state.go` | the state of the analysis: places, roots, facts, `InvalidateFacts`, `JoinStates`. A path is a sequence of tokens cut so that one starts with another exactly when the code's strings do: `MemberPath` of `hh` goes on where that of `h` ends |
| `Views` | the rest of `checker/views_*.go` | the walk over expressions (`Eval`), calls with their summaries, statements, loops to a fixed point, deferred calls, and the rules that reject a program |
| `ViewsRun` | | a machine: one statement is chosen, walked by `Views` from the analysis state `st`, and executed on the memory `memory`, in which a view is live until its store is structurally changed; `gap` notes that the program took one of four ways in which the analysis loses a view |
| `ServerFileViewProofs` | | theorems about `Server`, `FileCapability` and `ViewState`, which share nothing |
| `Execution` | `docs/reference.md`, "Values and evaluation" and "defer"; C | what a body of statements does: the source language in order, C with its operands in any order |
| `Lowering` | the generator's path from a body of statements to C | `Prologues` (spawn, then find, then try), `HoistEvaluationOrder` (temporaries), `Write` (the statement), `Statements` (a scope with its cleanup); `g` holds `deferStack`, `registeredDefers`, `captures` and `loopDepths`. A state is a body, what it means and what its C does; a step adds a statement |
| `MC...` | | constants for TLC |

Composition: `Scheduler` abstracts every wait source to the set `waiting`, from
which an actor takes a Task and wakes it. `Channel`, `TaskMutex` and `EventLoop` are
such wait sources: they use of the scheduler only that a woken Task resumes once,
which is proved (`RightPlace`, `NothingIsLost`) and checked
(`RunnableRuns`) for `Scheduler`, whose loop thread is one more waker. `FileCapability`
uses of the registry only `Capability`, which `HandleRegistry` implements. `Tcp` and
`ProcessSignal` use `Capability` in the same way, the event bridge as a queue of
commands that the loop starts in order, and a wake as what `EndsRight` and
`RequestOrWake` promise of one. `Server` uses of a connection's socket what `Tcp` shows
(a close ends every call on it), and of Mutex and Channel what their modules show.

`Views` and `Lowering` have no concurrency: their machines build programs, so
that TLC checks a pass on every program of a vocabulary. In `ViewsRun` the pass
and the execution go along the same path statement by statement, in `Lowering`
each body is lowered as a whole and both executions are compared as sets.

Definitions whose comment begins "Mutant of" are variants that a plausible bug
would produce; they are not part of any specification. Each property of a passing run was
seen to fail under one of them.

## Runs

| Run | Instance | What it shows |
|---|---|---|
| `Scheduler` | 2 workers and the loop, root and 2 Tasks, aliases of Task handles allowed | `RightPlace`: no Task is published or run twice, root only on worker zero; `NothingIsLost`: no wake and no Task is forgotten; `ReleaseIsSafe`: one release, after the end; `NoIdleWorker`: signal or broadcast is always enough; `NoTrap`: the park-phase assertions hold; runnable Tasks run, joins return, root's end stops every worker |
| `HandleRegistry` | 3 operations, 2 slots, 2 kinds, 2 generations | `NothingAstray`: leases pin their control block, a slot has one owner and is never lost; a stale handle stays stale, a close that no lease holds up ends, and the registry refines `Capability` |
| `FileCapability` | 3 operations, 3 Files, 2 descriptors | a close closes its own descriptor, no failure leaks one |
| `Tcp` | 3 Tasks on one connection or one listener (two writers; two readers or acceptors and a third acceptor; a reader beside a writer; each with a closer), writes of no chunk and of two, deadlines or none, libuv holding up to 2 clients | `NothingDangles`: queue, control block and libuv name only records of waiting Tasks and all of them but a read or an accept that met another, and the block outlives the handles in it; `ToldRight`: timed out only after the deadline, closed only when closing, a close returns after the last handle; `NoStrandedClient`: no client waits beside an accept unless memory was short; `CallsEnd`: close ends every call, a deadline its own |
| `ProcessSignal` | 3 Tasks that all make each call (one also terminates and shuts down) on a process, a subscription to two signals or a pipe of either direction | `WaitsEndRight`: nobody waits beside what it waits for, and whichever of exit or signal and close came first decides what it is told, unless a next is overtaken; `NothingDangles`: exit and close agree on one native close, after which the block is freed and only a woken wait or next looks at it; `CallsEnd`: a close ends every call but a lost one, an exited child is given up |
| `Server` | a server with a ceiling of 2, which a second Task stops; and one with a ceiling of 1, which one Task stops and waits for while another frees it, in any order that the phase allows; connections' names are reused | `NothingOutlives`: no connection outlives the run, and a server that is freed has at most calls on their way out left; `CeilingHolds`; `RequestsFinish`: a stop lets requests under way finish, but for one whose flag is yet to be cleared; `StopEnds`: a stop, however it meets connections going idle, ends the run, or its deadline does |
| `Channel` | 3 Tasks, 2 values, capacity 2 | nobody is left parked beside what it waits for; close ends every call; the ring is a bounded FIFO |
| `TaskMutex` | 4 Tasks on one Mutex | mutual exclusion across the hand-over to a woken waiter; nobody is left parked; the traps hit only calls that deserve them; free lets no used Mutex go |
| `EventLoop` | 2 Tasks that call work or sleep for 2 ns, 2 ns to the millisecond, clock up to 5 | `RequestOrWake`: one wake per request, after the loop has let go of it; `EndsRight`: a sleep is not cut short by the loop's stale, coarser clock, and refused and cancelled jobs leave a result too; `CallsEnd`: coalesced wakes leave no command behind |
| `Starvation` | all loop bodies of two statements, with branches of up to two statements and nested loops (62251) | expects a violation of `YieldsOnEveryPath`: a loop is accepted although it repeats without a yield, along a path that skips a branch which yields or leaves |
| `Views` | seventeen bodies' vocabularies over two Lists, two views, objects (one with members `h` and `hh`), an inline List of views and a function value; programs of any length with up to 2 deferred calls; loops run up to two rounds | `NoDanglingRead`: an accepted program never reads a view of changed storage; `DanglingKnown`: every dangling view held by a binding is known as stale; `NoFalseStale`: on a single path nothing live is called stale; each but for the four ways of `Gaps` |
| `Lowering` | five vocabularies of about ten statements, bodies of three statements, two rounds of a loop, every answer of a test or fallible function, every order of operands in C | `FollowsSource`: the C makes the calls of the source in its order with its values, runs each due cleanup once and in reverse at each exit, and ends the same way |

Bounds. Two workers and the loop give a waker, a dispatcher and a third party that
pops or wakes beside them; the loop is a waker that never dispatches. Two Tasks
beside root give a target and its joiner or alias holder. (Three workers and
three Tasks were run too, with the same result; the proofs cover any number.) Two generations with two slots let a slot be reused once and
then retire, so both branches of `hex_handle_recycle` are taken; three operations
are two leases and a close. With three Files and two descriptors a descriptor is
reused while an old request still names it. Three Tasks on a Channel are the
least for a barging one between a waker and the Task it woke; capacity two makes
the ring wrap at a point that differs from empty. Four Tasks on a Mutex are an
owner, two waiters whose order can differ, and a newcomer. In `EventLoop` the last
reading of the clock stands for every later one (a timer may expire then), and a
sleep begins only when its end is within the bound; a sleep of one millisecond
that begins between two whole milliseconds is what makes a timer expire early.
Two Tasks suffice for one to enqueue while the callback drains the other's
command. In `Tcp` a program (`Programs`) says which calls each Task makes besides the opening
one, so that two calls of each kind race for their busy flag, beside a close and
deadlines; one client held by libuv is a platform that stops watching the
socket while a client is left there, two one that queues them. In
`ProcessSignal` one waiter is woken while a second registers and a third closes;
with two signals one may be pending beside the other. In `Server` a program is the ceiling
and which of stop, wait and free a caller makes; a ceiling of one makes the accept loop wait for
a connection's end. A stop reads the idle flags of all connections in one step:
they are independent, and the registry is locked meanwhile. A handler waits only
for its own connection. Deadlock checking is off where
the system may stop: a program whose Tasks all wait, an exited process, a closed
and freed object, a program that is rejected or complete.

In `ViewsRun` the state of the analysis is finite although programs are not
bounded: a statement's sites are renamed to ones that no fact uses, so bodies of
any length are covered. Two Lists and two views are what an alias, a change
through it and a re-derived view need; a loop's second round meets the state of
its first. In `Lowering`, three statements are a registration, a statement that
may leave in between, and one after it; nesting up to a branch inside a loop inside a
loop is inside the statements of the vocabularies. `MaxRounds` is 2: what a round
leaves behind shows in the next. In `ViewsRun` a body has at most `MaxDeferred` = 2 deferred
calls, so that there is an inner and an outer one at the end. `Closing` says which kinds of statement
end a body: code after a return is dead, and loops with all their rounds are
expensive. (Bodies of four statements were run too, with the same result.) C's
orders are permutations of an expression's operands; that C may also interleave
the parts of two operands is not modelled, and adds nothing where every operand
but one is a temporary.

Fairness. Threads run, so whatever lies between two critical sections goes on
(weak fairness of a waker's, a dispatcher's and a claim's steps). A Task gives
its worker back again and again (strong fairness of `SwitchAway`, because other
calls may come in between); `docs/reference.md` asks this of programs; the
compiler's check of literal `while true` loops does not make sure of it (`Starvation`), so
that it is an assumption on programs. Nothing assumes that a waiting Task is ever woken: that is the program's
business, and liveness is stated for runnable Tasks only. A trap ends the
program, so that each promise of progress reads "or the program was aborted". In `HandleRegistry` only
what lies between two critical sections of the registry goes on: an operation may keep its
lease for ever, before and after the close, and a native close need not return (a pipe's
close ends no read). `CloseEnds` asks for the control block to be freed once no lease and no
native close is left.
In `Channel` calls go on and woken Tasks resume, which is what the scheduler's
liveness gives. In `EventLoop` calls go on, time passes and the loop iterates: its
iteration has a place for each kind of callback, so a callback that stays due, with
others in between, gets its turn (strong fairness). A loop that refused jobs for
ever could be kept inside one callback; it is assumed to refuse finitely many. In
`Tcp` Tasks and commands go on, time passes and timers expire, and libuv ends the
requests of a socket that is closing and then its handles. A peer owes nothing: a
read, a write or an accept without a deadline may wait for ever. In `ProcessSignal`
Tasks run and the loop settles what is due, however many signals come; no child has to
exit. In `Server` Tasks run and sockets close, and a call on a socket that is no
longer open returns; a handler returns unless its peer keeps it waiting; whether a
deadline was given is part of the property.

## Proofs

All safety properties that the runs check of the runtime are theorems: they hold for
every value of the constants that the module's assumption admits. Each follows from an
inductive invariant, called `IInv` (for Files `FileInv`), that says of every place a Task or a
record can be in what else is true then. `InitHolds` (or `InitRight`) and
`StepKeeps` show that it holds and is kept, with one lemma per action and one step per
part of the invariant that the action can disturb. Each invariant was checked by TLC on
the run's instance before it was proved. The refinements are of the safety part of
the promise; that the steps come is liveness.

`SchedulerProofs`, for any finite set of workers, any Tasks and with or without
aliases. The assumption is `SchedulerAssumption`: the workers are finitely many
(used by `NobodyIdles` alone, which counts them), worker zero is a worker, the loop is
none, root is a Task, the null pointer is not. A publication is safe only if its
target is still switched out; that holds because a waker that got as far as "second"
saw a parked Task, that nobody else may wake: it was registered with one source only.
`IInv` says so Task by Task:

- `IHand`: what a worker's place says of the Task it holds;
- `IApart`: two holders never hold one Task, two wakers never have one target;
- `IQueue`, `IWake`, `IWaiting`, `IJoiner`: what a queued, targeted, registered
  or joining Task looks like, and that these exclude each other;
- `IOwner`: a Task that claimed its callee owns it until it releases it;
- `IFate`: what a Task's fiber and life say of the rest.

`NothingIsLost` is inductive over it with one fact more (`ILost`): a Task whose phase is
"parking" is in its worker's hand, so that a wake that finds it parking only records
itself, and the dispatcher that still has the Task sees that when it commits the park.
`NoIdleWorker` is a matter of counting. `Awake` says that no root is queued while worker
zero sleeps, and that while anyone sleeps there are no more queued Tasks for
everybody than workers on their way to the queue, where worker zero does not count if root
is queued for it. One signal per publication keeps the count, since a woken worker is
one more on its way; for root everybody is woken, since a signal could wake a
worker that may not take it.

`TaskMutexProofs`, for any finite set of Tasks. The four properties rest on `IOwner`:
unlock makes the woken Task the owner and sets its
result before it wakes it, so between unlock and that Task's return the Mutex
already has an owner, whom no newcomer can pass. `IPlaces` says that a woken Task
owns the Mutex and a parked one does not, `IFreed` that a freed Mutex has neither
owner nor waiter.

`ChannelProofs`, for any finite set of Tasks, any values and every capacity. `NoStrandedWaiter` counts too:
while a receiver is parked, the woken receivers that have not tried yet suffice for the
values in the ring (`ICounts`, likewise for senders and free slots), since each send
takes one receiver off the stack; a call that barges in is one more to take a value
and at most one value less. `IStacks` says that the stacks hold exactly the parked Tasks,
once each. The refinement of `BoundedFifo` maps the ring to the sequence it holds: a put at
the tail appends to it and a take at the head drops its first, wherever the ring
wraps (the lemmas on `Buffer`).

`EventLoopProofs`, for any finite set of Tasks, any durations and clocks: `RequestOrWake` and `EndsRight`. The
queue names exactly the Tasks whose request is queued, each once (`Queued`, `QueuedOnce`),
and `ServedRight` says of each later stage what has been done for the request by then:
no timer is closed and no job complete before there is something to return.

`RegistryProofs`, for any finite set of operations, any slots, chunks and kinds and any
last generation. `NothingAstray`
needs that the lease count of a slot is the cardinality of the set of its holders
(`ICount`), that nobody else is about to free or reserve the slot (`IAlone`, `IList`,
`IFreed`), and that every handle ever given out is either of the slot's current use
or over (`INames`). `StaysClosed` and the refinement of `Capability` follow step by step: a
publish opens a handle nobody had, a resolve and a release are the promise's use
and leave, the free of a control block comes when no user is left, and every other step
is none.

`ServerFileViewProofs` has three parts. Files, for any sets of operations, Files and
descriptors: `ClosesOwnDescriptor` and `NoLeakedDescriptor`. The system hands a
descriptor out again as soon as it is closed, so one has to know that whoever is about
to close a number is the only one who names it. `FileOpen` says that an open File has
its descriptor, `FileAlone` that no two operations own the descriptor of one File (one just
opened, or one about to be closed), `FilePlaces` what an operation's place says of its
File.

The server, for any finite set of connections, any ceilings and any set of Tasks that stop,
wait for and free it: `CeilingHolds`, `RequestsFinish` and `NothingOutlives`. The shutdown ends
when it reads `active = 0`, so the proof has to know that this number is right:
`ICount` says that it is the cardinality of the connections that have a Task or are
registered to get one, whatever ends a start or a Task. What has no Task has neither
storage (`IMemory`) nor an open socket (`ISocket`). `INew` keeps the connection in the hands
of the run apart from those that have a Task, and `IRoom` the room for it. `IFlags` says where a
connection is idle or has begun a request, `IStop` what the shutdown has done by its place,
`IPhase` and `IListener` what a caller may conclude from the phase and the listener, and
`IFree` what a free may rely on after its look at the phase: unless a run began since then
(`missed`), the run is over but for the end it has yet to announce.
`NobodyWaitsUnseen` is the handshake between the two flags, the safe half of
`StopEnds`: each side sets its own before it reads the other's, so that once the shutdown
has looked and found nothing to close, no connection waits for a request on an open
socket (`ISeen`).

The states of the stale-view analysis, for any places, storage and callables. These are
facts about the operators of `ViewState`, which `Views` applies at every branch and
every change; "at, above or below" is by the string prefixes of the code. `StaleOnSomePath`:
a place is stale where paths meet if and only if it is
on one of them. `ChangeIsExact`: a change marks those places that have a view into what
changed at, above or below them, and no others. `MergeHidesNoChange` puts them together with
the rule of `JoinStates` for a handle that some paths do not name: if the views that a program
holds are known on the path it took, then after a merge with any other paths a change
of a handle's storage makes every view known as stale that dangles then. It assumes that on
each path `resolveRoots` answers for the handle without going on to the original of a copied
aggregate (`Told`); for one that some path does reach so, the statement is false
(`HalfCopied`, below).

`TcpProofs`, for any finite set of Tasks and any programs; two calls of a kind may both find their
busy flag clear. A call's record, which
lies on its Task's stack, is in one place at most: the queue, the control block or libuv
(`IPlaces`), and a Task waits as long as it is in one (`IWaiting`), but for those that
`Lost` describes. `IBusy` says what the flags are worth: a call that met no other of its kind has
its flag to itself, and then no start overwrites its record. `IUse` and
`IMemory` say who may touch the control block by the status of its capability, `ILoop` what
the state of the socket says of timers, of handles that are still to close and of their
count, and `ITold` what the record of each call says of its deadline. `NothingDangles`,
`ToldRight` and `NoStrandedClient` follow.

`ProcessSignalProofs`, for any Tasks, signals and calls. For `WaitsEndRight`: what a woken
Task is told depends on what it finds in the block after the wake, so the invariant says
what stays until it has looked: `IFact` that, unless it was overtaken, the exit or signal that
ended the wait is
still there and, for a subscription, that nobody else was taken off the list
meanwhile; `INative` when the block may be gone: after the native close, and that
after the critical section of the close. `IKind` gives each kind of block its facts and
a subscription its one waiter, `ICommands` says that the loop answers a command once
and never a `wait` or `next`, `IPlaces` what a call's place says of it. For
`NothingDangles` a second invariant, `JInv`, is inductive over the first. There is one
close (`JOnce`), and whether it or the exit will close the native handle has been settled
between them by what each saw in the lock (`JCloser`, `JExit`): whoever has yet to do it
has not had it done. A record is in the queue or with libuv while its Task waits
(`JQueue`, `JNative`, `JHeld`), a request keeps its lease and the close the Teardown's until the
handle is closed (`JLease`). What is lost is told from the rest by `met`: a read that met no
other has its busy flag to itself (`JBusy`), a read and a close that overlap have both been
marked (`JMeet`), and so the record in `pipe.data` is that of a waiting Task in every other
case (`JSound`).

Only model-checked:

- all liveness, and with it the fairness in `ImplementsCapability`: fairness and
  ENABLED are out of the prover's reach;
- `Starvation`, `Views` and `Lowering`, whose functions recurse over trees: what they
  compute for every tree takes an induction that the provers cannot do. Of `Views`, the
  join and the change of its states are proved about (above), the walk is not.

## Where the code falls short

The models follow the code where it breaks a promise of the documentation or of its own
comments. No guard keeps these cases away: the properties name them as exceptions, so that
a run shows that they are the only ones, and each exception was seen to be reached and
needed (TLC finds a violation of the property without it). `PROJECT.json` lists them as findings.

*Starvation check.* One flag stands for all paths. A branch that yields
or leaves clears it for the path that skips the branch, so
`while true do if c then break end end` and
`while true do if c then Task.yield() end end` compile, against the head comment of
`starvation.go` and the rule in `docs/reference.md`. The run `Starvation` expects the violation of
`YieldsOnEveryPath`.

*TCP.*

- The busy flags are tested and set by Tasks of different workers without a lock
  (`network.c:805`, 696, 936), where `docs/reference.md:2344` promises Busy to the second of
  two concurrent calls. Both pass (`met`), and for reads and accepts the later start takes the
  place of the earlier in the control block, which is then never woken (`Lost`). Two writes keep a
  record each, but a timer of one may end the other.
- When `hex_tcp_accept_take` cannot get memory for a socket, the attempt counts as
  "libuv holds nothing": `accept_declined` is cleared, or the accept stays parked beside
  a client that libuv holds (`clients.givenUp`).
  The comments at `network.c:571` and `:606` expect the next accept to try again.

*Processes, pipes and signals.*

- A wait or next that was woken looks at a control block that it no longer leases
  (`process.c:295`, `signal.c:236`): a close that follows the wake may have had it freed
  (`result = "undefined"`).
- Between a watcher's wake and that look, another next may take the pending signal:
  the woken Task is told the end of an open subscription (`signal.c:245`). Between a
  close's wake and the look, a signal may still fire: the Task is told the signal,
  although "A `next()` already parked when close wins receives EoS"
  (`docs/reference.md:2506`). `Overtakes` and `Fires` mark both (`met`).
- A pipe's close ends no read (`uv_close` stops reading without a callback): a read
  under way waits for ever, and its lease keeps the block, against
  the "close-wakes-waiters" contract of `docs/reference.md:2452`. A read that resolved before
  the close and starts after it leaves its own record in `pipe.data`
  (`process.c:578`), so that `hex_pipe_close_done` wakes the reader, whose record may
  be gone, and the closer waits for ever (`Lost`; what the memory of a record holds by then is
  not followed). The busy flags of a pipe race as those of TCP do.

*Server.*

- `docs/reference.md:434` says "free traps while run is running and is otherwise valid". A
  free may find the phase DONE (`server.c:1693`) before `run` closes the channel that wait
  receives from (`server.c:1696`), a stop still closing the listener, or a wait that has
  yet to read the result; and a `run` that begins after the look at the phase runs a server
  that is being freed (`missed`).
- `docs/reference.md:436` promises that a request in progress finishes. A
  connection whose read has returned its first bytes is idle until the next line
  (`server.c:1171`, place "got"), and the shutdown may close it.

*Stale-view analysis.* Four ways in which it loses a view that the program holds,
against `docs/reference.md:1576`; `ViewsRun` notes them in `gap`:

- `ClearsAnother`: `relativeTo` compares the strings of paths, and nothing ends a member's
  name (`views_state.go:91`, `views_eval.go:162`). An assignment to `n.h` forgets what is known
  of `n.hh`, so that a dangling view in `n.hh` is fresh again.
- `DefersView`: `registerDefer` keeps the arguments apart from the view state, so that
  `invalidate` does not mark them, and `runDeferred` applies the call without a check.
  `defer peek(p)` and then `xs.push(1)` is accepted, and `peek` reads through `p` after the push.
- `HalfCopied`: where a path that binds the member of an aggregate meets one that copies the
  aggregate, `resolveRoots` looks at the former only.
- `OldCopy`: an aggregate copy shares the facts of its source until it is next written, so
  `d = s` then `s.h = List.new(heap)` then `d.h.push(1)` leaves an older view of
  `d.h` fresh.

Further gaps of the analysis, met while reading it, that no vocabulary has:
`clone` and `joinViewStates` drop the operands in flight, so a view
evaluated before an `and`, an `or` or a `match` is not marked by a change inside
it; the view member of a call's result (`f(xs).v`) is not tracked; a change of a
captured root reaches the views of that root only; the binder of a `for` over an
inline List of views has no facts; and a view returned by a function whose
deferred call changes its storage is fresh for the caller.

## Left out of the runs

`Lowering` goes wrong for some bodies, which the vocabularies of the passing
run leave out. Each was seen to violate `FollowsSource`
when put into a vocabulary of its own, like `MCConditions`:

- a `while` condition with several operands, one of which may have an effect: they
  get their temporaries before the loop (`sequencing.go:600`), so that
  `while c(x, bump()) do a() end` calls `bump` once and tests the same temporaries
  in every round, against `docs/reference.md:675`;
- `defer f(a(), b())` and `errdefer f(a(), b())`: the operands are evaluated for
  temporaries of their own (`hoistEvaluationOrderInStatement`) and again when
  `captureOperand` renders them, which does not look the temporaries up;
- a deferred expression that is no call, such as `defer a() + b()`: its operands
  are evaluated at the registration, the reference says at the exit;
- a later `elseif` with several operands, or with a `try`: evaluated before the `if`;
- a `try` or `spawn` written after another operand with an effect: its prologue
  comes first; likewise one in both the index and the source of an assignment,
  whose source comes first;
- a `try` in the condition of a `while` (evaluated once) or to the right of an
  `and` or `or` (evaluated in any case);
- several operands to the right of `and` or `or`, or in an arm of a `match`: they
  share a C expression without temporaries;
- `try f(a(), b())`: a `try` takes its call out of the statement before the temporaries
  are given (`errors.go:188`), and its operands get none (`sequencing.go:358`);
- `return match ...` beside an `errdefer`: the exit counts as one without an Error;
- `xs[i] = f()` where `f` changes `i`: an index without an effect has no temporary;
- the one payload of an object or a variant: what is inside it is not looked at;
- a built-in method with two effectful arguments, such as `dict.insert(a(), b())`;
- a receiver without an effect whose binding an argument changes (a comment on
  `appendReceiverSlotIfObserving` names this one).

When `uv_tcp_init` fails, `hex_tcp_connect_start` and `hex_tcp_listen_start`
leave the status at success; without an address family it only fills in the record,
so that the model has no such failure.

Three limits of the runtime that the models leave open:

- a join or detach through a copy of a Task handle locks the mutex in the control
  block before it traps, and the block may have been given back;
- `hex_chan_free` looks at the stacks of parked Tasks only, and a receiver that
  close has woken is on none of them while it still has the Channel to lock;
- an operation on a File that resolved before a close has copied the descriptor
  into its request, and close does not wait for it.

## Not modelled, and why

Context switching, stack guards and the platform layers under them are taken as
atomic. `is_closed`, `length` and `capacity` only read. File transfers, seek
arithmetic and error classification are data. The lexer, parser, most of the
checker, printing, JSON and regular expressions are sequential
transformations of large data; single algorithms among them are candidates
below. Of the generator, `Lowering` leaves out interpolation, pipelines, print,
closures and the types of temporaries; a value that a temporary holds is
a copy (the pointer that a find leaves in its temporary is not distinguished from
what it points to). Of the stale-view analysis, `Views` leaves out methods of user
types (a receiver is a first argument), pipelines, interpolation, ADT payloads,
spawn and Dict views; the starvation check's reachability of functions from
Tasks is left out too. Of the event loop, the start of its thread and the lock of standard output
are left out. Of TCP, the resolution of a name is part of the one request of a connect,
and addresses and byte counts are data. Of processes and signals, spawning
and installing the watchers, with the undoing of each on a failure, happen before the
model begins. That libuv refuses to submit the close of a descriptor whose File could not be
published (`file.c:102`) is not followed. `hex_mutex_free` reads the Mutex in one step between
critical sections. Of the server, response framing, parsing and file serving are left out, and
the connections' buffers are part of the connection. The driver and backend are file and process I/O.

## Plan

1. Scheduler, Channel, registry and File (done, proved); starvation rule (done for
   one loop).
2. `TaskMutex`: mutual exclusion and hand-over (done, proved).
3. `EventLoop`: command queue with coalesced wakes, work requests and their
   failure path, sleep timers that fire early (done, proved); then the lock of
   standard output.
4. `Tcp`: busy flags between workers, one outcome per operation under close and
   deadlines, declined clients; over `Capability` (done, proved).
5. `ProcessSignal`: the lease released before the Task parks, exit against close,
   pipes (done, proved); then the undoing of a failed spawn.
6. `Server`: run, stop, idle connections, the ceiling, wait and free (done as a
   model, proved); then the framing of a response (headers once, the body's end, keep-alive).
7. The compiler's passes over paths: stale views (done), order of evaluation and
   deferred cleanup (done); then Dict probing, HTTP request parsing, module order.
8. Proofs: every safety property of the scheduler, Mutex, Channel, event loop,
   registry, Files, TCP, processes, signals and the server (done), the registry's
   refinement of `Capability` and the Channel's of `BoundedFifo` (done), joins and
   changes of view states (done).

The order of 5 to 7 follows the hazards in `PROJECT.json`.
