----------------------------- MODULE TcpProofs -----------------------------
(***************************************************************************)
(* Theorems about Tcp for any finite set of Tasks, any deadlines, chunks   *)
(* and clients, with the busy flags read and set in two steps, as the code *)
(* does.  What they say of calls that meet so is said by their history     *)
(* (met).                                                                  *)
(*                                                                         *)
(* A call's record lies on its Task's stack.  IInv says that a record is   *)
(* in one place (IPlaces), that its Task waits exactly as long, unless it  *)
(* met another and lost its place (IWaiting), that a call that met no      *)
(* other is alone of its kind (IBusy), who may touch the control block     *)
(* (IUse, IMemory), what the socket's state says of the native handles     *)
(* (ILoop) and of the calls (ITold), and for whom a timer runs (ITimers).  *)
(***************************************************************************)
EXTENDS Tcp, FiniteSetTheorems, SequenceTheorems, TLAPS

\* The calls that open the control block, or give it back unpublished.
Opening == {"connect", "listen", "discard"}

\* The calls through the registry.
Leased == Exclusive \cup {"shutdown", "no_delay", "close"}

\* In the hands of the loop's queue.
Queued(t) == \E i \in 1..Len(commands) : commands[i] = t

\* In the call proper, with its busy flag if the call has one.
Inside(t, op) == call[t].op = op /\ call[t].at \in {"passed", "waiting", "woken"}

\* No other Task is in a call.
Alone(t) == \A u \in Tasks : u # t => call[u].op = "none"

NobodyCalls == \A t \in Tasks : call[t].op = "none"

\* No command is queued twice.
IOnce == \A i, j \in 1..Len(commands) : commands[i] = commands[j] => i = j

\* A record is in one place: each place takes calls of its own kinds.
Placed(t) ==
  /\ Queued(t) => t \notin uv.requests \cup {control.readOp, control.acceptCommand, control.closer}
  /\ control.readOp = t => call[t].op = "read"
  /\ control.acceptCommand = t => call[t].op = "accept"
  /\ control.closer = t => call[t].op \in {"close", "discard"}
  /\ t \in uv.requests => call[t].op \in {"connect", "write", "shutdown"}
  /\ control.writeOp = t => call[t].op = "write" /\ t \in uv.requests

IPlaces == \A t \in Tasks : Placed(t)

\* A call waits as long as its record is in a place; but a read or an accept
\* that met another may have lost its place to that.
Waits(t) ==
  /\ \/ Queued(t)
     \/ t \in {control.readOp, control.acceptCommand, control.closer} \cup uv.requests
     => call[t].at = "waiting"
  /\ call[t].at = "waiting" =>
       \/ Queued(t)
       \/ t \in {control.readOp, control.acceptCommand, control.closer} \cup uv.requests
       \/ call[t].met /\ call[t].op \in {"read", "accept"}

IWaiting == \A t \in Tasks : Waits(t)

\* The busy flag of a call that met no other is set, and it is the only one of
\* its kind.
IBusy ==
  \A t \in Tasks : \A op \in Exclusive : Inside(t, op) /\ ~call[t].met =>
    /\ call[t].at # "passed" => busy[op]
    /\ \A u \in Tasks : Inside(u, op) => u = t

\* Who may have the control block, by the status of its capability.
Uses(t) ==
  /\ call[t].at = "idle" <=> call[t].op = "none"
  /\ call[t].op \in Opening => status[Block] = "unused" /\ memory = "allocated" /\ Alone(t)
  /\ call[t].op \in Leased => t \in users[Block] /\ status[Block] \in {"open", "closing"}
  /\ call[t].op = "close" =>
       status[Block] = "closing" /\ \A u \in Tasks : call[u].op = "close" => u = t

IUse == \A t \in Tasks : Uses(t)

\* The control block is there as long as somebody calls or may yet.
IMemory ==
  /\ memory = "none" => status[Block] = "unused" /\ NobodyCalls
  /\ memory = "freed" =>
       control.state = "closed" /\ status[Block] \in {"unused", "freed"} /\ NobodyCalls
  /\ status[Block] = "closing" =>
       control.state = "closed" \/ \E t \in Tasks : call[t].op = "close"

\* What the state of the socket says of the loop's part.
ILoop ==
  /\ control.state = "open" => control.closer = None /\ uv.closing = {}
  /\ control.state # "open" =>
       /\ control.readOp = None /\ control.acceptCommand = None
       /\ control.readTimer # "armed" /\ control.writeTimer # "armed"
  /\ control.state = "closing" =>
       uv.closing # {} /\ control.closePending = Cardinality(uv.closing)
  /\ control.state = "closed" =>
       control.closer = None /\ uv.closing = {} /\ control.closePending = 0

\* A timer is armed for the call in its place: for its own deadline, but that a
\* write that met another may find the other's timer armed.
ITimers ==
  /\ control.readOp # None => uv.reading
  /\ control.readTimer = "armed" =>
       control.readOp # None /\ call[control.readOp].deadline # "none"
  /\ control.writeTimer = "armed" =>
       /\ control.writeOp # None
       /\ call[control.writeOp].met \/ call[control.writeOp].deadline # "none"

TimedOut == "timed out"

\* What the record of a call says of its deadline and of the socket.
Told(t) ==
  /\ call[t].outcome = "deadline" \/ call[t].status = TimedOut =>
       \/ call[t].deadline = "past"
       \/ call[t].op = "write" /\ call[t].met /\ call[t].deadline = "none"
  /\ call[t].at \in {"idle", "resolved"} => ~call[t].met
  /\ \/ call[t].outcome = "closed"
     \/ call[t].status \in {"closed", TimedOut}
     \/ call[t].op = "write" /\ call[t].outcome = "deadline"
     \/ call[t].at = "woken" /\ call[t].op = "accept" /\ ~call[t].client
     => control.state # "open"
  /\ call[t].at = "woken" /\ call[t].op \in {"close", "discard"} => control.state = "closed"

ITold == \A t \in Tasks : Told(t)

\* The parts together are inductive.
IInv ==
  /\ TypeOK /\ IOnce /\ IPlaces /\ IWaiting /\ IBusy
  /\ IUse /\ IMemory /\ ILoop /\ ITimers /\ ITold /\ NoStrandedClient

-----------------------------------------------------------------------------
\* The native handles of a control block are counted in closePending.
NativeNames == {"socket", "read timer", "write timer"}

LEMMA Cardinalities ==
  ASSUME NEW S, S \subseteq NativeNames
  PROVE  /\ IsFiniteSet(S) /\ Cardinality(S) \in 0..3
         /\ S # {} => Cardinality(S) >= 1
         /\ \A s \in S : Cardinality(S \ {s}) = Cardinality(S) - 1
         /\ Cardinality(S) <= 1 => \A s \in S : S \ {s} = {}
<1>1. IsFiniteSet(NativeNames) /\ Cardinality(NativeNames) = 3
  <2>1. IsFiniteSet({"socket"}) /\ Cardinality({"socket"}) = 1
    BY FS_Singleton
  <2>2. /\ {"socket"} \cup {"read timer"} = {"socket", "read timer"}
        /\ "read timer" \notin {"socket"}
        /\ {"socket", "read timer"} \cup {"write timer"} = {"socket", "read timer", "write timer"}
        /\ "write timer" \notin {"socket", "read timer"}
    OBVIOUS
  <2>3. /\ IsFiniteSet({"socket"} \cup {"read timer"})
        /\ Cardinality({"socket"} \cup {"read timer"}) = 1 + 1
    BY <2>1, <2>2, FS_AddElement, Zenon
  <2>4. IsFiniteSet({"socket", "read timer"}) /\ Cardinality({"socket", "read timer"}) = 1 + 1
    BY <2>2, <2>3, Zenon
  <2>5. /\ IsFiniteSet({"socket", "read timer"} \cup {"write timer"})
        /\ Cardinality({"socket", "read timer"} \cup {"write timer"}) = (1 + 1) + 1
    BY <2>2, <2>4, FS_AddElement, Zenon
  <2>6. (1 + 1) + 1 = 3
    OBVIOUS
  <2> QED
    BY <2>2, <2>5, <2>6, Zenon DEF NativeNames
<1>2. IsFiniteSet(S) /\ Cardinality(S) <= 3
  BY <1>1, FS_Subset
<1>3. Cardinality(S) \in Nat /\ (Cardinality(S) = 0 <=> S = {})
  BY <1>2, FS_CardinalityType, FS_EmptySet
<1>4. ASSUME NEW s \in S
      PROVE  /\ Cardinality(S \ {s}) = Cardinality(S) - 1
             /\ Cardinality(S \ {s}) = 0 <=> S \ {s} = {}
             /\ Cardinality(S \ {s}) \in Nat
  BY <1>2, FS_RemoveElement, FS_EmptySet, FS_CardinalityType
<1>5. Cardinality(S) \in 0..3 /\ (S # {} => Cardinality(S) >= 1)
  <2>1. \A n \in Nat : (n <= 3 => n \in 0..3) /\ (n # 0 => n >= 1)
    OBVIOUS
  <2> QED
    BY <1>2, <1>3, <2>1, Zenon
<1>6. ASSUME Cardinality(S) <= 1, NEW s \in S
      PROVE  S \ {s} = {}
  <2>1. \A m, n \in Nat : m <= 1 /\ n = m - 1 => n = 0
    OBVIOUS
  <2> QED
    BY <1>3, <1>4, <1>6, <2>1, Zenon
<1> QED
  BY <1>2, <1>4, <1>5, <1>6

\* A queue with one more, and one with its head gone.
LEMMA Append1 ==
  ASSUME NEW s \in Seq(Tasks), NEW e \in Tasks
  PROVE  /\ Append(s, e) \in Seq(Tasks)
         /\ Len(s) \in Nat
         /\ Len(Append(s, e)) = Len(s) + 1
         /\ \A i \in 1..Len(s) : Append(s, e)[i] = s[i]
         /\ Append(s, e)[Len(s) + 1] = e
  BY AppendProperties

LEMMA Tail1 ==
  ASSUME NEW s \in Seq(Tasks), s # << >>
  PROVE  /\ Tail(s) \in Seq(Tasks)
         /\ Len(s) \in Nat \ {0}
         /\ Len(Tail(s)) = Len(s) - 1
         /\ \A i \in 1..Len(Tail(s)) : Tail(s)[i] = s[i + 1]
         /\ Head(s) = s[1] /\ s[1] \in Tasks
  BY HeadTailProperties, EmptySeq

\* hex_event_submit puts a command at the end; the loop takes the first.
LEMMA Pushed ==
  ASSUME commands \in Seq(Tasks), IOnce, NEW t \in Tasks, ~Queued(t),
         commands' = Append(commands, t)
  PROVE  /\ commands' \in Seq(Tasks)
         /\ IOnce'
         /\ Queued(t)'
         /\ \A u \in Tasks : u # t => (Queued(u)' <=> Queued(u))
<1>1. /\ commands' \in Seq(Tasks) /\ Len(commands) \in Nat
      /\ Len(commands') = Len(commands) + 1
      /\ \A i \in 1..Len(commands) : commands'[i] = commands[i]
      /\ commands'[Len(commands) + 1] = t
  BY Append1
<1>2. \A i \in 1..Len(commands) : commands[i] # t
  BY DEF Queued
<1>3. IOnce'
  BY <1>1, <1>2 DEF IOnce
<1>4. Queued(t)'
  BY <1>1 DEF Queued
<1>5. ASSUME NEW u \in Tasks, u # t
      PROVE  Queued(u)' <=> Queued(u)
  BY <1>1, <1>5 DEF Queued
<1> QED
  BY <1>1, <1>3, <1>4, <1>5

LEMMA Popped ==
  ASSUME commands \in Seq(Tasks), IOnce, NEW t \in Tasks, commands # << >>, t = Head(commands),
         commands' = Tail(commands)
  PROVE  /\ commands' \in Seq(Tasks)
         /\ IOnce'
         /\ Queued(t) /\ ~Queued(t)'
         /\ \A u \in Tasks : u # t => (Queued(u)' <=> Queued(u))
<1>1. /\ commands' \in Seq(Tasks) /\ Len(commands) \in Nat \ {0}
      /\ Len(commands') = Len(commands) - 1
      /\ \A i \in 1..Len(commands') : commands'[i] = commands[i + 1]
      /\ t = commands[1]
  BY Tail1
<1>2. IOnce'
  BY <1>1 DEF IOnce
<1>3. Queued(t)
  BY <1>1 DEF Queued
<1>4. ~Queued(t)'
  BY <1>1 DEF Queued, IOnce
<1>5. ASSUME NEW u \in Tasks, u # t
      PROVE  Queued(u)' <=> Queued(u)
  <2>1. ASSUME NEW i \in 1..Len(commands'), commands'[i] = u
        PROVE  Queued(u)
    <3>1. i + 1 \in 1..Len(commands) /\ commands[i + 1] = u
      BY <1>1, <2>1
    <3> QED
      BY <3>1 DEF Queued
  <2>2. ASSUME NEW i \in 1..Len(commands), commands[i] = u
        PROVE  Queued(u)'
    <3>1. i # 1
      BY <1>1, <1>5, <2>2
    <3>2. i - 1 \in 1..Len(commands') /\ (i - 1) + 1 = i
      BY <1>1, <3>1
    <3>3. commands'[i - 1] = u
      BY <1>1, <2>2, <3>2
    <3> QED
      BY <3>2, <3>3 DEF Queued
  <2> QED
    BY <2>1, <2>2 DEF Queued
<1> QED
  BY <1>1, <1>2, <1>3, <1>4, <1>5

LEMMA Same ==
  ASSUME UNCHANGED commands, IOnce
  PROVE  IOnce' /\ \A u \in Tasks : Queued(u)' <=> Queued(u)
  BY DEF IOnce, Queued

\* The types of the records, and type correctness by way of them.
ControlType ==
  [state : {"open", "closing", "closed"}, readOp : Tasks \cup {None},
   writeOp : Tasks \cup {None}, acceptCommand : Tasks \cup {None}, closer : Tasks \cup {None},
   closePending : 0..3, readTimer : Timers, writeTimer : Timers]

ClientsType ==
  [pending : BOOLEAN, spare : BOOLEAN, declined : BOOLEAN, held : 0..MaxHeld, givenUp : BOOLEAN]

UvType ==
  [reading : BOOLEAN, listening : BOOLEAN, requests : SUBSET Tasks,
   closing : SUBSET NativeNames]

Statuses == {"ok", "failed", TimedOut, "closed"}

CallType ==
  [op : Calls \cup {"none"}, at : {"idle", "resolved", "passed", "waiting", "woken"},
   deadline : {"none", "ahead", "past"}, outcome : {"pending", "done", "deadline", "closed"},
   status : Statuses, left : Nat, client : BOOLEAN, met : BOOLEAN]

LEMMA CallIs == Call = CallType
  BY Zenon DEF Call, CallType, Statuses, TimedOut

LEMMA Names ==
  /\ TimedOut \notin {"ok", "failed", "closed"}
  /\ {"ok", "failed", TimedOut, "closed"} = Statuses
  BY Zenon DEF TimedOut, Statuses

FrameType ==
  /\ kind \in Kinds
  /\ status \in [{Block} -> {"unused", "open", "closing", "freed"}]
  /\ users \in [{Block} -> SUBSET Tasks]
  /\ memory \in {"none", "allocated", "freed"}
  /\ busy \in [Exclusive -> BOOLEAN]

LEMMA Types ==
  TypeOK <=>
    /\ FrameType
    /\ control \in ControlType /\ clients \in ClientsType /\ uv \in UvType
    /\ commands \in Seq(Tasks) /\ call \in [Tasks -> CallType]
  BY CallIs, Zenon DEF TypeOK, FrameType, ControlType, ClientsType, UvType, NativeNames

LEMMA TypesNext ==
  TypeOK' <=>
    /\ FrameType'
    /\ control' \in ControlType /\ clients' \in ClientsType /\ uv' \in UvType
    /\ commands' \in Seq(Tasks) /\ call' \in [Tasks -> CallType]
  BY CallIs, Zenon DEF TypeOK, FrameType, ControlType, ClientsType, UvType, NativeNames

\* The record of a Task that is in no call.
LEMMA NoCallIs ==
  /\ NoCall \in CallType
  /\ NoCall.op = "none" /\ NoCall.at = "idle" /\ NoCall.deadline = "none"
  /\ NoCall.outcome = "pending" /\ NoCall.status = "ok" /\ NoCall.client = FALSE
  /\ NoCall.met = FALSE
<1>1. NoCall.left \in Nat /\ "none" \in Calls \cup {"none"}
  BY DEF NoCall
<1>2. "ok" \in Statuses
  BY Names
<1> QED
  BY <1>1, <1>2 DEF NoCall, CallType

\* What the invariant says of one Task.
LEMMA At1 ==
  ASSUME IInv, NEW t \in Tasks
  PROVE  Placed(t) /\ Waits(t) /\ Uses(t) /\ Told(t)
  BY DEF IInv, IPlaces, IWaiting, IUse, ITold

\* The calls that the control block names wait.
LEMMA InPlace ==
  ASSUME IInv
  PROVE  /\ control.readOp # None =>
              /\ control.readOp \in Tasks
              /\ call[control.readOp].op = "read" /\ call[control.readOp].at = "waiting"
         /\ control.writeOp # None =>
              /\ control.writeOp \in Tasks
              /\ call[control.writeOp].op = "write" /\ call[control.writeOp].at = "waiting"
         /\ control.acceptCommand # None =>
              /\ control.acceptCommand \in Tasks
              /\ call[control.acceptCommand].op = "accept"
              /\ call[control.acceptCommand].at = "waiting"
<1>1. control \in ControlType
  BY Types DEF IInv
<1>2. \A t \in Tasks : Placed(t) /\ Waits(t)
  BY At1
<1> QED
  BY <1>1, <1>2 DEF Placed, Waits, ControlType

\* hex_tcp_begin_close wakes a parked read and accept and leaves the other calls.
Kept(v) ==
  /\ call'[v].op = call[v].op /\ call'[v].deadline = call[v].deadline
  /\ call'[v].status = call[v].status /\ call'[v].client = call[v].client
  /\ call'[v].met = call[v].met
  /\ v = control.readOp \/ v = control.acceptCommand => call'[v].at = "woken"
  /\ v # control.readOp /\ v # control.acceptCommand => call'[v].at = call[v].at
  /\ call'[v].outcome \in {call[v].outcome, "closed"}

\* hex_tcp_begin_close, field by field.
LEMMA CloseFacts ==
  ASSUME IInv, NEW closer \in Tasks \cup {None}, NEW calls \in [Tasks -> CallType],
         BeginClose(closer, calls)
  PROVE  /\ control' \in ControlType
         /\ control'.state = "closing" /\ control'.closer = closer
         /\ control'.readOp = None /\ control'.acceptCommand = None
         /\ control'.writeOp = control.writeOp
         /\ control'.readTimer # "armed" /\ control'.writeTimer # "armed"
         /\ clients' \in ClientsType /\ clients'.held = 0 /\ ~clients'.pending
         /\ uv' \in UvType /\ uv'.requests = uv.requests
         /\ uv'.closing # {} /\ control'.closePending = Cardinality(uv'.closing)
         /\ call' \in [Tasks -> CallType]
         /\ \A u \in Tasks :
              /\ call'[u].op = calls[u].op /\ call'[u].deadline = calls[u].deadline
              /\ call'[u].status = calls[u].status /\ call'[u].client = calls[u].client
              /\ call'[u].met = calls[u].met
              /\ call'[u].at = IF u \in {control.readOp, control.acceptCommand}
                                 THEN "woken" ELSE calls[u].at
              /\ call'[u].outcome \in {calls[u].outcome, "closed"}
<1>1. /\ control \in ControlType /\ clients \in ClientsType /\ uv \in UvType
      /\ call \in [Tasks -> CallType]
  BY Types DEF IInv
<1>2. NativeHandles \subseteq NativeNames /\ "socket" \in NativeHandles
  BY DEF NativeHandles, NativeNames
<1>3. Cardinality(NativeHandles) \in 0..3
  BY <1>2, Cardinalities
<1>4. /\ control' \in ControlType
      /\ control'.state = "closing" /\ control'.closer = closer
      /\ control'.readOp = None /\ control'.acceptCommand = None
      /\ control'.writeOp = control.writeOp
      /\ control'.readTimer # "armed" /\ control'.writeTimer # "armed"
      /\ control'.closePending = Cardinality(NativeHandles)
  BY <1>1, <1>3, ZenonT(60) DEF BeginClose, ControlType, Stop, Timers
<1>5. clients' \in ClientsType /\ clients'.held = 0 /\ ~clients'.pending
  <2>1. 0 \in 0..MaxHeld
    BY TcpAssumption
  <2> QED
    BY <1>1, <2>1 DEF BeginClose, ClientsType
<1>6. uv' \in UvType /\ uv'.requests = uv.requests /\ uv'.closing = NativeHandles
  BY <1>1, <1>2 DEF BeginClose, UvType
<1>7. ASSUME NEW u \in Tasks
      PROVE  /\ call'[u] \in CallType
             /\ call'[u].op = calls[u].op /\ call'[u].deadline = calls[u].deadline
             /\ call'[u].status = calls[u].status /\ call'[u].client = calls[u].client
             /\ call'[u].met = calls[u].met
             /\ call'[u].at = IF u \in {control.readOp, control.acceptCommand}
                                THEN "woken" ELSE calls[u].at
             /\ call'[u].outcome \in {calls[u].outcome, "closed"}
  <2>1. PICK c \in CallType : c = calls[u]
    OBVIOUS
  <2>2. call'[u] = Cut(u, c)
    BY <2>1 DEF BeginClose
  <2> /\ u = control.readOp => u # control.acceptCommand /\ u # control.writeOp
      /\ u = control.acceptCommand => u # control.writeOp
    BY At1 DEF Placed
  <2>3. CASE u = control.readOp
    <3>1. call'[u] = [c EXCEPT !.at = "woken", !.outcome = "closed"]
      BY <2>2, <2>3 DEF Cut
    <3> QED
      BY <2>1, <2>3, <3>1, ZenonT(60) DEF CallType
  <2>4. CASE u # control.readOp /\ u = control.acceptCommand
    <3>1. call'[u] = [c EXCEPT !.at = "woken"]
      BY <2>2, <2>4 DEF Cut
    <3> QED
      BY <2>1, <2>4, <3>1 DEF CallType
  <2>5. CASE u # control.readOp /\ u # control.acceptCommand
    <3>1. call'[u] = c \/ call'[u] = [c EXCEPT !.outcome = "closed"]
      BY <2>2, <2>5 DEF Cut
    <3> QED
      BY <2>1, <2>5, <3>1 DEF CallType
  <2> QED
    BY <2>3, <2>4, <2>5
<1>8. call' \in [Tasks -> CallType]
  BY <1>7 DEF BeginClose
<1> QED
  BY <1>2, <1>4, <1>5, <1>6, <1>7, <1>8

-----------------------------------------------------------------------------

\* What the last close callback makes of a control block.
LEMMA ClosedIs ==
  ASSUME NEW k \in ControlType
  PROVE  [k EXCEPT !.closePending = 0, !.state = "closed", !.closer = None] \in ControlType
<1>1. 0 \in 0..3 /\ "closed" \in {"open", "closing", "closed"} /\ None \in Tasks \cup {None}
  OBVIOUS
<1> DEFINE S == {"open", "closing", "closed"}
<1> DEFINE N == 0..3
<1> DEFINE P == Tasks \cup {None}
<1>2. "closed" \in S /\ 0 \in N /\ None \in P
  BY <1>1
<1>3. ControlType = [state : S, readOp : P, writeOp : P, acceptCommand : P, closer : P,
                     closePending : N, readTimer : Timers, writeTimer : Timers]
  BY DEF ControlType
<1> HIDE DEF S, N, P
<1> QED
  BY <1>2, <1>3

\* A Task connects or listens: it allocates the control block and hands it over.
LEMMA OpenKeeps ==
  ASSUME IInv, NEW t \in Tasks, Open(t)
  PROVE  IInv'
<1> USE DEF IInv
<1>1. /\ None \notin Tasks /\ call \in [Tasks -> CallType] /\ commands \in Seq(Tasks) /\ FrameType
      /\ control \in ControlType /\ clients \in ClientsType /\ uv \in UvType
  BY Types, TcpAssumption
<1>2. Placed(t) /\ Waits(t) /\ Uses(t) /\ Told(t)
  BY At1
<1>3. call[t].at = "idle" /\ memory = "none"
  BY DEF Open
<1>4. status[Block] = "unused" /\ \A v \in Tasks : call[v].op = "none"
  BY <1>3 DEF IMemory, NobodyCalls
<1>5. PICK o \in {"connect", "listen"} :
    call' = [call EXCEPT ![t] = [NoCall EXCEPT !.op = o, !.at = "passed"]]
  BY DEF Open
<1>6. /\ call' \in [Tasks -> CallType]
      /\ \A v \in Tasks : v # t => call'[v] = call[v]
      /\ call'[t].op \in {"connect", "listen"} /\ call'[t].at = "passed"
      /\ call'[t].deadline = "none" /\ call'[t].outcome = "pending" /\ call'[t].status = "ok"
      /\ call'[t].client = FALSE /\ call'[t].met = FALSE
  <2> DEFINE d == [NoCall EXCEPT !.op = o, !.at = "passed"]
  <2>1. /\ d \in CallType /\ d.op \in {"connect", "listen"} /\ d.at = "passed"
        /\ d.deadline = "none" /\ d.outcome = "pending" /\ d.status = "ok" /\ d.client = FALSE
        /\ d.met = FALSE
    BY Names DEF CallType, Calls, NoCall
  <2>2. call' = [call EXCEPT ![t] = d]
    BY <1>5
  <2> HIDE DEF d
  <2> QED
    BY <1>1, <2>1, <2>2
<1>7. /\ control' = control /\ clients' = clients /\ uv' = uv
  BY DEF Open, onLoop
<1>8. commands' = commands
  BY DEF Open, ofTasks
<1>9. /\ IOnce' /\ commands' \in Seq(Tasks)
      /\ \A v \in Tasks : Queued(v)' <=> Queued(v)
  BY <1>8, <1>1, Same
<1>10. /\ FrameType'
      /\ busy' = busy /\ status' = status /\ users' = users /\ memory' = "allocated"
  BY <1>1 DEF Open, FrameType, ofTasks, capability
<1>11. TypeOK'
  BY <1>1, <1>6, <1>7, <1>9, <1>10, TypesNext
<1>12. IOnce'
  BY <1>9
<1>13. IPlaces'
  <2> SUFFICES ASSUME NEW x \in Tasks
               PROVE  Placed(x)'
    BY DEF IPlaces
  <2>1. Placed(x) /\ Waits(x) /\ Uses(x) /\ Told(x)
    BY At1
  <2> QED
    BY <1>4, <1>7, <2>1 DEF Placed
<1>14. IWaiting'
  <2> SUFFICES ASSUME NEW x \in Tasks
               PROVE  Waits(x)'
    BY DEF IWaiting
  <2>1. Placed(x) /\ Waits(x) /\ Uses(x) /\ Told(x)
    BY At1
  <2> QED
    BY <1>3, <1>6, <1>7, <1>9, <2>1 DEF Waits
<1>15. IBusy'
  BY <1>4, <1>6, <1>10 DEF IBusy, Inside
<1>16. IUse'
  <2> SUFFICES ASSUME NEW x \in Tasks
               PROVE  Uses(x)'
    BY DEF IUse
  <2>1. Placed(x) /\ Waits(x) /\ Uses(x) /\ Told(x)
    BY At1
  <2> QED
    BY <1>3, <1>4, <1>6, <1>10, <2>1 DEF Uses, Alone, Leased, Exclusive
<1>17. IMemory'
  BY <1>4, <1>10 DEF IMemory
<1>18. ILoop'
  BY <1>7 DEF ILoop
<1>19. ITimers'
  BY <1>4, <1>7, InPlace DEF ITimers
<1>20. ITold'
  <2> SUFFICES ASSUME NEW x \in Tasks
               PROVE  Told(x)'
    BY DEF ITold
  <2>1. Placed(x) /\ Waits(x) /\ Uses(x) /\ Told(x)
    BY At1
  <2> QED
    BY <1>6, <1>7, <2>1, Names DEF Told, Results
<1>21. NoStrandedClient'
  BY <1>4, <1>7, InPlace DEF NoStrandedClient
<1> QED
  BY <1>11, <1>12, <1>13, <1>14, <1>15, <1>16, <1>17, <1>18, <1>19,
     <1>20, <1>21

\* A Task begins a call: it resolves the handle.
LEMMA EnterKeeps ==
  ASSUME IInv, NEW t \in Tasks, NEW op \in Calls,
         NEW deadline \in {"none", "ahead"}, NEW left \in Chunks \cup {0},
         Enter(t, op, deadline, left)
  PROVE  IInv'
<1> USE DEF IInv
<1>1. /\ None \notin Tasks /\ call \in [Tasks -> CallType] /\ commands \in Seq(Tasks) /\ FrameType
      /\ control \in ControlType /\ clients \in ClientsType /\ uv \in UvType
  BY Types, TcpAssumption
<1>2. Placed(t) /\ Waits(t) /\ Uses(t) /\ Told(t)
  BY At1
<1>3. call[t].at = "idle" /\ op \in Exclusive \cup {"shutdown", "no_delay"} /\ left \in Nat
  BY TcpAssumption DEF Enter, Offered, Exclusive
<1>4. status[Block] = "open" /\ memory = "allocated"
  BY <1>1 DEF Enter, Registry!Use, IMemory, FrameType
<1>5. /\ call' \in [Tasks -> CallType]
      /\ \A v \in Tasks : v # t => call'[v] = call[v]
      /\ call'[t].op = op /\ call'[t].at = "resolved" /\ call'[t].deadline = deadline
      /\ call'[t].outcome = "pending" /\ call'[t].status = "ok" /\ call'[t].client = FALSE
      /\ call'[t].met = FALSE
  <2> DEFINE d == [NoCall EXCEPT !.op = op, !.at = "resolved", !.deadline = deadline, !.left = left]
  <2>1. /\ d \in CallType /\ d.op = op /\ d.at = "resolved" /\ d.deadline = deadline
        /\ d.outcome = "pending" /\ d.status = "ok" /\ d.client = FALSE /\ d.met = FALSE
    BY <1>3, Names DEF CallType, NoCall
  <2>2. call' = [call EXCEPT ![t] = d]
    BY DEF Enter
  <2> HIDE DEF d
  <2> QED
    BY <1>1, <2>1, <2>2
<1>6. /\ control' = control /\ clients' = clients /\ uv' = uv
  BY DEF Enter, onLoop
<1>7. commands' = commands
  BY DEF Enter
<1>8. /\ IOnce' /\ commands' \in Seq(Tasks)
      /\ \A v \in Tasks : Queued(v)' <=> Queued(v)
  BY <1>7, <1>1, Same
<1>9. /\ FrameType'
      /\ busy' = busy /\ status' = status /\ users'[Block] = users[Block] \cup {t}
      /\ memory' = memory
  BY <1>1 DEF Enter, Registry!Use, FrameType, ofTasks, capability
<1>10. TypeOK'
  BY <1>1, <1>5, <1>6, <1>8, <1>9, TypesNext
<1>11. IOnce'
  BY <1>8
<1>12. IPlaces'
  <2> SUFFICES ASSUME NEW x \in Tasks
               PROVE  Placed(x)'
    BY DEF IPlaces
  <2>1. Placed(x) /\ Waits(x) /\ Uses(x) /\ Told(x)
    BY At1
  <2> QED
    BY <1>3, <1>5, <1>6, <1>8, <2>1 DEF Placed, Waits
<1>13. IWaiting'
  <2> SUFFICES ASSUME NEW x \in Tasks
               PROVE  Waits(x)'
    BY DEF IWaiting
  <2>1. Placed(x) /\ Waits(x) /\ Uses(x) /\ Told(x)
    BY At1
  <2> QED
    BY <1>3, <1>5, <1>6, <1>8, <2>1 DEF Waits
<1>14. IBusy'
  BY <1>5, <1>9 DEF IBusy, Inside
<1>15. IUse'
  <2> SUFFICES ASSUME NEW x \in Tasks
               PROVE  Uses(x)'
    BY DEF IUse
  <2>1. Placed(x) /\ Waits(x) /\ Uses(x) /\ Told(x)
    BY At1
  <2> QED
    BY <1>3, <1>4, <1>5, <1>9, <2>1 DEF Uses, Opening, Exclusive
<1>16. IMemory'
  BY <1>4, <1>9 DEF IMemory
<1>17. ILoop'
  BY <1>6 DEF ILoop
<1>18. ITimers'
  BY <1>3, <1>5, <1>6, InPlace DEF ITimers
<1>19. ITold'
  <2> SUFFICES ASSUME NEW x \in Tasks
               PROVE  Told(x)'
    BY DEF ITold
  <2>1. Placed(x) /\ Waits(x) /\ Uses(x) /\ Told(x)
    BY At1
  <2> QED
    BY <1>5, <1>6, <2>1, Names DEF Told, Results
<1>20. NoStrandedClient'
  BY <1>3, <1>5, <1>6, InPlace DEF NoStrandedClient
<1> QED
  BY <1>10, <1>11, <1>12, <1>13, <1>14, <1>15, <1>16, <1>17, <1>18,
     <1>19, <1>20

LEMMA RefuseKeeps ==
  ASSUME IInv, NEW t \in Tasks, Refuse(t)
  PROVE  IInv'
<1> USE DEF IInv
<1>1. /\ None \notin Tasks /\ call \in [Tasks -> CallType] /\ commands \in Seq(Tasks) /\ FrameType
      /\ control \in ControlType /\ clients \in ClientsType /\ uv \in UvType
  BY Types, TcpAssumption
<1>2. Placed(t) /\ Waits(t) /\ Uses(t) /\ Told(t)
  BY At1
<1>3. call[t].at = "resolved" /\ call[t].op \in Exclusive
  BY DEF Refuse
<1>4. /\ call' \in [Tasks -> CallType]
      /\ \A v \in Tasks : v # t => call'[v] = call[v]
      /\ call'[t].op = "none" /\ call'[t].at = "idle" /\ call'[t].deadline = "none"
      /\ call'[t].outcome = "pending" /\ call'[t].status = "ok" /\ call'[t].client = FALSE
      /\ call'[t].met = FALSE
  <2>1. call' = [call EXCEPT ![t] = NoCall]
    BY DEF Refuse, Idle
  <2> QED
    BY <1>1, <2>1, NoCallIs
<1>5. /\ control' = control /\ clients' = clients /\ uv' = uv
  BY DEF Refuse, onLoop
<1>6. commands' = commands
  BY DEF Refuse
<1>7. /\ IOnce' /\ commands' \in Seq(Tasks)
      /\ \A v \in Tasks : Queued(v)' <=> Queued(v)
  BY <1>6, <1>1, Same
<1>8. /\ FrameType'
      /\ busy' = busy /\ status' = status /\ users'[Block] = users[Block] \ {t}
      /\ memory' = memory
  BY <1>1 DEF Refuse, Registry!Leave, FrameType
<1>9. TypeOK'
  BY <1>1, <1>4, <1>5, <1>7, <1>8, TypesNext
<1>10. IOnce'
  BY <1>7
<1>11. IPlaces'
  <2> SUFFICES ASSUME NEW x \in Tasks
               PROVE  Placed(x)'
    BY DEF IPlaces
  <2>1. Placed(x) /\ Waits(x) /\ Uses(x) /\ Told(x)
    BY At1
  <2> QED
    BY <1>3, <1>4, <1>5, <1>7, <2>1 DEF Placed, Waits
<1>12. IWaiting'
  <2> SUFFICES ASSUME NEW x \in Tasks
               PROVE  Waits(x)'
    BY DEF IWaiting
  <2>1. Placed(x) /\ Waits(x) /\ Uses(x) /\ Told(x)
    BY At1
  <2> QED
    BY <1>3, <1>4, <1>5, <1>7, <2>1 DEF Waits
<1>13. IBusy'
  BY <1>3, <1>4, <1>8 DEF IBusy, Inside
<1>14. IUse'
  <2> SUFFICES ASSUME NEW x \in Tasks
               PROVE  Uses(x)'
    BY DEF IUse
  <2>1. Placed(x) /\ Waits(x) /\ Uses(x) /\ Told(x)
    BY At1
  <2> QED
    BY <1>2, <1>3, <1>4, <1>8, <2>1 DEF Uses, Opening, Leased, Exclusive
<1>15. IMemory'
  BY <1>2, <1>3, <1>4, <1>5, <1>8 DEF IMemory, Uses, Leased, Exclusive
<1>16. ILoop'
  BY <1>5 DEF ILoop
<1>17. ITimers'
  BY <1>3, <1>4, <1>5, InPlace DEF ITimers
<1>18. ITold'
  <2> SUFFICES ASSUME NEW x \in Tasks
               PROVE  Told(x)'
    BY DEF ITold
  <2>1. Placed(x) /\ Waits(x) /\ Uses(x) /\ Told(x)
    BY At1
  <2> QED
    BY <1>4, <1>5, <2>1, Names DEF Told, Results
<1>19. NoStrandedClient'
  BY <1>3, <1>4, <1>5, InPlace DEF NoStrandedClient
<1> QED
  BY <1>9, <1>10, <1>11, <1>12, <1>13, <1>14, <1>15, <1>16, <1>17,
     <1>18, <1>19

\* A call finds the busy flag clear, beside others that do, or is told Busy.
LEMMA AdmitKeeps ==
  ASSUME IInv, NEW t \in Tasks, Admit(t)
  PROVE  IInv'
<1> USE DEF IInv
<1>1. /\ call \in [Tasks -> CallType] /\ FrameType /\ commands \in Seq(Tasks)
      /\ control \in ControlType /\ clients \in ClientsType /\ uv \in UvType
  BY Types
<1>2. Placed(t) /\ Waits(t) /\ Uses(t) /\ Told(t)
  BY At1
<1>3. call[t].at = "resolved" /\ call[t].op \in Exclusive /\ ~busy[call[t].op]
  BY DEF Admit
<1>4. /\ UNCHANGED <<kind, status, users, memory, busy>>
      /\ UNCHANGED <<control, clients, uv, commands>>
  BY DEF Admit, ofTasks, onLoop, capability
<1>5. ASSUME NEW v \in Tasks, v # t, Inside(v, call[t].op)
      PROVE  v \in Beside(t)
  BY <1>1, <1>3, <1>5 DEF Beside, Inside, IBusy, CallType
<1>6. ASSUME NEW v \in Tasks
      PROVE  /\ call'[v] \in CallType
             /\ call'[v].op = call[v].op /\ call'[v].deadline = call[v].deadline
             /\ call'[v].outcome = call[v].outcome /\ call'[v].status = call[v].status
             /\ call'[v].client = call[v].client
             /\ call'[v].at = IF v = t THEN "passed" ELSE call[v].at
             /\ call[v].met /\ v # t => call'[v].met
             /\ v = t => call'[v].met = (Beside(t) # {})
             /\ v \in Beside(t) => call'[v].met
             /\ v # t /\ v \notin Beside(t) => call'[v].met = call[v].met
  <2>1. PICK c \in CallType : c = call[v]
    BY <1>1
  <2>2. t \notin Beside(t)
    BY DEF Beside
  <2>3. CASE v = t
    <3>1. PICK b \in BOOLEAN : b = (Beside(t) # {})
      OBVIOUS
    <3>2. call'[v] = [c EXCEPT !.at = "passed", !.met = b]
      BY <2>1, <2>3, <3>1 DEF Admit
    <3> QED
      BY <2>1, <2>2, <2>3, <3>1, <3>2 DEF CallType
  <2>4. CASE v # t /\ v \in Beside(t)
    <3>1. call'[v] = [c EXCEPT !.met = TRUE]
      BY <2>1, <2>4 DEF Admit
    <3> QED
      BY <2>1, <2>4, <3>1 DEF CallType
  <2>5. CASE v # t /\ v \notin Beside(t)
    <3>1. call'[v] = c
      BY <2>1, <2>5 DEF Admit
    <3> QED
      BY <2>1, <2>5, <3>1
  <2> QED
    BY <2>3, <2>4, <2>5
<1>7. call' \in [Tasks -> CallType]
  BY <1>6 DEF Admit
<1>8. \A v \in Tasks : v # t /\ call[v].at \in {"idle", "resolved"} => v \notin Beside(t)
  BY DEF Beside
<1>9. \A v \in Tasks : Queued(v)' <=> Queued(v)
  BY <1>4 DEF Queued
<1>10. TypeOK'
  BY <1>1, <1>4, <1>7, TypesNext DEF FrameType
<1>11. IOnce'
  BY <1>4 DEF IOnce
<1>12. IPlaces'
  BY <1>4, <1>6, <1>9, At1 DEF IPlaces, Placed
<1>13. IWaiting'
  <2> SUFFICES ASSUME NEW x \in Tasks
               PROVE  Waits(x)'
    BY DEF IWaiting
  <2>1. Waits(x)
    BY At1
  <2> QED
    BY <1>2, <1>3, <1>4, <1>6, <1>9, <2>1 DEF Waits
<1>14. IBusy'
  <2> SUFFICES ASSUME NEW v \in Tasks, NEW op \in Exclusive, Inside(v, op)', ~call'[v].met
               PROVE  /\ call'[v].at # "passed" => busy[op]
                      /\ \A u \in Tasks : Inside(u, op)' => u = v
    BY <1>4 DEF IBusy
  <2>1. \A u \in Tasks : u # t => (Inside(u, op)' <=> Inside(u, op))
    BY <1>6 DEF Inside
  <2>2. CASE v = t
    <3>1. op = call[t].op /\ call'[t].at = "passed"
      BY <1>6, <2>2 DEF Inside
    <3>2. Beside(t) = {}
      BY <1>6, <2>2
    <3> QED
      BY <1>5, <2>1, <2>2, <3>1, <3>2
  <2>3. CASE v # t
    <3>1. Inside(v, op) /\ v \notin Beside(t) /\ ~call[v].met /\ call'[v].at = call[v].at
      BY <1>6, <2>1, <2>3
    <3>2. op # call[t].op
      BY <1>5, <2>3, <3>1
    <3>3. ~Inside(t, op)'
      BY <1>6, <3>2 DEF Inside
    <3> QED
      BY <2>1, <2>3, <3>1, <3>3 DEF IBusy
  <2> QED
    BY <2>2, <2>3
<1>15. IUse'
  <2> SUFFICES ASSUME NEW x \in Tasks
               PROVE  Uses(x)'
    BY DEF IUse
  <2>1. Uses(x)
    BY At1
  <2> QED
    BY <1>2, <1>3, <1>4, <1>6, <2>1 DEF Uses, Alone, Opening, Leased, Exclusive
<1>16. IMemory'
  BY <1>4, <1>6 DEF IMemory, NobodyCalls
<1>17. ILoop'
  BY <1>4 DEF ILoop
<1>18. ITimers' /\ NoStrandedClient'
  <2>1. \A x \in Tasks : call[x].at = "waiting" => (call[x].met => call'[x].met)
    BY <1>3, <1>6
  <2> QED
    BY <1>4, <1>6, <2>1, InPlace DEF ITimers, NoStrandedClient
<1>19. ITold'
  <2> SUFFICES ASSUME NEW x \in Tasks
               PROVE  Told(x)'
    BY DEF ITold
  <2>1. Told(x)
    BY At1
  <2> QED
    BY <1>3, <1>4, <1>6, <1>8, <2>1 DEF Told
<1> QED
  BY <1>10, <1>11, <1>12, <1>13, <1>14, <1>15, <1>16, <1>17, <1>18, <1>19

\* An empty write is done at once; every other call becomes a command.
LEMMA SendNothingKeeps ==
  ASSUME IInv, NEW t \in Tasks, Send(t),
         call[t].op = "write" /\ call[t].left = 0
  PROVE  IInv'
<1> USE DEF IInv
<1>1. /\ None \notin Tasks /\ call \in [Tasks -> CallType] /\ commands \in Seq(Tasks) /\ FrameType
      /\ control \in ControlType /\ clients \in ClientsType /\ uv \in UvType
  BY Types, TcpAssumption
<1>2. Placed(t) /\ Waits(t) /\ Uses(t) /\ Told(t)
  BY At1
<1>3. call[t].at = "passed" \/ (call[t].at = "resolved" /\ call[t].op \notin Exclusive)
  BY DEF Send
<1>4. /\ call' \in [Tasks -> CallType]
      /\ \A v \in Tasks : v # t => call'[v] = call[v]
      /\ call'[t].op = call[t].op /\ call'[t].at = "woken"
      /\ call'[t].deadline = call[t].deadline /\ call'[t].outcome = call[t].outcome
      /\ call'[t].status = call[t].status /\ call'[t].client = call[t].client
      /\ call'[t].met = call[t].met
  BY <1>1, <1>2, <1>3 DEF Send, At, CallType, NoCall
<1>5. /\ control' = control /\ clients' = clients /\ uv' = uv
  BY DEF Send, onLoop
<1>6. commands' = commands
  BY DEF Send
<1>7. /\ IOnce' /\ commands' \in Seq(Tasks)
      /\ \A v \in Tasks : Queued(v)' <=> Queued(v)
  BY <1>6, <1>1, Same
<1>8. /\ FrameType'
      /\ \A op \in Exclusive : busy'[op] = (busy[op] \/ op = call[t].op)
      /\ status' = status /\ users' = users /\ memory' = memory
  BY <1>1 DEF Send, FrameType, capability
<1>9. TypeOK'
  BY <1>1, <1>4, <1>5, <1>7, <1>8, TypesNext
<1>10. IOnce'
  BY <1>7
<1>11. IPlaces'
  <2> SUFFICES ASSUME NEW x \in Tasks
               PROVE  Placed(x)'
    BY DEF IPlaces
  <2>1. Placed(x) /\ Waits(x) /\ Uses(x) /\ Told(x)
    BY At1
  <2> QED
    BY <1>4, <1>5, <1>7, <2>1 DEF Placed
<1>12. IWaiting'
  <2> SUFFICES ASSUME NEW x \in Tasks
               PROVE  Waits(x)'
    BY DEF IWaiting
  <2>1. Placed(x) /\ Waits(x) /\ Uses(x) /\ Told(x)
    BY At1
  <2> QED
    BY <1>3, <1>4, <1>5, <1>7, <2>1 DEF Waits
<1>13. IBusy'
  <2>1. \A v \in Tasks : \A op \in Exclusive : Inside(v, op)' =>
          Inside(v, op) /\ call'[v].met = call[v].met
    BY <1>3, <1>4 DEF Inside
  <2>2. ASSUME NEW v \in Tasks, NEW op \in Exclusive, Inside(v, op)', ~call'[v].met,
               call'[v].at # "passed"
        PROVE  busy'[op]
    BY <1>4, <1>8, <2>2 DEF IBusy, Inside, Waits
  <2> QED
    BY <2>1, <2>2 DEF IBusy
<1>14. IUse'
  <2> SUFFICES ASSUME NEW x \in Tasks
               PROVE  Uses(x)'
    BY DEF IUse
  <2>1. Placed(x) /\ Waits(x) /\ Uses(x) /\ Told(x)
    BY At1
  <2> QED
    BY <1>2, <1>4, <1>8, <2>1 DEF Uses, Leased, Exclusive
<1>15. IMemory'
  BY <1>2, <1>4, <1>5, <1>8 DEF IMemory, Uses, Leased, Exclusive
<1>16. ILoop'
  BY <1>5 DEF ILoop
<1>17. ITimers'
  BY <1>4, <1>5, InPlace DEF ITimers
<1>18. ITold'
  <2> SUFFICES ASSUME NEW x \in Tasks
               PROVE  Told(x)'
    BY DEF ITold
  <2>1. Placed(x) /\ Waits(x) /\ Uses(x) /\ Told(x)
    BY At1
  <2> QED
    BY <1>4, <1>5, <2>1 DEF Told, Results
<1>19. NoStrandedClient'
  BY <1>4, <1>5, InPlace DEF NoStrandedClient
<1> QED
  BY <1>9, <1>10, <1>11, <1>12, <1>13, <1>14, <1>15, <1>16, <1>17,
     <1>18, <1>19

LEMMA SendCommandKeeps ==
  ASSUME IInv, NEW t \in Tasks, Send(t),
         ~(call[t].op = "write" /\ call[t].left = 0)
  PROVE  IInv'
<1> USE DEF IInv
<1>1. /\ None \notin Tasks /\ call \in [Tasks -> CallType] /\ commands \in Seq(Tasks) /\ FrameType
      /\ control \in ControlType /\ clients \in ClientsType /\ uv \in UvType
  BY Types, TcpAssumption
<1>2. Placed(t) /\ Waits(t) /\ Uses(t) /\ Told(t)
  BY At1
<1>3. call[t].at = "passed" \/ (call[t].at = "resolved" /\ call[t].op \notin Exclusive)
  BY DEF Send
<1>4. /\ call' \in [Tasks -> CallType]
      /\ \A v \in Tasks : v # t => call'[v] = call[v]
      /\ call'[t].op = call[t].op /\ call'[t].at = "waiting"
      /\ call'[t].deadline = call[t].deadline /\ call'[t].outcome = call[t].outcome
      /\ call'[t].status = call[t].status /\ call'[t].client = call[t].client
      /\ call'[t].met = call[t].met
  <2>1. PICK r0 \in CallType : r0 = call[t]
    BY <1>1
  <2> DEFINE d == [r0 EXCEPT !.at = "waiting"]
  <2>2. /\ d \in CallType
        /\ d.op = r0.op /\ d.at = "waiting" /\ d.deadline = r0.deadline /\ d.outcome = r0.outcome
        /\ d.status = r0.status /\ d.client = r0.client /\ d.met = r0.met
    BY DEF CallType
  <2>3. call' = [call EXCEPT ![t] = d]
    BY <2>1 DEF Send, Submit, TimedOut
  <2> HIDE DEF d
  <2> QED
    BY <1>1, <2>1, <2>2, <2>3
<1>5. /\ control' = control /\ clients' = clients /\ uv' = uv
  BY DEF Send, onLoop
<1>6. /\ IOnce' /\ commands' \in Seq(Tasks) /\ Queued(t)'
      /\ \A v \in Tasks : v # t => (Queued(v)' <=> Queued(v))
  BY <1>1, <1>2, Pushed DEF Send, Submit, Waits
<1>7. /\ FrameType'
      /\ \A op \in Exclusive : busy'[op] = (busy[op] \/ op = call[t].op)
      /\ status' = status /\ users' = users /\ memory' = memory
  BY <1>1 DEF Send, FrameType, capability
<1>8. TypeOK'
  BY <1>1, <1>4, <1>5, <1>6, <1>7, TypesNext
<1>9. IOnce'
  BY <1>6
<1>10. IPlaces'
  <2> SUFFICES ASSUME NEW x \in Tasks
               PROVE  Placed(x)'
    BY DEF IPlaces
  <2>1. Placed(x) /\ Waits(x) /\ Uses(x) /\ Told(x)
    BY At1
  <2> QED
    BY <1>3, <1>4, <1>5, <1>6, <2>1 DEF Placed, Waits
<1>11. IWaiting'
  <2> SUFFICES ASSUME NEW x \in Tasks
               PROVE  Waits(x)'
    BY DEF IWaiting
  <2>1. Placed(x) /\ Waits(x) /\ Uses(x) /\ Told(x)
    BY At1
  <2> QED
    BY <1>4, <1>5, <1>6, <2>1 DEF Waits
<1>12. IBusy'
  <2>1. \A v \in Tasks : \A op \in Exclusive : Inside(v, op)' =>
          Inside(v, op) /\ call'[v].met = call[v].met
    BY <1>3, <1>4 DEF Inside
  <2>2. ASSUME NEW v \in Tasks, NEW op \in Exclusive, Inside(v, op)', ~call'[v].met,
               call'[v].at # "passed"
        PROVE  busy'[op]
    BY <1>1, <1>3, <1>4, <1>6, <1>7, <2>2 DEF IBusy, Inside, Waits
  <2> QED
    BY <2>1, <2>2 DEF IBusy
<1>13. IUse'
  <2> SUFFICES ASSUME NEW x \in Tasks
               PROVE  Uses(x)'
    BY DEF IUse
  <2>1. Placed(x) /\ Waits(x) /\ Uses(x) /\ Told(x)
    BY At1
  <2> QED
    BY <1>3, <1>4, <1>7, <2>1 DEF Uses, Alone
<1>14. IMemory'
  BY <1>4, <1>5, <1>7 DEF IMemory, NobodyCalls
<1>15. ILoop'
  BY <1>5 DEF ILoop
<1>16. ITimers'
  BY <1>4, <1>5, InPlace DEF ITimers
<1>17. ITold'
  <2> SUFFICES ASSUME NEW x \in Tasks
               PROVE  Told(x)'
    BY DEF ITold
  <2>1. Placed(x) /\ Waits(x) /\ Uses(x) /\ Told(x)
    BY At1
  <2> QED
    BY <1>4, <1>5, <2>1 DEF Told, Results
<1>18. NoStrandedClient'
  BY <1>4, <1>5, InPlace DEF NoStrandedClient
<1> QED
  BY <1>8, <1>9, <1>10, <1>11, <1>12, <1>13, <1>14, <1>15, <1>16, <1>17,
     <1>18

\* hex_handle_close_begin.
LEMMA CloseBeginKeeps ==
  ASSUME IInv, NEW t \in Tasks, CloseBegin(t)
  PROVE  IInv'
<1> USE DEF IInv
<1>1. /\ None \notin Tasks /\ call \in [Tasks -> CallType] /\ commands \in Seq(Tasks) /\ FrameType
      /\ control \in ControlType /\ clients \in ClientsType /\ uv \in UvType
  BY Types, TcpAssumption
<1>2. Placed(t) /\ Waits(t) /\ Uses(t) /\ Told(t)
  BY At1
<1>3. call[t].at = "idle"
  BY DEF CloseBegin
<1>4. status[Block] = "open" /\ memory = "allocated"
  BY <1>1 DEF CloseBegin, Registry!Close, IMemory, FrameType
<1>5. \A v \in Tasks : call[v].op # "close"
  BY <1>4 DEF IUse, Uses
<1>6. /\ call' \in [Tasks -> CallType]
      /\ \A v \in Tasks : v # t => call'[v] = call[v]
      /\ call'[t].op = "close" /\ call'[t].at = "resolved" /\ call'[t].deadline = "none"
      /\ call'[t].outcome = "pending" /\ call'[t].status = "ok" /\ call'[t].client = FALSE
      /\ call'[t].met = FALSE
  <2> DEFINE d == [NoCall EXCEPT !.op = "close", !.at = "resolved"]
  <2>1. /\ d \in CallType /\ d.op = "close" /\ d.at = "resolved" /\ d.deadline = "none"
        /\ d.outcome = "pending" /\ d.status = "ok" /\ d.client = FALSE /\ d.met = FALSE
    BY Names DEF CallType, Calls, NoCall
  <2>2. call' = [call EXCEPT ![t] = d]
    BY DEF CloseBegin
  <2> HIDE DEF d
  <2> QED
    BY <1>1, <2>1, <2>2
<1>7. /\ control' = control /\ clients' = clients /\ uv' = uv
  BY DEF CloseBegin, onLoop
<1>8. commands' = commands
  BY DEF CloseBegin
<1>9. /\ IOnce' /\ commands' \in Seq(Tasks)
      /\ \A v \in Tasks : Queued(v)' <=> Queued(v)
  BY <1>8, <1>1, Same
<1>10. /\ FrameType'
      /\ busy' = busy /\ status'[Block] = "closing" /\ users'[Block] = users[Block] \cup {t}
      /\ memory' = memory
  BY <1>1 DEF CloseBegin, Registry!Close, FrameType, ofTasks, capability
<1>11. TypeOK'
  BY <1>1, <1>6, <1>7, <1>9, <1>10, TypesNext
<1>12. IOnce'
  BY <1>9
<1>13. IPlaces'
  <2> SUFFICES ASSUME NEW x \in Tasks
               PROVE  Placed(x)'
    BY DEF IPlaces
  <2>1. Placed(x) /\ Waits(x) /\ Uses(x) /\ Told(x)
    BY At1
  <2> QED
    BY <1>3, <1>6, <1>7, <1>9, <2>1 DEF Placed, Waits
<1>14. IWaiting'
  <2> SUFFICES ASSUME NEW x \in Tasks
               PROVE  Waits(x)'
    BY DEF IWaiting
  <2>1. Placed(x) /\ Waits(x) /\ Uses(x) /\ Told(x)
    BY At1
  <2> QED
    BY <1>3, <1>6, <1>7, <1>9, <2>1 DEF Waits
<1>15. IBusy'
  BY <1>5, <1>6, <1>10 DEF IBusy, Inside
<1>16. IUse'
  <2> SUFFICES ASSUME NEW x \in Tasks
               PROVE  Uses(x)'
    BY DEF IUse
  <2>1. Placed(x) /\ Waits(x) /\ Uses(x) /\ Told(x)
    BY At1
  <2> QED
    BY <1>4, <1>5, <1>6, <1>10, <2>1 DEF Uses, Opening
<1>17. IMemory'
  BY <1>4, <1>6, <1>10 DEF IMemory
<1>18. ILoop'
  BY <1>7 DEF ILoop
<1>19. ITimers'
  BY <1>3, <1>6, <1>7, InPlace DEF ITimers
<1>20. ITold'
  <2> SUFFICES ASSUME NEW x \in Tasks
               PROVE  Told(x)'
    BY DEF ITold
  <2>1. Placed(x) /\ Waits(x) /\ Uses(x) /\ Told(x)
    BY At1
  <2> QED
    BY <1>6, <1>7, <2>1, Names DEF Told, Results
<1>21. NoStrandedClient'
  BY <1>3, <1>6, <1>7, InPlace DEF NoStrandedClient
<1> QED
  BY <1>11, <1>12, <1>13, <1>14, <1>15, <1>16, <1>17, <1>18, <1>19,
     <1>20, <1>21

\* hex_handle_publish, or the control block is given back without a handle.
LEMMA PublishKeeps ==
  ASSUME IInv, NEW t \in Tasks, Publish(t)
  PROVE  IInv'
<1> USE DEF IInv
<1>1. /\ None \notin Tasks /\ call \in [Tasks -> CallType] /\ commands \in Seq(Tasks) /\ FrameType
      /\ control \in ControlType /\ clients \in ClientsType /\ uv \in UvType
  BY Types, TcpAssumption
<1>2. Placed(t) /\ Waits(t) /\ Uses(t) /\ Told(t)
  BY At1
<1>3. call[t].op \in {"connect", "listen"} /\ call[t].at = "woken"
  BY DEF Publish
<1>4. /\ call' \in [Tasks -> CallType]
      /\ \A v \in Tasks : v # t => call'[v] = call[v]
      /\ call'[t].op = "none" /\ call'[t].at = "idle" /\ call'[t].deadline = "none"
      /\ call'[t].outcome = "pending" /\ call'[t].status = "ok" /\ call'[t].client = FALSE
      /\ call'[t].met = FALSE
  <2>1. call' = [call EXCEPT ![t] = NoCall]
    BY DEF Publish, Idle
  <2> QED
    BY <1>1, <2>1, NoCallIs
<1>5. /\ control' = control /\ clients' = clients /\ uv' = uv
  BY DEF Publish, onLoop
<1>6. commands' = commands
  BY DEF Publish
<1>7. /\ IOnce' /\ commands' \in Seq(Tasks)
      /\ \A v \in Tasks : Queued(v)' <=> Queued(v)
  BY <1>6, <1>1, Same
<1>8. /\ FrameType'
      /\ busy' = busy /\ status'[Block] = "open" /\ users' = users /\ memory' = memory
  BY <1>1 DEF Publish, Registry!Open, FrameType
<1>9. TypeOK'
  BY <1>1, <1>4, <1>5, <1>7, <1>8, TypesNext
<1>10. IOnce'
  BY <1>7
<1>11. IPlaces'
  <2> SUFFICES ASSUME NEW x \in Tasks
               PROVE  Placed(x)'
    BY DEF IPlaces
  <2>1. Placed(x) /\ Waits(x) /\ Uses(x) /\ Told(x)
    BY At1
  <2> QED
    BY <1>3, <1>4, <1>5, <1>7, <2>1 DEF Placed, Waits
<1>12. IWaiting'
  <2> SUFFICES ASSUME NEW x \in Tasks
               PROVE  Waits(x)'
    BY DEF IWaiting
  <2>1. Placed(x) /\ Waits(x) /\ Uses(x) /\ Told(x)
    BY At1
  <2> QED
    BY <1>3, <1>4, <1>5, <1>7, <2>1 DEF Waits
<1>13. IBusy'
  BY <1>3, <1>4, <1>8 DEF IBusy, Inside
<1>14. IUse'
  <2> SUFFICES ASSUME NEW x \in Tasks
               PROVE  Uses(x)'
    BY DEF IUse
  <2>1. Placed(x) /\ Waits(x) /\ Uses(x) /\ Told(x)
    BY At1
  <2> QED
    BY <1>2, <1>3, <1>4, <2>1 DEF Uses, Alone, Opening, Leased, Exclusive
<1>15. IMemory'
  BY <1>2, <1>3, <1>8 DEF IMemory, Uses, Opening
<1>16. ILoop'
  BY <1>5 DEF ILoop
<1>17. ITimers'
  BY <1>3, <1>4, <1>5, InPlace DEF ITimers
<1>18. ITold'
  <2> SUFFICES ASSUME NEW x \in Tasks
               PROVE  Told(x)'
    BY DEF ITold
  <2>1. Placed(x) /\ Waits(x) /\ Uses(x) /\ Told(x)
    BY At1
  <2> QED
    BY <1>4, <1>5, <2>1, Names DEF Told, Results
<1>19. NoStrandedClient'
  BY <1>3, <1>4, <1>5, InPlace DEF NoStrandedClient
<1> QED
  BY <1>9, <1>10, <1>11, <1>12, <1>13, <1>14, <1>15, <1>16, <1>17,
     <1>18, <1>19

LEMMA AbandonKeeps ==
  ASSUME IInv, NEW t \in Tasks, Abandon(t)
  PROVE  IInv'
<1> USE DEF IInv
<1>1. /\ None \notin Tasks /\ call \in [Tasks -> CallType] /\ commands \in Seq(Tasks) /\ FrameType
      /\ control \in ControlType /\ clients \in ClientsType /\ uv \in UvType
  BY Types, TcpAssumption
<1>2. Placed(t) /\ Waits(t) /\ Uses(t) /\ Told(t)
  BY At1
<1>3. call[t].op \in {"connect", "listen"} /\ call[t].at = "woken"
  BY DEF Abandon
<1>4. /\ call' \in [Tasks -> CallType]
      /\ \A v \in Tasks : v # t => call'[v] = call[v]
      /\ call'[t].op = "discard" /\ call'[t].at = "waiting" /\ call'[t].deadline = "none"
      /\ call'[t].outcome = "pending" /\ call'[t].status = "ok" /\ call'[t].client = FALSE
      /\ call'[t].met = FALSE
  <2> DEFINE d == [NoCall EXCEPT !.op = "discard", !.at = "waiting"]
  <2>1. /\ d \in CallType /\ d.op = "discard" /\ d.at = "waiting" /\ d.deadline = "none"
        /\ d.outcome = "pending" /\ d.status = "ok" /\ d.client = FALSE /\ d.met = FALSE
    BY Names DEF CallType, Calls, NoCall
  <2>2. call' = [call EXCEPT ![t] = d]
    BY DEF Abandon, Submit
  <2> HIDE DEF d
  <2> QED
    BY <1>1, <2>1, <2>2
<1>5. /\ control' = control /\ clients' = clients /\ uv' = uv
  BY DEF Abandon, onLoop
<1>6. /\ IOnce' /\ commands' \in Seq(Tasks) /\ Queued(t)'
      /\ \A v \in Tasks : v # t => (Queued(v)' <=> Queued(v))
  BY <1>1, <1>2, Pushed DEF Abandon, Submit, Waits
<1>7. /\ FrameType'
      /\ busy' = busy /\ status' = status /\ users' = users /\ memory' = memory
  BY <1>1 DEF Abandon, FrameType, ofTasks, capability
<1>8. TypeOK'
  BY <1>1, <1>4, <1>5, <1>6, <1>7, TypesNext
<1>9. IOnce'
  BY <1>6
<1>10. IPlaces'
  <2> SUFFICES ASSUME NEW x \in Tasks
               PROVE  Placed(x)'
    BY DEF IPlaces
  <2>1. Placed(x) /\ Waits(x) /\ Uses(x) /\ Told(x)
    BY At1
  <2> QED
    BY <1>3, <1>4, <1>5, <1>6, <2>1 DEF Placed, Waits
<1>11. IWaiting'
  <2> SUFFICES ASSUME NEW x \in Tasks
               PROVE  Waits(x)'
    BY DEF IWaiting
  <2>1. Placed(x) /\ Waits(x) /\ Uses(x) /\ Told(x)
    BY At1
  <2> QED
    BY <1>4, <1>5, <1>6, <2>1 DEF Waits
<1>12. IBusy'
  BY <1>4, <1>7 DEF IBusy, Inside, Exclusive
<1>13. IUse'
  <2> SUFFICES ASSUME NEW x \in Tasks
               PROVE  Uses(x)'
    BY DEF IUse
  <2>1. Placed(x) /\ Waits(x) /\ Uses(x) /\ Told(x)
    BY At1
  <2> QED
    BY <1>3, <1>4, <1>7, <2>1 DEF Uses, Alone, Opening, Leased, Exclusive
<1>14. IMemory'
  BY <1>2, <1>3, <1>7 DEF IMemory, Uses, Opening
<1>15. ILoop'
  BY <1>5 DEF ILoop
<1>16. ITimers'
  BY <1>3, <1>4, <1>5, InPlace DEF ITimers
<1>17. ITold'
  <2> SUFFICES ASSUME NEW x \in Tasks
               PROVE  Told(x)'
    BY DEF ITold
  <2>1. Placed(x) /\ Waits(x) /\ Uses(x) /\ Told(x)
    BY At1
  <2> QED
    BY <1>4, <1>5, <2>1, Names DEF Told, Results
<1>18. NoStrandedClient'
  BY <1>3, <1>4, <1>5, InPlace DEF NoStrandedClient
<1> QED
  BY <1>8, <1>9, <1>10, <1>11, <1>12, <1>13, <1>14, <1>15, <1>16, <1>17,
     <1>18

LEMMA DiscardKeeps ==
  ASSUME IInv, NEW t \in Tasks, Discard(t)
  PROVE  IInv'
<1> USE DEF IInv
<1>1. /\ None \notin Tasks /\ call \in [Tasks -> CallType] /\ commands \in Seq(Tasks) /\ FrameType
      /\ control \in ControlType /\ clients \in ClientsType /\ uv \in UvType
  BY Types, TcpAssumption
<1>2. Placed(t) /\ Waits(t) /\ Uses(t) /\ Told(t)
  BY At1
<1>3. call[t].op = "discard" /\ call[t].at = "woken"
  BY DEF Discard
<1>4. /\ call' \in [Tasks -> CallType]
      /\ \A v \in Tasks : v # t => call'[v] = call[v]
      /\ call'[t].op = "none" /\ call'[t].at = "idle" /\ call'[t].deadline = "none"
      /\ call'[t].outcome = "pending" /\ call'[t].status = "ok" /\ call'[t].client = FALSE
      /\ call'[t].met = FALSE
  <2>1. call' = [call EXCEPT ![t] = NoCall]
    BY DEF Discard, Idle
  <2> QED
    BY <1>1, <2>1, NoCallIs
<1>5. /\ control' = control /\ clients' = clients /\ uv' = uv
  BY DEF Discard, onLoop
<1>6. commands' = commands
  BY DEF Discard
<1>7. /\ IOnce' /\ commands' \in Seq(Tasks)
      /\ \A v \in Tasks : Queued(v)' <=> Queued(v)
  BY <1>6, <1>1, Same
<1>8. /\ FrameType'
      /\ busy' = busy /\ status' = status /\ users' = users /\ memory' = "freed"
  BY <1>1 DEF Discard, FrameType, capability
<1>9. TypeOK'
  BY <1>1, <1>4, <1>5, <1>7, <1>8, TypesNext
<1>10. IOnce'
  BY <1>7
<1>11. IPlaces'
  <2> SUFFICES ASSUME NEW x \in Tasks
               PROVE  Placed(x)'
    BY DEF IPlaces
  <2>1. Placed(x) /\ Waits(x) /\ Uses(x) /\ Told(x)
    BY At1
  <2> QED
    BY <1>3, <1>4, <1>5, <1>7, <2>1 DEF Placed, Waits
<1>12. IWaiting'
  <2> SUFFICES ASSUME NEW x \in Tasks
               PROVE  Waits(x)'
    BY DEF IWaiting
  <2>1. Placed(x) /\ Waits(x) /\ Uses(x) /\ Told(x)
    BY At1
  <2> QED
    BY <1>3, <1>4, <1>5, <1>7, <2>1 DEF Waits
<1>13. IBusy'
  BY <1>3, <1>4, <1>8 DEF IBusy, Inside
<1>14. IUse'
  <2> SUFFICES ASSUME NEW x \in Tasks
               PROVE  Uses(x)'
    BY DEF IUse
  <2>1. Placed(x) /\ Waits(x) /\ Uses(x) /\ Told(x)
    BY At1
  <2> QED
    BY <1>3, <1>4, <1>8, <2>1 DEF Uses, Alone, Opening, Leased, Exclusive
<1>15. IMemory'
  BY <1>2, <1>3, <1>4, <1>5, <1>8
     DEF IMemory, NobodyCalls, Uses, Opening, Alone, Told
<1>16. ILoop'
  BY <1>5 DEF ILoop
<1>17. ITimers'
  BY <1>3, <1>4, <1>5, InPlace DEF ITimers
<1>18. ITold'
  <2> SUFFICES ASSUME NEW x \in Tasks
               PROVE  Told(x)'
    BY DEF ITold
  <2>1. Placed(x) /\ Waits(x) /\ Uses(x) /\ Told(x)
    BY At1
  <2> QED
    BY <1>4, <1>5, <2>1, Names DEF Told, Results
<1>19. NoStrandedClient'
  BY <1>3, <1>4, <1>5, InPlace DEF NoStrandedClient
<1> QED
  BY <1>9, <1>10, <1>11, <1>12, <1>13, <1>14, <1>15, <1>16, <1>17,
     <1>18, <1>19

\* A write goes on with its next chunk.
LEMMA NextChunkKeeps ==
  ASSUME IInv, NEW t \in Tasks, NextChunk(t)
  PROVE  IInv'
<1> USE DEF IInv
<1>1. /\ None \notin Tasks /\ call \in [Tasks -> CallType] /\ commands \in Seq(Tasks) /\ FrameType
      /\ control \in ControlType /\ clients \in ClientsType /\ uv \in UvType
  BY Types, TcpAssumption
<1>2. Placed(t) /\ Waits(t) /\ Uses(t) /\ Told(t)
  BY At1
<1>3. call[t].at = "woken" /\ call[t].op = "write" /\ call[t].status = "ok" /\ call[t].left > 1
  BY DEF NextChunk, MoreToWrite
<1>4. call[t].left \in Nat
  BY <1>1 DEF CallType
<1>5. call[t].left - 1 \in Nat
  BY <1>3, <1>4
<1>6. /\ call' \in [Tasks -> CallType]
      /\ \A v \in Tasks : v # t => call'[v] = call[v]
      /\ call'[t].op = call[t].op /\ call'[t].at = "waiting"
      /\ call'[t].deadline = call[t].deadline /\ call'[t].outcome = "pending"
      /\ call'[t].status = call[t].status /\ call'[t].client = call[t].client
      /\ call'[t].met = call[t].met
  <2> DEFINE d == [call[t] EXCEPT !.left = @ - 1, !.outcome = "pending", !.at = "waiting"]
  <2>1. /\ d \in CallType /\ d.op = call[t].op /\ d.at = "waiting"
        /\ d.deadline = call[t].deadline /\ d.outcome = "pending" /\ d.status = call[t].status
        /\ d.client = call[t].client /\ d.met = call[t].met
    BY <1>1, <1>3, <1>5 DEF CallType
  <2>2. call' = [call EXCEPT ![t] = d]
    BY DEF NextChunk, Submit
  <2> HIDE DEF d
  <2> QED
    BY <1>1, <2>1, <2>2
<1>7. /\ control' = control /\ clients' = clients /\ uv' = uv
  BY DEF NextChunk, onLoop
<1>8. /\ IOnce' /\ commands' \in Seq(Tasks) /\ Queued(t)'
      /\ \A v \in Tasks : v # t => (Queued(v)' <=> Queued(v))
  BY <1>1, <1>2, Pushed DEF NextChunk, Submit, Waits
<1>9. /\ FrameType'
      /\ busy' = busy /\ status' = status /\ users' = users /\ memory' = memory
  BY <1>1 DEF NextChunk, FrameType, ofTasks, capability
<1>10. TypeOK'
  BY <1>1, <1>6, <1>7, <1>8, <1>9, TypesNext
<1>11. IOnce'
  BY <1>8
<1>12. IPlaces'
  <2> SUFFICES ASSUME NEW x \in Tasks
               PROVE  Placed(x)'
    BY DEF IPlaces
  <2>1. Placed(x) /\ Waits(x) /\ Uses(x) /\ Told(x)
    BY At1
  <2> QED
    BY <1>3, <1>6, <1>7, <1>8, <2>1 DEF Placed, Waits
<1>13. IWaiting'
  <2> SUFFICES ASSUME NEW x \in Tasks
               PROVE  Waits(x)'
    BY DEF IWaiting
  <2>1. Placed(x) /\ Waits(x) /\ Uses(x) /\ Told(x)
    BY At1
  <2> QED
    BY <1>6, <1>7, <1>8, <2>1 DEF Waits
<1>14. IBusy'
  BY <1>3, <1>6, <1>9 DEF IBusy, Inside
<1>15. IUse'
  <2> SUFFICES ASSUME NEW x \in Tasks
               PROVE  Uses(x)'
    BY DEF IUse
  <2>1. Placed(x) /\ Waits(x) /\ Uses(x) /\ Told(x)
    BY At1
  <2> QED
    BY <1>2, <1>3, <1>6, <1>9, <2>1 DEF Uses, Leased, Exclusive
<1>16. IMemory'
  BY <1>2, <1>3, <1>6, <1>7, <1>9 DEF IMemory, Uses, Leased, Exclusive
<1>17. ILoop'
  BY <1>7 DEF ILoop
<1>18. ITimers'
  BY <1>6, <1>7, InPlace DEF ITimers
<1>19. ITold'
  <2> SUFFICES ASSUME NEW x \in Tasks
               PROVE  Told(x)'
    BY DEF ITold
  <2>1. Placed(x) /\ Waits(x) /\ Uses(x) /\ Told(x)
    BY At1
  <2> QED
    BY <1>6, <1>7, <2>1 DEF Told, Results
<1>20. NoStrandedClient'
  BY <1>6, <1>7, InPlace DEF NoStrandedClient
<1> QED
  BY <1>10, <1>11, <1>12, <1>13, <1>14, <1>15, <1>16, <1>17, <1>18,
     <1>19, <1>20

\* A call returns: it clears its flag and releases its lease.
LEMMA FinishKeeps ==
  ASSUME IInv, NEW t \in Tasks, Finish(t)
  PROVE  IInv'
<1> USE DEF IInv
<1>1. /\ None \notin Tasks /\ call \in [Tasks -> CallType] /\ commands \in Seq(Tasks) /\ FrameType
      /\ control \in ControlType /\ clients \in ClientsType /\ uv \in UvType
  BY Types, TcpAssumption
<1>2. Placed(t) /\ Waits(t) /\ Uses(t) /\ Told(t)
  BY At1
<1>3. call[t].at = "woken" /\ call[t].op \notin Opening
  BY DEF Finish, Opening
<1>4. /\ call' \in [Tasks -> CallType]
      /\ \A v \in Tasks : v # t => call'[v] = call[v]
      /\ call'[t].op = "none" /\ call'[t].at = "idle" /\ call'[t].deadline = "none"
      /\ call'[t].outcome = "pending" /\ call'[t].status = "ok" /\ call'[t].client = FALSE
      /\ call'[t].met = FALSE
  <2>1. call' = [call EXCEPT ![t] = NoCall]
    BY DEF Finish, Idle
  <2> QED
    BY <1>1, <2>1, NoCallIs
<1>5. /\ control' = control /\ clients' = clients /\ uv' = uv
  BY DEF Finish, onLoop
<1>6. commands' = commands
  BY DEF Finish
<1>7. /\ IOnce' /\ commands' \in Seq(Tasks)
      /\ \A v \in Tasks : Queued(v)' <=> Queued(v)
  BY <1>6, <1>1, Same
<1>8. /\ FrameType'
      /\ \A op \in Exclusive : busy'[op] = (busy[op] /\ op # call[t].op)
      /\ status' = status /\ users'[Block] = users[Block] \ {t} /\ memory' = memory
  BY <1>1 DEF Finish, Registry!Leave, FrameType
<1>9. TypeOK'
  BY <1>1, <1>4, <1>5, <1>7, <1>8, TypesNext
<1>10. IOnce'
  BY <1>7
<1>11. IPlaces'
  <2> SUFFICES ASSUME NEW x \in Tasks
               PROVE  Placed(x)'
    BY DEF IPlaces
  <2>1. Placed(x) /\ Waits(x) /\ Uses(x) /\ Told(x)
    BY At1
  <2> QED
    BY <1>3, <1>4, <1>5, <1>7, <2>1 DEF Placed, Waits
<1>12. IWaiting'
  <2> SUFFICES ASSUME NEW x \in Tasks
               PROVE  Waits(x)'
    BY DEF IWaiting
  <2>1. Placed(x) /\ Waits(x) /\ Uses(x) /\ Told(x)
    BY At1
  <2> QED
    BY <1>3, <1>4, <1>5, <1>7, <2>1 DEF Waits
<1>13. IBusy'
  BY <1>1, <1>2, <1>3, <1>4, <1>5, <1>7, <1>8, ZenonT(60) DEF IBusy, Inside, Exclusive
<1>14. IUse'
  <2> SUFFICES ASSUME NEW x \in Tasks
               PROVE  Uses(x)'
    BY DEF IUse
  <2>1. Placed(x) /\ Waits(x) /\ Uses(x) /\ Told(x)
    BY At1
  <2> QED
    BY <1>4, <1>8, <2>1 DEF Uses, Alone, Opening, Leased, Exclusive
<1>15. IMemory'
  BY <1>2, <1>3, <1>4, <1>5, <1>8 DEF IMemory, NobodyCalls, Told
<1>16. ILoop'
  BY <1>5 DEF ILoop
<1>17. ITimers'
  BY <1>3, <1>4, <1>5, InPlace DEF ITimers
<1>18. ITold'
  <2> SUFFICES ASSUME NEW x \in Tasks
               PROVE  Told(x)'
    BY DEF ITold
  <2>1. Placed(x) /\ Waits(x) /\ Uses(x) /\ Told(x)
    BY At1
  <2> QED
    BY <1>4, <1>5, <2>1, Names DEF Told, Results
<1>19. NoStrandedClient'
  BY <1>3, <1>4, <1>5, InPlace DEF NoStrandedClient
<1> QED
  BY <1>9, <1>10, <1>11, <1>12, <1>13, <1>14, <1>15, <1>16, <1>17,
     <1>18, <1>19

\* hex_handle_recycle frees what nobody uses.
LEMMA RecycleKeeps ==
  ASSUME IInv, Recycle
  PROVE  IInv'
<1> USE DEF IInv
<1>1. /\ None \notin Tasks /\ call \in [Tasks -> CallType] /\ commands \in Seq(Tasks) /\ FrameType
      /\ control \in ControlType /\ clients \in ClientsType /\ uv \in UvType
  BY Types, TcpAssumption
<1>2. status[Block] = "closing" /\ users[Block] = {}
  BY DEF Recycle, Registry!Free
<1>3. control.state = "closed" /\ NobodyCalls
  BY <1>1, <1>2
     DEF IMemory, IUse, Uses, NobodyCalls, CallType, Calls, Opening, Leased
<1>4. call' = call
  BY DEF Recycle
<1>5. /\ control' = control /\ clients' = clients /\ uv' = uv
  BY DEF Recycle, onLoop
<1>6. commands' = commands
  BY DEF Recycle
<1>7. /\ IOnce' /\ commands' \in Seq(Tasks)
      /\ \A v \in Tasks : Queued(v)' <=> Queued(v)
  BY <1>6, <1>1, Same
<1>8. /\ FrameType'
      /\ busy' = busy /\ status'[Block] = "freed" /\ users' = users /\ memory' = "freed"
  BY <1>1 DEF Recycle, Registry!Free, FrameType, ofTasks, capability
<1>9. TypeOK'
  BY <1>1, <1>4, <1>5, <1>7, <1>8, TypesNext
<1>10. IOnce'
  BY <1>7
<1>11. IPlaces'
  <2> SUFFICES ASSUME NEW x \in Tasks
               PROVE  Placed(x)'
    BY DEF IPlaces
  <2>1. Placed(x) /\ Waits(x) /\ Uses(x) /\ Told(x)
    BY At1
  <2> QED
    BY <1>4, <1>5, <1>7, <2>1 DEF Placed
<1>12. IWaiting'
  <2> SUFFICES ASSUME NEW x \in Tasks
               PROVE  Waits(x)'
    BY DEF IWaiting
  <2>1. Placed(x) /\ Waits(x) /\ Uses(x) /\ Told(x)
    BY At1
  <2> QED
    BY <1>4, <1>5, <1>7, <2>1 DEF Waits
<1>13. IBusy'
  BY <1>4, <1>8 DEF IBusy, Inside
<1>14. IUse'
  <2> SUFFICES ASSUME NEW x \in Tasks
               PROVE  Uses(x)'
    BY DEF IUse
  <2>1. Placed(x) /\ Waits(x) /\ Uses(x) /\ Told(x)
    BY At1
  <2> QED
    BY <1>2, <1>4, <2>1 DEF Uses, Leased
<1>15. IMemory'
  BY <1>3, <1>4, <1>5, <1>8
     DEF IMemory, NobodyCalls, Uses, Opening, Leased, Exclusive, Alone, Told
<1>16. ILoop'
  BY <1>5 DEF ILoop
<1>17. ITimers'
  BY <1>4, <1>5 DEF ITimers
<1>18. ITold'
  <2> SUFFICES ASSUME NEW x \in Tasks
               PROVE  Told(x)'
    BY DEF ITold
  <2>1. Placed(x) /\ Waits(x) /\ Uses(x) /\ Told(x)
    BY At1
  <2> QED
    BY <1>4, <1>5, <2>1 DEF Told, Results
<1>19. NoStrandedClient'
  BY <1>4, <1>5 DEF NoStrandedClient
<1> QED
  BY <1>9, <1>10, <1>11, <1>12, <1>13, <1>14, <1>15, <1>16, <1>17,
     <1>18, <1>19

\* hex_tcp_connect_start, hex_tcp_listen_start.
LEMMA ConnectStartRequestKeeps ==
  ASSUME IInv, NEW t \in Tasks, ConnectStart(t), Request(t) /\ UNCHANGED call
  PROVE  IInv'
<1> USE DEF IInv
<1>1. /\ None \notin Tasks /\ call \in [Tasks -> CallType] /\ commands \in Seq(Tasks) /\ FrameType
      /\ control \in ControlType /\ clients \in ClientsType /\ uv \in UvType
  BY Types, TcpAssumption
<1>2. Placed(t) /\ Waits(t) /\ Uses(t) /\ Told(t)
  BY At1
<1>3. commands # << >> /\ t = Head(commands) /\ commands' = Tail(commands)
  BY DEF ConnectStart, Starts
<1>4. /\ IOnce' /\ commands' \in Seq(Tasks) /\ Queued(t) /\ ~Queued(t)'
      /\ \A v \in Tasks : v # t => (Queued(v)' <=> Queued(v))
  BY <1>3, <1>1, Popped
<1>5. call[t].op = "connect"
  BY DEF ConnectStart, Starts, StartsOpen
<1>6. call' = call
  OBVIOUS
<1>7. /\ control' = control /\ clients' = clients /\ uv' \in UvType /\ uv'.reading = uv.reading
      /\ uv'.listening = uv.listening /\ uv'.requests = uv.requests \cup {t}
      /\ uv'.closing = uv.closing
  BY <1>1 DEF ConnectStart, Request, UvType
<1>8. /\ FrameType'
      /\ busy' = busy /\ status' = status /\ users' = users /\ memory' = memory
  BY <1>1 DEF ConnectStart, FrameType, ofTasks, capability
<1>9. TypeOK'
  BY <1>1, <1>4, <1>7, <1>8, TypesNext
<1>10. IOnce'
  BY <1>4
<1>11. IPlaces'
  <2> SUFFICES ASSUME NEW x \in Tasks
               PROVE  Placed(x)'
    BY DEF IPlaces
  <2>1. Placed(x) /\ Waits(x) /\ Uses(x) /\ Told(x)
    BY At1
  <2> QED
    BY <1>4, <1>5, <1>7, <2>1 DEF Placed
<1>12. IWaiting'
  <2> SUFFICES ASSUME NEW x \in Tasks
               PROVE  Waits(x)'
    BY DEF IWaiting
  <2>1. Placed(x) /\ Waits(x) /\ Uses(x) /\ Told(x)
    BY At1
  <2> QED
    BY <1>4, <1>7, <2>1 DEF Waits
<1>13. IBusy'
  <2>1. \A v \in Tasks : \A op \in Exclusive : Inside(v, op)' =>
          Inside(v, op) /\ call'[v].met = call[v].met
    BY DEF Inside
  <2>2. ASSUME NEW v \in Tasks, NEW op \in Exclusive, Inside(v, op)', ~call'[v].met,
               call'[v].at # "passed"
        PROVE  busy'[op]
    BY <1>8, <2>1, <2>2 DEF IBusy
  <2> QED
    BY <2>1, <2>2 DEF IBusy
<1>14. IUse'
  <2> SUFFICES ASSUME NEW x \in Tasks
               PROVE  Uses(x)'
    BY DEF IUse
  <2>1. Placed(x) /\ Waits(x) /\ Uses(x) /\ Told(x)
    BY At1
  <2> QED
    BY <1>8, <2>1 DEF Uses, Alone
<1>15. IMemory'
  BY <1>2, <1>5, <1>8 DEF IMemory, Uses, Opening
<1>16. ILoop'
  BY <1>7 DEF ILoop
<1>17. ITimers'
  BY <1>7 DEF ITimers
<1>18. ITold'
  <2> SUFFICES ASSUME NEW x \in Tasks
               PROVE  Told(x)'
    BY DEF ITold
  <2>1. Placed(x) /\ Waits(x) /\ Uses(x) /\ Told(x)
    BY At1
  <2> QED
    BY <1>7, <2>1 DEF Told, Results
<1>19. NoStrandedClient'
  BY <1>7 DEF NoStrandedClient
<1> QED
  BY <1>9, <1>10, <1>11, <1>12, <1>13, <1>14, <1>15, <1>16, <1>17,
     <1>18, <1>19

LEMMA ConnectStartFailKeeps ==
  ASSUME IInv, NEW t \in Tasks, ConnectStart(t),
         Answer(t, "failed") /\ UNCHANGED uv
  PROVE  IInv'
<1> USE DEF IInv
<1>1. /\ None \notin Tasks /\ call \in [Tasks -> CallType] /\ commands \in Seq(Tasks) /\ FrameType
      /\ control \in ControlType /\ clients \in ClientsType /\ uv \in UvType
  BY Types, TcpAssumption
<1>2. Placed(t) /\ Waits(t) /\ Uses(t) /\ Told(t)
  BY At1
<1>3. commands # << >> /\ t = Head(commands) /\ commands' = Tail(commands)
  BY DEF ConnectStart, Starts
<1>4. /\ IOnce' /\ commands' \in Seq(Tasks) /\ Queued(t) /\ ~Queued(t)'
      /\ \A v \in Tasks : v # t => (Queued(v)' <=> Queued(v))
  BY <1>3, <1>1, Popped
<1>5. call[t].op = "connect"
  BY DEF ConnectStart, Starts, StartsOpen
<1>6. "failed" \in Statuses
  BY Names DEF Results
<1>7. /\ call' \in [Tasks -> CallType]
      /\ \A v \in Tasks : v # t => call'[v] = call[v]
      /\ call'[t].op = call[t].op /\ call'[t].at = "woken"
      /\ call'[t].deadline = call[t].deadline /\ call'[t].outcome = call[t].outcome
      /\ call'[t].status = "failed" /\ call'[t].client = call[t].client
      /\ call'[t].met = call[t].met
  <2>1. PICK r0 \in CallType : r0 = call[t]
    BY <1>1
  <2> DEFINE d == [r0 EXCEPT !.at = "woken", !.status = "failed"]
  <2>2. /\ d \in CallType
        /\ d.op = r0.op /\ d.at = "woken" /\ d.deadline = r0.deadline /\ d.outcome = r0.outcome
        /\ d.status = "failed" /\ d.client = r0.client /\ d.met = r0.met
    BY <1>6 DEF CallType
  <2>3. call' = [call EXCEPT ![t] = d]
    BY <2>1 DEF Answer
  <2> HIDE DEF d
  <2> QED
    BY <1>1, <2>1, <2>2, <2>3
<1>8. /\ control' = control /\ clients' = clients /\ uv' = uv
  BY DEF ConnectStart
<1>9. /\ FrameType'
      /\ busy' = busy /\ status' = status /\ users' = users /\ memory' = memory
  BY <1>1 DEF ConnectStart, FrameType, ofTasks, capability
<1>10. TypeOK'
  BY <1>1, <1>4, <1>7, <1>8, <1>9, TypesNext
<1>11. IOnce'
  BY <1>4
<1>12. IPlaces'
  <2> SUFFICES ASSUME NEW x \in Tasks
               PROVE  Placed(x)'
    BY DEF IPlaces
  <2>1. Placed(x) /\ Waits(x) /\ Uses(x) /\ Told(x)
    BY At1
  <2> QED
    BY <1>4, <1>7, <1>8, <2>1 DEF Placed
<1>13. IWaiting'
  <2> SUFFICES ASSUME NEW x \in Tasks
               PROVE  Waits(x)'
    BY DEF IWaiting
  <2>1. Placed(x) /\ Waits(x) /\ Uses(x) /\ Told(x)
    BY At1
  <2> QED
    BY <1>4, <1>7, <1>8, <2>1 DEF Waits, Placed
<1>14. IBusy'
  <2>1. \A v \in Tasks : \A op \in Exclusive : Inside(v, op)' =>
          Inside(v, op) /\ call'[v].met = call[v].met
    BY <1>5, <1>7 DEF Inside, Exclusive
  <2>2. ASSUME NEW v \in Tasks, NEW op \in Exclusive, Inside(v, op)', ~call'[v].met,
               call'[v].at # "passed"
        PROVE  busy'[op]
    BY <1>2, <1>4, <1>7, <1>9, <2>1, <2>2 DEF IBusy, Waits
  <2> QED
    BY <2>1, <2>2 DEF IBusy
<1>15. IUse'
  <2> SUFFICES ASSUME NEW x \in Tasks
               PROVE  Uses(x)'
    BY DEF IUse
  <2>1. Placed(x) /\ Waits(x) /\ Uses(x) /\ Told(x)
    BY At1
  <2> QED
    BY <1>5, <1>7, <1>9, <2>1 DEF Uses, Alone
<1>16. IMemory'
  BY <1>2, <1>5, <1>9 DEF IMemory, Uses, Opening
<1>17. ILoop'
  BY <1>8 DEF ILoop
<1>18. ITimers'
  BY <1>7, <1>8, InPlace DEF ITimers
<1>19. ITold'
  <2> SUFFICES ASSUME NEW x \in Tasks
               PROVE  Told(x)'
    BY DEF ITold
  <2>1. Placed(x) /\ Waits(x) /\ Uses(x) /\ Told(x)
    BY At1
  <2> QED
    BY <1>5, <1>7, <1>8, <2>1, Names DEF Told, Results
<1>20. NoStrandedClient'
  BY <1>7, <1>8, InPlace DEF NoStrandedClient
<1> QED
  BY <1>10, <1>11, <1>12, <1>13, <1>14, <1>15, <1>16, <1>17, <1>18,
     <1>19, <1>20

LEMMA ListenStartKeeps ==
  ASSUME IInv, NEW t \in Tasks, NEW result \in Results, ListenStart(t, result)
  PROVE  IInv'
<1> USE DEF IInv
<1>1. /\ None \notin Tasks /\ call \in [Tasks -> CallType] /\ commands \in Seq(Tasks) /\ FrameType
      /\ control \in ControlType /\ clients \in ClientsType /\ uv \in UvType
  BY Types, TcpAssumption
<1>2. Placed(t) /\ Waits(t) /\ Uses(t) /\ Told(t)
  BY At1
<1>3. commands # << >> /\ t = Head(commands) /\ commands' = Tail(commands)
  BY DEF ListenStart, Starts
<1>4. /\ IOnce' /\ commands' \in Seq(Tasks) /\ Queued(t) /\ ~Queued(t)'
      /\ \A v \in Tasks : v # t => (Queued(v)' <=> Queued(v))
  BY <1>3, <1>1, Popped
<1>5. call[t].op = "listen"
  BY DEF ListenStart, Starts, StartsOpen
<1>6. result \in Statuses
  BY Names DEF Results
<1>7. /\ call' \in [Tasks -> CallType]
      /\ \A v \in Tasks : v # t => call'[v] = call[v]
      /\ call'[t].op = call[t].op /\ call'[t].at = "woken"
      /\ call'[t].deadline = call[t].deadline /\ call'[t].outcome = call[t].outcome
      /\ call'[t].status = result /\ call'[t].client = call[t].client
      /\ call'[t].met = call[t].met
  <2>1. PICK r0 \in CallType : r0 = call[t]
    BY <1>1
  <2> DEFINE d == [r0 EXCEPT !.at = "woken", !.status = result]
  <2>2. /\ d \in CallType
        /\ d.op = r0.op /\ d.at = "woken" /\ d.deadline = r0.deadline /\ d.outcome = r0.outcome
        /\ d.status = result /\ d.client = r0.client /\ d.met = r0.met
    BY <1>6 DEF CallType
  <2>3. call' = [call EXCEPT ![t] = d]
    BY <2>1 DEF ListenStart, Answer
  <2> HIDE DEF d
  <2> QED
    BY <1>1, <2>1, <2>2, <2>3
<1>8. /\ control' = control /\ clients' = clients /\ uv' \in UvType /\ uv'.reading = uv.reading
      /\ uv'.requests = uv.requests /\ uv'.closing = uv.closing
  BY <1>1 DEF ListenStart, UvType
<1>9. /\ FrameType'
      /\ busy' = busy /\ status' = status /\ users' = users /\ memory' = memory
  BY <1>1 DEF ListenStart, FrameType, ofTasks, capability
<1>10. TypeOK'
  BY <1>1, <1>4, <1>7, <1>8, <1>9, TypesNext
<1>11. IOnce'
  BY <1>4
<1>12. IPlaces'
  <2> SUFFICES ASSUME NEW x \in Tasks
               PROVE  Placed(x)'
    BY DEF IPlaces
  <2>1. Placed(x) /\ Waits(x) /\ Uses(x) /\ Told(x)
    BY At1
  <2> QED
    BY <1>4, <1>7, <1>8, <2>1 DEF Placed
<1>13. IWaiting'
  <2> SUFFICES ASSUME NEW x \in Tasks
               PROVE  Waits(x)'
    BY DEF IWaiting
  <2>1. Placed(x) /\ Waits(x) /\ Uses(x) /\ Told(x)
    BY At1
  <2> QED
    BY <1>4, <1>7, <1>8, <2>1 DEF Waits, Placed
<1>14. IBusy'
  <2>1. \A v \in Tasks : \A op \in Exclusive : Inside(v, op)' =>
          Inside(v, op) /\ call'[v].met = call[v].met
    BY <1>5, <1>7 DEF Inside, Exclusive
  <2>2. ASSUME NEW v \in Tasks, NEW op \in Exclusive, Inside(v, op)', ~call'[v].met,
               call'[v].at # "passed"
        PROVE  busy'[op]
    BY <1>2, <1>4, <1>7, <1>9, <2>1, <2>2 DEF IBusy, Waits
  <2> QED
    BY <2>1, <2>2 DEF IBusy
<1>15. IUse'
  <2> SUFFICES ASSUME NEW x \in Tasks
               PROVE  Uses(x)'
    BY DEF IUse
  <2>1. Placed(x) /\ Waits(x) /\ Uses(x) /\ Told(x)
    BY At1
  <2> QED
    BY <1>5, <1>7, <1>9, <2>1 DEF Uses, Alone, Opening
<1>16. IMemory'
  BY <1>2, <1>5, <1>9 DEF IMemory, Uses, Opening
<1>17. ILoop'
  BY <1>8 DEF ILoop
<1>18. ITimers'
  BY <1>7, <1>8, InPlace DEF ITimers
<1>19. ITold'
  <2> SUFFICES ASSUME NEW x \in Tasks
               PROVE  Told(x)'
    BY DEF ITold
  <2>1. Placed(x) /\ Waits(x) /\ Uses(x) /\ Told(x)
    BY At1
  <2> QED
    BY <1>5, <1>7, <1>8, <2>1, Names DEF Told, Results
<1>20. NoStrandedClient'
  BY <1>7, <1>8, InPlace DEF NoStrandedClient
<1> QED
  BY <1>10, <1>11, <1>12, <1>13, <1>14, <1>15, <1>16, <1>17, <1>18,
     <1>19, <1>20

\* A command that starts after the close.
LEMMA StartClosedReadKeeps ==
  ASSUME IInv, NEW t \in Tasks, StartClosed(t), call[t].op = "read"
  PROVE  IInv'
<1> USE DEF IInv
<1>1. /\ None \notin Tasks /\ call \in [Tasks -> CallType] /\ commands \in Seq(Tasks) /\ FrameType
      /\ control \in ControlType /\ clients \in ClientsType /\ uv \in UvType
  BY Types, TcpAssumption
<1>2. Placed(t) /\ Waits(t) /\ Uses(t) /\ Told(t)
  BY At1
<1>3. commands # << >> /\ t = Head(commands) /\ commands' = Tail(commands)
  BY DEF StartClosed, Starts, StartsOpen
<1>4. /\ IOnce' /\ commands' \in Seq(Tasks) /\ Queued(t) /\ ~Queued(t)'
      /\ \A v \in Tasks : v # t => (Queued(v)' <=> Queued(v))
  BY <1>3, <1>1, Popped
<1>5. call[t].op = "read" /\ control.state # "open"
  BY DEF StartClosed
<1>6. /\ call' \in [Tasks -> CallType]
      /\ \A v \in Tasks : v # t => call'[v] = call[v]
      /\ call'[t].op = call[t].op /\ call'[t].at = "woken"
      /\ call'[t].deadline = call[t].deadline /\ call'[t].outcome = "closed"
      /\ call'[t].status = call[t].status /\ call'[t].client = call[t].client
      /\ call'[t].met = call[t].met
  <2>1. PICK r0 \in CallType : r0 = call[t]
    BY <1>1
  <2> DEFINE d == [r0 EXCEPT !.at = "woken", !.outcome = "closed"]
  <2>2. /\ d \in CallType
        /\ d.op = r0.op /\ d.at = "woken" /\ d.deadline = r0.deadline /\ d.outcome = "closed"
        /\ d.status = r0.status /\ d.client = r0.client /\ d.met = r0.met
    BY DEF CallType
  <2>3. call' = [call EXCEPT ![t] = d]
    BY <2>1 DEF StartClosed
  <2> HIDE DEF d
  <2> QED
    BY <1>1, <2>1, <2>2, <2>3
<1>7. /\ control' = control /\ clients' = clients /\ uv' = uv
  BY DEF StartClosed, onLoop
<1>8. /\ FrameType'
      /\ busy' = busy /\ status' = status /\ users' = users /\ memory' = memory
  BY <1>1 DEF StartClosed, FrameType, ofTasks, capability
<1>9. TypeOK'
  BY <1>1, <1>4, <1>6, <1>7, <1>8, TypesNext
<1>10. IOnce'
  BY <1>4
<1>11. IPlaces'
  <2> SUFFICES ASSUME NEW x \in Tasks
               PROVE  Placed(x)'
    BY DEF IPlaces
  <2>1. Placed(x) /\ Waits(x) /\ Uses(x) /\ Told(x)
    BY At1
  <2> QED
    BY <1>4, <1>6, <1>7, <2>1 DEF Placed
<1>12. IWaiting'
  <2> SUFFICES ASSUME NEW x \in Tasks
               PROVE  Waits(x)'
    BY DEF IWaiting
  <2>1. Placed(x) /\ Waits(x) /\ Uses(x) /\ Told(x)
    BY At1
  <2> QED
    BY <1>4, <1>6, <1>7, <2>1 DEF Waits, Placed
<1>13. IBusy'
  <2>1. \A v \in Tasks : \A op \in Exclusive : Inside(v, op)' =>
          Inside(v, op) /\ call'[v].met = call[v].met
    BY <1>2, <1>4, <1>6 DEF Inside, Waits
  <2>2. ASSUME NEW v \in Tasks, NEW op \in Exclusive, Inside(v, op)', ~call'[v].met,
               call'[v].at # "passed"
        PROVE  busy'[op]
    BY <1>2, <1>4, <1>6, <1>8, <2>1, <2>2 DEF IBusy, Waits
  <2> QED
    BY <2>1, <2>2 DEF IBusy
<1>14. IUse'
  <2> SUFFICES ASSUME NEW x \in Tasks
               PROVE  Uses(x)'
    BY DEF IUse
  <2>1. Placed(x) /\ Waits(x) /\ Uses(x) /\ Told(x)
    BY At1
  <2> QED
    BY <1>2, <1>6, <1>8, <2>1 DEF Uses, Leased, Exclusive
<1>15. IMemory'
  BY <1>2, <1>6, <1>7, <1>8 DEF IMemory, Uses, Leased, Exclusive
<1>16. ILoop'
  BY <1>7 DEF ILoop
<1>17. ITimers'
  BY <1>6, <1>7, InPlace DEF ITimers
<1>18. ITold'
  <2> SUFFICES ASSUME NEW x \in Tasks
               PROVE  Told(x)'
    BY DEF ITold
  <2>1. Placed(x) /\ Waits(x) /\ Uses(x) /\ Told(x)
    BY At1
  <2> QED
    BY <1>5, <1>6, <1>7, <2>1 DEF Told, Results
<1>19. NoStrandedClient'
  BY <1>6, <1>7, InPlace DEF NoStrandedClient
<1> QED
  BY <1>9, <1>10, <1>11, <1>12, <1>13, <1>14, <1>15, <1>16, <1>17,
     <1>18, <1>19

LEMMA StartClosedOtherKeeps ==
  ASSUME IInv, NEW t \in Tasks, StartClosed(t), call[t].op # "read"
  PROVE  IInv'
<1> USE DEF IInv
<1>1. /\ None \notin Tasks /\ call \in [Tasks -> CallType] /\ commands \in Seq(Tasks) /\ FrameType
      /\ control \in ControlType /\ clients \in ClientsType /\ uv \in UvType
  BY Types, TcpAssumption
<1>2. Placed(t) /\ Waits(t) /\ Uses(t) /\ Told(t)
  BY At1
<1>3. commands # << >> /\ t = Head(commands) /\ commands' = Tail(commands)
  BY DEF StartClosed, Starts
<1>4. /\ IOnce' /\ commands' \in Seq(Tasks) /\ Queued(t) /\ ~Queued(t)'
      /\ \A v \in Tasks : v # t => (Queued(v)' <=> Queued(v))
  BY <1>3, <1>1, Popped
<1>5. call[t].op \in {"write", "shutdown", "no_delay", "accept"} /\ control.state # "open"
  BY DEF StartClosed, Starts, StartsOpen
<1>6. PICK r \in {"ok", "closed"} : r = IF call[t].op = "accept" THEN "ok" ELSE "closed"
  OBVIOUS
<1>7. r \in Statuses
  BY Names DEF Results
<1>8. /\ call' \in [Tasks -> CallType]
      /\ \A v \in Tasks : v # t => call'[v] = call[v]
      /\ call'[t].op = call[t].op /\ call'[t].at = "woken"
      /\ call'[t].deadline = call[t].deadline /\ call'[t].outcome = call[t].outcome
      /\ call'[t].status = r /\ call'[t].client = call[t].client /\ call'[t].met = call[t].met
  <2>1. PICK r0 \in CallType : r0 = call[t]
    BY <1>1
  <2> DEFINE d == [r0 EXCEPT !.at = "woken", !.status = r]
  <2>2. /\ d \in CallType
        /\ d.op = r0.op /\ d.at = "woken" /\ d.deadline = r0.deadline /\ d.outcome = r0.outcome
        /\ d.status = r /\ d.client = r0.client /\ d.met = r0.met
    BY <1>7 DEF CallType
  <2>3. call' = [call EXCEPT ![t] = d]
    BY <1>6, <2>1 DEF StartClosed, Answer
  <2> HIDE DEF d
  <2> QED
    BY <1>1, <2>1, <2>2, <2>3
<1>9. /\ control' = control /\ clients' = clients /\ uv' = uv
  BY DEF StartClosed, onLoop
<1>10. /\ FrameType'
      /\ busy' = busy /\ status' = status /\ users' = users /\ memory' = memory
  BY <1>1 DEF StartClosed, FrameType, ofTasks, capability
<1>11. TypeOK'
  BY <1>1, <1>4, <1>8, <1>9, <1>10, TypesNext
<1>12. IOnce'
  BY <1>4
<1>13. IPlaces'
  <2> SUFFICES ASSUME NEW x \in Tasks
               PROVE  Placed(x)'
    BY DEF IPlaces
  <2>1. Placed(x) /\ Waits(x) /\ Uses(x) /\ Told(x)
    BY At1
  <2> QED
    BY <1>4, <1>8, <1>9, <2>1 DEF Placed
<1>14. IWaiting'
  <2> SUFFICES ASSUME NEW x \in Tasks
               PROVE  Waits(x)'
    BY DEF IWaiting
  <2>1. Placed(x) /\ Waits(x) /\ Uses(x) /\ Told(x)
    BY At1
  <2> QED
    BY <1>4, <1>8, <1>9, <2>1 DEF Waits, Placed
<1>15. IBusy'
  <2>1. \A v \in Tasks : \A op \in Exclusive : Inside(v, op)' =>
          Inside(v, op) /\ call'[v].met = call[v].met
    BY <1>2, <1>4, <1>8 DEF Inside, Waits
  <2>2. ASSUME NEW v \in Tasks, NEW op \in Exclusive, Inside(v, op)', ~call'[v].met,
               call'[v].at # "passed"
        PROVE  busy'[op]
    BY <1>2, <1>4, <1>8, <1>10, <2>1, <2>2 DEF IBusy, Waits
  <2> QED
    BY <2>1, <2>2 DEF IBusy
<1>16. IUse'
  <2> SUFFICES ASSUME NEW x \in Tasks
               PROVE  Uses(x)'
    BY DEF IUse
  <2>1. Placed(x) /\ Waits(x) /\ Uses(x) /\ Told(x)
    BY At1
  <2> QED
    BY <1>2, <1>5, <1>8, <1>10, <2>1 DEF Uses, Leased, Exclusive
<1>17. IMemory'
  BY <1>2, <1>5, <1>8, <1>9, <1>10 DEF IMemory, Uses, Leased, Exclusive
<1>18. ILoop'
  BY <1>9 DEF ILoop
<1>19. ITimers'
  BY <1>8, <1>9, InPlace DEF ITimers
<1>20. ITold'
  <2> SUFFICES ASSUME NEW x \in Tasks
               PROVE  Told(x)'
    BY DEF ITold
  <2>1. Placed(x) /\ Waits(x) /\ Uses(x) /\ Told(x)
    BY At1
  <2> QED
    BY <1>5, <1>8, <1>9, <2>1, Names DEF Told, Results
<1>21. NoStrandedClient'
  BY <1>8, <1>9, InPlace DEF NoStrandedClient
<1> QED
  BY <1>11, <1>12, <1>13, <1>14, <1>15, <1>16, <1>17, <1>18, <1>19,
     <1>20, <1>21

\* hex_tcp_read_start: too late, refused by libuv, or under way.
LEMMA ReadLateKeeps ==
  ASSUME IInv, NEW t \in Tasks, ReadLate(t)
  PROVE  IInv'
<1> USE DEF IInv
<1>1. /\ None \notin Tasks /\ call \in [Tasks -> CallType] /\ commands \in Seq(Tasks) /\ FrameType
      /\ control \in ControlType /\ clients \in ClientsType /\ uv \in UvType
  BY Types, TcpAssumption
<1>2. Placed(t) /\ Waits(t) /\ Uses(t) /\ Told(t)
  BY At1
<1>3. commands # << >> /\ t = Head(commands) /\ commands' = Tail(commands)
  BY DEF ReadLate, Starts, StartsOpen
<1>4. /\ IOnce' /\ commands' \in Seq(Tasks) /\ Queued(t) /\ ~Queued(t)'
      /\ \A v \in Tasks : v # t => (Queued(v)' <=> Queued(v))
  BY <1>3, <1>1, Popped
<1>5. call[t].op = "read" /\ call[t].deadline = "past" /\ control.state = "open"
  BY DEF ReadLate, Starts, StartsOpen
<1>6. /\ call' \in [Tasks -> CallType]
      /\ \A v \in Tasks : v # t => call'[v] = call[v]
      /\ call'[t].op = call[t].op /\ call'[t].at = "woken"
      /\ call'[t].deadline = call[t].deadline /\ call'[t].outcome = "deadline"
      /\ call'[t].status = call[t].status /\ call'[t].client = call[t].client
      /\ call'[t].met = call[t].met
  <2>1. PICK r0 \in CallType : r0 = call[t]
    BY <1>1
  <2> DEFINE d == [r0 EXCEPT !.at = "woken", !.outcome = "deadline"]
  <2>2. /\ d \in CallType
        /\ d.op = r0.op /\ d.at = "woken" /\ d.deadline = r0.deadline /\ d.outcome = "deadline"
        /\ d.status = r0.status /\ d.client = r0.client /\ d.met = r0.met
    BY DEF CallType
  <2>3. call' = [call EXCEPT ![t] = d]
    BY <2>1 DEF ReadLate
  <2> HIDE DEF d
  <2> QED
    BY <1>1, <2>1, <2>2, <2>3
<1>7. /\ control' = control /\ clients' = clients /\ uv' = uv
  BY DEF ReadLate, onLoop
<1>8. /\ FrameType'
      /\ busy' = busy /\ status' = status /\ users' = users /\ memory' = memory
  BY <1>1 DEF ReadLate, FrameType, ofTasks, capability
<1>9. TypeOK'
  BY <1>1, <1>4, <1>6, <1>7, <1>8, TypesNext
<1>10. IOnce'
  BY <1>4
<1>11. IPlaces'
  <2> SUFFICES ASSUME NEW x \in Tasks
               PROVE  Placed(x)'
    BY DEF IPlaces
  <2>1. Placed(x) /\ Waits(x) /\ Uses(x) /\ Told(x)
    BY At1
  <2> QED
    BY <1>4, <1>6, <1>7, <2>1 DEF Placed
<1>12. IWaiting'
  <2> SUFFICES ASSUME NEW x \in Tasks
               PROVE  Waits(x)'
    BY DEF IWaiting
  <2>1. Placed(x) /\ Waits(x) /\ Uses(x) /\ Told(x)
    BY At1
  <2> QED
    BY <1>4, <1>6, <1>7, <2>1 DEF Waits, Placed
<1>13. IBusy'
  <2>1. \A v \in Tasks : \A op \in Exclusive : Inside(v, op)' =>
          Inside(v, op) /\ call'[v].met = call[v].met
    BY <1>2, <1>4, <1>6 DEF Inside, Waits
  <2>2. ASSUME NEW v \in Tasks, NEW op \in Exclusive, Inside(v, op)', ~call'[v].met,
               call'[v].at # "passed"
        PROVE  busy'[op]
    BY <1>2, <1>4, <1>6, <1>8, <2>1, <2>2 DEF IBusy, Waits
  <2> QED
    BY <2>1, <2>2 DEF IBusy
<1>14. IUse'
  <2> SUFFICES ASSUME NEW x \in Tasks
               PROVE  Uses(x)'
    BY DEF IUse
  <2>1. Placed(x) /\ Waits(x) /\ Uses(x) /\ Told(x)
    BY At1
  <2> QED
    BY <1>2, <1>5, <1>6, <1>8, <2>1 DEF Uses, Leased, Exclusive
<1>15. IMemory'
  BY <1>2, <1>5, <1>6, <1>8 DEF IMemory, Uses, Leased, Exclusive
<1>16. ILoop'
  BY <1>7 DEF ILoop
<1>17. ITimers'
  BY <1>6, <1>7, InPlace DEF ITimers
<1>18. ITold'
  <2> SUFFICES ASSUME NEW x \in Tasks
               PROVE  Told(x)'
    BY DEF ITold
  <2>1. Placed(x) /\ Waits(x) /\ Uses(x) /\ Told(x)
    BY At1
  <2> QED
    BY <1>5, <1>6, <2>1 DEF Told, Results
<1>19. NoStrandedClient'
  BY <1>6, <1>7, InPlace DEF NoStrandedClient
<1> QED
  BY <1>9, <1>10, <1>11, <1>12, <1>13, <1>14, <1>15, <1>16, <1>17,
     <1>18, <1>19

LEMMA ReadFailsKeeps ==
  ASSUME IInv, NEW t \in Tasks, ReadFails(t)
  PROVE  IInv'
<1> USE DEF IInv
<1>1. /\ None \notin Tasks /\ call \in [Tasks -> CallType] /\ commands \in Seq(Tasks) /\ FrameType
      /\ control \in ControlType /\ clients \in ClientsType /\ uv \in UvType
  BY Types, TcpAssumption
<1>2. Placed(t) /\ Waits(t) /\ Uses(t) /\ Told(t)
  BY At1
<1>3. commands # << >> /\ t = Head(commands) /\ commands' = Tail(commands)
  BY DEF ReadFails, Starts, StartsOpen
<1>4. /\ IOnce' /\ commands' \in Seq(Tasks) /\ Queued(t) /\ ~Queued(t)'
      /\ \A v \in Tasks : v # t => (Queued(v)' <=> Queued(v))
  BY <1>3, <1>1, Popped
<1>5. call[t].op = "read" /\ control.state = "open"
  BY DEF ReadFails, Starts, StartsOpen
<1>6. \A v \in Tasks : control.readOp = v => v # t /\ call[v].met /\ call[t].met
  <2> SUFFICES ASSUME NEW x \in Tasks, control.readOp = x
               PROVE  x # t /\ call[x].met /\ call[t].met
    OBVIOUS
  <2>1. Placed(x) /\ Waits(x)
    BY At1
  <2>2. Inside(x, "read") /\ Inside(t, "read")
    BY <2>1, <1>1, <1>2, <1>4, <1>5 DEF Placed, Waits, Inside
  <2>3. x # t
    BY <2>1, <1>2, <1>4 DEF Placed
  <2> QED
    BY <2>2, <2>3 DEF IBusy, Exclusive
<1>7. "failed" \in Statuses
  BY Names DEF Results
<1>8. /\ call' \in [Tasks -> CallType]
      /\ \A v \in Tasks : v # t => call'[v] = call[v]
      /\ call'[t].op = call[t].op /\ call'[t].at = "woken"
      /\ call'[t].deadline = call[t].deadline /\ call'[t].outcome = "done"
      /\ call'[t].status = "failed" /\ call'[t].client = call[t].client
      /\ call'[t].met = call[t].met
  <2>1. PICK r0 \in CallType : r0 = call[t]
    BY <1>1
  <2> DEFINE d == [r0 EXCEPT !.at = "woken", !.outcome = "done", !.status = "failed"]
  <2>2. /\ d \in CallType
        /\ d.op = r0.op /\ d.at = "woken" /\ d.deadline = r0.deadline /\ d.outcome = "done"
        /\ d.status = "failed" /\ d.client = r0.client /\ d.met = r0.met
    BY <1>7 DEF CallType
  <2>3. call' = [call EXCEPT ![t] = d]
    BY <2>1 DEF ReadFails
  <2> HIDE DEF d
  <2> QED
    BY <1>1, <2>1, <2>2, <2>3
<1>9. /\ control' \in ControlType /\ control'.state = control.state /\ control'.readOp = None
      /\ control'.writeOp = control.writeOp /\ control'.acceptCommand = control.acceptCommand
      /\ control'.closer = control.closer /\ control'.closePending = control.closePending
      /\ (control'.readTimer # "armed") /\ control'.writeTimer = control.writeTimer
      /\ clients' = clients /\ uv' = uv
  BY <1>1 DEF ReadFails, Stop, ControlType, Timers
<1>10. /\ FrameType'
      /\ busy' = busy /\ status' = status /\ users' = users /\ memory' = memory
  BY <1>1 DEF ReadFails, FrameType, ofTasks, capability
<1>11. TypeOK'
  BY <1>1, <1>4, <1>8, <1>9, <1>10, TypesNext
<1>12. IOnce'
  BY <1>4
<1>13. IPlaces'
  <2> SUFFICES ASSUME NEW x \in Tasks
               PROVE  Placed(x)'
    BY DEF IPlaces
  <2>1. Placed(x) /\ Waits(x) /\ Uses(x) /\ Told(x)
    BY At1
  <2> QED
    BY <1>1, <1>4, <1>8, <1>9, <2>1 DEF Placed
<1>14. IWaiting'
  <2> SUFFICES ASSUME NEW x \in Tasks
               PROVE  Waits(x)'
    BY DEF IWaiting
  <2>1. Placed(x) /\ Waits(x) /\ Uses(x) /\ Told(x)
    BY At1
  <2> QED
    BY <1>1, <1>4, <1>6, <1>8, <1>9, <2>1 DEF Waits, Placed
<1>15. IBusy'
  <2>1. \A v \in Tasks : \A op \in Exclusive : Inside(v, op)' =>
          Inside(v, op) /\ call'[v].met = call[v].met
    BY <1>2, <1>4, <1>8 DEF Inside, Waits
  <2>2. ASSUME NEW v \in Tasks, NEW op \in Exclusive, Inside(v, op)', ~call'[v].met,
               call'[v].at # "passed"
        PROVE  busy'[op]
    BY <1>2, <1>4, <1>8, <1>10, <2>1, <2>2 DEF IBusy, Waits
  <2> QED
    BY <2>1, <2>2 DEF IBusy
<1>16. IUse'
  <2> SUFFICES ASSUME NEW x \in Tasks
               PROVE  Uses(x)'
    BY DEF IUse
  <2>1. Placed(x) /\ Waits(x) /\ Uses(x) /\ Told(x)
    BY At1
  <2> QED
    BY <1>5, <1>8, <1>10, <2>1 DEF Uses, Alone, Opening
<1>17. IMemory'
  BY <1>2, <1>5, <1>8, <1>10 DEF IMemory, Uses, Leased, Exclusive
<1>18. ILoop'
  BY <1>5, <1>9 DEF ILoop
<1>19. ITimers'
  BY <1>8, <1>9, InPlace DEF ITimers
<1>20. ITold'
  <2> SUFFICES ASSUME NEW x \in Tasks
               PROVE  Told(x)'
    BY DEF ITold
  <2>1. Placed(x) /\ Waits(x) /\ Uses(x) /\ Told(x)
    BY At1
  <2> QED
    BY <1>5, <1>8, <2>1, Names DEF Told, Results
<1>21. NoStrandedClient'
  BY <1>8, <1>9, InPlace DEF NoStrandedClient
<1> QED
  BY <1>11, <1>12, <1>13, <1>14, <1>15, <1>16, <1>17, <1>18, <1>19,
     <1>20, <1>21

LEMMA ReadStartKeeps ==
  ASSUME IInv, NEW t \in Tasks, ReadStart(t)
  PROVE  IInv'
<1> USE DEF IInv
<1>1. /\ None \notin Tasks /\ call \in [Tasks -> CallType] /\ commands \in Seq(Tasks) /\ FrameType
      /\ control \in ControlType /\ clients \in ClientsType /\ uv \in UvType
  BY Types, TcpAssumption
<1>2. Placed(t) /\ Waits(t) /\ Uses(t) /\ Told(t)
  BY At1
<1>3. commands # << >> /\ t = Head(commands) /\ commands' = Tail(commands)
  BY DEF ReadStart, Starts, StartsOpen
<1>4. /\ IOnce' /\ commands' \in Seq(Tasks) /\ Queued(t) /\ ~Queued(t)'
      /\ \A v \in Tasks : v # t => (Queued(v)' <=> Queued(v))
  BY <1>3, <1>1, Popped
<1>5. call[t].op = "read" /\ control.state = "open"
  BY DEF ReadStart, Starts, StartsOpen
<1>6. ~uv.reading
  BY DEF ReadStart
<1>7. control.readOp = None /\ control.readTimer # "armed"
  BY <1>6 DEF ITimers
<1>8. /\ call' \in [Tasks -> CallType]
      /\ \A v \in Tasks : v # t => call'[v] = call[v]
      /\ call'[t].op = call[t].op /\ call'[t].at = call[t].at
      /\ call'[t].deadline = call[t].deadline /\ call'[t].outcome = "done"
      /\ call'[t].status = call[t].status /\ call'[t].client = call[t].client
      /\ call'[t].met = call[t].met
  BY <1>1 DEF ReadStart, Armed, CallType
<1>9. /\ control' \in ControlType /\ control'.state = control.state /\ control'.readOp = t
      /\ control'.writeOp = control.writeOp /\ control'.acceptCommand = control.acceptCommand
      /\ control'.closer = control.closer /\ control'.closePending = control.closePending
      /\ (call[t].deadline = "none" => control'.readTimer = control.readTimer)
      /\ control'.writeTimer = control.writeTimer /\ clients' = clients /\ uv' \in UvType
      /\ uv'.reading = TRUE /\ uv'.listening = uv.listening /\ uv'.requests = uv.requests
      /\ uv'.closing = uv.closing
  BY <1>1 DEF ReadStart, Armed, ControlType, Timers, UvType
<1>10. /\ FrameType'
      /\ busy' = busy /\ status' = status /\ users' = users /\ memory' = memory
  BY <1>1 DEF ReadStart, FrameType, ofTasks, capability
<1>11. TypeOK'
  BY <1>1, <1>4, <1>8, <1>9, <1>10, TypesNext
<1>12. IOnce'
  BY <1>4
<1>13. IPlaces'
  <2> SUFFICES ASSUME NEW x \in Tasks
               PROVE  Placed(x)'
    BY DEF IPlaces
  <2>1. Placed(x) /\ Waits(x) /\ Uses(x) /\ Told(x)
    BY At1
  <2> QED
    BY <1>4, <1>5, <1>8, <1>9, <2>1 DEF Placed
<1>14. IWaiting'
  <2> SUFFICES ASSUME NEW x \in Tasks
               PROVE  Waits(x)'
    BY DEF IWaiting
  <2>1. Placed(x) /\ Waits(x) /\ Uses(x) /\ Told(x)
    BY At1
  <2> QED
    BY <1>1, <1>4, <1>7, <1>8, <1>9, <2>1 DEF Waits
<1>15. IBusy'
  <2>1. \A v \in Tasks : \A op \in Exclusive : Inside(v, op)' =>
          Inside(v, op) /\ call'[v].met = call[v].met
    BY <1>8 DEF Inside
  <2>2. ASSUME NEW v \in Tasks, NEW op \in Exclusive, Inside(v, op)', ~call'[v].met,
               call'[v].at # "passed"
        PROVE  busy'[op]
    BY <1>8, <1>10, <2>1, <2>2 DEF IBusy
  <2> QED
    BY <2>1, <2>2 DEF IBusy
<1>16. IUse'
  <2> SUFFICES ASSUME NEW x \in Tasks
               PROVE  Uses(x)'
    BY DEF IUse
  <2>1. Placed(x) /\ Waits(x) /\ Uses(x) /\ Told(x)
    BY At1
  <2> QED
    BY <1>2, <1>5, <1>8, <1>10, <2>1 DEF Uses, Leased, Exclusive
<1>17. IMemory'
  BY <1>2, <1>5, <1>8, <1>10 DEF IMemory, Uses, Leased, Exclusive
<1>18. ILoop'
  BY <1>5, <1>9 DEF ILoop
<1>19. ITimers'
  <2>1. /\ control'.readOp = t /\ uv'.reading
        /\ control'.readTimer = "armed" => call'[t].deadline # "none"
    BY <1>7, <1>8, <1>9
  <2>2. /\ control'.writeTimer = control.writeTimer /\ control'.writeOp = control.writeOp
        /\ \A v \in Tasks : call'[v].met = call[v].met /\ call'[v].deadline = call[v].deadline
    BY <1>8, <1>9
  <2>3. control.writeTimer = "armed" =>
          /\ control.writeOp \in Tasks
          /\ call[control.writeOp].met \/ call[control.writeOp].deadline # "none"
    BY InPlace DEF ITimers
  <2>4. control'.writeTimer = "armed" =>
          /\ control'.writeOp # None
          /\ call'[control'.writeOp].met \/ call'[control'.writeOp].deadline # "none"
    BY <1>1, <2>2, <2>3
  <2>5. control'.readTimer = "armed" =>
          control'.readOp # None /\ call'[control'.readOp].deadline # "none"
    BY <1>1, <2>1
  <2> QED
    BY <2>1, <2>4, <2>5, Zenon DEF ITimers
<1>20. ITold'
  <2> SUFFICES ASSUME NEW x \in Tasks
               PROVE  Told(x)'
    BY DEF ITold
  <2>1. Placed(x) /\ Waits(x) /\ Uses(x) /\ Told(x)
    BY At1
  <2> QED
    BY <1>8, <1>9, <2>1 DEF Told
<1>21. NoStrandedClient'
  BY <1>8, <1>9, InPlace DEF NoStrandedClient
<1> QED
  BY <1>11, <1>12, <1>13, <1>14, <1>15, <1>16, <1>17, <1>18, <1>19,
     <1>20, <1>21

\* hex_tcp_write_start.
LEMMA WriteFailsKeeps ==
  ASSUME IInv, NEW t \in Tasks, WriteFails(t)
  PROVE  IInv'
<1> USE DEF IInv
<1>1. /\ None \notin Tasks /\ call \in [Tasks -> CallType] /\ commands \in Seq(Tasks) /\ FrameType
      /\ control \in ControlType /\ clients \in ClientsType /\ uv \in UvType
  BY Types, TcpAssumption
<1>2. Placed(t) /\ Waits(t) /\ Uses(t) /\ Told(t)
  BY At1
<1>3. commands # << >> /\ t = Head(commands) /\ commands' = Tail(commands)
  BY DEF WriteFails, Starts, StartsOpen
<1>4. /\ IOnce' /\ commands' \in Seq(Tasks) /\ Queued(t) /\ ~Queued(t)'
      /\ \A v \in Tasks : v # t => (Queued(v)' <=> Queued(v))
  BY <1>3, <1>1, Popped
<1>5. call[t].op = "write" /\ control.state = "open"
  BY DEF WriteFails, Starts, StartsOpen
<1>6. "failed" \in Statuses
  BY Names DEF Results
<1>7. /\ call' \in [Tasks -> CallType]
      /\ \A v \in Tasks : v # t => call'[v] = call[v]
      /\ call'[t].op = call[t].op /\ call'[t].at = "woken"
      /\ call'[t].deadline = call[t].deadline /\ call'[t].outcome = call[t].outcome
      /\ call'[t].status = "failed" /\ call'[t].client = call[t].client
      /\ call'[t].met = call[t].met
  <2>1. PICK r0 \in CallType : r0 = call[t]
    BY <1>1
  <2> DEFINE d == [r0 EXCEPT !.at = "woken", !.status = "failed"]
  <2>2. /\ d \in CallType
        /\ d.op = r0.op /\ d.at = "woken" /\ d.deadline = r0.deadline /\ d.outcome = r0.outcome
        /\ d.status = "failed" /\ d.client = r0.client /\ d.met = r0.met
    BY <1>6 DEF CallType
  <2>3. call' = [call EXCEPT ![t] = d]
    BY <2>1 DEF WriteFails, Answer
  <2> HIDE DEF d
  <2> QED
    BY <1>1, <2>1, <2>2, <2>3
<1>8. /\ control' \in ControlType /\ control'.state = control.state
      /\ control'.readOp = control.readOp /\ control'.writeOp = None
      /\ control'.acceptCommand = control.acceptCommand /\ control'.closer = control.closer
      /\ control'.closePending = control.closePending /\ control'.readTimer = control.readTimer
      /\ (control'.writeTimer # "armed") /\ clients' = clients /\ uv' = uv
  BY <1>1 DEF WriteFails, Stop, ControlType, Timers
<1>9. /\ FrameType'
      /\ busy' = busy /\ status' = status /\ users' = users /\ memory' = memory
  BY <1>1 DEF WriteFails, FrameType, ofTasks, capability
<1>10. TypeOK'
  BY <1>1, <1>4, <1>7, <1>8, <1>9, TypesNext
<1>11. IOnce'
  BY <1>4
<1>12. IPlaces'
  <2> SUFFICES ASSUME NEW x \in Tasks
               PROVE  Placed(x)'
    BY DEF IPlaces
  <2>1. Placed(x) /\ Waits(x) /\ Uses(x) /\ Told(x)
    BY At1
  <2> QED
    BY <1>1, <1>4, <1>7, <1>8, <2>1 DEF Placed
<1>13. IWaiting'
  <2> SUFFICES ASSUME NEW x \in Tasks
               PROVE  Waits(x)'
    BY DEF IWaiting
  <2>1. Placed(x) /\ Waits(x) /\ Uses(x) /\ Told(x)
    BY At1
  <2> QED
    BY <1>4, <1>7, <1>8, <2>1 DEF Waits, Placed
<1>14. IBusy'
  <2>1. \A v \in Tasks : \A op \in Exclusive : Inside(v, op)' =>
          Inside(v, op) /\ call'[v].met = call[v].met
    BY <1>2, <1>4, <1>7 DEF Inside, Waits
  <2>2. ASSUME NEW v \in Tasks, NEW op \in Exclusive, Inside(v, op)', ~call'[v].met,
               call'[v].at # "passed"
        PROVE  busy'[op]
    BY <1>2, <1>4, <1>7, <1>9, <2>1, <2>2 DEF IBusy, Waits
  <2> QED
    BY <2>1, <2>2 DEF IBusy
<1>15. IUse'
  <2> SUFFICES ASSUME NEW x \in Tasks
               PROVE  Uses(x)'
    BY DEF IUse
  <2>1. Placed(x) /\ Waits(x) /\ Uses(x) /\ Told(x)
    BY At1
  <2> QED
    BY <1>2, <1>5, <1>7, <1>9, <2>1 DEF Uses, Leased, Exclusive
<1>16. IMemory'
  BY <1>2, <1>5, <1>7, <1>9 DEF IMemory, Uses, Leased, Exclusive
<1>17. ILoop'
  BY <1>5, <1>8 DEF ILoop
<1>18. ITimers'
  BY <1>7, <1>8, InPlace DEF ITimers
<1>19. ITold'
  <2> SUFFICES ASSUME NEW x \in Tasks
               PROVE  Told(x)'
    BY DEF ITold
  <2>1. Placed(x) /\ Waits(x) /\ Uses(x) /\ Told(x)
    BY At1
  <2> QED
    BY <1>5, <1>7, <2>1, Names DEF Told, Results
<1>20. NoStrandedClient'
  BY <1>7, <1>8, InPlace DEF NoStrandedClient
<1> QED
  BY <1>10, <1>11, <1>12, <1>13, <1>14, <1>15, <1>16, <1>17, <1>18,
     <1>19, <1>20

LEMMA WriteStartKeeps ==
  ASSUME IInv, NEW t \in Tasks, WriteStart(t)
  PROVE  IInv'
<1> USE DEF IInv
<1>1. /\ None \notin Tasks /\ call \in [Tasks -> CallType] /\ commands \in Seq(Tasks) /\ FrameType
      /\ control \in ControlType /\ clients \in ClientsType /\ uv \in UvType
  BY Types, TcpAssumption
<1>2. Placed(t) /\ Waits(t) /\ Uses(t) /\ Told(t)
  BY At1
<1>3. commands # << >> /\ t = Head(commands) /\ commands' = Tail(commands)
  BY DEF WriteStart, Starts, StartsOpen
<1>4. /\ IOnce' /\ commands' \in Seq(Tasks) /\ Queued(t) /\ ~Queued(t)'
      /\ \A v \in Tasks : v # t => (Queued(v)' <=> Queued(v))
  BY <1>3, <1>1, Popped
<1>5. call[t].op = "write" /\ control.state = "open"
  BY DEF WriteStart, Starts, StartsOpen
<1>6. \A v \in Tasks : control.writeOp = v => v # t /\ call[v].met /\ call[t].met
  <2> SUFFICES ASSUME NEW x \in Tasks, control.writeOp = x
               PROVE  x # t /\ call[x].met /\ call[t].met
    OBVIOUS
  <2>1. Placed(x) /\ Waits(x)
    BY At1
  <2>2. Inside(x, "write") /\ Inside(t, "write")
    BY <2>1, <1>1, <1>2, <1>4, <1>5 DEF Placed, Waits, Inside
  <2>3. x # t
    BY <2>1, <1>2, <1>4 DEF Placed
  <2> QED
    BY <2>2, <2>3 DEF IBusy, Exclusive
<1>7. call' = call
  BY DEF WriteStart
<1>8. /\ control' \in ControlType /\ control'.state = control.state
      /\ control'.readOp = control.readOp /\ control'.writeOp = t
      /\ control'.acceptCommand = control.acceptCommand /\ control'.closer = control.closer
      /\ control'.closePending = control.closePending /\ control'.readTimer = control.readTimer
      /\ (call[t].deadline = "none" => control'.writeTimer = control.writeTimer)
      /\ clients' = clients /\ uv' \in UvType /\ uv'.reading = uv.reading
      /\ uv'.listening = uv.listening /\ uv'.requests = uv.requests \cup {t}
      /\ uv'.closing = uv.closing
  BY <1>1 DEF WriteStart, Armed, Request, ControlType, Timers, UvType
<1>9. /\ FrameType'
      /\ busy' = busy /\ status' = status /\ users' = users /\ memory' = memory
  BY <1>1 DEF WriteStart, FrameType, ofTasks, capability
<1>10. TypeOK'
  BY <1>1, <1>4, <1>7, <1>8, <1>9, TypesNext
<1>11. IOnce'
  BY <1>4
<1>12. IPlaces'
  <2> SUFFICES ASSUME NEW x \in Tasks
               PROVE  Placed(x)'
    BY DEF IPlaces
  <2>1. Placed(x) /\ Waits(x) /\ Uses(x) /\ Told(x)
    BY At1
  <2> QED
    BY <1>4, <1>5, <1>7, <1>8, <2>1 DEF Placed
<1>13. IWaiting'
  <2> SUFFICES ASSUME NEW x \in Tasks
               PROVE  Waits(x)'
    BY DEF IWaiting
  <2>1. Placed(x) /\ Waits(x) /\ Uses(x) /\ Told(x)
    BY At1
  <2> QED
    BY <1>4, <1>7, <1>8, <2>1 DEF Waits
<1>14. IBusy'
  <2>1. \A v \in Tasks : \A op \in Exclusive : Inside(v, op)' =>
          Inside(v, op) /\ call'[v].met = call[v].met
    BY <1>7 DEF Inside
  <2>2. ASSUME NEW v \in Tasks, NEW op \in Exclusive, Inside(v, op)', ~call'[v].met,
               call'[v].at # "passed"
        PROVE  busy'[op]
    BY <1>7, <1>9, <2>1, <2>2 DEF IBusy
  <2> QED
    BY <2>1, <2>2 DEF IBusy
<1>15. IUse'
  <2> SUFFICES ASSUME NEW x \in Tasks
               PROVE  Uses(x)'
    BY DEF IUse
  <2>1. Placed(x) /\ Waits(x) /\ Uses(x) /\ Told(x)
    BY At1
  <2> QED
    BY <1>2, <1>5, <1>7, <1>9, <2>1 DEF Uses, Leased, Exclusive
<1>16. IMemory'
  BY <1>2, <1>5, <1>7, <1>9 DEF IMemory, Uses, Leased, Exclusive
<1>17. ILoop'
  BY <1>5, <1>8 DEF ILoop
<1>18. ITimers'
  BY <1>1, <1>6, <1>7, <1>8, InPlace DEF ITimers
<1>19. ITold'
  <2> SUFFICES ASSUME NEW x \in Tasks
               PROVE  Told(x)'
    BY DEF ITold
  <2>1. Placed(x) /\ Waits(x) /\ Uses(x) /\ Told(x)
    BY At1
  <2> QED
    BY <1>7, <1>8, <2>1 DEF Told
<1>20. NoStrandedClient'
  BY <1>7, <1>8 DEF NoStrandedClient
<1> QED
  BY <1>10, <1>11, <1>12, <1>13, <1>14, <1>15, <1>16, <1>17, <1>18,
     <1>19, <1>20

\* hex_tcp_shutdown_start, hex_tcp_no_delay_start.
LEMMA ShutdownStartRequestKeeps ==
  ASSUME IInv, NEW t \in Tasks, ShutdownStart(t), Request(t) /\ UNCHANGED call
  PROVE  IInv'
<1> USE DEF IInv
<1>1. /\ None \notin Tasks /\ call \in [Tasks -> CallType] /\ commands \in Seq(Tasks) /\ FrameType
      /\ control \in ControlType /\ clients \in ClientsType /\ uv \in UvType
  BY Types, TcpAssumption
<1>2. Placed(t) /\ Waits(t) /\ Uses(t) /\ Told(t)
  BY At1
<1>3. commands # << >> /\ t = Head(commands) /\ commands' = Tail(commands)
  BY DEF ShutdownStart, Starts, StartsOpen
<1>4. /\ IOnce' /\ commands' \in Seq(Tasks) /\ Queued(t) /\ ~Queued(t)'
      /\ \A v \in Tasks : v # t => (Queued(v)' <=> Queued(v))
  BY <1>3, <1>1, Popped
<1>5. call[t].op = "shutdown" /\ control.state = "open"
  BY DEF ShutdownStart, Starts, StartsOpen
<1>6. call' = call
  OBVIOUS
<1>7. /\ control' = control /\ clients' = clients /\ uv' \in UvType /\ uv'.reading = uv.reading
      /\ uv'.listening = uv.listening /\ uv'.requests = uv.requests \cup {t}
      /\ uv'.closing = uv.closing
  BY <1>1 DEF ShutdownStart, Request, UvType
<1>8. /\ FrameType'
      /\ busy' = busy /\ status' = status /\ users' = users /\ memory' = memory
  BY <1>1 DEF ShutdownStart, FrameType, ofTasks, capability
<1>9. TypeOK'
  BY <1>1, <1>4, <1>7, <1>8, TypesNext
<1>10. IOnce'
  BY <1>4
<1>11. IPlaces'
  <2> SUFFICES ASSUME NEW x \in Tasks
               PROVE  Placed(x)'
    BY DEF IPlaces
  <2>1. Placed(x) /\ Waits(x) /\ Uses(x) /\ Told(x)
    BY At1
  <2> QED
    BY <1>4, <1>5, <1>7, <2>1 DEF Placed
<1>12. IWaiting'
  <2> SUFFICES ASSUME NEW x \in Tasks
               PROVE  Waits(x)'
    BY DEF IWaiting
  <2>1. Placed(x) /\ Waits(x) /\ Uses(x) /\ Told(x)
    BY At1
  <2> QED
    BY <1>4, <1>7, <2>1 DEF Waits
<1>13. IBusy'
  <2>1. \A v \in Tasks : \A op \in Exclusive : Inside(v, op)' =>
          Inside(v, op) /\ call'[v].met = call[v].met
    BY DEF Inside
  <2>2. ASSUME NEW v \in Tasks, NEW op \in Exclusive, Inside(v, op)', ~call'[v].met,
               call'[v].at # "passed"
        PROVE  busy'[op]
    BY <1>8, <2>1, <2>2 DEF IBusy
  <2> QED
    BY <2>1, <2>2 DEF IBusy
<1>14. IUse'
  <2> SUFFICES ASSUME NEW x \in Tasks
               PROVE  Uses(x)'
    BY DEF IUse
  <2>1. Placed(x) /\ Waits(x) /\ Uses(x) /\ Told(x)
    BY At1
  <2> QED
    BY <1>2, <1>5, <1>8, <2>1 DEF Uses, Leased
<1>15. IMemory'
  BY <1>2, <1>5, <1>8 DEF IMemory, Uses, Leased
<1>16. ILoop'
  BY <1>7 DEF ILoop
<1>17. ITimers'
  BY <1>7 DEF ITimers
<1>18. ITold'
  <2> SUFFICES ASSUME NEW x \in Tasks
               PROVE  Told(x)'
    BY DEF ITold
  <2>1. Placed(x) /\ Waits(x) /\ Uses(x) /\ Told(x)
    BY At1
  <2> QED
    BY <1>7, <2>1 DEF Told, Results
<1>19. NoStrandedClient'
  BY <1>7 DEF NoStrandedClient
<1> QED
  BY <1>9, <1>10, <1>11, <1>12, <1>13, <1>14, <1>15, <1>16, <1>17,
     <1>18, <1>19

LEMMA ShutdownStartFailKeeps ==
  ASSUME IInv, NEW t \in Tasks, ShutdownStart(t),
         Answer(t, "failed") /\ UNCHANGED uv
  PROVE  IInv'
<1> USE DEF IInv
<1>1. /\ None \notin Tasks /\ call \in [Tasks -> CallType] /\ commands \in Seq(Tasks) /\ FrameType
      /\ control \in ControlType /\ clients \in ClientsType /\ uv \in UvType
  BY Types, TcpAssumption
<1>2. Placed(t) /\ Waits(t) /\ Uses(t) /\ Told(t)
  BY At1
<1>3. commands # << >> /\ t = Head(commands) /\ commands' = Tail(commands)
  BY DEF ShutdownStart, Starts, StartsOpen
<1>4. /\ IOnce' /\ commands' \in Seq(Tasks) /\ Queued(t) /\ ~Queued(t)'
      /\ \A v \in Tasks : v # t => (Queued(v)' <=> Queued(v))
  BY <1>3, <1>1, Popped
<1>5. call[t].op = "shutdown" /\ control.state = "open"
  BY DEF ShutdownStart, Starts, StartsOpen
<1>6. "failed" \in Statuses
  BY Names DEF Results
<1>7. /\ call' \in [Tasks -> CallType]
      /\ \A v \in Tasks : v # t => call'[v] = call[v]
      /\ call'[t].op = call[t].op /\ call'[t].at = "woken"
      /\ call'[t].deadline = call[t].deadline /\ call'[t].outcome = call[t].outcome
      /\ call'[t].status = "failed" /\ call'[t].client = call[t].client
      /\ call'[t].met = call[t].met
  <2>1. PICK r0 \in CallType : r0 = call[t]
    BY <1>1
  <2> DEFINE d == [r0 EXCEPT !.at = "woken", !.status = "failed"]
  <2>2. /\ d \in CallType
        /\ d.op = r0.op /\ d.at = "woken" /\ d.deadline = r0.deadline /\ d.outcome = r0.outcome
        /\ d.status = "failed" /\ d.client = r0.client /\ d.met = r0.met
    BY <1>6 DEF CallType
  <2>3. call' = [call EXCEPT ![t] = d]
    BY <2>1 DEF Answer
  <2> HIDE DEF d
  <2> QED
    BY <1>1, <2>1, <2>2, <2>3
<1>8. /\ control' = control /\ clients' = clients /\ uv' = uv
  BY DEF ShutdownStart
<1>9. /\ FrameType'
      /\ busy' = busy /\ status' = status /\ users' = users /\ memory' = memory
  BY <1>1 DEF ShutdownStart, FrameType, ofTasks, capability
<1>10. TypeOK'
  BY <1>1, <1>4, <1>7, <1>8, <1>9, TypesNext
<1>11. IOnce'
  BY <1>4
<1>12. IPlaces'
  <2> SUFFICES ASSUME NEW x \in Tasks
               PROVE  Placed(x)'
    BY DEF IPlaces
  <2>1. Placed(x) /\ Waits(x) /\ Uses(x) /\ Told(x)
    BY At1
  <2> QED
    BY <1>4, <1>7, <1>8, <2>1 DEF Placed
<1>13. IWaiting'
  <2> SUFFICES ASSUME NEW x \in Tasks
               PROVE  Waits(x)'
    BY DEF IWaiting
  <2>1. Placed(x) /\ Waits(x) /\ Uses(x) /\ Told(x)
    BY At1
  <2> QED
    BY <1>4, <1>7, <1>8, <2>1 DEF Waits, Placed
<1>14. IBusy'
  <2>1. \A v \in Tasks : \A op \in Exclusive : Inside(v, op)' =>
          Inside(v, op) /\ call'[v].met = call[v].met
    BY <1>5, <1>7 DEF Inside, Exclusive
  <2>2. ASSUME NEW v \in Tasks, NEW op \in Exclusive, Inside(v, op)', ~call'[v].met,
               call'[v].at # "passed"
        PROVE  busy'[op]
    BY <1>2, <1>4, <1>7, <1>9, <2>1, <2>2 DEF IBusy, Waits
  <2> QED
    BY <2>1, <2>2 DEF IBusy
<1>15. IUse'
  <2> SUFFICES ASSUME NEW x \in Tasks
               PROVE  Uses(x)'
    BY DEF IUse
  <2>1. Placed(x) /\ Waits(x) /\ Uses(x) /\ Told(x)
    BY At1
  <2> QED
    BY <1>2, <1>5, <1>7, <1>9, <2>1 DEF Uses, Leased
<1>16. IMemory'
  BY <1>2, <1>5, <1>7, <1>9 DEF IMemory, Uses, Leased
<1>17. ILoop'
  BY <1>8 DEF ILoop
<1>18. ITimers'
  BY <1>7, <1>8, InPlace DEF ITimers
<1>19. ITold'
  <2> SUFFICES ASSUME NEW x \in Tasks
               PROVE  Told(x)'
    BY DEF ITold
  <2>1. Placed(x) /\ Waits(x) /\ Uses(x) /\ Told(x)
    BY At1
  <2> QED
    BY <1>5, <1>7, <2>1, Names DEF Told, Results
<1>20. NoStrandedClient'
  BY <1>7, <1>8, InPlace DEF NoStrandedClient
<1> QED
  BY <1>10, <1>11, <1>12, <1>13, <1>14, <1>15, <1>16, <1>17, <1>18,
     <1>19, <1>20

LEMMA NoDelayStartKeeps ==
  ASSUME IInv, NEW t \in Tasks, NEW result \in Results, NoDelayStart(t, result)
  PROVE  IInv'
<1> USE DEF IInv
<1>1. /\ None \notin Tasks /\ call \in [Tasks -> CallType] /\ commands \in Seq(Tasks) /\ FrameType
      /\ control \in ControlType /\ clients \in ClientsType /\ uv \in UvType
  BY Types, TcpAssumption
<1>2. Placed(t) /\ Waits(t) /\ Uses(t) /\ Told(t)
  BY At1
<1>3. commands # << >> /\ t = Head(commands) /\ commands' = Tail(commands)
  BY DEF NoDelayStart, Starts, StartsOpen
<1>4. /\ IOnce' /\ commands' \in Seq(Tasks) /\ Queued(t) /\ ~Queued(t)'
      /\ \A v \in Tasks : v # t => (Queued(v)' <=> Queued(v))
  BY <1>3, <1>1, Popped
<1>5. call[t].op = "no_delay" /\ control.state = "open"
  BY DEF NoDelayStart, Starts, StartsOpen
<1>6. result \in Statuses
  BY Names DEF Results
<1>7. /\ call' \in [Tasks -> CallType]
      /\ \A v \in Tasks : v # t => call'[v] = call[v]
      /\ call'[t].op = call[t].op /\ call'[t].at = "woken"
      /\ call'[t].deadline = call[t].deadline /\ call'[t].outcome = call[t].outcome
      /\ call'[t].status = result /\ call'[t].client = call[t].client
      /\ call'[t].met = call[t].met
  <2>1. PICK r0 \in CallType : r0 = call[t]
    BY <1>1
  <2> DEFINE d == [r0 EXCEPT !.at = "woken", !.status = result]
  <2>2. /\ d \in CallType
        /\ d.op = r0.op /\ d.at = "woken" /\ d.deadline = r0.deadline /\ d.outcome = r0.outcome
        /\ d.status = result /\ d.client = r0.client /\ d.met = r0.met
    BY <1>6 DEF CallType
  <2>3. call' = [call EXCEPT ![t] = d]
    BY <2>1 DEF NoDelayStart, Answer
  <2> HIDE DEF d
  <2> QED
    BY <1>1, <2>1, <2>2, <2>3
<1>8. /\ control' = control /\ clients' = clients /\ uv' = uv
  BY DEF NoDelayStart, onLoop
<1>9. /\ FrameType'
      /\ busy' = busy /\ status' = status /\ users' = users /\ memory' = memory
  BY <1>1 DEF NoDelayStart, FrameType, ofTasks, capability
<1>10. TypeOK'
  BY <1>1, <1>4, <1>7, <1>8, <1>9, TypesNext
<1>11. IOnce'
  BY <1>4
<1>12. IPlaces'
  <2> SUFFICES ASSUME NEW x \in Tasks
               PROVE  Placed(x)'
    BY DEF IPlaces
  <2>1. Placed(x) /\ Waits(x) /\ Uses(x) /\ Told(x)
    BY At1
  <2> QED
    BY <1>4, <1>7, <1>8, <2>1 DEF Placed
<1>13. IWaiting'
  <2> SUFFICES ASSUME NEW x \in Tasks
               PROVE  Waits(x)'
    BY DEF IWaiting
  <2>1. Placed(x) /\ Waits(x) /\ Uses(x) /\ Told(x)
    BY At1
  <2> QED
    BY <1>4, <1>7, <1>8, <2>1 DEF Waits, Placed
<1>14. IBusy'
  <2>1. \A v \in Tasks : \A op \in Exclusive : Inside(v, op)' =>
          Inside(v, op) /\ call'[v].met = call[v].met
    BY <1>5, <1>7 DEF Inside, Exclusive
  <2>2. ASSUME NEW v \in Tasks, NEW op \in Exclusive, Inside(v, op)', ~call'[v].met,
               call'[v].at # "passed"
        PROVE  busy'[op]
    BY <1>2, <1>4, <1>7, <1>9, <2>1, <2>2 DEF IBusy, Waits
  <2> QED
    BY <2>1, <2>2 DEF IBusy
<1>15. IUse'
  <2> SUFFICES ASSUME NEW x \in Tasks
               PROVE  Uses(x)'
    BY DEF IUse
  <2>1. Placed(x) /\ Waits(x) /\ Uses(x) /\ Told(x)
    BY At1
  <2> QED
    BY <1>2, <1>5, <1>7, <1>9, <2>1 DEF Uses, Leased
<1>16. IMemory'
  BY <1>2, <1>5, <1>7, <1>9 DEF IMemory, Uses, Leased
<1>17. ILoop'
  BY <1>8 DEF ILoop
<1>18. ITimers'
  BY <1>7, <1>8, InPlace DEF ITimers
<1>19. ITold'
  <2> SUFFICES ASSUME NEW x \in Tasks
               PROVE  Told(x)'
    BY DEF ITold
  <2>1. Placed(x) /\ Waits(x) /\ Uses(x) /\ Told(x)
    BY At1
  <2> QED
    BY <1>5, <1>7, <2>1, Names DEF Told, Results
<1>20. NoStrandedClient'
  BY <1>7, <1>8, InPlace DEF NoStrandedClient
<1> QED
  BY <1>10, <1>11, <1>12, <1>13, <1>14, <1>15, <1>16, <1>17, <1>18,
     <1>19, <1>20

\* hex_tcp_close_start on a socket that is closing or closed already.
LEMMA CloseStartClosing1Keeps ==
  ASSUME IInv, NEW t \in Tasks, CloseStart(t), control.state = "closing"
  PROVE  IInv'
<1> USE DEF IInv
<1>1. /\ None \notin Tasks /\ call \in [Tasks -> CallType] /\ commands \in Seq(Tasks) /\ FrameType
      /\ control \in ControlType /\ clients \in ClientsType /\ uv \in UvType
  BY Types, TcpAssumption
<1>2. Placed(t) /\ Waits(t) /\ Uses(t) /\ Told(t)
  BY At1
<1>3. commands # << >> /\ t = Head(commands) /\ commands' = Tail(commands)
  BY DEF CloseStart, Starts, StartsOpen
<1>4. /\ IOnce' /\ commands' \in Seq(Tasks) /\ Queued(t) /\ ~Queued(t)'
      /\ \A v \in Tasks : v # t => (Queued(v)' <=> Queued(v))
  BY <1>3, <1>1, Popped
<1>5. call[t].op \in {"close", "discard"}
  BY DEF CloseStart, Starts, StartsOpen
<1>6. control.closer = None
  <2> SUFFICES ASSUME NEW x \in Tasks, control.closer = x
               PROVE  FALSE
    BY <1>1 DEF ControlType
  <2>1. Placed(x) /\ Uses(x)
    BY At1
  <2>2. x = t
    BY <2>1, <1>2, <1>5 DEF Placed, Uses, Opening, Alone
  <2> QED
    BY <2>2, <1>2, <1>4 DEF Placed
<1>7. call' = call
  BY DEF CloseStart
<1>8. /\ control' \in ControlType /\ control'.state = control.state
      /\ control'.readOp = control.readOp /\ control'.writeOp = control.writeOp
      /\ control'.acceptCommand = control.acceptCommand /\ control'.closer = t
      /\ control'.closePending = control.closePending /\ control'.readTimer = control.readTimer
      /\ control'.writeTimer = control.writeTimer /\ clients' = clients /\ uv' = uv
  BY <1>1 DEF CloseStart, ControlType
<1>9. /\ FrameType'
      /\ busy' = busy /\ status' = status /\ users' = users /\ memory' = memory
  BY <1>1 DEF CloseStart, FrameType, ofTasks, capability
<1>10. TypeOK'
  BY <1>1, <1>4, <1>7, <1>8, <1>9, TypesNext
<1>11. IOnce'
  BY <1>4
<1>12. IPlaces'
  <2> SUFFICES ASSUME NEW x \in Tasks
               PROVE  Placed(x)'
    BY DEF IPlaces
  <2>1. Placed(x) /\ Waits(x) /\ Uses(x) /\ Told(x)
    BY At1
  <2> QED
    BY <1>4, <1>5, <1>7, <1>8, <2>1 DEF Placed
<1>13. IWaiting'
  <2> SUFFICES ASSUME NEW x \in Tasks
               PROVE  Waits(x)'
    BY DEF IWaiting
  <2>1. Placed(x) /\ Waits(x) /\ Uses(x) /\ Told(x)
    BY At1
  <2> QED
    BY <1>1, <1>4, <1>6, <1>7, <1>8, <2>1 DEF Waits
<1>14. IBusy'
  <2>1. \A v \in Tasks : \A op \in Exclusive : Inside(v, op)' =>
          Inside(v, op) /\ call'[v].met = call[v].met
    BY <1>7 DEF Inside
  <2>2. ASSUME NEW v \in Tasks, NEW op \in Exclusive, Inside(v, op)', ~call'[v].met,
               call'[v].at # "passed"
        PROVE  busy'[op]
    BY <1>7, <1>9, <2>1, <2>2 DEF IBusy
  <2> QED
    BY <2>1, <2>2 DEF IBusy
<1>15. IUse'
  <2> SUFFICES ASSUME NEW x \in Tasks
               PROVE  Uses(x)'
    BY DEF IUse
  <2>1. Placed(x) /\ Waits(x) /\ Uses(x) /\ Told(x)
    BY At1
  <2> QED
    BY <1>7, <1>9, <2>1 DEF Uses, Alone
<1>16. IMemory'
  BY <1>2, <1>5, <1>7, <1>9 DEF IMemory, Uses, Opening
<1>17. ILoop'
  BY <1>8 DEF ILoop
<1>18. ITimers'
  BY <1>7, <1>8 DEF ITimers
<1>19. ITold'
  <2> SUFFICES ASSUME NEW x \in Tasks
               PROVE  Told(x)'
    BY DEF ITold
  <2>1. Placed(x) /\ Waits(x) /\ Uses(x) /\ Told(x)
    BY At1
  <2> QED
    BY <1>7, <1>8, <2>1 DEF Told, Results
<1>20. NoStrandedClient'
  BY <1>7, <1>8 DEF NoStrandedClient
<1> QED
  BY <1>10, <1>11, <1>12, <1>13, <1>14, <1>15, <1>16, <1>17, <1>18,
     <1>19, <1>20

LEMMA CloseStartClosedKeeps ==
  ASSUME IInv, NEW t \in Tasks, CloseStart(t), control.state = "closed"
  PROVE  IInv'
<1> USE DEF IInv
<1>1. /\ None \notin Tasks /\ call \in [Tasks -> CallType] /\ commands \in Seq(Tasks) /\ FrameType
      /\ control \in ControlType /\ clients \in ClientsType /\ uv \in UvType
  BY Types, TcpAssumption
<1>2. Placed(t) /\ Waits(t) /\ Uses(t) /\ Told(t)
  BY At1
<1>3. commands # << >> /\ t = Head(commands) /\ commands' = Tail(commands)
  BY DEF CloseStart, Starts
<1>4. /\ IOnce' /\ commands' \in Seq(Tasks) /\ Queued(t) /\ ~Queued(t)'
      /\ \A v \in Tasks : v # t => (Queued(v)' <=> Queued(v))
  BY <1>3, <1>1, Popped
<1>5. call[t].op \in {"close", "discard"}
  BY DEF CloseStart, Starts, StartsOpen
<1>6. "ok" \in Statuses
  BY Names DEF Results
<1>7. /\ call' \in [Tasks -> CallType]
      /\ \A v \in Tasks : v # t => call'[v] = call[v]
      /\ call'[t].op = call[t].op /\ call'[t].at = "woken"
      /\ call'[t].deadline = call[t].deadline /\ call'[t].outcome = call[t].outcome
      /\ call'[t].status = "ok" /\ call'[t].client = call[t].client
      /\ call'[t].met = call[t].met
  <2>1. PICK r0 \in CallType : r0 = call[t]
    BY <1>1
  <2> DEFINE d == [r0 EXCEPT !.at = "woken", !.status = "ok"]
  <2>2. /\ d \in CallType
        /\ d.op = r0.op /\ d.at = "woken" /\ d.deadline = r0.deadline /\ d.outcome = r0.outcome
        /\ d.status = "ok" /\ d.client = r0.client /\ d.met = r0.met
    BY <1>6 DEF CallType
  <2>3. call' = [call EXCEPT ![t] = d]
    BY <2>1 DEF CloseStart, Answer
  <2> HIDE DEF d
  <2> QED
    BY <1>1, <2>1, <2>2, <2>3
<1>8. /\ control' = control /\ clients' = clients /\ uv' = uv
  BY DEF CloseStart, onLoop
<1>9. /\ FrameType'
      /\ busy' = busy /\ status' = status /\ users' = users /\ memory' = memory
  BY <1>1 DEF CloseStart, FrameType, ofTasks, capability
<1>10. TypeOK'
  BY <1>1, <1>4, <1>7, <1>8, <1>9, TypesNext
<1>11. IOnce'
  BY <1>4
<1>12. IPlaces'
  <2> SUFFICES ASSUME NEW x \in Tasks
               PROVE  Placed(x)'
    BY DEF IPlaces
  <2>1. Placed(x) /\ Waits(x) /\ Uses(x) /\ Told(x)
    BY At1
  <2> QED
    BY <1>4, <1>7, <1>8, <2>1 DEF Placed
<1>13. IWaiting'
  <2> SUFFICES ASSUME NEW x \in Tasks
               PROVE  Waits(x)'
    BY DEF IWaiting
  <2>1. Placed(x) /\ Waits(x) /\ Uses(x) /\ Told(x)
    BY At1
  <2> QED
    BY <1>4, <1>7, <1>8, <2>1 DEF Waits, Placed
<1>14. IBusy'
  <2>1. \A v \in Tasks : \A op \in Exclusive : Inside(v, op)' =>
          Inside(v, op) /\ call'[v].met = call[v].met
    BY <1>5, <1>7 DEF Inside, Exclusive
  <2>2. ASSUME NEW v \in Tasks, NEW op \in Exclusive, Inside(v, op)', ~call'[v].met,
               call'[v].at # "passed"
        PROVE  busy'[op]
    BY <1>2, <1>4, <1>7, <1>9, <2>1, <2>2 DEF IBusy, Waits
  <2> QED
    BY <2>1, <2>2 DEF IBusy
<1>15. IUse'
  <2> SUFFICES ASSUME NEW x \in Tasks
               PROVE  Uses(x)'
    BY DEF IUse
  <2>1. Placed(x) /\ Waits(x) /\ Uses(x) /\ Told(x)
    BY At1
  <2> QED
    BY <1>5, <1>7, <1>9, <2>1 DEF Uses, Alone
<1>16. IMemory'
  BY <1>2, <1>5, <1>8, <1>9 DEF IMemory, Uses, Opening
<1>17. ILoop'
  BY <1>8 DEF ILoop
<1>18. ITimers'
  BY <1>7, <1>8, InPlace DEF ITimers
<1>19. ITold'
  <2> SUFFICES ASSUME NEW x \in Tasks
               PROVE  Told(x)'
    BY DEF ITold
  <2>1. Placed(x) /\ Waits(x) /\ Uses(x) /\ Told(x)
    BY At1
  <2> QED
    BY <1>7, <1>8, <2>1, Names DEF Told, Results
<1>20. NoStrandedClient'
  BY <1>7, <1>8, InPlace DEF NoStrandedClient
<1> QED
  BY <1>10, <1>11, <1>12, <1>13, <1>14, <1>15, <1>16, <1>17, <1>18,
     <1>19, <1>20

\* The callbacks of connect and shutdown.
LEMMA ConnectDoneKeeps ==
  ASSUME IInv, NEW t \in Tasks, NEW result \in Results, ConnectDone(t, result)
  PROVE  IInv'
<1> USE DEF IInv
<1>1. /\ None \notin Tasks /\ call \in [Tasks -> CallType] /\ commands \in Seq(Tasks) /\ FrameType
      /\ control \in ControlType /\ clients \in ClientsType /\ uv \in UvType
  BY Types, TcpAssumption
<1>2. Placed(t) /\ Waits(t) /\ Uses(t) /\ Told(t)
  BY At1
<1>3. t \in uv.requests /\ call[t].op = "connect"
  BY DEF ConnectDone
<1>4. result \in Statuses
  BY Names DEF Results
<1>5. /\ call' \in [Tasks -> CallType]
      /\ \A v \in Tasks : v # t => call'[v] = call[v]
      /\ call'[t].op = call[t].op /\ call'[t].at = "woken"
      /\ call'[t].deadline = call[t].deadline /\ call'[t].outcome = call[t].outcome
      /\ call'[t].status = result /\ call'[t].client = call[t].client
      /\ call'[t].met = call[t].met
  <2>1. PICK r0 \in CallType : r0 = call[t]
    BY <1>1
  <2> DEFINE d == [r0 EXCEPT !.at = "woken", !.status = result]
  <2>2. /\ d \in CallType
        /\ d.op = r0.op /\ d.at = "woken" /\ d.deadline = r0.deadline /\ d.outcome = r0.outcome
        /\ d.status = result /\ d.client = r0.client /\ d.met = r0.met
    BY <1>4 DEF CallType
  <2>3. call' = [call EXCEPT ![t] = d]
    BY <2>1 DEF ConnectDone, Answer
  <2> HIDE DEF d
  <2> QED
    BY <1>1, <2>1, <2>2, <2>3
<1>6. /\ control' = control /\ clients' = clients /\ uv' \in UvType /\ uv'.reading = uv.reading
      /\ uv'.listening = uv.listening /\ uv'.requests = uv.requests \ {t}
      /\ uv'.closing = uv.closing
  BY <1>1 DEF ConnectDone, UvType
<1>7. commands' = commands
  BY DEF ConnectDone
<1>8. /\ IOnce' /\ commands' \in Seq(Tasks)
      /\ \A v \in Tasks : Queued(v)' <=> Queued(v)
  BY <1>7, <1>1, Same
<1>9. /\ FrameType'
      /\ busy' = busy /\ status' = status /\ users' = users /\ memory' = memory
  BY <1>1 DEF ConnectDone, FrameType, ofTasks, capability
<1>10. TypeOK'
  BY <1>1, <1>5, <1>6, <1>8, <1>9, TypesNext
<1>11. IOnce'
  BY <1>8
<1>12. IPlaces'
  <2> SUFFICES ASSUME NEW x \in Tasks
               PROVE  Placed(x)'
    BY DEF IPlaces
  <2>1. Placed(x) /\ Waits(x) /\ Uses(x) /\ Told(x)
    BY At1
  <2> QED
    BY <1>3, <1>5, <1>6, <1>8, <2>1 DEF Placed
<1>13. IWaiting'
  <2> SUFFICES ASSUME NEW x \in Tasks
               PROVE  Waits(x)'
    BY DEF IWaiting
  <2>1. Placed(x) /\ Waits(x) /\ Uses(x) /\ Told(x)
    BY At1
  <2> QED
    BY <1>3, <1>5, <1>6, <1>8, <2>1 DEF Waits, Placed
<1>14. IBusy'
  <2>1. \A v \in Tasks : \A op \in Exclusive : Inside(v, op)' =>
          Inside(v, op) /\ call'[v].met = call[v].met
    BY <1>3, <1>5 DEF Inside, Exclusive
  <2>2. ASSUME NEW v \in Tasks, NEW op \in Exclusive, Inside(v, op)', ~call'[v].met,
               call'[v].at # "passed"
        PROVE  busy'[op]
    BY <1>2, <1>3, <1>5, <1>9, <2>1, <2>2 DEF IBusy, Waits
  <2> QED
    BY <2>1, <2>2 DEF IBusy
<1>15. IUse'
  <2> SUFFICES ASSUME NEW x \in Tasks
               PROVE  Uses(x)'
    BY DEF IUse
  <2>1. Placed(x) /\ Waits(x) /\ Uses(x) /\ Told(x)
    BY At1
  <2> QED
    BY <1>3, <1>5, <1>9, <2>1 DEF Uses, Alone, Exclusive
<1>16. IMemory'
  BY <1>2, <1>3, <1>9 DEF IMemory, Uses, Opening
<1>17. ILoop'
  BY <1>6 DEF ILoop
<1>18. ITimers'
  BY <1>5, <1>6, InPlace DEF ITimers
<1>19. ITold'
  <2> SUFFICES ASSUME NEW x \in Tasks
               PROVE  Told(x)'
    BY DEF ITold
  <2>1. Placed(x) /\ Waits(x) /\ Uses(x) /\ Told(x)
    BY At1
  <2> QED
    BY <1>3, <1>5, <1>6, <2>1, Names DEF Told, Results
<1>20. NoStrandedClient'
  BY <1>5, <1>6, InPlace DEF NoStrandedClient
<1> QED
  BY <1>10, <1>11, <1>12, <1>13, <1>14, <1>15, <1>16, <1>17, <1>18,
     <1>19, <1>20

LEMMA ShutdownDoneKeeps ==
  ASSUME IInv, NEW t \in Tasks, NEW result \in Results, ShutdownDone(t, result)
  PROVE  IInv'
<1> USE DEF IInv
<1>1. /\ None \notin Tasks /\ call \in [Tasks -> CallType] /\ commands \in Seq(Tasks) /\ FrameType
      /\ control \in ControlType /\ clients \in ClientsType /\ uv \in UvType
  BY Types, TcpAssumption
<1>2. Placed(t) /\ Waits(t) /\ Uses(t) /\ Told(t)
  BY At1
<1>3. t \in uv.requests /\ call[t].op = "shutdown"
  BY DEF ShutdownDone
<1>4. result \in Statuses
  BY Names DEF Results
<1>5. /\ call' \in [Tasks -> CallType]
      /\ \A v \in Tasks : v # t => call'[v] = call[v]
      /\ call'[t].op = call[t].op /\ call'[t].at = "woken"
      /\ call'[t].deadline = call[t].deadline /\ call'[t].outcome = call[t].outcome
      /\ call'[t].status = result /\ call'[t].client = call[t].client
      /\ call'[t].met = call[t].met
  <2>1. PICK r0 \in CallType : r0 = call[t]
    BY <1>1
  <2> DEFINE d == [r0 EXCEPT !.at = "woken", !.status = result]
  <2>2. /\ d \in CallType
        /\ d.op = r0.op /\ d.at = "woken" /\ d.deadline = r0.deadline /\ d.outcome = r0.outcome
        /\ d.status = result /\ d.client = r0.client /\ d.met = r0.met
    BY <1>4 DEF CallType
  <2>3. call' = [call EXCEPT ![t] = d]
    BY <2>1 DEF ShutdownDone, Answer
  <2> HIDE DEF d
  <2> QED
    BY <1>1, <2>1, <2>2, <2>3
<1>6. /\ control' = control /\ clients' = clients /\ uv' \in UvType /\ uv'.reading = uv.reading
      /\ uv'.listening = uv.listening /\ uv'.requests = uv.requests \ {t}
      /\ uv'.closing = uv.closing
  BY <1>1 DEF ShutdownDone, UvType
<1>7. commands' = commands
  BY DEF ShutdownDone
<1>8. /\ IOnce' /\ commands' \in Seq(Tasks)
      /\ \A v \in Tasks : Queued(v)' <=> Queued(v)
  BY <1>7, <1>1, Same
<1>9. /\ FrameType'
      /\ busy' = busy /\ status' = status /\ users' = users /\ memory' = memory
  BY <1>1 DEF ShutdownDone, FrameType, ofTasks, capability
<1>10. TypeOK'
  BY <1>1, <1>5, <1>6, <1>8, <1>9, TypesNext
<1>11. IOnce'
  BY <1>8
<1>12. IPlaces'
  <2> SUFFICES ASSUME NEW x \in Tasks
               PROVE  Placed(x)'
    BY DEF IPlaces
  <2>1. Placed(x) /\ Waits(x) /\ Uses(x) /\ Told(x)
    BY At1
  <2> QED
    BY <1>3, <1>5, <1>6, <1>8, <2>1 DEF Placed
<1>13. IWaiting'
  <2> SUFFICES ASSUME NEW x \in Tasks
               PROVE  Waits(x)'
    BY DEF IWaiting
  <2>1. Placed(x) /\ Waits(x) /\ Uses(x) /\ Told(x)
    BY At1
  <2> QED
    BY <1>3, <1>5, <1>6, <1>8, <2>1 DEF Waits, Placed
<1>14. IBusy'
  <2>1. \A v \in Tasks : \A op \in Exclusive : Inside(v, op)' =>
          Inside(v, op) /\ call'[v].met = call[v].met
    BY <1>3, <1>5 DEF Inside, Exclusive
  <2>2. ASSUME NEW v \in Tasks, NEW op \in Exclusive, Inside(v, op)', ~call'[v].met,
               call'[v].at # "passed"
        PROVE  busy'[op]
    BY <1>2, <1>3, <1>5, <1>9, <2>1, <2>2 DEF IBusy, Waits
  <2> QED
    BY <2>1, <2>2 DEF IBusy
<1>15. IUse'
  <2> SUFFICES ASSUME NEW x \in Tasks
               PROVE  Uses(x)'
    BY DEF IUse
  <2>1. Placed(x) /\ Waits(x) /\ Uses(x) /\ Told(x)
    BY At1
  <2> QED
    BY <1>2, <1>3, <1>5, <1>9, <2>1 DEF Uses, Leased
<1>16. IMemory'
  BY <1>2, <1>3, <1>5, <1>6, <1>9 DEF IMemory, Uses, Leased
<1>17. ILoop'
  BY <1>6 DEF ILoop
<1>18. ITimers'
  BY <1>5, <1>6, InPlace DEF ITimers
<1>19. ITold'
  <2> SUFFICES ASSUME NEW x \in Tasks
               PROVE  Told(x)'
    BY DEF ITold
  <2>1. Placed(x) /\ Waits(x) /\ Uses(x) /\ Told(x)
    BY At1
  <2> QED
    BY <1>3, <1>5, <1>6, <2>1, Names DEF Told, Results
<1>20. NoStrandedClient'
  BY <1>5, <1>6, InPlace DEF NoStrandedClient
<1> QED
  BY <1>10, <1>11, <1>12, <1>13, <1>14, <1>15, <1>16, <1>17, <1>18,
     <1>19, <1>20

\* A deadline passes.
LEMMA ElapseKeeps ==
  ASSUME IInv, NEW t \in Tasks, Elapse(t)
  PROVE  IInv'
<1> USE DEF IInv
<1>1. /\ None \notin Tasks /\ call \in [Tasks -> CallType] /\ commands \in Seq(Tasks) /\ FrameType
      /\ control \in ControlType /\ clients \in ClientsType /\ uv \in UvType
  BY Types, TcpAssumption
<1>2. Placed(t) /\ Waits(t) /\ Uses(t) /\ Told(t)
  BY At1
<1>3. call[t].deadline = "ahead"
  BY DEF Elapse
<1>4. /\ call' \in [Tasks -> CallType]
      /\ \A v \in Tasks : v # t => call'[v] = call[v]
      /\ call'[t].op = call[t].op /\ call'[t].at = call[t].at /\ call'[t].deadline = "past"
      /\ call'[t].outcome = call[t].outcome /\ call'[t].status = call[t].status
      /\ call'[t].client = call[t].client /\ call'[t].met = call[t].met
  BY <1>1 DEF Elapse, CallType
<1>5. /\ control' = control /\ clients' = clients /\ uv' = uv
  BY DEF Elapse, onLoop
<1>6. commands' = commands
  BY DEF Elapse
<1>7. /\ IOnce' /\ commands' \in Seq(Tasks)
      /\ \A v \in Tasks : Queued(v)' <=> Queued(v)
  BY <1>6, <1>1, Same
<1>8. /\ FrameType'
      /\ busy' = busy /\ status' = status /\ users' = users /\ memory' = memory
  BY <1>1 DEF Elapse, FrameType, ofTasks, capability
<1>9. TypeOK'
  BY <1>1, <1>4, <1>5, <1>7, <1>8, TypesNext
<1>10. IOnce'
  BY <1>7
<1>11. IPlaces'
  <2> SUFFICES ASSUME NEW x \in Tasks
               PROVE  Placed(x)'
    BY DEF IPlaces
  <2>1. Placed(x) /\ Waits(x) /\ Uses(x) /\ Told(x)
    BY At1
  <2> QED
    BY <1>4, <1>5, <1>7, <2>1 DEF Placed
<1>12. IWaiting'
  <2> SUFFICES ASSUME NEW x \in Tasks
               PROVE  Waits(x)'
    BY DEF IWaiting
  <2>1. Placed(x) /\ Waits(x) /\ Uses(x) /\ Told(x)
    BY At1
  <2> QED
    BY <1>4, <1>5, <1>7, <2>1 DEF Waits
<1>13. IBusy'
  <2>1. \A v \in Tasks : \A op \in Exclusive : Inside(v, op)' =>
          Inside(v, op) /\ call'[v].met = call[v].met
    BY <1>4 DEF Inside
  <2>2. ASSUME NEW v \in Tasks, NEW op \in Exclusive, Inside(v, op)', ~call'[v].met,
               call'[v].at # "passed"
        PROVE  busy'[op]
    BY <1>4, <1>8, <2>1, <2>2 DEF IBusy
  <2> QED
    BY <2>1, <2>2 DEF IBusy
<1>14. IUse'
  <2> SUFFICES ASSUME NEW x \in Tasks
               PROVE  Uses(x)'
    BY DEF IUse
  <2>1. Placed(x) /\ Waits(x) /\ Uses(x) /\ Told(x)
    BY At1
  <2> QED
    BY <1>4, <1>8, <2>1 DEF Uses, Alone, Opening, Leased
<1>15. IMemory'
  BY <1>4, <1>5, <1>8 DEF IMemory, NobodyCalls
<1>16. ILoop'
  BY <1>5 DEF ILoop
<1>17. ITimers'
  BY <1>4, <1>5, InPlace DEF ITimers
<1>18. ITold'
  <2> SUFFICES ASSUME NEW x \in Tasks
               PROVE  Told(x)'
    BY DEF ITold
  <2>1. Placed(x) /\ Waits(x) /\ Uses(x) /\ Told(x)
    BY At1
  <2> QED
    BY <1>4, <1>5, <2>1 DEF Told, Results
<1>19. NoStrandedClient'
  BY <1>4, <1>5, InPlace DEF NoStrandedClient
<1> QED
  BY <1>9, <1>10, <1>11, <1>12, <1>13, <1>14, <1>15, <1>16, <1>17,
     <1>18, <1>19

\* hex_tcp_read_settle, and the read timer.
LEMMA ReadCbKeeps ==
  ASSUME IInv, NEW t \in Tasks, NEW result \in Results, ReadCb(t, result)
  PROVE  IInv'
<1> USE DEF IInv
<1>1. /\ None \notin Tasks /\ call \in [Tasks -> CallType] /\ commands \in Seq(Tasks) /\ FrameType
      /\ control \in ControlType /\ clients \in ClientsType /\ uv \in UvType
  BY Types, TcpAssumption
<1>2. Placed(t) /\ Waits(t) /\ Uses(t) /\ Told(t)
  BY At1
<1>3. control.readOp = t
  BY DEF ReadCb
<1>4. call[t].op = "read" /\ call[t].at = "waiting" /\ control.state = "open"
  BY <1>2, <1>3 DEF Placed, Waits, ILoop
<1>5. result \in Statuses
  BY Names DEF Results
<1>6. /\ call' \in [Tasks -> CallType]
      /\ \A v \in Tasks : v # t => call'[v] = call[v]
      /\ call'[t].op = call[t].op /\ call'[t].at = "woken"
      /\ call'[t].deadline = call[t].deadline /\ call'[t].outcome = "done"
      /\ call'[t].status = result /\ call'[t].client = call[t].client
      /\ call'[t].met = call[t].met
  <2>1. PICK r0 \in CallType : r0 = call[t]
    BY <1>1
  <2> DEFINE d == [r0 EXCEPT !.at = "woken", !.outcome = "done", !.status = result]
  <2>2. /\ d \in CallType
        /\ d.op = r0.op /\ d.at = "woken" /\ d.deadline = r0.deadline /\ d.outcome = "done"
        /\ d.status = result /\ d.client = r0.client /\ d.met = r0.met
    BY <1>5 DEF CallType
  <2>3. call' = [call EXCEPT ![t] = d]
    BY <2>1 DEF ReadCb, ReadSettle
  <2> HIDE DEF d
  <2> QED
    BY <1>1, <2>1, <2>2, <2>3
<1>7. /\ control' \in ControlType /\ control'.state = control.state /\ control'.readOp = None
      /\ control'.writeOp = control.writeOp /\ control'.acceptCommand = control.acceptCommand
      /\ control'.closer = control.closer /\ control'.closePending = control.closePending
      /\ (control'.readTimer # "armed") /\ control'.writeTimer = control.writeTimer
      /\ clients' = clients /\ uv' \in UvType /\ uv'.listening = uv.listening
      /\ uv'.requests = uv.requests /\ uv'.closing = uv.closing
  BY <1>1 DEF ReadCb, ReadSettle, Stop, ControlType, Timers, UvType
<1>8. commands' = commands
  BY DEF ReadCb
<1>9. /\ IOnce' /\ commands' \in Seq(Tasks)
      /\ \A v \in Tasks : Queued(v)' <=> Queued(v)
  BY <1>8, <1>1, Same
<1>10. /\ FrameType'
      /\ busy' = busy /\ status' = status /\ users' = users /\ memory' = memory
  BY <1>1 DEF ReadCb, FrameType, ofTasks, capability
<1>11. \A v \in Tasks : call'[v].op = call[v].op
  BY <1>6
<1>12. TypeOK'
  BY <1>1, <1>6, <1>7, <1>9, <1>10, TypesNext
<1>13. IOnce'
  BY <1>9
<1>14. IPlaces'
  <2> SUFFICES ASSUME NEW x \in Tasks
               PROVE  Placed(x)'
    BY DEF IPlaces
  <2>1. Placed(x) /\ Waits(x) /\ Uses(x) /\ Told(x)
    BY At1
  <2>2. CASE x = t
    BY <1>3, <1>6, <1>7, <1>9, <2>1, <2>2 DEF Placed
  <2>3. CASE x # t
    <3>1. call'[x] = call[x]
      BY <2>3, <1>6
    <3> QED
      BY <1>1, <1>7, <1>9, <2>1, <3>1 DEF Placed
  <2> QED
    BY <2>2, <2>3
<1>15. IWaiting'
  <2> SUFFICES ASSUME NEW x \in Tasks
               PROVE  Waits(x)'
    BY DEF IWaiting
  <2>1. Placed(x) /\ Waits(x) /\ Uses(x) /\ Told(x)
    BY At1
  <2>2. CASE x = t
    BY <1>1, <1>3, <1>6, <1>7, <1>9, <2>1 DEF Waits, Placed
  <2>3. CASE x # t
    <3>1. call'[x] = call[x]
      BY <2>3, <1>6
    <3> QED
      BY <1>1, <1>3, <1>7, <1>9, <2>1, <2>3, <3>1 DEF Waits
  <2> QED
    BY <2>2, <2>3
<1>16. IBusy'
  <2>1. ASSUME NEW v \in Tasks, NEW op \in Exclusive, Inside(v, op)'
        PROVE  Inside(v, op) /\ call'[v].met = call[v].met
    <3>1. Placed(v) /\ Waits(v)
      BY At1
    <3>2. CASE v = t
      BY <1>4, <1>6, <2>1 DEF Inside
    <3>3. CASE v # t
      <4>1. call'[v] = call[v]
        BY <3>3, <1>6
      <4> QED
        BY <2>1, <4>1 DEF Inside
    <3> QED
      BY <3>2, <3>3
  <2>2. \A v \in Tasks : call'[v].at = "passed" <=> call[v].at = "passed"
    <3> SUFFICES ASSUME NEW v \in Tasks
                 PROVE  call'[v].at = "passed" <=> call[v].at = "passed"
      OBVIOUS
    <3>1. Placed(v) /\ Waits(v)
      BY At1
    <3>2. CASE v = t
      BY <1>4, <1>6
    <3>3. CASE v # t
      <4>1. call'[v] = call[v]
        BY <3>3, <1>6
      <4> QED
        BY <4>1
    <3> QED
      BY <3>2, <3>3
  <2> QED
    BY <1>10, <2>1, <2>2 DEF IBusy
<1>17. IUse'
  <2> SUFFICES ASSUME NEW x \in Tasks
               PROVE  Uses(x)'
    BY DEF IUse
  <2>1. Placed(x) /\ Waits(x) /\ Uses(x) /\ Told(x)
    BY At1
  <2>2. CASE x = t
    BY <1>4, <1>6, <1>10, <2>1, <2>2 DEF Uses, Leased, Exclusive
  <2>3. CASE x # t
    <3>1. call'[x] = call[x]
      BY <2>3, <1>6
    <3> QED
      BY <1>11, <1>10, <1>2, <1>4, <2>1, <3>1 DEF Uses, Leased, Exclusive
  <2> QED
    BY <2>2, <2>3
<1>18. IMemory'
  BY <1>2, <1>4, <1>6, <1>10 DEF IMemory, Uses, Leased, Exclusive
<1>19. ILoop'
  BY <1>4, <1>7 DEF ILoop
<1>20. ITimers'
  BY <1>6, <1>7, InPlace DEF ITimers
<1>21. ITold'
  <2> SUFFICES ASSUME NEW x \in Tasks
               PROVE  Told(x)'
    BY DEF ITold
  <2>1. Placed(x) /\ Waits(x) /\ Uses(x) /\ Told(x)
    BY At1
  <2>2. CASE x = t
    BY <1>4, <1>6, <2>2, Names DEF Told, Results
  <2>3. CASE x # t
    <3>1. call'[x] = call[x]
      BY <2>3, <1>6
    <3> QED
      BY <1>7, <2>1, <3>1 DEF Told
  <2> QED
    BY <2>2, <2>3
<1>22. NoStrandedClient'
  BY <1>6, <1>7, InPlace DEF NoStrandedClient
<1> QED
  BY <1>12, <1>13, <1>14, <1>15, <1>16, <1>17, <1>18, <1>19, <1>20,
     <1>21, <1>22

LEMMA ReadTimerFiredKeeps ==
  ASSUME IInv, NEW t \in Tasks, ReadTimerFired(t)
  PROVE  IInv'
<1> USE DEF IInv
<1>1. /\ None \notin Tasks /\ call \in [Tasks -> CallType] /\ commands \in Seq(Tasks) /\ FrameType
      /\ control \in ControlType /\ clients \in ClientsType /\ uv \in UvType
  BY Types, TcpAssumption
<1>2. Placed(t) /\ Waits(t) /\ Uses(t) /\ Told(t)
  BY At1
<1>3. control.readOp = t /\ call[t].deadline # "ahead" /\ control.readTimer = "armed"
  BY DEF ReadTimerFired
<1>4. call[t].op = "read" /\ call[t].at = "waiting" /\ control.state = "open"
  BY <1>2, <1>3 DEF Placed, Waits, ILoop
<1>5. call[t].deadline = "past"
  BY <1>1, <1>3 DEF ITimers, CallType
<1>6. "ok" \in Statuses
  BY Names DEF Results
<1>7. /\ call' \in [Tasks -> CallType]
      /\ \A v \in Tasks : v # t => call'[v] = call[v]
      /\ call'[t].op = call[t].op /\ call'[t].at = "woken"
      /\ call'[t].deadline = call[t].deadline /\ call'[t].outcome = "deadline"
      /\ call'[t].status = "ok" /\ call'[t].client = call[t].client
      /\ call'[t].met = call[t].met
  <2>1. PICK r0 \in CallType : r0 = call[t]
    BY <1>1
  <2> DEFINE d == [r0 EXCEPT !.at = "woken", !.outcome = "deadline", !.status = "ok"]
  <2>2. /\ d \in CallType
        /\ d.op = r0.op /\ d.at = "woken" /\ d.deadline = r0.deadline /\ d.outcome = "deadline"
        /\ d.status = "ok" /\ d.client = r0.client /\ d.met = r0.met
    BY <1>6 DEF CallType
  <2>3. call' = [call EXCEPT ![t] = d]
    BY <2>1 DEF ReadTimerFired, ReadSettle
  <2> HIDE DEF d
  <2> QED
    BY <1>1, <2>1, <2>2, <2>3
<1>8. /\ control' \in ControlType /\ control'.state = control.state /\ control'.readOp = None
      /\ control'.writeOp = control.writeOp /\ control'.acceptCommand = control.acceptCommand
      /\ control'.closer = control.closer /\ control'.closePending = control.closePending
      /\ (control'.readTimer # "armed") /\ control'.writeTimer = control.writeTimer
      /\ clients' = clients /\ uv' \in UvType /\ uv'.listening = uv.listening
      /\ uv'.requests = uv.requests /\ uv'.closing = uv.closing
  BY <1>1
     DEF ReadTimerFired, ReadSettle, Stop, ControlType, Timers, UvType, onLoop
<1>9. commands' = commands
  BY DEF ReadTimerFired
<1>10. /\ IOnce' /\ commands' \in Seq(Tasks)
      /\ \A v \in Tasks : Queued(v)' <=> Queued(v)
  BY <1>9, <1>1, Same
<1>11. /\ FrameType'
      /\ busy' = busy /\ status' = status /\ users' = users /\ memory' = memory
  BY <1>1 DEF ReadTimerFired, FrameType, ofTasks, capability
<1>12. \A v \in Tasks : call'[v].op = call[v].op
  BY <1>7
<1>13. TypeOK'
  BY <1>1, <1>7, <1>8, <1>10, <1>11, TypesNext
<1>14. IOnce'
  BY <1>10
<1>15. IPlaces'
  <2> SUFFICES ASSUME NEW x \in Tasks
               PROVE  Placed(x)'
    BY DEF IPlaces
  <2>1. Placed(x) /\ Waits(x) /\ Uses(x) /\ Told(x)
    BY At1
  <2>2. CASE x = t
    BY <1>3, <1>7, <1>8, <1>10, <2>1, <2>2 DEF Placed
  <2>3. CASE x # t
    <3>1. call'[x] = call[x]
      BY <2>3, <1>7
    <3> QED
      BY <1>1, <1>8, <1>10, <2>1, <3>1 DEF Placed
  <2> QED
    BY <2>2, <2>3
<1>16. IWaiting'
  <2> SUFFICES ASSUME NEW x \in Tasks
               PROVE  Waits(x)'
    BY DEF IWaiting
  <2>1. Placed(x) /\ Waits(x) /\ Uses(x) /\ Told(x)
    BY At1
  <2>2. CASE x = t
    BY <1>1, <1>3, <1>7, <1>8, <1>10, <2>1 DEF Waits, Placed
  <2>3. CASE x # t
    <3>1. call'[x] = call[x]
      BY <2>3, <1>7
    <3> QED
      BY <1>1, <1>3, <1>8, <1>10, <2>1, <2>3, <3>1 DEF Waits
  <2> QED
    BY <2>2, <2>3
<1>17. IBusy'
  <2>1. ASSUME NEW v \in Tasks, NEW op \in Exclusive, Inside(v, op)'
        PROVE  Inside(v, op) /\ call'[v].met = call[v].met
    <3>1. Placed(v) /\ Waits(v)
      BY At1
    <3>2. CASE v = t
      BY <1>4, <1>7, <2>1 DEF Inside
    <3>3. CASE v # t
      <4>1. call'[v] = call[v]
        BY <3>3, <1>7
      <4> QED
        BY <2>1, <4>1 DEF Inside
    <3> QED
      BY <3>2, <3>3
  <2>2. \A v \in Tasks : call'[v].at = "passed" <=> call[v].at = "passed"
    <3> SUFFICES ASSUME NEW v \in Tasks
                 PROVE  call'[v].at = "passed" <=> call[v].at = "passed"
      OBVIOUS
    <3>1. Placed(v) /\ Waits(v)
      BY At1
    <3>2. CASE v = t
      BY <1>4, <1>7
    <3>3. CASE v # t
      <4>1. call'[v] = call[v]
        BY <3>3, <1>7
      <4> QED
        BY <4>1
    <3> QED
      BY <3>2, <3>3
  <2> QED
    BY <1>11, <2>1, <2>2 DEF IBusy
<1>18. IUse'
  <2> SUFFICES ASSUME NEW x \in Tasks
               PROVE  Uses(x)'
    BY DEF IUse
  <2>1. Placed(x) /\ Waits(x) /\ Uses(x) /\ Told(x)
    BY At1
  <2>2. CASE x = t
    BY <1>4, <1>7, <1>11, <2>1, <2>2 DEF Uses, Leased, Exclusive
  <2>3. CASE x # t
    <3>1. call'[x] = call[x]
      BY <2>3, <1>7
    <3> QED
      BY <1>12, <1>11, <1>2, <1>4, <2>1, <3>1 DEF Uses, Leased, Exclusive
  <2> QED
    BY <2>2, <2>3
<1>19. IMemory'
  BY <1>2, <1>4, <1>7, <1>11 DEF IMemory, Uses, Leased, Exclusive
<1>20. ILoop'
  BY <1>8 DEF ILoop
<1>21. ITimers'
  BY <1>7, <1>8, InPlace DEF ITimers
<1>22. ITold'
  <2> SUFFICES ASSUME NEW x \in Tasks
               PROVE  Told(x)'
    BY DEF ITold
  <2>1. Placed(x) /\ Waits(x) /\ Uses(x) /\ Told(x)
    BY At1
  <2>2. CASE x = t
    BY <1>4, <1>5, <1>7, <2>2, Names DEF Told
  <2>3. CASE x # t
    <3>1. call'[x] = call[x]
      BY <2>3, <1>7
    <3> QED
      BY <1>8, <2>1, <3>1 DEF Told
  <2> QED
    BY <2>2, <2>3
<1>23. NoStrandedClient'
  BY <1>7, <1>8, InPlace DEF NoStrandedClient
<1> QED
  BY <1>13, <1>14, <1>15, <1>16, <1>17, <1>18, <1>19, <1>20, <1>21,
     <1>22, <1>23

\* hex_tcp_write_done, with and without a close by the write timer.
LEMMA WriteDoneKeeps ==
  ASSUME IInv, NEW t \in Tasks, NEW result \in Results, WriteDone(t, result)
  PROVE  IInv'
<1> USE DEF IInv
<1>1. /\ None \notin Tasks /\ call \in [Tasks -> CallType] /\ commands \in Seq(Tasks) /\ FrameType
      /\ control \in ControlType /\ clients \in ClientsType /\ uv \in UvType
  BY Types, TcpAssumption
<1>2. Placed(t) /\ Waits(t) /\ Uses(t) /\ Told(t)
  BY At1
<1>3. t \in uv.requests /\ call[t].op = "write"
  BY DEF WriteDone
<1>4. PICK r \in {"ok", "failed", TimedOut, "closed"} :
        /\ Answer(t, r)
        /\ r = TimedOut => call[t].outcome = "deadline"
        /\ r = "closed" => call[t].outcome = "closed"
  <2>1. CASE call[t].outcome = "deadline"
    <3>1. Answer(t, TimedOut)
      BY <2>1 DEF WriteDone, TimedOut
    <3> QED
      BY <2>1, <3>1, Names
  <2>2. CASE call[t].outcome = "closed"
    <3>1. Answer(t, "closed")
      BY <2>2 DEF WriteDone
    <3> QED
      BY <2>2, <3>1, Names
  <2>3. CASE call[t].outcome # "deadline" /\ call[t].outcome # "closed"
    <3>1. Answer(t, result)
      BY <2>3 DEF WriteDone
    <3>2. result \in {"ok", "failed"}
      BY DEF Results
    <3> QED
      BY <3>1, <3>2, Names
  <2> QED
    BY <2>1, <2>2, <2>3
<1>5. r \in Statuses
  BY Names
<1>6. /\ call' \in [Tasks -> CallType]
      /\ \A v \in Tasks : v # t => call'[v] = call[v]
      /\ call'[t].op = call[t].op /\ call'[t].at = "woken"
      /\ call'[t].deadline = call[t].deadline /\ call'[t].outcome = call[t].outcome
      /\ call'[t].status = r /\ call'[t].client = call[t].client /\ call'[t].met = call[t].met
  <2>1. PICK r0 \in CallType : r0 = call[t]
    BY <1>1
  <2> DEFINE d == [r0 EXCEPT !.at = "woken", !.status = r]
  <2>2. /\ d \in CallType
        /\ d.op = r0.op /\ d.at = "woken" /\ d.deadline = r0.deadline /\ d.outcome = r0.outcome
        /\ d.status = r /\ d.client = r0.client /\ d.met = r0.met
    BY <1>5 DEF CallType
  <2>3. call' = [call EXCEPT ![t] = d]
    BY <1>4, <2>1 DEF Answer
  <2> HIDE DEF d
  <2> QED
    BY <1>1, <2>1, <2>2, <2>3
<1>7. /\ control' \in ControlType /\ control'.state = control.state
      /\ control'.readOp = control.readOp /\ control'.writeOp = None
      /\ control'.acceptCommand = control.acceptCommand /\ control'.closer = control.closer
      /\ control'.closePending = control.closePending /\ control'.readTimer = control.readTimer
      /\ (control'.writeTimer # "armed") /\ clients' = clients /\ uv' \in UvType
      /\ uv'.reading = uv.reading /\ uv'.listening = uv.listening
      /\ uv'.requests = uv.requests \ {t} /\ uv'.closing = uv.closing
  BY <1>1 DEF WriteDone, Stop, ILoop, ControlType, Timers, UvType
<1>8. commands' = commands
  BY DEF WriteDone
<1>9. /\ IOnce' /\ commands' \in Seq(Tasks)
      /\ \A v \in Tasks : Queued(v)' <=> Queued(v)
  BY <1>8, <1>1, Same
<1>10. /\ FrameType'
      /\ busy' = busy /\ status' = status /\ users' = users /\ memory' = memory
  BY <1>1 DEF WriteDone, FrameType, ofTasks, capability
<1>11. TypeOK'
  BY <1>1, <1>6, <1>7, <1>9, <1>10, TypesNext
<1>12. IOnce'
  BY <1>9
<1>13. IPlaces'
  <2> SUFFICES ASSUME NEW x \in Tasks
               PROVE  Placed(x)'
    BY DEF IPlaces
  <2>1. Placed(x) /\ Waits(x) /\ Uses(x) /\ Told(x)
    BY At1
  <2> QED
    BY <1>1, <1>6, <1>7, <1>9, <2>1 DEF Placed
<1>14. IWaiting'
  <2> SUFFICES ASSUME NEW x \in Tasks
               PROVE  Waits(x)'
    BY DEF IWaiting
  <2>1. Placed(x) /\ Waits(x) /\ Uses(x) /\ Told(x)
    BY At1
  <2> QED
    BY <1>3, <1>6, <1>7, <1>9, <2>1 DEF Waits, Placed
<1>15. IBusy'
  <2>1. \A v \in Tasks : \A op \in Exclusive : Inside(v, op)' =>
          Inside(v, op) /\ call'[v].met = call[v].met
    BY <1>2, <1>3, <1>6 DEF Inside, Waits
  <2>2. ASSUME NEW v \in Tasks, NEW op \in Exclusive, Inside(v, op)', ~call'[v].met,
               call'[v].at # "passed"
        PROVE  busy'[op]
    BY <1>2, <1>3, <1>6, <1>10, <2>1, <2>2 DEF IBusy, Waits
  <2> QED
    BY <2>1, <2>2 DEF IBusy
<1>16. IUse'
  <2> SUFFICES ASSUME NEW x \in Tasks
               PROVE  Uses(x)'
    BY DEF IUse
  <2>1. Placed(x) /\ Waits(x) /\ Uses(x) /\ Told(x)
    BY At1
  <2> QED
    BY <1>3, <1>6, <1>10, <2>1 DEF Uses, Alone, Opening, Exclusive, FrameType
<1>17. IMemory'
  BY <1>2, <1>3, <1>6, <1>7, <1>10 DEF IMemory, Uses, Leased, Exclusive
<1>18. ILoop'
  BY <1>7 DEF ILoop
<1>19. ITimers'
  BY <1>6, <1>7, InPlace DEF ITimers
<1>20. ITold'
  <2> SUFFICES ASSUME NEW x \in Tasks
               PROVE  Told(x)'
    BY DEF ITold
  <2>1. Placed(x) /\ Waits(x) /\ Uses(x) /\ Told(x)
    BY At1
  <2> QED
    BY <1>3, <1>4, <1>6, <1>7, <2>1 DEF Told
<1>21. NoStrandedClient'
  BY <1>6, <1>7, InPlace DEF NoStrandedClient
<1> QED
  BY <1>11, <1>12, <1>13, <1>14, <1>15, <1>16, <1>17, <1>18, <1>19,
     <1>20, <1>21

LEMMA WriteLateKeeps ==
  ASSUME IInv, NEW t \in Tasks, WriteLate(t)
  PROVE  IInv'
<1> USE DEF IInv
<1>1. /\ None \notin Tasks /\ call \in [Tasks -> CallType] /\ commands \in Seq(Tasks) /\ FrameType
      /\ control \in ControlType /\ clients \in ClientsType /\ uv \in UvType
  BY Types, TcpAssumption
<1>2. Placed(t) /\ Waits(t) /\ Uses(t) /\ Told(t)
  BY At1
<1>3. commands # << >> /\ t = Head(commands) /\ commands' = Tail(commands)
  BY DEF WriteLate, Starts, StartsOpen
<1>4. /\ IOnce' /\ commands' \in Seq(Tasks) /\ Queued(t) /\ ~Queued(t)'
      /\ \A v \in Tasks : v # t => (Queued(v)' <=> Queued(v))
  BY <1>3, <1>1, Popped
<1>5. call[t].op = "write" /\ control.state = "open" /\ call[t].deadline = "past"
  BY DEF WriteLate, Starts, StartsOpen
<1>6. control.closer = None
  BY <1>5 DEF ILoop
<1>7. PICK calls :
        /\ calls \in [Tasks -> CallType]
        /\ BeginClose(None, calls)
        /\ \A v \in Tasks : v # t => calls[v] = call[v]
        /\ calls[t].op = call[t].op /\ calls[t].at = "woken"
        /\ calls[t].deadline = call[t].deadline /\ calls[t].outcome = call[t].outcome
        /\ calls[t].status = TimedOut /\ calls[t].client = call[t].client
        /\ calls[t].met = call[t].met
  <2> DEFINE cs == [call EXCEPT ![t].at = "woken", ![t].status = TimedOut]
  <2>1. BeginClose(None, cs)
    BY <1>1, <1>2, <1>4, <1>5, <1>6 DEF WriteLate, StartsOpen, TimedOut
  <2>2. PICK r0 \in CallType : r0 = call[t]
    BY <1>1
  <2> DEFINE d == [r0 EXCEPT !.at = "woken", !.status = TimedOut]
  <2>3. /\ d \in CallType /\ d.op = r0.op /\ d.at = "woken" /\ d.deadline = r0.deadline
        /\ d.outcome = r0.outcome /\ d.status = TimedOut /\ d.client = r0.client /\ d.met = r0.met
    BY Names DEF CallType
  <2>4. cs = [call EXCEPT ![t] = d]
    BY <2>2, <1>1
  <2> HIDE DEF d
  <2>5. /\ cs \in [Tasks -> CallType]
        /\ \A v \in Tasks : v # t => cs[v] = call[v]
        /\ cs[t].op = call[t].op /\ cs[t].at = "woken" /\ cs[t].deadline = call[t].deadline
        /\ cs[t].outcome = call[t].outcome /\ cs[t].status = TimedOut
        /\ cs[t].client = call[t].client /\ cs[t].met = call[t].met
    BY <1>1, <2>2, <2>3, <2>4
  <2> HIDE DEF cs
  <2> QED
    BY <2>1, <2>5
<1>8. /\ control' \in ControlType
      /\ control'.state = "closing" /\ control'.closer = None
      /\ control'.readOp = None /\ control'.acceptCommand = None
      /\ control'.writeOp = control.writeOp
      /\ control'.readTimer # "armed" /\ control'.writeTimer # "armed"
      /\ clients' \in ClientsType /\ clients'.held = 0 /\ ~clients'.pending
      /\ uv' \in UvType /\ uv'.requests = uv.requests
      /\ uv'.closing # {} /\ control'.closePending = Cardinality(uv'.closing)
      /\ call' \in [Tasks -> CallType]
  BY <1>7, CloseFacts
<1>9. /\ \A v \in Tasks : v # t => Kept(v)
      /\ call'[t].op = call[t].op /\ call'[t].at = "woken" /\ call'[t].deadline = call[t].deadline
      /\ call'[t].status = TimedOut /\ call'[t].client = call[t].client
      /\ call'[t].met = call[t].met
      /\ call'[t].outcome \in {call[t].outcome, "closed"}
  <2>1. ASSUME NEW v \in Tasks
        PROVE  /\ call'[v].op = calls[v].op /\ call'[v].deadline = calls[v].deadline
               /\ call'[v].status = calls[v].status /\ call'[v].client = calls[v].client
               /\ call'[v].met = calls[v].met
               /\ v = control.readOp \/ v = control.acceptCommand => call'[v].at = "woken"
               /\ v # control.readOp /\ v # control.acceptCommand => call'[v].at = calls[v].at
               /\ call'[v].outcome \in {calls[v].outcome, "closed"}
    BY <1>7, CloseFacts
  <2>2. ASSUME NEW v \in Tasks, v # t
        PROVE  Kept(v)
    <3>1. calls[v] = call[v]
      BY <1>7, <2>2
    <3> QED
      BY <2>1, <3>1 DEF Kept
  <2>3. t # control.readOp /\ t # control.acceptCommand
    BY <1>1, <1>2, <1>4, <1>5, <1>6 DEF Placed
  <2>4. /\ call'[t].op = calls[t].op /\ call'[t].deadline = calls[t].deadline
        /\ call'[t].status = calls[t].status /\ call'[t].client = calls[t].client
        /\ call'[t].met = calls[t].met
        /\ call'[t].at = calls[t].at /\ call'[t].outcome \in {calls[t].outcome, "closed"}
    BY <2>1, <2>3
  <2>5. /\ call'[t].op = call[t].op /\ call'[t].at = "woken"
        /\ call'[t].deadline = call[t].deadline /\ call'[t].status = TimedOut
        /\ call'[t].client = call[t].client /\ call'[t].met = call[t].met
    BY <2>4, <1>7
  <2>6. call'[t].outcome \in {call[t].outcome, "closed"}
    BY <2>4, <1>7
  <2> QED
    BY <2>2, <2>5, <2>6
<1>10. /\ FrameType'
      /\ busy' = busy /\ status' = status /\ users' = users /\ memory' = memory
  BY <1>1 DEF WriteLate, FrameType, ofTasks, capability
<1>11. \A v \in Tasks : call'[v].op = call[v].op
  BY <1>9 DEF Kept
<1>12. TypeOK'
  BY <1>4, <1>8, <1>10, TypesNext
<1>13. IOnce'
  BY <1>4
<1>14. IPlaces'
  <2> SUFFICES ASSUME NEW x \in Tasks
               PROVE  Placed(x)'
    BY DEF IPlaces
  <2>1. Placed(x) /\ Waits(x) /\ Uses(x) /\ Told(x)
    BY At1
  <2>2. CASE x = t
    BY <1>4, <1>6, <1>8, <2>1, <2>2 DEF Placed
  <2>3. CASE x # t
    <3>1. Kept(x)
      BY <2>3, <1>9
    <3> QED
      BY <1>1, <1>4, <1>8, <2>1, <3>1 DEF Kept, Placed
  <2> QED
    BY <2>2, <2>3
<1>15. IWaiting'
  <2> SUFFICES ASSUME NEW x \in Tasks
               PROVE  Waits(x)'
    BY DEF IWaiting
  <2>1. Placed(x) /\ Waits(x) /\ Uses(x) /\ Told(x)
    BY At1
  <2>2. CASE x = t
    BY <1>4, <1>6, <1>8, <1>9, <2>1, <2>2 DEF Waits, Placed
  <2>3. CASE x # t
    <3>1. Kept(x)
      BY <2>3, <1>9
    <3> QED
      BY <1>4, <1>6, <1>8, <2>1, <2>3, <3>1 DEF Kept, Waits, Placed
  <2> QED
    BY <2>2, <2>3
<1>16. IBusy'
  <2>1. ASSUME NEW v \in Tasks, NEW op \in Exclusive, Inside(v, op)'
        PROVE  Inside(v, op) /\ call'[v].met = call[v].met
    <3>1. Placed(v) /\ Waits(v)
      BY At1
    <3>2. CASE v = t
      BY <1>4, <1>9, <2>1, <3>1, <3>2 DEF Inside, Waits
    <3>3. CASE v # t
      <4>1. Kept(v)
        BY <3>3, <1>9
      <4> QED
        BY <2>1, <3>1, <4>1 DEF Inside, Waits, Kept
    <3> QED
      BY <3>2, <3>3
  <2>2. \A v \in Tasks : call'[v].at = "passed" <=> call[v].at = "passed"
    <3> SUFFICES ASSUME NEW v \in Tasks
                 PROVE  call'[v].at = "passed" <=> call[v].at = "passed"
      OBVIOUS
    <3>1. Placed(v) /\ Waits(v)
      BY At1
    <3>2. CASE v = t
      BY <1>4, <1>9, <3>1, <3>2 DEF Waits
    <3>3. CASE v # t
      <4>1. Kept(v)
        BY <3>3, <1>9
      <4> QED
        BY <3>1, <4>1 DEF Waits, Kept
    <3> QED
      BY <3>2, <3>3
  <2> QED
    BY <1>10, <2>1, <2>2 DEF IBusy
<1>17. IUse'
  <2> SUFFICES ASSUME NEW x \in Tasks
               PROVE  Uses(x)'
    BY DEF IUse
  <2>1. Placed(x) /\ Waits(x) /\ Uses(x) /\ Told(x)
    BY At1
  <2>2. CASE x = t
    BY <1>5, <1>9, <1>10, <2>1, <2>2 DEF Uses, Leased, Exclusive
  <2>3. CASE x # t
    <3>1. Kept(x)
      BY <2>3, <1>9
    <3> QED
      BY <1>11, <1>10, <1>2, <1>5, <2>1, <3>1
         DEF Kept, Uses, Leased, Exclusive, Waits
  <2> QED
    BY <2>2, <2>3
<1>18. IMemory'
  BY <1>2, <1>5, <1>9, <1>10 DEF Kept, IMemory, Uses, Leased, Exclusive
<1>19. ILoop'
  BY <1>8 DEF ILoop
<1>20. ITimers'
  BY <1>8 DEF ITimers
<1>21. ITold'
  <2> SUFFICES ASSUME NEW x \in Tasks
               PROVE  Told(x)'
    BY DEF ITold
  <2>1. Placed(x) /\ Waits(x) /\ Uses(x) /\ Told(x)
    BY At1
  <2>2. CASE x = t
    BY <1>5, <1>8, <1>9, <2>2 DEF Told, Results
  <2>3. CASE x # t
    <3>1. Kept(x)
      BY <2>3, <1>9
    <3>2. call[x] \in CallType
      BY <1>1
    <3> QED
      BY <1>5, <1>8, <2>1, <3>1 DEF Kept, Told, Results, Placed
  <2> QED
    BY <2>2, <2>3
<1>22. NoStrandedClient'
  BY <1>8 DEF NoStrandedClient
<1> QED
  BY <1>12, <1>13, <1>14, <1>15, <1>16, <1>17, <1>18, <1>19, <1>20,
     <1>21, <1>22

\* hex_tcp_close_start on an open socket.
LEMMA CloseStartOpenKeeps ==
  ASSUME IInv, NEW t \in Tasks, CloseStart(t), control.state = "open"
  PROVE  IInv'
<1> USE DEF IInv
<1>1. /\ None \notin Tasks /\ call \in [Tasks -> CallType] /\ commands \in Seq(Tasks) /\ FrameType
      /\ control \in ControlType /\ clients \in ClientsType /\ uv \in UvType
  BY Types, TcpAssumption
<1>2. Placed(t) /\ Waits(t) /\ Uses(t) /\ Told(t)
  BY At1
<1>3. commands # << >> /\ t = Head(commands) /\ commands' = Tail(commands)
  BY DEF CloseStart, Starts, StartsOpen
<1>4. /\ IOnce' /\ commands' \in Seq(Tasks) /\ Queued(t) /\ ~Queued(t)'
      /\ \A v \in Tasks : v # t => (Queued(v)' <=> Queued(v))
  BY <1>3, <1>1, Popped
<1>5. call[t].op \in {"close", "discard"} /\ control.state = "open"
  BY DEF CloseStart, Starts
<1>6. control.closer = None
  BY DEF ILoop
<1>7. PICK calls :
        /\ calls \in [Tasks -> CallType]
        /\ BeginClose(t, calls)
        /\ \A v \in Tasks : v # t => calls[v] = call[v]
        /\ calls[t].op = call[t].op /\ calls[t].at = call[t].at
        /\ calls[t].deadline = call[t].deadline /\ calls[t].outcome = call[t].outcome
        /\ calls[t].status = call[t].status /\ calls[t].client = call[t].client
        /\ calls[t].met = call[t].met
  <2> DEFINE cs == call
  <2>1. BeginClose(t, cs)
    BY <1>1, <1>2, <1>4, <1>5, <1>6 DEF CloseStart, StartsOpen, TimedOut
  <2>2. PICK r0 \in CallType : r0 = call[t]
    BY <1>1
  <2> DEFINE d == r0
  <2>3. /\ d \in CallType /\ d.op = r0.op /\ d.at = r0.at /\ d.deadline = r0.deadline
        /\ d.outcome = r0.outcome /\ d.status = r0.status /\ d.client = r0.client
        /\ d.met = r0.met
    BY Names DEF CallType
  <2>4. cs = [call EXCEPT ![t] = d]
    BY <2>2, <1>1
  <2> HIDE DEF d
  <2>5. /\ cs \in [Tasks -> CallType]
        /\ \A v \in Tasks : v # t => cs[v] = call[v]
        /\ cs[t].op = call[t].op /\ cs[t].at = call[t].at /\ cs[t].deadline = call[t].deadline
        /\ cs[t].outcome = call[t].outcome /\ cs[t].status = call[t].status
        /\ cs[t].client = call[t].client /\ cs[t].met = call[t].met
    BY <1>1, <2>2, <2>3, <2>4
  <2> HIDE DEF cs
  <2> QED
    BY <2>1, <2>5
<1>8. /\ control' \in ControlType
      /\ control'.state = "closing" /\ control'.closer = t
      /\ control'.readOp = None /\ control'.acceptCommand = None
      /\ control'.writeOp = control.writeOp
      /\ control'.readTimer # "armed" /\ control'.writeTimer # "armed"
      /\ clients' \in ClientsType /\ clients'.held = 0 /\ ~clients'.pending
      /\ uv' \in UvType /\ uv'.requests = uv.requests
      /\ uv'.closing # {} /\ control'.closePending = Cardinality(uv'.closing)
      /\ call' \in [Tasks -> CallType]
  BY <1>7, CloseFacts
<1>9. /\ \A v \in Tasks : v # t => Kept(v)
      /\ call'[t].op = call[t].op /\ call'[t].at = call[t].at
      /\ call'[t].deadline = call[t].deadline /\ call'[t].status = call[t].status
      /\ call'[t].client = call[t].client /\ call'[t].met = call[t].met
      /\ call'[t].outcome \in {call[t].outcome, "closed"}
  <2>1. ASSUME NEW v \in Tasks
        PROVE  /\ call'[v].op = calls[v].op /\ call'[v].deadline = calls[v].deadline
               /\ call'[v].status = calls[v].status /\ call'[v].client = calls[v].client
               /\ call'[v].met = calls[v].met
               /\ v = control.readOp \/ v = control.acceptCommand => call'[v].at = "woken"
               /\ v # control.readOp /\ v # control.acceptCommand => call'[v].at = calls[v].at
               /\ call'[v].outcome \in {calls[v].outcome, "closed"}
    BY <1>7, CloseFacts
  <2>2. ASSUME NEW v \in Tasks, v # t
        PROVE  Kept(v)
    <3>1. calls[v] = call[v]
      BY <1>7, <2>2
    <3> QED
      BY <2>1, <3>1 DEF Kept
  <2>3. t # control.readOp /\ t # control.acceptCommand
    BY <1>1, <1>2, <1>4, <1>5, <1>6 DEF Placed
  <2>4. /\ call'[t].op = calls[t].op /\ call'[t].deadline = calls[t].deadline
        /\ call'[t].status = calls[t].status /\ call'[t].client = calls[t].client
        /\ call'[t].met = calls[t].met
        /\ call'[t].at = calls[t].at /\ call'[t].outcome \in {calls[t].outcome, "closed"}
    BY <2>1, <2>3
  <2>5. /\ call'[t].op = call[t].op /\ call'[t].at = call[t].at
        /\ call'[t].deadline = call[t].deadline /\ call'[t].status = call[t].status
        /\ call'[t].client = call[t].client /\ call'[t].met = call[t].met
    BY <2>4, <1>7
  <2>6. call'[t].outcome \in {call[t].outcome, "closed"}
    BY <2>4, <1>7
  <2> QED
    BY <2>2, <2>5, <2>6
<1>10. /\ FrameType'
      /\ busy' = busy /\ status' = status /\ users' = users /\ memory' = memory
  BY <1>1 DEF CloseStart, FrameType, ofTasks, capability
<1>11. \A v \in Tasks : call'[v].op = call[v].op
  BY <1>9 DEF Kept
<1>12. TypeOK'
  BY <1>4, <1>8, <1>10, TypesNext
<1>13. IOnce'
  BY <1>4
<1>14. IPlaces'
  <2> SUFFICES ASSUME NEW x \in Tasks
               PROVE  Placed(x)'
    BY DEF IPlaces
  <2>1. Placed(x) /\ Waits(x) /\ Uses(x) /\ Told(x)
    BY At1
  <2>2. CASE x = t
    BY <1>4, <1>5, <1>6, <1>8, <1>9, <2>1, <2>2 DEF Placed
  <2>3. CASE x # t
    <3>1. Kept(x)
      BY <2>3, <1>9
    <3> QED
      BY <1>1, <1>4, <1>8, <2>1, <2>3, <3>1 DEF Kept, Placed
  <2> QED
    BY <2>2, <2>3
<1>15. IWaiting'
  <2> SUFFICES ASSUME NEW x \in Tasks
               PROVE  Waits(x)'
    BY DEF IWaiting
  <2>1. Placed(x) /\ Waits(x) /\ Uses(x) /\ Told(x)
    BY At1
  <2>2. CASE x = t
    BY <1>4, <1>8, <1>9, <2>1, <2>2 DEF Waits
  <2>3. CASE x # t
    <3>1. Kept(x)
      BY <2>3, <1>9
    <3> QED
      BY <1>4, <1>6, <1>8, <2>1, <3>1 DEF Kept, Waits, Placed
  <2> QED
    BY <2>2, <2>3
<1>16. IBusy'
  <2>1. ASSUME NEW v \in Tasks, NEW op \in Exclusive, Inside(v, op)'
        PROVE  Inside(v, op) /\ call'[v].met = call[v].met
    <3>1. Placed(v) /\ Waits(v)
      BY At1
    <3>2. CASE v = t
      BY <1>9, <2>1, <3>2 DEF Inside
    <3>3. CASE v # t
      <4>1. Kept(v)
        BY <3>3, <1>9
      <4> QED
        BY <2>1, <3>1, <4>1 DEF Inside, Waits, Kept
    <3> QED
      BY <3>2, <3>3
  <2>2. \A v \in Tasks : call'[v].at = "passed" <=> call[v].at = "passed"
    <3> SUFFICES ASSUME NEW v \in Tasks
                 PROVE  call'[v].at = "passed" <=> call[v].at = "passed"
      OBVIOUS
    <3>1. Placed(v) /\ Waits(v)
      BY At1
    <3>2. CASE v = t
      BY <1>9, <3>2
    <3>3. CASE v # t
      <4>1. Kept(v)
        BY <3>3, <1>9
      <4> QED
        BY <3>1, <4>1 DEF Waits, Kept
    <3> QED
      BY <3>2, <3>3
  <2> QED
    BY <1>10, <2>1, <2>2 DEF IBusy
<1>17. IUse'
  <2> SUFFICES ASSUME NEW x \in Tasks
               PROVE  Uses(x)'
    BY DEF IUse
  <2>1. Placed(x) /\ Waits(x) /\ Uses(x) /\ Told(x)
    BY At1
  <2>2. CASE x = t
    BY <1>1, <1>9, <1>10, <1>11, <2>1, <2>2
       DEF Uses, Alone, Opening, Leased, Exclusive
  <2>3. CASE x # t
    <3>1. Kept(x)
      BY <2>3, <1>9
    <3> QED
      BY <1>11, <1>10, <2>1, <3>1 DEF Kept, Uses, Alone, Waits
  <2> QED
    BY <2>2, <2>3
<1>18. IMemory'
  BY <1>2, <1>5, <1>9, <1>10 DEF IMemory, Uses, Opening
<1>19. ILoop'
  BY <1>8 DEF ILoop
<1>20. ITimers'
  BY <1>8 DEF ITimers
<1>21. ITold'
  <2> SUFFICES ASSUME NEW x \in Tasks
               PROVE  Told(x)'
    BY DEF ITold
  <2>1. Placed(x) /\ Waits(x) /\ Uses(x) /\ Told(x)
    BY At1
  <2>2. CASE x = t
    BY <1>8, <1>9, <2>1, <2>2 DEF Told, Results
  <2>3. CASE x # t
    <3>1. Kept(x)
      BY <2>3, <1>9
    <3>2. call[x] \in CallType
      BY <1>1
    <3> QED
      BY <1>8, <2>1, <3>1 DEF Kept, Told, Results, Placed
  <2> QED
    BY <2>2, <2>3
<1>22. NoStrandedClient'
  BY <1>8 DEF NoStrandedClient
<1> QED
  BY <1>12, <1>13, <1>14, <1>15, <1>16, <1>17, <1>18, <1>19, <1>20,
     <1>21, <1>22

\* The write timer closes the socket.
LEMMA WriteTimerFiredKeeps ==
  ASSUME IInv, NEW t \in Tasks, WriteTimerFired(t)
  PROVE  IInv'
<1> USE DEF IInv
<1>1. /\ None \notin Tasks /\ call \in [Tasks -> CallType] /\ commands \in Seq(Tasks) /\ FrameType
      /\ control \in ControlType /\ clients \in ClientsType /\ uv \in UvType
  BY Types, TcpAssumption
<1>2. Placed(t) /\ Waits(t) /\ Uses(t) /\ Told(t)
  BY At1
<1>3. /\ t = control.writeOp /\ control.state = "open" /\ call[t].outcome = "pending"
      /\ call[t].deadline # "ahead" /\ control.writeTimer = "armed"
  BY DEF WriteTimerFired, ILoop
<1>4. /\ call[t].op = "write"
      /\ call[t].deadline = "past" \/ (call[t].met /\ call[t].deadline = "none")
  BY <1>1, <1>2, <1>3 DEF Placed, ITimers, CallType
<1>5. control.closer = None
  BY <1>3 DEF ILoop
<1>6. PICK calls :
        /\ calls \in [Tasks -> CallType]
        /\ BeginClose(None, calls)
        /\ \A v \in Tasks : v # t => calls[v] = call[v]
        /\ calls[t].op = call[t].op /\ calls[t].at = call[t].at
        /\ calls[t].deadline = call[t].deadline /\ calls[t].outcome = "deadline"
        /\ calls[t].status = call[t].status /\ calls[t].client = call[t].client
        /\ calls[t].met = call[t].met
  <2> DEFINE cs == [call EXCEPT ![t].outcome = "deadline"]
  <2>1. BeginClose(None, cs)
    BY <1>1, <1>2, <1>3, <1>4, <1>5 DEF WriteTimerFired, StartsOpen, TimedOut
  <2>2. PICK r0 \in CallType : r0 = call[t]
    BY <1>1
  <2> DEFINE d == [r0 EXCEPT !.outcome = "deadline"]
  <2>3. /\ d \in CallType /\ d.op = r0.op /\ d.at = r0.at /\ d.deadline = r0.deadline
        /\ d.outcome = "deadline" /\ d.status = r0.status /\ d.client = r0.client
        /\ d.met = r0.met
    BY Names DEF CallType
  <2>4. cs = [call EXCEPT ![t] = d]
    BY <2>2, <1>1
  <2> HIDE DEF d
  <2>5. /\ cs \in [Tasks -> CallType]
        /\ \A v \in Tasks : v # t => cs[v] = call[v]
        /\ cs[t].op = call[t].op /\ cs[t].at = call[t].at /\ cs[t].deadline = call[t].deadline
        /\ cs[t].outcome = "deadline" /\ cs[t].status = call[t].status
        /\ cs[t].client = call[t].client /\ cs[t].met = call[t].met
    BY <1>1, <2>2, <2>3, <2>4
  <2> HIDE DEF cs
  <2> QED
    BY <2>1, <2>5
<1>7. /\ control' \in ControlType
      /\ control'.state = "closing" /\ control'.closer = None
      /\ control'.readOp = None /\ control'.acceptCommand = None
      /\ control'.writeOp = control.writeOp
      /\ control'.readTimer # "armed" /\ control'.writeTimer # "armed"
      /\ clients' \in ClientsType /\ clients'.held = 0 /\ ~clients'.pending
      /\ uv' \in UvType /\ uv'.requests = uv.requests
      /\ uv'.closing # {} /\ control'.closePending = Cardinality(uv'.closing)
      /\ call' \in [Tasks -> CallType]
  BY <1>6, CloseFacts
<1>8. /\ \A v \in Tasks : v # t => Kept(v)
      /\ call'[t].op = call[t].op /\ call'[t].at = call[t].at
      /\ call'[t].deadline = call[t].deadline /\ call'[t].status = call[t].status
      /\ call'[t].client = call[t].client /\ call'[t].met = call[t].met
      /\ call'[t].outcome \in {"deadline", "closed"}
  <2>1. ASSUME NEW v \in Tasks
        PROVE  /\ call'[v].op = calls[v].op /\ call'[v].deadline = calls[v].deadline
               /\ call'[v].status = calls[v].status /\ call'[v].client = calls[v].client
               /\ call'[v].met = calls[v].met
               /\ v = control.readOp \/ v = control.acceptCommand => call'[v].at = "woken"
               /\ v # control.readOp /\ v # control.acceptCommand => call'[v].at = calls[v].at
               /\ call'[v].outcome \in {calls[v].outcome, "closed"}
    BY <1>6, CloseFacts
  <2>2. ASSUME NEW v \in Tasks, v # t
        PROVE  Kept(v)
    <3>1. calls[v] = call[v]
      BY <1>6, <2>2
    <3> QED
      BY <2>1, <3>1 DEF Kept
  <2>3. t # control.readOp /\ t # control.acceptCommand
    BY <1>1, <1>2, <1>3, <1>4, <1>5 DEF Placed
  <2>4. /\ call'[t].op = calls[t].op /\ call'[t].deadline = calls[t].deadline
        /\ call'[t].status = calls[t].status /\ call'[t].client = calls[t].client
        /\ call'[t].met = calls[t].met
        /\ call'[t].at = calls[t].at /\ call'[t].outcome \in {calls[t].outcome, "closed"}
    BY <2>1, <2>3
  <2>5. /\ call'[t].op = call[t].op /\ call'[t].at = call[t].at
        /\ call'[t].deadline = call[t].deadline /\ call'[t].status = call[t].status
        /\ call'[t].client = call[t].client /\ call'[t].met = call[t].met
    BY <2>4, <1>6
  <2>6. call'[t].outcome \in {"deadline", "closed"}
    BY <2>4, <1>6
  <2> QED
    BY <2>2, <2>5, <2>6
<1>9. commands' = commands
  BY DEF WriteTimerFired
<1>10. /\ IOnce' /\ commands' \in Seq(Tasks)
      /\ \A v \in Tasks : Queued(v)' <=> Queued(v)
  BY <1>9, <1>1, Same
<1>11. /\ FrameType'
      /\ busy' = busy /\ status' = status /\ users' = users /\ memory' = memory
  BY <1>1 DEF WriteTimerFired, FrameType, ofTasks, capability
<1>12. \A v \in Tasks : call'[v].op = call[v].op
  BY <1>8 DEF Kept
<1>13. TypeOK'
  BY <1>7, <1>10, <1>11, TypesNext
<1>14. IOnce'
  BY <1>10
<1>15. IPlaces'
  <2> SUFFICES ASSUME NEW x \in Tasks
               PROVE  Placed(x)'
    BY DEF IPlaces
  <2>1. Placed(x) /\ Waits(x) /\ Uses(x) /\ Told(x)
    BY At1
  <2>2. CASE x = t
    BY <1>4, <1>5, <1>7, <1>8, <1>10, <2>1, <2>2 DEF Placed
  <2>3. CASE x # t
    <3>1. Kept(x)
      BY <2>3, <1>8
    <3> QED
      BY <1>1, <1>7, <1>10, <2>1, <3>1 DEF Kept, Placed
  <2> QED
    BY <2>2, <2>3
<1>16. IWaiting'
  <2> SUFFICES ASSUME NEW x \in Tasks
               PROVE  Waits(x)'
    BY DEF IWaiting
  <2>1. Placed(x) /\ Waits(x) /\ Uses(x) /\ Told(x)
    BY At1
  <2>2. CASE x = t
    BY <1>4, <1>5, <1>7, <1>8, <1>10, <2>1, <2>2 DEF Waits, Placed
  <2>3. CASE x # t
    <3>1. Kept(x)
      BY <2>3, <1>8
    <3> QED
      BY <1>5, <1>7, <1>10, <2>1, <3>1 DEF Kept, Waits, Placed
  <2> QED
    BY <2>2, <2>3
<1>17. IBusy'
  <2>1. ASSUME NEW v \in Tasks, NEW op \in Exclusive, Inside(v, op)'
        PROVE  Inside(v, op) /\ call'[v].met = call[v].met
    <3>1. Placed(v) /\ Waits(v)
      BY At1
    <3>2. CASE v = t
      BY <1>8, <2>1, <3>2 DEF Inside
    <3>3. CASE v # t
      <4>1. Kept(v)
        BY <3>3, <1>8
      <4> QED
        BY <2>1, <3>1, <4>1 DEF Inside, Waits, Kept
    <3> QED
      BY <3>2, <3>3
  <2>2. \A v \in Tasks : call'[v].at = "passed" <=> call[v].at = "passed"
    <3> SUFFICES ASSUME NEW v \in Tasks
                 PROVE  call'[v].at = "passed" <=> call[v].at = "passed"
      OBVIOUS
    <3>1. Placed(v) /\ Waits(v)
      BY At1
    <3>2. CASE v = t
      BY <1>8, <3>2
    <3>3. CASE v # t
      <4>1. Kept(v)
        BY <3>3, <1>8
      <4> QED
        BY <3>1, <4>1 DEF Waits, Kept
    <3> QED
      BY <3>2, <3>3
  <2> QED
    BY <1>11, <2>1, <2>2 DEF IBusy
<1>18. IUse'
  <2> SUFFICES ASSUME NEW x \in Tasks
               PROVE  Uses(x)'
    BY DEF IUse
  <2>1. Placed(x) /\ Waits(x) /\ Uses(x) /\ Told(x)
    BY At1
  <2>2. CASE x = t
    BY <1>4, <1>8, <1>11, <2>1, <2>2 DEF Uses, Leased, Exclusive
  <2>3. CASE x # t
    <3>1. Kept(x)
      BY <2>3, <1>8
    <3> QED
      BY <1>12, <1>11, <1>2, <1>4, <2>1, <3>1
         DEF Kept, Uses, Leased, Exclusive, Waits
  <2> QED
    BY <2>2, <2>3
<1>19. IMemory'
  BY <1>2, <1>3, <1>4, <1>8, <1>11
     DEF Kept, IMemory, Uses, Leased, Exclusive, Told
<1>20. ILoop'
  BY <1>7 DEF ILoop
<1>21. ITimers'
  BY <1>7 DEF ITimers
<1>22. ITold'
  <2> SUFFICES ASSUME NEW x \in Tasks
               PROVE  Told(x)'
    BY DEF ITold
  <2>1. Placed(x) /\ Waits(x) /\ Uses(x) /\ Told(x)
    BY At1
  <2>2. CASE x = t
    BY <1>4, <1>7, <1>8, <2>1, <2>2 DEF Told
  <2>3. CASE x # t
    <3>1. Kept(x)
      BY <2>3, <1>8
    <3>2. call[x] \in CallType
      BY <1>1
    <3> QED
      BY <1>3, <1>7, <2>1, <3>1 DEF Kept, Told, Results, Placed
  <2> QED
    BY <2>2, <2>3
<1>23. NoStrandedClient'
  BY <1>7 DEF NoStrandedClient
<1> QED
  BY <1>13, <1>14, <1>15, <1>16, <1>17, <1>18, <1>19, <1>20, <1>21,
     <1>22, <1>23

\* hex_tcp_close_done: not the last handle, or the last with or without a closer.
LEMMA CloseDoneOneKeeps ==
  ASSUME IInv, NEW handle, CloseDone(handle), control.closePending > 1
  PROVE  IInv'
<1> USE DEF IInv
<1>1. /\ None \notin Tasks /\ call \in [Tasks -> CallType] /\ commands \in Seq(Tasks) /\ FrameType
      /\ control \in ControlType /\ clients \in ClientsType /\ uv \in UvType
  BY Types, TcpAssumption
<1>2. /\ uv.closing \subseteq NativeNames /\ handle \in uv.closing
      /\ control.state = "closing" /\ control.closePending = Cardinality(uv.closing)
  BY <1>1 DEF CloseDone, UvType, ControlType, ILoop
<1>3. /\ Cardinality(uv.closing \ {handle}) = Cardinality(uv.closing) - 1
      /\ Cardinality(uv.closing) \in 0..3 /\ uv.closing \ {handle} # {}
  <2>1. /\ Cardinality(uv.closing \ {handle}) = Cardinality(uv.closing) - 1
        /\ Cardinality(uv.closing) \in 0..3
    BY <1>2, Cardinalities
  <2>2. Cardinality({}) = 0
    BY FS_EmptySet
  <2>3. ASSUME uv.closing \ {handle} = {}
        PROVE  FALSE
    <3>1. Cardinality(uv.closing \ {handle}) = 0
      BY <2>2, <2>3, Zenon
    <3> QED
      BY <1>2, <2>1, <3>1
  <2> QED
    BY <2>1, <2>3
<1>4. call' = call
  BY DEF CloseDone
<1>5. /\ control' \in ControlType /\ control'.state = control.state
      /\ control'.readOp = control.readOp /\ control'.writeOp = control.writeOp
      /\ control'.acceptCommand = control.acceptCommand /\ control'.closer = control.closer
      /\ control'.closePending = control.closePending - 1
      /\ control'.readTimer = control.readTimer /\ control'.writeTimer = control.writeTimer
      /\ clients' = clients /\ uv' \in UvType /\ uv'.reading = uv.reading
      /\ uv'.listening = uv.listening /\ uv'.requests = uv.requests
      /\ uv'.closing = uv.closing \ {handle}
  BY <1>1, <1>3 DEF CloseDone, ControlType, UvType
<1>6. commands' = commands
  BY DEF CloseDone
<1>7. /\ IOnce' /\ commands' \in Seq(Tasks)
      /\ \A v \in Tasks : Queued(v)' <=> Queued(v)
  BY <1>6, <1>1, Same
<1>8. /\ FrameType'
      /\ busy' = busy /\ status' = status /\ users' = users /\ memory' = memory
  BY <1>1 DEF CloseDone, FrameType, ofTasks, capability
<1>9. TypeOK'
  BY <1>1, <1>4, <1>5, <1>7, <1>8, TypesNext
<1>10. IOnce'
  BY <1>7
<1>11. IPlaces'
  <2> SUFFICES ASSUME NEW x \in Tasks
               PROVE  Placed(x)'
    BY DEF IPlaces
  <2>1. Placed(x) /\ Waits(x) /\ Uses(x) /\ Told(x)
    BY At1
  <2> QED
    BY <1>4, <1>5, <1>7, <2>1 DEF Placed
<1>12. IWaiting'
  <2> SUFFICES ASSUME NEW x \in Tasks
               PROVE  Waits(x)'
    BY DEF IWaiting
  <2>1. Placed(x) /\ Waits(x) /\ Uses(x) /\ Told(x)
    BY At1
  <2> QED
    BY <1>4, <1>5, <1>7, <2>1 DEF Waits
<1>13. IBusy'
  BY <1>4, <1>8 DEF IBusy, Inside
<1>14. IUse'
  <2> SUFFICES ASSUME NEW x \in Tasks
               PROVE  Uses(x)'
    BY DEF IUse
  <2>1. Placed(x) /\ Waits(x) /\ Uses(x) /\ Told(x)
    BY At1
  <2> QED
    BY <1>4, <1>8, <2>1 DEF Uses, Alone
<1>15. IMemory'
  BY <1>4, <1>5, <1>8
     DEF IMemory, NobodyCalls, Uses, Opening, Leased, Exclusive, Alone, Told
<1>16. ILoop'
  BY <1>3, <1>5 DEF ILoop
<1>17. ITimers'
  BY <1>4, <1>5 DEF ITimers
<1>18. ITold'
  <2> SUFFICES ASSUME NEW x \in Tasks
               PROVE  Told(x)'
    BY DEF ITold
  <2>1. Placed(x) /\ Waits(x) /\ Uses(x) /\ Told(x)
    BY At1
  <2> QED
    BY <1>4, <1>5, <2>1 DEF Told, Results
<1>19. NoStrandedClient'
  BY <1>4, <1>5 DEF NoStrandedClient
<1> QED
  BY <1>9, <1>10, <1>11, <1>12, <1>13, <1>14, <1>15, <1>16, <1>17,
     <1>18, <1>19

LEMMA CloseDoneAloneKeeps ==
  ASSUME IInv, NEW handle, CloseDone(handle), ~(control.closePending > 1),
         control.closer = None
  PROVE  IInv'
<1> USE DEF IInv
<1>1. /\ None \notin Tasks /\ call \in [Tasks -> CallType] /\ commands \in Seq(Tasks) /\ FrameType
      /\ control \in ControlType /\ clients \in ClientsType /\ uv \in UvType
  BY Types, TcpAssumption
<1>2. /\ uv.closing \subseteq NativeNames /\ handle \in uv.closing
      /\ control.state = "closing" /\ control.closePending = Cardinality(uv.closing)
  BY <1>1 DEF CloseDone, UvType, ControlType, ILoop
<1>3. uv.closing \ {handle} = {}
  BY <1>2, Cardinalities
<1>4. /\ control' = [control EXCEPT !.closePending = 0, !.state = "closed", !.closer = None]
      /\ control' \in ControlType
  <2>1. PICK k \in ControlType : k = control
    BY <1>1
  <2>2. [k EXCEPT !.closePending = 0, !.state = "closed", !.closer = None] \in ControlType
    BY ClosedIs
  <2>3. control' = [control EXCEPT !.closePending = 0, !.state = "closed", !.closer = None]
    BY DEF CloseDone
  <2> QED
    BY <2>1, <2>2, <2>3
<1>5. /\ uv' = [uv EXCEPT !.closing = {}] /\ uv' \in UvType
  BY <1>1, <1>3 DEF CloseDone, UvType
<1>6. call' = call
  BY DEF CloseDone
<1>7. /\ control' \in ControlType /\ control'.state = "closed"
      /\ control'.readOp = control.readOp /\ control'.writeOp = control.writeOp
      /\ control'.acceptCommand = control.acceptCommand /\ control'.closer = None
      /\ control'.closePending = 0 /\ control'.readTimer = control.readTimer
      /\ control'.writeTimer = control.writeTimer /\ clients' = clients /\ uv' \in UvType
      /\ uv'.reading = uv.reading /\ uv'.listening = uv.listening /\ uv'.requests = uv.requests
      /\ uv'.closing = {}
  <2>1. clients' = clients
    BY DEF CloseDone, onLoop
  <2> QED
    BY <1>4, <1>5, <2>1
<1>8. commands' = commands
  BY DEF CloseDone
<1>9. /\ IOnce' /\ commands' \in Seq(Tasks)
      /\ \A v \in Tasks : Queued(v)' <=> Queued(v)
  BY <1>8, <1>1, Same
<1>10. /\ FrameType'
      /\ busy' = busy /\ status' = status /\ users' = users /\ memory' = memory
  BY <1>1 DEF CloseDone, FrameType, ofTasks, capability
<1>11. TypeOK'
  BY <1>1, <1>6, <1>7, <1>9, <1>10, TypesNext
<1>12. IOnce'
  BY <1>9
<1>13. IPlaces'
  <2> SUFFICES ASSUME NEW x \in Tasks
               PROVE  Placed(x)'
    BY DEF IPlaces
  <2>1. Placed(x) /\ Waits(x) /\ Uses(x) /\ Told(x)
    BY At1
  <2> QED
    BY <1>6, <1>7, <1>9, <2>1 DEF Placed
<1>14. IWaiting'
  <2> SUFFICES ASSUME NEW x \in Tasks
               PROVE  Waits(x)'
    BY DEF IWaiting
  <2>1. Placed(x) /\ Waits(x) /\ Uses(x) /\ Told(x)
    BY At1
  <2> QED
    BY <1>6, <1>7, <1>9, <2>1 DEF Waits
<1>15. IBusy'
  BY <1>6, <1>10 DEF IBusy, Inside
<1>16. IUse'
  <2> SUFFICES ASSUME NEW x \in Tasks
               PROVE  Uses(x)'
    BY DEF IUse
  <2>1. Placed(x) /\ Waits(x) /\ Uses(x) /\ Told(x)
    BY At1
  <2> QED
    BY <1>6, <1>10, <2>1 DEF Uses, Alone
<1>17. IMemory'
  BY <1>6, <1>7, <1>10
     DEF IMemory, NobodyCalls, Uses, Opening, Leased, Exclusive, Alone, Told
<1>18. ILoop'
  BY <1>2, <1>7 DEF ILoop
<1>19. ITimers'
  BY <1>6, <1>7 DEF ITimers
<1>20. ITold'
  <2> SUFFICES ASSUME NEW x \in Tasks
               PROVE  Told(x)'
    BY DEF ITold
  <2>1. Placed(x) /\ Waits(x) /\ Uses(x) /\ Told(x)
    BY At1
  <2> QED
    BY <1>6, <1>7, <2>1 DEF Told, Results
<1>21. NoStrandedClient'
  BY <1>6, <1>7 DEF NoStrandedClient
<1> QED
  BY <1>11, <1>12, <1>13, <1>14, <1>15, <1>16, <1>17, <1>18, <1>19,
     <1>20, <1>21

LEMMA CloseDoneLastKeeps ==
  ASSUME IInv, NEW handle, NEW t \in Tasks, CloseDone(handle),
         ~(control.closePending > 1), control.closer = t
  PROVE  IInv'
<1> USE DEF IInv
<1>1. /\ None \notin Tasks /\ call \in [Tasks -> CallType] /\ commands \in Seq(Tasks) /\ FrameType
      /\ control \in ControlType /\ clients \in ClientsType /\ uv \in UvType
  BY Types, TcpAssumption
<1>2. Placed(t) /\ Waits(t) /\ Uses(t) /\ Told(t)
  BY At1
<1>3. /\ uv.closing \subseteq NativeNames /\ handle \in uv.closing
      /\ control.state = "closing" /\ control.closePending = Cardinality(uv.closing)
  BY <1>1 DEF CloseDone, UvType, ControlType, ILoop
<1>4. uv.closing \ {handle} = {}
  BY <1>3, Cardinalities
<1>5. call[t].op \in {"close", "discard"} /\ call[t].at = "waiting"
  BY <1>2 DEF Placed, Waits
<1>6. /\ control' = [control EXCEPT !.closePending = 0, !.state = "closed", !.closer = None]
      /\ control' \in ControlType
  <2>1. PICK k \in ControlType : k = control
    BY <1>1
  <2>2. [k EXCEPT !.closePending = 0, !.state = "closed", !.closer = None] \in ControlType
    BY ClosedIs
  <2>3. control' = [control EXCEPT !.closePending = 0, !.state = "closed", !.closer = None]
    BY DEF CloseDone
  <2> QED
    BY <2>1, <2>2, <2>3
<1>7. /\ uv' = [uv EXCEPT !.closing = {}] /\ uv' \in UvType
  BY <1>1, <1>4 DEF CloseDone, UvType
<1>8. control.closer # None /\ call' = [call EXCEPT ![t].at = "woken", ![t].status = "ok"]
  BY <1>1 DEF CloseDone, Answer
<1>9. "ok" \in Statuses
  BY Names DEF Results
<1>10. /\ call' \in [Tasks -> CallType]
      /\ \A v \in Tasks : v # t => call'[v] = call[v]
      /\ call'[t].op = call[t].op /\ call'[t].at = "woken"
      /\ call'[t].deadline = call[t].deadline /\ call'[t].outcome = call[t].outcome
      /\ call'[t].status = "ok" /\ call'[t].client = call[t].client
      /\ call'[t].met = call[t].met
  <2>1. PICK r0 \in CallType : r0 = call[t]
    BY <1>1
  <2> DEFINE d == [r0 EXCEPT !.at = "woken", !.status = "ok"]
  <2>2. /\ d \in CallType
        /\ d.op = r0.op /\ d.at = "woken" /\ d.deadline = r0.deadline /\ d.outcome = r0.outcome
        /\ d.status = "ok" /\ d.client = r0.client /\ d.met = r0.met
    BY <1>9 DEF CallType
  <2>3. call' = [call EXCEPT ![t] = d]
    BY <1>8, <2>1
  <2> HIDE DEF d
  <2> QED
    BY <1>1, <2>1, <2>2, <2>3
<1>11. /\ control' \in ControlType /\ control'.state = "closed"
      /\ control'.readOp = control.readOp /\ control'.writeOp = control.writeOp
      /\ control'.acceptCommand = control.acceptCommand /\ control'.closer = None
      /\ control'.closePending = 0 /\ control'.readTimer = control.readTimer
      /\ control'.writeTimer = control.writeTimer /\ clients' = clients /\ uv' \in UvType
      /\ uv'.reading = uv.reading /\ uv'.listening = uv.listening /\ uv'.requests = uv.requests
      /\ uv'.closing = {}
  <2>1. clients' = clients
    BY DEF CloseDone
  <2> QED
    BY <1>6, <1>7, <2>1
<1>12. commands' = commands
  BY DEF CloseDone
<1>13. /\ IOnce' /\ commands' \in Seq(Tasks)
      /\ \A v \in Tasks : Queued(v)' <=> Queued(v)
  BY <1>12, <1>1, Same
<1>14. /\ FrameType'
      /\ busy' = busy /\ status' = status /\ users' = users /\ memory' = memory
  BY <1>1 DEF CloseDone, FrameType, ofTasks, capability
<1>15. TypeOK'
  BY <1>1, <1>10, <1>11, <1>13, <1>14, TypesNext
<1>16. IOnce'
  BY <1>13
<1>17. IPlaces'
  <2> SUFFICES ASSUME NEW x \in Tasks
               PROVE  Placed(x)'
    BY DEF IPlaces
  <2>1. Placed(x) /\ Waits(x) /\ Uses(x) /\ Told(x)
    BY At1
  <2> QED
    BY <1>1, <1>10, <1>11, <1>13, <2>1 DEF Placed
<1>18. IWaiting'
  <2> SUFFICES ASSUME NEW x \in Tasks
               PROVE  Waits(x)'
    BY DEF IWaiting
  <2>1. Placed(x) /\ Waits(x) /\ Uses(x) /\ Told(x)
    BY At1
  <2> QED
    BY <1>1, <1>8, <1>11, <1>13, <2>1 DEF Waits, Placed
<1>19. IBusy'
  <2>1. \A v \in Tasks : \A op \in Exclusive : Inside(v, op)' =>
          Inside(v, op) /\ call'[v].met = call[v].met
    BY <1>5, <1>8, <1>10 DEF Inside
  <2>2. ASSUME NEW v \in Tasks, NEW op \in Exclusive, Inside(v, op)', ~call'[v].met,
               call'[v].at # "passed"
        PROVE  busy'[op]
    BY <1>5, <1>10, <1>14, <2>1, <2>2 DEF IBusy
  <2> QED
    BY <2>1, <2>2 DEF IBusy
<1>20. IUse'
  <2> SUFFICES ASSUME NEW x \in Tasks
               PROVE  Uses(x)'
    BY DEF IUse
  <2>1. Placed(x) /\ Waits(x) /\ Uses(x) /\ Told(x)
    BY At1
  <2> QED
    BY <1>5, <1>8, <1>10, <1>14, <2>1 DEF Uses, Alone
<1>21. IMemory'
  BY <1>2, <1>5, <1>11, <1>14 DEF IMemory, Uses, Opening
<1>22. ILoop'
  BY <1>8, <1>11 DEF ILoop
<1>23. ITimers'
  BY <1>8, <1>10, <1>11, InPlace DEF ITimers
<1>24. ITold'
  <2> SUFFICES ASSUME NEW x \in Tasks
               PROVE  Told(x)'
    BY DEF ITold
  <2>1. Placed(x) /\ Waits(x) /\ Uses(x) /\ Told(x)
    BY At1
  <2> QED
    BY <1>8, <1>10, <1>11, <2>1, Names DEF Told, Results
<1>25. NoStrandedClient'
  BY <1>8, <1>10, <1>11, InPlace DEF NoStrandedClient
<1> QED
  BY <1>15, <1>16, <1>17, <1>18, <1>19, <1>20, <1>21, <1>22, <1>23,
     <1>24, <1>25

-----------------------------------------------------------------------------
\* libuv holds no client that the next accept would not look for.
Looked(q) == q.held > 0 => q.declined \/ q.givenUp

\* hex_tcp_accept_take, hex_tcp_accept_resume.
LEMMA TakeIs ==
  ASSUME NEW q \in ClientsType, NEW taken \in Take(q)
  PROVE  /\ taken[1] \in ClientsType
         /\ taken[1].declined = q.declined /\ taken[1].pending = q.pending
         /\ IF taken[2]
              THEN /\ q.held > 0 /\ taken[1].held = q.held - 1
                   /\ taken[1].givenUp = (q.givenUp /\ q.held > 1)
              ELSE taken[1].held = q.held /\ taken[1].givenUp = q.givenUp
<1>1. /\ q.held \in 0..MaxHeld /\ MaxHeld \in Nat
      /\ q.pending \in BOOLEAN /\ q.declined \in BOOLEAN /\ q.givenUp \in BOOLEAN
  BY TcpAssumption DEF ClientsType
<1>2. CASE /\ q.held > 0
           /\ taken = <<[q EXCEPT !.spare = FALSE, !.held = @ - 1,
                                  !.givenUp = @ /\ q.held > 1], TRUE>>
  <2>1. q.held - 1 \in 0..MaxHeld /\ (q.givenUp /\ q.held > 1) \in BOOLEAN
    BY <1>1, <1>2
  <2> QED
    BY <1>2, <2>1 DEF ClientsType
<1>3. CASE ~(q.held > 0) /\ taken = <<[q EXCEPT !.spare = TRUE], FALSE>>
  BY <1>1, <1>3 DEF ClientsType
<1>4. CASE taken = <<q, FALSE>>
  BY <1>1, <1>4
<1> QED
  BY <1>1, <1>2, <1>3, <1>4 DEF Take

LEMMA ResumeIs ==
  ASSUME NEW q \in ClientsType, Looked(q), NEW r \in Resume(q)
  PROVE  /\ r \in ClientsType
         /\ Looked(r)
         /\ ~r.pending => r.held = 0 \/ r.givenUp
<1>1. q.held \in Nat /\ q.pending \in BOOLEAN /\ q.declined \in BOOLEAN /\ q.givenUp \in BOOLEAN
  BY TcpAssumption DEF ClientsType
<1>2. CASE ~q.declined \/ q.pending
  <2>1. r = q
    BY <1>2, Zenon DEF Resume
  <2> QED
    BY <1>1, <1>2, <2>1 DEF Looked
<1>3. CASE ~(~q.declined \/ q.pending)
  <2>1. PICK taken \in Take(q) : r = IF taken[2] THEN [taken[1] EXCEPT !.pending = TRUE]
                                     ELSE [taken[1] EXCEPT !.declined = FALSE,
                                                           !.givenUp = q.held > 0]
    BY <1>3 DEF Resume
  <2>2. PICK p : p = taken[1]
    OBVIOUS
  <2>3. /\ p \in ClientsType
        /\ p.declined = q.declined
        /\ IF taken[2] THEN p.held = q.held - 1 ELSE p.held = q.held
    BY <2>2, TakeIs
  <2>4. p.held \in Nat
    BY TcpAssumption, <2>3 DEF ClientsType
  <2>5. CASE taken[2]
    <3>1. r = [p EXCEPT !.pending = TRUE]
      BY <2>1, <2>2, <2>5
    <3>2. r \in ClientsType /\ r.declined = p.declined /\ r.pending = TRUE
      BY <2>3, <3>1 DEF ClientsType
    <3> QED
      BY <1>3, <2>3, <3>2 DEF Looked
  <2>6. CASE ~taken[2]
    <3>1. PICK b : b = (q.held > 0)
      OBVIOUS
    <3>2. b \in BOOLEAN
      BY <1>1, <3>1
    <3>3. r = [p EXCEPT !.declined = FALSE, !.givenUp = b]
      BY <2>1, <2>2, <2>6, <3>1
    <3>4. r \in ClientsType /\ r.held = p.held /\ r.givenUp = b
      BY <2>3, <3>3, <3>2 DEF ClientsType
    <3> QED
      BY <1>1, <2>3, <2>4, <2>6, <3>1, <3>4 DEF Looked
  <2> QED
    BY <2>5, <2>6
<1> QED
  BY <1>2, <1>3

\* The two ways of an accept that starts on an open listener.
AcceptGives(t) ==
  call' = [call EXCEPT ![t].at = "woken", ![t].client = TRUE] /\ UNCHANGED control

AcceptParks(t) == control' = [control EXCEPT !.acceptCommand = t] /\ UNCHANGED call

\* What an accept makes of the clients.
LEMMA AcceptFacts ==
  ASSUME IInv, NEW t \in Tasks, AcceptStart(t)
  PROVE  /\ clients' \in ClientsType
         /\ Looked(clients')
         /\ \/ AcceptGives(t)
            \/ AcceptParks(t) /\ ~clients'.pending /\ (clients'.held = 0 \/ clients'.givenUp)
<1>1. clients \in ClientsType /\ Looked(clients)
  BY Types DEF IInv, NoStrandedClient, Looked
<1>2. PICK q \in Resume(clients) :
        IF q.pending
          THEN clients' \in Resume([q EXCEPT !.pending = FALSE]) /\ AcceptGives(t)
          ELSE clients' = q /\ AcceptParks(t)
  BY DEF AcceptStart, AcceptGives, AcceptParks
<1>3. q \in ClientsType /\ Looked(q) /\ (~q.pending => q.held = 0 \/ q.givenUp)
  BY <1>1, <1>2, ResumeIs
<1>4. CASE q.pending
  <2>1. PICK p : p = [q EXCEPT !.pending = FALSE]
    OBVIOUS
  <2>2. p \in ClientsType /\ Looked(p)
    BY <1>3, <2>1 DEF ClientsType, Looked
  <2>3. PICK r : r = clients'
    OBVIOUS
  <2>4. r \in ClientsType /\ Looked(r)
    BY <1>2, <1>4, <2>1, <2>2, <2>3, ResumeIs
  <2> QED
    BY <1>2, <1>4, <2>3, <2>4
<1>5. CASE ~q.pending
  BY <1>2, <1>3, <1>5
<1> QED
  BY <1>4, <1>5

\* An arrival that goes to a parked accept.
ArrivalTaken(t) ==
  /\ t = control.acceptCommand
  /\ control' = [control EXCEPT !.acceptCommand = None]
  /\ call' = [call EXCEPT ![t].at = "woken", ![t].client = TRUE]

\* hex_tcp_connection_arrived: the client waits, or a parked accept gets it.
LEMMA ArrivalFacts ==
  ASSUME IInv, Arrived
  PROVE  /\ clients' \in ClientsType
         /\ NoStrandedClient'
         /\ UNCHANGED <<control, call>> \/ \E t \in Tasks : ArrivalTaken(t)
<1>1. PICK waiting \in Tasks \cup {None} : waiting = control.acceptCommand
  BY Types DEF IInv, ControlType
<1>2. PICK q : q = [clients EXCEPT !.held = @ + 1]
  OBVIOUS
<1>3. PICK c \in ClientsType : c = clients
  BY Types DEF IInv
<1>4. /\ c.held \in 0..MaxHeld /\ c.held < MaxHeld /\ MaxHeld \in Nat
      /\ c.pending \in BOOLEAN /\ c.declined \in BOOLEAN /\ c.givenUp \in BOOLEAN
  BY <1>3, TcpAssumption DEF Arrived, ClientsType
<1>5. /\ q \in ClientsType /\ q.held = c.held + 1 /\ q.held > 0
      /\ q.pending = c.pending /\ q.declined = c.declined /\ q.givenUp = c.givenUp
  <2>1. c.held + 1 \in 0..MaxHeld
    BY <1>4
  <2> QED
    BY <1>2, <1>3, <1>4, <2>1 DEF ClientsType
<1>6. /\ waiting # None =>
           (~c.pending /\ (c.held = 0 \/ c.givenUp)) \/ call[waiting].met
      /\ c.held > 0 => c.declined \/ c.givenUp
  BY <1>1, <1>3 DEF IInv, NoStrandedClient
<1>7. CASE waiting = None /\ c.pending
  <2>1. /\ clients' = [q EXCEPT !.declined = TRUE, !.givenUp = FALSE]
        /\ control' = control /\ call' = call
    BY <1>1, <1>2, <1>3, <1>7 DEF Arrived
  <2>2. clients' \in ClientsType /\ clients'.declined = TRUE
    BY <1>5, <2>1 DEF ClientsType
  <2> QED
    BY <1>1, <1>7, <2>1, <2>2 DEF NoStrandedClient
<1>8. CASE ~(waiting = None /\ c.pending)
  <2>1. PICK taken \in Take(q) :
          CASE ~taken[2] ->
                 /\ clients' = [taken[1] EXCEPT !.declined = TRUE,
                                                !.givenUp = (waiting # None)]
                 /\ UNCHANGED <<control, call>>
            [] taken[2] /\ waiting # None ->
                 clients' = taken[1] /\ ArrivalTaken(waiting)
            [] OTHER ->
                 clients' = [taken[1] EXCEPT !.pending = TRUE] /\ UNCHANGED <<control, call>>
    BY <1>1, <1>2, <1>3, <1>8 DEF Arrived, ArrivalTaken
  <2>2. PICK p : p = taken[1]
    OBVIOUS
  <2>3. /\ p \in ClientsType
        /\ p.declined = q.declined /\ p.pending = q.pending
        /\ IF taken[2] THEN p.held = q.held - 1 /\ p.givenUp = (q.givenUp /\ q.held > 1)
           ELSE p.held = q.held
    BY <1>5, <2>2, TakeIs
  <2>4. CASE ~taken[2]
    <3>1. PICK b \in BOOLEAN : b = (waiting # None)
      OBVIOUS
    <3>2. /\ clients' = [p EXCEPT !.declined = TRUE, !.givenUp = b]
          /\ UNCHANGED <<control, call>>
      BY <2>1, <2>2, <2>4, <3>1
    <3>3. /\ clients' \in ClientsType /\ clients'.declined = TRUE
          /\ clients'.pending = p.pending /\ clients'.givenUp = b
      BY <2>3, <3>2 DEF ClientsType
    <3> QED
      BY <1>1, <1>5, <1>6, <2>3, <2>4, <3>1, <3>2, <3>3 DEF NoStrandedClient
  <2>5. CASE taken[2] /\ waiting # None
    <3>1. clients' = p /\ ArrivalTaken(waiting)
      BY <2>1, <2>2, <2>5
    <3>2. control'.acceptCommand = None
      BY <1>1, <3>1, Types DEF IInv, ArrivalTaken, ControlType
    <3> QED
      BY <1>1, <1>4, <1>5, <1>6, <2>3, <2>5, <3>1, <3>2 DEF NoStrandedClient
  <2>6. CASE taken[2] /\ waiting = None
    <3>1. clients' = [p EXCEPT !.pending = TRUE] /\ UNCHANGED <<control, call>>
      BY <2>1, <2>2, <2>6
    <3>2. /\ clients' \in ClientsType /\ clients'.declined = p.declined
          /\ clients'.held = p.held /\ clients'.givenUp = p.givenUp
      BY <2>3, <3>1 DEF ClientsType
    <3>3. control'.acceptCommand = None
      BY <1>1, <2>6, <3>1
    <3>4. c.held > 0 => clients'.declined \/ clients'.givenUp
      BY <1>4, <1>5, <1>6, <2>3, <2>6, <3>2
    <3>5. clients'.held = c.held
      BY <1>4, <1>5, <2>3, <2>6, <3>2
    <3> QED
      BY <1>4, <3>1, <3>2, <3>3, <3>4, <3>5 DEF NoStrandedClient
  <2> QED
    BY <2>4, <2>5, <2>6
<1> QED
  BY <1>7, <1>8

\* hex_tcp_accept_start: a client is there, or the accept parks.
LEMMA AcceptStartGivesKeeps ==
  ASSUME IInv, NEW t \in Tasks, AcceptStart(t), AcceptGives(t),
         clients' \in ClientsType, Looked(clients')
  PROVE  IInv'
<1> USE DEF IInv
<1>1. /\ None \notin Tasks /\ call \in [Tasks -> CallType] /\ commands \in Seq(Tasks) /\ FrameType
      /\ control \in ControlType /\ clients \in ClientsType /\ uv \in UvType
  BY Types, TcpAssumption
<1>2. Placed(t) /\ Waits(t) /\ Uses(t) /\ Told(t)
  BY At1
<1>3. commands # << >> /\ t = Head(commands) /\ commands' = Tail(commands)
  BY DEF AcceptStart, Starts, StartsOpen
<1>4. /\ IOnce' /\ commands' \in Seq(Tasks) /\ Queued(t) /\ ~Queued(t)'
      /\ \A v \in Tasks : v # t => (Queued(v)' <=> Queued(v))
  BY <1>3, <1>1, Popped
<1>5. call[t].op = "accept" /\ control.state = "open"
  BY DEF AcceptStart, Starts, StartsOpen
<1>6. \A v \in Tasks : control.acceptCommand = v => v # t /\ call[v].met /\ call[t].met
  <2> SUFFICES ASSUME NEW x \in Tasks, control.acceptCommand = x
               PROVE  x # t /\ call[x].met /\ call[t].met
    OBVIOUS
  <2>1. Placed(x) /\ Waits(x)
    BY At1
  <2>2. Inside(x, "accept") /\ Inside(t, "accept")
    BY <2>1, <1>1, <1>2, <1>4, <1>5 DEF Placed, Waits, Inside
  <2>3. x # t
    BY <2>1, <1>2, <1>4 DEF Placed
  <2> QED
    BY <2>2, <2>3 DEF IBusy, Exclusive
<1>7. /\ call' \in [Tasks -> CallType]
      /\ \A v \in Tasks : v # t => call'[v] = call[v]
      /\ call'[t].op = call[t].op /\ call'[t].at = "woken"
      /\ call'[t].deadline = call[t].deadline /\ call'[t].outcome = call[t].outcome
      /\ call'[t].status = call[t].status /\ call'[t].client = TRUE
      /\ call'[t].met = call[t].met
  <2>1. PICK r0 \in CallType : r0 = call[t]
    BY <1>1
  <2> DEFINE d == [r0 EXCEPT !.at = "woken", !.client = TRUE]
  <2>2. /\ d \in CallType
        /\ d.op = r0.op /\ d.at = "woken" /\ d.deadline = r0.deadline /\ d.outcome = r0.outcome
        /\ d.status = r0.status /\ d.client = TRUE /\ d.met = r0.met
    BY DEF CallType
  <2>3. call' = [call EXCEPT ![t] = d]
    BY <2>1 DEF AcceptGives
  <2> HIDE DEF d
  <2> QED
    BY <1>1, <2>1, <2>2, <2>3
<1>8. /\ control' = control /\ clients' \in ClientsType /\ uv' = uv
  BY DEF AcceptStart, AcceptGives
<1>9. /\ FrameType'
      /\ busy' = busy /\ status' = status /\ users' = users /\ memory' = memory
  BY <1>1 DEF AcceptStart, FrameType, ofTasks, capability
<1>10. TypeOK'
  BY <1>1, <1>4, <1>7, <1>8, <1>9, TypesNext
<1>11. IOnce'
  BY <1>4
<1>12. IPlaces'
  <2> SUFFICES ASSUME NEW x \in Tasks
               PROVE  Placed(x)'
    BY DEF IPlaces
  <2>1. Placed(x) /\ Waits(x) /\ Uses(x) /\ Told(x)
    BY At1
  <2> QED
    BY <1>4, <1>7, <1>8, <2>1 DEF Placed
<1>13. IWaiting'
  <2> SUFFICES ASSUME NEW x \in Tasks
               PROVE  Waits(x)'
    BY DEF IWaiting
  <2>1. Placed(x) /\ Waits(x) /\ Uses(x) /\ Told(x)
    BY At1
  <2> QED
    BY <1>4, <1>7, <1>8, <2>1 DEF Waits, Placed
<1>14. IBusy'
  <2>1. \A v \in Tasks : \A op \in Exclusive : Inside(v, op)' =>
          Inside(v, op) /\ call'[v].met = call[v].met
    BY <1>2, <1>4, <1>7 DEF Inside, Waits
  <2>2. ASSUME NEW v \in Tasks, NEW op \in Exclusive, Inside(v, op)', ~call'[v].met,
               call'[v].at # "passed"
        PROVE  busy'[op]
    BY <1>2, <1>4, <1>7, <1>9, <2>1, <2>2 DEF IBusy, Waits
  <2> QED
    BY <2>1, <2>2 DEF IBusy
<1>15. IUse'
  <2> SUFFICES ASSUME NEW x \in Tasks
               PROVE  Uses(x)'
    BY DEF IUse
  <2>1. Placed(x) /\ Waits(x) /\ Uses(x) /\ Told(x)
    BY At1
  <2> QED
    BY <1>2, <1>5, <1>7, <1>9, <2>1 DEF Uses, Leased, Exclusive
<1>16. IMemory'
  BY <1>2, <1>5, <1>7, <1>9 DEF IMemory, Uses, Leased, Exclusive
<1>17. ILoop'
  BY <1>8 DEF ILoop
<1>18. ITimers'
  BY <1>7, <1>8, InPlace DEF ITimers
<1>19. ITold'
  <2> SUFFICES ASSUME NEW x \in Tasks
               PROVE  Told(x)'
    BY DEF ITold
  <2>1. Placed(x) /\ Waits(x) /\ Uses(x) /\ Told(x)
    BY At1
  <2> QED
    BY <1>5, <1>7, <2>1 DEF Told, Results
<1>20. NoStrandedClient'
  BY <1>1, <1>2, <1>4, <1>5, <1>6, <1>7, <1>8, <1>4, <1>9, InPlace DEF NoStrandedClient, Looked
<1> QED
  BY <1>10, <1>11, <1>12, <1>13, <1>14, <1>15, <1>16, <1>17, <1>18,
     <1>19, <1>20

LEMMA AcceptStartParksKeeps ==
  ASSUME IInv, NEW t \in Tasks, AcceptStart(t), AcceptParks(t),
         clients' \in ClientsType, Looked(clients'),
         ~clients'.pending /\ (clients'.held = 0 \/ clients'.givenUp)
  PROVE  IInv'
<1> USE DEF IInv
<1>1. /\ None \notin Tasks /\ call \in [Tasks -> CallType] /\ commands \in Seq(Tasks) /\ FrameType
      /\ control \in ControlType /\ clients \in ClientsType /\ uv \in UvType
  BY Types, TcpAssumption
<1>2. Placed(t) /\ Waits(t) /\ Uses(t) /\ Told(t)
  BY At1
<1>3. commands # << >> /\ t = Head(commands) /\ commands' = Tail(commands)
  BY DEF AcceptStart, Starts, StartsOpen
<1>4. /\ IOnce' /\ commands' \in Seq(Tasks) /\ Queued(t) /\ ~Queued(t)'
      /\ \A v \in Tasks : v # t => (Queued(v)' <=> Queued(v))
  BY <1>3, <1>1, Popped
<1>5. call[t].op = "accept" /\ control.state = "open"
  BY DEF AcceptStart, Starts, StartsOpen
<1>6. \A v \in Tasks : control.acceptCommand = v => v # t /\ call[v].met /\ call[t].met
  <2> SUFFICES ASSUME NEW x \in Tasks, control.acceptCommand = x
               PROVE  x # t /\ call[x].met /\ call[t].met
    OBVIOUS
  <2>1. Placed(x) /\ Waits(x)
    BY At1
  <2>2. Inside(x, "accept") /\ Inside(t, "accept")
    BY <2>1, <1>1, <1>2, <1>4, <1>5 DEF Placed, Waits, Inside
  <2>3. x # t
    BY <2>1, <1>2, <1>4 DEF Placed
  <2> QED
    BY <2>2, <2>3 DEF IBusy, Exclusive
<1>7. call' = call
  BY DEF AcceptParks
<1>8. /\ control' \in ControlType /\ control'.state = control.state
      /\ control'.readOp = control.readOp /\ control'.writeOp = control.writeOp
      /\ control'.acceptCommand = t /\ control'.closer = control.closer
      /\ control'.closePending = control.closePending /\ control'.readTimer = control.readTimer
      /\ control'.writeTimer = control.writeTimer /\ clients' \in ClientsType /\ uv' = uv
  BY <1>1 DEF AcceptStart, AcceptParks, ControlType
<1>9. /\ FrameType'
      /\ busy' = busy /\ status' = status /\ users' = users /\ memory' = memory
  BY <1>1 DEF AcceptStart, FrameType, ofTasks, capability
<1>10. TypeOK'
  BY <1>1, <1>4, <1>7, <1>8, <1>9, TypesNext
<1>11. IOnce'
  BY <1>4
<1>12. IPlaces'
  <2> SUFFICES ASSUME NEW x \in Tasks
               PROVE  Placed(x)'
    BY DEF IPlaces
  <2>1. Placed(x) /\ Waits(x) /\ Uses(x) /\ Told(x)
    BY At1
  <2> QED
    BY <1>4, <1>5, <1>7, <1>8, <2>1 DEF Placed
<1>13. IWaiting'
  <2> SUFFICES ASSUME NEW x \in Tasks
               PROVE  Waits(x)'
    BY DEF IWaiting
  <2>1. Placed(x) /\ Waits(x) /\ Uses(x) /\ Told(x)
    BY At1
  <2> QED
    BY <1>4, <1>6, <1>7, <1>8, <2>1 DEF Waits, Placed
<1>14. IBusy'
  BY <1>7, <1>9 DEF IBusy, Inside
<1>15. IUse'
  <2> SUFFICES ASSUME NEW x \in Tasks
               PROVE  Uses(x)'
    BY DEF IUse
  <2>1. Placed(x) /\ Waits(x) /\ Uses(x) /\ Told(x)
    BY At1
  <2> QED
    BY <1>2, <1>5, <1>7, <1>9, <2>1 DEF Uses, Leased, Exclusive
<1>16. IMemory'
  BY <1>2, <1>5, <1>7, <1>9 DEF IMemory, Uses, Leased, Exclusive
<1>17. ILoop'
  BY <1>5, <1>8 DEF ILoop
<1>18. ITimers'
  BY <1>7, <1>8 DEF ITimers
<1>19. ITold'
  <2> SUFFICES ASSUME NEW x \in Tasks
               PROVE  Told(x)'
    BY DEF ITold
  <2>1. Placed(x) /\ Waits(x) /\ Uses(x) /\ Told(x)
    BY At1
  <2> QED
    BY <1>7, <1>8, <2>1 DEF Told, Results
<1>20. NoStrandedClient'
  BY <1>1, <1>2, <1>4, <1>5, <1>6, <1>7, <1>8, <1>4, <1>9, InPlace DEF NoStrandedClient, Looked
<1> QED
  BY <1>10, <1>11, <1>12, <1>13, <1>14, <1>15, <1>16, <1>17, <1>18,
     <1>19, <1>20

\* hex_tcp_connection_arrived.
LEMMA ArrivedLeftKeeps ==
  ASSUME IInv, Arrived, UNCHANGED <<control, call>>,
         clients' \in ClientsType /\ NoStrandedClient'
  PROVE  IInv'
<1> USE DEF IInv
<1>1. /\ None \notin Tasks /\ call \in [Tasks -> CallType] /\ commands \in Seq(Tasks) /\ FrameType
      /\ control \in ControlType /\ clients \in ClientsType /\ uv \in UvType
  BY Types, TcpAssumption
<1>2. call' = call
  OBVIOUS
<1>3. /\ control' = control /\ clients' \in ClientsType /\ uv' = uv
  BY DEF Arrived
<1>4. commands' = commands
  BY DEF Arrived
<1>5. /\ IOnce' /\ commands' \in Seq(Tasks)
      /\ \A v \in Tasks : Queued(v)' <=> Queued(v)
  BY <1>4, <1>1, Same
<1>6. /\ FrameType'
      /\ busy' = busy /\ status' = status /\ users' = users /\ memory' = memory
  BY <1>1 DEF Arrived, FrameType, ofTasks, capability
<1>7. TypeOK'
  BY <1>1, <1>3, <1>5, <1>6, TypesNext
<1>8. IOnce'
  BY <1>5
<1>9. IPlaces'
  <2> SUFFICES ASSUME NEW x \in Tasks
               PROVE  Placed(x)'
    BY DEF IPlaces
  <2>1. Placed(x) /\ Waits(x) /\ Uses(x) /\ Told(x)
    BY At1
  <2> QED
    BY <1>3, <1>5, <2>1 DEF Placed
<1>10. IWaiting'
  <2> SUFFICES ASSUME NEW x \in Tasks
               PROVE  Waits(x)'
    BY DEF IWaiting
  <2>1. Placed(x) /\ Waits(x) /\ Uses(x) /\ Told(x)
    BY At1
  <2> QED
    BY <1>3, <1>5, <2>1 DEF Waits
<1>11. IBusy'
  BY <1>6 DEF IBusy, Inside
<1>12. IUse'
  <2> SUFFICES ASSUME NEW x \in Tasks
               PROVE  Uses(x)'
    BY DEF IUse
  <2>1. Placed(x) /\ Waits(x) /\ Uses(x) /\ Told(x)
    BY At1
  <2> QED
    BY <1>6, <2>1 DEF Uses, Alone
<1>13. IMemory'
  BY <1>6
     DEF IMemory, NobodyCalls, Uses, Opening, Leased, Exclusive, Alone, Told
<1>14. ILoop'
  BY <1>3 DEF ILoop
<1>15. ITimers'
  BY <1>3 DEF ITimers
<1>16. ITold'
  <2> SUFFICES ASSUME NEW x \in Tasks
               PROVE  Told(x)'
    BY DEF ITold
  <2>1. Placed(x) /\ Waits(x) /\ Uses(x) /\ Told(x)
    BY At1
  <2> QED
    BY <2>1 DEF Told, Results
<1>17. NoStrandedClient'
  OBVIOUS
<1> QED
  BY <1>7, <1>8, <1>9, <1>10, <1>11, <1>12, <1>13, <1>14, <1>15, <1>16,
     <1>17

LEMMA ArrivedTakenKeeps ==
  ASSUME IInv, NEW t \in Tasks, Arrived, ArrivalTaken(t),
         clients' \in ClientsType /\ NoStrandedClient'
  PROVE  IInv'
<1> USE DEF IInv
<1>1. /\ None \notin Tasks /\ call \in [Tasks -> CallType] /\ commands \in Seq(Tasks) /\ FrameType
      /\ control \in ControlType /\ clients \in ClientsType /\ uv \in UvType
  BY Types, TcpAssumption
<1>2. Placed(t) /\ Waits(t) /\ Uses(t) /\ Told(t)
  BY At1
<1>3. control.acceptCommand = t /\ call[t].op = "accept" /\ call[t].at = "waiting"
  BY <1>2 DEF ArrivalTaken, Placed, Waits
<1>4. /\ call' \in [Tasks -> CallType]
      /\ \A v \in Tasks : v # t => call'[v] = call[v]
      /\ call'[t].op = call[t].op /\ call'[t].at = "woken"
      /\ call'[t].deadline = call[t].deadline /\ call'[t].outcome = call[t].outcome
      /\ call'[t].status = call[t].status /\ call'[t].client = TRUE
      /\ call'[t].met = call[t].met
  <2>1. PICK r0 \in CallType : r0 = call[t]
    BY <1>1
  <2> DEFINE d == [r0 EXCEPT !.at = "woken", !.client = TRUE]
  <2>2. /\ d \in CallType
        /\ d.op = r0.op /\ d.at = "woken" /\ d.deadline = r0.deadline /\ d.outcome = r0.outcome
        /\ d.status = r0.status /\ d.client = TRUE /\ d.met = r0.met
    BY DEF CallType
  <2>3. call' = [call EXCEPT ![t] = d]
    BY <2>1 DEF ArrivalTaken
  <2> HIDE DEF d
  <2> QED
    BY <1>1, <2>1, <2>2, <2>3
<1>5. /\ control' \in ControlType /\ control'.state = control.state
      /\ control'.readOp = control.readOp /\ control'.writeOp = control.writeOp
      /\ control'.acceptCommand = None /\ control'.closer = control.closer
      /\ control'.closePending = control.closePending /\ control'.readTimer = control.readTimer
      /\ control'.writeTimer = control.writeTimer /\ clients' \in ClientsType /\ uv' = uv
  BY <1>1 DEF Arrived, ArrivalTaken, ControlType
<1>6. commands' = commands
  BY DEF Arrived
<1>7. /\ IOnce' /\ commands' \in Seq(Tasks)
      /\ \A v \in Tasks : Queued(v)' <=> Queued(v)
  BY <1>6, <1>1, Same
<1>8. /\ FrameType'
      /\ busy' = busy /\ status' = status /\ users' = users /\ memory' = memory
  BY <1>1 DEF Arrived, FrameType, ofTasks, capability
<1>9. TypeOK'
  BY <1>1, <1>4, <1>5, <1>7, <1>8, TypesNext
<1>10. IOnce'
  BY <1>7
<1>11. IPlaces'
  <2> SUFFICES ASSUME NEW x \in Tasks
               PROVE  Placed(x)'
    BY DEF IPlaces
  <2>1. Placed(x) /\ Waits(x) /\ Uses(x) /\ Told(x)
    BY At1
  <2> QED
    BY <1>1, <1>4, <1>5, <1>7, <2>1 DEF Placed
<1>12. IWaiting'
  <2> SUFFICES ASSUME NEW x \in Tasks
               PROVE  Waits(x)'
    BY DEF IWaiting
  <2>1. Placed(x) /\ Waits(x) /\ Uses(x) /\ Told(x)
    BY At1
  <2> QED
    BY <1>1, <1>3, <1>4, <1>5, <1>7, <2>1 DEF Waits, Placed
<1>13. IBusy'
  <2>1. \A v \in Tasks : \A op \in Exclusive : Inside(v, op)' =>
          Inside(v, op) /\ call'[v].met = call[v].met
    BY <1>3, <1>4 DEF Inside
  <2>2. ASSUME NEW v \in Tasks, NEW op \in Exclusive, Inside(v, op)', ~call'[v].met,
               call'[v].at # "passed"
        PROVE  busy'[op]
    BY <1>3, <1>4, <1>8, <2>1, <2>2 DEF IBusy
  <2> QED
    BY <2>1, <2>2 DEF IBusy
<1>14. IUse'
  <2> SUFFICES ASSUME NEW x \in Tasks
               PROVE  Uses(x)'
    BY DEF IUse
  <2>1. Placed(x) /\ Waits(x) /\ Uses(x) /\ Told(x)
    BY At1
  <2> QED
    BY <1>2, <1>3, <1>4, <1>8, <2>1 DEF Uses, Leased, Exclusive
<1>15. IMemory'
  BY <1>2, <1>3, <1>4, <1>5, <1>8 DEF IMemory, Uses, Leased, Exclusive
<1>16. ILoop'
  BY <1>5 DEF ILoop
<1>17. ITimers'
  BY <1>4, <1>5, InPlace DEF ITimers, ILoop
<1>18. ITold'
  <2> SUFFICES ASSUME NEW x \in Tasks
               PROVE  Told(x)'
    BY DEF ITold
  <2>1. Placed(x) /\ Waits(x) /\ Uses(x) /\ Told(x)
    BY At1
  <2> QED
    BY <1>3, <1>4, <1>5, <2>1 DEF Told, Results
<1>19. NoStrandedClient'
  OBVIOUS
<1> QED
  BY <1>9, <1>10, <1>11, <1>12, <1>13, <1>14, <1>15, <1>16, <1>17,
     <1>18, <1>19

-----------------------------------------------------------------------------

\* At the start there is no control block and nobody calls.
LEMMA InitRight == Init => IInv
<1> SUFFICES ASSUME Init
             PROVE  IInv
  OBVIOUS
<1>1. /\ FrameType /\ status[Block] = "unused" /\ memory = "none"
      /\ \A op \in Exclusive : busy[op] = FALSE
  BY DEF Init, FrameType, Registry!Init
<1>2. /\ control \in ControlType /\ control.state = "open"
      /\ control.readOp = None /\ control.writeOp = None
      /\ control.acceptCommand = None /\ control.closer = None
      /\ control.readTimer = "none" /\ control.writeTimer = "none"
  <2>1. 0 \in 0..3 /\ "none" \in Timers /\ None \in Tasks \cup {None}
    BY DEF Timers
  <2> QED
    BY <2>1 DEF Init, ControlType
<1>3. clients \in ClientsType /\ clients.held = 0 /\ ~clients.pending
  <2>1. 0 \in 0..MaxHeld
    BY TcpAssumption
  <2> QED
    BY <2>1 DEF Init, ClientsType
<1>4. uv \in UvType /\ uv.requests = {} /\ uv.closing = {}
  BY DEF Init, UvType
<1>5. commands \in Seq(Tasks) /\ Len(commands) = 0
  BY DEF Init
<1>6. call \in [Tasks -> CallType] /\ \A t \in Tasks : call[t] = NoCall
  BY NoCallIs DEF Init
<1>7. \A t \in Tasks : ~Queued(t)
  BY <1>5 DEF Queued
<1>8. None \notin Tasks
  BY TcpAssumption
<1>9. TypeOK
  BY <1>1, <1>2, <1>3, <1>4, <1>5, <1>6, Types
<1>10. IOnce
  BY <1>5 DEF IOnce
<1>11. IPlaces /\ IWaiting
  BY <1>2, <1>4, <1>6, <1>7, <1>8, NoCallIs DEF IPlaces, Placed, IWaiting, Waits
<1>12. IBusy
  BY <1>6, NoCallIs DEF IBusy, Inside
<1>13. IUse
  BY <1>6, NoCallIs DEF IUse, Uses, Opening, Leased, Exclusive
<1>14. IMemory
  BY <1>1, <1>6, NoCallIs DEF IMemory, NobodyCalls
<1>15. ILoop
  BY <1>2, <1>4 DEF ILoop
<1>18. ITimers
  BY <1>2 DEF ITimers
<1>16. ITold
  BY <1>6, NoCallIs, Names DEF ITold, Told
<1>17. NoStrandedClient
  BY <1>2, <1>3 DEF NoStrandedClient
<1> QED
  BY <1>9, <1>10, <1>11, <1>12, <1>13, <1>14, <1>15, <1>16, <1>17, <1>18 DEF IInv

\* What a step that changes nothing leaves alone.
LEMMA StutterKeeps == IInv /\ UNCHANGED vars => IInv'
<1> SUFFICES ASSUME IInv, UNCHANGED vars
             PROVE  IInv'
  OBVIOUS
<1>1. /\ UNCHANGED <<kind, status, users, memory, busy>>
      /\ UNCHANGED <<control, clients, uv, commands, call>>
  BY DEF vars, capability
<1> USE DEF IInv
<1>2. TypeOK'
  BY <1>1, Types, TypesNext DEF FrameType
<1>3. \A t : Queued(t)' <=> Queued(t)
  BY <1>1 DEF Queued
<1>4. IOnce'
  BY <1>1 DEF IOnce
<1>5. IPlaces' /\ IWaiting'
  BY <1>1, <1>3 DEF IPlaces, Placed, IWaiting, Waits
<1>6. IBusy'
  BY <1>1 DEF IBusy, Inside
<1>7. IUse' /\ IMemory'
  BY <1>1 DEF IUse, Uses, Alone, IMemory, NobodyCalls
<1>8. ILoop'
  BY <1>1 DEF ILoop
<1>9. ITold'
  BY <1>1 DEF ITold, Told
<1>10. NoStrandedClient' /\ ITimers'
  BY <1>1 DEF NoStrandedClient, ITimers
<1> QED
  BY <1>2, <1>4, <1>5, <1>6, <1>7, <1>8, <1>9, <1>10

-----------------------------------------------------------------------------

\* The steps of a Task.
LEMMA TaskStep ==
  ASSUME IInv, NEW t \in Tasks, GoesOn(t)
  PROVE  IInv'
<1>1. ASSUME Send(t)
      PROVE  IInv'
  BY <1>1, SendNothingKeeps, SendCommandKeeps
<1> QED
  BY <1>1, RefuseKeeps, AdmitKeeps, PublishKeeps, AbandonKeeps, DiscardKeeps,
     NextChunkKeeps, FinishKeeps
     DEF GoesOn

\* The loop starts a command.
LEMMA CommandStep ==
  ASSUME IInv, Command
  PROVE  IInv'
<1>1. ASSUME NEW t \in Tasks, ConnectStart(t)
      PROVE  IInv'
  <2>1. (Request(t) /\ UNCHANGED call) \/ (Answer(t, "failed") /\ UNCHANGED uv)
    BY <1>1 DEF ConnectStart
  <2> QED
    BY <1>1, <2>1, ConnectStartRequestKeeps, ConnectStartFailKeeps
<1>2. ASSUME NEW t \in Tasks, ShutdownStart(t)
      PROVE  IInv'
  <2>1. (Request(t) /\ UNCHANGED call) \/ (Answer(t, "failed") /\ UNCHANGED uv)
    BY <1>2 DEF ShutdownStart
  <2> QED
    BY <1>2, <2>1, ShutdownStartRequestKeeps, ShutdownStartFailKeeps
<1>3. ASSUME NEW t \in Tasks, StartClosed(t)
      PROVE  IInv'
  BY <1>3, StartClosedReadKeeps, StartClosedOtherKeeps
<1>4. ASSUME NEW t \in Tasks, CloseStart(t)
      PROVE  IInv'
  <2>1. control.state \in {"open", "closing", "closed"}
    BY Types DEF IInv, ControlType
  <2> QED
    BY <1>4, <2>1, CloseStartOpenKeeps, CloseStartClosing1Keeps, CloseStartClosedKeeps
<1>5. ASSUME NEW t \in Tasks, AcceptStart(t)
      PROVE  IInv'
  <2>1. /\ clients' \in ClientsType
        /\ Looked(clients')
        /\ \/ AcceptGives(t)
           \/ AcceptParks(t) /\ ~clients'.pending /\ (clients'.held = 0 \/ clients'.givenUp)
    BY <1>5, AcceptFacts
  <2> QED
    BY <1>5, <2>1, AcceptStartGivesKeeps, AcceptStartParksKeeps
<1>6. ASSUME NEW t \in Tasks, NEW result \in Results,
             ListenStart(t, result) \/ NoDelayStart(t, result)
      PROVE  IInv'
  BY <1>6, ListenStartKeeps, NoDelayStartKeeps
<1>7. ASSUME NEW t \in Tasks,
             \/ ReadLate(t) \/ ReadFails(t) \/ ReadStart(t)
             \/ WriteLate(t) \/ WriteFails(t) \/ WriteStart(t)
      PROVE  IInv'
  BY <1>7, ReadLateKeeps, ReadFailsKeeps, ReadStartKeeps,
     WriteLateKeeps, WriteFailsKeeps, WriteStartKeeps
<1> QED
  BY <1>1, <1>2, <1>3, <1>4, <1>5, <1>6, <1>7 DEF Command

\* libuv's callbacks: a request, a timer, a client, a closed handle.
LEMMA CallbackStep ==
  ASSUME IInv,
         \/ \E t \in Tasks : Completes(t) \/ Expires(t)
         \/ \E t \in Tasks : \E result \in Results : ReadCb(t, result)
         \/ Arrived \/ Closes
  PROVE  IInv'
<1>1. ASSUME NEW t \in Tasks, Completes(t)
      PROVE  IInv'
  BY <1>1, ConnectDoneKeeps, WriteDoneKeeps, ShutdownDoneKeeps DEF Completes
<1>2. ASSUME NEW t \in Tasks, Expires(t)
      PROVE  IInv'
  BY <1>2, ReadTimerFiredKeeps, WriteTimerFiredKeeps DEF Expires
<1>3. ASSUME NEW t \in Tasks, NEW result \in Results, ReadCb(t, result)
      PROVE  IInv'
  BY <1>3, ReadCbKeeps
<1>4. ASSUME Arrived
      PROVE  IInv'
  <2>1. /\ clients' \in ClientsType /\ NoStrandedClient'
        /\ UNCHANGED <<control, call>> \/ \E t \in Tasks : ArrivalTaken(t)
    BY <1>4, ArrivalFacts
  <2> QED
    BY <1>4, <2>1, ArrivedLeftKeeps, ArrivedTakenKeeps
<1>5. ASSUME NEW handle, CloseDone(handle)
      PROVE  IInv'
  <2>1. control.closer \in Tasks \cup {None}
    BY Types DEF IInv, ControlType
  <2>2. CASE control.closePending > 1
    BY <1>5, <2>2, CloseDoneOneKeeps
  <2>3. CASE ~(control.closePending > 1) /\ control.closer = None
    BY <1>5, <2>3, CloseDoneAloneKeeps
  <2>4. CASE ~(control.closePending > 1) /\ control.closer # None
    BY <1>5, <2>1, <2>4, CloseDoneLastKeeps
  <2> QED
    BY <2>2, <2>3, <2>4
<1> QED
  BY <1>1, <1>2, <1>3, <1>4, <1>5 DEF Closes

\* Every step, and a step that changes nothing.
LEMMA StepKeeps == IInv /\ [Next]_vars => IInv'
<1> SUFFICES ASSUME IInv, [Next]_vars
             PROVE  IInv'
  OBVIOUS
<1>1. ASSUME NEW t \in Tasks, Open(t) \/ CloseBegin(t) \/ Elapse(t)
      PROVE  IInv'
  BY <1>1, OpenKeeps, CloseBeginKeeps, ElapseKeeps
<1>2. ASSUME NEW t \in Tasks, NEW op \in Calls, NEW deadline \in {"none", "ahead"},
             NEW left \in Chunks \cup {0}, Enter(t, op, deadline, left)
      PROVE  IInv'
  BY <1>2, EnterKeeps
<1> QED
  BY <1>1, <1>2, TaskStep, CommandStep, CallbackStep, RecycleKeeps, StutterKeeps DEF Next

-----------------------------------------------------------------------------

\* The calls of every number of Tasks, the loop and libuv keep the invariant,
\* whichever of them meet because they read a busy flag at one time.
\* [hex_tcp_read_core, hex_tcp_write, hex_tcp_accept: busy]
THEOREM TcpInvariance == Spec => []IInv
BY InitRight, StepKeeps, PTL DEF Spec

\* The queue, the control block and libuv name a record only while its Task is
\* parked; they lose one only where two reads or two accepts met; and the control
\* block is given back only without open handles.
\* [hex_tcp_begin_close, hex_tcp_close_done, hex_tcp_free]
THEOREM NobodyIsNamedInVain == Spec => []NothingDangles
<1>1. IInv => NothingDangles
  <2> SUFFICES ASSUME IInv
               PROVE  NothingDangles
    OBVIOUS
  <2>1. control.writeOp \in Tasks \cup {None}
    BY Types DEF IInv, ControlType
  <2>2. control.writeOp \in uv.requests \cup {None}
    BY <2>1, At1 DEF Placed
  <2>3. \A t \in Tasks :
          /\ Named(t) => call[t].at = "waiting"
          /\ Lost(t) => call[t].met /\ call[t].op \in {"read", "accept"}
    BY At1 DEF Waits, Named, Lost, Queued
  <2>4. memory = "freed" => uv.closing = {} /\ control.state = "closed"
    BY DEF IInv, IMemory, ILoop
  <2> QED
    BY <2>2, <2>3, <2>4 DEF NothingDangles
<1> QED
  BY <1>1, TcpInvariance, PTL

\* What a woken call is told is what happened to it and to its socket; a write
\* that met another may be told of the other's deadline.
\* [hex_tcp_read_settle, hex_tcp_write_done, hex_tcp_close_done]
THEOREM CallsAreToldRight == Spec => []ToldRight
<1>1. IInv => ToldRight
  <2> SUFFICES ASSUME IInv, NEW t \in Tasks, call[t].at = "woken"
               PROVE  /\ call[t].outcome = "deadline" \/ call[t].status = TimedOut =>
                           \/ call[t].deadline = "past"
                           \/ call[t].op = "write" /\ call[t].met /\ call[t].deadline = "none"
                      /\ \/ call[t].outcome = "closed"
                         \/ call[t].status \in {"closed", TimedOut}
                         \/ call[t].op = "accept" /\ ~call[t].client
                         => control.state # "open"
                      /\ call[t].op \in {"close", "discard"} =>
                           control.state = "closed" /\ control.closePending = 0
    BY Zenon DEF ToldRight, TimedOut
  <2>1. Told(t)
    BY At1
  <2>2. control.state = "closed" => control.closePending = 0
    BY DEF IInv, ILoop
  <2> QED
    BY <2>1, <2>2 DEF Told
<1> QED
  BY <1>1, TcpInvariance, PTL

\* An accept is parked beside a client only if it met another accept or memory
\* ran out, and no client is forgotten in libuv but for want of memory.
\* [hex_tcp_accept_resume, hex_tcp_connection_arrived]
THEOREM NoClientIsStranded == Spec => []NoStrandedClient
<1>1. IInv => NoStrandedClient
  BY DEF IInv
<1> QED
  BY <1>1, TcpInvariance, PTL
=============================================================================
