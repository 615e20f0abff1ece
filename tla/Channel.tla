------------------------------ MODULE Channel ------------------------------
(***************************************************************************)
(* The bounded Channel of the runtime (hex_chan_* in                       *)
(* src/compiler/generator/packages/concurrency.c): a ring under one mutex, *)
(* and two stacks of parked Tasks.  An operation wakes one Task of the     *)
(* opposite stack, which then tries again against whoever came in between; *)
(* close wakes everyone.                                                   *)
(*                                                                         *)
(* A critical section of the channel mutex is one step.  A wake made in it *)
(* leads, by what the module Scheduler shows, to one resumption of the     *)
(* woken Task: the steps SendResume and ReceiveResume.                     *)
(***************************************************************************)
EXTENDS Integers, FiniteSets, Sequences

CONSTANTS
  Tasks,     \* the Tasks that share the Channel
  Values,    \* what they send
  Capacity,  \* capacity
  None       \* no value

ASSUME ChannelAssumption ==
  /\ IsFiniteSet(Tasks)
  /\ Capacity \in Nat \ {0}
  /\ None \notin Values

VARIABLES
  slots, head, length,  \* the ring
  closed,               \* closed
  waitSend, waitRecv,   \* the stacks of parked Tasks, the newest first
  at,                   \* Task -> its place in a call
  value,                \* Task -> the value it is sending
  wakeResult,           \* Task -> wake_result
  result,               \* Task -> what its last call returned, if it is in none
  freed                 \* hex_chan_free ran

ring == <<slots, head, length>>
stacks == <<waitSend, waitRecv>>
vars == <<ring, stacks, closed, at, value, wakeResult, result, freed>>

Results == {<<"none">>, <<"refused">>, <<"eos">>}
             \cup ({"sent", "value"} \X Values)

TypeOK ==
  /\ slots \in [0..(Capacity - 1) -> Values \cup {None}]
  /\ head \in 0..(Capacity - 1)
  /\ length \in 0..Capacity
  /\ closed \in BOOLEAN
  /\ waitSend \in Seq(Tasks)
  /\ waitRecv \in Seq(Tasks)
  /\ at \in [Tasks -> {"idle", "send", "receive", "parkedSend", "parkedRecv",
                       "wokenSend", "wokenRecv"}]
  /\ value \in [Tasks -> Values \cup {None}]
  /\ wakeResult \in [Tasks -> BOOLEAN]
  /\ result \in [Tasks -> Results]
  /\ freed \in BOOLEAN

\* hex_chan_new
Init ==
  /\ slots = [i \in 0..(Capacity - 1) |-> None]
  /\ head = 0
  /\ length = 0
  /\ closed = FALSE
  /\ waitSend = << >>
  /\ waitRecv = << >>
  /\ at = [t \in Tasks |-> "idle"]
  /\ value = [t \in Tasks |-> None]
  /\ wakeResult = [t \in Tasks |-> FALSE]
  /\ result = [t \in Tasks |-> <<"none">>]
  /\ freed = FALSE

Members(stack) == {stack[i] : i \in 1..Len(stack)}

\* The place of a Task once it is woken.
Woken(t) == IF at[t] = "parkedSend" THEN "wokenSend" ELSE "wokenRecv"

\* The call of t returns r, and every Task in W is woken with wake_result w.
ReturnAndWake(t, r, W, w) ==
  /\ at' = [u \in Tasks |-> IF u = t THEN "idle"
                            ELSE IF u \in W THEN Woken(u) ELSE at[u]]
  /\ wakeResult' = [u \in Tasks |-> IF u = t THEN FALSE
                                    ELSE IF u \in W THEN w ELSE wakeResult[u]]
  /\ value' = [value EXCEPT ![t] = None]
  /\ result' = [result EXCEPT ![t] = r]

\* The Task that one operation takes from the opposite stack, if any.
Newest(stack) == IF stack = << >> THEN {} ELSE {Head(stack)}
Rest(stack) == IF stack = << >> THEN << >> ELSE Tail(stack)

Return(t, r) == ReturnAndWake(t, r, {}, FALSE)

Park(t, place) ==
  /\ at' = [at EXCEPT ![t] = place]
  /\ wakeResult' = [wakeResult EXCEPT ![t] = FALSE]
  /\ UNCHANGED <<value, result>>

-----------------------------------------------------------------------------
\* hex_chan_send

CallSend(t, v) ==
  /\ at[t] = "idle"
  /\ ~freed
  /\ at' = [at EXCEPT ![t] = "send"]
  /\ value' = [value EXCEPT ![t] = v]
  /\ result' = [result EXCEPT ![t] = <<"none">>]
  /\ UNCHANGED <<ring, stacks, closed, wakeResult, freed>>

SendRefused(t) ==
  /\ at[t] = "send"
  /\ ~freed
  /\ closed
  /\ Return(t, <<"refused">>)
  /\ UNCHANGED <<ring, stacks, closed, freed>>

\* The Task registers in the critical section that found the ring full.
SendParks(t) ==
  /\ at[t] = "send"
  /\ ~freed
  /\ ~closed
  /\ length = Capacity
  /\ Park(t, "parkedSend")
  /\ waitSend' = <<t>> \o waitSend
  /\ UNCHANGED <<ring, waitRecv, closed, freed>>

\* Mutants of SendPuts: a receiver is woken only when the ring was empty; the
\* tail is not offset by the head.
SendPutsFirst(t) ==
  /\ at[t] = "send"
  /\ ~freed
  /\ ~closed
  /\ length < Capacity
  /\ slots' = [slots EXCEPT ![(head + length) % Capacity] = value[t]]
  /\ length' = length + 1
  /\ IF length = 0
     THEN /\ ReturnAndWake(t, <<"sent", value[t]>>, Newest(waitRecv), FALSE)
          /\ waitRecv' = Rest(waitRecv)
     ELSE Return(t, <<"sent", value[t]>>) /\ UNCHANGED waitRecv
  /\ UNCHANGED <<head, waitSend, closed, freed>>

SendPutsAtLength(t) ==
  /\ at[t] = "send"
  /\ ~freed
  /\ ~closed
  /\ length < Capacity
  /\ slots' = [slots EXCEPT ![length] = value[t]]
  /\ length' = length + 1
  /\ ReturnAndWake(t, <<"sent", value[t]>>, Newest(waitRecv), FALSE)
  /\ waitRecv' = Rest(waitRecv)
  /\ UNCHANGED <<head, waitSend, closed, freed>>

SendPuts(t) ==
  /\ at[t] = "send"
  /\ ~freed
  /\ ~closed
  /\ length < Capacity
  /\ slots' = [slots EXCEPT ![(head + length) % Capacity] = value[t]]
  /\ length' = length + 1
  /\ ReturnAndWake(t, <<"sent", value[t]>>, Newest(waitRecv), FALSE)
  /\ waitRecv' = Rest(waitRecv)
  /\ UNCHANGED <<head, waitSend, closed, freed>>

\* A sender that close woke returns without looking at the Channel again.
SendResume(t) ==
  /\ at[t] = "wokenSend"
  /\ IF wakeResult[t]
     THEN Return(t, <<"refused">>)
     ELSE /\ at' = [at EXCEPT ![t] = "send"]
          /\ UNCHANGED <<value, wakeResult, result>>
  /\ UNCHANGED <<ring, stacks, closed, freed>>

-----------------------------------------------------------------------------
\* hex_chan_receive

CallReceive(t) ==
  /\ at[t] = "idle"
  /\ ~freed
  /\ at' = [at EXCEPT ![t] = "receive"]
  /\ result' = [result EXCEPT ![t] = <<"none">>]
  /\ UNCHANGED <<ring, stacks, closed, value, wakeResult, freed>>

\* A slot that was read is not read again before it is written.
ReceiveTakes(t) ==
  /\ at[t] = "receive"
  /\ ~freed
  /\ length > 0
  /\ head' = (head + 1) % Capacity
  /\ length' = length - 1
  /\ slots' = [slots EXCEPT ![head] = None]
  /\ ReturnAndWake(t, <<"value", slots[head]>>, Newest(waitSend), FALSE)
  /\ waitSend' = Rest(waitSend)
  /\ UNCHANGED <<waitRecv, closed, freed>>

ReceiveEnds(t) ==
  /\ at[t] = "receive"
  /\ ~freed
  /\ length = 0
  /\ closed
  /\ Return(t, <<"eos">>)
  /\ UNCHANGED <<ring, stacks, closed, freed>>

ReceiveParks(t) ==
  /\ at[t] = "receive"
  /\ ~freed
  /\ length = 0
  /\ ~closed
  /\ Park(t, "parkedRecv")
  /\ waitRecv' = <<t>> \o waitRecv
  /\ UNCHANGED <<ring, waitSend, closed, freed>>

\* A woken receiver tries again, whatever woke it.
ReceiveResume(t) ==
  /\ at[t] = "wokenRecv"
  /\ at' = [at EXCEPT ![t] = "receive"]
  /\ UNCHANGED <<ring, stacks, closed, value, wakeResult, result, freed>>

-----------------------------------------------------------------------------
\* hex_chan_close and hex_chan_free

\* Mutant of Close: it wakes the senders only.
CloseSenders(t) ==
  /\ at[t] = "idle"
  /\ ~freed
  /\ closed' = TRUE
  /\ ReturnAndWake(t, result[t], Members(waitSend), TRUE)
  /\ waitSend' = << >>
  /\ UNCHANGED <<ring, waitRecv, freed>>

\* Senders are woken with wake_result 1, receivers with 0.
Close(t) ==
  /\ at[t] = "idle"
  /\ ~freed
  /\ closed' = TRUE
  /\ at' = [u \in Tasks |-> IF u \in Members(waitSend) \cup Members(waitRecv)
                            THEN Woken(u) ELSE at[u]]
  /\ wakeResult' = [u \in Tasks |-> IF u \in Members(waitSend) THEN TRUE
                                    ELSE IF u \in Members(waitRecv) THEN FALSE
                                    ELSE wakeResult[u]]
  /\ waitSend' = << >>
  /\ waitRecv' = << >>
  /\ UNCHANGED <<ring, value, result, freed>>

\* free traps unless the Channel is closed, empty and without waiters.
Free(t) ==
  /\ at[t] = "idle"
  /\ ~freed
  /\ \A u \in Tasks : at[u] = "idle"
  /\ waitSend = << >> /\ waitRecv = << >>
  /\ closed /\ length = 0
  /\ freed' = TRUE
  /\ UNCHANGED <<ring, stacks, closed, at, value, wakeResult, result>>

-----------------------------------------------------------------------------
\* A Task inside a call.
Send(t) == SendRefused(t) \/ SendParks(t) \/ SendPuts(t) \/ SendResume(t)

Receive(t) ==
  ReceiveTakes(t) \/ ReceiveEnds(t) \/ ReceiveParks(t) \/ ReceiveResume(t)

Next ==
  \E t \in Tasks :
    \/ \E v \in Values : CallSend(t, v)
    \/ CallReceive(t) \/ Send(t) \/ Receive(t) \/ Close(t) \/ Free(t)

\* Woken Tasks are resumed and Tasks in a call go on: what Scheduler shows
\* under its fairness.
Spec ==
  /\ Init /\ [][Next]_vars
  /\ \A t \in Tasks : WF_vars(Send(t) \/ Receive(t))

-----------------------------------------------------------------------------
At(place) == {t \in Tasks : at[t] = place}

\* A parked Task is on its stack once, and nobody else is; after close both
\* stacks stay empty.  [hex_chan_close: "no waiter is ever left"]
ParkedExactly ==
  /\ Members(waitSend) = At("parkedSend")
  /\ Members(waitRecv) = At("parkedRecv")
  /\ Len(waitSend) = Cardinality(At("parkedSend"))
  /\ Len(waitRecv) = Cardinality(At("parkedRecv"))
  /\ closed => waitSend = << >> /\ waitRecv = << >>

\* Nobody stays parked beside what it waits for: while a receiver is parked,
\* the woken receivers that have not tried yet suffice for the queued values,
\* and while a sender is parked, the woken senders suffice for the free slots.
\* [one waiter is taken from the stack by each send and each receive]
NoStrandedWaiter ==
  /\ waitRecv # << >> => length <= Cardinality(At("wokenRecv") \cup At("receive"))
  /\ waitSend # << >> =>
       Capacity - length <= Cardinality(At("wokenSend") \cup At("send"))
  /\ ParkedExactly

\* Close ends every call that is under way.  [hex_chan_close]
CloseReturns == \A t \in Tasks : (closed /\ at[t] # "idle") ~> at[t] = "idle"

\* The ring, its waiters and their retries implement a bounded FIFO.
Buffer == [i \in 1..length |-> slots[(head + i - 1) % Capacity]]

Fifo == INSTANCE BoundedFifo WITH queue <- Buffer, open <- ~closed

\* [docs/reference.md, "Channel<T>"]
ImplementsFifo == Fifo!Spec
=============================================================================
