----------------------------- MODULE BoundedFifo -----------------------------
(***************************************************************************)
(* What a Channel promises (docs/reference.md, "Channel<T>"): a bounded    *)
(* multi-producer, multi-consumer FIFO.  A send is refused only after      *)
(* close, a receive ends the stream only when it is closed and drained.    *)
(***************************************************************************)
EXTENDS Naturals, Sequences

CONSTANTS Tasks, Values, Capacity

VARIABLES
  queue,   \* the values in the Channel, oldest first
  open,    \* not closed
  result   \* Task -> what its last call returned, none during a call

fifo == <<queue, open, result>>

Init ==
  /\ queue = << >>
  /\ open = TRUE
  /\ result = [t \in Tasks |-> <<"none">>]

Return(t, r) == result' = [result EXCEPT ![t] = r]

Call(t) == Return(t, <<"none">>) /\ UNCHANGED <<queue, open>>

Put(t, v) ==
  /\ open
  /\ Len(queue) < Capacity
  /\ queue' = Append(queue, v)
  /\ Return(t, <<"sent", v>>)
  /\ UNCHANGED open

Take(t) ==
  /\ queue # << >>
  /\ queue' = Tail(queue)
  /\ Return(t, <<"value", Head(queue)>>)
  /\ UNCHANGED open

Refuse(t) == ~open /\ Return(t, <<"refused">>) /\ UNCHANGED <<queue, open>>

EndOfStream(t) ==
  /\ ~open
  /\ queue = << >>
  /\ Return(t, <<"eos">>)
  /\ UNCHANGED <<queue, open>>

Close == open' = FALSE /\ UNCHANGED <<queue, result>>

Next ==
  \/ \E t \in Tasks : Call(t) \/ Take(t) \/ Refuse(t) \/ EndOfStream(t)
  \/ \E t \in Tasks, v \in Values : Put(t, v)
  \/ Close

Spec == Init /\ [][Next]_fifo
=============================================================================
