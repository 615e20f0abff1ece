--------------------------- MODULE ChannelProofs ---------------------------
(***************************************************************************)
(* Theorems about Channel for any Tasks, values and capacity: nobody stays *)
(* parked beside what it waits for, and the ring with its two stacks of    *)
(* waiters is the bounded FIFO that BoundedFifo describes.                 *)
(***************************************************************************)
EXTENDS Channel, FiniteSetTheorems, SequenceTheorems, TLAPS

Places == {"idle", "send", "receive", "parkedSend", "parkedRecv", "wokenSend",
           "wokenRecv"}

Parked == {"parkedSend", "parkedRecv"}

Distinct(s) == \A i, j \in 1..Len(s) : s[i] = s[j] => i = j

\* The senders, and the receivers, that are going to look at the ring.
Senders == At("wokenSend") \cup At("send")
Receivers == At("wokenRecv") \cup At("receive")

\* What the ring holds was sent.
IRing == Buffer \in Seq(Values)

\* A Task that is sending has a value to send.
IValue ==
  \A t \in Tasks :
    at[t] \in {"send", "parkedSend", "wokenSend"} => value[t] \in Values

\* Only close wakes with wake_result 1.
IRefuse == \A t \in Tasks : wakeResult[t] => closed

IStacks == Distinct(waitSend) /\ Distinct(waitRecv) /\ ParkedExactly

ICounts ==
  /\ waitRecv # << >> => length <= Cardinality(Receivers)
  /\ waitSend # << >> => Capacity - length <= Cardinality(Senders)

IInv == TypeOK /\ IRing /\ IValue /\ IRefuse /\ IStacks /\ ICounts

-----------------------------------------------------------------------------
\* The stacks and the ring.

LEMMA AroundRing ==
  ASSUME NEW C \in Nat \ {0}, NEW h \in 0..(C - 1), NEW i \in 0..(C - 1)
  PROVE  /\ (h + i) % C = IF h + i < C THEN h + i ELSE h + i - C
         /\ (h + i) % C \in 0..(C - 1)
         /\ h % C = h
<1> QED
  OBVIOUS

\* Two places of the ring are apart, and the next place is one further.
LEMMA PlacesApart ==
  ASSUME NEW C \in Nat \ {0}, NEW h \in 0..(C - 1), NEW i \in 0..(C - 1),
         NEW j \in 0..(C - 1), i # j
  PROVE  (h + i) % C # (h + j) % C
<1>1. (h + i) % C = IF h + i < C THEN h + i ELSE h + i - C
  BY AroundRing
<1>2. (h + j) % C = IF h + j < C THEN h + j ELSE h + j - C
  BY AroundRing
<1> QED
  BY <1>1, <1>2

LEMMA NextPlace ==
  ASSUME NEW C \in Nat \ {0}, NEW h \in 0..(C - 1), NEW i \in 1..C
  PROVE  (((h + 1) % C) + i - 1) % C = (h + i) % C
<1>1. CASE h + 1 < C
  <2>1. (h + 1) % C = h + 1
    BY <1>1
  <2>2. ((h + 1) % C) + i - 1 = h + i
    BY <2>1
  <2> QED
    BY <2>2
<1>2. CASE h + 1 = C
  <2>1. (h + 1) % C = 0
    BY <1>2
  <2>2. ((h + 1) % C) + i - 1 = i - 1
    BY <2>1
  <2>3. (i - 1) % C = i - 1
    OBVIOUS
  <2>4. (h + i) % C = i - 1
    <3>1. h + i = C + (i - 1) /\ h + i \in C..(2 * C - 1)
      BY <1>2
    <3>2. \A x \in C..(2 * C - 1) : x % C = x - C
      OBVIOUS
    <3> QED
      BY <3>1, <3>2
  <2> QED
    BY <2>2, <2>3, <2>4
<1> QED
  BY <1>1, <1>2

\* A sequence that is another with one more, or with its head gone.
LEMMA SeqFacts ==
  ASSUME NEW S, NEW b \in Seq(S), NEW c \in Seq(S)
  PROVE  /\ \A v \in S : /\ Append(b, v) \in Seq(S)
                         /\ Len(c) = Len(b) + 1 /\ c[Len(b) + 1] = v
                            /\ (\A i \in 1..Len(b) : c[i] = b[i])
                            => c = Append(b, v)
         /\ Len(b) > 0 =>
              /\ b # << >> /\ Head(b) = b[1] /\ b[1] \in S /\ Tail(b) \in Seq(S)
              /\ Len(c) = Len(b) - 1 /\ (\A i \in 1..(Len(b) - 1) : c[i] = b[i + 1])
                 => c = Tail(b)
<1>1. ASSUME NEW v \in S
      PROVE  /\ Append(b, v) \in Seq(S)
             /\ Len(c) = Len(b) + 1 /\ c[Len(b) + 1] = v /\ (\A i \in 1..Len(b) : c[i] = b[i])
                => c = Append(b, v)
  <2>1. /\ Append(b, v) \in Seq(S) /\ Len(Append(b, v)) = Len(b) + 1
        /\ Append(b, v)[Len(b) + 1] = v /\ \A i \in 1..Len(b) : Append(b, v)[i] = b[i]
        /\ Len(b) \in Nat
    BY AppendProperties
  <2>2. \A i \in 1..(Len(b) + 1) : i \in 1..Len(b) \/ i = Len(b) + 1
    BY <2>1
  <2> QED
    BY <2>1, <2>2, SeqEqual
<1>2. ASSUME Len(b) > 0
      PROVE  /\ b # << >> /\ Head(b) = b[1] /\ b[1] \in S /\ Tail(b) \in Seq(S)
             /\ Len(c) = Len(b) - 1 /\ (\A i \in 1..(Len(b) - 1) : c[i] = b[i + 1])
                => c = Tail(b)
  <2>1. /\ b # << >> /\ Head(b) = b[1] /\ b[1] \in S
        /\ Tail(b) \in Seq(S) /\ Len(Tail(b)) = Len(b) - 1
        /\ \A i \in 1..(Len(b) - 1) : Tail(b)[i] = b[i + 1]
    BY <1>2, HeadTailProperties
  <2> QED
    BY <2>1, SeqEqual
<1> QED
  BY <1>1, <1>2

LEMMA PushFacts ==
  ASSUME NEW S, NEW s \in Seq(S), NEW t \in S, t \notin Members(s), Distinct(s)
  PROVE  /\ <<t>> \o s \in Seq(S) /\ Len(<<t>> \o s) = Len(s) + 1
         /\ Members(<<t>> \o s) = Members(s) \cup {t} /\ Distinct(<<t>> \o s)
<1> DEFINE n == Len(s)
           p == <<t>> \o s
<1>1. /\ n \in Nat /\ p \in Seq(S) /\ Len(p) = n + 1 /\ p[1] = t
      /\ \A i \in 2..(n + 1) : p[i] = s[i - 1] /\ i - 1 \in 1..n
      /\ \A i \in 1..n : p[i + 1] = s[i] /\ i + 1 \in 1..(n + 1)
  OBVIOUS
<1> HIDE DEF n, p
<1>2. \A i \in 1..(n + 1) : i = 1 \/ i \in 2..(n + 1)
  BY <1>1
<1>3. Members(p) = Members(s) \cup {t}
  <2>1. \A i \in 1..(n + 1) : p[i] \in Members(s) \cup {t}
    BY <1>1, <1>2 DEF Members, n
  <2>2. \A i \in 1..n : s[i] \in Members(p)
    BY <1>1 DEF Members
  <2>3. t \in Members(p)
    BY <1>1 DEF Members
  <2> QED
    BY <2>1, <2>2, <2>3, <1>1 DEF Members, n
<1>4. Distinct(p)
  <2> SUFFICES ASSUME NEW i \in 1..(n + 1), NEW j \in 1..(n + 1), p[i] = p[j]
               PROVE  i = j
    BY <1>1 DEF Distinct
  <2>1. \A m \in 2..(n + 1) : p[m] # t
    BY <1>1 DEF Members, n
  <2>2. CASE i = 1 \/ j = 1
    BY <2>1, <2>2, <1>1, <1>2
  <2>3. CASE i # 1 /\ j # 1
    <3>1. /\ i - 1 \in 1..n /\ j - 1 \in 1..n /\ s[i - 1] = s[j - 1]
          /\ i \in 2..(n + 1) /\ j \in 2..(n + 1)
      BY <2>3, <1>1, <1>2
    <3>2. i - 1 = j - 1
      BY <3>1 DEF Distinct, n
    <3> QED
      BY <3>1, <3>2
  <2> QED
    BY <2>2, <2>3
<1> QED
  BY <1>1, <1>3, <1>4 DEF n, p

LEMMA PopFacts ==
  ASSUME NEW S, NEW s \in Seq(S), s # << >>, Distinct(s)
  PROVE  /\ Tail(s) \in Seq(S) /\ Len(Tail(s)) = Len(s) - 1
         /\ Head(s) \in Members(s) /\ Head(s) \in S
         /\ Members(Tail(s)) = Members(s) \ {Head(s)} /\ Distinct(Tail(s))
<1> DEFINE n == Len(s)
           p == Tail(s)
<1>1. /\ n \in Nat /\ n > 0 /\ p \in Seq(S) /\ Len(p) = n - 1
      /\ Head(s) = s[1] /\ s[1] \in S /\ 1 \in 1..n
      /\ \A i \in 1..(n - 1) : p[i] = s[i + 1] /\ i + 1 \in 1..n
      /\ \A i \in 2..n : s[i] = p[i - 1] /\ i - 1 \in 1..(n - 1)
  OBVIOUS
<1>2. \A i \in 2..n : s[i] # s[1] /\ i \in 1..n
  BY <1>1 DEF Distinct
<1> HIDE DEF n, p
<1>3. Members(p) = Members(s) \ {s[1]}
  <2>1. \A i \in 1..(n - 1) : i + 1 \in 2..n
    BY <1>1
  <2>2. \A i \in 1..(n - 1) : p[i] \in Members(s) \ {s[1]}
    BY <2>1, <1>1, <1>2 DEF Members, n
  <2>3. \A i \in 1..n : i = 1 \/ i \in 2..n
    BY <1>1
  <2>4. \A i \in 2..n : s[i] \in Members(p)
    BY <1>1 DEF Members
  <2>5. \A x \in Members(p) : \E i \in 1..(n - 1) : x = p[i]
    BY <1>1 DEF Members
  <2>6. \A x \in Members(s) : \E i \in 1..n : x = s[i]
    BY DEF Members, n
  <2>7. Members(p) \subseteq Members(s) \ {s[1]}
    BY <2>2, <2>5
  <2>8. Members(s) \ {s[1]} \subseteq Members(p)
    BY <2>3, <2>4, <2>6
  <2> QED
    BY <2>7, <2>8
<1>4. Distinct(p)
  <2> SUFFICES ASSUME NEW i \in 1..(n - 1), NEW j \in 1..(n - 1), p[i] = p[j]
               PROVE  i = j
    BY <1>1 DEF Distinct
  <2>1. i + 1 = j + 1
    BY <1>1 DEF Distinct, n
  <2> QED
    BY <2>1, <1>1
<1>5. s[1] \in Members(s)
  BY <1>1 DEF Members, n
<1> QED
  BY <1>1, <1>3, <1>4, <1>5 DEF n, p

\* One Task moves.
Goes(t, p) == at'[t] = p /\ \A u \in Tasks : u # t => at'[u] = at[u]

\* One Task moves, and another is woken.
Wakes(t, w, p) ==
  /\ at'[t] = "idle" /\ at'[w] = p
  /\ \A u \in Tasks : u # t /\ u # w => at'[u] = at[u]

LEMMA GoesFacts ==
  ASSUME NEW t \in Tasks, NEW p, Goes(t, p)
  PROVE  \A q : At(q)' = IF q = p THEN At(q) \cup {t} ELSE At(q) \ {t}
<1> QED
  BY DEF At, Goes

LEMMA PlacesFinite ==
  /\ \A p : IsFiniteSet(At(p)) /\ Cardinality(At(p)) \in Nat
  /\ IsFiniteSet(Senders) /\ Cardinality(Senders) \in Nat
  /\ IsFiniteSet(Receivers) /\ Cardinality(Receivers) \in Nat
<1>1. \A S \in SUBSET Tasks : IsFiniteSet(S) /\ Cardinality(S) \in Nat
  BY ChannelAssumption, FS_Subset, FS_CardinalityType
<1>2. Senders \in SUBSET Tasks /\ Receivers \in SUBSET Tasks
      /\ \A p : At(p) \in SUBSET Tasks
  BY DEF Senders, Receivers, At
<1> QED
  BY <1>1, <1>2

\* A call that ends without waking anyone.
LEMMA ReturnGoes ==
  ASSUME TypeOK, NEW t \in Tasks, NEW r \in Results, Return(t, r)
  PROVE  /\ Goes(t, "idle") /\ at' \in [Tasks -> Places]
         /\ wakeResult' \in [Tasks -> BOOLEAN]
         /\ \A u \in Tasks : wakeResult'[u] => wakeResult[u]
         /\ value' \in [Tasks -> Values \cup {None}]
         /\ \A u \in Tasks : u # t => value'[u] = value[u]
         /\ result' \in [Tasks -> Results] /\ result' = [result EXCEPT ![t] = r]
<1>1. /\ at' = [u \in Tasks |-> IF u = t THEN "idle" ELSE at[u]]
      /\ wakeResult' = [u \in Tasks |-> IF u = t THEN FALSE ELSE wakeResult[u]]
      /\ value' = [value EXCEPT ![t] = None]
      /\ result' = [result EXCEPT ![t] = r]
  BY DEF Return, ReturnAndWake
<1>2. Goes(t, "idle") /\ at' \in [Tasks -> Places]
  BY <1>1 DEF TypeOK, Places, Goes
<1>3. /\ wakeResult' \in [Tasks -> BOOLEAN]
      /\ \A u \in Tasks : wakeResult'[u] => wakeResult[u]
  BY <1>1 DEF TypeOK
<1>4. /\ value' \in [Tasks -> Values \cup {None}]
      /\ \A u \in Tasks : u # t => value'[u] = value[u]
  BY <1>1 DEF TypeOK
<1>5. result' \in [Tasks -> Results]
  BY <1>1 DEF TypeOK
<1> QED
  BY <1>1, <1>2, <1>3, <1>4, <1>5

\* A call that ends and wakes one parked Task.
LEMMA ReturnWakes ==
  ASSUME TypeOK, NEW t \in Tasks, NEW r \in Results, NEW w \in Tasks, w # t,
         ReturnAndWake(t, r, {w}, FALSE)
  PROVE  /\ Wakes(t, w, IF at[w] = "parkedSend" THEN "wokenSend" ELSE "wokenRecv")
         /\ at' \in [Tasks -> Places]
         /\ wakeResult' \in [Tasks -> BOOLEAN]
         /\ \A u \in Tasks : wakeResult'[u] => wakeResult[u]
         /\ value' \in [Tasks -> Values \cup {None}]
         /\ \A u \in Tasks : u # t => value'[u] = value[u]
         /\ result' \in [Tasks -> Results] /\ result' = [result EXCEPT ![t] = r]
<1>1. /\ at' = [u \in Tasks |-> IF u = t THEN "idle"
                                ELSE IF u = w THEN Woken(u) ELSE at[u]]
      /\ wakeResult' = [u \in Tasks |-> IF u = t THEN FALSE
                                        ELSE IF u = w THEN FALSE ELSE wakeResult[u]]
      /\ value' = [value EXCEPT ![t] = None]
      /\ result' = [result EXCEPT ![t] = r]
  BY DEF ReturnAndWake
<1>2. /\ Wakes(t, w, IF at[w] = "parkedSend" THEN "wokenSend" ELSE "wokenRecv")
      /\ at' \in [Tasks -> Places]
  BY <1>1 DEF TypeOK, Places, Wakes, Woken
<1>3. /\ wakeResult' \in [Tasks -> BOOLEAN]
      /\ \A u \in Tasks : wakeResult'[u] => wakeResult[u]
  BY <1>1 DEF TypeOK
<1>4. /\ value' \in [Tasks -> Values \cup {None}]
      /\ \A u \in Tasks : u # t => value'[u] = value[u]
  BY <1>1 DEF TypeOK
<1>5. result' \in [Tasks -> Results]
  BY <1>1 DEF TypeOK
<1> QED
  BY <1>1, <1>2, <1>3, <1>4, <1>5

\* The stacks are right after a step that moves one Task and parks nobody.
LEMMA StacksStay ==
  ASSUME IStacks, NEW t \in Tasks, NEW p, Goes(t, p), at[t] \notin Parked, p \notin Parked,
         waitSend' = waitSend, waitRecv' = waitRecv, closed' = closed
  PROVE  IStacks'
<1>1. At("parkedSend")' = At("parkedSend") /\ At("parkedRecv")' = At("parkedRecv")
  BY DEF At, Goes, Parked
<1> QED
  BY <1>1 DEF IStacks, ParkedExactly, Distinct, Members

\* With nobody parked nothing is to be counted.
LEMMA EmptyCounts ==
  ASSUME waitSend = << >>, waitRecv = << >>
  PROVE  ICounts
<1> QED
  BY DEF ICounts

\* Whoever starts to look at the ring adds to the count, and a Task that was
\* woken is counted already.
LEMMA CountsGrow ==
  ASSUME TypeOK, ICounts, NEW t \in Tasks, NEW p, Goes(t, p),
         at[t] \in {"send", "wokenSend"} => p \in {"send", "wokenSend"},
         at[t] \in {"receive", "wokenRecv"} => p \in {"receive", "wokenRecv"},
         waitSend' = waitSend, waitRecv' = waitRecv, length' = length
  PROVE  ICounts'
<1>1. Senders \subseteq Senders' /\ Receivers \subseteq Receivers'
  BY DEF Senders, Receivers, At, Goes
<1>2. /\ IsFiniteSet(Senders') /\ IsFiniteSet(Receivers')
      /\ Cardinality(Senders)' = Cardinality(Senders')
      /\ Cardinality(Senders') \in Nat /\ Cardinality(Receivers') \in Nat
  <2>1. Senders' \in SUBSET Tasks /\ Receivers' \in SUBSET Tasks
    BY DEF Senders, Receivers, At
  <2> QED
    BY <2>1, ChannelAssumption, FS_Subset, FS_CardinalityType
<1>3. /\ Cardinality(Senders) <= Cardinality(Senders')
      /\ Cardinality(Receivers) <= Cardinality(Receivers')
  BY <1>1, <1>2, FS_Subset
<1>4. /\ Cardinality(Senders) \in Nat /\ Cardinality(Receivers) \in Nat
      /\ length \in Nat /\ Capacity \in Nat
  BY PlacesFinite, ChannelAssumption DEF TypeOK
<1> QED
  BY <1>2, <1>3, <1>4 DEF ICounts

LEMMA EmptySeqs == \A S, x : x = << >> => x \in Seq(S)
<1> QED
  OBVIOUS

\* The queue that the ring holds grows at its tail and shrinks at its head.
LEMMA RingPuts ==
  ASSUME TypeOK, IRing, NEW v \in Values, length < Capacity, head' = head, length' = length + 1,
         slots' = [slots EXCEPT ![(head + length) % Capacity] = v]
  PROVE  /\ slots' \in [0..(Capacity - 1) -> Values \cup {None}] /\ length' \in 0..Capacity
         /\ Buffer' = Append(Buffer, v) /\ Len(Buffer) = length
<1>1. /\ head \in 0..(Capacity - 1) /\ length \in 0..(Capacity - 1)
      /\ Capacity \in Nat \ {0}
      /\ slots \in [0..(Capacity - 1) -> Values \cup {None}]
  BY ChannelAssumption DEF TypeOK
<1>2. (head + length) % Capacity \in 0..(Capacity - 1)
  BY <1>1
<1>3. slots' \in [0..(Capacity - 1) -> Values \cup {None}] /\ length' \in 0..Capacity
  BY <1>1, <1>2
<1>4. Buffer = [i \in 1..length |-> slots[(head + i - 1) % Capacity]]
  BY DEF Buffer
<1>5. Buffer' = [i \in 1..(length + 1) |-> slots'[(head + i - 1) % Capacity]]
  BY DEF Buffer
<1>6. Len(Buffer) = length /\ Buffer \in Seq(Values)
  BY <1>1, <1>4 DEF IRing
<1>7. slots'[(head + (length + 1) - 1) % Capacity] = v
  <2>1. head + (length + 1) - 1 = head + length
    BY <1>1
  <2> QED
    BY <2>1, <1>1, <1>2
<1>8. ASSUME NEW i \in 1..length
      PROVE  slots'[(head + i - 1) % Capacity] = slots[(head + i - 1) % Capacity]
  <2>1. /\ i - 1 \in 0..(Capacity - 1) /\ i - 1 # length
        /\ head + i - 1 = head + (i - 1)
    BY <1>1
  <2>2. (head + (i - 1)) % Capacity # (head + length) % Capacity
    BY <2>1, <1>1, PlacesApart
  <2>3. (head + (i - 1)) % Capacity \in 0..(Capacity - 1)
    BY <2>1, <1>1, AroundRing
  <2> QED
    BY <2>1, <2>2, <2>3, <1>1
<1>9. Len(Buffer') = length + 1 /\ Buffer'[length + 1] = v
  BY <1>1, <1>5, <1>7
<1>10. \A i \in 1..length : Buffer'[i] = Buffer[i] /\ Buffer[i] \in Values
  BY <1>1, <1>4, <1>5, <1>6, <1>8
<1>11. Buffer' \in Seq(Values)
  <2>1. \A i \in 1..(length + 1) : i \in 1..length \/ i = length + 1
    BY <1>1
  <2>2. \A i \in 1..(length + 1) : slots'[(head + i - 1) % Capacity] \in Values
    BY <2>1, <1>5, <1>9, <1>10
  <2> QED
    BY <2>2, <1>1, <1>5
<1>12. Buffer' = Append(Buffer, v)
  BY <1>6, <1>9, <1>10, <1>11, SeqFacts
<1> QED
  BY <1>3, <1>6, <1>12

LEMMA RingTakes ==
  ASSUME TypeOK, IRing, length > 0, head' = (head + 1) % Capacity, length' = length - 1,
         slots' = [slots EXCEPT ![head] = None]
  PROVE  /\ slots' \in [0..(Capacity - 1) -> Values \cup {None}] /\ length' \in 0..Capacity
         /\ head' \in 0..(Capacity - 1)
         /\ Buffer # << >> /\ Buffer' = Tail(Buffer)
         /\ Head(Buffer) = slots[head] /\ slots[head] \in Values
<1>1. /\ head \in 0..(Capacity - 1) /\ length \in 1..Capacity
      /\ Capacity \in Nat \ {0}
      /\ slots \in [0..(Capacity - 1) -> Values \cup {None}]
  BY ChannelAssumption DEF TypeOK
<1>2. (head + 1) % Capacity \in 0..(Capacity - 1)
  BY <1>1
<1>3. /\ slots' \in [0..(Capacity - 1) -> Values \cup {None}] /\ length' \in 0..Capacity
      /\ head' \in 0..(Capacity - 1)
  BY <1>1, <1>2
<1>4. Buffer = [i \in 1..length |-> slots[(head + i - 1) % Capacity]]
  BY DEF Buffer
<1>5. Buffer' = [i \in 1..(length - 1) |-> slots'[(((head + 1) % Capacity) + i - 1) % Capacity]]
  BY DEF Buffer
<1>6. Len(Buffer) = length /\ Buffer \in Seq(Values)
  BY <1>1, <1>4 DEF IRing
<1>7. Buffer[1] = slots[head] /\ 1 \in 1..length
  <2>1. head + 1 - 1 = head /\ head % Capacity = head
    BY <1>1
  <2> QED
    BY <2>1, <1>1, <1>4
<1>8. ASSUME NEW i \in 1..(length - 1)
      PROVE  /\ slots'[(((head + 1) % Capacity) + i - 1) % Capacity] = Buffer[i + 1]
             /\ Buffer[i + 1] \in Values
  <2>1. (((head + 1) % Capacity) + i - 1) % Capacity = (head + i) % Capacity
    BY <1>1, NextPlace
  <2>2. (head + i) % Capacity # head /\ (head + i) % Capacity \in 0..(Capacity - 1)
    <3>1. /\ i \in 0..(Capacity - 1) /\ 0 \in 0..(Capacity - 1) /\ i # 0
          /\ head + 0 = head
      BY <1>1
    <3>2. (head + i) % Capacity # (head + 0) % Capacity
      BY <3>1, <1>1, PlacesApart
    <3>3. (head + i) % Capacity \in 0..(Capacity - 1) /\ head % Capacity = head
      BY <3>1, <1>1, AroundRing
    <3> QED
      BY <3>1, <3>2, <3>3
  <2>3. i + 1 \in 1..length /\ head + (i + 1) - 1 = head + i
    BY <1>1
  <2>4. Buffer[i + 1] = slots[(head + i) % Capacity]
    BY <2>3, <1>4
  <2>5. Buffer[i + 1] \in Values
    BY <2>3, <1>6
  <2> QED
    BY <2>1, <2>2, <2>4, <2>5, <1>1
<1>9. /\ Len(Buffer') = Len(Buffer) - 1 /\ Buffer' \in Seq(Values)
      /\ \A i \in 1..(Len(Buffer) - 1) : Buffer'[i] = Buffer[i + 1]
  <2>1. length - 1 \in Nat
    BY <1>1
  <2>2. Buffer' \in Seq(Values) /\ Len(Buffer') = length - 1
    BY <2>1, <1>5, <1>8
  <2> QED
    BY <2>2, <1>5, <1>6, <1>8
<1>10. /\ Buffer' = Tail(Buffer) /\ Buffer # << >> /\ Head(Buffer) = Buffer[1]
       /\ Buffer[1] \in Values
  BY <1>1, <1>6, <1>9, SeqFacts
<1> QED
  BY <1>3, <1>7, <1>10

LEMMA CallSendKeeps ==
  ASSUME IInv, NEW t \in Tasks, NEW v \in Values, CallSend(t, v)
  PROVE  IInv'
<1> USE DEF IInv
<1>1. Goes(t, "send") /\ at' \in [Tasks -> Places] /\ at[t] = "idle"
  BY DEF CallSend, TypeOK, Places, Goes
<1>2. /\ value' \in [Tasks -> Values \cup {None}] /\ value'[t] = v
      /\ \A u \in Tasks : u # t => value'[u] = value[u]
      /\ result' \in [Tasks -> Results] /\ wakeResult' = wakeResult
  BY DEF CallSend, TypeOK, Results
<1>3. /\ slots' = slots /\ head' = head /\ length' = length /\ closed' = closed
      /\ waitSend' = waitSend /\ waitRecv' = waitRecv /\ freed' = freed
  BY DEF CallSend, ring, stacks
<1>4. TypeOK'
  BY <1>1, <1>2, <1>3 DEF TypeOK, Places
<1>5. IRing'
  BY <1>3 DEF IRing, Buffer
<1>6. IValue'
  BY <1>1, <1>2 DEF IValue, Goes
<1>7. IRefuse'
  BY <1>2, <1>3 DEF IRefuse
<1>8. IStacks'
  BY <1>1, <1>3, StacksStay DEF Parked
<1>9. ICounts'
  BY <1>1, <1>3, CountsGrow
<1> QED
  BY <1>4, <1>5, <1>6, <1>7, <1>8, <1>9

LEMMA CallReceiveKeeps ==
  ASSUME IInv, NEW t \in Tasks, CallReceive(t)
  PROVE  IInv'
<1> USE DEF IInv
<1>1. Goes(t, "receive") /\ at' \in [Tasks -> Places] /\ at[t] = "idle"
  BY DEF CallReceive, TypeOK, Places, Goes
<1>2. /\ value' = value /\ result' \in [Tasks -> Results] /\ wakeResult' = wakeResult
  BY DEF CallReceive, TypeOK, Results
<1>3. /\ slots' = slots /\ head' = head /\ length' = length /\ closed' = closed
      /\ waitSend' = waitSend /\ waitRecv' = waitRecv /\ freed' = freed
  BY DEF CallReceive, ring, stacks
<1>4. TypeOK'
  BY <1>1, <1>2, <1>3 DEF TypeOK, Places
<1>5. IRing'
  BY <1>3 DEF IRing, Buffer
<1>6. IValue'
  BY <1>1, <1>2 DEF IValue, Goes
<1>7. IRefuse'
  BY <1>2, <1>3 DEF IRefuse
<1>8. IStacks'
  BY <1>1, <1>3, StacksStay DEF Parked
<1>9. ICounts'
  BY <1>1, <1>3, CountsGrow
<1> QED
  BY <1>4, <1>5, <1>6, <1>7, <1>8, <1>9

LEMMA SendRefusedKeeps ==
  ASSUME IInv, NEW t \in Tasks, SendRefused(t)
  PROVE  IInv'
<1> USE DEF IInv
<1>1. at[t] = "send" /\ closed /\ Return(t, <<"refused">>) /\ <<"refused">> \in Results
  BY DEF SendRefused, Results
<1>2. /\ Goes(t, "idle") /\ at' \in [Tasks -> Places]
      /\ wakeResult' \in [Tasks -> BOOLEAN]
      /\ \A u \in Tasks : wakeResult'[u] => wakeResult[u]
      /\ value' \in [Tasks -> Values \cup {None}]
      /\ \A u \in Tasks : u # t => value'[u] = value[u]
      /\ result' \in [Tasks -> Results]
  BY <1>1, ReturnGoes
<1>3. /\ slots' = slots /\ head' = head /\ length' = length /\ closed' = closed
      /\ waitSend' = waitSend /\ waitRecv' = waitRecv /\ freed' = freed
  BY DEF SendRefused, ring, stacks
<1>4. TypeOK'
  BY <1>2, <1>3 DEF TypeOK, Places
<1>5. IRing'
  BY <1>3 DEF IRing, Buffer
<1>6. IValue'
  BY <1>2 DEF IValue, Goes
<1>7. IRefuse'
  BY <1>2, <1>3 DEF IRefuse
<1>8. IStacks'
  BY <1>1, <1>2, <1>3, StacksStay DEF Parked
<1>9. ICounts'
  <2>1. waitSend' = << >> /\ waitRecv' = << >>
    BY <1>1, <1>3 DEF IStacks, ParkedExactly
  <2> QED
    BY <2>1 DEF ICounts
<1> QED
  BY <1>4, <1>5, <1>6, <1>7, <1>8, <1>9

LEMMA ReceiveEndsKeeps ==
  ASSUME IInv, NEW t \in Tasks, ReceiveEnds(t)
  PROVE  IInv'
<1> USE DEF IInv
<1>1. at[t] = "receive" /\ closed /\ Return(t, <<"eos">>) /\ <<"eos">> \in Results
  BY DEF ReceiveEnds, Results
<1>2. /\ Goes(t, "idle") /\ at' \in [Tasks -> Places]
      /\ wakeResult' \in [Tasks -> BOOLEAN]
      /\ \A u \in Tasks : wakeResult'[u] => wakeResult[u]
      /\ value' \in [Tasks -> Values \cup {None}]
      /\ \A u \in Tasks : u # t => value'[u] = value[u]
      /\ result' \in [Tasks -> Results]
  BY <1>1, ReturnGoes
<1>3. /\ slots' = slots /\ head' = head /\ length' = length /\ closed' = closed
      /\ waitSend' = waitSend /\ waitRecv' = waitRecv /\ freed' = freed
  BY DEF ReceiveEnds, ring, stacks
<1>4. TypeOK'
  BY <1>2, <1>3 DEF TypeOK, Places
<1>5. IRing'
  BY <1>3 DEF IRing, Buffer
<1>6. IValue'
  BY <1>2 DEF IValue, Goes
<1>7. IRefuse'
  BY <1>2, <1>3 DEF IRefuse
<1>8. IStacks'
  BY <1>1, <1>2, <1>3, StacksStay DEF Parked
<1>9. ICounts'
  <2>1. waitSend' = << >> /\ waitRecv' = << >>
    BY <1>1, <1>3 DEF IStacks, ParkedExactly
  <2> QED
    BY <2>1 DEF ICounts
<1> QED
  BY <1>4, <1>5, <1>6, <1>7, <1>8, <1>9

LEMMA SendParksKeeps ==
  ASSUME IInv, NEW t \in Tasks, SendParks(t)
  PROVE  IInv'
<1> USE DEF IInv
<1>1. /\ Goes(t, "parkedSend") /\ at' \in [Tasks -> Places] /\ at[t] = "send" /\ ~closed
      /\ length = Capacity
  BY DEF SendParks, Park, TypeOK, Places, Goes
<1>2. /\ value' = value /\ result' = result /\ wakeResult' \in [Tasks -> BOOLEAN]
      /\ \A u \in Tasks : wakeResult'[u] => wakeResult[u]
  BY DEF SendParks, Park, TypeOK
<1>3. /\ slots' = slots /\ head' = head /\ length' = length /\ closed' = closed
      /\ waitSend' = <<t>> \o waitSend /\ waitRecv' = waitRecv /\ freed' = freed
  BY DEF SendParks, ring
<1>4. At("parkedSend")' = At("parkedSend") \cup {t} /\ At("parkedRecv")' = At("parkedRecv") /\ t \notin At("parkedSend")
  BY <1>1 DEF At, Goes
<1>5. /\ waitSend' \in Seq(Tasks) /\ Len(waitSend') = Len(waitSend) + 1
      /\ Members(waitSend') = Members(waitSend) \cup {t} /\ Distinct(waitSend')
  <2>1. t \notin Members(waitSend)
    BY <1>4 DEF IStacks, ParkedExactly
  <2> QED
    BY <2>1, <1>3, PushFacts DEF TypeOK, IStacks
<1>6. TypeOK'
  BY <1>1, <1>2, <1>3, <1>5 DEF TypeOK, Places
<1>7. IRing'
  BY <1>3 DEF IRing, Buffer
<1>8. IValue'
  BY <1>1, <1>2 DEF IValue, Goes
<1>9. IRefuse'
  BY <1>2, <1>3 DEF IRefuse
<1>10. IStacks'
  <2>1. Cardinality(At("parkedSend")') = Cardinality(At("parkedSend")) + 1
    BY <1>4, PlacesFinite, FS_AddElement
  <2>2. /\ Members(waitSend') = At("parkedSend")' /\ Members(waitRecv') = At("parkedRecv")'
        /\ Len(waitSend') = Cardinality(At("parkedSend")') /\ Len(waitRecv') = Cardinality(At("parkedRecv")')
    BY <2>1, <1>3, <1>4, <1>5 DEF IStacks, ParkedExactly
  <2> QED
    BY <2>2, <1>1, <1>3, <1>5 DEF IStacks, ParkedExactly, Distinct, Members
<1>11. ICounts'
  <2>1. Receivers' = Receivers /\ IsFiniteSet(Receivers') /\ Cardinality(Receivers') \in Nat
    <3>1. Receivers' \in SUBSET Tasks /\ Receivers' = Receivers
      BY <1>1 DEF Senders, Receivers, At, Goes
    <3> QED
      BY <3>1, ChannelAssumption, FS_Subset, FS_CardinalityType
  <2>2. Cardinality(Senders') \in Nat
    <3>1. Senders' \in SUBSET Tasks
      BY DEF Senders, Receivers, At
    <3> QED
      BY <3>1, ChannelAssumption, FS_Subset, FS_CardinalityType
  <2> QED
    BY <2>1, <2>2, <1>1, <1>3, ChannelAssumption DEF ICounts, TypeOK
<1> QED
  BY <1>6, <1>7, <1>8, <1>9, <1>10, <1>11

LEMMA ReceiveParksKeeps ==
  ASSUME IInv, NEW t \in Tasks, ReceiveParks(t)
  PROVE  IInv'
<1> USE DEF IInv
<1>1. /\ Goes(t, "parkedRecv") /\ at' \in [Tasks -> Places] /\ at[t] = "receive" /\ ~closed
      /\ length = 0
  BY DEF ReceiveParks, Park, TypeOK, Places, Goes
<1>2. /\ value' = value /\ result' = result /\ wakeResult' \in [Tasks -> BOOLEAN]
      /\ \A u \in Tasks : wakeResult'[u] => wakeResult[u]
  BY DEF ReceiveParks, Park, TypeOK
<1>3. /\ slots' = slots /\ head' = head /\ length' = length /\ closed' = closed
      /\ waitRecv' = <<t>> \o waitRecv /\ waitSend' = waitSend /\ freed' = freed
  BY DEF ReceiveParks, ring
<1>4. At("parkedRecv")' = At("parkedRecv") \cup {t} /\ At("parkedSend")' = At("parkedSend") /\ t \notin At("parkedRecv")
  BY <1>1 DEF At, Goes
<1>5. /\ waitRecv' \in Seq(Tasks) /\ Len(waitRecv') = Len(waitRecv) + 1
      /\ Members(waitRecv') = Members(waitRecv) \cup {t} /\ Distinct(waitRecv')
  <2>1. t \notin Members(waitRecv)
    BY <1>4 DEF IStacks, ParkedExactly
  <2> QED
    BY <2>1, <1>3, PushFacts DEF TypeOK, IStacks
<1>6. TypeOK'
  BY <1>1, <1>2, <1>3, <1>5 DEF TypeOK, Places
<1>7. IRing'
  BY <1>3 DEF IRing, Buffer
<1>8. IValue'
  BY <1>1, <1>2 DEF IValue, Goes
<1>9. IRefuse'
  BY <1>2, <1>3 DEF IRefuse
<1>10. IStacks'
  <2>1. Cardinality(At("parkedRecv")') = Cardinality(At("parkedRecv")) + 1
    BY <1>4, PlacesFinite, FS_AddElement
  <2>2. /\ Members(waitRecv') = At("parkedRecv")' /\ Members(waitSend') = At("parkedSend")'
        /\ Len(waitRecv') = Cardinality(At("parkedRecv")') /\ Len(waitSend') = Cardinality(At("parkedSend")')
    BY <2>1, <1>3, <1>4, <1>5 DEF IStacks, ParkedExactly
  <2> QED
    BY <2>2, <1>1, <1>3, <1>5 DEF IStacks, ParkedExactly, Distinct, Members
<1>11. ICounts'
  <2>1. Senders' = Senders /\ IsFiniteSet(Senders') /\ Cardinality(Senders') \in Nat
    <3>1. Senders' \in SUBSET Tasks /\ Senders' = Senders
      BY <1>1 DEF Senders, Receivers, At, Goes
    <3> QED
      BY <3>1, ChannelAssumption, FS_Subset, FS_CardinalityType
  <2>2. Cardinality(Receivers') \in Nat
    <3>1. Receivers' \in SUBSET Tasks
      BY DEF Senders, Receivers, At
    <3> QED
      BY <3>1, ChannelAssumption, FS_Subset, FS_CardinalityType
  <2> QED
    BY <2>1, <2>2, <1>1, <1>3, ChannelAssumption DEF ICounts, TypeOK
<1> QED
  BY <1>6, <1>7, <1>8, <1>9, <1>10, <1>11

LEMMA ReceiveResumeKeeps ==
  ASSUME IInv, NEW t \in Tasks, ReceiveResume(t)
  PROVE  IInv'
<1> USE DEF IInv
<1>1. Goes(t, "receive") /\ at' \in [Tasks -> Places] /\ at[t] = "wokenRecv"
  BY DEF ReceiveResume, TypeOK, Places, Goes
<1>2. value' = value /\ result' = result /\ wakeResult' = wakeResult
  BY DEF ReceiveResume
<1>3. /\ slots' = slots /\ head' = head /\ length' = length /\ closed' = closed
      /\ waitSend' = waitSend /\ waitRecv' = waitRecv /\ freed' = freed
  BY DEF ReceiveResume, ring, stacks
<1>4. TypeOK'
  BY <1>1, <1>2, <1>3 DEF TypeOK, Places
<1>5. IRing'
  BY <1>3 DEF IRing, Buffer
<1>6. IValue'
  BY <1>1, <1>2 DEF IValue, Goes
<1>7. IRefuse'
  BY <1>2, <1>3 DEF IRefuse
<1>8. IStacks'
  BY <1>1, <1>3, StacksStay DEF Parked
<1>9. ICounts'
  BY <1>1, <1>3, CountsGrow
<1> QED
  BY <1>4, <1>5, <1>6, <1>7, <1>8, <1>9

LEMMA SendResumeKeeps ==
  ASSUME IInv, NEW t \in Tasks, SendResume(t)
  PROVE  IInv'
<1> USE DEF IInv
<1>1. PICK p \in {"idle", "send"} :
        /\ at[t] = "wokenSend" /\ Goes(t, p) /\ at' \in [Tasks -> Places]
        /\ p = "idle" => closed
        /\ wakeResult' \in [Tasks -> BOOLEAN]
        /\ \A u \in Tasks : wakeResult'[u] => wakeResult[u]
        /\ value' \in [Tasks -> Values \cup {None}]
        /\ p = "send" => value'[t] = value[t]
        /\ \A u \in Tasks : u # t => value'[u] = value[u]
        /\ result' \in [Tasks -> Results]
  <2>1. CASE wakeResult[t]
    <3>1. at[t] = "wokenSend" /\ Return(t, <<"refused">>) /\ <<"refused">> \in Results
      BY <2>1 DEF SendResume, Results
    <3>2. closed
      BY <2>1 DEF IRefuse
    <3> QED
      BY <3>1, <3>2, ReturnGoes
  <2>2. CASE ~wakeResult[t]
    <3>1. /\ at[t] = "wokenSend" /\ Goes(t, "send") /\ at' \in [Tasks -> Places]
          /\ value' = value /\ wakeResult' = wakeResult /\ result' = result
      BY <2>2 DEF SendResume, TypeOK, Places, Goes
    <3> QED
      BY <3>1 DEF TypeOK
  <2> QED
    BY <2>1, <2>2
<1>2. /\ slots' = slots /\ head' = head /\ length' = length /\ closed' = closed
      /\ waitSend' = waitSend /\ waitRecv' = waitRecv /\ freed' = freed
  BY DEF SendResume, ring, stacks
<1>3. TypeOK'
  BY <1>1, <1>2 DEF TypeOK, Places
<1>4. IRing'
  BY <1>2 DEF IRing, Buffer
<1>5. IValue'
  BY <1>1 DEF IValue, Goes
<1>6. IRefuse'
  BY <1>1, <1>2 DEF IRefuse
<1>7. IStacks'
  BY <1>1, <1>2, StacksStay DEF Parked
<1>8. ICounts'
  <2>1. CASE p = "send"
    BY <2>1, <1>1, <1>2, CountsGrow
  <2>2. CASE p = "idle"
    <3>1. waitSend' = << >> /\ waitRecv' = << >>
      BY <2>2, <1>1, <1>2 DEF IStacks, ParkedExactly
    <3> QED
      BY <3>1 DEF ICounts
  <2> QED
    BY <2>1, <2>2
<1> QED
  BY <1>3, <1>4, <1>5, <1>6, <1>7, <1>8

LEMMA FreeKeeps ==
  ASSUME IInv, NEW t \in Tasks, Free(t)
  PROVE  IInv'
<1> USE DEF IInv
<1>1. /\ at' = at /\ value' = value /\ result' = result /\ wakeResult' = wakeResult
      /\ slots' = slots /\ head' = head /\ length' = length /\ closed' = closed
      /\ waitSend' = waitSend /\ waitRecv' = waitRecv /\ freed' = TRUE
      /\ waitSend = << >> /\ waitRecv = << >>
  BY DEF Free, ring, stacks
<1>2. \A p : At(p)' = At(p)
  BY <1>1 DEF At
<1>3. TypeOK'
  BY <1>1 DEF TypeOK
<1>4. IRing'
  BY <1>1 DEF IRing, Buffer
<1>5. IValue'
  BY <1>1 DEF IValue
<1>6. IRefuse'
  BY <1>1 DEF IRefuse
<1>7. IStacks'
  BY <1>1, <1>2 DEF IStacks, ParkedExactly, Distinct, Members
<1>8. ICounts'
  BY <1>1 DEF ICounts
<1> QED
  BY <1>3, <1>4, <1>5, <1>6, <1>7, <1>8

LEMMA CloseKeeps ==
  ASSUME IInv, NEW t \in Tasks, Close(t)
  PROVE  IInv'
<1> USE DEF IInv
<1>1. /\ at' = [u \in Tasks |-> IF u \in At("parkedSend") \cup At("parkedRecv")
                                THEN Woken(u) ELSE at[u]]
      /\ wakeResult' = [u \in Tasks |-> IF u \in At("parkedSend") THEN TRUE
                                        ELSE IF u \in At("parkedRecv") THEN FALSE
                                        ELSE wakeResult[u]]
  BY DEF Close, IStacks, ParkedExactly
<1>2. /\ slots' = slots /\ head' = head /\ length' = length /\ closed' = TRUE
      /\ waitSend' = << >> /\ waitRecv' = << >> /\ freed' = freed
      /\ value' = value /\ result' = result
  BY DEF Close, ring
<1>3. /\ at' \in [Tasks -> Places]
      /\ \A u \in Tasks : /\ at[u] = "parkedSend" => at'[u] = "wokenSend"
                          /\ at[u] = "parkedRecv" => at'[u] = "wokenRecv"
                          /\ at[u] \notin Parked => at'[u] = at[u]
  BY <1>1 DEF TypeOK, Places, Woken, At, Parked
<1>4. /\ wakeResult' \in [Tasks -> BOOLEAN]
  BY <1>1 DEF TypeOK
<1>5. At("parkedSend")' = {} /\ At("parkedRecv")' = {}
  BY <1>3 DEF At, TypeOK, Places, Parked
<1>6. TypeOK'
  BY <1>2, <1>3, <1>4, EmptySeqs DEF TypeOK, Places
<1>7. IRing'
  BY <1>2 DEF IRing, Buffer
<1>8. IValue'
  BY <1>2, <1>3 DEF IValue, Parked
<1>9. IRefuse'
  BY <1>2 DEF IRefuse
<1>10. IStacks'
  <2>1. Len(waitSend') = 0 /\ Len(waitRecv') = 0
    BY <1>2
  <2>2. Members(waitSend') = {} /\ Members(waitRecv') = {}
    BY <2>1 DEF Members
  <2>3. Distinct(waitSend') /\ Distinct(waitRecv')
    BY <2>1 DEF Distinct
  <2> QED
    BY <2>1, <2>2, <2>3, <1>2, <1>5, FS_EmptySet DEF IStacks, ParkedExactly, Distinct, Members
<1>11. ICounts'
  BY <1>2 DEF ICounts
<1> QED
  BY <1>6, <1>7, <1>8, <1>9, <1>10, <1>11

LEMMA SendPutsKeeps ==
  ASSUME IInv, NEW t \in Tasks, SendPuts(t)
  PROVE  IInv'
<1> USE DEF IInv
<1>1. /\ at[t] = "send" /\ ~closed /\ length < Capacity /\ value[t] \in Values
      /\ <<"sent", value[t]>> \in Results
      /\ slots' = [slots EXCEPT ![(head + length) % Capacity] = value[t]]
      /\ length' = length + 1 /\ head' = head /\ closed' = closed /\ freed' = freed
      /\ waitSend' = waitSend /\ waitRecv' = Rest(waitRecv)
      /\ ReturnAndWake(t, <<"sent", value[t]>>, Newest(waitRecv), FALSE)
  BY DEF SendPuts, IValue, Results
<1>2. /\ slots' \in [0..(Capacity - 1) -> Values \cup {None}] /\ length' \in 0..Capacity
      /\ Buffer' \in Seq(Values)
  <2>1. /\ Buffer' = Append(Buffer, value[t]) /\ length' \in 0..Capacity
        /\ slots' \in [0..(Capacity - 1) -> Values \cup {None}]
    BY <1>1, RingPuts
  <2> QED
    BY <2>1, <1>1, AppendProperties DEF IRing
<1>3. /\ at' \in [Tasks -> Places] /\ wakeResult' \in [Tasks -> BOOLEAN]
      /\ \A u \in Tasks : wakeResult'[u] => wakeResult[u]
      /\ value' \in [Tasks -> Values \cup {None}]
      /\ \A u \in Tasks : u # t => value'[u] = value[u]
      /\ result' \in [Tasks -> Results]
      /\ \/ waitRecv = << >> /\ waitRecv' = << >> /\ Goes(t, "idle")
         \/ \E w \in Tasks : /\ waitRecv # << >> /\ w = Head(waitRecv)
                             /\ waitRecv' = Tail(waitRecv) /\ at[w] = "parkedRecv"
                             /\ Wakes(t, w, "wokenRecv")
  <2>1. CASE waitRecv = << >>
    <3>1. Return(t, <<"sent", value[t]>>) /\ waitRecv' = << >>
      BY <2>1, <1>1 DEF Newest, Rest, Return
    <3> QED
      BY <2>1, <3>1, <1>1, ReturnGoes
  <2>2. CASE waitRecv # << >>
    <3>1. PICK w \in Tasks : w = Head(waitRecv) /\ at[w] = "parkedRecv"
      <4>1. Head(waitRecv) \in Members(waitRecv)
        BY <2>2, PopFacts DEF TypeOK, IStacks
      <4> QED
        BY <4>1 DEF IStacks, ParkedExactly, At
    <3>2. /\ ReturnAndWake(t, <<"sent", value[t]>>, {w}, FALSE) /\ w # t
          /\ waitRecv' = Tail(waitRecv)
      BY <2>2, <3>1, <1>1 DEF Newest, Rest
    <3> QED
      BY <2>2, <3>1, <3>2, <1>1, ReturnWakes
  <2> QED
    BY <2>1, <2>2
<1>4. TypeOK'
  <2>1. waitRecv' \in Seq(Tasks)
    <3>1. waitRecv \in Seq(Tasks) /\ (waitRecv # << >> => Tail(waitRecv) \in Seq(Tasks))
      BY DEF TypeOK
    <3> QED
      BY <3>1, <1>3
  <2> QED
    BY <2>1, <1>1, <1>2, <1>3 DEF TypeOK, Places
<1>5. IRing'
  BY <1>1, <1>2 DEF IRing
<1>6. IValue'
  <2> SUFFICES ASSUME NEW u \in Tasks, at'[u] \in {"send", "parkedSend", "wokenSend"}
               PROVE  value'[u] \in Values
    BY DEF IValue
  <2>1. at[u] \in {"send", "parkedSend", "wokenSend"} /\ u # t
    BY <1>1, <1>3 DEF Goes, Wakes
  <2> QED
    BY <2>1, <1>3 DEF IValue
<1>7. IRefuse'
  BY <1>1, <1>3 DEF IRefuse
<1>8. IStacks'
  <2>1. CASE Goes(t, "idle") /\ waitRecv = << >> /\ waitRecv' = << >>
    BY <2>1, <1>1, StacksStay DEF Parked
  <2>2. ASSUME NEW w \in Tasks, waitRecv # << >>, w = Head(waitRecv), at[w] = "parkedRecv",
               waitRecv' = Tail(waitRecv), Wakes(t, w, "wokenRecv")
        PROVE  IStacks'
    <3>1. /\ Len(waitRecv') = Len(waitRecv) - 1 /\ Distinct(waitRecv')
          /\ Members(waitRecv') = Members(waitRecv) \ {w}
      BY <2>2, PopFacts DEF TypeOK, IStacks
    <3>2. /\ At("parkedRecv")' = At("parkedRecv") \ {w} /\ w \in At("parkedRecv")
          /\ At("parkedSend")' = At("parkedSend")
      BY <2>2, <1>1 DEF At, Wakes
    <3>3. Cardinality(At("parkedRecv")') = Cardinality(At("parkedRecv")) - 1
      BY <3>2, PlacesFinite, FS_RemoveElement
    <3>4. /\ Members(waitRecv') = At("parkedRecv")' /\ Members(waitSend') = At("parkedSend")'
          /\ Len(waitRecv') = Cardinality(At("parkedRecv")')
          /\ Len(waitSend') = Cardinality(At("parkedSend")')
      BY <3>1, <3>2, <3>3, <1>1 DEF IStacks, ParkedExactly
    <3>5. closed' => waitRecv' = << >> /\ waitSend' = << >>
      BY <2>2, <1>1 DEF IStacks, ParkedExactly
    <3> QED
      BY <3>1, <3>4, <3>5, <1>1 DEF IStacks, ParkedExactly, Distinct, Members
  <2> QED
    BY <2>1, <2>2, <1>3
<1>9. ICounts'
  <2>1. /\ Senders' = Senders \ {t} /\ t \in Senders
    BY <1>1, <1>3 DEF Senders, At, Goes, Wakes
  <2>2. Cardinality(Senders') = Cardinality(Senders) - 1
    BY <2>1, PlacesFinite, FS_RemoveElement
  <2>3. waitRecv' # << >> => Cardinality(Receivers') = Cardinality(Receivers) + 1
    <3>1. SUFFICES ASSUME waitRecv' # << >>
                   PROVE  Cardinality(Receivers') = Cardinality(Receivers) + 1
      OBVIOUS
    <3>2. PICK w \in Tasks : at[w] = "parkedRecv" /\ Wakes(t, w, "wokenRecv")
      BY <3>1, <1>3
    <3>3. Receivers' = Receivers \cup {w} /\ w \notin Receivers
      BY <3>2, <1>1 DEF Receivers, At, Wakes
    <3> QED
      BY <3>3, PlacesFinite, FS_AddElement
  <2>4. waitRecv' # << >> => waitRecv # << >>
    BY <1>3
  <2>5. /\ Cardinality(Senders) \in Nat /\ Cardinality(Receivers) \in Nat /\ length \in Nat
        /\ Capacity \in Nat
    BY PlacesFinite, ChannelAssumption DEF TypeOK
  <2> QED
    BY <2>2, <2>3, <2>4, <2>5, <1>1 DEF ICounts
<1> QED
  BY <1>4, <1>5, <1>6, <1>7, <1>8, <1>9

LEMMA ReceiveTakesKeeps ==
  ASSUME IInv, NEW t \in Tasks, ReceiveTakes(t)
  PROVE  IInv'
<1> USE DEF IInv
<1>1. /\ at[t] = "receive" /\ length > 0 /\ slots[head] \in Values
      /\ <<"value", slots[head]>> \in Results
      /\ slots' = [slots EXCEPT ![head] = None]
      /\ length' = length - 1 /\ head' = (head + 1) % Capacity /\ closed' = closed
      /\ freed' = freed /\ waitRecv' = waitRecv /\ waitSend' = Rest(waitSend)
      /\ ReturnAndWake(t, <<"value", slots[head]>>, Newest(waitSend), FALSE)
  <2>1. slots[head] \in Values
    BY RingTakes DEF ReceiveTakes
  <2> QED
    BY <2>1 DEF ReceiveTakes, Results
<1>2. /\ slots' \in [0..(Capacity - 1) -> Values \cup {None}] /\ length' \in 0..Capacity
      /\ head' \in 0..(Capacity - 1) /\ Buffer' \in Seq(Values)
  <2>1. Buffer' = Tail(Buffer) /\ Buffer # << >>
    BY <1>1, RingTakes
  <2>2. \A b \in Seq(Values) : b # << >> => Tail(b) \in Seq(Values)
    OBVIOUS
  <2> QED
    BY <2>1, <2>2, <1>1, RingTakes DEF IRing
<1>3. /\ at' \in [Tasks -> Places] /\ wakeResult' \in [Tasks -> BOOLEAN]
      /\ \A u \in Tasks : wakeResult'[u] => wakeResult[u]
      /\ value' \in [Tasks -> Values \cup {None}]
      /\ \A u \in Tasks : u # t => value'[u] = value[u]
      /\ result' \in [Tasks -> Results]
      /\ \/ waitSend = << >> /\ waitSend' = << >> /\ Goes(t, "idle")
         \/ \E w \in Tasks : /\ waitSend # << >> /\ w = Head(waitSend)
                             /\ waitSend' = Tail(waitSend) /\ at[w] = "parkedSend"
                             /\ Wakes(t, w, "wokenSend")
  <2>1. CASE waitSend = << >>
    <3>1. Return(t, <<"value", slots[head]>>) /\ waitSend' = << >>
      BY <2>1, <1>1 DEF Newest, Rest, Return
    <3> QED
      BY <2>1, <3>1, <1>1, ReturnGoes
  <2>2. CASE waitSend # << >>
    <3>1. PICK w \in Tasks : w = Head(waitSend) /\ at[w] = "parkedSend"
      <4>1. Head(waitSend) \in Members(waitSend)
        BY <2>2, PopFacts DEF TypeOK, IStacks
      <4> QED
        BY <4>1 DEF IStacks, ParkedExactly, At
    <3>2. /\ ReturnAndWake(t, <<"value", slots[head]>>, {w}, FALSE) /\ w # t
          /\ waitSend' = Tail(waitSend)
      BY <2>2, <3>1, <1>1 DEF Newest, Rest
    <3> QED
      BY <2>2, <3>1, <3>2, <1>1, ReturnWakes
  <2> QED
    BY <2>1, <2>2
<1>4. TypeOK'
  <2>1. waitSend' \in Seq(Tasks)
    <3>1. waitSend \in Seq(Tasks) /\ (waitSend # << >> => Tail(waitSend) \in Seq(Tasks))
      BY DEF TypeOK
    <3> QED
      BY <3>1, <1>3
  <2> QED
    BY <2>1, <1>1, <1>2, <1>3 DEF TypeOK, Places
<1>5. IRing'
  BY <1>1, <1>2 DEF IRing
<1>6. IValue'
  <2> SUFFICES ASSUME NEW u \in Tasks, at'[u] \in {"send", "parkedSend", "wokenSend"}
               PROVE  value'[u] \in Values
    BY DEF IValue
  <2>1. at[u] \in {"send", "parkedSend", "wokenSend"} /\ u # t
    BY <1>1, <1>3 DEF Goes, Wakes
  <2> QED
    BY <2>1, <1>3 DEF IValue
<1>7. IRefuse'
  BY <1>1, <1>3 DEF IRefuse
<1>8. IStacks'
  <2>1. CASE Goes(t, "idle") /\ waitSend = << >> /\ waitSend' = << >>
    BY <2>1, <1>1, StacksStay DEF Parked
  <2>2. ASSUME NEW w \in Tasks, waitSend # << >>, w = Head(waitSend), at[w] = "parkedSend",
               waitSend' = Tail(waitSend), Wakes(t, w, "wokenSend")
        PROVE  IStacks'
    <3>1. /\ Len(waitSend') = Len(waitSend) - 1 /\ Distinct(waitSend')
          /\ Members(waitSend') = Members(waitSend) \ {w}
      BY <2>2, PopFacts DEF TypeOK, IStacks
    <3>2. /\ At("parkedSend")' = At("parkedSend") \ {w} /\ w \in At("parkedSend")
          /\ At("parkedRecv")' = At("parkedRecv")
      BY <2>2, <1>1 DEF At, Wakes
    <3>3. Cardinality(At("parkedSend")') = Cardinality(At("parkedSend")) - 1
      BY <3>2, PlacesFinite, FS_RemoveElement
    <3>4. /\ Members(waitSend') = At("parkedSend")' /\ Members(waitRecv') = At("parkedRecv")'
          /\ Len(waitSend') = Cardinality(At("parkedSend")')
          /\ Len(waitRecv') = Cardinality(At("parkedRecv")')
      BY <3>1, <3>2, <3>3, <1>1 DEF IStacks, ParkedExactly
    <3>5. closed' => waitSend' = << >> /\ waitRecv' = << >>
      BY <2>2, <1>1 DEF IStacks, ParkedExactly
    <3> QED
      BY <3>1, <3>4, <3>5, <1>1 DEF IStacks, ParkedExactly, Distinct, Members
  <2> QED
    BY <2>1, <2>2, <1>3
<1>9. ICounts'
  <2>1. /\ Receivers' = Receivers \ {t} /\ t \in Receivers
    BY <1>1, <1>3 DEF Receivers, At, Goes, Wakes
  <2>2. Cardinality(Receivers') = Cardinality(Receivers) - 1
    BY <2>1, PlacesFinite, FS_RemoveElement
  <2>3. waitSend' # << >> => Cardinality(Senders') = Cardinality(Senders) + 1
    <3>1. SUFFICES ASSUME waitSend' # << >>
                   PROVE  Cardinality(Senders') = Cardinality(Senders) + 1
      OBVIOUS
    <3>2. PICK w \in Tasks : at[w] = "parkedSend" /\ Wakes(t, w, "wokenSend")
      BY <3>1, <1>3
    <3>3. Senders' = Senders \cup {w} /\ w \notin Senders
      BY <3>2, <1>1 DEF Senders, At, Wakes
    <3> QED
      BY <3>3, PlacesFinite, FS_AddElement
  <2>4. waitSend' # << >> => waitSend # << >>
    BY <1>3
  <2>5. /\ Cardinality(Receivers) \in Nat /\ Cardinality(Senders) \in Nat /\ length \in Nat
        /\ Capacity \in Nat
    BY PlacesFinite, ChannelAssumption DEF TypeOK
  <2> QED
    BY <2>2, <2>3, <2>4, <2>5, <1>1 DEF ICounts
<1> QED
  BY <1>4, <1>5, <1>6, <1>7, <1>8, <1>9

\* The ring and both stacks are empty at the start.
LEMMA InitHolds == Init => IInv
<1> SUFFICES ASSUME Init PROVE IInv
  OBVIOUS
<1>1. TypeOK
  <2>1. waitSend \in Seq(Tasks) /\ waitRecv \in Seq(Tasks)
    BY EmptySeqs DEF Init
  <2>2. head \in 0..(Capacity - 1) /\ length \in 0..Capacity
    BY ChannelAssumption DEF Init
  <2> QED
    BY <2>1, <2>2 DEF Init, TypeOK, Results
<1>2. IRing
  <2>1. Buffer = [i \in 1..0 |-> slots[(head + i - 1) % Capacity]]
    BY DEF Init, Buffer
  <2>2. 1..0 = {}
    OBVIOUS
  <2>3. Buffer = << >>
    BY <2>1, <2>2
  <2> QED
    BY <2>3, EmptySeqs DEF IRing
<1>3. IValue /\ IRefuse /\ ICounts
  BY DEF Init, IValue, IRefuse, ICounts
<1>4. IStacks
  <2>1. At("parkedSend") = {} /\ At("parkedRecv") = {}
    BY DEF Init, At
  <2>2. Len(waitSend) = 0 /\ Len(waitRecv) = 0
    BY DEF Init
  <2>3. Members(waitSend) = {} /\ Members(waitRecv) = {}
    BY <2>2 DEF Members
  <2>4. Distinct(waitSend) /\ Distinct(waitRecv)
    BY <2>2 DEF Distinct
  <2> QED
    BY <2>1, <2>2, <2>3, <2>4, FS_EmptySet DEF Init, IStacks, ParkedExactly
<1> QED
  BY <1>1, <1>2, <1>3, <1>4 DEF IInv

LEMMA StepCases ==
  ASSUME Next
  PROVE  \E t \in Tasks :
          \/ \E v \in Values : CallSend(t, v)
          \/ CallReceive(t) \/ SendRefused(t) \/ SendParks(t) \/ SendPuts(t)
          \/ SendResume(t) \/ ReceiveTakes(t) \/ ReceiveEnds(t) \/ ReceiveParks(t)
          \/ ReceiveResume(t) \/ Close(t) \/ Free(t)
<1> QED
  BY DEF Next, Send, Receive

LEMMA StepKeeps ==
  ASSUME IInv, [Next]_vars
  PROVE  IInv'
<1>1. CASE UNCHANGED vars
  <2>1. /\ slots' = slots /\ head' = head /\ length' = length /\ closed' = closed
        /\ waitSend' = waitSend /\ waitRecv' = waitRecv /\ at' = at /\ value' = value
        /\ wakeResult' = wakeResult /\ result' = result /\ freed' = freed
    BY <1>1 DEF vars, ring, stacks
  <2>2. \A p : At(p)' = At(p)
    BY <2>1 DEF At
  <2>3. TypeOK' /\ IValue' /\ IRefuse'
    BY <2>1 DEF IInv, TypeOK, IValue, IRefuse
  <2>4. IRing'
    BY <2>1 DEF IInv, IRing, Buffer
  <2>5. IStacks'
    BY <2>1, <2>2 DEF IInv, IStacks, ParkedExactly, Distinct, Members
  <2>6. ICounts'
    BY <2>1, <2>2 DEF IInv, ICounts, Senders, Receivers
  <2> QED
    BY <2>3, <2>4, <2>5, <2>6 DEF IInv
<1>2. CASE Next
  <2>1. PICK t \in Tasks :
          \/ \E v \in Values : CallSend(t, v)
          \/ CallReceive(t) \/ SendRefused(t) \/ SendParks(t) \/ SendPuts(t)
          \/ SendResume(t) \/ ReceiveTakes(t) \/ ReceiveEnds(t) \/ ReceiveParks(t)
          \/ ReceiveResume(t) \/ Close(t) \/ Free(t)
    BY <1>2, StepCases
  <2> QED
    BY <2>1, CallSendKeeps, CallReceiveKeeps, SendRefusedKeeps, SendParksKeeps,
       SendPutsKeeps, SendResumeKeeps, ReceiveTakesKeeps, ReceiveEndsKeeps,
       ReceiveParksKeeps, ReceiveResumeKeeps, CloseKeeps, FreeKeeps
<1> QED
  BY <1>1, <1>2

\* Spec without its fairness, which safety does not need.
THEOREM ChannelInvariance == Spec => []IInv
<1> QED
  BY InitHolds, StepKeeps, PTL DEF Spec

LEMMA InvImplies == IInv => NoStrandedWaiter
<1> QED
  BY DEF IInv, IStacks, ICounts, NoStrandedWaiter, Senders, Receivers

\* While a Task is parked, those that were woken and have not tried yet suffice
\* for the values, or the free slots, it waits for: each hex_chan_send and each
\* hex_chan_receive takes one waiter from the opposite stack.  The stacks hold the
\* parked Tasks once each, and hex_chan_close leaves no waiter.
THEOREM NobodyIsStranded == Spec => []NoStrandedWaiter
<1> QED
  BY ChannelInvariance, InvImplies, PTL

-----------------------------------------------------------------------------
\* The refinement.  Only calls, puts, takes and ends are steps of the FIFO.

LEMMA FifoStutters ==
  ASSUME slots' = slots, head' = head, length' = length, closed' = closed,
         result' = result
  PROVE  UNCHANGED Fifo!fifo
<1>1. Buffer' = Buffer
  BY DEF Buffer
<1> QED
  BY <1>1 DEF Fifo!fifo

LEMMA FifoReturns ==
  ASSUME slots' = slots, head' = head, length' = length, closed' = closed,
         NEW t \in Tasks, NEW r, result' = [result EXCEPT ![t] = r],
         \/ r = <<"none">>
         \/ closed /\ r = <<"refused">>
         \/ closed /\ length = 0 /\ r = <<"eos">>
  PROVE  Fifo!Next
<1>1. Buffer' = Buffer
  BY DEF Buffer
<1>2. CASE r = <<"none">>
  <2>1. Fifo!Call(t)
    BY <1>1, <1>2 DEF Fifo!Call, Fifo!Return
  <2> QED
    BY <2>1 DEF Fifo!Next
<1>3. CASE closed /\ r = <<"refused">>
  <2>1. Fifo!Refuse(t)
    BY <1>1, <1>3 DEF Fifo!Refuse, Fifo!Return
  <2> QED
    BY <2>1 DEF Fifo!Next
<1>4. CASE closed /\ length = 0 /\ r = <<"eos">>
  <2>1. Buffer = << >>
    <3>1. Buffer = [i \in 1..0 |-> slots[(head + i - 1) % Capacity]]
      BY <1>4 DEF Buffer
    <3>2. 1..0 = {}
      OBVIOUS
    <3> QED
      BY <3>1, <3>2
  <2>2. Fifo!EndOfStream(t)
    BY <1>1, <1>4, <2>1 DEF Fifo!EndOfStream, Fifo!Return
  <2> QED
    BY <2>2 DEF Fifo!Next
<1> QED
  BY <1>2, <1>3, <1>4

LEMMA FifoPuts ==
  ASSUME IInv, NEW t \in Tasks, SendPuts(t)
  PROVE  Fifo!Next
<1>1. /\ at[t] = "send" /\ ~closed /\ length < Capacity /\ value[t] \in Values
      /\ slots' = [slots EXCEPT ![(head + length) % Capacity] = value[t]]
      /\ length' = length + 1 /\ head' = head /\ closed' = closed
      /\ result' = [result EXCEPT ![t] = <<"sent", value[t]>>]
  BY DEF SendPuts, ReturnAndWake, Return, IInv, IValue
<1>2. Buffer' = Append(Buffer, value[t]) /\ Len(Buffer) < Capacity
  BY <1>1, RingPuts DEF IInv
<1>3. Fifo!Put(t, value[t])
  BY <1>1, <1>2 DEF Fifo!Put, Fifo!Return
<1> QED
  BY <1>1, <1>3 DEF Fifo!Next

LEMMA FifoTakes ==
  ASSUME IInv, NEW t \in Tasks, ReceiveTakes(t)
  PROVE  Fifo!Next
<1>1. /\ length > 0 /\ closed' = closed
      /\ slots' = [slots EXCEPT ![head] = None]
      /\ length' = length - 1 /\ head' = (head + 1) % Capacity
      /\ result' = [result EXCEPT ![t] = <<"value", slots[head]>>]
  BY DEF ReceiveTakes, ReturnAndWake
<1>2. Buffer' = Tail(Buffer) /\ Buffer # << >> /\ Head(Buffer) = slots[head]
  BY <1>1, RingTakes DEF IInv
<1>3. Fifo!Take(t)
  BY <1>1, <1>2 DEF Fifo!Take, Fifo!Return
<1> QED
  BY <1>3 DEF Fifo!Next

LEMMA FifoCloses ==
  ASSUME NEW t \in Tasks, Close(t)
  PROVE  Fifo!Next
<1>1. /\ slots' = slots /\ head' = head /\ length' = length /\ result' = result
      /\ closed' = TRUE
  BY DEF Close, ring
<1>2. Buffer' = Buffer
  BY <1>1 DEF Buffer
<1>3. Fifo!Close
  BY <1>1, <1>2 DEF Fifo!Close
<1> QED
  BY <1>3 DEF Fifo!Next

LEMMA StepIsFifo ==
  ASSUME IInv, [Next]_vars
  PROVE  [Fifo!Next]_(Fifo!fifo)
<1>1. CASE UNCHANGED vars
  <2>1. /\ slots' = slots /\ head' = head /\ length' = length /\ closed' = closed
        /\ result' = result
    BY <1>1 DEF vars, ring
  <2> QED
    BY <2>1, FifoStutters
<1>2. CASE Next
  <2>1. PICK t \in Tasks :
          \/ \E v \in Values : CallSend(t, v)
          \/ CallReceive(t) \/ SendRefused(t) \/ SendParks(t) \/ SendPuts(t)
          \/ SendResume(t) \/ ReceiveTakes(t) \/ ReceiveEnds(t) \/ ReceiveParks(t)
          \/ ReceiveResume(t) \/ Close(t) \/ Free(t)
    BY <1>2, StepCases
  <2>2. CASE (\E v \in Values : CallSend(t, v)) \/ CallReceive(t)
    <3>1. /\ slots' = slots /\ head' = head /\ length' = length /\ closed' = closed
          /\ result' = [result EXCEPT ![t] = <<"none">>]
      BY <2>2 DEF CallSend, CallReceive, ring
    <3> QED
      BY <3>1, FifoReturns
  <2>3. CASE SendRefused(t)
    <3>1. /\ slots' = slots /\ head' = head /\ length' = length /\ closed' = closed
          /\ closed /\ result' = [result EXCEPT ![t] = <<"refused">>]
      BY <2>3 DEF SendRefused, Return, ReturnAndWake, ring
    <3> QED
      BY <3>1, FifoReturns
  <2>4. CASE SendParks(t) \/ ReceiveParks(t) \/ ReceiveResume(t) \/ Free(t)
    <3>1. /\ slots' = slots /\ head' = head /\ length' = length /\ closed' = closed
          /\ result' = result
      BY <2>4 DEF SendParks, ReceiveParks, ReceiveResume, Free, Park, ring
    <3> QED
      BY <3>1, FifoStutters
  <2>5. CASE SendPuts(t)
    BY <2>5, FifoPuts
  <2>6. CASE SendResume(t)
    <3>1. slots' = slots /\ head' = head /\ length' = length /\ closed' = closed
      BY <2>6 DEF SendResume, ring
    <3>2. CASE wakeResult[t]
      <4>1. closed /\ result' = [result EXCEPT ![t] = <<"refused">>]
        BY <2>6, <3>2 DEF SendResume, Return, ReturnAndWake, IInv, IRefuse
      <4> QED
        BY <3>1, <4>1, FifoReturns
    <3>3. CASE ~wakeResult[t]
      <4>1. result' = result
        BY <2>6, <3>3 DEF SendResume
      <4> QED
        BY <3>1, <4>1, FifoStutters
    <3> QED
      BY <3>2, <3>3
  <2>7. CASE ReceiveTakes(t)
    BY <2>7, FifoTakes
  <2>8. CASE ReceiveEnds(t)
    <3>1. /\ slots' = slots /\ head' = head /\ length' = length /\ closed' = closed
          /\ closed /\ length = 0 /\ result' = [result EXCEPT ![t] = <<"eos">>]
      BY <2>8 DEF ReceiveEnds, Return, ReturnAndWake, ring
    <3> QED
      BY <3>1, FifoReturns
  <2>9. CASE Close(t)
    BY <2>9, FifoCloses
  <2> QED
    BY <2>1, <2>2, <2>3, <2>4, <2>5, <2>6, <2>7, <2>8, <2>9
<1> QED
  BY <1>1, <1>2

LEMMA InitIsFifo == Init => Fifo!Init
<1> SUFFICES ASSUME Init PROVE Fifo!Init
  OBVIOUS
<1>1. Buffer = [i \in 1..0 |-> slots[(head + i - 1) % Capacity]]
  BY DEF Init, Buffer
<1>2. 1..0 = {}
  OBVIOUS
<1>3. Buffer = << >>
  BY <1>1, <1>2
<1> QED
  BY <1>3 DEF Init, Fifo!Init

\* The ring of hex_chan_send and hex_chan_receive, with its parked Tasks, their
\* wakes and their retries, is a bounded FIFO: values come out in the order in
\* which they went in, a send is refused only after close, and a receive ends the
\* stream only when the Channel is closed and drained (docs/reference.md).
THEOREM ChannelIsFifo == Spec => ImplementsFifo
<1>1. IInv /\ [Next]_vars => [Fifo!Next]_(Fifo!fifo)
  BY StepIsFifo
<1>2. Spec => Fifo!Spec
  BY <1>1, InitIsFifo, ChannelInvariance, PTL DEF Spec, Fifo!Spec
<1> QED
  BY <1>2 DEF ImplementsFifo
=============================================================================
