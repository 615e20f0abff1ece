---------------------- MODULE ServerFileViewProofs ----------------------
(***************************************************************************)
(* Theorems about three components that share nothing with each other: the *)
(* HTTP server (Server), File (FileCapability) and the states of the       *)
(* compiler's stale-view analysis (ViewState).                             *)
(*                                                                         *)
(* Server, for any number of connections and of Tasks that stop, wait for  *)
(* and free it: the count of the connections is exact (ICount), so that    *)
(* none has a Task when the shutdown finds it to be zero, and what has no  *)
(* Task has neither storage (IMemory) nor an open socket (ISocket).        *)
(***************************************************************************)
EXTENDS Server, FileCapability, Sequences, FiniteSetTheorems, TLAPS

\* The Task that runs the server has a new connection in its hands.
Starting == {"new", "register", "spawn", "unlink", "reject", "rejecting"}

New(c) == run.at \in Starting /\ run.with = c

\* The connections that `active' counts: those that have a Task, and the one
\* that is registered and gets one or fails to.
Counted ==
  {c \in Connections : serve[c] # "none" \/ (run.at \in {"spawn", "unlink"} /\ run.with = c)}

ICount == active = Cardinality(Counted)

\* There is room for the connection that is to be accepted or started.
IRoom ==
  /\ active <= program.ceiling
  /\ run.at \in {"accept", "new", "register", "reject", "rejecting"} => active < program.ceiling

\* The new connection has no Task.
INew ==
  /\ run.at \in Starting \cup {"close", "closing"} => run.with \in Connections
  /\ run.at \in Starting => serve[run.with] = "none"

\* Who has storage, and who is registered.
IMemory ==
  \A c \in Connections :
    /\ serve[c] \notin {"none", "return"} => c \in memory
    /\ serve[c] = "return" => c \notin memory
    /\ serve[c] = "none" /\ c \in memory => New(c) /\ run.at # "new"
    /\ New(c) /\ run.at \in {"register", "spawn", "unlink"} => c \in memory
    /\ c \in connections <=> \/ serve[c] \notin {"none", "free", "return"}
                             \/ New(c) /\ run.at \in {"spawn", "unlink"}

\* Only the one that closes a socket leaves it closing.
ISocket ==
  \A c \in Connections :
    /\ tcp[c] = "open" =>
         /\ serve[c] \notin {"closing", "unlink", "free", "return"}
         /\ serve[c] = "none" => New(c) /\ run.at # "rejecting"
    /\ tcp[c] = "closing" =>
         \/ serve[c] = "closing"
         \/ run.at \in {"closing", "rejecting"} /\ run.with = c
    /\ New(c) /\ run.at # "rejecting" => tcp[c] = "open"

\* Where the flags of a connection are set.
IFlags ==
  /\ \A c \in Connections :
       c \in idle <=> serve[c] \in {"stopping?", "reading", "got", "leave"}
  /\ \A c \in begun : serve[c] \in {"got", "head", "handling", "blocked"}
  /\ \A c \in stopClosed : serve[c] \notin {"none", "return"}

\* Once the shutdown has looked and found nothing to close, no connection waits
\* for a request on an open socket: one that goes idle sees that the server
\* stops, or its flag was seen.
NobodyWaitsUnseen ==
  run.at \in {"active?", "deadline?"} =>
    \A c \in Connections : serve[c] = "reading" => tcp[c] # "open"

ISeen ==
  /\ \A c \in stopClosed : tcp[c] = "open" => run.at = "close" /\ run.with = c
  /\ NobodyWaitsUnseen

\* What the shutdown has done so far.
IStop ==
  /\ run.at \in {"close-listener", "closing-listener", "look", "close", "closing", "active?",
                 "deadline?", "finish", "announce", "returned"} => stopping
  /\ stopClosed # {} => stopping
  /\ begun # {} => stopping
  /\ run.forced => late
  /\ run.at \in {"none", "finish", "announce", "returned"} => active = 0

\* phase and done tell where the run is.
IPhase ==
  /\ phase = "created" <=> run.at = "none"
  /\ phase = "done" <=> run.at \in {"announce", "returned"}
  /\ done => run.at = "returned" \/ freed
  /\ missed => phase # "created"
  /\ \A t \in Callers :
       /\ call[t] \in {"receive", "result"} => phase # "created"
       /\ call[t] = "result" => done

IListener ==
  /\ listenerClosed <=> listener # "open"
  /\ listener = "closing" =>
       \/ run.at = "closing-listener"
       \/ \E t \in Callers : call[t] \in {"closing", "closing-to-free"}

\* What a free and a freed server may meet.
IFree ==
  /\ \A t \in Callers : InFree(t) =>
       /\ ~freed /\ (phase = "running" => missed)
       /\ \A u \in Callers \ {t} : ~InFree(u)
       /\ call[t] = "dispose" => listenerClosed
  /\ freed => /\ listenerClosed /\ (phase = "running" => missed)
              /\ \A t \in Callers : ~InFree(t)

IInv ==
  /\ TypeOK /\ ICount /\ IRoom /\ INew /\ IMemory /\ ISocket /\ IFlags /\ IStop /\ IPhase
  /\ IListener /\ IFree /\ ISeen

\* The step of the run, of a connection's Task, of a caller.
LEMMA RunMoves ==
  ASSUME TypeOK, NEW p \in RunPlaces, NEW c \in Connections \cup {None}
  PROVE  /\ RunTo(p) => /\ run'.at = p /\ run'.with = run.with /\ run'.forced = run.forced
                        /\ run' \in [at : RunPlaces, with : Connections \cup {None},
                                     forced : BOOLEAN]
         /\ RunWith(p, c) => /\ run'.at = p /\ run'.with = c /\ run'.forced = run.forced
                             /\ run' \in [at : RunPlaces, with : Connections \cup {None},
                                          forced : BOOLEAN]
<1>1. run \in [at : RunPlaces, with : Connections \cup {None}, forced : BOOLEAN]
  BY DEF TypeOK
<1>2. ASSUME RunTo(p)
      PROVE  /\ run'.at = p /\ run'.with = run.with /\ run'.forced = run.forced
             /\ run' \in [at : RunPlaces, with : Connections \cup {None}, forced : BOOLEAN]
  BY <1>1, <1>2 DEF RunTo
<1>3. ASSUME RunWith(p, c)
      PROVE  /\ run'.at = p /\ run'.with = c /\ run'.forced = run.forced
             /\ run' \in [at : RunPlaces, with : Connections \cup {None}, forced : BOOLEAN]
  BY <1>1, <1>3 DEF RunWith
<1> QED
  BY <1>2, <1>3

LEMMA ServeMoves ==
  ASSUME TypeOK, NEW c \in Connections, NEW p \in ServePlaces, ServeTo(c, p)
  PROVE  /\ serve'[c] = p /\ \A d \in Connections \ {c} : serve'[d] = serve[d]
         /\ serve' \in [Connections -> ServePlaces]
BY DEF TypeOK, ServeTo

LEMMA CallMoves ==
  ASSUME TypeOK, NEW t \in Callers, NEW p \in CallPlaces, CallTo(t, p)
  PROVE  /\ call'[t] = p /\ \A u \in Callers \ {t} : call'[u] = call[u]
         /\ call' \in [Callers -> CallPlaces]
BY DEF TypeOK, CallTo

LEMMA SocketMoves ==
  ASSUME TypeOK, NEW c \in Connections, NEW s \in {"open", "closing", "closed"},
         tcp' = [tcp EXCEPT ![c] = s]
  PROVE  /\ tcp'[c] = s /\ \A d \in Connections \ {c} : tcp'[d] = tcp[d]
         /\ tcp' \in [Connections -> {"open", "closing", "closed"}]
BY DEF TypeOK

\* The connections that are counted are finitely many.
LEMMA CountedFacts ==
  ASSUME TypeOK
  PROVE  /\ IsFiniteSet(Counted) /\ Cardinality(Counted) \in 0..Cardinality(Connections)
         /\ Cardinality(Connections) \in Nat
<1>1. Counted \subseteq Connections
  BY DEF Counted
<1> QED
  BY <1>1, ServerAssumption, FS_Subset, FS_CardinalityType

\* A step that counts nobody in or out.
LEMMA CountStays ==
  ASSUME ICount, active' = active,
         \A c \in Connections :
           /\ serve'[c] # "none" \/ (run'.at \in {"spawn", "unlink"} /\ run'.with = c)
           <=> serve[c] # "none" \/ (run.at \in {"spawn", "unlink"} /\ run.with = c)
  PROVE  ICount'
<1>1. Counted' = Counted
  BY DEF Counted
<1> QED
  BY <1>1 DEF ICount

\* The count stays in its range.
LEMMA ActiveType ==
  ASSUME TypeOK, run' \in [at : RunPlaces, with : Connections \cup {None}, forced : BOOLEAN],
         ICount'
  PROVE  active' \in 0..Cardinality(Connections)
<1>1. Counted' \subseteq Connections
  BY DEF Counted
<1> QED
  BY <1>1, ServerAssumption, FS_Subset, FS_CardinalityType DEF ICount

\* Somebody is counted.
LEMMA Busy ==
  ASSUME TypeOK, ICount, NEW c \in Connections, serve[c] # "none"
  PROVE  active # 0
<1>1. c \in Counted
  BY DEF Counted
<1> QED
  BY <1>1, CountedFacts, FS_EmptySet DEF ICount

\* The Task that runs the server starts, accepts and makes the Tasks of connections.
\* Each lemma first says what the step reads and writes, then what it leaves alone.
LEMMA RunKeeps ==
  ASSUME IInv, Run
  PROVE  IInv'
<1> USE DEF IInv
<1>1. /\ run.at = "none"
      /\ phase = "created"
      /\ ~freed
      /\ phase' = "running"
      /\ missed' = BesideFree
      /\ RunTo("stopping?")
  BY DEF Run
<1>2. UNCHANGED <<program, stopping, listenerClosed, done, freed, active,
                  connections, stopClosed, idle, memory, listener, tcp, serve,
                  keep, call, late, begun>>
  BY DEF Run, registry, native, ofRun
<1>3. /\ run'.at = "stopping?" /\ run'.with = run.with /\ run'.forced = run.forced
      /\ run' \in [at : RunPlaces, with : Connections \cup {None}, forced : BOOLEAN]
  BY <1>1, RunMoves DEF RunPlaces
<1>4. ICount'
  BY <1>1, <1>2, <1>3, CountStays
<1>5. TypeOK'
  BY <1>1, <1>2, <1>3 DEF TypeOK, BesideFree
<1>6. IRoom'
  BY <1>2, <1>3 DEF IRoom
<1>7. INew'
  BY <1>3 DEF INew, Starting
<1>8. IMemory'
  BY <1>1, <1>2, <1>3 DEF IMemory, New, Starting
<1>9. ISocket'
  BY <1>1, <1>2, <1>3 DEF ISocket, New, Starting
<1>10. IStop'
  BY <1>2, <1>3 DEF IStop
<1>11. IPhase'
  BY <1>1, <1>2, <1>3 DEF IPhase
<1>12. IListener'
  BY <1>1, <1>2 DEF IListener
<1>13. IFree'
  BY <1>1, <1>2 DEF IFree, InFree, BesideFree
<1>14. ISeen'
  BY <1>1, <1>2, <1>3 DEF ISeen, NobodyWaitsUnseen
<1>15. IFlags'
  BY <1>2 DEF IFlags
<1> QED
  BY <1>4, <1>5, <1>6, <1>7, <1>8, <1>9, <1>10, <1>11, <1>12, <1>13, <1>14,
     <1>15

LEMMA RunChecksStopKeeps ==
  ASSUME IInv, RunChecksStop
  PROVE  IInv'
<1> USE DEF IInv
<1>1. /\ run.at = "stopping?"
      /\ RunTo(IF stopping THEN "stop" ELSE "room?")
  BY DEF RunChecksStop
<1>2. UNCHANGED <<program, phase, stopping, listenerClosed, done, freed, active,
                  connections, stopClosed, idle, memory, listener, tcp, serve,
                  keep, call, late, begun, missed>>
  BY DEF RunChecksStop, lifecycle, registry, native, history, ofRun
<1>3. /\ run'.at = (IF stopping THEN "stop" ELSE "room?") /\ run'.with = run.with
      /\ run'.forced = run.forced
      /\ run' \in [at : RunPlaces, with : Connections \cup {None}, forced : BOOLEAN]
  BY <1>1, RunMoves DEF RunPlaces
<1>4. ICount'
  BY <1>1, <1>2, <1>3, CountStays
<1>5. TypeOK'
  BY <1>2, <1>3 DEF TypeOK
<1>6. IRoom'
  BY <1>2, <1>3 DEF IRoom
<1>7. INew'
  BY <1>3 DEF INew, Starting
<1>8. IMemory'
  BY <1>1, <1>2, <1>3 DEF IMemory, New, Starting
<1>9. ISocket'
  BY <1>1, <1>2, <1>3 DEF ISocket, New, Starting
<1>10. IStop'
  BY <1>2, <1>3 DEF IStop
<1>11. IPhase'
  BY <1>1, <1>2, <1>3 DEF IPhase
<1>12. IListener'
  BY <1>1, <1>2 DEF IListener
<1>13. IFree'
  BY <1>1, <1>2 DEF IFree, InFree
<1>14. ISeen'
  BY <1>1, <1>2, <1>3 DEF ISeen, NobodyWaitsUnseen
<1>15. IFlags'
  BY <1>2 DEF IFlags
<1> QED
  BY <1>4, <1>5, <1>6, <1>7, <1>8, <1>9, <1>10, <1>11, <1>12, <1>13, <1>14,
     <1>15

LEMMA RunChecksRoomKeeps ==
  ASSUME IInv, RunChecksRoom
  PROVE  IInv'
<1> USE DEF IInv
<1>1. /\ run.at = "room?"
      /\ RunTo(IF Full THEN "stopping?" ELSE "accept")
  BY DEF RunChecksRoom
<1>2. UNCHANGED <<program, phase, stopping, listenerClosed, done, freed, active,
                  connections, stopClosed, idle, memory, listener, tcp, serve,
                  keep, call, late, begun, missed>>
  BY DEF RunChecksRoom, lifecycle, registry, native, history, ofRun
<1>3. /\ run'.at = (IF Full THEN "stopping?" ELSE "accept") /\ run'.with = run.with
      /\ run'.forced = run.forced
      /\ run' \in [at : RunPlaces, with : Connections \cup {None}, forced : BOOLEAN]
  BY <1>1, RunMoves DEF RunPlaces
<1>4. ICount'
  BY <1>1, <1>2, <1>3, CountStays
<1>5. TypeOK'
  BY <1>2, <1>3 DEF TypeOK
<1>6. IRoom'
  BY <1>2, <1>3, ServerAssumption DEF IRoom, TypeOK, Full
<1>7. INew'
  BY <1>3 DEF INew, Starting
<1>8. IMemory'
  BY <1>1, <1>2, <1>3 DEF IMemory, New, Starting
<1>9. ISocket'
  BY <1>1, <1>2, <1>3 DEF ISocket, New, Starting
<1>10. IStop'
  BY <1>2, <1>3 DEF IStop
<1>11. IPhase'
  BY <1>1, <1>2, <1>3 DEF IPhase
<1>12. IListener'
  BY <1>1, <1>2 DEF IListener
<1>13. IFree'
  BY <1>1, <1>2 DEF IFree, InFree
<1>14. ISeen'
  BY <1>1, <1>2, <1>3 DEF ISeen, NobodyWaitsUnseen
<1>15. IFlags'
  BY <1>2 DEF IFlags
<1> QED
  BY <1>4, <1>5, <1>6, <1>7, <1>8, <1>9, <1>10, <1>11, <1>12, <1>13, <1>14,
     <1>15

LEMMA RunAcceptsKeeps ==
  ASSUME IInv, NEW c \in Connections, RunAccepts(c)
  PROVE  IInv'
<1> USE DEF IInv
<1>1. /\ run.at = "accept"
      /\ serve[c] = "none" /\ tcp[c] = "closed" /\ c \notin memory
      /\ tcp' = [tcp EXCEPT ![c] = "open"]
      /\ RunWith("new", c)
  BY DEF RunAccepts
<1>2. UNCHANGED <<program, phase, stopping, listenerClosed, done, freed, active,
                  connections, stopClosed, idle, memory, listener, serve, keep,
                  call, late, begun, missed>>
  BY DEF RunAccepts, lifecycle, registry, history, ofRun
<1>3. /\ tcp'[c] = "open" /\ \A d \in Connections \ {c} : tcp'[d] = tcp[d]
      /\ tcp' \in [Connections -> {"open", "closing", "closed"}]
  BY <1>1, SocketMoves
<1>4. /\ run'.at = "new" /\ run'.with = c /\ run'.forced = run.forced
      /\ run' \in [at : RunPlaces, with : Connections \cup {None}, forced : BOOLEAN]
  BY <1>1, RunMoves DEF RunPlaces
<1>5. ICount'
  BY <1>1, <1>2, <1>4, CountStays
<1>6. TypeOK'
  BY <1>2, <1>3, <1>4 DEF TypeOK
<1>7. IRoom'
  BY <1>1, <1>2 DEF IRoom
<1>8. INew'
  BY <1>1, <1>2, <1>4 DEF INew
<1>9. IMemory'
  BY <1>1, <1>2, <1>4 DEF IMemory, New, Starting
<1>10. ISocket'
  BY <1>1, <1>2, <1>3, <1>4 DEF ISocket, New, Starting
<1>11. IStop'
  BY <1>2, <1>4 DEF IStop
<1>12. IPhase'
  BY <1>1, <1>2, <1>4 DEF IPhase
<1>13. IListener'
  BY <1>1, <1>2 DEF IListener
<1>14. IFree'
  BY <1>1, <1>2 DEF IFree, InFree
<1>15. ISeen'
  BY <1>1, <1>2, <1>4 DEF ISeen, NobodyWaitsUnseen, IFlags
<1>16. IFlags'
  BY <1>2 DEF IFlags
<1> QED
  BY <1>5, <1>6, <1>7, <1>8, <1>9, <1>10, <1>11, <1>12, <1>13, <1>14, <1>15,
     <1>16

LEMMA RunAcceptEndsKeeps ==
  ASSUME IInv, RunAcceptEnds
  PROVE  IInv'
<1> USE DEF IInv
<1>1. /\ run.at = "accept"
      /\ RunTo("stop")
  BY DEF RunAcceptEnds
<1>2. UNCHANGED <<program, phase, stopping, listenerClosed, done, freed, active,
                  connections, stopClosed, idle, memory, listener, tcp, serve,
                  keep, call, late, begun, missed>>
  BY DEF RunAcceptEnds, lifecycle, registry, native, history, ofRun
<1>3. /\ run'.at = "stop" /\ run'.with = run.with /\ run'.forced = run.forced
      /\ run' \in [at : RunPlaces, with : Connections \cup {None}, forced : BOOLEAN]
  BY <1>1, RunMoves DEF RunPlaces
<1>4. ICount'
  BY <1>1, <1>2, <1>3, CountStays
<1>5. TypeOK'
  BY <1>2, <1>3 DEF TypeOK
<1>6. IRoom'
  BY <1>2, <1>3 DEF IRoom
<1>7. INew'
  BY <1>3 DEF INew, Starting
<1>8. IMemory'
  BY <1>1, <1>2, <1>3 DEF IMemory, New, Starting
<1>9. ISocket'
  BY <1>1, <1>2, <1>3 DEF ISocket, New, Starting
<1>10. IStop'
  BY <1>2, <1>3 DEF IStop
<1>11. IPhase'
  BY <1>1, <1>2, <1>3 DEF IPhase
<1>12. IListener'
  BY <1>1, <1>2 DEF IListener
<1>13. IFree'
  BY <1>1, <1>2 DEF IFree, InFree
<1>14. ISeen'
  BY <1>1, <1>2, <1>3 DEF ISeen, NobodyWaitsUnseen
<1>15. IFlags'
  BY <1>2 DEF IFlags
<1> QED
  BY <1>4, <1>5, <1>6, <1>7, <1>8, <1>9, <1>10, <1>11, <1>12, <1>13, <1>14,
     <1>15

LEMMA RunAllocatesKeeps ==
  ASSUME IInv, RunAllocates
  PROVE  IInv'
<1> USE DEF IInv
<1>1. /\ run.at = "new"
      /\ \/ memory' = memory \cup {run.with} /\ RunTo("register")
         \/ memory' = memory /\ RunTo("reject")
  BY DEF RunAllocates
<1>2. UNCHANGED <<program, phase, stopping, listenerClosed, done, freed, active,
                  connections, stopClosed, idle, listener, tcp, serve, keep,
                  call, late, begun, missed>>
  BY DEF RunAllocates, lifecycle, registry, native, history
<1>3. run.with \in Connections
  BY <1>1 DEF INew, Starting
<1>4. /\ run'.with = run.with /\ run'.forced = run.forced
      /\ run' \in [at : RunPlaces, with : Connections \cup {None}, forced : BOOLEAN]
      /\ \/ memory' = memory \cup {run.with} /\ run'.at = "register"
         \/ memory' = memory /\ run'.at = "reject"
  BY <1>1, RunMoves DEF RunPlaces
<1>5. ICount'
  BY <1>1, <1>2, <1>4, CountStays
<1>6. TypeOK'
  BY <1>2, <1>3, <1>4 DEF TypeOK
<1>7. IRoom'
  BY <1>1, <1>2 DEF IRoom
<1>8. INew'
  BY <1>1, <1>2, <1>4 DEF INew, Starting
<1>9. IMemory'
  BY <1>1, <1>2, <1>4 DEF IMemory, New, Starting, INew
<1>10. ISocket'
  BY <1>1, <1>2, <1>4 DEF ISocket, New, Starting
<1>11. IStop'
  BY <1>2, <1>4 DEF IStop
<1>12. IPhase'
  BY <1>1, <1>2, <1>4 DEF IPhase
<1>13. IListener'
  BY <1>1, <1>2 DEF IListener
<1>14. IFree'
  BY <1>1, <1>2 DEF IFree, InFree
<1>15. ISeen'
  BY <1>1, <1>2, <1>4 DEF ISeen, NobodyWaitsUnseen
<1>16. IFlags'
  BY <1>2 DEF IFlags
<1> QED
  BY <1>5, <1>6, <1>7, <1>8, <1>9, <1>10, <1>11, <1>12, <1>13, <1>14, <1>15,
     <1>16

LEMMA RunRegistersKeeps ==
  ASSUME IInv, RunRegisters
  PROVE  IInv'
<1> USE DEF IInv
<1>1. /\ run.at = "register"
      /\ connections' = connections \cup {run.with}
      /\ active' = active + 1
      /\ RunTo("spawn")
  BY DEF RunRegisters
<1>2. UNCHANGED <<program, phase, stopping, listenerClosed, done, freed,
                  stopClosed, idle, memory, listener, tcp, serve, keep, call,
                  late, begun, missed>>
  BY DEF RunRegisters, lifecycle, native, history, ofRun
<1>3. run.with \in Connections
  BY <1>1 DEF INew, Starting
<1>4. /\ run'.at = "spawn" /\ run'.with = run.with /\ run'.forced = run.forced
      /\ run' \in [at : RunPlaces, with : Connections \cup {None}, forced : BOOLEAN]
  BY <1>1, RunMoves DEF RunPlaces
<1>5. ICount'
  <2>1. Counted' = Counted \cup {run.with} /\ run.with \notin Counted
    BY <1>1, <1>2, <1>4 DEF Counted, INew, Starting
  <2> QED
    BY <1>1, <2>1, CountedFacts, FS_AddElement DEF ICount
<1>6. TypeOK'
  BY <1>1, <1>2, <1>3, <1>4, <1>5, ActiveType DEF TypeOK
<1>7. IRoom'
  BY <1>1, <1>2, <1>4, ServerAssumption DEF IRoom, TypeOK
<1>8. INew'
  BY <1>1, <1>2, <1>4 DEF INew, Starting
<1>9. IMemory'
  BY <1>1, <1>2, <1>4 DEF IMemory, New, Starting
<1>10. ISocket'
  BY <1>1, <1>2, <1>4 DEF ISocket, New, Starting
<1>11. IStop'
  BY <1>2, <1>4 DEF IStop
<1>12. IPhase'
  BY <1>1, <1>2, <1>4 DEF IPhase
<1>13. IListener'
  BY <1>1, <1>2 DEF IListener
<1>14. IFree'
  BY <1>1, <1>2 DEF IFree, InFree
<1>15. ISeen'
  BY <1>1, <1>2, <1>4 DEF ISeen, NobodyWaitsUnseen
<1>16. IFlags'
  BY <1>2 DEF IFlags
<1> QED
  BY <1>5, <1>6, <1>7, <1>8, <1>9, <1>10, <1>11, <1>12, <1>13, <1>14, <1>15,
     <1>16

\* The connection counts from its registration on, whoever has it in hand.
LEMMA RunSpawnsKeeps ==
  ASSUME IInv, RunSpawns
  PROVE  IInv'
<1> USE DEF IInv
<1>1. /\ run.at = "spawn"
      /\ \/ ServeTo(run.with, "start") /\ RunWith("stopping?", None)
         \/ serve' = serve /\ RunTo("unlink")
  BY DEF RunSpawns
<1>2. UNCHANGED <<program, phase, stopping, listenerClosed, done, freed, active,
                  connections, stopClosed, idle, memory, listener, tcp, keep,
                  call, late, begun, missed>>
  BY DEF RunSpawns, lifecycle, registry, native, history
<1>3. run.with \in Connections
  BY <1>1 DEF INew, Starting
<1>4. /\ run'.forced = run.forced
      /\ run' \in [at : RunPlaces, with : Connections \cup {None}, forced : BOOLEAN]
      /\ serve' \in [Connections -> ServePlaces]
      /\ \A d \in Connections \ {run.with} : serve'[d] = serve[d]
      /\ \/ serve'[run.with] = "start" /\ run'.at = "stopping?" /\ run'.with = None
         \/ serve' = serve /\ run'.at = "unlink" /\ run'.with = run.with
  <2>1. CASE serve' = serve /\ RunTo("unlink")
    BY <2>1, RunMoves DEF RunPlaces, TypeOK
  <2>2. CASE ServeTo(run.with, "start") /\ RunWith("stopping?", None)
    BY <2>2, <1>3, RunMoves, ServeMoves DEF RunPlaces, ServePlaces
  <2> QED
    BY <1>1, <2>1, <2>2
<1>5. None \notin Connections
  BY ServerAssumption
<1>6. ICount'
  BY <1>1, <1>2, <1>4, CountStays
<1>7. TypeOK'
  BY <1>2, <1>4 DEF TypeOK
<1>8. IRoom'
  BY <1>2, <1>4 DEF IRoom
<1>9. INew'
  BY <1>1, <1>4 DEF INew, Starting
<1>10. IMemory'
  BY <1>1, <1>2, <1>4 DEF IMemory, New, Starting
<1>11. ISocket'
  BY <1>1, <1>2, <1>4 DEF ISocket, New, Starting
<1>12. IFlags'
  BY <1>1, <1>2, <1>4 DEF IFlags, TypeOK, INew, Starting
<1>13. IStop'
  BY <1>2, <1>4 DEF IStop
<1>14. IPhase'
  BY <1>1, <1>2, <1>4 DEF IPhase
<1>15. IListener'
  BY <1>1, <1>2 DEF IListener
<1>16. IFree'
  BY <1>1, <1>2 DEF IFree, InFree
<1>17. ISeen'
  BY <1>1, <1>2, <1>4 DEF ISeen, NobodyWaitsUnseen
<1> QED
  BY <1>6, <1>7, <1>8, <1>9, <1>10, <1>11, <1>12, <1>13, <1>14, <1>15, <1>16,
     <1>17

LEMMA RunUnlinksKeeps ==
  ASSUME IInv, RunUnlinks
  PROVE  IInv'
<1> USE DEF IInv
<1>1. /\ run.at = "unlink"
      /\ connections' = connections \ {run.with}
      /\ active' = active - 1
      /\ RunTo("reject")
  BY DEF RunUnlinks
<1>2. UNCHANGED <<program, phase, stopping, listenerClosed, done, freed,
                  stopClosed, idle, memory, listener, tcp, serve, keep, call,
                  late, begun, missed>>
  BY DEF RunUnlinks, lifecycle, native, history, ofRun
<1>3. run.with \in Connections
  BY <1>1 DEF INew, Starting
<1>4. /\ run'.at = "reject" /\ run'.with = run.with /\ run'.forced = run.forced
      /\ run' \in [at : RunPlaces, with : Connections \cup {None}, forced : BOOLEAN]
  BY <1>1, RunMoves DEF RunPlaces
<1>5. ICount'
  <2>1. Counted' = Counted \ {run.with} /\ run.with \in Counted
    BY <1>1, <1>2, <1>4 DEF Counted, INew, Starting
  <2> QED
    BY <1>1, <2>1, CountedFacts, FS_RemoveElement DEF ICount
<1>6. TypeOK'
  BY <1>1, <1>2, <1>4, <1>5, ActiveType DEF TypeOK
<1>7. IRoom'
  BY <1>1, <1>2, ServerAssumption DEF IRoom, TypeOK
<1>8. INew'
  BY <1>1, <1>2, <1>4 DEF INew, Starting
<1>9. IMemory'
  BY <1>1, <1>2, <1>4 DEF IMemory, New, Starting, INew
<1>10. ISocket'
  BY <1>1, <1>2, <1>4 DEF ISocket, New, Starting
<1>11. IStop'
  BY <1>2, <1>4 DEF IStop
<1>12. IPhase'
  BY <1>1, <1>2, <1>4 DEF IPhase
<1>13. IListener'
  BY <1>1, <1>2 DEF IListener
<1>14. IFree'
  BY <1>1, <1>2 DEF IFree, InFree
<1>15. ISeen'
  BY <1>1, <1>2, <1>4 DEF ISeen, NobodyWaitsUnseen
<1>16. IFlags'
  BY <1>2 DEF IFlags
<1> QED
  BY <1>5, <1>6, <1>7, <1>8, <1>9, <1>10, <1>11, <1>12, <1>13, <1>14, <1>15,
     <1>16

LEMMA RunRejectsKeeps ==
  ASSUME IInv, RunRejects
  PROVE  IInv'
<1> USE DEF IInv
<1>1. /\ run.at = "reject"
      /\ tcp[run.with] = "open"
      /\ tcp' = [tcp EXCEPT ![run.with] = "closing"]
      /\ RunTo("rejecting")
  BY DEF RunRejects, TcpClose
<1>2. UNCHANGED <<program, phase, stopping, listenerClosed, done, freed, active,
                  connections, stopClosed, idle, memory, listener, serve, keep,
                  call, late, begun, missed>>
  BY DEF RunRejects, lifecycle, registry, history, ofRun
<1>3. run.with \in Connections
  BY <1>1 DEF INew, Starting
<1>4. /\ tcp'[run.with] = "closing" /\ \A d \in Connections \ {run.with} : tcp'[d] = tcp[d]
      /\ tcp' \in [Connections -> {"open", "closing", "closed"}]
  BY <1>1, <1>3, SocketMoves
<1>5. /\ run'.at = "rejecting" /\ run'.with = run.with /\ run'.forced = run.forced
      /\ run' \in [at : RunPlaces, with : Connections \cup {None}, forced : BOOLEAN]
  BY <1>1, RunMoves DEF RunPlaces
<1>6. ICount'
  BY <1>1, <1>2, <1>5, CountStays
<1>7. TypeOK'
  BY <1>2, <1>4, <1>5 DEF TypeOK
<1>8. IRoom'
  BY <1>1, <1>2 DEF IRoom
<1>9. INew'
  BY <1>1, <1>2, <1>5 DEF INew, Starting
<1>10. IMemory'
  BY <1>1, <1>2, <1>5 DEF IMemory, New, Starting
<1>11. ISocket'
  BY <1>2, <1>4, <1>5 DEF ISocket, New
<1>12. IStop'
  BY <1>2, <1>5 DEF IStop
<1>13. IPhase'
  BY <1>1, <1>2, <1>5 DEF IPhase
<1>14. IListener'
  BY <1>1, <1>2 DEF IListener
<1>15. IFree'
  BY <1>1, <1>2 DEF IFree, InFree
<1>16. ISeen'
  BY <1>1, <1>2, <1>5 DEF ISeen, NobodyWaitsUnseen
<1>17. IFlags'
  BY <1>2 DEF IFlags
<1> QED
  BY <1>6, <1>7, <1>8, <1>9, <1>10, <1>11, <1>12, <1>13, <1>14, <1>15, <1>16,
     <1>17

LEMMA RunRejectedKeeps ==
  ASSUME IInv, RunRejected
  PROVE  IInv'
<1> USE DEF IInv
<1>1. /\ run.at = "rejecting"
      /\ tcp[run.with] = "closed"
      /\ memory' = memory \ {run.with}
      /\ RunWith("stopping?", None)
  BY DEF RunRejected
<1>2. UNCHANGED <<program, phase, stopping, listenerClosed, done, freed, active,
                  connections, stopClosed, idle, listener, tcp, serve, keep,
                  call, late, begun, missed>>
  BY DEF RunRejected, lifecycle, registry, native, history
<1>3. run.with \in Connections
  BY <1>1 DEF INew, Starting
<1>4. /\ run'.at = "stopping?" /\ run'.with = None /\ run'.forced = run.forced
      /\ run' \in [at : RunPlaces, with : Connections \cup {None}, forced : BOOLEAN]
  BY <1>1, RunMoves DEF RunPlaces
<1>5. None \notin Connections
  BY ServerAssumption
<1>6. ICount'
  BY <1>1, <1>2, <1>4, CountStays
<1>7. TypeOK'
  BY <1>1, <1>2, <1>4 DEF TypeOK
<1>8. IRoom'
  BY <1>2, <1>4 DEF IRoom
<1>9. INew'
  BY <1>4 DEF INew, Starting
<1>10. IMemory'
  BY <1>1, <1>2, <1>4 DEF IMemory, New, Starting, INew
<1>11. ISocket'
  BY <1>1, <1>2, <1>4, <1>5 DEF ISocket, New
<1>12. IStop'
  BY <1>2, <1>4 DEF IStop
<1>13. IPhase'
  BY <1>1, <1>2, <1>4 DEF IPhase
<1>14. IListener'
  BY <1>1, <1>2 DEF IListener
<1>15. IFree'
  BY <1>1, <1>2 DEF IFree, InFree
<1>16. ISeen'
  BY <1>1, <1>2, <1>4 DEF ISeen, NobodyWaitsUnseen
<1>17. IFlags'
  BY <1>2 DEF IFlags
<1> QED
  BY <1>6, <1>7, <1>8, <1>9, <1>10, <1>11, <1>12, <1>13, <1>14, <1>15, <1>16,
     <1>17

\* The shutdown: it closes the listener, then the idle connections, and waits.
LEMMA RunStopsKeeps ==
  ASSUME IInv, RunStops
  PROVE  IInv'
<1> USE DEF IInv
<1>1. /\ run.at = "stop"
      /\ stopping' = TRUE
      /\ begun' = IF stopping THEN begun ELSE InProgress
      /\ RunTo("close-listener")
  BY DEF RunStops, SetStopping
<1>2. UNCHANGED <<program, phase, listenerClosed, done, freed, active,
                  connections, stopClosed, idle, memory, listener, tcp, serve,
                  keep, call, late, missed>>
  BY DEF RunStops, registry, native, ofRun
<1>3. /\ run'.at = "close-listener" /\ run'.with = run.with /\ run'.forced = run.forced
      /\ run' \in [at : RunPlaces, with : Connections \cup {None}, forced : BOOLEAN]
  BY <1>1, RunMoves DEF RunPlaces
<1>4. ICount'
  BY <1>1, <1>2, <1>3, CountStays
<1>5. TypeOK'
  BY <1>1, <1>2, <1>3 DEF TypeOK, InProgress
<1>6. IRoom'
  BY <1>2, <1>3 DEF IRoom
<1>7. INew'
  BY <1>3 DEF INew, Starting
<1>8. IMemory'
  BY <1>1, <1>2, <1>3 DEF IMemory, New, Starting
<1>9. ISocket'
  BY <1>1, <1>2, <1>3 DEF ISocket, New, Starting
<1>10. IFlags'
  BY <1>1, <1>2 DEF IFlags, InProgress
<1>11. IStop'
  BY <1>1, <1>2, <1>3 DEF IStop
<1>12. IPhase'
  BY <1>1, <1>2, <1>3 DEF IPhase
<1>13. IListener'
  BY <1>1, <1>2 DEF IListener
<1>14. IFree'
  BY <1>1, <1>2 DEF IFree, InFree
<1>15. ISeen'
  BY <1>1, <1>2, <1>3 DEF ISeen, NobodyWaitsUnseen
<1> QED
  BY <1>4, <1>5, <1>6, <1>7, <1>8, <1>9, <1>10, <1>11, <1>12, <1>13, <1>14,
     <1>15

LEMMA RunClosesListenerKeeps ==
  ASSUME IInv, RunClosesListener
  PROVE  IInv'
<1> USE DEF IInv
<1>1. /\ run.at = "close-listener"
      /\ listenerClosed' = TRUE
      /\ IF listenerClosed THEN RunTo("look") /\ listener' = listener
         ELSE RunTo("closing-listener") /\ listener' = "closing"
  BY DEF RunClosesListener
<1>2. UNCHANGED <<program, phase, stopping, done, freed, active, connections,
                  stopClosed, idle, memory, tcp, serve, keep, call, late, begun,
                  missed>>
  BY DEF RunClosesListener, registry, history, ofRun
<1>3. /\ run'.with = run.with /\ run'.forced = run.forced
      /\ run' \in [at : RunPlaces, with : Connections \cup {None}, forced : BOOLEAN]
      /\ IF listenerClosed THEN run'.at = "look" /\ listener' = listener
         ELSE run'.at = "closing-listener" /\ listener' = "closing"
  BY <1>1, RunMoves DEF RunPlaces
<1>4. ICount'
  BY <1>1, <1>2, <1>3, CountStays
<1>5. TypeOK'
  BY <1>1, <1>2, <1>3 DEF TypeOK
<1>6. IRoom'
  BY <1>2, <1>3 DEF IRoom
<1>7. INew'
  BY <1>3 DEF INew, Starting
<1>8. IMemory'
  BY <1>1, <1>2, <1>3 DEF IMemory, New, Starting
<1>9. ISocket'
  BY <1>1, <1>2, <1>3 DEF ISocket, New, Starting
<1>10. IStop'
  BY <1>1, <1>2, <1>3 DEF IStop
<1>11. IPhase'
  BY <1>1, <1>2, <1>3 DEF IPhase
<1>12. IListener'
  BY <1>1, <1>2, <1>3 DEF IListener
<1>13. IFree'
  BY <1>1, <1>2 DEF IFree, InFree
<1>14. ISeen'
  BY <1>1, <1>2, <1>3 DEF ISeen, NobodyWaitsUnseen
<1>15. IFlags'
  BY <1>2 DEF IFlags
<1> QED
  BY <1>4, <1>5, <1>6, <1>7, <1>8, <1>9, <1>10, <1>11, <1>12, <1>13, <1>14,
     <1>15

LEMMA RunClosedListenerKeeps ==
  ASSUME IInv, RunClosedListener
  PROVE  IInv'
<1> USE DEF IInv
<1>1. /\ run.at = "closing-listener"
      /\ listener = "closed"
      /\ RunTo("look")
  BY DEF RunClosedListener
<1>2. UNCHANGED <<program, phase, stopping, listenerClosed, done, freed, active,
                  connections, stopClosed, idle, memory, listener, tcp, serve,
                  keep, call, late, begun, missed>>
  BY DEF RunClosedListener, lifecycle, registry, native, history, ofRun
<1>3. /\ run'.at = "look" /\ run'.with = run.with /\ run'.forced = run.forced
      /\ run' \in [at : RunPlaces, with : Connections \cup {None}, forced : BOOLEAN]
  BY <1>1, RunMoves DEF RunPlaces
<1>4. ICount'
  BY <1>1, <1>2, <1>3, CountStays
<1>5. TypeOK'
  BY <1>2, <1>3 DEF TypeOK
<1>6. IRoom'
  BY <1>2, <1>3 DEF IRoom
<1>7. INew'
  BY <1>3 DEF INew, Starting
<1>8. IMemory'
  BY <1>1, <1>2, <1>3 DEF IMemory, New, Starting
<1>9. ISocket'
  BY <1>1, <1>2, <1>3 DEF ISocket, New, Starting
<1>10. IStop'
  BY <1>1, <1>2, <1>3 DEF IStop
<1>11. IPhase'
  BY <1>1, <1>2, <1>3 DEF IPhase
<1>12. IListener'
  BY <1>1, <1>2 DEF IListener
<1>13. IFree'
  BY <1>1, <1>2 DEF IFree, InFree
<1>14. ISeen'
  BY <1>1, <1>2, <1>3 DEF ISeen, NobodyWaitsUnseen
<1>15. IFlags'
  BY <1>2 DEF IFlags
<1> QED
  BY <1>4, <1>5, <1>6, <1>7, <1>8, <1>9, <1>10, <1>11, <1>12, <1>13, <1>14,
     <1>15

LEMMA RunLooksKeeps ==
  ASSUME IInv, RunLooks
  PROVE  IInv'
<1> USE DEF IInv
<1>1. /\ run.at = "look"
      /\ \/ \E c \in Victims : stopClosed' = stopClosed \cup {c} /\ RunWith("close", c)
         \/ Victims = {} /\ stopClosed' = stopClosed /\ RunWith("active?", None)
  BY DEF RunLooks
<1>2. UNCHANGED <<program, phase, stopping, listenerClosed, done, freed, active,
                  connections, idle, memory, listener, tcp, serve, keep, call,
                  late, begun, missed>>
  BY DEF RunLooks, lifecycle, native, history, ofRun
<1>3. /\ run'.forced = run.forced
      /\ run' \in [at : RunPlaces, with : Connections \cup {None}, forced : BOOLEAN]
      /\ \/ /\ run'.at = "close"
            /\ run'.with \in connections
            /\ stopClosed' = stopClosed \cup {run'.with}
            /\ run.forced \/ run'.with \in idle
         \/ Victims = {} /\ run'.at = "active?" /\ run'.with = None /\ stopClosed' = stopClosed
  <2>1. CASE \E c \in Victims : stopClosed' = stopClosed \cup {c} /\ RunWith("close", c)
    <3>1. PICK c \in Victims : stopClosed' = stopClosed \cup {c} /\ RunWith("close", c)
      BY <2>1
    <3>2. c \in Connections /\ c \in connections /\ (run.forced \/ c \in idle)
      BY DEF TypeOK, Victims
    <3> QED
      BY <3>1, <3>2, RunMoves DEF RunPlaces
  <2>2. CASE Victims = {} /\ stopClosed' = stopClosed /\ RunWith("active?", None)
    BY <2>2, RunMoves DEF RunPlaces
  <2> QED
    BY <1>1, <2>1, <2>2
<1>4. ICount'
  BY <1>1, <1>2, <1>3, CountStays
<1>5. TypeOK'
  BY <1>2, <1>3 DEF TypeOK
<1>6. IRoom'
  BY <1>2, <1>3 DEF IRoom
<1>7. INew'
  BY <1>3 DEF INew, Starting, TypeOK
<1>8. IMemory'
  BY <1>1, <1>2, <1>3 DEF IMemory, New, Starting
<1>9. ISocket'
  BY <1>1, <1>2, <1>3 DEF ISocket, New, Starting
<1>10. IFlags'
  BY <1>1, <1>2, <1>3 DEF IFlags, TypeOK, IMemory
<1>11. IStop'
  BY <1>1, <1>2, <1>3 DEF IStop
<1>12. IPhase'
  BY <1>1, <1>2, <1>3 DEF IPhase
<1>13. IListener'
  BY <1>1, <1>2 DEF IListener
<1>14. IFree'
  BY <1>1, <1>2 DEF IFree, InFree
<1>15. ISeen'
  BY <1>1, <1>2, <1>3 DEF ISeen, NobodyWaitsUnseen, IFlags, IMemory, Victims
<1> QED
  BY <1>4, <1>5, <1>6, <1>7, <1>8, <1>9, <1>10, <1>11, <1>12, <1>13, <1>14,
     <1>15

LEMMA RunClosesKeeps ==
  ASSUME IInv, RunCloses
  PROVE  IInv'
<1> USE DEF IInv
<1>1. /\ run.at = "close"
      /\ \/ /\ tcp[run.with] = "open"
            /\ tcp' = [tcp EXCEPT ![run.with] = "closing"]
            /\ RunTo("closing")
         \/ tcp[run.with] # "open" /\ tcp' = tcp /\ RunTo("look")
  BY DEF RunCloses, TcpClose, TcpCloseReturns
<1>2. UNCHANGED <<program, phase, stopping, listenerClosed, done, freed, active,
                  connections, stopClosed, idle, memory, listener, serve, keep,
                  call, late, begun, missed>>
  BY DEF RunCloses, lifecycle, registry, history, ofRun
<1>3. run.with \in Connections
  BY <1>1 DEF INew
<1>4. /\ run'.with = run.with /\ run'.forced = run.forced
      /\ run' \in [at : RunPlaces, with : Connections \cup {None}, forced : BOOLEAN]
      /\ tcp' \in [Connections -> {"open", "closing", "closed"}]
      /\ \A d \in Connections \ {run.with} : tcp'[d] = tcp[d]
      /\ \/ tcp[run.with] = "open" /\ tcp'[run.with] = "closing" /\ run'.at = "closing"
         \/ tcp[run.with] # "open" /\ tcp' = tcp /\ run'.at = "look"
  <2>1. CASE tcp[run.with] # "open" /\ tcp' = tcp /\ RunTo("look")
    BY <2>1, RunMoves DEF RunPlaces, TypeOK
  <2>2. CASE tcp[run.with] = "open" /\ tcp' = [tcp EXCEPT ![run.with] = "closing"]
             /\ RunTo("closing")
    BY <2>2, <1>3, RunMoves, SocketMoves DEF RunPlaces
  <2> QED
    BY <1>1, <2>1, <2>2
<1>5. ICount'
  BY <1>1, <1>2, <1>4, CountStays
<1>6. TypeOK'
  BY <1>2, <1>4 DEF TypeOK
<1>7. IRoom'
  BY <1>2, <1>4 DEF IRoom
<1>8. INew'
  BY <1>3, <1>4 DEF INew, Starting
<1>9. IMemory'
  BY <1>1, <1>2, <1>4 DEF IMemory, New, Starting
<1>10. ISocket'
  BY <1>1, <1>2, <1>4 DEF ISocket, New, Starting
<1>11. IStop'
  BY <1>1, <1>2, <1>4 DEF IStop
<1>12. IPhase'
  BY <1>1, <1>2, <1>4 DEF IPhase
<1>13. IListener'
  BY <1>1, <1>2 DEF IListener
<1>14. IFree'
  BY <1>1, <1>2 DEF IFree, InFree
<1>15. ISeen'
  BY <1>2, <1>4 DEF ISeen, NobodyWaitsUnseen, TypeOK
<1>16. IFlags'
  BY <1>2 DEF IFlags
<1> QED
  BY <1>5, <1>6, <1>7, <1>8, <1>9, <1>10, <1>11, <1>12, <1>13, <1>14, <1>15,
     <1>16

LEMMA RunClosedKeeps ==
  ASSUME IInv, RunClosed
  PROVE  IInv'
<1> USE DEF IInv
<1>1. /\ run.at = "closing"
      /\ tcp[run.with] = "closed"
      /\ RunTo("look")
  BY DEF RunClosed
<1>2. UNCHANGED <<program, phase, stopping, listenerClosed, done, freed, active,
                  connections, stopClosed, idle, memory, listener, tcp, serve,
                  keep, call, late, begun, missed>>
  BY DEF RunClosed, lifecycle, registry, native, history, ofRun
<1>3. run.with \in Connections
  BY <1>1 DEF INew
<1>4. /\ run'.at = "look" /\ run'.with = run.with /\ run'.forced = run.forced
      /\ run' \in [at : RunPlaces, with : Connections \cup {None}, forced : BOOLEAN]
  BY <1>1, RunMoves DEF RunPlaces
<1>5. ICount'
  BY <1>1, <1>2, <1>4, CountStays
<1>6. TypeOK'
  BY <1>2, <1>4 DEF TypeOK
<1>7. IRoom'
  BY <1>2, <1>4 DEF IRoom
<1>8. INew'
  BY <1>4 DEF INew, Starting
<1>9. IMemory'
  BY <1>1, <1>2, <1>4 DEF IMemory, New, Starting
<1>10. ISocket'
  BY <1>1, <1>2, <1>4 DEF ISocket, New, Starting
<1>11. IStop'
  BY <1>1, <1>2, <1>4 DEF IStop
<1>12. IPhase'
  BY <1>1, <1>2, <1>4 DEF IPhase
<1>13. IListener'
  BY <1>1, <1>2 DEF IListener
<1>14. IFree'
  BY <1>1, <1>2 DEF IFree, InFree
<1>15. ISeen'
  BY <1>1, <1>2, <1>4 DEF ISeen, NobodyWaitsUnseen
<1>16. IFlags'
  BY <1>2 DEF IFlags
<1> QED
  BY <1>5, <1>6, <1>7, <1>8, <1>9, <1>10, <1>11, <1>12, <1>13, <1>14, <1>15,
     <1>16

LEMMA RunCountsKeeps ==
  ASSUME IInv, RunCounts
  PROVE  IInv'
<1> USE DEF IInv
<1>1. /\ run.at = "active?"
      /\ RunTo(IF Drained THEN "finish" ELSE "deadline?")
  BY DEF RunCounts
<1>2. UNCHANGED <<program, phase, stopping, listenerClosed, done, freed, active,
                  connections, stopClosed, idle, memory, listener, tcp, serve,
                  keep, call, late, begun, missed>>
  BY DEF RunCounts, lifecycle, registry, native, history, ofRun
<1>3. /\ run'.at = (IF Drained THEN "finish" ELSE "deadline?") /\ run'.with = run.with
      /\ run'.forced = run.forced
      /\ run' \in [at : RunPlaces, with : Connections \cup {None}, forced : BOOLEAN]
  BY <1>1, RunMoves DEF RunPlaces
<1>4. ICount'
  BY <1>1, <1>2, <1>3, CountStays
<1>5. TypeOK'
  BY <1>2, <1>3 DEF TypeOK
<1>6. IRoom'
  BY <1>2, <1>3 DEF IRoom
<1>7. INew'
  BY <1>3 DEF INew, Starting
<1>8. IMemory'
  BY <1>1, <1>2, <1>3 DEF IMemory, New, Starting
<1>9. ISocket'
  BY <1>1, <1>2, <1>3 DEF ISocket, New, Starting
<1>10. IStop'
  BY <1>1, <1>2, <1>3 DEF IStop, Drained
<1>11. IPhase'
  BY <1>1, <1>2, <1>3 DEF IPhase
<1>12. IListener'
  BY <1>1, <1>2 DEF IListener
<1>13. IFree'
  BY <1>1, <1>2 DEF IFree, InFree
<1>14. ISeen'
  BY <1>1, <1>2 DEF ISeen, NobodyWaitsUnseen
<1>15. IFlags'
  BY <1>2 DEF IFlags
<1> QED
  BY <1>4, <1>5, <1>6, <1>7, <1>8, <1>9, <1>10, <1>11, <1>12, <1>13, <1>14,
     <1>15

LEMMA RunForcesKeeps ==
  ASSUME IInv, RunForces
  PROVE  IInv'
<1> USE DEF IInv
<1>1. /\ run.at = "deadline?"
      /\ run' = [run EXCEPT !.at = "look", !.forced = @ \/ late]
  BY DEF RunForces
<1>2. UNCHANGED <<program, phase, stopping, listenerClosed, done, freed, active,
                  connections, stopClosed, idle, memory, listener, tcp, serve,
                  keep, call, late, begun, missed>>
  BY DEF RunForces, lifecycle, registry, native, history, ofRun
<1>3. /\ run'.at = "look" /\ run'.with = run.with /\ run'.forced = (run.forced \/ late)
      /\ run' \in [at : RunPlaces, with : Connections \cup {None}, forced : BOOLEAN]
  BY <1>1 DEF TypeOK, RunPlaces
<1>4. ICount'
  BY <1>1, <1>2, CountStays
<1>5. TypeOK'
  BY <1>2, <1>3 DEF TypeOK
<1>6. IRoom'
  BY <1>2, <1>3 DEF IRoom
<1>7. INew'
  BY <1>3 DEF INew, Starting
<1>8. IMemory'
  BY <1>1, <1>2 DEF IMemory, New, Starting
<1>9. ISocket'
  BY <1>1, <1>2 DEF ISocket, New, Starting
<1>10. IStop'
  BY <1>1, <1>2, <1>3 DEF IStop
<1>11. IPhase'
  BY <1>1, <1>2 DEF IPhase
<1>12. IListener'
  BY <1>1, <1>2 DEF IListener
<1>13. IFree'
  BY <1>1, <1>2 DEF IFree, InFree
<1>14. ISeen'
  BY <1>1, <1>2 DEF ISeen, NobodyWaitsUnseen
<1>15. IFlags'
  BY <1>2 DEF IFlags
<1> QED
  BY <1>4, <1>5, <1>6, <1>7, <1>8, <1>9, <1>10, <1>11, <1>12, <1>13, <1>14,
     <1>15

LEMMA RunFinishesKeeps ==
  ASSUME IInv, RunFinishes
  PROVE  IInv'
<1> USE DEF IInv
<1>1. /\ run.at = "finish"
      /\ phase' = "done"
      /\ RunTo("announce")
  BY DEF RunFinishes
<1>2. UNCHANGED <<program, stopping, listenerClosed, done, freed, active,
                  connections, stopClosed, idle, memory, listener, tcp, serve,
                  keep, call, late, begun, missed>>
  BY DEF RunFinishes, registry, native, history, ofRun
<1>3. /\ run'.at = "announce" /\ run'.with = run.with /\ run'.forced = run.forced
      /\ run' \in [at : RunPlaces, with : Connections \cup {None}, forced : BOOLEAN]
  BY <1>1, RunMoves DEF RunPlaces
<1>4. ICount'
  BY <1>1, <1>2, <1>3, CountStays
<1>5. TypeOK'
  BY <1>1, <1>2, <1>3 DEF TypeOK
<1>6. IRoom'
  BY <1>2, <1>3 DEF IRoom
<1>7. INew'
  BY <1>3 DEF INew, Starting
<1>8. IMemory'
  BY <1>1, <1>2, <1>3 DEF IMemory, New, Starting
<1>9. ISocket'
  BY <1>1, <1>2, <1>3 DEF ISocket, New, Starting
<1>10. IStop'
  BY <1>1, <1>2, <1>3 DEF IStop
<1>11. IPhase'
  BY <1>1, <1>2, <1>3 DEF IPhase
<1>12. IListener'
  BY <1>1, <1>2 DEF IListener
<1>13. IFree'
  BY <1>1, <1>2 DEF IFree, InFree
<1>14. ISeen'
  BY <1>1, <1>2, <1>3 DEF ISeen, NobodyWaitsUnseen
<1>15. IFlags'
  BY <1>2 DEF IFlags
<1> QED
  BY <1>4, <1>5, <1>6, <1>7, <1>8, <1>9, <1>10, <1>11, <1>12, <1>13, <1>14,
     <1>15

LEMMA RunAnnouncesKeeps ==
  ASSUME IInv, RunAnnounces
  PROVE  IInv'
<1> USE DEF IInv
<1>1. /\ run.at = "announce"
      /\ done' = TRUE
      /\ RunTo("returned")
  BY DEF RunAnnounces
<1>2. UNCHANGED <<program, phase, stopping, listenerClosed, freed, active,
                  connections, stopClosed, idle, memory, listener, tcp, serve,
                  keep, call, late, begun, missed>>
  BY DEF RunAnnounces, registry, native, history, ofRun
<1>3. /\ run'.at = "returned" /\ run'.with = run.with /\ run'.forced = run.forced
      /\ run' \in [at : RunPlaces, with : Connections \cup {None}, forced : BOOLEAN]
  BY <1>1, RunMoves DEF RunPlaces
<1>4. ICount'
  BY <1>1, <1>2, <1>3, CountStays
<1>5. TypeOK'
  BY <1>1, <1>2, <1>3 DEF TypeOK
<1>6. IRoom'
  BY <1>2, <1>3 DEF IRoom
<1>7. INew'
  BY <1>3 DEF INew, Starting
<1>8. IMemory'
  BY <1>1, <1>2, <1>3 DEF IMemory, New, Starting
<1>9. ISocket'
  BY <1>1, <1>2, <1>3 DEF ISocket, New, Starting
<1>10. IStop'
  BY <1>1, <1>2, <1>3 DEF IStop
<1>11. IPhase'
  BY <1>1, <1>2, <1>3 DEF IPhase
<1>12. IListener'
  BY <1>1, <1>2 DEF IListener
<1>13. IFree'
  BY <1>2, <1>3 DEF IFree, InFree
<1>14. ISeen'
  BY <1>1, <1>2, <1>3 DEF ISeen, NobodyWaitsUnseen
<1>15. IFlags'
  BY <1>2 DEF IFlags
<1> QED
  BY <1>4, <1>5, <1>6, <1>7, <1>8, <1>9, <1>10, <1>11, <1>12, <1>13, <1>14,
     <1>15

\* The Task of a connection, from a request to the next and to its end.
LEMMA GoesIdleKeeps ==
  ASSUME IInv, NEW c \in Connections, GoesIdle(c)
  PROVE  IInv'
<1> USE DEF IInv
<1>1. /\ serve[c] = "start"
      /\ idle' = idle \cup {c}
      /\ ServeTo(c, "stopping?")
  BY DEF GoesIdle
<1>2. UNCHANGED <<program, phase, stopping, listenerClosed, done, freed, active,
                  connections, stopClosed, memory, listener, tcp, run, keep,
                  call, late, begun, missed>>
  BY DEF GoesIdle, lifecycle, registry, history, ofServe
<1>3. /\ serve'[c] = "stopping?" /\ \A d \in Connections \ {c} : serve'[d] = serve[d]
      /\ serve' \in [Connections -> ServePlaces]
  BY <1>1, ServeMoves DEF ServePlaces
<1>4. ICount'
  BY <1>1, <1>2, <1>3, CountStays
<1>5. TypeOK'
  BY <1>1, <1>2, <1>3 DEF TypeOK
<1>6. INew'
  BY <1>1, <1>2, <1>3 DEF INew
<1>7. IMemory'
  BY <1>1, <1>2, <1>3 DEF IMemory, New
<1>8. ISocket'
  BY <1>1, <1>2, <1>3 DEF ISocket, New
<1>9. IFlags'
  BY <1>1, <1>2, <1>3 DEF IFlags, TypeOK
<1>10. ISeen'
  BY <1>2, <1>3 DEF ISeen, NobodyWaitsUnseen
<1>11. IRoom' /\ IStop' /\ IPhase' /\ IListener' /\ IFree'
  BY <1>2 DEF IRoom, IStop, IPhase, IListener, IFree, InFree
<1> QED
  BY <1>4, <1>5, <1>6, <1>7, <1>8, <1>9, <1>10, <1>11

LEMMA ChecksStopKeeps ==
  ASSUME IInv, NEW c \in Connections, ChecksStop(c)
  PROVE  IInv'
<1> USE DEF IInv
<1>1. /\ serve[c] = "stopping?"
      /\ ServeTo(c, IF stopping THEN "leave" ELSE "reading")
  BY DEF ChecksStop
<1>2. UNCHANGED <<program, phase, stopping, listenerClosed, done, freed, active,
                  connections, stopClosed, idle, memory, listener, tcp, run,
                  keep, call, late, begun, missed>>
  BY DEF ChecksStop, lifecycle, registry, history, ofServe
<1>3. /\ serve'[c] = (IF stopping THEN "leave" ELSE "reading")
      /\ \A d \in Connections \ {c} : serve'[d] = serve[d]
      /\ serve' \in [Connections -> ServePlaces]
  BY <1>1, ServeMoves DEF ServePlaces
<1>4. ICount'
  BY <1>1, <1>2, <1>3, CountStays
<1>5. TypeOK'
  BY <1>2, <1>3 DEF TypeOK
<1>6. INew'
  BY <1>1, <1>2, <1>3 DEF INew
<1>7. IMemory'
  BY <1>1, <1>2, <1>3 DEF IMemory, New
<1>8. ISocket'
  BY <1>1, <1>2, <1>3 DEF ISocket, New
<1>9. IFlags'
  BY <1>1, <1>2, <1>3 DEF IFlags, TypeOK
<1>10. ISeen'
  BY <1>2, <1>3 DEF ISeen, NobodyWaitsUnseen, IStop
<1>11. IRoom' /\ IStop' /\ IPhase' /\ IListener' /\ IFree'
  BY <1>2 DEF IRoom, IStop, IPhase, IListener, IFree, InFree
<1> QED
  BY <1>4, <1>5, <1>6, <1>7, <1>8, <1>9, <1>10, <1>11

LEMMA ReadReturnsKeeps ==
  ASSUME IInv, NEW c \in Connections, ReadReturns(c)
  PROVE  IInv'
<1> USE DEF IInv
<1>1. /\ serve[c] = "reading"
      /\ ServeTo(c, "got") \/ ServeTo(c, "leave")
  BY DEF ReadReturns
<1>2. UNCHANGED <<program, phase, stopping, listenerClosed, done, freed, active,
                  connections, stopClosed, idle, memory, listener, tcp, run,
                  keep, call, late, begun, missed>>
  BY DEF ReadReturns, lifecycle, registry, history, ofServe
<1>3. /\ serve'[c] \in {"got", "leave"} /\ \A d \in Connections \ {c} : serve'[d] = serve[d]
      /\ serve' \in [Connections -> ServePlaces]
  BY <1>1, ServeMoves DEF ServePlaces
<1>4. ICount'
  BY <1>1, <1>2, <1>3, CountStays
<1>5. TypeOK'
  BY <1>2, <1>3 DEF TypeOK
<1>6. INew'
  BY <1>1, <1>2, <1>3 DEF INew
<1>7. IMemory'
  BY <1>1, <1>2, <1>3 DEF IMemory, New
<1>8. ISocket'
  BY <1>1, <1>2, <1>3 DEF ISocket, New
<1>9. IFlags'
  BY <1>1, <1>2, <1>3 DEF IFlags, TypeOK
<1>10. ISeen'
  BY <1>2, <1>3 DEF ISeen, NobodyWaitsUnseen
<1>11. IRoom' /\ IStop' /\ IPhase' /\ IListener' /\ IFree'
  BY <1>2 DEF IRoom, IStop, IPhase, IListener, IFree, InFree
<1> QED
  BY <1>4, <1>5, <1>6, <1>7, <1>8, <1>9, <1>10, <1>11

LEMMA ClearsIdleKeeps ==
  ASSUME IInv, NEW c \in Connections, ClearsIdle(c)
  PROVE  IInv'
<1> USE DEF IInv
<1>1. /\ serve[c] \in {"got", "leave"}
      /\ idle' = idle \ {c}
      /\ ServeTo(c, IF serve[c] = "got" THEN "head" ELSE "close")
  BY DEF ClearsIdle
<1>2. UNCHANGED <<program, phase, stopping, listenerClosed, done, freed, active,
                  connections, stopClosed, memory, listener, tcp, run, keep,
                  call, late, begun, missed>>
  BY DEF ClearsIdle, lifecycle, registry, history, ofServe
<1>3. /\ serve'[c] = (IF serve[c] = "got" THEN "head" ELSE "close")
      /\ \A d \in Connections \ {c} : serve'[d] = serve[d]
      /\ serve' \in [Connections -> ServePlaces]
  BY <1>1, ServeMoves DEF ServePlaces
<1>4. ICount'
  BY <1>1, <1>2, <1>3, CountStays
<1>5. TypeOK'
  BY <1>1, <1>2, <1>3 DEF TypeOK
<1>6. INew'
  BY <1>1, <1>2, <1>3 DEF INew
<1>7. IMemory'
  BY <1>1, <1>2, <1>3 DEF IMemory, New
<1>8. ISocket'
  BY <1>1, <1>2, <1>3 DEF ISocket, New
<1>9. IFlags'
  BY <1>1, <1>2, <1>3 DEF IFlags, TypeOK
<1>10. ISeen'
  BY <1>2, <1>3 DEF ISeen, NobodyWaitsUnseen
<1>11. IRoom' /\ IStop' /\ IPhase' /\ IListener' /\ IFree'
  BY <1>2 DEF IRoom, IStop, IPhase, IListener, IFree, InFree
<1> QED
  BY <1>4, <1>5, <1>6, <1>7, <1>8, <1>9, <1>10, <1>11

LEMMA HeadEndsKeeps ==
  ASSUME IInv, NEW c \in Connections, HeadEnds(c)
  PROVE  IInv'
<1> USE DEF IInv
<1>1. /\ serve[c] = "head"
      /\ \/ /\ keep' = keep \/ keep' = keep \cup {c}
            /\ begun' = begun /\ ServeTo(c, "handling")
         \/ keep' = keep /\ begun' = begun \ {c} /\ ServeTo(c, "close")
  BY DEF HeadEnds
<1>2. UNCHANGED <<program, phase, stopping, listenerClosed, done, freed, active,
                  connections, stopClosed, idle, memory, listener, tcp, run,
                  call, late, missed>>
  BY DEF HeadEnds, lifecycle, registry, ofServe
<1>3. /\ \A d \in Connections \ {c} : serve'[d] = serve[d]
      /\ serve' \in [Connections -> ServePlaces]
      /\ \/ serve'[c] = "handling" /\ begun' = begun
         \/ serve'[c] = "close" /\ begun' = begun \ {c}
  BY <1>1, ServeMoves DEF ServePlaces
<1>4. ICount'
  BY <1>1, <1>2, <1>3, CountStays
<1>5. TypeOK'
  BY <1>1, <1>2, <1>3 DEF TypeOK
<1>6. INew'
  BY <1>1, <1>2, <1>3 DEF INew
<1>7. IMemory'
  BY <1>1, <1>2, <1>3 DEF IMemory, New
<1>8. ISocket'
  BY <1>1, <1>2, <1>3 DEF ISocket, New
<1>9. IFlags'
  BY <1>1, <1>2, <1>3 DEF IFlags, TypeOK
<1>10. IStop'
  BY <1>2, <1>3 DEF IStop
<1>11. ISeen'
  BY <1>2, <1>3 DEF ISeen, NobodyWaitsUnseen
<1>13. IRoom' /\ IPhase' /\ IListener' /\ IFree'
  BY <1>2 DEF IRoom, IPhase, IListener, IFree, InFree
<1> QED
  BY <1>4, <1>5, <1>6, <1>7, <1>8, <1>9, <1>10, <1>11, <1>13

LEMMA HandlerBlocksKeeps ==
  ASSUME IInv, NEW c \in Connections, HandlerBlocks(c)
  PROVE  IInv'
<1> USE DEF IInv
<1>1. /\ serve[c] = "handling"
      /\ ServeTo(c, "blocked")
  BY DEF HandlerBlocks
<1>2. UNCHANGED <<program, phase, stopping, listenerClosed, done, freed, active,
                  connections, stopClosed, idle, memory, listener, tcp, run,
                  keep, call, late, begun, missed>>
  BY DEF HandlerBlocks, lifecycle, registry, history, ofServe
<1>3. /\ serve'[c] = "blocked" /\ \A d \in Connections \ {c} : serve'[d] = serve[d]
      /\ serve' \in [Connections -> ServePlaces]
  BY <1>1, ServeMoves DEF ServePlaces
<1>4. ICount'
  BY <1>1, <1>2, <1>3, CountStays
<1>5. TypeOK'
  BY <1>2, <1>3 DEF TypeOK
<1>6. INew'
  BY <1>1, <1>2, <1>3 DEF INew
<1>7. IMemory'
  BY <1>1, <1>2, <1>3 DEF IMemory, New
<1>8. ISocket'
  BY <1>1, <1>2, <1>3 DEF ISocket, New
<1>9. IFlags'
  BY <1>1, <1>2, <1>3 DEF IFlags, TypeOK
<1>10. ISeen'
  BY <1>2, <1>3 DEF ISeen, NobodyWaitsUnseen
<1>11. IRoom' /\ IStop' /\ IPhase' /\ IListener' /\ IFree'
  BY <1>2 DEF IRoom, IStop, IPhase, IListener, IFree, InFree
<1> QED
  BY <1>4, <1>5, <1>6, <1>7, <1>8, <1>9, <1>10, <1>11

LEMMA HandlerGoesOnKeeps ==
  ASSUME IInv, NEW c \in Connections, HandlerGoesOn(c)
  PROVE  IInv'
<1> USE DEF IInv
<1>1. /\ serve[c] = "blocked"
      /\ ServeTo(c, "handling")
  BY DEF HandlerGoesOn
<1>2. UNCHANGED <<program, phase, stopping, listenerClosed, done, freed, active,
                  connections, stopClosed, idle, memory, listener, tcp, run,
                  keep, call, late, begun, missed>>
  BY DEF HandlerGoesOn, lifecycle, registry, history, ofServe
<1>3. /\ serve'[c] = "handling" /\ \A d \in Connections \ {c} : serve'[d] = serve[d]
      /\ serve' \in [Connections -> ServePlaces]
  BY <1>1, ServeMoves DEF ServePlaces
<1>4. ICount'
  BY <1>1, <1>2, <1>3, CountStays
<1>5. TypeOK'
  BY <1>2, <1>3 DEF TypeOK
<1>6. INew'
  BY <1>1, <1>2, <1>3 DEF INew
<1>7. IMemory'
  BY <1>1, <1>2, <1>3 DEF IMemory, New
<1>8. ISocket'
  BY <1>1, <1>2, <1>3 DEF ISocket, New
<1>9. IFlags'
  BY <1>1, <1>2, <1>3 DEF IFlags, TypeOK
<1>10. ISeen'
  BY <1>2, <1>3 DEF ISeen, NobodyWaitsUnseen
<1>11. IRoom' /\ IStop' /\ IPhase' /\ IListener' /\ IFree'
  BY <1>2 DEF IRoom, IStop, IPhase, IListener, IFree, InFree
<1> QED
  BY <1>4, <1>5, <1>6, <1>7, <1>8, <1>9, <1>10, <1>11

LEMMA HandlerReturnsKeeps ==
  ASSUME IInv, NEW c \in Connections, HandlerReturns(c)
  PROVE  IInv'
<1> USE DEF IInv
<1>1. /\ serve[c] = "handling"
      /\ keep' = keep \ {c}
      /\ begun' = begun \ {c}
      /\ \/ tcp[c] = "open" /\ ServeTo(c, "next")
         \/ ServeTo(c, "close")
  BY DEF HandlerReturns
<1>2. UNCHANGED <<program, phase, stopping, listenerClosed, done, freed, active,
                  connections, stopClosed, idle, memory, listener, tcp, run,
                  call, late, missed>>
  BY DEF HandlerReturns, lifecycle, registry, ofServe
<1>3. /\ \A d \in Connections \ {c} : serve'[d] = serve[d]
      /\ serve' \in [Connections -> ServePlaces]
      /\ serve'[c] \in {"next", "close"}
  BY <1>1, ServeMoves DEF ServePlaces
<1>4. ICount'
  BY <1>1, <1>2, <1>3, CountStays
<1>5. TypeOK'
  BY <1>1, <1>2, <1>3 DEF TypeOK
<1>6. INew'
  BY <1>1, <1>2, <1>3 DEF INew
<1>7. IMemory'
  BY <1>1, <1>2, <1>3 DEF IMemory, New
<1>8. ISocket'
  BY <1>1, <1>2, <1>3 DEF ISocket, New
<1>9. IFlags'
  BY <1>1, <1>2, <1>3 DEF IFlags, TypeOK
<1>10. IStop'
  BY <1>1, <1>2 DEF IStop
<1>11. ISeen'
  BY <1>2, <1>3 DEF ISeen, NobodyWaitsUnseen
<1>13. IRoom' /\ IPhase' /\ IListener' /\ IFree'
  BY <1>2 DEF IRoom, IPhase, IListener, IFree, InFree
<1> QED
  BY <1>4, <1>5, <1>6, <1>7, <1>8, <1>9, <1>10, <1>11, <1>13

LEMMA NextRequestKeeps ==
  ASSUME IInv, NEW c \in Connections, NextRequest(c)
  PROVE  IInv'
<1> USE DEF IInv
<1>1. /\ serve[c] = "next"
      /\ ServeTo(c, "start") \/ ServeTo(c, "head")
  BY DEF NextRequest
<1>2. UNCHANGED <<program, phase, stopping, listenerClosed, done, freed, active,
                  connections, stopClosed, idle, memory, listener, tcp, run,
                  keep, call, late, begun, missed>>
  BY DEF NextRequest, lifecycle, registry, history, ofServe
<1>3. /\ serve'[c] \in {"start", "head"} /\ \A d \in Connections \ {c} : serve'[d] = serve[d]
      /\ serve' \in [Connections -> ServePlaces]
  BY <1>1, ServeMoves DEF ServePlaces
<1>4. ICount'
  BY <1>1, <1>2, <1>3, CountStays
<1>5. TypeOK'
  BY <1>2, <1>3 DEF TypeOK
<1>6. INew'
  BY <1>1, <1>2, <1>3 DEF INew
<1>7. IMemory'
  BY <1>1, <1>2, <1>3 DEF IMemory, New
<1>8. ISocket'
  BY <1>1, <1>2, <1>3 DEF ISocket, New
<1>9. IFlags'
  BY <1>1, <1>2, <1>3 DEF IFlags, TypeOK
<1>10. ISeen'
  BY <1>2, <1>3 DEF ISeen, NobodyWaitsUnseen
<1>11. IRoom' /\ IStop' /\ IPhase' /\ IListener' /\ IFree'
  BY <1>2 DEF IRoom, IStop, IPhase, IListener, IFree, InFree
<1> QED
  BY <1>4, <1>5, <1>6, <1>7, <1>8, <1>9, <1>10, <1>11

LEMMA ClosesKeeps ==
  ASSUME IInv, NEW c \in Connections, Closes(c)
  PROVE  IInv'
<1> USE DEF IInv
<1>1. /\ serve[c] = "close"
      /\ \/ tcp[c] = "open" /\ tcp' = [tcp EXCEPT ![c] = "closing"] /\ ServeTo(c, "closing")
         \/ tcp[c] # "open" /\ tcp' = tcp /\ ServeTo(c, "unlink")
  BY DEF Closes, TcpClose, TcpCloseReturns
<1>2. UNCHANGED <<program, phase, stopping, listenerClosed, done, freed, active,
                  connections, stopClosed, idle, memory, listener, run, keep,
                  call, late, begun, missed>>
  BY DEF Closes, lifecycle, registry, history, ofServe
<1>3. /\ tcp' \in [Connections -> {"open", "closing", "closed"}]
      /\ serve' \in [Connections -> ServePlaces]
      /\ \A d \in Connections \ {c} : tcp'[d] = tcp[d] /\ serve'[d] = serve[d]
      /\ \/ tcp[c] = "open" /\ tcp'[c] = "closing" /\ serve'[c] = "closing"
         \/ tcp[c] # "open" /\ tcp' = tcp /\ serve'[c] = "unlink"
  <2>1. CASE tcp[c] # "open" /\ tcp' = tcp /\ ServeTo(c, "unlink")
    BY <2>1, ServeMoves DEF ServePlaces, TypeOK
  <2>2. CASE tcp[c] = "open" /\ tcp' = [tcp EXCEPT ![c] = "closing"] /\ ServeTo(c, "closing")
    BY <2>2, ServeMoves, SocketMoves DEF ServePlaces
  <2> QED
    BY <1>1, <2>1, <2>2
<1>4. ICount'
  BY <1>1, <1>2, <1>3, CountStays
<1>5. TypeOK'
  BY <1>2, <1>3 DEF TypeOK
<1>6. INew'
  BY <1>1, <1>2, <1>3 DEF INew
<1>7. IMemory'
  BY <1>1, <1>2, <1>3 DEF IMemory, New
<1>8. ISocket'
  BY <1>1, <1>2, <1>3 DEF ISocket, New, INew
<1>9. IFlags'
  BY <1>1, <1>2, <1>3 DEF IFlags, TypeOK
<1>10. ISeen'
  BY <1>2, <1>3 DEF ISeen, NobodyWaitsUnseen, TypeOK
<1>11. IRoom' /\ IStop' /\ IPhase' /\ IListener' /\ IFree'
  BY <1>2 DEF IRoom, IStop, IPhase, IListener, IFree, InFree
<1> QED
  BY <1>4, <1>5, <1>6, <1>7, <1>8, <1>9, <1>10, <1>11

LEMMA ClosedKeeps ==
  ASSUME IInv, NEW c \in Connections, Closed(c)
  PROVE  IInv'
<1> USE DEF IInv
<1>1. /\ serve[c] = "closing"
      /\ tcp[c] = "closed"
      /\ ServeTo(c, "unlink")
  BY DEF Closed
<1>2. UNCHANGED <<program, phase, stopping, listenerClosed, done, freed, active,
                  connections, stopClosed, idle, memory, listener, tcp, run,
                  keep, call, late, begun, missed>>
  BY DEF Closed, lifecycle, registry, history, ofServe
<1>3. /\ serve'[c] = "unlink" /\ \A d \in Connections \ {c} : serve'[d] = serve[d]
      /\ serve' \in [Connections -> ServePlaces]
  BY <1>1, ServeMoves DEF ServePlaces
<1>4. ICount'
  BY <1>1, <1>2, <1>3, CountStays
<1>5. TypeOK'
  BY <1>2, <1>3 DEF TypeOK
<1>6. INew'
  BY <1>1, <1>2, <1>3 DEF INew
<1>7. IMemory'
  BY <1>1, <1>2, <1>3 DEF IMemory, New
<1>8. ISocket'
  BY <1>1, <1>2, <1>3 DEF ISocket, New
<1>9. IFlags'
  BY <1>1, <1>2, <1>3 DEF IFlags, TypeOK
<1>10. ISeen'
  BY <1>2, <1>3 DEF ISeen, NobodyWaitsUnseen
<1>11. IRoom' /\ IStop' /\ IPhase' /\ IListener' /\ IFree'
  BY <1>2 DEF IRoom, IStop, IPhase, IListener, IFree, InFree
<1> QED
  BY <1>4, <1>5, <1>6, <1>7, <1>8, <1>9, <1>10, <1>11

LEMMA UnlinksKeeps ==
  ASSUME IInv, NEW c \in Connections, Unlinks(c)
  PROVE  IInv'
<1> USE DEF IInv
<1>1. /\ serve[c] = "unlink"
      /\ connections' = connections \ {c}
      /\ ServeTo(c, "free")
  BY DEF Unlinks
<1>2. UNCHANGED <<program, phase, stopping, listenerClosed, done, freed, active,
                  stopClosed, idle, memory, listener, tcp, run, keep, call,
                  late, begun, missed>>
  BY DEF Unlinks, lifecycle, history, ofServe
<1>3. /\ serve'[c] = "free" /\ \A d \in Connections \ {c} : serve'[d] = serve[d]
      /\ serve' \in [Connections -> ServePlaces]
  BY <1>1, ServeMoves DEF ServePlaces
<1>4. ICount'
  BY <1>1, <1>2, <1>3, CountStays
<1>5. TypeOK'
  BY <1>1, <1>2, <1>3 DEF TypeOK
<1>6. INew'
  BY <1>1, <1>2, <1>3 DEF INew
<1>7. IMemory'
  BY <1>1, <1>2, <1>3 DEF IMemory, New, INew
<1>8. ISocket'
  BY <1>1, <1>2, <1>3 DEF ISocket, New
<1>9. IFlags'
  BY <1>1, <1>2, <1>3 DEF IFlags, TypeOK
<1>10. ISeen'
  BY <1>2, <1>3 DEF ISeen, NobodyWaitsUnseen
<1>11. IRoom' /\ IStop' /\ IPhase' /\ IListener' /\ IFree'
  BY <1>2 DEF IRoom, IStop, IPhase, IListener, IFree, InFree
<1> QED
  BY <1>4, <1>5, <1>6, <1>7, <1>8, <1>9, <1>10, <1>11

LEMMA FreesKeeps ==
  ASSUME IInv, NEW c \in Connections, Frees(c)
  PROVE  IInv'
<1> USE DEF IInv
<1>1. /\ serve[c] = "free"
      /\ memory' = memory \ {c}
      /\ stopClosed' = stopClosed \ {c}
      /\ ServeTo(c, "return")
  BY DEF Frees
<1>2. UNCHANGED <<program, phase, stopping, listenerClosed, done, freed, active,
                  connections, idle, listener, tcp, run, keep, call, late,
                  begun, missed>>
  BY DEF Frees, lifecycle, history, ofServe
<1>3. /\ serve'[c] = "return" /\ \A d \in Connections \ {c} : serve'[d] = serve[d]
      /\ serve' \in [Connections -> ServePlaces]
  BY <1>1, ServeMoves DEF ServePlaces
<1>4. ICount'
  BY <1>1, <1>2, <1>3, CountStays
<1>5. TypeOK'
  BY <1>1, <1>2, <1>3 DEF TypeOK
<1>6. INew'
  BY <1>1, <1>2, <1>3 DEF INew
<1>7. IMemory'
  BY <1>1, <1>2, <1>3 DEF IMemory, New, INew
<1>8. ISocket'
  BY <1>1, <1>2, <1>3 DEF ISocket, New
<1>9. IFlags'
  BY <1>1, <1>2, <1>3 DEF IFlags, TypeOK
<1>10. IStop'
  BY <1>1, <1>2 DEF IStop
<1>11. ISeen'
  BY <1>1, <1>2, <1>3 DEF ISeen, NobodyWaitsUnseen
<1>13. IRoom' /\ IPhase' /\ IListener' /\ IFree'
  BY <1>2 DEF IRoom, IPhase, IListener, IFree, InFree
<1> QED
  BY <1>4, <1>5, <1>6, <1>7, <1>8, <1>9, <1>10, <1>11, <1>13

\* The last step of a Task counts it out; its storage is gone before.
LEMMA ReturnsKeeps ==
  ASSUME IInv, NEW c \in Connections, Returns(c)
  PROVE  IInv'
<1> USE DEF IInv
<1>1. /\ serve[c] = "return"
      /\ active' = active - 1
      /\ ServeTo(c, "none")
  BY DEF Returns
<1>2. UNCHANGED <<program, phase, stopping, listenerClosed, done, freed,
                  connections, stopClosed, idle, memory, listener, tcp, run,
                  keep, call, late, begun, missed>>
  BY DEF Returns, lifecycle, history, ofServe
<1>3. /\ serve'[c] = "none" /\ \A d \in Connections \ {c} : serve'[d] = serve[d]
      /\ serve' \in [Connections -> ServePlaces]
  BY <1>1, ServeMoves DEF ServePlaces
<1>4. ICount'
  <2>1. Counted' = Counted \ {c} /\ c \in Counted
    BY <1>1, <1>2, <1>3 DEF Counted, INew, Starting
  <2> QED
    BY <1>1, <2>1, CountedFacts, FS_RemoveElement DEF ICount
<1>5. TypeOK'
  BY <1>2, <1>3, <1>4, ActiveType DEF TypeOK
<1>6. IRoom'
  BY <1>1, <1>2, ServerAssumption DEF IRoom, TypeOK
<1>7. INew'
  BY <1>2, <1>3 DEF INew
<1>8. IMemory'
  BY <1>1, <1>2, <1>3 DEF IMemory, New
<1>9. ISocket'
  BY <1>1, <1>2, <1>3 DEF ISocket, New
<1>10. IFlags'
  BY <1>1, <1>2, <1>3 DEF IFlags, TypeOK
<1>11. IStop'
  BY <1>1, <1>2, Busy DEF IStop
<1>12. ISeen'
  BY <1>2, <1>3 DEF ISeen, NobodyWaitsUnseen
<1>13. IPhase' /\ IListener' /\ IFree'
  BY <1>2 DEF IPhase, IListener, IFree, InFree
<1> QED
  BY <1>4, <1>5, <1>6, <1>7, <1>8, <1>9, <1>10, <1>11, <1>12, <1>13

\* The callers: stop, wait and free.
LEMMA StopKeeps ==
  ASSUME IInv, NEW t \in Callers, Stop(t)
  PROVE  IInv'
<1> USE DEF IInv
<1>1. /\ call[t] = "none"
      /\ ~freed
      /\ stopping' = TRUE
      /\ begun' = IF stopping THEN begun ELSE InProgress
      /\ CallTo(t, "stop")
  BY DEF Stop, SetStopping
<1>2. UNCHANGED <<program, phase, listenerClosed, done, freed, active,
                  connections, stopClosed, idle, memory, listener, tcp, run,
                  serve, keep, late, missed>>
  BY DEF Stop, registry, ofConnections, ofCall
<1>3. /\ call'[t] = "stop" /\ \A u \in Callers \ {t} : call'[u] = call[u]
      /\ call' \in [Callers -> CallPlaces]
  BY <1>1, CallMoves DEF CallPlaces
<1>4. TypeOK'
  BY <1>1, <1>2, <1>3 DEF TypeOK, InProgress
<1>5. IFlags'
  BY <1>1, <1>2 DEF IFlags, InProgress
<1>6. IStop'
  BY <1>1, <1>2 DEF IStop
<1>7. IPhase'
  BY <1>2, <1>3 DEF IPhase
<1>8. IListener'
  BY <1>1, <1>2, <1>3 DEF IListener
<1>9. IFree'
  BY <1>1, <1>2, <1>3 DEF IFree, InFree
<1>11. ICount' /\ IRoom' /\ INew' /\ IMemory' /\ ISocket' /\ ISeen'
  BY <1>2
     DEF ICount, IRoom, INew, IMemory, ISocket, ISeen, Counted, New,
     NobodyWaitsUnseen
<1> QED
  BY <1>4, <1>5, <1>6, <1>7, <1>8, <1>9, <1>11

LEMMA CloseListenerKeeps ==
  ASSUME IInv, NEW t \in Callers, CloseListener(t)
  PROVE  IInv'
<1> USE DEF IInv
<1>1. /\ call[t] \in {"stop", "close-to-free"}
      /\ listenerClosed' = TRUE
      /\ IF listenerClosed
         THEN CallTo(t, IF call[t] = "stop" THEN "none" ELSE "dispose") /\ listener' = listener
         ELSE /\ CallTo(t, IF call[t] = "stop" THEN "closing" ELSE "closing-to-free")
              /\ listener' = "closing"
  BY DEF CloseListener
<1>2. UNCHANGED <<program, phase, stopping, done, freed, active, connections,
                  stopClosed, idle, memory, tcp, run, serve, keep, late, begun,
                  missed>>
  BY DEF CloseListener, registry, history, ofConnections, ofCall
<1>3. /\ call' \in [Callers -> CallPlaces] /\ \A u \in Callers \ {t} : call'[u] = call[u]
      /\ listener' = IF listenerClosed THEN listener ELSE "closing"
      /\ call'[t] = IF listenerClosed THEN IF call[t] = "stop" THEN "none" ELSE "dispose"
                    ELSE IF call[t] = "stop" THEN "closing" ELSE "closing-to-free"
  BY <1>1, CallMoves DEF CallPlaces
<1>4. TypeOK'
  BY <1>1, <1>2, <1>3 DEF TypeOK
<1>5. IPhase'
  BY <1>2, <1>3 DEF IPhase
<1>6. IListener'
  BY <1>1, <1>2, <1>3 DEF IListener
<1>7. IFree'
  BY <1>1, <1>2, <1>3 DEF IFree, InFree, TypeOK, IListener
<1>8. /\ ICount' /\ IRoom' /\ INew' /\ IMemory' /\ ISocket' /\ IFlags' /\ IStop' /\ ISeen'
  BY <1>2
     DEF ICount, IRoom, INew, IMemory, ISocket, IFlags, IStop, ISeen, Counted, New,
         NobodyWaitsUnseen
<1> QED
  BY <1>4, <1>5, <1>6, <1>7, <1>8

LEMMA ClosedListenerKeeps ==
  ASSUME IInv, NEW t \in Callers, ClosedListener(t)
  PROVE  IInv'
<1> USE DEF IInv
<1>1. /\ call[t] \in {"closing", "closing-to-free"}
      /\ listener = "closed"
      /\ CallTo(t, IF call[t] = "closing" THEN "none" ELSE "dispose")
  BY DEF ClosedListener
<1>2. UNCHANGED <<program, phase, stopping, listenerClosed, done, freed, active,
                  connections, stopClosed, idle, memory, listener, tcp, run,
                  serve, keep, late, begun, missed>>
  BY DEF ClosedListener, registry, history, ofConnections, ofCall
<1>3. /\ call'[t] = (IF call[t] = "closing" THEN "none" ELSE "dispose")
      /\ \A u \in Callers \ {t} : call'[u] = call[u]
      /\ call' \in [Callers -> CallPlaces]
  BY <1>1, CallMoves DEF CallPlaces
<1>4. TypeOK'
  BY <1>2, <1>3 DEF TypeOK
<1>5. IPhase'
  BY <1>1, <1>2, <1>3 DEF IPhase
<1>6. IListener'
  BY <1>1, <1>2 DEF IListener
<1>7. IFree'
  BY <1>1, <1>2, <1>3 DEF IFree, InFree, IListener
<1>8. /\ ICount' /\ IRoom' /\ INew' /\ IMemory' /\ ISocket' /\ IFlags' /\ IStop' /\ ISeen'
  BY <1>2
     DEF ICount, IRoom, INew, IMemory, ISocket, IFlags, IStop, ISeen, Counted, New,
         NobodyWaitsUnseen
<1> QED
  BY <1>4, <1>5, <1>6, <1>7, <1>8

LEMMA WaitKeeps ==
  ASSUME IInv, NEW t \in Callers, Wait(t)
  PROVE  IInv'
<1> USE DEF IInv
<1>1. /\ call[t] = "none"
      /\ ~freed
      /\ phase # "created"
      /\ CallTo(t, "receive")
  BY DEF Wait
<1>2. UNCHANGED <<program, phase, stopping, listenerClosed, done, freed, active,
                  connections, stopClosed, idle, memory, listener, tcp, run,
                  serve, keep, late, begun, missed>>
  BY DEF Wait, registry, history, ofConnections, ofCall
<1>3. /\ call'[t] = "receive" /\ \A u \in Callers \ {t} : call'[u] = call[u]
      /\ call' \in [Callers -> CallPlaces]
  BY <1>1, CallMoves DEF CallPlaces
<1>4. TypeOK'
  BY <1>2, <1>3 DEF TypeOK
<1>5. IPhase'
  BY <1>1, <1>2, <1>3 DEF IPhase
<1>6. IListener'
  BY <1>1, <1>2, <1>3 DEF IListener
<1>7. IFree'
  BY <1>1, <1>2, <1>3 DEF IFree, InFree
<1>8. /\ ICount' /\ IRoom' /\ INew' /\ IMemory' /\ ISocket' /\ IFlags' /\ IStop' /\ ISeen'
  BY <1>2
     DEF ICount, IRoom, INew, IMemory, ISocket, IFlags, IStop, ISeen, Counted, New,
         NobodyWaitsUnseen
<1> QED
  BY <1>4, <1>5, <1>6, <1>7, <1>8

LEMMA WaitReceivesKeeps ==
  ASSUME IInv, NEW t \in Callers, WaitReceives(t)
  PROVE  IInv'
<1> USE DEF IInv
<1>1. /\ call[t] = "receive"
      /\ done
      /\ CallTo(t, "result")
  BY DEF WaitReceives
<1>2. UNCHANGED <<program, phase, stopping, listenerClosed, done, freed, active,
                  connections, stopClosed, idle, memory, listener, tcp, run,
                  serve, keep, late, begun, missed>>
  BY DEF WaitReceives, registry, history, ofConnections, ofCall
<1>3. /\ call'[t] = "result" /\ \A u \in Callers \ {t} : call'[u] = call[u]
      /\ call' \in [Callers -> CallPlaces]
  BY <1>1, CallMoves DEF CallPlaces
<1>4. TypeOK'
  BY <1>2, <1>3 DEF TypeOK
<1>5. IPhase'
  BY <1>1, <1>2 DEF IPhase
<1>6. IListener'
  BY <1>1, <1>2, <1>3 DEF IListener
<1>7. IFree'
  BY <1>1, <1>2, <1>3 DEF IFree, InFree
<1>8. /\ ICount' /\ IRoom' /\ INew' /\ IMemory' /\ ISocket' /\ IFlags' /\ IStop' /\ ISeen'
  BY <1>2
     DEF ICount, IRoom, INew, IMemory, ISocket, IFlags, IStop, ISeen, Counted, New,
         NobodyWaitsUnseen
<1> QED
  BY <1>4, <1>5, <1>6, <1>7, <1>8

LEMMA WaitReturnsKeeps ==
  ASSUME IInv, NEW t \in Callers, WaitReturns(t)
  PROVE  IInv'
<1> USE DEF IInv
<1>1. /\ call[t] = "result"
      /\ CallTo(t, "none")
  BY DEF WaitReturns
<1>2. UNCHANGED <<program, phase, stopping, listenerClosed, done, freed, active,
                  connections, stopClosed, idle, memory, listener, tcp, run,
                  serve, keep, late, begun, missed>>
  BY DEF WaitReturns, registry, history, ofConnections, ofCall
<1>3. /\ call'[t] = "none" /\ \A u \in Callers \ {t} : call'[u] = call[u]
      /\ call' \in [Callers -> CallPlaces]
  BY <1>1, CallMoves DEF CallPlaces
<1>4. TypeOK'
  BY <1>1, <1>2, <1>3 DEF TypeOK
<1>5. IPhase'
  BY <1>1, <1>2 DEF IPhase
<1>6. IListener'
  BY <1>1, <1>2, <1>3 DEF IListener
<1>7. IFree'
  BY <1>2, <1>3 DEF IFree, InFree
<1>8. /\ ICount' /\ IRoom' /\ INew' /\ IMemory' /\ ISocket' /\ IFlags' /\ IStop' /\ ISeen'
  BY <1>2
     DEF ICount, IRoom, INew, IMemory, ISocket, IFlags, IStop, ISeen, Counted, New,
         NobodyWaitsUnseen
<1> QED
  BY <1>4, <1>5, <1>6, <1>7, <1>8

LEMMA FreeKeeps ==
  ASSUME IInv, NEW t \in Callers, Free(t)
  PROVE  IInv'
<1> USE DEF IInv
<1>1. /\ call[t] = "none"
      /\ ~freed /\ ~BesideFree
      /\ phase # "running"
      /\ CallTo(t, "close-to-free")
  BY DEF Free
<1>2. UNCHANGED <<program, phase, stopping, listenerClosed, done, freed, active,
                  connections, stopClosed, idle, memory, listener, tcp, run,
                  serve, keep, late, begun, missed>>
  BY DEF Free, registry, history, ofConnections, ofCall
<1>3. /\ call'[t] = "close-to-free" /\ \A u \in Callers \ {t} : call'[u] = call[u]
      /\ call' \in [Callers -> CallPlaces]
  BY <1>1, CallMoves DEF CallPlaces
<1>4. TypeOK'
  BY <1>2, <1>3 DEF TypeOK
<1>5. IPhase'
  BY <1>1, <1>2, <1>3 DEF IPhase
<1>6. IListener'
  BY <1>1, <1>2, <1>3 DEF IListener
<1>7. IFree'
  BY <1>1, <1>2, <1>3 DEF IFree, InFree, BesideFree, IPhase
<1>8. /\ ICount' /\ IRoom' /\ INew' /\ IMemory' /\ ISocket' /\ IFlags' /\ IStop' /\ ISeen'
  BY <1>2
     DEF ICount, IRoom, INew, IMemory, ISocket, IFlags, IStop, ISeen, Counted, New,
         NobodyWaitsUnseen
<1> QED
  BY <1>4, <1>5, <1>6, <1>7, <1>8

LEMMA FreeDisposesKeeps ==
  ASSUME IInv, NEW t \in Callers, FreeDisposes(t)
  PROVE  IInv'
<1> USE DEF IInv
<1>1. /\ call[t] = "dispose"
      /\ freed' = TRUE /\ done' = TRUE
      /\ CallTo(t, "none")
  BY DEF FreeDisposes
<1>2. UNCHANGED <<program, phase, stopping, listenerClosed, active,
                  connections, stopClosed, idle, memory, listener, tcp, run,
                  serve, keep, late, begun, missed>>
  BY DEF FreeDisposes, registry, history, ofConnections, ofCall
<1>3. /\ call'[t] = "none" /\ \A u \in Callers \ {t} : call'[u] = call[u]
      /\ call' \in [Callers -> CallPlaces]
  BY <1>1, CallMoves DEF CallPlaces
<1>4. TypeOK'
  BY <1>1, <1>2, <1>3 DEF TypeOK
<1>5. IPhase'
  BY <1>1, <1>2, <1>3 DEF IPhase
<1>6. IListener'
  BY <1>1, <1>2, <1>3 DEF IListener
<1>7. IFree'
  BY <1>1, <1>2, <1>3 DEF IFree, InFree
<1>8. /\ ICount' /\ IRoom' /\ INew' /\ IMemory' /\ ISocket' /\ IFlags' /\ IStop' /\ ISeen'
  BY <1>2
     DEF ICount, IRoom, INew, IMemory, ISocket, IFlags, IStop, ISeen, Counted, New,
         NobodyWaitsUnseen
<1> QED
  BY <1>4, <1>5, <1>6, <1>7, <1>8

\* The loop thread closes sockets, and the deadline passes.
LEMMA ListenerClosesKeeps ==
  ASSUME IInv, ListenerCloses
  PROVE  IInv'
<1> USE DEF IInv
<1>1. /\ listener = "closing"
      /\ listener' = "closed"
  BY DEF ListenerCloses
<1>2. UNCHANGED <<program, phase, stopping, listenerClosed, done, freed, active,
                  connections, stopClosed, idle, memory, tcp, run, serve, keep,
                  call, late, begun, missed>>
  BY DEF ListenerCloses, lifecycle, registry, history
<1>3. TypeOK'
  BY <1>1, <1>2 DEF TypeOK
<1>4. IListener'
  BY <1>1, <1>2 DEF IListener
<1>5. IFree'
  BY <1>1, <1>2 DEF IFree, InFree
<1>6. /\ ICount' /\ IRoom' /\ INew' /\ IMemory' /\ ISocket' /\ IFlags' /\ IStop' /\ IPhase'
      /\ ISeen'
  BY <1>2
     DEF ICount, IRoom, INew, IMemory, ISocket, IFlags, IStop, IPhase, ISeen, Counted,
         New, NobodyWaitsUnseen
<1> QED
  BY <1>3, <1>4, <1>5, <1>6

LEMMA TcpClosesKeeps ==
  ASSUME IInv, NEW c \in Connections, TcpCloses(c)
  PROVE  IInv'
<1> USE DEF IInv
<1>1. /\ tcp[c] = "closing"
      /\ tcp' = [tcp EXCEPT ![c] = "closed"]
  BY DEF TcpCloses
<1>2. UNCHANGED <<program, phase, stopping, listenerClosed, done, freed, active,
                  connections, stopClosed, idle, memory, listener, run, serve,
                  keep, call, late, begun, missed>>
  BY DEF TcpCloses, lifecycle, registry, history
<1>3. /\ tcp'[c] = "closed" /\ \A d \in Connections \ {c} : tcp'[d] = tcp[d]
      /\ tcp' \in [Connections -> {"open", "closing", "closed"}]
  BY <1>1, SocketMoves
<1>4. TypeOK'
  BY <1>2, <1>3 DEF TypeOK
<1>5. ISocket'
  BY <1>1, <1>2 DEF ISocket, New
<1>6. ISeen'
  BY <1>1, <1>2 DEF ISeen, NobodyWaitsUnseen
<1>7. /\ ICount' /\ IRoom' /\ INew' /\ IMemory' /\ IFlags' /\ IStop' /\ IPhase' /\ IListener'
      /\ IFree'
  BY <1>2
     DEF ICount, IRoom, INew, IMemory, IFlags, IStop, IPhase, IListener, IFree, Counted,
         New, InFree
<1> QED
  BY <1>4, <1>5, <1>6, <1>7

LEMMA DeadlinePassesKeeps ==
  ASSUME IInv, DeadlinePasses
  PROVE  IInv'
<1> USE DEF IInv
<1>1. /\ late' = TRUE
  BY DEF DeadlinePasses
<1>2. UNCHANGED <<program, phase, stopping, listenerClosed, done, freed, active,
                  connections, stopClosed, idle, memory, listener, tcp, run,
                  serve, keep, call, begun, missed>>
  BY DEF DeadlinePasses, lifecycle, registry, native, history
<1>3. TypeOK'
  BY <1>1, <1>2 DEF TypeOK
<1>4. IStop'
  BY <1>1, <1>2 DEF IStop
<1>6. /\ ICount' /\ IRoom' /\ INew' /\ IMemory' /\ ISocket' /\ IFlags' /\ IPhase'
      /\ IListener' /\ IFree' /\ ISeen'
  BY <1>2
     DEF ICount, IRoom, INew, IMemory, ISocket, IFlags, IPhase, IListener,
     IFree, ISeen, Counted, New, InFree, NobodyWaitsUnseen
<1> QED
  BY <1>3, <1>4, <1>6

\* A server before its run satisfies the invariant.
LEMMA InitHolds == Init => IInv
<1> SUFFICES ASSUME Init PROVE IInv
  OBVIOUS
<1>1. TypeOK
  <2>1. Cardinality(Connections) \in Nat
    BY ServerAssumption, FS_CardinalityType
  <2>2. run \in [at : RunPlaces, with : Connections \cup {None}, forced : BOOLEAN]
    BY DEF Init, RunPlaces
  <2>3. serve \in [Connections -> ServePlaces] /\ call \in [Callers -> CallPlaces]
    BY DEF Init, ServePlaces, CallPlaces
  <2>4. \A s \in {connections, stopClosed, idle, memory, keep, begun} : s \subseteq Connections
    BY DEF Init
  <2>5. tcp \in [Connections -> {"open", "closing", "closed"}]
    BY DEF Init
  <2>6. active \in 0..Cardinality(Connections) /\ listener \in {"open", "closing", "closed"}
    BY <2>1 DEF Init
  <2>7. /\ program \in Programs /\ phase \in {"created", "running", "done"}
        /\ stopping \in BOOLEAN /\ listenerClosed \in BOOLEAN /\ done \in BOOLEAN
        /\ late \in BOOLEAN /\ missed \in BOOLEAN /\ freed \in BOOLEAN
    BY DEF Init
  <2> QED
    BY <2>2, <2>3, <2>4, <2>5, <2>6, <2>7 DEF TypeOK
<1>2. Counted = {}
  BY DEF Init, Counted
<1>3. ICount
  BY <1>2, FS_EmptySet DEF Init, ICount
<1>4. IRoom
  BY ServerAssumption DEF Init, IRoom
<1>5. INew /\ IMemory
  BY DEF Init, INew, IMemory, Starting
<1>6. ISocket /\ IFlags /\ ISeen
  BY DEF Init, ISocket, IFlags, ISeen, NobodyWaitsUnseen, New, Starting
<1>7. IStop /\ IPhase
  BY DEF Init, IStop, IPhase
<1>8. IListener /\ IFree
  BY DEF Init, IListener, IFree, InFree
<1> QED
  BY <1>1, <1>3, <1>4, <1>5, <1>6, <1>7, <1>8 DEF IInv

\* A step is one of these, or changes nothing.
LEMMA StepKeeps == IInv /\ [Next]_vars => IInv'
<1> SUFFICES ASSUME IInv, [Next]_vars PROVE IInv'
  OBVIOUS
<1>1. CASE Run
  BY <1>1, RunKeeps
<1>2. CASE RunGoesOn \/ RunAcceptEnds
  BY <1>2, RunChecksStopKeeps, RunChecksRoomKeeps, RunAllocatesKeeps,
     RunRegistersKeeps, RunSpawnsKeeps, RunUnlinksKeeps, RunRejectsKeeps,
     RunRejectedKeeps, RunStopsKeeps, RunClosesListenerKeeps,
     RunClosedListenerKeeps, RunLooksKeeps, RunClosesKeeps, RunClosedKeeps,
     RunCountsKeeps, RunForcesKeeps, RunFinishesKeeps, RunAnnouncesKeeps,
     RunAcceptEndsKeeps
     DEF RunGoesOn
<1>3. ASSUME NEW c \in Connections,
             ServeGoesOn(c) \/ ReadReturns(c) \/ HandlerBlocks(c) \/ HandlerGoesOn(c)
               \/ HandlerReturns(c)
      PROVE  IInv'
  BY <1>3, GoesIdleKeeps, ChecksStopKeeps, ReadReturnsKeeps, ClearsIdleKeeps,
     HeadEndsKeeps, HandlerBlocksKeeps, HandlerGoesOnKeeps, HandlerReturnsKeeps,
     NextRequestKeeps, ClosesKeeps, ClosedKeeps, UnlinksKeeps, FreesKeeps,
     ReturnsKeeps
     DEF ServeGoesOn
<1>4. ASSUME NEW c \in Connections, RunAccepts(c) \/ TcpCloses(c)
      PROVE  IInv'
  BY <1>4, RunAcceptsKeeps, TcpClosesKeeps
<1>5. ASSUME NEW t \in Callers, Stop(t) \/ Wait(t) \/ Free(t) \/ CallGoesOn(t)
      PROVE  IInv'
  BY <1>5, StopKeeps, WaitKeeps, FreeKeeps, CloseListenerKeeps,
     ClosedListenerKeeps, WaitReceivesKeeps, WaitReturnsKeeps, FreeDisposesKeeps
     DEF CallGoesOn
<1>6. CASE ListenerCloses \/ DeadlinePasses
  BY <1>6, ListenerClosesKeeps, DeadlinePassesKeeps
<1>7. CASE UNCHANGED vars
  <2>1. UNCHANGED <<program, phase, stopping, listenerClosed, done, freed, active, connections,
                    stopClosed, idle, memory, listener, tcp, run, serve, keep, call, late, begun,
                    missed>>
    BY <1>7 DEF vars, lifecycle, registry, native, history
  <2> QED
    BY <2>1
       DEF IInv, TypeOK, ICount, Counted, IRoom, INew, IMemory, New, ISocket,
       IFlags, IStop, IPhase, IListener, IFree, InFree, ISeen,
       NobodyWaitsUnseen
<1> QED
  BY <1>1, <1>2, <1>3, <1>4, <1>5, <1>6, <1>7 DEF Next

\* The invariant holds for any number of connections and of Tasks that stop,
\* wait for and free the server (hex_http_server_run_raw, stop, wait, free).
THEOREM ServerInvariance == Spec => []IInv
BY InitHolds, StepKeeps, PTL DEF Spec

-----------------------------------------------------------------------------
\* Nobody is counted once the run is to finish, so nobody has a Task; and what
\* has no Task has neither storage nor an open socket.
LEMMA InvLeavesNothing == IInv => NothingOutlives
<1> SUFFICES ASSUME IInv PROVE NothingOutlives
  OBVIOUS
<1> USE DEF IInv
<1>1. ASSUME phase # "running"
      PROVE  /\ run.at \in {"none", "announce", "returned"}
             /\ connections = {} /\ memory = {}
             /\ \A c \in Connections : serve[c] = "none" /\ tcp[c] = "closed"
  <2>1. run.at \in {"none", "announce", "returned"} /\ active = 0
    BY <1>1 DEF IPhase, IStop, TypeOK
  <2>2. Counted = {}
    BY <2>1, CountedFacts, FS_EmptySet DEF ICount
  <2>3. \A c \in Connections : serve[c] = "none"
    BY <2>2 DEF Counted
  <2>4. \A c \in Connections : c \notin connections /\ c \notin memory
    BY <2>1, <2>3 DEF IMemory, New, Starting
  <2>5. \A c \in Connections : tcp[c] = "closed"
    BY <2>1, <2>3 DEF ISocket, New, Starting, TypeOK
  <2> QED
    BY <2>1, <2>3, <2>4, <2>5 DEF TypeOK
<1>2. \A t \in Callers : call[t] = "result" => phase = "done" \/ missed
  BY DEF IPhase, IFree, TypeOK
<1>3. ASSUME freed, ~missed
      PROVE  phase # "running" /\ (listener = "closed" \/ \E t \in Callers : call[t] = "closing")
  BY <1>3 DEF IFree, IListener, InFree, IPhase, TypeOK
<1> QED
  BY <1>1, <1>2, <1>3 DEF NothingOutlives

\* When the server is done no connection has a Task, storage or an open socket
\* left, a wait tells only of a server that is done, and the look at the phase
\* alone keeps free off every connection of the server, but for a run that begins
\* after it.
\* [hex_http_shutdown, hex_http_connection_entry, hex_http_server_free_raw]
THEOREM NothingIsLeft == Spec => []NothingOutlives
<1>1. IInv => NothingOutlives
  BY InvLeavesNothing
<1> QED
  BY <1>1, ServerInvariance, PTL

\* Who has storage is counted, or is the new connection that room was kept for.
LEMMA InvKeepsRoom == IInv => CeilingHolds
<1> SUFFICES ASSUME IInv PROVE CeilingHolds
  OBVIOUS
<1> USE DEF IInv
<1>1. /\ IsFiniteSet(Counted) /\ active = Cardinality(Counted) /\ active \in Nat
      /\ program.ceiling \in Nat /\ active <= program.ceiling
  BY CountedFacts, ServerAssumption DEF ICount, IRoom, TypeOK
<1>2. CASE memory \subseteq Counted
  <2>1. Cardinality(memory) <= active /\ Cardinality(memory) \in Nat
    BY <1>1, <1>2, FS_Subset, FS_CardinalityType
  <2> QED
    BY <1>1, <2>1 DEF CeilingHolds
<1>3. CASE ~(memory \subseteq Counted)
  <2>1. PICK c \in memory : c \notin Counted
    BY <1>3
  <2>2. c \in Connections /\ New(c) /\ run.at \in {"register", "reject", "rejecting"}
    BY <2>1 DEF TypeOK, IMemory, Counted, New, Starting
  <2>3. active < program.ceiling
    BY <2>2 DEF IRoom
  <2>4. memory \subseteq Counted \cup {run.with}
    BY DEF TypeOK, IMemory, Counted, New
  <2>5. run.with \notin Counted
    BY <2>1, <2>2 DEF New
  <2>6. IsFiniteSet(Counted \cup {run.with}) /\ Cardinality(Counted \cup {run.with}) = active + 1
    BY <1>1, <2>5, FS_AddElement
  <2>7. Cardinality(memory) <= active + 1 /\ Cardinality(memory) \in Nat
    BY <2>4, <2>6, FS_Subset, FS_CardinalityType
  <2> QED
    BY <1>1, <2>3, <2>7 DEF CeilingHolds
<1> QED
  BY <1>2, <1>3

\* The ceiling holds however starts, failed starts and ends of connections
\* interleave with accepts.  [hex_http_server_run_raw]
THEOREM CeilingIsKept == Spec => []CeilingHolds
<1>1. IInv => CeilingHolds
  BY InvKeepsRoom
<1> QED
  BY <1>1, ServerInvariance, PTL

\* Only the shutdown's look chooses connections to close.
LEMMA OnlyLooks ==
  ASSUME [Next]_vars, ~RunLooks
  PROVE  stopClosed' \subseteq stopClosed
<1>1. CASE Run
  BY <1>1 DEF Run, registry
<1>2. CASE RunGoesOn \/ RunAcceptEnds
  BY <1>2
     DEF RunGoesOn, RunChecksStop, RunChecksRoom, RunAllocates, RunRegisters,
     RunSpawns, RunUnlinks, RunRejects, RunRejected, RunStops, RunClosesListener,
     RunClosedListener, RunCloses, RunClosed, RunCounts, RunForces, RunFinishes,
     RunAnnounces, RunAcceptEnds, registry
<1>3. ASSUME NEW c \in Connections,
             ServeGoesOn(c) \/ ReadReturns(c) \/ HandlerBlocks(c) \/ HandlerGoesOn(c)
               \/ HandlerReturns(c) \/ RunAccepts(c) \/ TcpCloses(c)
      PROVE  stopClosed' \subseteq stopClosed
  BY <1>3
     DEF ServeGoesOn, GoesIdle, ChecksStop, ReadReturns, ClearsIdle, HeadEnds,
     HandlerBlocks, HandlerGoesOn, HandlerReturns, NextRequest, Closes, Closed,
     Unlinks, Frees, Returns, RunAccepts, TcpCloses, registry
<1>4. ASSUME NEW t \in Callers, Stop(t) \/ Wait(t) \/ Free(t) \/ CallGoesOn(t)
      PROVE  stopClosed' \subseteq stopClosed
  BY <1>4
     DEF Stop, Wait, Free, CallGoesOn, CloseListener, ClosedListener,
     WaitReceives, WaitReturns, FreeDisposes, ofCall, ofConnections, registry
<1>5. CASE ListenerCloses \/ DeadlinePasses
  BY <1>5 DEF ListenerCloses, DeadlinePasses, registry
<1>6. CASE UNCHANGED vars
  BY <1>6 DEF vars, registry
<1> QED
  BY <1>1, <1>2, <1>3, <1>4, <1>5, <1>6 DEF Next

\* The shutdown closes only connections that wait for a request, until the
\* deadline has passed, or whose idle flag is out of date because the request's
\* first bytes were read just now.
\* [hex_http_next_to_close, hex_http_shutdown, hex_http_read_head]
THEOREM NoRequestIsCut == Spec => RequestsFinish
<1> DEFINE Chosen == \A c \in stopClosed' \ stopClosed : c \in begun => late \/ serve[c] = "got"
<1>1. IInv /\ [Next]_vars => Chosen
  <2> SUFFICES ASSUME IInv, [Next]_vars, NEW c \in stopClosed' \ stopClosed, c \in begun
               PROVE  late \/ serve[c] = "got"
    OBVIOUS
  <2>1. RunLooks
    BY OnlyLooks
  <2>2. c \in Victims
    BY <2>1 DEF RunLooks
  <2>3. run.forced \/ c \in idle
    BY <2>2 DEF Victims
  <2>4. c \in Connections
    BY <2>2 DEF Victims, IInv, TypeOK
  <2> QED
    BY <2>3, <2>4 DEF IInv, IFlags, IStop
<1> QED
  BY <1>1, ServerInvariance, PTL DEF Spec, RequestsFinish

\* The idle flag and the stop flag: each side sets its own before it reads the
\* other, so that the shutdown leaves no idle connection open, and waits only
\* for requests in progress.  [hex_http_read_head, hex_http_next_to_close]
THEOREM NobodyIsOverlooked == Spec => []NobodyWaitsUnseen
<1>1. IInv => NobodyWaitsUnseen
  BY DEF IInv, ISeen
<1> QED
  BY <1>1, ServerInvariance, PTL

-----------------------------------------------------------------------------
(***************************************************************************)
(* FileCapability, for any number of operations, Files and descriptors.    *)
(* What makes a close safe is that a descriptor is one File's from its     *)
(* open to its close: an open File has its descriptor (FileOpen), and one  *)
(* actor at most is about to give it away (FileAlone).                     *)
(***************************************************************************)
\* Actor a has a descriptor of its own: a new one, or one that it will close.
Owns(a) == at[a] \in {"opened", "close"}

\* The places of an operation say what it is about.
FilePlaces ==
  \A a \in Actors :
    /\ at[a] # "idle" => on[a] \in Handles
    /\ Owns(a) => fd[a] \in Descriptors /\ file[fd[a]] = on[a]
    /\ at[a] = "opened" => status[on[a]] = "unused"
    /\ at[a] = "close" => status[on[a]] \in {"closing", "freed"}

\* The File of an open capability is the one its descriptor is open on.
FileOpen ==
  \A h \in Handles : status[h] = "open" => desc[h] \in Descriptors /\ file[desc[h]] = h

\* Two operations never both own the descriptor of one File.
FileAlone ==
  \A a, b \in Actors : Owns(a) /\ Owns(b) /\ on[a] = on[b] => a = b

FileInv == FileTypeOK /\ FilePlaces /\ FileOpen /\ FileAlone /\ NoLeakedDescriptor

\* Before the first operation no File is open.
LEMMA FileInitHolds == FileInit => FileInv
BY FileAssumption
DEF FileInit, Registry!Init, FileInv, FileTypeOK, FilePlaces, FileOpen, FileAlone,
  NoLeakedDescriptor, Owns

\* The step of one actor leaves the places of the others alone.
LEMMA FileStepOf ==
  ASSUME FileTypeOK, NEW a \in Actors, NEW place, NEW h, NEW d, Step(a, place, h, d)
  PROVE  /\ at'[a] = place /\ on'[a] = h /\ fd'[a] = d
         /\ \A b \in Actors \ {a} : at'[b] = at[b] /\ on'[b] = on[b] /\ fd'[b] = fd[b]
BY DEF FileTypeOK, Step

\* One lemma per action of a File operation.
LEMMA OpenNativeKeeps ==
  ASSUME FileInv, NEW a \in Actors, NEW h \in Handles, OpenNative(a, h)
  PROVE  FileInv'
<1>1. PICK d \in Unused : file' = [file EXCEPT ![d] = h] /\ Step(a, "opened", h, d)
  BY DEF OpenNative
<1>2. d \in Descriptors /\ file[d] = Nil /\ Nil \notin Handles
  BY FileAssumption DEF Unused
<1>3. FileTypeOK'
  BY <1>1, <1>2 DEF OpenNative, Step, FileInv, FileTypeOK
<1>4. FilePlaces'
  BY <1>1, <1>2, FileStepOf DEF OpenNative, FileInv, FileTypeOK, FilePlaces, Owns
<1>5. FileOpen'
  BY <1>1, <1>2 DEF OpenNative, FileInv, FileTypeOK, FileOpen
<1>6. FileAlone'
  BY <1>1, FileStepOf DEF OpenNative, FileInv, FileAlone, Owns
<1>7. NoLeakedDescriptor'
  BY <1>1, <1>2, FileStepOf DEF OpenNative, FileInv, FileTypeOK, NoLeakedDescriptor
<1> QED
  BY <1>3, <1>4, <1>5, <1>6, <1>7 DEF FileInv

LEMMA OpenPublishKeeps ==
  ASSUME FileInv, NEW a \in Actors, OpenPublish(a)
  PROVE  FileInv'
<1> USE DEF OpenPublish, Registry!Open, FileInv
<1>1. on[a] \in Handles /\ fd[a] \in Descriptors /\ file[fd[a]] = on[a]
  BY DEF FilePlaces, Owns
<1>2. FileTypeOK'
  BY <1>1 DEF Step, FileTypeOK
<1>3. FilePlaces'
  BY <1>1, FileStepOf DEF FileTypeOK, FilePlaces, FileAlone, Owns
<1>4. FileOpen'
  BY <1>1 DEF FileTypeOK, FileOpen
<1>5. FileAlone'
  BY FileStepOf DEF FileAlone, Owns
<1>6. NoLeakedDescriptor'
  BY <1>1, FileStepOf DEF FileTypeOK, NoLeakedDescriptor
<1> QED
  BY <1>2, <1>3, <1>4, <1>5, <1>6

\* The one owner of a descriptor closes it: every other claim is to another.
LEMMA GivesAway ==
  ASSUME FileInv, NEW a \in Actors, Owns(a),
         file' = [file EXCEPT ![fd[a]] = Nil],
         UNCHANGED <<status, users, desc>>,
         NEW place \in {"idle", "settle"}, NEW h \in Handles \cup {Nil},
         place = "settle" => h \in Handles,
         Step(a, place, h, Nil)
  PROVE  FileInv'
<1> USE DEF FileInv
<1>1. on[a] \in Handles /\ fd[a] \in Descriptors /\ file[fd[a]] = on[a]
  BY DEF FilePlaces, Owns
<1>2. status[on[a]] # "open"
  BY DEF FilePlaces, Owns
<1>3. FileTypeOK'
  BY <1>1 DEF Step, FileTypeOK
<1>4. \A b \in Actors \ {a} : Owns(b) => fd[b] # fd[a]
  BY <1>1 DEF FilePlaces, FileAlone
<1>5. ~Owns(a)'
  BY FileStepOf DEF Owns
<1>6. FilePlaces'
  BY <1>1, <1>4, <1>5, FileStepOf DEF FileTypeOK, FilePlaces, Owns
<1>7. FileOpen'
  BY <1>1, <1>2 DEF FileTypeOK, FileOpen
<1>8. FileAlone'
  BY <1>5, FileStepOf DEF FileAlone, Owns
<1>9. NoLeakedDescriptor'
  BY <1>1, FileStepOf DEF FileTypeOK, NoLeakedDescriptor
<1> QED
  BY <1>3, <1>6, <1>7, <1>8, <1>9

LEMMA OpenFailedKeeps ==
  ASSUME FileInv, NEW a \in Actors, OpenFailed(a)
  PROVE  FileInv'
BY GivesAway DEF OpenFailed, Owns

LEMMA CloseNativeKeeps ==
  ASSUME FileInv, NEW a \in Actors, CloseNative(a)
  PROVE  FileInv'
<1>1. on[a] \in Handles
  BY DEF CloseNative, FileInv, FilePlaces
<1> QED
  BY <1>1, GivesAway DEF CloseNative, Owns

LEMMA ResolveKeeps ==
  ASSUME FileInv, NEW a \in Actors, NEW h \in Handles, Resolve(a, h)
  PROVE  FileInv'
<1> USE DEF Resolve, Registry!Use, FileInv
<1>1. FileTypeOK'
  BY DEF Step, FileTypeOK
<1>2. FilePlaces' /\ FileOpen' /\ FileAlone'
  BY FileStepOf DEF FilePlaces, FileOpen, FileAlone, Owns
<1>3. NoLeakedDescriptor'
  BY FileStepOf DEF FileTypeOK, NoLeakedDescriptor
<1> QED
  BY <1>1, <1>2, <1>3

\* The capability is open until here, so nobody else closes its descriptor.
LEMMA CloseBeginKeeps ==
  ASSUME FileInv, NEW a \in Actors, NEW h \in Handles, CloseBegin(a, h)
  PROVE  FileInv'
<1> USE DEF CloseBegin, Registry!Close, FileInv
<1>1. desc[h] \in Descriptors /\ file[desc[h]] = h
  BY DEF FileOpen
<1>2. \A b \in Actors \ {a} : Owns(b) => on[b] # h
  BY DEF FilePlaces, Owns
<1>3. FileTypeOK'
  BY <1>1 DEF Step, FileTypeOK
<1>4. FilePlaces'
  BY <1>1, FileStepOf DEF FileTypeOK, FilePlaces, Owns
<1>5. FileOpen'
  BY DEF FileTypeOK, FileOpen
<1>6. FileAlone'
  BY <1>2, FileStepOf DEF FileAlone, Owns
<1>7. NoLeakedDescriptor'
  BY <1>1, FileStepOf DEF FileTypeOK, NoLeakedDescriptor
<1> QED
  BY <1>3, <1>4, <1>5, <1>6, <1>7

LEMMA TransferKeeps ==
  ASSUME FileInv, NEW a \in Actors, Transfer(a)
  PROVE  FileInv'
<1> USE DEF Transfer, FileInv
<1>1. FileTypeOK'
  BY DEF Step, FileTypeOK
<1>2. FilePlaces' /\ FileOpen' /\ FileAlone'
  BY FileStepOf DEF FilePlaces, FileOpen, FileAlone, Owns
<1>3. NoLeakedDescriptor'
  BY FileStepOf DEF FileTypeOK, NoLeakedDescriptor
<1> QED
  BY <1>1, <1>2, <1>3

LEMMA SettleKeeps ==
  ASSUME FileInv, NEW a \in Actors, Settle(a)
  PROVE  FileInv'
<1> USE DEF Settle, Registry!Leave, FileInv
<1>1. FileTypeOK'
  BY DEF Step, FileTypeOK
<1>2. FilePlaces' /\ FileOpen' /\ FileAlone'
  BY FileStepOf DEF FilePlaces, FileOpen, FileAlone, Owns
<1>3. NoLeakedDescriptor'
  BY FileStepOf DEF FileTypeOK, NoLeakedDescriptor
<1> QED
  BY <1>1, <1>2, <1>3

LEMMA RecycleKeeps ==
  ASSUME FileInv, NEW h \in Handles, Recycle(h)
  PROVE  FileInv'
BY FileAssumption
DEF Recycle, Registry!Free, FileInv, FileTypeOK, FilePlaces, FileOpen, FileAlone,
  NoLeakedDescriptor, Owns

\* A step is one of these, or changes nothing.
LEMMA FileStepKeeps == FileInv /\ [FileNext]_fileVars => FileInv'
<1> SUFFICES ASSUME FileInv, [FileNext]_fileVars
             PROVE  FileInv'
  OBVIOUS
<1>1. CASE UNCHANGED fileVars
  BY <1>1 DEF fileVars, FileInv, FileTypeOK, FilePlaces, FileOpen, FileAlone,
     NoLeakedDescriptor, Owns
<1>2. ASSUME NEW a \in Actors, NEW h \in Handles,
             OpenNative(a, h) \/ Resolve(a, h) \/ CloseBegin(a, h)
      PROVE  FileInv'
  BY <1>2, OpenNativeKeeps, ResolveKeeps, CloseBeginKeeps
<1>3. ASSUME NEW a \in Actors, Advance(a)
      PROVE  FileInv'
  BY <1>3, OpenPublishKeeps, OpenFailedKeeps, TransferKeeps, CloseNativeKeeps, SettleKeeps
     DEF Advance
<1>4. ASSUME NEW h \in Handles, Recycle(h)
      PROVE  FileInv'
  BY <1>4, RecycleKeeps
<1> QED
  BY <1>1, <1>2, <1>3, <1>4 DEF FileNext

\* The invariant of Files holds for any number of operations, Files and descriptors.
LEMMA FileInvariance == FileSpec => []FileInv
BY FileInitHolds, FileStepKeeps, PTL DEF FileSpec

\* However opens, operations and closes interleave, a native close is given a
\* descriptor that is still open on the File that it is for.
\* [hex_file_close, hex_file_force_close]
THEOREM ClosesOwn == FileSpec => []ClosesOwnDescriptor
<1>1. FileInv => ClosesOwnDescriptor
  BY DEF FileInv, FilePlaces, ClosesOwnDescriptor, Owns
<1> QED
  BY <1>1, FileInvariance, PTL

\* No failure of an open or a close leaves a descriptor behind.
\* [hex_file_open, hex_file_force_close]
THEOREM LeaksNone == FileSpec => []NoLeakedDescriptor
<1>1. FileInv => NoLeakedDescriptor
  BY DEF FileInv
<1> QED
  BY <1>1, FileInvariance, PTL

-----------------------------------------------------------------------------
(***************************************************************************)
(* ViewState, for any places, storage and callables: what the join and the *)
(* change of the analysis' states say of the views that a program holds.   *)
(***************************************************************************)
CONSTANTS
  Places,     \* the places of one callable
  Sources,    \* storage that is not named by a place
  Callables   \* what a function value may be

Views == INSTANCE ViewState

Roots == Places \cup Sources

Partial(S, T) == UNION {[P -> T] : P \in SUBSET S}

Fact == [roots : SUBSET Roots, stale : BOOLEAN]
Target == [list : SUBSET Callables, unknown : BOOLEAN]

ViewStates ==
  [facts : Partial(Places, Fact), handles : Partial(Places, SUBSET Roots),
   aliases : Partial(Places, SUBSET Places), funcs : Partial(Places, Target),
   inflight : Seq(Fact)]

\* A view that a program holds: where, into which storage, and whether that has
\* not changed since the view was taken.
Held == [place : Places, root : Roots, live : BOOLEAN]

\* What a state has to say of the views that are held.
Knows(s, held) ==
  \A h \in held :
    /\ h.place \in DOMAIN s.facts /\ h.root \in s.facts[h.place].roots
    /\ ~h.live => s.facts[h.place].stale

\* The same views after a structural change of the storage in roots.
Changed(held, roots) == {[h EXCEPT !.live = @ /\ h.root \notin roots] : h \in held}

\* At, above or below, as the code has it: by the prefix of a string, so that a
\* member is near another whose name starts with its own.
Near(p, q) == Views!Below(p, q) \/ Views!Below(q, p)

\* The maps of a view state are partial functions on places.
LEMMA PartialFacts ==
  ASSUME NEW S, NEW T, NEW f \in Partial(S, T)
  PROVE  DOMAIN f \subseteq S /\ f \in [DOMAIN f -> T]
BY DEF Partial

LEMMA PartialIs ==
  ASSUME NEW S, NEW T, NEW f, f = [p \in DOMAIN f |-> f[p]], DOMAIN f \subseteq S,
         \A p \in DOMAIN f : f[p] \in T
  PROVE  f \in Partial(S, T)
BY DEF Partial

LEMMA IsState ==
  ASSUME NEW s,
         s = [facts |-> s.facts, handles |-> s.handles, aliases |-> s.aliases, funcs |-> s.funcs,
              inflight |-> s.inflight],
         s.facts \in Partial(Places, Fact), s.handles \in Partial(Places, SUBSET Roots),
         s.aliases \in Partial(Places, SUBSET Places), s.funcs \in Partial(Places, Target),
         s.inflight \in Seq(Fact)
  PROVE  s \in ViewStates
BY DEF ViewStates

\* What the join says of a place: everything that some path says of it.
LEMMA JoinFactsAt ==
  ASSUME NEW S, NEW p
  PROVE  /\ p \in DOMAIN Views!JoinStates(S).facts <=> \E s \in S : p \in DOMAIN s.facts
         /\ p \in DOMAIN Views!JoinStates(S).facts =>
              /\ \A r : r \in Views!JoinStates(S).facts[p].roots
                          <=> \E s \in S : p \in DOMAIN s.facts /\ r \in s.facts[p].roots
              /\ Views!JoinStates(S).facts[p].stale
                   <=> \E s \in S : p \in DOMAIN s.facts /\ s.facts[p].stale
BY DEF Views!JoinStates, Views!Over, Views!With, Views!FactsOf, Views!JoinFacts

LEMMA JoinHandlesAt ==
  ASSUME NEW S, NEW p
  PROVE  /\ p \in DOMAIN Views!JoinStates(S).handles <=> \E s \in S : p \in DOMAIN s.handles
         /\ p \in DOMAIN Views!JoinStates(S).handles =>
              \A s \in S : Views!NamedRoots(s, p) \subseteq Views!JoinStates(S).handles[p]
<1> DEFINE naming == {s \in S : p \in DOMAIN s.handles}
           own == {q \in {p} : naming # S}
<1>1. p \in DOMAIN Views!JoinStates(S).handles <=> \E s \in S : p \in DOMAIN s.handles
  BY DEF Views!JoinStates, Views!Over, Views!HandlesOf
<1>2. ASSUME p \in DOMAIN Views!JoinStates(S).handles
      PROVE  Views!JoinStates(S).handles[p] = (UNION {s.handles[p] : s \in naming}) \cup own
  BY <1>2 DEF Views!JoinStates, Views!Over, Views!With, Views!HandlesOf
<1>3. ASSUME NEW s \in S
      PROVE  Views!NamedRoots(s, p) \subseteq (UNION {x.handles[p] : x \in naming}) \cup own
  <2>1. CASE p \in DOMAIN s.handles
    BY <2>1 DEF Views!NamedRoots
  <2>2. CASE p \notin DOMAIN s.handles
    <3>1. s \notin naming
      BY <2>2
    <3>2. p \in own
      BY <3>1
    <3>3. Views!NamedRoots(s, p) = {p}
      BY <2>2 DEF Views!NamedRoots
    <3> QED
      BY <3>2, <3>3
  <2> QED
    BY <2>1, <2>2
<1> QED
  BY <1>1, <1>2, <1>3

\* The join of states is a state.
LEMMA JoinIsState ==
  ASSUME NEW S \in SUBSET ViewStates
  PROVE  Views!JoinStates(S) \in ViewStates
<1> DEFINE J == Views!JoinStates(S)
<1>1. \A s \in S :
        /\ s.facts \in Partial(Places, Fact) /\ s.handles \in Partial(Places, SUBSET Roots)
        /\ s.aliases \in Partial(Places, SUBSET Places) /\ s.funcs \in Partial(Places, Target)
  BY DEF ViewStates
<1>2. J.facts \in Partial(Places, Fact)
  <2>1. \A s \in S :
          /\ DOMAIN s.facts \subseteq Places
          /\ \A p \in DOMAIN s.facts : s.facts[p] \in Fact
    BY <1>1, PartialFacts
  <2>2. DOMAIN J.facts \subseteq Places
    BY <2>1, JoinFactsAt
  <2>3. ASSUME NEW p \in DOMAIN J.facts
        PROVE  J.facts[p] \in Fact
    <3>1. J.facts[p] = Views!JoinFacts({s.facts[p] : s \in Views!With(S, Views!FactsOf, p)})
      BY DEF Views!JoinStates
    <3>2. UNION {f.roots : f \in {s.facts[p] : s \in Views!With(S, Views!FactsOf, p)}}
            \subseteq Roots
      BY <2>1 DEF Views!With, Views!FactsOf, Fact
    <3> QED
      BY <3>1, <3>2 DEF Views!JoinFacts, Fact
  <2>4. J.facts = [p \in DOMAIN J.facts |-> J.facts[p]]
    BY DEF Views!JoinStates
  <2> QED
    BY <2>2, <2>3, <2>4, PartialIs
<1>3. J.handles \in Partial(Places, SUBSET Roots)
  <2>1. \A s \in S : DOMAIN s.handles \subseteq Places
                      /\ \A p \in DOMAIN s.handles : s.handles[p] \subseteq Roots
    BY <1>1, PartialFacts
  <2>2. DOMAIN J.handles \subseteq Places
    BY <2>1, JoinHandlesAt
  <2>3. ASSUME NEW p \in DOMAIN J.handles
        PROVE  J.handles[p] \subseteq Roots
    <3>1. J.handles[p] = (UNION {s.handles[p] : s \in Views!With(S, Views!HandlesOf, p)})
                           \cup {q \in {p} : Views!With(S, Views!HandlesOf, p) # S}
      BY DEF Views!JoinStates
    <3>2. UNION {s.handles[p] : s \in Views!With(S, Views!HandlesOf, p)} \subseteq Roots
      BY <2>1 DEF Views!With, Views!HandlesOf
    <3>3. p \in Roots
      BY <2>2 DEF Roots
    <3>4. {q \in {p} : Views!With(S, Views!HandlesOf, p) # S} \subseteq Roots
      BY <3>3
    <3> QED
      BY <3>1, <3>2, <3>4
  <2>4. J.handles = [p \in DOMAIN J.handles |-> J.handles[p]]
    BY DEF Views!JoinStates
  <2> QED
    BY <2>2, <2>3, <2>4, PartialIs
<1>4. J.aliases \in Partial(Places, SUBSET Places)
  <2>1. \A s \in S : DOMAIN s.aliases \subseteq Places
                      /\ \A p \in DOMAIN s.aliases : s.aliases[p] \subseteq Places
    BY <1>1, PartialFacts
  <2>2. DOMAIN J.aliases \subseteq Places
    BY <2>1 DEF Views!JoinStates, Views!Over, Views!AliasesOf
  <2>3. ASSUME NEW p \in DOMAIN J.aliases
        PROVE  J.aliases[p] \subseteq Places
    BY <2>1 DEF Views!JoinStates, Views!With, Views!AliasesOf
  <2>4. J.aliases = [p \in DOMAIN J.aliases |-> J.aliases[p]]
    BY DEF Views!JoinStates
  <2> QED
    BY <2>2, <2>3, <2>4, PartialIs
<1>5. J.funcs \in Partial(Places, Target)
  <2>1. \A s \in S :
          /\ DOMAIN s.funcs \subseteq Places
          /\ \A p \in DOMAIN s.funcs : s.funcs[p] \in Target
    BY <1>1, PartialFacts
  <2>2. DOMAIN J.funcs \subseteq Places
    BY <2>1 DEF Views!JoinStates, Views!Over, Views!FuncsOf
  <2>3. ASSUME NEW p \in DOMAIN J.funcs
        PROVE  J.funcs[p] \in Target
    <3>1. J.funcs[p] = Views!JoinTargets({s.funcs[p] : s \in Views!With(S, Views!FuncsOf, p)})
      BY DEF Views!JoinStates
    <3>2. UNION {t.list : t \in {s.funcs[p] : s \in Views!With(S, Views!FuncsOf, p)}}
            \subseteq Callables
      BY <2>1 DEF Views!With, Views!FuncsOf, Target
    <3> QED
      BY <3>1, <3>2 DEF Views!JoinTargets, Target
  <2>4. J.funcs = [p \in DOMAIN J.funcs |-> J.funcs[p]]
    BY DEF Views!JoinStates
  <2> QED
    BY <2>2, <2>3, <2>4, PartialIs
<1>6. J.inflight \in Seq(Fact)
  BY DEF Views!JoinStates
<1>7. J = [facts |-> J.facts, handles |-> J.handles, aliases |-> J.aliases, funcs |-> J.funcs,
           inflight |-> J.inflight]
  BY DEF Views!JoinStates
<1> QED
  BY <1>2, <1>3, <1>4, <1>5, <1>6, <1>7, IsState

\* Where paths meet, a place is stale, in the code's sense of at, above or below,
\* if and only if it is on one of them.  [joinViewStates, staleFact]
THEOREM StaleOnSomePath ==
  ASSUME NEW S \in SUBSET ViewStates, NEW p
  PROVE  Views!IsStale(Views!JoinStates(S), p) <=> \E s \in S : Views!IsStale(s, p)
BY JoinFactsAt DEF Views!IsStale

\* What a change does to the facts of each place.
LEMMA InvalidateAt ==
  ASSUME NEW s \in ViewStates, NEW roots
  PROVE  /\ DOMAIN Views!InvalidateFacts(s, roots).facts = DOMAIN s.facts
         /\ \A p \in DOMAIN s.facts :
              /\ Views!InvalidateFacts(s, roots).facts[p].roots = s.facts[p].roots
              /\ Views!InvalidateFacts(s, roots).facts[p].stale
                   <=> s.facts[p].stale \/ s.facts[p].roots \cap roots # {}
<1>1. s.facts \in Partial(Places, Fact)
  BY DEF ViewStates
<1>2. \A p \in DOMAIN s.facts : s.facts[p] \in Fact
  BY <1>1, PartialFacts
<1>3. Views!InvalidateFacts(s, roots).facts
        = [p \in DOMAIN s.facts |-> Views!Mark(s.facts[p], roots)]
  BY DEF Views!InvalidateFacts, ViewStates
<1>4. ASSUME NEW f \in Fact
      PROVE  /\ Views!Mark(f, roots).roots = f.roots
             /\ Views!Mark(f, roots).stale <=> f.stale \/ f.roots \cap roots # {}
  BY DEF Views!Mark, Fact
<1> QED
  BY <1>2, <1>3, <1>4

\* A change makes a place stale if and only if it was, or if a view near it may
\* point into what has changed: a view of a member whose name only starts as the
\* place does counts too.  [invalidate, staleFact]
THEOREM ChangeIsExact ==
  ASSUME NEW s \in ViewStates, NEW roots, NEW p
  PROVE  Views!IsStale(Views!InvalidateFacts(s, roots), p) <=>
           \/ Views!IsStale(s, p)
           \/ \E q \in DOMAIN s.facts : Near(q, p) /\ s.facts[q].roots \cap roots # {}
BY InvalidateAt DEF Views!IsStale, Near

\* A merge forgets no view of any path, nor any storage that a handle may have.
LEMMA MergeKnows ==
  ASSUME NEW S \in SUBSET ViewStates, NEW s \in S, NEW held \in SUBSET Held, Knows(s, held)
  PROVE  Knows(Views!JoinStates(S), held)
BY JoinFactsAt DEF Knows

LEMMA RootsJoin ==
  ASSUME NEW S \in SUBSET ViewStates, NEW s \in S, NEW p
  PROVE  Views!NamedRoots(s, p) \subseteq Views!NamedRoots(Views!JoinStates(S), p)
BY JoinHandlesAt DEF Views!NamedRoots

\* A state may take more storage to be changed than was.
LEMMA ChangeKnows ==
  ASSUME NEW s \in ViewStates, NEW held \in SUBSET Held, NEW roots, NEW more,
         Knows(s, held), roots \subseteq more
  PROVE  Knows(Views!InvalidateFacts(s, more), Changed(held, roots))
<1> SUFFICES ASSUME NEW g \in held, NEW h, h = [g EXCEPT !.live = @ /\ g.root \notin roots]
             PROVE  /\ h.place \in DOMAIN Views!InvalidateFacts(s, more).facts
                    /\ h.root \in Views!InvalidateFacts(s, more).facts[h.place].roots
                    /\ ~h.live => Views!InvalidateFacts(s, more).facts[h.place].stale
  BY DEF Knows, Changed
<1>1. /\ h.place = g.place /\ h.root = g.root
      /\ h.live <=> g.live /\ g.root \notin roots
  BY DEF Held
<1>2. /\ g.place \in DOMAIN s.facts /\ g.root \in s.facts[g.place].roots
      /\ ~g.live => s.facts[g.place].stale
  BY DEF Knows
<1>3. g.root \in roots => s.facts[g.place].roots \cap more # {}
  BY <1>2
<1> QED
  BY <1>1, <1>2, <1>3, InvalidateAt

\* A place that every path was told of, or that is below no copy, is one that the
\* join was told of or that is below no copy.
LEMMA ToldJoin ==
  ASSUME NEW S, NEW p, \A x \in S : Views!Told(x, p)
  PROVE  Views!Told(Views!JoinStates(S), p)
<1> DEFINE J == Views!JoinStates(S)
<1>1. p \in DOMAIN J.handles <=> \E s \in S : p \in DOMAIN s.handles
  BY JoinHandlesAt
<1>2. DOMAIN J.aliases = UNION {DOMAIN s.aliases : s \in S}
  BY DEF Views!JoinStates, Views!Over, Views!AliasesOf
<1>3. Views!Copies(J, p) = UNION {Views!Copies(s, p) : s \in S}
  BY <1>2 DEF Views!Copies
<1> QED
  BY <1>1, <1>3 DEF Views!Told

\* Whichever path a program took, a change of the storage of a handle after
\* paths have met makes every view that dangles then known as stale: also where
\* the handle was bound anew on the other paths only.  On no path is the handle's
\* storage that of a copied aggregate, which is why resolveRoots answers with
\* NamedRoots on each and after the join; a handle in an aggregate that one path
\* copied may be missed (ViewsRun, HalfCopied).
\* [joinViewStates, the rule for a handle that one path does not name; resolveRoots;
\* invalidate]
THEOREM MergeHidesNoChange ==
  ASSUME NEW S \in SUBSET ViewStates, NEW s \in S, NEW held \in SUBSET Held, Knows(s, held),
         NEW p, \A x \in S : Views!Told(x, p),
         NEW h \in Changed(held, Views!NamedRoots(s, p)), ~h.live, NEW q, Near(h.place, q)
  PROVE  LET merged == Views!JoinStates(S) IN
         /\ Views!Told(merged, p)
         /\ Views!IsStale(Views!InvalidateFacts(merged, Views!NamedRoots(merged, p)), q)
<1> DEFINE merged == Views!JoinStates(S)
           after == Views!InvalidateFacts(merged, Views!NamedRoots(merged, p))
<1>1. Knows(merged, held) /\ merged \in ViewStates
      /\ Views!NamedRoots(s, p) \subseteq Views!NamedRoots(merged, p)
  BY MergeKnows, JoinIsState, RootsJoin
<1>2. Knows(after, Changed(held, Views!NamedRoots(s, p)))
  BY <1>1, ChangeKnows
<1>3. Views!Told(merged, p)
  BY ToldJoin
<1>4. Views!IsStale(after, q)
  BY <1>2 DEF Knows, Near, Views!IsStale
<1> QED
  BY <1>3, <1>4
=============================================================================
