----------------------------- MODULE Capability -----------------------------
(***************************************************************************)
(* What the handle registry promises of one capability (a File, a TCP      *)
(* connection, a Process ...), whatever slots and generations it uses:     *)
(* the capability opens once, operations use it while it is open, one      *)
(* close ends it at once for every copy of its handle, and its control     *)
(* block is freed once, when the close and the last operation are over.    *)
(***************************************************************************)
CONSTANTS
  Actors,   \* operations
  Handles   \* the names of capabilities

VARIABLES
  status,   \* handle -> unused, open, closing or freed
  users     \* handle -> the operations, the close included, that may touch
            \* its control block

capability == <<status, users>>

Init ==
  /\ status = [h \in Handles |-> "unused"]
  /\ users = [h \in Handles |-> {}]

Open(h) ==
  /\ status[h] = "unused"
  /\ status' = [status EXCEPT ![h] = "open"]
  /\ UNCHANGED users

Use(a, h) ==
  /\ status[h] = "open"
  /\ a \notin users[h]
  /\ users' = [users EXCEPT ![h] = @ \cup {a}]
  /\ UNCHANGED status

\* The closing operation is the last to get hold of the control block.
Close(a, h) ==
  /\ status[h] = "open"
  /\ a \notin users[h]
  /\ status' = [status EXCEPT ![h] = "closing"]
  /\ users' = [users EXCEPT ![h] = @ \cup {a}]

Leave(a, h) ==
  /\ a \in users[h]
  /\ users' = [users EXCEPT ![h] = @ \ {a}]
  /\ UNCHANGED status

Free(h) ==
  /\ status[h] = "closing"
  /\ users[h] = {}
  /\ status' = [status EXCEPT ![h] = "freed"]
  /\ UNCHANGED users

Next ==
  \E h \in Handles :
    \/ Open(h) \/ Free(h)
    \/ \E a \in Actors : Use(a, h) \/ Close(a, h) \/ Leave(a, h)

Spec == Init /\ [][Next]_capability

\* What nobody may touch is freed.
FairSpec == Spec /\ \A h \in Handles : WF_capability(Free(h))
=============================================================================
