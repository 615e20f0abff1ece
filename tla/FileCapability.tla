--------------------------- MODULE FileCapability ---------------------------
(***************************************************************************)
(* The File runtime (src/compiler/generator/packages/file.c) over the      *)
(* handle registry, which is taken here by its promise, the module         *)
(* Capability that HandleRegistry implements.  A control block holds one   *)
(* native descriptor.  Requests run on libuv's worker pool, or directly    *)
(* outside a Task: either way some time after the descriptor was read from *)
(* the control block.  The operating system gives an open the lowest       *)
(* descriptor nobody has.                                                  *)
(***************************************************************************)
EXTENDS Integers, FiniteSets

CONSTANTS
  Actors,       \* the operations that may run at one time
  Handles,      \* the File values a run may open, one per opened file
  Descriptors,  \* the native descriptors
  Nil          \* no handle, no descriptor

ASSUME FileAssumption ==
  /\ IsFiniteSet(Descriptors)
  /\ Descriptors \subseteq Nat
  /\ Nil \notin Handles \cup Descriptors

VARIABLES
  status, users,  \* the capabilities of the registry
  desc,   \* handle -> control->desc
  file,   \* descriptor -> the handle of the file that it is open on
  at,     \* actor -> where its operation stands
  fd,     \* actor -> the descriptor its request is for
  on      \* actor -> the handle its operation is about

fileVars == <<status, users, desc, file, at, fd, on>>

Registry == INSTANCE Capability

FileTypeOK ==
  /\ status \in [Handles -> {"unused", "open", "closing", "freed"}]
  /\ users \in [Handles -> SUBSET Actors]
  /\ desc \in [Handles -> Descriptors \cup {Nil}]
  /\ file \in [Descriptors -> Handles \cup {Nil}]
  /\ at \in [Actors -> {"idle", "opened", "transfer", "close", "settle"}]
  /\ fd \in [Actors -> Descriptors \cup {Nil}]
  /\ on \in [Actors -> Handles \cup {Nil}]

FileInit ==
  /\ Registry!Init
  /\ desc = [h \in Handles |-> Nil]
  /\ file = [d \in Descriptors |-> Nil]
  /\ at = [a \in Actors |-> "idle"]
  /\ fd = [a \in Actors |-> Nil]
  /\ on = [a \in Actors |-> Nil]

\* Actor a stands at a place of an operation on h that is for descriptor d.
Step(a, place, h, d) ==
  /\ at' = [at EXCEPT ![a] = place]
  /\ on' = [on EXCEPT ![a] = h]
  /\ fd' = [fd EXCEPT ![a] = d]

Unused == {d \in Descriptors : file[d] = Nil}

-----------------------------------------------------------------------------
\* hex_file_open: the native open, then the handle; a failed allocation of the
\* control block or of a slot closes the new descriptor again.
OpenNative(a, h) ==
  /\ at[a] = "idle"
  /\ status[h] = "unused"
  /\ \A b \in Actors : on[b] # h
  /\ \E d \in Unused :
       /\ \A e \in Unused : d <= e
       /\ file' = [file EXCEPT ![d] = h]
       /\ Step(a, "opened", h, d)
  /\ UNCHANGED <<status, users, desc>>

OpenPublish(a) ==
  /\ at[a] = "opened"
  /\ Registry!Open(on[a])
  /\ desc' = [desc EXCEPT ![on[a]] = fd[a]]
  /\ Step(a, "idle", Nil, Nil)
  /\ UNCHANGED file

\* Mutant of OpenFailed: the descriptor stays open.
OpenFailedLeaks(a) ==
  /\ at[a] = "opened"
  /\ Step(a, "idle", Nil, Nil)
  /\ UNCHANGED <<status, users, desc, file>>

OpenFailed(a) ==
  /\ at[a] = "opened"
  /\ file' = [file EXCEPT ![fd[a]] = Nil]
  /\ Step(a, "idle", Nil, Nil)
  /\ UNCHANGED <<status, users, desc>>

\* read, write, seek and flush: resolve, copy the descriptor into the request,
\* run it, release.  A zero-length transfer releases at once.
Resolve(a, h) ==
  /\ at[a] = "idle"
  /\ Registry!Use(a, h)
  /\ Step(a, "transfer", h, desc[h])
  /\ UNCHANGED <<desc, file>>

Transfer(a) ==
  /\ at[a] = "transfer"
  /\ Step(a, "settle", on[a], Nil)
  /\ UNCHANGED <<status, users, desc, file>>

\* Mutant of CloseBegin: it only resolves the handle, as the operations do.
CloseResolves(a, h) ==
  /\ at[a] = "idle"
  /\ Registry!Use(a, h)
  /\ Step(a, "close", h, desc[h])
  /\ UNCHANGED <<desc, file>>

\* hex_file_close: close_begin, the native close, close_finish.
CloseBegin(a, h) ==
  /\ at[a] = "idle"
  /\ Registry!Close(a, h)
  /\ Step(a, "close", h, desc[h])
  /\ UNCHANGED <<desc, file>>

CloseNative(a) ==
  /\ at[a] = "close"
  /\ file' = [file EXCEPT ![fd[a]] = Nil]
  /\ Step(a, "settle", on[a], Nil)
  /\ UNCHANGED <<status, users, desc>>

\* hex_handle_release, hex_handle_close_finish.
Settle(a) ==
  /\ at[a] = "settle"
  /\ Registry!Leave(a, on[a])
  /\ Step(a, "idle", Nil, Nil)
  /\ UNCHANGED <<desc, file>>

\* The registry frees the control block.
Recycle(h) ==
  /\ Registry!Free(h)
  /\ desc' = [desc EXCEPT ![h] = Nil]
  /\ UNCHANGED <<file, at, fd, on>>

Advance(a) ==
  \/ OpenPublish(a) \/ OpenFailed(a) \/ Transfer(a) \/ CloseNative(a)
  \/ Settle(a)

FileNext ==
  \/ \E a \in Actors, h \in Handles :
       OpenNative(a, h) \/ Resolve(a, h) \/ CloseBegin(a, h)
  \/ \E a \in Actors : Advance(a)
  \/ \E h \in Handles : Recycle(h)

FileSpec == FileInit /\ [][FileNext]_fileVars

-----------------------------------------------------------------------------
\* A close never closes the descriptor of another file, however closes and
\* opens through copies interleave.  [hex_file_close, hex_file_force_close]
ClosesOwnDescriptor ==
  \A a \in Actors : at[a] \in {"opened", "close"} => file[fd[a]] = on[a]

\* A descriptor that is open belongs to a File that is not closed yet, or to
\* the open or close that is about to deal with it: none leaks on any failure.
\* [hex_file_open, hex_file_force_close]
NoLeakedDescriptor ==
  \A d \in Descriptors : file[d] # Nil =>
    \/ status[file[d]] = "open" /\ desc[file[d]] = d
    \/ \E a \in Actors : at[a] \in {"opened", "close"} /\ fd[a] = d
=============================================================================
