---------------------------- MODULE RegistryLock ----------------------------
(***************************************************************************)
(* What zkregistry.Mutex promises: one read-write lock per registry.  The  *)
(* only writer of a registry is its job; requests are its readers.  A      *)
(* writer that waits holds up readers that come later, and a writer that   *)
(* unlocks admits the readers that came while it waited or held the lock   *)
(* (sync.RWMutex).                                                         *)
(***************************************************************************)
CONSTANTS Registries, Requests

VARIABLE lock  \* the state of the lock of every registry

FreeLock == [writer |-> "none", readers |-> {}, waiting |-> {}]

LockStates ==
  [writer : {"none", "waiting", "locked"}, readers : SUBSET Requests, waiting : SUBSET Requests]

(* The steps of sync.RWMutex, from the state of a lock to the next. *)
AskLock(l) == [l EXCEPT !.writer = "waiting"]
TakeLock(l) == [l EXCEPT !.writer = "locked"]
LeaveLock(l) ==
  [writer |-> "none", readers |-> l.readers \union l.waiting, waiting |-> {}]

(* Mutant of EnterReader: readers pass a writer that waits. *)
EnterReaderFirst(l, q) ==
  IF l.writer # "locked" THEN [l EXCEPT !.readers = @ \union {q}]
  ELSE [l EXCEPT !.waiting = @ \union {q}]

EnterReader(l, q) ==
  IF l.writer = "none" THEN [l EXCEPT !.readers = @ \union {q}]
  ELSE [l EXCEPT !.waiting = @ \union {q}]

LeaveReader(l, q) == [l EXCEPT !.readers = @ \ {q}]

Step(r, l) == lock' = [lock EXCEPT ![r] = l]

LockAsked(r) ==
  /\ lock[r].writer = "none"
  /\ Step(r, AskLock(lock[r]))

Locked(r) ==
  /\ lock[r].writer = "waiting"
  /\ lock[r].readers = {}
  /\ Step(r, TakeLock(lock[r]))

Unlocked(r) ==
  /\ lock[r].writer = "locked"
  /\ Step(r, LeaveLock(lock[r]))

RLocked(r, q) ==
  /\ q \notin lock[r].readers \union lock[r].waiting
  /\ Step(r, EnterReader(lock[r], q))

RUnlocked(r, q) ==
  /\ q \in lock[r].readers
  /\ Step(r, LeaveReader(lock[r], q))

Init == lock = [r \in Registries |-> FreeLock]

Next ==
  \E r \in Registries :
    \/ LockAsked(r) \/ Locked(r) \/ Unlocked(r)
    \/ \E q \in Requests : RLocked(r, q) \/ RUnlocked(r, q)

Spec == Init /\ [][Next]_lock

(* The job of a registry changes its tree while no request reads it: who   *)
(* holds the lock of a registry for writing holds it alone.                *)
WriterIsAlone ==
  \A r \in Registries : lock[r].writer = "locked" => lock[r].readers = {}
=============================================================================
