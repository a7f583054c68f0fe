---------------------------- MODULE RegistryMutex ---------------------------
(***************************************************************************)
(* zkregistry.Mutex: a map of locks that are created when they are first   *)
(* asked for.  Lock, Unlock, RLock and RUnlock all look the lock up anew,  *)
(* by getOrCreateMutex, so that what a goroutine unlocks is what it has    *)
(* locked only if the map never changes its mind.                          *)
(*                                                                         *)
(* The goroutines are the jobs, one per registry and called by its name,   *)
(* and the requests.  What getOrCreateMutex does under its own mutex is    *)
(* one step.                                                               *)
(***************************************************************************)
CONSTANTS
  Registries,
  Requests,
  Mutexes,  \* addresses at which a lock can be allocated
  NoMutex   \* the map holds no lock

ASSUME MutexAssumption ==
  /\ Registries \cap Requests = {}
  /\ NoMutex \notin Mutexes

Goroutines == Registries \union Requests

VARIABLES
  mutexes,  \* Mutex.mutexes
  rw,       \* the state of the lock at every address
  used,     \* the addresses that have been allocated
  at,       \* where every goroutine is
  op,       \* whether it acquires or releases
  registry, \* the registry that it asks for
  mutex,    \* what getOrCreateMutex has returned to it, until it is used
  took      \* what it holds or waits for

vars == <<mutexes, rw, used, at, op, registry, mutex, took>>

RW == INSTANCE RegistryLock WITH lock <- rw, Registries <- Mutexes

Init ==
  /\ mutexes = [r \in Registries |-> NoMutex]
  /\ rw = [m \in Mutexes |-> RW!FreeLock]
  /\ used = {}
  /\ at = [g \in Goroutines |-> "idle"]
  /\ op = [g \in Goroutines |-> "acquire"]
  /\ registry \in [Goroutines -> Registries]
  /\ \A r \in Registries : registry[r] = r
  /\ mutex = [g \in Goroutines |-> NoMutex]
  /\ took = [g \in Goroutines |-> NoMutex]

-----------------------------------------------------------------------------
(* A job asks for its registry, a request for any. *)
Acquire(g, r) ==
  /\ at[g] = "idle"
  /\ g \in Registries => r = g
  /\ at' = [at EXCEPT ![g] = "find"]
  /\ registry' = [registry EXCEPT ![g] = r]
  /\ UNCHANGED <<mutexes, rw, used, op, mutex, took>>

Release(g) ==
  /\ at[g] = "held"
  /\ at' = [at EXCEPT ![g] = "find"]
  /\ op' = [op EXCEPT ![g] = "release"]
  /\ UNCHANGED <<mutexes, rw, used, registry, mutex, took>>

(* The first look into the map. *)
Find(g) ==
  /\ at[g] = "find"
  /\ LET m == mutexes[registry[g]] IN
       /\ at' = [at EXCEPT ![g] = IF m = NoMutex THEN "create" ELSE "use"]
       /\ mutex' = [mutex EXCEPT ![g] = m]
  /\ UNCHANGED <<mutexes, rw, used, op, registry, took>>

Return(g, m) ==
  /\ mutex' = [mutex EXCEPT ![g] = m]
  /\ at' = [at EXCEPT ![g] = "use"]
  /\ UNCHANGED <<rw, op, registry, took>>

(* Mutant of Create: whether another goroutine was faster is not checked. *)
CreateUnchecked(g) ==
  /\ at[g] = "create"
  /\ \E m \in Mutexes \ used :
       /\ used' = used \union {m}
       /\ mutexes' = [mutexes EXCEPT ![registry[g]] = m]
       /\ Return(g, m)

(* The second look, and the creation of the lock, under the write lock of  *)
(* the map.                                                                *)
Create(g) ==
  /\ at[g] = "create"
  /\ \/ /\ mutexes[registry[g]] # NoMutex
        /\ Return(g, mutexes[registry[g]])
        /\ UNCHANGED <<mutexes, used>>
     \/ /\ mutexes[registry[g]] = NoMutex
        /\ \E m \in Mutexes \ used :
             /\ used' = used \union {m}
             /\ mutexes' = [mutexes EXCEPT ![registry[g]] = m]
             /\ Return(g, m)

-----------------------------------------------------------------------------
(* A job in Lock, then in front of the lock until the readers have left. *)
Lock(g) ==
  /\ at[g] = "use" /\ op[g] = "acquire" /\ g \in Registries
  /\ RW!LockAsked(mutex[g])
  /\ at' = [at EXCEPT ![g] = "wait"]
  /\ took' = [took EXCEPT ![g] = mutex[g]]
  /\ mutex' = [mutex EXCEPT ![g] = NoMutex]
  /\ UNCHANGED <<mutexes, used, op, registry>>

LockAcquired(g) ==
  /\ at[g] = "wait" /\ g \in Registries
  /\ RW!Locked(took[g])
  /\ at' = [at EXCEPT ![g] = "held"]
  /\ UNCHANGED <<mutexes, used, op, registry, mutex, took>>

(* A request in RLock, then until the writer has left. *)
RLock(g) ==
  /\ at[g] = "use" /\ op[g] = "acquire" /\ g \in Requests
  /\ RW!RLocked(mutex[g], g)
  /\ at' = [at EXCEPT ![g] = "wait"]
  /\ took' = [took EXCEPT ![g] = mutex[g]]
  /\ mutex' = [mutex EXCEPT ![g] = NoMutex]
  /\ UNCHANGED <<mutexes, used, op, registry>>

RLockAcquired(g) ==
  /\ at[g] = "wait" /\ g \in Requests
  /\ g \in rw[took[g]].readers
  /\ at' = [at EXCEPT ![g] = "held"]
  /\ UNCHANGED <<mutexes, rw, used, op, registry, mutex, took>>

(* To unlock what is not locked ends the program; the guards of the steps  *)
(* of the lock stand for that.                                             *)
Unlock(g) ==
  /\ at[g] = "use" /\ op[g] = "release"
  /\ IF g \in Registries THEN RW!Unlocked(mutex[g]) ELSE RW!RUnlocked(mutex[g], g)
  /\ at' = [at EXCEPT ![g] = "idle"]
  /\ op' = [op EXCEPT ![g] = "acquire"]
  /\ took' = [took EXCEPT ![g] = NoMutex]
  /\ mutex' = [mutex EXCEPT ![g] = NoMutex]
  /\ UNCHANGED <<mutexes, used, registry>>

-----------------------------------------------------------------------------
Proceed(g) ==
  \/ Release(g) \/ Find(g) \/ Create(g)
  \/ Lock(g) \/ LockAcquired(g) \/ RLock(g) \/ RLockAcquired(g) \/ Unlock(g)

Next == \E g \in Goroutines : Proceed(g) \/ \E r \in Registries : Acquire(g, r)

Spec == Init /\ [][Next]_vars

(* A goroutine in a call goes on, and who holds a lock comes to release    *)
(* it; nobody has to ask for one.                                          *)
FairSpec == Spec /\ \A g \in Goroutines : WF_vars(Proceed(g))

-----------------------------------------------------------------------------
(* The lock of a registry is the one that the map holds. *)
LockOf ==
  [r \in Registries |-> IF mutexes[r] = NoMutex THEN RW!FreeLock ELSE rw[mutexes[r]]]

RegistryLocks == INSTANCE RegistryLock WITH lock <- LockOf

(* The variables have their types. *)
TypeOK ==
  /\ mutexes \in [Registries -> Mutexes \union {NoMutex}]
  /\ rw \in [Mutexes -> RW!LockStates]
  /\ used \in SUBSET Mutexes
  /\ at \in [Goroutines -> {"idle", "find", "create", "use", "wait", "held"}]
  /\ op \in [Goroutines -> {"acquire", "release"}]
  /\ registry \in [Goroutines -> Registries]
  /\ mutex \in [Goroutines -> Mutexes \union {NoMutex}]
  /\ took \in [Goroutines -> Mutexes \union {NoMutex}]

(* The map of locks that are created on demand is as good as one lock per  *)
(* registry that was always there: two goroutines that both miss the lock  *)
(* in getOrCreateMutex do not end up with two.                             *)
ImplementsRegistryLock == RegistryLocks!Spec

(* A goroutine is between its Lock or RLock and the end of its Unlock. *)
Inside(g) == at[g] = "held" \/ op[g] = "release"

(* The job of a registry writes its tree alone: no request is between      *)
(* RLock and RUnlock on the same registry, whoever created the lock.       *)
JobIsAlone ==
  \A r \in Registries, q \in Requests : Inside(r) /\ Inside(q) => registry[q] # r

(* Unlock and RUnlock find the lock that Lock and RLock took, which they   *)
(* look up a second time, and it is still locked by this goroutine: to     *)
(* unlock another would end the program.                                   *)
ReleasesWhatItTook ==
  \A g \in Goroutines :
    at[g] = "use" /\ op[g] = "release" =>
      /\ mutex[g] = took[g]
      /\ IF g \in Registries THEN rw[mutex[g]].writer = "locked"
         ELSE g \in rw[mutex[g]].readers

(* A job does not wait for ever for requests that keep coming, nor a       *)
(* request for the job: whoever asks for the lock of a registry gets it.   *)
EveryoneGetsTheLock ==
  \A g \in Goroutines : at[g] = "find" /\ op[g] = "acquire" ~> at[g] = "held"
=============================================================================
