------------------------- MODULE RegistryMutexProofs ------------------------
(***************************************************************************)
(* Proofs about RegistryMutex: the map of locks implements one lock per    *)
(* registry, for any number of registries, requests and addresses.         *)
(***************************************************************************)
EXTENDS RegistryMutex, TLAPS

(* A lock that the map holds is allocated, belongs to one registry, and    *)
(* one that is not allocated is free.                                      *)
MapInv ==
  /\ \A r \in Registries : mutexes[r] # NoMutex => mutexes[r] \in used
  /\ \A r, s \in Registries : mutexes[r] # NoMutex /\ mutexes[r] = mutexes[s] => r = s
  /\ \A m \in Mutexes \ used : rw[m] = RW!FreeLock

(* What a goroutine has been given, and what it has taken, is the lock     *)
(* that the map holds for its registry.                                    *)
CallInv ==
  \A g \in Goroutines :
    /\ g \in Registries => registry[g] = g
    /\ at[g] \in {"idle", "wait", "held"} => op[g] = "acquire"
    /\ at[g] = "use" <=> mutex[g] # NoMutex
    /\ mutex[g] # NoMutex => mutex[g] = mutexes[registry[g]]
    /\ at[g] = "wait" \/ Inside(g) => took[g] # NoMutex
    /\ took[g] # NoMutex => at[g] = "wait" \/ Inside(g)
    /\ took[g] # NoMutex => took[g] = mutexes[registry[g]]

(* The state of a lock says where its goroutines are. *)
WriterInv ==
  \A r \in Registries :
    mutexes[r] # NoMutex =>
      rw[mutexes[r]].writer = IF Inside(r) THEN "locked"
                              ELSE IF at[r] = "wait" THEN "waiting" ELSE "none"

ReaderInv ==
  \A q \in Requests :
    /\ \A m \in Mutexes : q \in rw[m].readers \union rw[m].waiting => took[q] = m
    /\ Inside(q) => q \in rw[took[q]].readers

AloneInv ==
  \A m \in Mutexes :
    /\ rw[m].writer = "locked" => rw[m].readers = {}
    /\ rw[m].readers \cap rw[m].waiting = {}

Inv == TypeOK /\ MapInv /\ CallInv /\ WriterInv /\ ReaderInv /\ AloneInv

LEMMA InitInv == Init => Inv
BY MutexAssumption
   DEF Init, Inv, TypeOK, MapInv, CallInv, WriterInv, ReaderInv, AloneInv, Inside,
       Goroutines, RW!FreeLock, RW!LockStates

(* The steps of a lock lead to states of a lock. *)
LEMMA WriterStepTypes ==
  ASSUME NEW l \in RW!LockStates
  PROVE  /\ RW!AskLock(l) \in RW!LockStates
         /\ RW!TakeLock(l) \in RW!LockStates
         /\ RW!LeaveLock(l) \in RW!LockStates
BY DEF RW!LockStates, RW!AskLock, RW!TakeLock, RW!LeaveLock

LEMMA ReaderStepTypes ==
  ASSUME NEW l \in RW!LockStates, NEW q \in Requests
  PROVE  /\ RW!EnterReader(l, q) \in RW!LockStates
         /\ RW!LeaveReader(l, q) \in RW!LockStates
BY DEF RW!LockStates, RW!EnterReader, RW!LeaveReader

LEMMA AcquireInv ==
  ASSUME Inv, NEW g \in Goroutines, NEW r \in Registries, Acquire(g, r)
  PROVE  Inv'
<1> USE MutexAssumption DEF Goroutines
<1>0. TypeOK /\ MapInv /\ CallInv /\ WriterInv /\ ReaderInv /\ AloneInv
  BY DEF Inv
<1>1. TypeOK'
  BY <1>0 DEF Acquire, TypeOK, RW!LockStates
<1>2. MapInv'
  BY <1>0 DEF Acquire, MapInv, TypeOK, RW!LockStates, RW!FreeLock, CallInv, Inside
<1>3. CallInv'
  BY <1>0 DEF Acquire, CallInv, TypeOK, Inside, MapInv
<1>4. WriterInv'
  BY <1>0
     DEF Acquire, WriterInv, CallInv, TypeOK, MapInv, Inside, RW!LockStates, RW!FreeLock
<1>5. ReaderInv'
  BY <1>0 DEF Acquire, ReaderInv, CallInv, TypeOK, Inside, RW!LockStates
<1>6. AloneInv'
  BY <1>0 DEF Acquire, AloneInv, TypeOK, RW!LockStates, WriterInv, CallInv, Inside
<1>7. QED
  BY <1>1, <1>2, <1>3, <1>4, <1>5, <1>6 DEF Inv

LEMMA ReleaseInv ==
  ASSUME Inv, NEW g \in Goroutines, Release(g)
  PROVE  Inv'
<1> USE MutexAssumption DEF Goroutines
<1>0. TypeOK /\ MapInv /\ CallInv /\ WriterInv /\ ReaderInv /\ AloneInv
  BY DEF Inv
<1>1. TypeOK'
  BY <1>0 DEF Release, TypeOK, RW!LockStates
<1>2. MapInv'
  BY <1>0 DEF Release, MapInv, TypeOK, RW!LockStates, RW!FreeLock, CallInv, Inside
<1>3. CallInv'
  BY <1>0 DEF Release, CallInv, TypeOK, Inside, MapInv
<1>4. WriterInv'
  BY <1>0
     DEF Release, WriterInv, CallInv, TypeOK, MapInv, Inside, RW!LockStates, RW!FreeLock
<1>5. ReaderInv'
  BY <1>0 DEF Release, ReaderInv, CallInv, TypeOK, Inside, RW!LockStates
<1>6. AloneInv'
  BY <1>0 DEF Release, AloneInv, TypeOK, RW!LockStates, WriterInv, CallInv, Inside
<1>7. QED
  BY <1>1, <1>2, <1>3, <1>4, <1>5, <1>6 DEF Inv

LEMMA FindInv ==
  ASSUME Inv, NEW g \in Goroutines, Find(g)
  PROVE  Inv'
<1> USE MutexAssumption DEF Goroutines
<1>0. TypeOK /\ MapInv /\ CallInv /\ WriterInv /\ ReaderInv /\ AloneInv
  BY DEF Inv
<1>1. TypeOK'
  BY <1>0 DEF Find, TypeOK, RW!LockStates
<1>2. MapInv'
  BY <1>0 DEF Find, MapInv, TypeOK, RW!LockStates, RW!FreeLock, CallInv, Inside
<1>3. CallInv'
  BY <1>0 DEF Find, CallInv, TypeOK, Inside, MapInv
<1>4. WriterInv'
  BY <1>0 DEF Find, WriterInv, CallInv, TypeOK, MapInv, Inside, RW!LockStates, RW!FreeLock
<1>5. ReaderInv'
  BY <1>0 DEF Find, ReaderInv, CallInv, TypeOK, Inside, RW!LockStates
<1>6. AloneInv'
  BY <1>0 DEF Find, AloneInv, TypeOK, RW!LockStates, WriterInv, CallInv, Inside
<1>7. QED
  BY <1>1, <1>2, <1>3, <1>4, <1>5, <1>6 DEF Inv

LEMMA CreateInv ==
  ASSUME Inv, NEW g \in Goroutines, Create(g)
  PROVE  Inv'
<1> USE MutexAssumption DEF Goroutines
<1>0. TypeOK /\ MapInv /\ CallInv /\ WriterInv /\ ReaderInv /\ AloneInv
  BY DEF Inv
<1>1. TypeOK'
  BY <1>0, SMTT(30) DEF Create, TypeOK, Return
<1>2. MapInv'
  <2>1. CASE UNCHANGED <<mutexes, used>>
    BY <1>0, <2>1 DEF Create, MapInv, Return
  <2>2. CASE mutexes[registry[g]] = NoMutex
    <3>1. PICK m \in Mutexes \ used :
            /\ used' = used \union {m}
            /\ mutexes' = [mutexes EXCEPT ![registry[g]] = m]
            /\ rw' = rw
      BY <2>2 DEF Create, Return
    <3>2. registry[g] \in Registries
      BY <1>0 DEF TypeOK
    <3>3. QED
      BY <1>0, <3>1, <3>2 DEF MapInv, TypeOK
  <2>3. QED
    BY <2>1, <2>2 DEF Create
<1>3. CallInv'
  BY <1>0 DEF Create, CallInv, TypeOK, Inside, MapInv, Return
<1>4. WriterInv'
  BY <1>0
     DEF Create, WriterInv, CallInv, TypeOK, MapInv, Inside, RW!LockStates, RW!FreeLock,
         Return
<1>5. ReaderInv'
  BY <1>0 DEF Create, ReaderInv, CallInv, TypeOK, Inside, RW!LockStates, Return
<1>6. AloneInv'
  BY <1>0 DEF Create, AloneInv, TypeOK, RW!LockStates, WriterInv, CallInv, Inside, Return
<1>7. QED
  BY <1>1, <1>2, <1>3, <1>4, <1>5, <1>6 DEF Inv

LEMMA LockInv ==
  ASSUME Inv, NEW g \in Goroutines, Lock(g)
  PROVE  Inv'
<1> USE MutexAssumption DEF Goroutines
<1>0. TypeOK /\ MapInv /\ CallInv /\ WriterInv /\ ReaderInv /\ AloneInv
  BY DEF Inv
<1>a. mutex[g] \in used /\ mutex[g] \in Mutexes /\ mutex[g] = mutexes[registry[g]]
  BY <1>0 DEF Lock, TypeOK, MapInv, CallInv, Inside
<1>b. \E l \in RW!LockStates : rw' = [rw EXCEPT ![mutex[g]] = l]
  BY <1>0, <1>a, WriterStepTypes DEF Lock, TypeOK, RW!LockAsked, RW!Step
<1>1. TypeOK'
  BY <1>0, <1>a, <1>b DEF Lock, TypeOK
<1>2. MapInv'
  BY <1>0, <1>a, <1>b DEF Lock, MapInv, TypeOK
<1>3. CallInv'
  BY <1>0, <1>a DEF Lock, CallInv, TypeOK, Inside, MapInv, RW!LockAsked, RW!AskLock, RW!Step
<1>4. WriterInv'
  BY <1>0, <1>a
     DEF Lock, WriterInv, CallInv, TypeOK, MapInv, Inside, RW!LockStates, RW!FreeLock,
         RW!LockAsked, RW!AskLock, RW!Step
<1>5. ReaderInv'
  BY <1>0, <1>a
     DEF Lock, ReaderInv, CallInv, TypeOK, Inside, RW!LockStates, RW!LockAsked,
         RW!AskLock, RW!Step
<1>6. AloneInv'
  BY <1>0, <1>a
     DEF Lock, AloneInv, TypeOK, RW!LockStates, WriterInv, CallInv, Inside,
         RW!LockAsked, RW!AskLock, RW!Step
<1>7. QED
  BY <1>1, <1>2, <1>3, <1>4, <1>5, <1>6 DEF Inv

LEMMA LockAcquiredInv ==
  ASSUME Inv, NEW g \in Goroutines, LockAcquired(g)
  PROVE  Inv'
<1> USE MutexAssumption DEF Goroutines
<1>0. TypeOK /\ MapInv /\ CallInv /\ WriterInv /\ ReaderInv /\ AloneInv
  BY DEF Inv
<1>a. took[g] \in used /\ took[g] \in Mutexes /\ took[g] = mutexes[registry[g]]
  BY <1>0 DEF LockAcquired, TypeOK, MapInv, CallInv, Inside
<1>b. \E l \in RW!LockStates : rw' = [rw EXCEPT ![took[g]] = l]
  BY <1>0, <1>a, WriterStepTypes DEF LockAcquired, TypeOK, RW!Locked, RW!Step
<1>1. TypeOK'
  BY <1>0, <1>a, <1>b DEF LockAcquired, TypeOK
<1>2. MapInv'
  BY <1>0, <1>a, <1>b DEF LockAcquired, MapInv, TypeOK
<1>3. CallInv'
  BY <1>0, <1>a
     DEF LockAcquired, CallInv, TypeOK, Inside, MapInv, RW!Locked, RW!TakeLock, RW!Step
<1>4. WriterInv'
  BY <1>0, <1>a
     DEF LockAcquired, WriterInv, CallInv, TypeOK, MapInv, Inside, RW!LockStates,
         RW!FreeLock, RW!Locked, RW!TakeLock, RW!Step
<1>5. ReaderInv'
  BY <1>0, <1>a
     DEF LockAcquired, ReaderInv, CallInv, TypeOK, Inside, RW!LockStates, RW!Locked,
         RW!TakeLock, RW!Step
<1>6. AloneInv'
  BY <1>0, <1>a
     DEF LockAcquired, AloneInv, TypeOK, RW!LockStates, WriterInv, CallInv, Inside,
         RW!Locked, RW!TakeLock, RW!Step
<1>7. QED
  BY <1>1, <1>2, <1>3, <1>4, <1>5, <1>6 DEF Inv

LEMMA RLockInv ==
  ASSUME Inv, NEW g \in Goroutines, RLock(g)
  PROVE  Inv'
<1> USE MutexAssumption DEF Goroutines
<1>0. TypeOK /\ MapInv /\ CallInv /\ WriterInv /\ ReaderInv /\ AloneInv
  BY DEF Inv
<1>a. mutex[g] \in used /\ mutex[g] \in Mutexes /\ mutex[g] = mutexes[registry[g]]
  BY <1>0 DEF RLock, TypeOK, MapInv, CallInv, Inside
<1>b. \E l \in RW!LockStates : rw' = [rw EXCEPT ![mutex[g]] = l]
  BY <1>0, <1>a, ReaderStepTypes DEF RLock, TypeOK, RW!RLocked, RW!Step
<1>1. TypeOK'
  BY <1>0, <1>a, <1>b DEF RLock, TypeOK
<1>2. MapInv'
  BY <1>0, <1>a, <1>b DEF RLock, MapInv, TypeOK
<1>3. CallInv'
  BY <1>0, <1>a
     DEF RLock, CallInv, TypeOK, Inside, MapInv, RW!RLocked, RW!EnterReader, RW!Step
<1>4. WriterInv'
  BY <1>0, <1>a
     DEF RLock, WriterInv, CallInv, TypeOK, MapInv, Inside, RW!LockStates, RW!FreeLock,
         RW!RLocked, RW!EnterReader, RW!Step
<1>5. ReaderInv'
  BY <1>0, <1>a
     DEF RLock, ReaderInv, CallInv, TypeOK, Inside, RW!LockStates, RW!RLocked,
         RW!EnterReader, RW!Step
<1>6. AloneInv'
  BY <1>0, <1>a
     DEF RLock, AloneInv, TypeOK, RW!LockStates, WriterInv, CallInv, Inside, RW!RLocked,
         RW!EnterReader, RW!Step
<1>7. QED
  BY <1>1, <1>2, <1>3, <1>4, <1>5, <1>6 DEF Inv

LEMMA RLockAcquiredInv ==
  ASSUME Inv, NEW g \in Goroutines, RLockAcquired(g)
  PROVE  Inv'
<1> USE MutexAssumption DEF Goroutines
<1>0. TypeOK /\ MapInv /\ CallInv /\ WriterInv /\ ReaderInv /\ AloneInv
  BY DEF Inv
<1>1. TypeOK'
  BY <1>0 DEF RLockAcquired, TypeOK, RW!LockStates
<1>2. MapInv'
  BY <1>0 DEF RLockAcquired, MapInv, TypeOK, RW!LockStates, RW!FreeLock, CallInv, Inside
<1>3. CallInv'
  BY <1>0 DEF RLockAcquired, CallInv, TypeOK, Inside, MapInv
<1>4. WriterInv'
  BY <1>0
     DEF RLockAcquired, WriterInv, CallInv, TypeOK, MapInv, Inside, RW!LockStates,
         RW!FreeLock
<1>5. ReaderInv'
  BY <1>0 DEF RLockAcquired, ReaderInv, CallInv, TypeOK, Inside, RW!LockStates
<1>6. AloneInv'
  BY <1>0 DEF RLockAcquired, AloneInv, TypeOK, RW!LockStates, WriterInv, CallInv, Inside
<1>7. QED
  BY <1>1, <1>2, <1>3, <1>4, <1>5, <1>6 DEF Inv

LEMMA UnlockInv ==
  ASSUME Inv, NEW g \in Goroutines, Unlock(g)
  PROVE  Inv'
<1> USE MutexAssumption DEF Goroutines
<1>0. TypeOK /\ MapInv /\ CallInv /\ WriterInv /\ ReaderInv /\ AloneInv
  BY DEF Inv
<1>a. mutex[g] \in used /\ mutex[g] \in Mutexes /\ mutex[g] = mutexes[registry[g]]
  BY <1>0 DEF Unlock, TypeOK, MapInv, CallInv, Inside
<1>b. \E l \in RW!LockStates : rw' = [rw EXCEPT ![mutex[g]] = l]
  BY <1>0, <1>a, WriterStepTypes, ReaderStepTypes
     DEF Unlock, TypeOK, RW!Unlocked, RW!RUnlocked, RW!Step
<1>1. TypeOK'
  BY <1>0, <1>a, <1>b DEF Unlock, TypeOK
<1>2. MapInv'
  BY <1>0, <1>a, <1>b DEF Unlock, MapInv, TypeOK
<1>3. CallInv'
  BY <1>0, <1>a
     DEF Unlock, CallInv, TypeOK, Inside, MapInv, RW!Unlocked, RW!LeaveLock,
         RW!RUnlocked, RW!LeaveReader, RW!Step
<1>4. WriterInv'
  <2>1. CASE g \in Registries
    BY <1>0, <1>a, <2>1
       DEF Unlock, WriterInv, CallInv, TypeOK, MapInv, Inside,
           RW!LockStates, RW!Unlocked, RW!LeaveLock, RW!Step
  <2>2. CASE g \in Requests
    BY <1>0, <1>a, <2>2
       DEF Unlock, WriterInv, CallInv, TypeOK, MapInv, Inside,
           RW!LockStates, RW!RUnlocked, RW!LeaveReader, RW!Step
  <2>3. QED
    BY <2>1, <2>2
<1>5. ReaderInv'
  <2>1. CASE g \in Registries
    BY <1>0, <1>a, <2>1, SMTT(30)
       DEF Unlock, ReaderInv, AloneInv, CallInv, TypeOK, Inside,
           RW!LockStates, RW!Unlocked, RW!LeaveLock, RW!Step
  <2>2. CASE g \in Requests
    BY <1>0, <1>a, <2>2, SMTT(30)
       DEF Unlock, ReaderInv, AloneInv, CallInv, TypeOK, Inside,
           RW!LockStates, RW!RUnlocked, RW!LeaveReader, RW!Step
  <2>3. QED
    BY <2>1, <2>2
<1>6. AloneInv'
  <2>1. CASE g \in Registries
    BY <1>0, <1>a, <2>1
       DEF Unlock, AloneInv, TypeOK,
           RW!LockStates, RW!Unlocked, RW!LeaveLock, RW!Step
  <2>2. CASE g \in Requests
    BY <1>0, <1>a, <2>2
       DEF Unlock, AloneInv, TypeOK,
           RW!LockStates, RW!RUnlocked, RW!LeaveReader, RW!Step
  <2>3. QED
    BY <2>1, <2>2
<1>7. QED
  BY <1>1, <1>2, <1>3, <1>4, <1>5, <1>6 DEF Inv

LEMMA NextInv == Inv /\ [Next]_vars => Inv'
<1> SUFFICES ASSUME Inv, [Next]_vars PROVE Inv'
  OBVIOUS
<1>1. CASE UNCHANGED vars
  BY <1>1 DEF vars, Inv, TypeOK, MapInv, CallInv, WriterInv, ReaderInv, AloneInv, Inside
<1>2. ASSUME NEW g \in Goroutines, Proceed(g) PROVE Inv'
  BY <1>2, ReleaseInv, FindInv, CreateInv, LockInv, LockAcquiredInv, RLockInv,
     RLockAcquiredInv, UnlockInv DEF Proceed
<1>3. ASSUME NEW g \in Goroutines, NEW r \in Registries, Acquire(g, r) PROVE Inv'
  BY <1>3, AcquireInv
<1>4. QED
  BY <1>1, <1>2, <1>3 DEF Next

(* What getOrCreateMutex returns, what the calls have taken and what the   *)
(* locks say agree in every reachable state.                               *)
THEOREM MapAndLocksAgree == Spec => []Inv
BY InitInv, NextInv, PTL DEF Spec

(* No request reads the tree of a registry while its job writes it. *)
THEOREM JobWritesAlone == Spec => []JobIsAlone
<1>1. Inv => JobIsAlone
  <2> SUFFICES ASSUME Inv, NEW r \in Registries, NEW q \in Requests,
                      Inside(r), Inside(q), registry[q] = r
               PROVE  FALSE
    BY DEF JobIsAlone
  <2> USE DEF Inv
  <2>1. r \in Goroutines /\ q \in Goroutines
    BY DEF Goroutines
  <2>2. /\ took[r] = mutexes[r] /\ took[q] = mutexes[r]
        /\ took[q] # NoMutex /\ took[q] \in Mutexes
    BY <2>1 DEF CallInv, TypeOK
  <2>3. rw[took[q]].writer = "locked"
    BY <2>2 DEF WriterInv
  <2>4. q \in rw[took[q]].readers
    BY DEF ReaderInv
  <2>5. QED
    BY <2>2, <2>3, <2>4 DEF AloneInv
<1>2. QED
  BY <1>1, MapAndLocksAgree, PTL

(* What Unlock and RUnlock look up is what the same goroutine has locked. *)
THEOREM ReleaseFindsTheLock == Spec => []ReleasesWhatItTook
<1>1. Inv => ReleasesWhatItTook
  <2> SUFFICES ASSUME Inv, NEW g \in Goroutines, at[g] = "use", op[g] = "release"
               PROVE  /\ mutex[g] = took[g]
                      /\ IF g \in Registries THEN rw[mutex[g]].writer = "locked"
                         ELSE g \in rw[mutex[g]].readers
    BY DEF ReleasesWhatItTook
  <2> USE DEF Inv, Inside
  <2>1. mutex[g] = took[g] /\ took[g] = mutexes[registry[g]] /\ took[g] # NoMutex
    BY DEF CallInv
  <2>2. CASE g \in Registries
    BY <2>1, <2>2 DEF CallInv, WriterInv
  <2>3. CASE g \notin Registries
    BY <2>1, <2>3 DEF ReaderInv, Goroutines
  <2>4. QED
    BY <2>1, <2>2, <2>3
<1>2. QED
  BY <1>1, MapAndLocksAgree, PTL

-----------------------------------------------------------------------------
(* A step of the lock that the map holds for a registry is a step of the   *)
(* lock of that registry and of no other.                                  *)
LEMMA StepOfRegistry ==
  ASSUME Inv, NEW r \in Registries, mutexes[r] # NoMutex, NEW l,
         RW!Step(mutexes[r], l), UNCHANGED mutexes
  PROVE  LockOf[r] = rw[mutexes[r]] /\ RegistryLocks!Step(r, l)
<1>1. LockOf[r] = rw[mutexes[r]]
  BY DEF LockOf
<1>2. mutexes[r] \in Mutexes
  BY DEF Inv, TypeOK
<1>3. ASSUME NEW s \in Registries
      PROVE  LockOf'[s] = IF s = r THEN l ELSE LockOf[s]
  BY <1>2, <1>3 DEF Inv, TypeOK, MapInv, LockOf, RW!Step
<1>4. LockOf' = [LockOf EXCEPT ![r] = l]
  BY <1>3 DEF LockOf
<1>5. QED
  BY <1>1, <1>4 DEF RegistryLocks!Step

(* A lock that is created for a registry is free, as the registry's was. *)
LEMMA CreationIsInvisible ==
  ASSUME Inv, NEW g \in Goroutines, Create(g)
  PROVE  LockOf' = LockOf
<1>1. CASE UNCHANGED mutexes
  BY <1>1 DEF Create, Return, LockOf
<1>2. CASE mutexes[registry[g]] = NoMutex
  <2>1. PICK m \in Mutexes \ used :
          mutexes' = [mutexes EXCEPT ![registry[g]] = m] /\ rw' = rw
    BY <1>2 DEF Create, Return
  <2>2. rw[m] = RW!FreeLock
    BY DEF Inv, MapInv
  <2>3. \A s \in Registries : LockOf'[s] = LockOf[s]
    BY <1>2, <2>1, <2>2, MutexAssumption DEF Inv, TypeOK, LockOf
  <2>4. QED
    BY <2>3 DEF LockOf
<1>3. QED
  BY <1>1, <1>2 DEF Create

LEMMA ProceedRefines ==
  ASSUME Inv, NEW g \in Goroutines, Proceed(g)
  PROVE  [RegistryLocks!Next]_LockOf
<1> DEFINE r == registry[g]
<1>0. r \in Registries
  BY DEF Inv, TypeOK
<1>1. CASE Release(g) \/ Find(g) \/ RLockAcquired(g)
  BY <1>1 DEF Release, Find, RLockAcquired, LockOf
<1>2. CASE Create(g)
  BY <1>2, CreationIsInvisible
<1>3. ASSUME at[g] = "use" PROVE mutexes[r] # NoMutex /\ mutex[g] = mutexes[r]
  BY <1>3 DEF Inv, CallInv
<1>4. ASSUME at[g] = "wait" PROVE mutexes[r] # NoMutex /\ took[g] = mutexes[r]
  BY <1>4 DEF Inv, CallInv
<1>5. CASE Lock(g)
  <2>1. RW!LockAsked(mutexes[r]) /\ mutexes[r] # NoMutex /\ UNCHANGED mutexes
    BY <1>3, <1>5 DEF Lock
  <2>2. RegistryLocks!LockAsked(r)
    BY <1>0, <2>1, StepOfRegistry
       DEF RW!LockAsked, RegistryLocks!LockAsked, RW!AskLock, RegistryLocks!AskLock
  <2>3. QED
    BY <1>0, <2>2 DEF RegistryLocks!Next
<1>6. CASE LockAcquired(g)
  <2>1. RW!Locked(mutexes[r]) /\ mutexes[r] # NoMutex /\ UNCHANGED mutexes
    BY <1>4, <1>6 DEF LockAcquired
  <2>2. RegistryLocks!Locked(r)
    BY <1>0, <2>1, StepOfRegistry
       DEF RW!Locked, RegistryLocks!Locked, RW!TakeLock, RegistryLocks!TakeLock
  <2>3. QED
    BY <1>0, <2>2 DEF RegistryLocks!Next
<1>7. CASE RLock(g)
  <2>1. RW!RLocked(mutexes[r], g) /\ mutexes[r] # NoMutex /\ UNCHANGED mutexes
    BY <1>3, <1>7 DEF RLock
  <2>2. RegistryLocks!RLocked(r, g)
    BY <1>0, <2>1, StepOfRegistry
       DEF RW!RLocked, RegistryLocks!RLocked, RW!EnterReader, RegistryLocks!EnterReader
  <2>3. QED
    BY <1>0, <1>7, <2>2 DEF RLock, RegistryLocks!Next
<1>8. CASE Unlock(g) /\ g \in Registries
  <2>1. RW!Unlocked(mutexes[r]) /\ mutexes[r] # NoMutex /\ UNCHANGED mutexes
    BY <1>3, <1>8 DEF Unlock
  <2>2. RegistryLocks!Unlocked(r)
    BY <1>0, <2>1, StepOfRegistry
       DEF RW!Unlocked, RegistryLocks!Unlocked, RW!LeaveLock, RegistryLocks!LeaveLock
  <2>3. QED
    BY <1>0, <2>2 DEF RegistryLocks!Next
<1>9. CASE Unlock(g) /\ g \notin Registries
  <2>1. RW!RUnlocked(mutexes[r], g) /\ mutexes[r] # NoMutex /\ UNCHANGED mutexes
    BY <1>3, <1>9 DEF Unlock
  <2>2. RegistryLocks!RUnlocked(r, g)
    BY <1>0, <2>1, StepOfRegistry
       DEF RW!RUnlocked, RegistryLocks!RUnlocked, RW!LeaveReader, RegistryLocks!LeaveReader
  <2>3. QED
    BY <1>0, <1>9, <2>2 DEF Goroutines, RegistryLocks!Next
<1>10. QED
  BY <1>1, <1>2, <1>5, <1>6, <1>7, <1>8, <1>9 DEF Proceed

(* The map of locks created on demand implements one lock per registry. *)
THEOREM MutexImplementsRegistryLock == Spec => ImplementsRegistryLock
<1>1. Init => RegistryLocks!Init
  BY DEF Init, RegistryLocks!Init, LockOf, RW!FreeLock, RegistryLocks!FreeLock
<1>2. Inv /\ [Next]_vars => [RegistryLocks!Next]_LockOf
  <2> SUFFICES ASSUME Inv, [Next]_vars PROVE [RegistryLocks!Next]_LockOf
    OBVIOUS
  <2>1. CASE UNCHANGED vars
    BY <2>1 DEF vars, LockOf
  <2>2. ASSUME NEW g \in Goroutines, Proceed(g) PROVE [RegistryLocks!Next]_LockOf
    BY <2>2, ProceedRefines
  <2>3. ASSUME NEW g \in Goroutines, NEW r \in Registries, Acquire(g, r)
        PROVE  [RegistryLocks!Next]_LockOf
    BY <2>3 DEF Acquire, LockOf
  <2>4. QED
    BY <2>1, <2>2, <2>3 DEF Next
<1>3. QED
  BY <1>1, <1>2, MapAndLocksAgree, PTL DEF Spec, ImplementsRegistryLock, RegistryLocks!Spec
=============================================================================
