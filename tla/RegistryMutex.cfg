SPECIFICATION FairSpec
CONSTANTS
  Registries = {r1, r2}
  Requests = {q1, q2}
  Mutexes = {m1, m2}
  NoMutex = NoMutex
INVARIANTS
  JobIsAlone
  ReleasesWhatItTook
PROPERTIES
  ImplementsRegistryLock
  EveryoneGetsTheLock
