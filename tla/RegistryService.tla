--------------------------- MODULE RegistryService --------------------------
(***************************************************************************)
(* Which registry's data is stored where.  On every start the application  *)
(* initialises the registries of its configuration one after the other:    *)
(* each gets a one-byte index, which is the prefix of its leaves in the    *)
(* database, then its metadata, which repeats the index, and then a place  *)
(* in the cache that the query handlers look it up in.  Index and metadata *)
(* are two separate writes, and the process may stop between them.         *)
(*                                                                         *)
(* Leaves are written under the index in the metadata and read under the   *)
(* index of the address.                                                   *)
(***************************************************************************)
EXTENDS Integers, Sequences

CONSTANTS
  Addresses,      \* contract addresses
  NotFound,       \* types.ErrNotFound
  IndexModulus,   \* a RegistryIndex is a byte: arithmetic is modulo 2^8
  MaxConfigured   \* bound: addresses in one configuration

ASSUME ModulusAssumption == IndexModulus \in Nat \ {0}

RegistryIndex == 0..(IndexModulus - 1)

ASSUME SentinelAssumption == NotFound \notin RegistryIndex

VARIABLES
  registryIndex,  \* database: address -> index, or NotFound
  counter,        \* database: the index given last, or NotFound
  metadata,       \* database: address -> the index in its metadata, or NotFound
  registry,       \* Service.registry: index -> registry, for those it holds
  todo,           \* the addresses that are still to be initialised
  pc,             \* where the application is
  index,          \* InitializeRegistry: its local registryIndex
  applied         \* history variable: how many addresses were given an index

dbVars == <<registryIndex, counter, metadata, applied>>
vars   == <<dbVars, registry, todo, pc, index>>

NoRegistry == [i \in {} |-> NotFound]

(* InitializeService and configureZkCertificateRegistry, for any           *)
(* configuration: it may differ from the one of the last start.            *)
Start ==
  /\ pc = "down"
  /\ \E n \in 1..MaxConfigured : todo' \in [1..n -> Addresses]
  /\ registry' = NoRegistry
  /\ pc' = "index"
  /\ UNCHANGED <<dbVars, index>>

(* Mutant of getNextRegistryIndex: the counter is given again. *)
getLastRegistryIndex == IF counter = NotFound THEN 0 ELSE counter

getNextRegistryIndex ==
  IF counter = NotFound THEN 0 ELSE (counter + 1) % IndexModulus

FindRegistryIndex(a) == registryIndex[a]

(* An address that has an index already is an error, with which the start  *)
(* ends (Stop).                                                            *)
setIndex(a, i) ==
  /\ FindRegistryIndex(a) = NotFound
  /\ registryIndex' = [registryIndex EXCEPT ![a] = i]

(* A known address is given the index it has.  Index and counter of a new  *)
(* one are written in one batch.                                           *)
ApplyAddressToIndex(a) ==
  IF FindRegistryIndex(a) # NotFound
  THEN index' = FindRegistryIndex(a) /\ UNCHANGED dbVars
  ELSE /\ index' = getNextRegistryIndex
       /\ setIndex(a, getNextRegistryIndex)
       /\ counter' = getNextRegistryIndex
       /\ applied' = applied + 1
       /\ UNCHANGED metadata

(* InitializeRegistry begins with the index of the registry. *)
FindOrApplyIndex ==
  /\ pc = "index"
  /\ IF FindRegistryIndex(Head(todo)) # NotFound
     THEN index' = FindRegistryIndex(Head(todo)) /\ UNCHANGED dbVars
     ELSE ApplyAddressToIndex(Head(todo))
  /\ pc' = "metadata"
  /\ UNCHANGED <<registry, todo>>

(* Mutant of FetchMetadata: metadata.Index is left at zero. *)
FetchMetadataNoIndex ==
  /\ pc = "metadata"
  /\ metadata' = IF metadata[Head(todo)] # NotFound THEN metadata
                 ELSE [metadata EXCEPT ![Head(todo)] = 0]
  /\ pc' = "cache"
  /\ UNCHANGED <<registryIndex, counter, applied, registry, todo, index>>

(* The metadata is read, or fetched from the contract and stored. *)
FetchMetadata ==
  /\ pc = "metadata"
  /\ metadata' = IF metadata[Head(todo)] # NotFound THEN metadata
                 ELSE [metadata EXCEPT ![Head(todo)] = index]
  /\ pc' = "cache"
  /\ UNCHANGED <<registryIndex, counter, applied, registry, todo, index>>

(* Mutant of CacheRegistry: one turn too many. *)
CacheRegistryOneMore ==
  /\ pc = "cache"
  /\ registry' = [i \in DOMAIN registry \union {index} |->
                    IF i = index THEN Head(todo) ELSE registry[i]]
  /\ todo' = Tail(todo)
  /\ pc' = IF Len(todo) = 0 THEN "up" ELSE "index"
  /\ UNCHANGED <<dbVars, index>>

(* Mutant of CacheRegistry: the registry is cached under the last index. *)
CacheRegistryAtCounter ==
  /\ pc = "cache"
  /\ registry' = [i \in DOMAIN registry \union {counter} |->
                    IF i = counter THEN Head(todo) ELSE registry[i]]
  /\ todo' = Tail(todo)
  /\ pc' = IF Len(todo) = 1 THEN "up" ELSE "index"
  /\ UNCHANGED <<dbVars, index>>

CacheRegistry ==
  /\ pc = "cache"
  /\ registry' = [i \in DOMAIN registry \union {index} |->
                    IF i = index THEN Head(todo) ELSE registry[i]]
  /\ todo' = Tail(todo)
  /\ pc' = IF Len(todo) = 1 THEN "up" ELSE "index"
  /\ UNCHANGED <<dbVars, index>>

(* A call to the node or the database fails, or the process stops. *)
Stop ==
  /\ pc # "down"
  /\ pc' = "down"
  /\ todo' = <<>>
  /\ registry' = NoRegistry
  /\ UNCHANGED <<dbVars, index>>

Init ==
  /\ registryIndex = [a \in Addresses |-> NotFound]
  /\ counter = NotFound
  /\ metadata = [a \in Addresses |-> NotFound]
  /\ registry = NoRegistry
  /\ todo = <<>>
  /\ pc = "down"
  /\ index = 0
  /\ applied = 0

Next == Start \/ FindOrApplyIndex \/ FetchMetadata \/ CacheRegistry \/ Stop

Spec == Init /\ [][Next]_vars

(* Service.ZKCertificateRegistry: what a query for an address finds.       *)
ZKCertificateRegistry(a) ==
  IF registryIndex[a] \in DOMAIN registry THEN registry[registryIndex[a]] ELSE NotFound

-----------------------------------------------------------------------------
(***************************************************************************)
(* Properties.                                                             *)
(***************************************************************************)

(* The variables have their types. *)
TypeOK ==
  /\ registryIndex \in [Addresses -> RegistryIndex \union {NotFound}]
  /\ counter \in RegistryIndex \union {NotFound}
  /\ metadata \in [Addresses -> RegistryIndex \union {NotFound}]
  /\ DOMAIN registry \subseteq RegistryIndex
  /\ \A i \in DOMAIN registry : registry[i] \in Addresses
  /\ todo \in Seq(Addresses)
  /\ pc \in {"down", "index", "metadata", "cache", "up"}
  /\ pc \in {"index", "metadata", "cache"} => todo # <<>>
  /\ index \in RegistryIndex
  /\ applied \in Nat

(* "get the next available index" (index_storage.go:65): no two registries *)
(* have the same index, and so none overwrites the leaves of another.      *)
IndexIsAvailable ==
  \A a, b \in Addresses : registryIndex[a] # NotFound /\ registryIndex[a] = registryIndex[b] => a = b

(* It holds as long as there are no more registries than bytes, over any   *)
(* number of restarts with any configurations.                             *)
IndexIsAvailableInRange == applied <= IndexModulus => IndexIsAvailable

(* The index under which CommitOperations writes a registry's nodes, that  *)
(* of the metadata, is the one under which they are read, also when a      *)
(* start failed between the two writes and a later one completes it.       *)
MetadataIndexAgrees ==
  \A a \in Addresses : metadata[a] # NotFound => metadata[a] = registryIndex[a]

(* A query handler never answers from another registry than it was asked   *)
(* for: the cache, of this start's configuration, and the stored indices,  *)
(* of all starts, agree.                                                   *)
QueriesFindTheirRegistry ==
  applied <= IndexModulus =>
    \A a \in Addresses : ZKCertificateRegistry(a) \in {a, NotFound}
=============================================================================
