------------------------ MODULE RegistryServiceProofs -----------------------
(* Proofs about RegistryService, for any addresses and any index width. *)
EXTENDS RegistryService, TLAPS

(* The indices below applied have been given, each to one address.         *)
IndexInv ==
  applied <= IndexModulus =>
    /\ IF applied = 0 THEN counter = NotFound ELSE counter = applied - 1
    /\ \A a \in Addresses : registryIndex[a] # NotFound => registryIndex[a] < applied
    /\ IndexIsAvailable

(* What is in memory is in the database. *)
MemoryInv ==
  /\ pc \in {"metadata", "cache"} => registryIndex[Head(todo)] = index
  /\ \A i \in DOMAIN registry : registryIndex[registry[i]] = i

Inv == TypeOK /\ IndexInv /\ MemoryInv /\ MetadataIndexAgrees

(* The initial state: an empty database and no process. *)
LEMMA InitInv == Init => Inv
<1> SUFFICES ASSUME Init PROVE Inv
  OBVIOUS
<1>1. TypeOK
  BY ModulusAssumption DEF Init, TypeOK, NoRegistry, RegistryIndex
<1>2. IndexInv /\ MemoryInv /\ MetadataIndexAgrees
  BY DEF Init, IndexInv, IndexIsAvailable, MemoryInv, MetadataIndexAgrees, NoRegistry
<1> QED
  BY <1>1, <1>2 DEF Inv

(* ApplyAddressToIndex gives a new address an index that none has, as long *)
(* as indices are left.                                                    *)
LEMMA ApplyKeeps ==
  ASSUME Inv, NEW a \in Addresses, registryIndex[a] = NotFound, ApplyAddressToIndex(a)
  PROVE  /\ registryIndex' \in [Addresses -> RegistryIndex \union {NotFound}]
         /\ counter' \in RegistryIndex /\ index' \in RegistryIndex /\ applied' \in Nat
         /\ registryIndex'[a] = index'
         /\ \A b \in Addresses \ {a} : registryIndex'[b] = registryIndex[b]
         /\ IndexInv'
<1> DEFINE n == getNextRegistryIndex
<1>1. n \in RegistryIndex
  <2>1. CASE counter = NotFound
    BY <2>1, ModulusAssumption DEF getNextRegistryIndex, RegistryIndex
  <2>2. CASE counter \in RegistryIndex
    <3>1. counter + 1 \in Nat
      BY <2>2, ModulusAssumption DEF RegistryIndex
    <3>2. (counter + 1) % IndexModulus \in 0..(IndexModulus - 1)
      BY <3>1, ModulusAssumption
    <3> QED
      BY <3>2, <2>2, SentinelAssumption DEF getNextRegistryIndex, RegistryIndex
  <2> QED
    BY <2>1, <2>2 DEF Inv, TypeOK
<1>2. /\ index' = n /\ counter' = n /\ applied' = applied + 1
      /\ registryIndex' = [registryIndex EXCEPT ![a] = n]
  BY DEF ApplyAddressToIndex, FindRegistryIndex, setIndex
<1>3. /\ registryIndex \in [Addresses -> RegistryIndex \union {NotFound}]
      /\ applied \in Nat
  BY DEF Inv, TypeOK
<1>4. ASSUME applied + 1 <= IndexModulus
      PROVE  n = applied
  <2>1. IF applied = 0 THEN counter = NotFound ELSE counter = applied - 1
    BY <1>3, <1>4, ModulusAssumption DEF Inv, IndexInv
  <2>2. CASE applied = 0
    BY <2>1, <2>2 DEF getNextRegistryIndex
  <2>3. CASE applied # 0
    <3>1. counter = applied - 1 /\ counter \in RegistryIndex
      BY <2>1, <2>3, <1>3, <1>4, ModulusAssumption DEF RegistryIndex
    <3>2. counter # NotFound
      BY <3>1, SentinelAssumption
    <3>3. n = applied % IndexModulus
      BY <3>1, <3>2, <1>3 DEF getNextRegistryIndex
    <3> QED
      BY <3>3, <1>3, <1>4, ModulusAssumption
  <2> QED
    BY <2>2, <2>3
<1> HIDE DEF n
<1>5. IndexInv'
  <2> SUFFICES ASSUME applied' <= IndexModulus
               PROVE  /\ IF applied' = 0 THEN counter' = NotFound ELSE counter' = applied' - 1
                      /\ \A b \in Addresses :
                           registryIndex'[b] # NotFound => registryIndex'[b] < applied'
                      /\ IndexIsAvailable'
    BY DEF IndexInv
  <2>1. n = applied
    BY <1>2, <1>4
  <2>2. \A b \in Addresses : registryIndex[b] # NotFound => registryIndex[b] < applied
    BY <1>2, <1>3, ModulusAssumption DEF Inv, IndexInv
  <2>3. IndexIsAvailable
    BY <1>2, <1>3, ModulusAssumption DEF Inv, IndexInv
  <2>4. \A b \in Addresses : registryIndex'[b] # NotFound => registryIndex'[b] < applied'
    BY <2>1, <2>2, <1>1, <1>2, <1>3 DEF RegistryIndex
  <2>5. IndexIsAvailable'
    BY <2>1, <2>2, <2>3, <1>1, <1>2, <1>3 DEF IndexIsAvailable, RegistryIndex
  <2> QED
    BY <2>1, <2>4, <2>5, <1>2, <1>3
<1> QED
  BY <1>1, <1>2, <1>3, <1>5

(* Every step of the application, and every stop, keeps the invariant. *)
LEMMA NextKeepsInv == Inv /\ [Next]_vars => Inv'
<1> SUFFICES ASSUME Inv, [Next]_vars PROVE Inv'
  OBVIOUS
<1> USE DEF Inv
<1>1. CASE Start
  <2>1. TypeOK'
    <3>1. todo' \in Seq(Addresses) /\ todo' # <<>>
      BY <1>1 DEF Start
    <3> QED
      BY <3>1, <1>1 DEF Start, TypeOK, dbVars, NoRegistry
  <2>2. IndexInv' /\ MemoryInv' /\ MetadataIndexAgrees'
    BY <1>1 DEF Start, dbVars, IndexInv, IndexIsAvailable, MemoryInv, MetadataIndexAgrees,
                NoRegistry
  <2> QED
    BY <2>1, <2>2
<1>2. CASE FindOrApplyIndex
  <2> DEFINE a == Head(todo)
  <2>1. a \in Addresses
    BY <1>2 DEF FindOrApplyIndex, TypeOK
  <2>2. pc' = "metadata" /\ UNCHANGED <<registry, todo>> /\ todo # <<>>
    BY <1>2 DEF FindOrApplyIndex, TypeOK
  <2>3. CASE registryIndex[a] # NotFound
    <3>1. index' = registryIndex[a] /\ UNCHANGED dbVars
      BY <1>2, <2>3 DEF FindOrApplyIndex, FindRegistryIndex
    <3> QED
      BY <2>1, <2>2, <2>3, <3>1
      DEF dbVars, TypeOK, IndexInv, IndexIsAvailable, MemoryInv, MetadataIndexAgrees
  <2>4. CASE registryIndex[a] = NotFound
    <3>1. ApplyAddressToIndex(a)
      BY <1>2, <2>4 DEF FindOrApplyIndex, FindRegistryIndex
    <3>2. /\ registryIndex' \in [Addresses -> RegistryIndex \union {NotFound}]
          /\ counter' \in RegistryIndex /\ index' \in RegistryIndex /\ applied' \in Nat
          /\ registryIndex'[a] = index'
          /\ \A b \in Addresses \ {a} : registryIndex'[b] = registryIndex[b]
          /\ IndexInv'
      BY <2>1, <2>4, <3>1, ApplyKeeps
    <3>3. UNCHANGED metadata
      BY <2>4, <3>1 DEF ApplyAddressToIndex, FindRegistryIndex
    <3>4. TypeOK'
      BY <2>2, <3>2, <3>3 DEF TypeOK
    <3>5. MetadataIndexAgrees'
      BY <2>1, <2>4, <3>2, <3>3 DEF MetadataIndexAgrees
    <3>6. MemoryInv'
      <4>1. \A i \in DOMAIN registry : i # NotFound /\ registry[i] \in Addresses
        BY SentinelAssumption DEF TypeOK
      <4>2. \A i \in DOMAIN registry : registry[i] # a
        BY <2>4, <4>1 DEF MemoryInv
      <4> QED
        BY <2>2, <3>2, <4>1, <4>2 DEF MemoryInv
    <3> QED
      BY <3>2, <3>4, <3>5, <3>6
  <2> QED
    BY <2>3, <2>4
<1>3. CASE FetchMetadata
  <2>1. Head(todo) \in Addresses
    BY <1>3 DEF FetchMetadata, TypeOK
  <2> QED
    BY <1>3, <2>1 DEF FetchMetadata, TypeOK, IndexInv, IndexIsAvailable, MemoryInv,
                      MetadataIndexAgrees
<1>4. CASE CacheRegistry
  <2>1. Head(todo) \in Addresses /\ todo # <<>> /\ todo \in Seq(Addresses)
    BY <1>4 DEF CacheRegistry, TypeOK
  <2>2. /\ todo' \in Seq(Addresses)
        /\ pc' \in {"up", "index"}
        /\ pc' = "index" => todo' # <<>>
    <3>1. /\ Tail(todo) \in Seq(Addresses)
          /\ Len(Tail(todo)) = Len(todo) - 1 /\ Len(todo) \in Nat
      BY <2>1
    <3>2. Len(todo) # 1 => Tail(todo) # <<>>
      <4>1. Len(<<>>) = 0
        OBVIOUS
      <4>2. Len(todo) # 1 => Len(Tail(todo)) # 0
        BY <3>1
      <4> QED
        BY <4>1, <4>2, Zenon
    <3> QED
      BY <3>1, <3>2, <1>4 DEF CacheRegistry
  <2>3. TypeOK'
    BY <1>4, <2>1, <2>2 DEF CacheRegistry, TypeOK, dbVars
  <2>4. IndexInv' /\ MetadataIndexAgrees'
    BY <1>4 DEF CacheRegistry, dbVars, IndexInv, IndexIsAvailable, MetadataIndexAgrees
  <2>5. MemoryInv'
    BY <1>4, <2>2 DEF CacheRegistry, dbVars, MemoryInv
  <2> QED
    BY <2>3, <2>4, <2>5
<1>5. CASE Stop
  BY <1>5 DEF Stop, dbVars, TypeOK, IndexInv, IndexIsAvailable, MemoryInv,
              MetadataIndexAgrees, NoRegistry
<1>6. CASE UNCHANGED vars
  BY <1>6 DEF vars, dbVars, TypeOK, IndexInv, IndexIsAvailable, MemoryInv,
              MetadataIndexAgrees
<1> QED
  BY <1>1, <1>2, <1>3, <1>4, <1>5, <1>6 DEF Next

(* The invariant of all starts of the application. *)
LEMMA AlwaysInv == Spec => []Inv
  BY InitInv, NextKeepsInv, PTL DEF Spec

(* The variables of the start-up of the registries have their types. *)
THEOREM RegistryTypeCorrect == Spec => []TypeOK
<1>1. Inv => TypeOK
  BY DEF Inv
<1> QED
  BY <1>1, AlwaysInv, PTL

(* ApplyAddressToIndex never gives an index twice while a byte can count   *)
(* the registries, over all restarts.                                      *)
THEOREM IndexAlwaysAvailable == Spec => []IndexIsAvailableInRange
<1>1. Inv => IndexIsAvailableInRange
  BY DEF Inv, IndexInv, IndexIsAvailableInRange
<1> QED
  BY <1>1, AlwaysInv, PTL

(* InitializeRegistry stores with the metadata the index of the address,   *)
(* whatever start it was interrupted in.                                   *)
THEOREM MetadataIndexAlwaysAgrees == Spec => []MetadataIndexAgrees
<1>1. Inv => MetadataIndexAgrees
  BY DEF Inv
<1> QED
  BY <1>1, AlwaysInv, PTL

(* Service.ZKCertificateRegistry finds the registry of the address, or     *)
(* none.                                                                   *)
THEOREM QueriesAlwaysFindTheirRegistry == Spec => []QueriesFindTheirRegistry
<1>1. Inv => QueriesFindTheirRegistry
  <2> SUFFICES ASSUME Inv, applied <= IndexModulus, NEW a \in Addresses,
                      registryIndex[a] \in DOMAIN registry
               PROVE  registry[registryIndex[a]] = a
    BY DEF QueriesFindTheirRegistry, ZKCertificateRegistry
  <2>1. registryIndex[a] # NotFound /\ registry[registryIndex[a]] \in Addresses
    BY SentinelAssumption DEF Inv, TypeOK
  <2>2. registryIndex[registry[registryIndex[a]]] = registryIndex[a]
    BY DEF Inv, MemoryInv
  <2> QED
    BY <2>1, <2>2 DEF Inv, IndexInv, IndexIsAvailable
<1> QED
  BY <1>1, AlwaysInv, PTL
=============================================================================
