# Merkle proof service: TLA+ models and proofs

The service follows the logs of `ZkCertificateRegistry` contracts on an EVM
chain, keeps one sparse Merkle tree per registry in a key-value database, and
answers queries for Merkle proofs.  This directory holds models of its parts,
TLC configurations that check them on small instances, and TLAPS proofs.

## The system

| part | source | state | operations | interacts with |
|---|---|---|---|---|
| indexing loop | `internal/indexer/indexer.go` | locals of `IndexEVMLogs`, the sink channel | history chunks, polling, subscription, sink | EVM node, registry job |
| registry job | `internal/indexer/ZkCertificateRegistry.go` | operations buffer of a batch | `HandleEVMLog`, `Commit`, `OnIndexerModeChange` | tree, job storage, mutex, progress tracker |
| job storage, configurator | `internal/indexer/job_storage.go`, `configurator.go` | `CurrentBlock` per job, map of running jobs | start, stop, reload, wait | indexing loop, application |
| sparse tree | `internal/zkregistry/sparse_tree.go` | nodes in the database, cache of empty branches | `InsertLeaves`, `CreateProof`, `SimulateBatchOperations` | leaf storage |
| registry | `internal/zkregistry/zk_certificate_registry.go` | - | `CommitOperations`, `CreateProof`, `GetRandomEmptyLeafProof` | tree, mutex |
| leaf storage | `internal/zkregistry/leaf_storage.go` | nodes, leaf indices by value | get, set, delete | database |
| mutex, progress | `internal/zkregistry/mutex.go`, `progress.go` | a `RWMutex` and an on-head flag per registry | lock, unlock, set | job, handlers |
| registry service | `internal/zkregistry/service.go`, `index_storage.go`, `metadata_storage.go` | index, counter and metadata in the database, cache of registries | `InitializeRegistry`, `ZKCertificateRegistry` | application, handlers |
| query handlers | `internal/query/*_handler.go` | - | `Proof`, `GetEmptyLeafProof`, `GetBatchProofs` | registry service, registry |
| application | `pkg/indexer/application.go`, `cmd/.../start.go` | workers, database handle | init, run, restart | all |
| query server | `internal/query/server.go` | two listeners | `RunGRPC`, `RunGateway` | application, handlers |
| TypeScript client codec | `gen/ts/` (generated) | - | `encode`, `decode`, `toJSON`, `fromJSON` of every message | a client of the service |

What makes it hard: the chain grows while the job reads it; the job may stop
between any two calls and resumes from what it has stored; in websocket mode
the same logs arrive twice; handlers read the tree node by node while batches
are written; some reads are made outside the lock; locks are created on demand;
jobs and servers end each other through contexts; clients and servers are not
of the same version.

What it should do: the stored tree is the contract's at the stored block; no
log is lost; every stored tree is a Merkle tree; every proof verifies and is a
proof of what was asked for; registries do not get in each other's way; nobody
waits for ever; a job that fails ends the application, which is restarted and
resumes; what a client decodes is what the server has encoded.

## Modules

| module | models |
|---|---|
| `ChainLog` | the chain and its logs (external), and what a list of logs writes |
| `RegistryMirror` | abstract: the database is the contract's state at a block that moves forward |
| `Indexer` | one job, in polling or websocket mode, with stops and restarts |
| `AtomicTree` | abstract: a tree that commits and answers in one step each |
| `TreeCommit` | `HandleEVMLog`, `CommitOperations`, `InsertLeaves`, the locked write, the registry's lock |
| `ProofServing` | extends `TreeCommit` by the handlers `Proof` and `GetEmptyLeafProof` |
| `BatchProofs` | extends `TreeCommit` by the handler `GetBatchProofs` |
| `RegistryService` | indices, metadata and cache of registries over failing starts |
| `RegistryLock` | abstract: one read-write lock per registry |
| `RegistryMutex` | `zkregistry.Mutex`: the map of locks, created when they are first asked for |
| `Application` | the start command's loop, `StartApplication`, its workers, the configurator and the life of its jobs |
| `ProtoFields`, `QueryMessages`, `DescriptorMessages` | the fields of the messages of `gen/ts`, as tables |
| `Decoder` | the generated `decode` over such tables, as a machine of nested calls with one reader; which wires encode a message |
| `WireCodec` | extends `Decoder` by `encode`, `toJSON` and `fromJSON` |
| `IndexerProofs`, `TreeCommitProofs`, `ProofServingProofs`, `BatchProofsProofs`, `RegistryServiceProofs`, `RegistryMutexProofs`, `ApplicationProofs`, `DecoderProofs` | the proofs |
| `MC*` | instances for TLC |

How state and steps correspond to the code:

* A log is its position in `log`, a batch a set of positions.  Operations are
  written in order and the last one on a key wins; `Max` says so directly.
* In `Indexer` each call to the node and each write of a batch is a step.
  `pc` says which one is next.  `Stop` stands for any error, cancellation or
  crash.  `jobBlock` is the stored `CurrentBlock`, or the job's `StartBlock`
  before the first commit.  Block arithmetic that can wrap is modulo
  `TwoTo64`.
* In `TreeCommit` a node is `<<level, index>>`; the database and the batch are
  functions on the nodes they hold, and a node that is not there reads as an
  empty branch.  `InsertNode` is one turn of the inner loop of `InsertLeaves`,
  including that from level 1 on the slice it appends to is the start of the
  array it ranges over.
* The lock is Go's `sync.RWMutex` (external): a waiting writer keeps new
  readers out, and an unlocking writer lets all waiting readers in.
* In `ProofServing` and `BatchProofs` every database read is a step.  A proof
  is kept as the root that follows from it, computed along the path as it is
  read.  `BatchProofs` also keeps, as history, whether the receiver's checks
  succeed, whether a commit was written meanwhile, and the leaves at the
  beginning with the operations done so far on top (`applied`); `ProofServing`
  which requests had their leaf changed before they read it (`overtaken`).
* `ProofServing` implements `AtomicTree`: the leaves are those that the database
  holds (`Served`), and a proof appears with the step that reads the root
  (`Answers`).  `TreeOf` is the reference for roots: the Merkle tree of a given
  list of leaves, computed level by level in the instance.
* The models of the job meet in `ProofServing`.  `Indexer` commits a batch of
  logs in one step, as `ChainLog` says; `CommitsAsIndexed` says that the tree,
  which writes a batch operation by operation and level by level, changes its
  leaves and leaf indices just so.  `KeepsToRegistryLock` says that the lock
  built into `TreeCommit` is used as `RegistryLock` has it, which is what
  `RegistryMutex` implements.
* A query that is refused (unknown leaf, no empty leaf found, not on head) or
  whose caller has gone leaves its handler idle.
* In `RegistryMutex` the two looks into the map, the lock's own steps and the
  second look-up on release are steps; `TreeCommit` has the lock of its one
  registry built in.  `LockOf` is the refinement mapping: the lock of a
  registry is the one the map holds, and a free one before it is created.
* In `Application` a job is the block it has reached and the context it runs
  in.  `stop` and `failed` are the command's context and that of the workers;
  a job's context is done with either or when `CancelAll` has cancelled it.
  The goroutine of `Wait` is `waiter`.  Any call that may fail does so by a
  step of its own, a bounded number of times (`faults`); a call whose context
  is done may fail at no cost.  `Crash` is the death of the process, after
  which it is started again, perhaps with another configuration.  The jobs
  that are resumed are all in the configuration, so `ReloadConfig` stops none.
* In `Decoder` and `WireCodec` the wire is a sequence of tags, lengths and values.  What the
  generator writes out for each message is one operator that reads the table of
  the message.  One table serves `encode` and `decode`, whose tags agree in
  every message of the source.  Plain, optional, repeated and packed fields
  keep their own code paths, as do 64-bit integers, which `longToNumber`
  refuses beyond the safe range.  Unknown fields are skipped, groups with all
  that is nested in them (`GroupEnd`).  An enumeration number that the client
  has no name for is kept by `decode` and becomes `UNRECOGNIZED` in JSON.
* `Encodes` says which wires encode a message: a set of stretches of the wire
  (`Region`), each with the message before and after its fields, is closed
  under taking off the first field and under going into a nested message.
  Fields may come in any order and repeatedly, packed or not, with unknown ones
  anywhere.  What one field does to a message (`Assigned`, `Pushed`, `Skipped`)
  it has in common with `decode`; reader, calls and their ends it has not.
* The empty value is taken not to be zero: a zero leaf is stored as an empty
  byte string and would read as one that was never written.

## Runs

| run | checks | bounds |
|---|---|---|
| `indexer_poll` | database = contract at the stored block; leaf indices agree; refinement of `RegistryMirror` with its liveness, so that the stored block is never past the head; progress never moves back; every log is committed | 2 indices, 2 values, 3 logs, chunks of 2 blocks, heights 1..4, 2 stops |
| `indexer_ws` | only blocks of the chain are asked for; what is served is the newest that was committed; restarts accepted; no gap between history and a subscription of the loop; nothing lost where progress moves back | 3 logs, heights 1..6, 2 stops |
| `proof_serving` | a Merkle tree over the contract's leaves; leaf indices agree; answered proofs verify; they are of the asked leaf unless that leaf was changed; refinement of `AtomicTree`; commits are those of `Indexer`; the lock is used as `RegistryLock` has it; everyone gets the lock | depth 2, 1 value, 1 request, batches of 2 |
| `batch_proofs` | without a commit meanwhile batch proofs chain, to the root of the leaves with the batch applied; every operation gets the leaf it expects, and a revocation is refused for want of a leaf only when none holds its value | depth 2, 1 value, 2 operations |
| `registry_service` | own indices, agreeing metadata, queries find their registry | 4 addresses, indices modulo 3, configurations of up to 3 |
| `registry_mutex` | one lock per registry (refinement of `RegistryLock`); the job is alone; releases find what was taken; everyone gets the lock | 2 registries, 2 requests |
| `application` | cancelled jobs only on a closed database; quiet returns leave no job; jobs resume; failures end the application; interrupts stop the process | 2 jobs, 2 blocks, 2 faults |
| `client_codec` | messages survive encoding and decoding; JSON keeps all but enumeration numbers that have no name; nested decoders keep to their part; what `encode` writes meets `Encodes` (the assumption `EncodeEncodes`) | all 46 message types with any two fields given, nested to depth 2; 7 kinds of later senders |

The bounds let the cases that matter happen: a chunk that ends at the head and
one that does not; a stop between any two steps, twice; a value revoked and
added elsewhere in one batch; siblings and cousins in one batch; a commit
between any two reads; more addresses than indices.

Heights 1..6 are three chunks of a websocket job, so that it also subscribes
with history left and reads logs twice.  One value in `proof_serving` can be
added and revoked, or revoked and added elsewhere, within a batch of two, which
is what leaf indices can get wrong; two leaves of a batch can be siblings or
cousins.  The proofs cover several values and requests and longer batches.  Two faults are a
failing job or call and a crash on top of it.

In `batch_proofs` a request that a commit has overlapped is followed only to
the check of its first leaf (`OverlapBound`), since the properties speak of the
others.  The indexer runs do not check for deadlock, as the chain ends at its
bound; nor does `application`, where a stopped process stays stopped, nor
`client_codec`, where a decoded message stays decoded.

In websocket mode the stored progress does move back: the block of a log that
is dropped from the sink is stored all the same (`indexer.go:280`), so that
"the highest block number that was indexed" (`handler.go:42`) holds only for
polling.  `RegressLosesNothing` says that this is harmless.

### Disagreements with the documentation

| run | what it shows |
|---|---|
| `indexer_ws_missed` | after a history of one chunk `currentBlock-fromBlock` wraps, the subscription is started late and logs mined before it are lost |
| `proof_serving_asked` | a commit between the choice of the leaf and `RLock`: the path belongs to another leaf than was asked for, by value or as an empty one |
| `batch_proofs_torn` | a commit during the simulation, which takes no lock: the proofs do not verify |
| `application_closed` | `Init` fails after it has opened the database: `StartApplication` returns with the database open, and it cannot be opened again |

`IndexIsAvailableInRange` ends where a byte does: with the 257th registry the
counter wraps and gives an index that is in use (`index_storage.go:130`).

### Fairness

`Indexer!FairSpec` assumes weak fairness of the job's steps: goroutines are
scheduled, calls to the node return, and the loop in `start.go` restarts an
application that has failed, in the end with success.  The last is an
assumption on the environment: `application_closed` shows that after a failed
`Init` the database may stay open and no later start of the same process
succeeds, and then nothing more is indexed until the process itself is started
again.  `FairSpec` is used for polling jobs, whose errors reach that loop;
stops are bounded.  It does not assume that blocks are mined.
`ProofServing!FairSpec` assumes weak fairness of the commit in progress and of
every request; that a caller leaves, that a request or a log arrives and that
an empty commit starts is not assumed.
`RegistryMutex!FairSpec` assumes that a goroutine in a call goes on and that
who holds a lock releases it, not that anyone asks for one.
`Application!FairSpec` assumes that the command's loop, `RunIndexer`, `Wait`,
cancelled jobs and cancelled servers go on: goroutines are scheduled, the calls
they make carry a context and return once it is done.  Commits, faults,
interrupts and crashes are not assumed.  `client_codec` has no liveness property
and assumes no fairness.

## Proofs

All theorems hold for every value of the constants that meets the named
assumptions: a chunk has at least one block, the empty value is no certificate
hash, the depth is positive, widths double from level to level, empty branches
are hashed from each other, every list of leaves has its Merkle tree, `2^64` is
larger than any block number, no field of a message has number 0 or is a group.
The hash is an arbitrary function.

* `IndexerProofs`.  `TypeCorrect` and `ResumeAlwaysAccepted` for both modes,
  from the bounds `fromBlock`, `toBlock` and `jobBlock` keep to the head.
  `PollStoreMatchesProgress`, `PollProgressNeverRegresses`,
  `PollLeafIndexAgrees` and `PollImplementsMirror` for polling, from `PollInv`:
  the block the loop goes on from is at most one past the stored one, and the
  batch is exactly the logs from there to `toBlock`.  The core is
  the lemma `Replay`: committing the logs of a range over the state at a
  block not before its start gives the state at its end, so reading a block
  twice does no harm.
  `LoopSubscriptionIsGapless`, from `GapInv`: once the head was read after the
  subscription, every log past that head has gone to the sink.
  `ServedIsNewest`, from `OrderInv` and `KeysInv`: a leaf may be older than
  what was committed for it only while a restarted job has the newest log on it
  still ahead, and then the tracker is off the head; the sink only holds logs
  that are newer than all committed ones or are dropped.
  `RegressIsHarmless`, from `ReplayInv`: what lies between the block of a log
  in the sink and the block the history has reached is committed.
* `TreeCommitProofs`.  `StoreAlwaysMerkleTree`, from `InsertInv`: finished
  levels are hashed, and a changed node of the current level is either under a
  parent that is done or still ahead in the slice, which is overwritten only
  behind the position.
* `ProofServingProofs`.  `ServingTypeCorrect` and `ProofsAlwaysVerify`: while a
  request holds the lock, what it has computed is the node it has climbed to.
  `StoreFollowsContract` and `LeafIndexAlwaysAgrees`, from `ContractInv`: the
  database with the operations in the buffer on top is the contract's state,
  and the batch holds them until it is written.
  `UndisturbedProofsAreOfAskedLeaf`, from `AskedInv`: the leaf at the index that
  was located stays the one asked for until it is read, as leaves and leaf
  indices agree when the index is looked up.
  `ServingImplementsAtomicTree`: only `WriteSync` changes what readers see, and
  to the contract's state; the leaf that a request has read is the tree's until
  it reads the root; and a Merkle tree is determined by its leaves
  (`TreeIsUnique`, by the least level at which it would not be).
  `TreeCommitsAsIndexed`: the batch that `WriteSync` writes holds, for every
  leaf and value, what the last operation on it says, which is how `ChainLog`
  has it.  `TreeKeepsToRegistryLock`, from `HoldInv`: a request holds the lock
  for reading from `RLock` to its last read, the job for writing around
  `WriteSync`, and neither releases what it does not hold.
* `BatchProofsProofs`.  `QuietBatchAlwaysChains`,
  `QuietBatchAlwaysFindsItsLeaves` and `BatchTypeCorrect`, from `BatchInv`.  Between two operations the simulation is
  a Merkle tree whose root the receiver holds.  While a path is read, the root
  computed from the old leaf is the node that has been reached (`before`).
  While the new leaf is inserted, exactly one parent is stale; the nodes on the
  way up hold the hashes that the receiver computes from the same siblings
  (`Climb`), so that both end in the same root.  No sibling on the way is
  written by the insertion, which is why reading it twice does no harm.
  That the last root is the one of the leaves with the batch applied follows
  with `AppliedInv`, which says that these are the leaves of the simulation,
  and `TreeIsUnique`; that a scan which has come to its end has missed no leaf,
  with `ScanInv`: no leaf it has passed holds the value.
* `RegistryServiceProofs`.  `RegistryTypeCorrect`, `IndexAlwaysAvailable`,
  `MetadataIndexAlwaysAgrees`, `QueriesAlwaysFindTheirRegistry`, from:
  the indices below the number given out are taken, one address each, and the
  cache agrees with the stored indices.
* `RegistryMutexProofs`.  `MutexImplementsRegistryLock`, `JobWritesAlone` and
  `ReleaseFindsTheLock`, from: the map never changes an entry, so what a
  goroutine was given or holds is what the map holds for its registry, and a
  lock belongs to one registry.
* `ApplicationProofs`.  `ApplicationTypeCorrect`.
  `ClosedDatabaseHasNoLiveJob`, `QuietReturnIsLast` and `JobsResume`, from: the servers have returned only when the context of the
  workers is done; what `Wait` has gone past has ended by a cancellation; and
  when `ReloadConfig` starts, only jobs without progress do not run.
* `DecoderProofs`.  `DecodeAlwaysReturnsMessage` and
  `ReaderAlwaysStaysInMessage` for `EncodedSpec`, `decode` of any wire that
  meets `Encodes`, from `CallsInv`: what remains to be read by every call is a
  region that yields what the call is to return, where a call that waits for
  another one goes on at the other's end and with its result assigned.  The
  step that needs it is `Return`: it hands a message to a call that has stopped
  reading, and only the invariant knows what that call still expects.  No
  induction over messages is needed, as the invariant speaks of all calls on
  the stack at once.

Only model-checked: liveness (`EveryLogIsCommitted`, `EveryoneGetsTheLock`,
`FailureEndsApplication`, `InterruptStopsProcess`, the fair part of
`RegistryMirror`), which is out of the prover's reach; `JSONKeepsWhatIsKnown`,
whose operators are recursive, as messages are nested to any depth, and would
need an induction over messages; and that what `encode` writes meets `Encodes`,
for the same reason.  Every other invariant and action property of a passing
run is proved; those of `indexer_poll` for polling, as the run has it.

## Not modelled

* `StopJob` and `DeleteJob`: `ReloadConfig` is called once, right after the
  stored jobs of the same configuration were resumed, and finds none to stop.
* Requests that outlive `RunGRPC`, which closes its listener and waits for no
  one: what a closed database answers is up to its backend.
* The unsynchronised cache of empty branches (`sparse_tree.go:351`): the outcome
  of the race is up to the compiled program; the models use the values that the
  code computes for it.
* A job that fails while others are still being started: `CancelAll` does not
  reach the later ones, and the runtime may abort the process because the map
  is written to meanwhile.  Both are in the model, the second as a crash;
  `FailureEndsApplication` speaks of failures after that.
* Closing of the sink while the node's client may still deliver to it, and the
  node's client in general.
* `QueryClientImpl`, which hands an encoded request to a transport, and the
  byte-level encoding of tags, numbers and strings, which is the protobuf
  library's.  Generated Go code.
* Routing, CORS and Swagger of the servers, command line, configuration and
  parsing of requests.
* Removed logs (the handler ignores them); the ticker of the sink loop, which
  only logs; key layout; the probability of finding an empty leaf; a failure of
  the committing job inside `TreeCommit`, which drops a batch that no one else
  sees (stops are part of `Indexer`).
