------------------------------- MODULE Indexer ------------------------------
(***************************************************************************)
(* One indexing job: IndexEVMLogs of internal/indexer/indexer.go driving   *)
(* the ZkCertificateRegistry handler, against a chain that keeps growing   *)
(* and a process that may stop at any point and be started again.          *)
(*                                                                         *)
(* The calls to the node (BlockNumber, FilterLogs, SubscribeFilterLogs)    *)
(* and the write of a batch are steps of their own: blocks may arrive, and *)
(* the job may stop, between any two of them.                              *)
(***************************************************************************)
EXTENDS ChainLog

CONSTANTS
  Mode,               \* config.IndexerMode
  MaxBlocksDistance,  \* config.MaxBlocksDistance
  TwoTo64,            \* block numbers are uint64: arithmetic is modulo 2^64
  MaxHeight,          \* bound: blocks the chain produces
  MaxLogs,            \* bound: logs the contract emits
  MaxStops            \* bound: times the job fails, is cancelled or crashes

ModePoll == "poll"
ModeWS   == "ws"

ASSUME ModeAssumption == Mode \in {ModePoll, ModeWS}

(* NewEVMIndexer replaces a zero MaxBlocksDistance by a default. *)
ASSUME DistanceAssumption == MaxBlocksDistance \in Nat \ {0}

ASSUME BoundAssumption ==
  /\ MaxHeight \in Nat /\ MaxLogs \in Nat /\ MaxStops \in Nat
  /\ TwoTo64 \in Nat /\ TwoTo64 > MaxHeight + MaxBlocksDistance

VARIABLES
  leaves, leafIndex,    \* database: the registry's leaves and leaf indices
  jobBlock,             \* database: the job's CurrentBlock, or its StartBlock
  pc,                   \* where IndexEVMLogs is
  fromBlock, toBlock, currentBlock,   \* its locals of these names
  batch,                \* the logs it has fetched and not yet committed
  subscriptionStarted,  \* its local of this name: the loop has subscribed
  sink,                 \* the logs of the subscription it has not yet read
  onHead,               \* the registry's progress tracker
  stops,                \* how often the job has stopped
  committed             \* history variable: the logs some commit has held

dbVars    == <<leaves, leafIndex, jobBlock, committed>>
blockVars == <<fromBlock, toBlock, currentBlock>>
subVars   == <<subscriptionStarted, sink>>
vars      == <<chainVars, dbVars, pc, blockVars, batch, subVars, onHead, stops>>

PCs == {"stopped", "history", "commit", "poll", "subscribe", "requery",
        "lateSubscribe", "sink", "sinkCommit"}

-----------------------------------------------------------------------------
(***************************************************************************)
(* Starting and stopping.                                                  *)
(***************************************************************************)

(* Mutant: the stored CurrentBlock is not used. *)
StartJobFromScratch ==
  /\ pc = "stopped"
  /\ fromBlock' = StartBlock
  /\ currentBlock' = height
  /\ onHead' = FALSE
  /\ pc' = "history"
  /\ UNCHANGED <<chainVars, dbVars, toBlock, batch, subVars, stops>>

(* IndexEVMLogs is called with the stored CurrentBlock, or the job's       *)
(* StartBlock when there is none, and returns an error when that block is  *)
(* past the head.                                                          *)
StartJob ==
  /\ pc = "stopped"
  /\ jobBlock <= height
  /\ fromBlock' = jobBlock
  /\ currentBlock' = height
  /\ onHead' = FALSE
  /\ pc' = "history"
  /\ UNCHANGED <<chainVars, dbVars, toBlock, batch, subVars, stops>>

(* A call fails, the context is cancelled, the subscription breaks or the  *)
(* process dies.  What is not in the database is gone.                     *)
Stop ==
  /\ pc # "stopped"
  /\ stops < MaxStops
  /\ stops' = stops + 1
  /\ pc' = "stopped"
  /\ fromBlock' = 0 /\ toBlock' = 0 /\ currentBlock' = 0
  /\ batch' = {}
  /\ subscriptionStarted' = FALSE
  /\ sink' = {}
  /\ UNCHANGED <<chainVars, dbVars, onHead>>

-----------------------------------------------------------------------------
(***************************************************************************)
(* Commit: the operations of the batch and the job's progress are written  *)
(* in one database batch.                                                  *)
(***************************************************************************)
Commit(progressBlock) ==
  /\ leaves' = CommitLeaves(batch, leaves)
  /\ leafIndex' = CommitLeafIndex(batch, leafIndex)
  /\ jobBlock' = progressBlock
  /\ committed' = committed \union batch
  /\ batch' = {}

-----------------------------------------------------------------------------
(***************************************************************************)
(* The loop over historical blocks.                                        *)
(***************************************************************************)
FilterRange(from, to) ==
  /\ pc = "history"
  /\ toBlock' = to
  /\ batch' = LogsBetween(from, to)
  /\ pc' = "commit"
  /\ UNCHANGED <<chainVars, dbVars, fromBlock, currentBlock, subVars, onHead, stops>>

(* Mutant: the end of the range is not cut at the head. *)
FilterLogsPastHead ==
  FilterRange(fromBlock, fromBlock + MaxBlocksDistance - 1)

(* Mutant: the range is open at its start. *)
FilterLogsAfterFrom ==
  FilterRange(fromBlock + 1, Min({fromBlock + MaxBlocksDistance - 1, currentBlock}))

FilterLogs ==
  FilterRange(fromBlock, Min({fromBlock + MaxBlocksDistance - 1, currentBlock}))

(* Back to the loop's condition, and from there to the sink. *)
LoopOrSink(from, current) ==
  IF from <= current
  THEN pc' = "history" /\ UNCHANGED onHead
  ELSE IF subscriptionStarted
       THEN pc' = "sink" /\ onHead' = TRUE
       ELSE pc' = "lateSubscribe" /\ UNCHANGED onHead

ContinuePoll(from) ==
  /\ Mode = ModePoll
  /\ IF from <= currentBlock
     THEN pc' = "history" /\ UNCHANGED onHead
     ELSE pc' = "poll" /\ onHead' = TRUE

ContinueWS(from) ==
  /\ Mode = ModeWS
  /\ IF /\ ~subscriptionStarted
        /\ (currentBlock - from) % TwoTo64 <= MaxBlocksDistance
     THEN pc' = "subscribe" /\ UNCHANGED onHead
     ELSE LoopOrSink(from, currentBlock)

(* Mutant: the head is stored as progress, not the end of the range. *)
CommitHistoryAtHead ==
  /\ pc = "commit"
  /\ Commit(currentBlock)
  /\ fromBlock' = toBlock + 1
  /\ ContinuePoll(fromBlock') \/ ContinueWS(fromBlock')
  /\ UNCHANGED <<chainVars, toBlock, currentBlock, subVars, stops>>

(* Mutant: the next range begins a full distance on, also when this one    *)
(* was cut at the head.                                                    *)
CommitHistorySkips ==
  /\ pc = "commit"
  /\ Commit(toBlock)
  /\ fromBlock' = fromBlock + MaxBlocksDistance
  /\ ContinuePoll(fromBlock') \/ ContinueWS(fromBlock')
  /\ UNCHANGED <<chainVars, toBlock, currentBlock, subVars, stops>>

CommitHistory ==
  /\ pc = "commit"
  /\ Commit(toBlock)
  /\ fromBlock' = toBlock + 1
  /\ ContinuePoll(fromBlock') \/ ContinueWS(fromBlock')
  /\ UNCHANGED <<chainVars, toBlock, currentBlock, subVars, stops>>

(* Mutant: the next block must have a successor. *)
PollBlockBehind ==
  /\ pc = "poll"
  /\ height > fromBlock
  /\ currentBlock' = height
  /\ pc' = "history"
  /\ UNCHANGED <<chainVars, dbVars, fromBlock, toBlock, batch, subVars, onHead, stops>>

(* The head is polled until the next block has arrived. *)
PollBlock ==
  /\ pc = "poll"
  /\ height >= fromBlock
  /\ currentBlock' = height
  /\ pc' = "history"
  /\ UNCHANGED <<chainVars, dbVars, fromBlock, toBlock, batch, subVars, onHead, stops>>

-----------------------------------------------------------------------------
(***************************************************************************)
(* WebSocket mode.                                                         *)
(***************************************************************************)

(* The subscription is started in the loop, once the head is near... *)
StartSubscription ==
  /\ pc = "subscribe"
  /\ subscriptionStarted' = TRUE
  /\ pc' = "requery"
  /\ UNCHANGED <<chainVars, dbVars, blockVars, batch, sink, onHead, stops>>

(* Mutant: the head is not read again after it. *)
RequeryBlockSkipped ==
  /\ pc = "requery"
  /\ LoopOrSink(fromBlock, currentBlock)
  /\ UNCHANGED <<chainVars, dbVars, blockVars, batch, subVars, stops>>

(* ...and the head is read again after it. *)
RequeryBlock ==
  /\ pc = "requery"
  /\ currentBlock' = height
  /\ LoopOrSink(fromBlock, height)
  /\ UNCHANGED <<chainVars, dbVars, fromBlock, toBlock, batch, subVars, stops>>

(* A subscription that the loop has not started is started behind it. *)
StartLateSubscription ==
  /\ pc = "lateSubscribe"
  /\ onHead' = TRUE
  /\ pc' = "sink"
  /\ UNCHANGED <<chainVars, dbVars, blockVars, batch, subVars, stops>>

(* Mutant: the logs that the loop has indexed already are kept. *)
ReadSinkUnfiltered ==
  /\ pc = "sink"
  /\ \E m \in sink :
       LET arrived == {k \in sink : k <= m}
       IN /\ toBlock' = log[m].block
          /\ batch' = arrived
          /\ sink' = sink \ arrived
  /\ pc' = "sinkCommit"
  /\ UNCHANGED <<chainVars, dbVars, fromBlock, currentBlock, subscriptionStarted, onHead, stops>>

(* The logs up to some log m have arrived when readUntilEmpty finds the    *)
(* channel empty.  The progress is the block of the last of them; those    *)
(* that the loop has indexed already are dropped.                          *)
ReadSink ==
  /\ pc = "sink"
  /\ \E m \in sink :
       LET arrived == {k \in sink : k <= m}
       IN /\ toBlock' = log[m].block
          /\ batch' = {k \in arrived : log[k].block >= fromBlock}
          /\ sink' = sink \ arrived
  /\ pc' = "sinkCommit"
  /\ UNCHANGED <<chainVars, dbVars, fromBlock, currentBlock, subscriptionStarted, onHead, stops>>

CommitSink ==
  /\ pc = "sinkCommit"
  /\ Commit(toBlock)
  /\ pc' = "sink"
  /\ UNCHANGED <<chainVars, blockVars, subVars, onHead, stops>>

-----------------------------------------------------------------------------
(***************************************************************************)
(* The chain.  A block's logs go to the subscription when it is mined.     *)
(***************************************************************************)
jobVars == <<dbVars, pc, blockVars, batch, subscriptionStarted, onHead, stops>>

Emit(op, i, v) ==
  /\ height < MaxHeight
  /\ Len(log) < MaxLogs
  /\ EmitLog(op, i, v)
  /\ UNCHANGED <<sink, jobVars>>

(* A subscription runs, started in the loop or behind it. *)
Subscribed == subscriptionStarted \/ pc \in {"sink", "sinkCommit"}

Mine ==
  /\ height < MaxHeight
  /\ MineBlock
  /\ sink' = IF Subscribed
             THEN sink \union LogsBetween(height + 1, height + 1)
             ELSE sink
  /\ UNCHANGED jobVars

-----------------------------------------------------------------------------
Init ==
  /\ ChainInit
  /\ leaves = NoLeaves /\ leafIndex = NoLeafIndex
  /\ jobBlock = StartBlock
  /\ committed = {}
  /\ pc = "stopped"
  /\ fromBlock = 0 /\ toBlock = 0 /\ currentBlock = 0
  /\ batch = {}
  /\ subscriptionStarted = FALSE
  /\ sink = {}
  /\ onHead = FALSE
  /\ stops = 0

JobStep ==
  \/ StartJob
  \/ FilterLogs
  \/ CommitHistory
  \/ PollBlock
  \/ StartSubscription
  \/ RequeryBlock
  \/ StartLateSubscription
  \/ ReadSink
  \/ CommitSink

Next ==
  \/ JobStep
  \/ Stop
  \/ \E op \in Operations, i \in Indices, v \in Values : Emit(op, i, v)
  \/ Mine

Spec == Init /\ [][Next]_vars

(* The job's goroutine is scheduled, its calls return, and the start       *)
(* command's loop restarts an application that has stopped, in the end     *)
(* with success.  That is not so where an earlier start has left the       *)
(* database open (ResourcesClosedOnExit in Application).                   *)
FairSpec == Spec /\ WF_vars(JobStep)

-----------------------------------------------------------------------------
(***************************************************************************)
(* Properties.                                                             *)
(***************************************************************************)

(* The variables have their types, and the job works with blocks of the    *)
(* chain: the head that it has read and the end of its range are there,    *)
(* and it goes on with the block after the head at the latest.             *)
TypeOK ==
  /\ ChainTypeOK
  /\ leaves \in Leaves /\ leafIndex \in LeafIndex
  /\ jobBlock \in Nat
  /\ pc \in PCs
  /\ fromBlock \in Nat /\ toBlock \in Nat /\ currentBlock \in Nat
  /\ fromBlock <= height + 1 /\ toBlock <= height /\ currentBlock <= height
  /\ batch \in SUBSET (DOMAIN log) /\ sink \in SUBSET (DOMAIN log)
  /\ committed \in SUBSET (DOMAIN log)
  /\ subscriptionStarted \in BOOLEAN /\ onHead \in BOOLEAN
  /\ stops \in 0..MaxStops

(* In polling mode the database is at every moment, and so after every     *)
(* stop, exactly the contract's state at the stored CurrentBlock: Commit   *)
(* writes operations and progress together, and the block that a restarted *)
(* job reads a second time changes nothing.                                *)
StoreMatchesProgress ==
  /\ leaves = LeavesAt(jobBlock)
  /\ leafIndex = LeafIndexAt(jobBlock)

(* A restart is never refused: the CurrentBlock that Commit stored is not  *)
(* past the head, which IndexEVMLogs makes an error.                       *)
ResumeIsAccepted == jobBlock <= height

(* GetLeafIndex and GetLeaf agree: the index stored under a value is the   *)
(* index of a leaf that holds it, and every leaf that holds a value is     *)
(* found under it.                                                         *)
LeafIndexAgrees ==
  \A i \in Indices, v \in Values : leafIndex[v] = i <=> leaves[i] = v

(* The block passed to Commit "is the highest block number that was        *)
(* indexed" (handler.go:42): the stored progress never moves back.         *)
ProgressNeverRegresses == [][jobBlock' >= jobBlock]_vars

(* In WebSocket mode the first logs of the subscription may be of blocks   *)
(* that the history has indexed since, and Commit then stores a lower      *)
(* block than the one before.  No log is lost by it: all that a restart    *)
(* from there reads once more is committed.                                *)
RegressLosesNothing ==
  [][jobBlock' < jobBlock => LogsBetween(jobBlock', jobBlock) \subseteq committed]_vars

(* While the registry is served (the tracker is on the head), every leaf   *)
(* and every leaf index is what the newest log committed for it has        *)
(* written: a replay after a restart may roll leaves back, but only while  *)
(* the tracker says that the job is in its history.                        *)
ServedIsNewestCommitted ==
  onHead =>
    /\ leaves = CommitLeaves(committed, NoLeaves)
    /\ leafIndex = CommitLeafIndex(committed, NoLeafIndex)

(* When the job waits on a drained sink the database is the contract's     *)
(* state at the head: the subscription "started in the cycle to avoid      *)
(* missing logs" (indexer.go:210) has missed none.                         *)
DrainedSinkIsHead ==
  pc = "sink" /\ sink = {} =>
    leaves = LeavesAt(height) /\ leafIndex = LeafIndexAt(height)

(* A subscription that the loop has started leaves no gap behind the       *)
(* history: every log from the block on at which the sink takes over is in *)
(* the sink, on its way or committed.  The head that is read after it      *)
(* covers what was mined before it (indexer.go:215).                       *)
LoopSubscriptionMissesNothing ==
  subscriptionStarted /\ pc \in {"sink", "sinkCommit"} =>
    LogsBetween(fromBlock, height) \subseteq sink \union batch \union committed

(* Every log of a mined block is committed in the end, however often the   *)
(* job was stopped before.                                                 *)
EveryLogIsCommitted ==
  \A k \in 1..MaxLogs :
    (k \in DOMAIN log /\ k \in LogsUpTo(height)) ~> k \in committed

-----------------------------------------------------------------------------
(***************************************************************************)
(* The abstract registry that a polling job implements.                    *)
(***************************************************************************)
Mirror == INSTANCE RegistryMirror WITH at <- jobBlock

(* The database is, all of it at once, the contract's state at some block  *)
(* that is not past the head and that only moves forward.                  *)
MirrorSpec == Mirror!Spec

(* ... and that keeps moving while it is behind the head. *)
MirrorFairSpec == Mirror!FairSpec
=============================================================================
