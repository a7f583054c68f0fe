------------------------------ MODULE ChainLog ------------------------------
(***************************************************************************)
(* The EVM chain as the indexer sees it, and what a list of its logs does  *)
(* to a registry's leaves.                                                 *)
(*                                                                         *)
(* The chain is external code.  It is a block height and the list of the   *)
(* CertificateProcessed logs that the ZkCertificateRegistry contract has   *)
(* emitted, oldest first.  A log is referred to by its position in that    *)
(* list, so a set of positions stands for the list of its members in chain *)
(* order.                                                                  *)
(*                                                                         *)
(* A commit writes the operations of its logs to one database batch in     *)
(* order, so that the last operation on a key wins.  The definitions below *)
(* say this directly: a key holds what the highest position of the batch   *)
(* that touches it has written, or what it held before.                    *)
(***************************************************************************)
EXTENDS Integers, Sequences, FiniteSetsExt

CONSTANTS
  Indices,    \* leaf indices of the registry
  Values,     \* leaf values (certificate hashes)
  Empty,      \* the registry's EmptyValue
  NoIndex,    \* no leaf index stored under a value
  StartBlock  \* the block before the one that deployed the contract

ASSUME StartBlockAssumption == StartBlock \in Nat

ASSUME SentinelAssumption == Empty \notin Values /\ NoIndex \notin Indices

VARIABLES
  height,     \* number of the latest block, as BlockNumber returns it
  log         \* the logs emitted so far; those of block height + 1 are pending

chainVars == <<height, log>>

Operations == {"Addition", "Revocation"}

LogRecord ==
  [block : Nat, op : Operations, index : Indices, value : Values]

Leaves == [Indices -> Values \union {Empty}]

LeafIndex == [Values -> Indices \union {NoIndex}]

-----------------------------------------------------------------------------
(***************************************************************************)
(* What operations write.  An addition stores the value in the leaf and    *)
(* the index under the value; a revocation stores the empty value in the   *)
(* leaf and deletes the index.                                             *)
(***************************************************************************)
LeafWrite(e) == IF e.op = "Addition" THEN e.value ELSE Empty

(* Mutant: a revocation keeps the index under the value. *)
IndexWriteKeepsRevoked(e) == e.index

IndexWrite(e) == IF e.op = "Addition" THEN e.index ELSE NoIndex

OnLeaf(batch, i) == {k \in batch : log[k].index = i}

OnValue(batch, v) == {k \in batch : log[k].value = v}

CommitLeaves(batch, old) ==
  [i \in Indices |->
     IF OnLeaf(batch, i) = {} THEN old[i]
     ELSE LeafWrite(log[Max(OnLeaf(batch, i))])]

CommitLeafIndex(batch, old) ==
  [v \in Values |->
     IF OnValue(batch, v) = {} THEN old[v]
     ELSE IndexWrite(log[Max(OnValue(batch, v))])]

-----------------------------------------------------------------------------
(***************************************************************************)
(* The contract's own state after a set of logs, and at a block.           *)
(***************************************************************************)
NoLeaves == [i \in Indices |-> Empty]

NoLeafIndex == [v \in Values |-> NoIndex]

(* What FilterLogs and the subscription find from one block to another. *)
LogsBetween(from, to) ==
  {k \in DOMAIN log : from <= log[k].block /\ log[k].block <= to}

LogsUpTo(block) == {k \in DOMAIN log : log[k].block <= block}

LeavesAt(block) == CommitLeaves(LogsUpTo(block), NoLeaves)

LeafIndexAt(block) == CommitLeafIndex(LogsUpTo(block), NoLeafIndex)

(***************************************************************************)
(* The contract emits a log into the pending block: it adds a certificate  *)
(* that is not in the tree at an empty leaf, or revokes one from its leaf. *)
(***************************************************************************)
EmitLog(op, i, v) ==
  LET now == CommitLeaves(DOMAIN log, NoLeaves)
  IN /\ IF op = "Addition"
        THEN now[i] = Empty /\ \A j \in Indices : now[j] # v
        ELSE now[i] = v
     /\ log' = Append(log, [block |-> height + 1, op |-> op, index |-> i, value |-> v])
     /\ UNCHANGED height

(* The pending block becomes the latest one. *)
MineBlock ==
  /\ height' = height + 1
  /\ UNCHANGED log

ChainInit ==
  /\ height = StartBlock
  /\ log = <<>>

ChainTypeOK ==
  /\ height \in Nat
  /\ log \in Seq(LogRecord)
=============================================================================
