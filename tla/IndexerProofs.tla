---------------------------- MODULE IndexerProofs ---------------------------
(***************************************************************************)
(* Proofs about the indexing job, for every value of the constants.        *)
(***************************************************************************)
EXTENDS Indexer, TLAPS, WellFoundedInduction

(***************************************************************************)
(* The highest of a set of positions.  A commit writes its operations in   *)
(* order, so that the highest position on a key decides what it holds.     *)
(***************************************************************************)

(* A non-empty set of numbers has a least one. *)
LEMMA LeastOfSet ==
  ASSUME NEW S \in SUBSET Nat, S # {}
  PROVE  \E x \in S : \A y \in S : x <= y
<1> DEFINE R == {ss \in Nat \X Nat : ss[1] < ss[2]}
<1>1. IsWellFoundedOn(R, Nat)
  BY NatLessThanWellFounded DEF OpToRel
<1>2. PICK x \in S : \A y \in S : ~(<<y, x>> \in R)
  <2> HIDE DEF R
  <2> QED
    BY <1>1, WFMin
<1>3. ASSUME NEW y \in S
      PROVE  x <= y
  <2>1. x \in Nat /\ y \in Nat /\ <<y, x>> \notin R
    BY <1>2
  <2>2. ~(y < x)
    BY <2>1, Zenon
  <2> QED
    BY <2>1, <2>2
<1> QED
  BY <1>3

(* A non-empty set of positions has a highest one, and Max is it: the last *)
(* write to a key in a batch (CommitOperations) exists.                    *)
LEMMA MaxOfSet ==
  ASSUME NEW n \in Nat, NEW S \in SUBSET (1..n), S # {}
  PROVE  Max(S) \in S /\ \A j \in S : j <= Max(S)
<1> DEFINE T == {n - k : k \in S}
<1>1. \A k \in S : k \in Nat /\ n - k \in Nat
  OBVIOUS
<1>2. T \subseteq Nat
  BY <1>1
<1>3. T # {}
  OBVIOUS
<1>4. PICK x \in T : \A y \in T : x <= y
  <2> HIDE DEF T
  <2> QED
    BY <1>2, <1>3, LeastOfSet
<1>5. PICK m \in S : x = n - m
  OBVIOUS
<1>6. ASSUME NEW j \in S
      PROVE  m >= j
  <2>1. n - m <= n - j
    BY <1>4, <1>5
  <2> HIDE DEF T
  <2>2. m \in Nat /\ j \in Nat
    BY <1>1
  <2> QED
    BY <2>1, <2>2
<1> QED
  BY <1>6 DEF Max

(* The highest position of a set is determined by being in it and above    *)
(* the others.                                                             *)
LEMMA MaxIs ==
  ASSUME NEW S \in SUBSET Nat, NEW m \in S, \A j \in S : j <= m
  PROVE  Max(S) = m
<1>1. \A y \in S : m >= y
  OBVIOUS
<1>2. Max(S) \in S /\ \A y \in S : Max(S) >= y
  BY <1>1 DEF Max
<1>3. Max(S) \in Nat /\ m \in Nat /\ m >= Max(S) /\ Max(S) >= m
  BY <1>1, <1>2
<1> QED
  BY <1>3

-----------------------------------------------------------------------------
(***************************************************************************)
(* The list of logs, and the commit of a batch of them.                    *)
(***************************************************************************)
(* A log is never in an earlier block than the logs before it. *)
LogOrdered ==
  \A j, k \in DOMAIN log : j <= k => log[j].block <= log[k].block

(* The logs are ordered, none is in a block that precedes the contract,    *)
(* and none is past the pending block.                                     *)
LogInv ==
  /\ ChainTypeOK
  /\ LogOrdered
  /\ StartBlock <= height
  /\ \A k \in DOMAIN log : StartBlock < log[k].block /\ log[k].block <= height + 1

(* The positions of the logs are 1..Len(log). *)
LEMMA LogDomain ==
  ASSUME ChainTypeOK
  PROVE  /\ Len(log) \in Nat
         /\ DOMAIN log = 1..Len(log)
         /\ \A k \in DOMAIN log : log[k] \in LogRecord
BY DEF ChainTypeOK

(* Positions and blocks of the logs are numbers. *)
LEMMA LogBlocks ==
  ASSUME ChainTypeOK
  PROVE  DOMAIN log \subseteq Nat /\ \A k \in DOMAIN log : log[k].block \in Nat
<1>1. DOMAIN log \subseteq Nat
  BY LogDomain
<1>2. ASSUME NEW r \in LogRecord
      PROVE  r.block \in Nat
  BY DEF LogRecord
<1> QED
  BY <1>1, <1>2, LogDomain

(* A commit keeps the types of the leaves and of the leaf indices. *)
LEMMA CommitType ==
  ASSUME ChainTypeOK, NEW B \in SUBSET (DOMAIN log),
         NEW l \in Leaves, NEW x \in LeafIndex
  PROVE  CommitLeaves(B, l) \in Leaves /\ CommitLeafIndex(B, x) \in LeafIndex
<1>1. ASSUME NEW i \in Indices, OnLeaf(B, i) # {}
      PROVE  LeafWrite(log[Max(OnLeaf(B, i))]) \in Values \union {Empty}
  <2>1. OnLeaf(B, i) \in SUBSET (1..Len(log)) /\ Len(log) \in Nat
    BY LogDomain DEF OnLeaf
  <2>2. Max(OnLeaf(B, i)) \in DOMAIN log
    BY <1>1, <2>1, MaxOfSet, LogDomain
  <2> QED
    BY <2>2, LogDomain DEF LeafWrite, LogRecord
<1>2. ASSUME NEW v \in Values, OnValue(B, v) # {}
      PROVE  IndexWrite(log[Max(OnValue(B, v))]) \in Indices \union {NoIndex}
  <2>1. OnValue(B, v) \in SUBSET (1..Len(log)) /\ Len(log) \in Nat
    BY LogDomain DEF OnValue
  <2>2. Max(OnValue(B, v)) \in DOMAIN log
    BY <1>2, <2>1, MaxOfSet, LogDomain
  <2> QED
    BY <2>2, LogDomain DEF IndexWrite, LogRecord
<1> QED
  BY <1>1, <1>2 DEF CommitLeaves, CommitLeafIndex, Leaves, LeafIndex

(* A batch is committed over the logs of set C, seen from one key: the     *)
(* highest position in the batch stays the highest when every log that     *)
(* only C has is older than the whole batch.                               *)
LEMMA KeyOverlay ==
  ASSUME ChainTypeOK, NEW B \in SUBSET (DOMAIN log), NEW C \in SUBSET (DOMAIN log),
         \A j \in C \ B, k \in B : j < k,
         NEW OnB, NEW OnBoth, OnB \subseteq B, OnBoth \subseteq B \union C,
         OnB = OnBoth \cap B, OnB # {}
  PROVE  Max(OnBoth) = Max(OnB)
<1>1. Len(log) \in Nat /\ DOMAIN log = 1..Len(log)
  BY LogDomain
<1>2. OnB \in SUBSET (1..Len(log)) /\ OnBoth \in SUBSET Nat
  BY <1>1
<1>3. Max(OnB) \in OnB /\ \A j \in OnB : j <= Max(OnB)
  BY <1>1, <1>2, MaxOfSet
<1>4. ASSUME NEW j \in OnBoth
      PROVE  j <= Max(OnB)
  <2>1. CASE j \in B
    BY <1>3, <2>1
  <2>2. CASE j \notin B
    <3>1. j \in C \ B /\ Max(OnB) \in B
      BY <1>3, <2>2
    <3>2. j < Max(OnB)
      BY <3>1
    <3>3. j \in Nat /\ Max(OnB) \in Nat
      BY <1>2, <1>3
    <3> QED
      BY <3>2, <3>3
  <2> QED
    BY <2>1, <2>2
<1>5. Max(OnB) \in OnBoth
  BY <1>3
<1> QED
  BY <1>2, <1>4, <1>5, MaxIs

(* Committing a batch over the state that the logs of C have left gives    *)
(* the state that both leave together, provided every log that only C has  *)
(* is older than the whole batch.  The batch may repeat any logs of C:     *)
(* this is why a block may be indexed twice.                               *)
LEMMA Overlay ==
  ASSUME ChainTypeOK, NEW B \in SUBSET (DOMAIN log), NEW C \in SUBSET (DOMAIN log),
         \A j \in C \ B, k \in B : j < k, NEW l, NEW x
  PROVE  /\ CommitLeaves(B, CommitLeaves(C, l)) = CommitLeaves(B \union C, l)
         /\ CommitLeafIndex(B, CommitLeafIndex(C, x)) = CommitLeafIndex(B \union C, x)
<1>1. ASSUME NEW i \in Indices
      PROVE  CommitLeaves(B, CommitLeaves(C, l))[i] = CommitLeaves(B \union C, l)[i]
  <2>1. CASE OnLeaf(B, i) = {}
    <3>1. OnLeaf(B \union C, i) = OnLeaf(C, i)
      BY <2>1 DEF OnLeaf
    <3> QED
      BY <2>1, <3>1 DEF CommitLeaves
  <2>2. CASE OnLeaf(B, i) # {}
    <3>1. /\ OnLeaf(B, i) = OnLeaf(B \union C, i) \cap B
          /\ OnLeaf(B, i) \subseteq B /\ OnLeaf(B \union C, i) \subseteq B \union C
          /\ OnLeaf(B \union C, i) # {}
      BY <2>2 DEF OnLeaf
    <3>2. Max(OnLeaf(B \union C, i)) = Max(OnLeaf(B, i))
      <4> DEFINE X == OnLeaf(B, i)
                 Y == OnLeaf(B \union C, i)
      <4>1. X \subseteq B /\ Y \subseteq B \union C /\ X = Y \cap B /\ X # {}
        BY <2>2, <3>1
      <4> HIDE DEF X, Y
      <4>2. Max(Y) = Max(X)
        BY <4>1, KeyOverlay
      <4> QED
        BY <4>2 DEF X, Y
    <3> QED
      BY <2>2, <3>1, <3>2 DEF CommitLeaves
  <2> QED
    BY <2>1, <2>2
<1>2. ASSUME NEW v \in Values
      PROVE  CommitLeafIndex(B, CommitLeafIndex(C, x))[v] = CommitLeafIndex(B \union C, x)[v]
  <2>1. CASE OnValue(B, v) = {}
    <3>1. OnValue(B \union C, v) = OnValue(C, v)
      BY <2>1 DEF OnValue
    <3> QED
      BY <2>1, <3>1 DEF CommitLeafIndex
  <2>2. CASE OnValue(B, v) # {}
    <3>1. /\ OnValue(B, v) = OnValue(B \union C, v) \cap B
          /\ OnValue(B, v) \subseteq B /\ OnValue(B \union C, v) \subseteq B \union C
          /\ OnValue(B \union C, v) # {}
      BY <2>2 DEF OnValue
    <3>2. Max(OnValue(B \union C, v)) = Max(OnValue(B, v))
      <4> DEFINE X == OnValue(B, v)
                 Y == OnValue(B \union C, v)
      <4>1. X \subseteq B /\ Y \subseteq B \union C /\ X = Y \cap B /\ X # {}
        BY <2>2, <3>1
      <4> HIDE DEF X, Y
      <4>2. Max(Y) = Max(X)
        BY <4>1, KeyOverlay
      <4> QED
        BY <4>2 DEF X, Y
    <3> QED
      BY <2>2, <3>1, <3>2 DEF CommitLeafIndex
  <2> QED
    BY <2>1, <2>2
<1> QED
  BY <1>1, <1>2 DEF CommitLeaves, CommitLeafIndex

(* Indexing the blocks a..c over the contract's state at block b gives its *)
(* state at block c, when the range starts no later than behind b.         *)
LEMMA Replay ==
  ASSUME LogInv, NEW a \in Nat, NEW b \in Nat, NEW c \in Nat, a <= b + 1, b <= c
  PROVE  /\ CommitLeaves(LogsBetween(a, c), LeavesAt(b)) = LeavesAt(c)
         /\ CommitLeafIndex(LogsBetween(a, c), LeafIndexAt(b)) = LeafIndexAt(c)
<1> DEFINE B == LogsBetween(a, c)
           C == LogsUpTo(b)
<1>1. ChainTypeOK /\ DOMAIN log \subseteq Nat /\ \A k \in DOMAIN log : log[k].block \in Nat
  BY LogDomain DEF LogInv, LogRecord
<1>2. B \in SUBSET (DOMAIN log) /\ C \in SUBSET (DOMAIN log)
  BY DEF LogsBetween, LogsUpTo
<1>3. ASSUME NEW j \in C \ B, NEW k \in B
      PROVE  j < k
  <2>1. log[j].block < a /\ a <= log[k].block
    BY <1>1 DEF LogsBetween, LogsUpTo
  <2>2. j \in DOMAIN log /\ k \in DOMAIN log
    BY <1>2
  <2> QED
    BY <1>1, <2>1, <2>2 DEF LogInv, LogOrdered
<1>4. B \union C = LogsUpTo(c)
  BY <1>1 DEF LogsBetween, LogsUpTo
<1> HIDE DEF B, C
<1>5. /\ CommitLeaves(B, CommitLeaves(C, NoLeaves)) = CommitLeaves(B \union C, NoLeaves)
      /\ CommitLeafIndex(B, CommitLeafIndex(C, NoLeafIndex)) = CommitLeafIndex(B \union C, NoLeafIndex)
  BY <1>1, <1>2, <1>3, Overlay
<1> QED
  BY <1>4, <1>5 DEF B, C, LeavesAt, LeafIndexAt

-----------------------------------------------------------------------------
(* A log that the contract emits goes behind the others and into the       *)
(* pending block: it changes no log and no state of the contract at a      *)
(* block that has been mined.                                              *)
LEMMA EmitKeeps ==
  ASSUME LogInv, NEW op \in Operations, NEW i \in Indices, NEW v \in Values,
         EmitLog(op, i, v)
  PROVE  /\ LogInv'
         /\ DOMAIN log \subseteq DOMAIN log'
         /\ \A k \in DOMAIN log : log'[k] = log[k]
         /\ \A b \in Nat : b <= height => LogsUpTo(b)' = LogsUpTo(b)
<1> DEFINE e == [block |-> height + 1, op |-> op, index |-> i, value |-> v]
<1>0. ChainTypeOK /\ Len(log) \in Nat /\ DOMAIN log = 1..Len(log)
      /\ (\A k \in DOMAIN log : log[k] \in LogRecord) /\ height \in Nat
  BY LogDomain DEF LogInv, ChainTypeOK
<1>1. e \in LogRecord /\ e.block = height + 1
  BY <1>0 DEF LogRecord
<1>2. log' = Append(log, e) /\ height' = height /\ log \in Seq(LogRecord)
  BY <1>0 DEF EmitLog, ChainTypeOK
<1> HIDE DEF e
<1>3. /\ log' \in Seq(LogRecord)
      /\ DOMAIN log' = 1..(Len(log) + 1)
      /\ \A k \in DOMAIN log : log'[k] = log[k]
      /\ log'[Len(log) + 1] = e
  BY <1>0, <1>1, <1>2
<1>4. ChainTypeOK'
  BY <1>0, <1>2, <1>3 DEF ChainTypeOK
<1>5. ASSUME NEW k \in DOMAIN log'
      PROVE  k \in DOMAIN log \/ (k = Len(log) + 1 /\ log'[k].block = height + 1)
  BY <1>0, <1>1, <1>3
<1>6. LogOrdered'
  <2> SUFFICES ASSUME NEW j \in DOMAIN log', NEW k \in DOMAIN log', j <= k
               PROVE  log'[j].block <= log'[k].block
    BY DEF LogOrdered
  <2>1. CASE k \in DOMAIN log
    <3>1. j \in DOMAIN log
      BY <1>0, <1>3, <2>1
    <3> QED
      BY <1>3, <2>1, <3>1 DEF LogInv, LogOrdered
  <2>2. CASE k = Len(log) + 1
    <3>1. CASE j \in DOMAIN log
      BY <1>0, <1>1, <1>3, <2>2, <3>1 DEF LogInv
    <3>2. CASE j = Len(log) + 1
      BY <1>0, <1>1, <1>3, <2>2, <3>2
    <3> QED
      BY <1>5, <3>1, <3>2
  <2> QED
    BY <1>5, <2>1, <2>2
<1>7. ASSUME NEW k \in DOMAIN log'
      PROVE  StartBlock < log'[k].block /\ log'[k].block <= height' + 1
  <2>1. CASE k \in DOMAIN log
    BY <1>2, <1>3, <2>1 DEF LogInv
  <2>2. CASE k = Len(log) + 1
    BY <1>0, <1>1, <1>2, <1>3, <2>2, StartBlockAssumption DEF LogInv
  <2> QED
    BY <1>5, <2>1, <2>2
<1>8. ASSUME NEW b \in Nat, b <= height
      PROVE  LogsUpTo(b)' = LogsUpTo(b)
  <2>1. ASSUME NEW k \in LogsUpTo(b)'
        PROVE  k \in LogsUpTo(b)
    BY <1>0, <1>3, <1>5, <1>8, <2>1 DEF LogsUpTo
  <2>2. ASSUME NEW k \in LogsUpTo(b)
        PROVE  k \in LogsUpTo(b)'
    BY <1>0, <1>3, <2>2 DEF LogsUpTo
  <2> QED
    BY <2>1, <2>2
<1> QED
  BY <1>0, <1>2, <1>3, <1>4, <1>6, <1>7, <1>8 DEF LogInv

(* Mining the pending block changes no log. *)
LEMMA MineKeeps ==
  ASSUME LogInv, MineBlock
  PROVE  LogInv'
<1>1. height' = height + 1 /\ log' = log /\ height \in Nat
  BY DEF MineBlock, LogInv, ChainTypeOK
<1>2. \A k \in DOMAIN log : log[k].block \in Nat
  BY LogDomain DEF LogInv, LogRecord
<1> QED
  BY <1>1, <1>2, StartBlockAssumption DEF LogInv, LogOrdered, ChainTypeOK

(* The contract's state at a mined block stays what it was. *)
LEMMA StateAtStable ==
  ASSUME LogInv, NEW b \in Nat,
         LogsUpTo(b)' = LogsUpTo(b), \A k \in DOMAIN log : log'[k] = log[k]
  PROVE  LeavesAt(b)' = LeavesAt(b) /\ LeafIndexAt(b)' = LeafIndexAt(b)
<1>1. LogsUpTo(b) \subseteq DOMAIN log
  BY DEF LogsUpTo
<1>2. ASSUME NEW i \in Indices
      PROVE  OnLeaf(LogsUpTo(b), i)' = OnLeaf(LogsUpTo(b), i)
  BY <1>1 DEF OnLeaf
<1>3. ASSUME NEW v \in Values
      PROVE  OnValue(LogsUpTo(b), v)' = OnValue(LogsUpTo(b), v)
  BY <1>1 DEF OnValue
<1>4. DOMAIN log = 1..Len(log) /\ Len(log) \in Nat
  BY LogDomain DEF LogInv
<1>5. ASSUME NEW S, S \subseteq LogsUpTo(b), S # {}
      PROVE  log'[Max(S)] = log[Max(S)]
  BY <1>1, <1>4, <1>5, MaxOfSet
<1>6. ASSUME NEW i \in Indices
      PROVE  LeavesAt(b)'[i] = LeavesAt(b)[i]
  <2>1. OnLeaf(LogsUpTo(b), i) \subseteq LogsUpTo(b)
    BY DEF OnLeaf
  <2> QED
    BY <1>2, <1>5, <2>1 DEF LeavesAt, CommitLeaves, LeafWrite, NoLeaves
<1>7. ASSUME NEW v \in Values
      PROVE  LeafIndexAt(b)'[v] = LeafIndexAt(b)[v]
  <2>1. OnValue(LogsUpTo(b), v) \subseteq LogsUpTo(b)
    BY DEF OnValue
  <2> QED
    BY <1>3, <1>5, <2>1 DEF LeafIndexAt, CommitLeafIndex, IndexWrite, NoLeafIndex
<1> QED
  BY <1>6, <1>7 DEF LeavesAt, CommitLeaves, LeafIndexAt, CommitLeafIndex

(* The two views of the contract's state, by leaf and by value, agree at   *)
(* every block.                                                            *)
ViewsAgree ==
  \A b \in Nat, i \in Indices, v \in Values : LeafIndexAt(b)[v] = i <=> LeavesAt(b)[i] = v

(* The contract's guards keep it so: it adds a certificate that is not in  *)
(* the tree at a free leaf, and revokes one from the leaf that holds it.   *)
LEMMA EmitKeepsAgreement ==
  ASSUME LogInv, ViewsAgree, NEW op \in Operations, NEW i \in Indices, NEW v \in Values,
         EmitLog(op, i, v)
  PROVE  ViewsAgree'
<1> DEFINE e == [block |-> height + 1, op |-> op, index |-> i, value |-> v]
           n == Len(log) + 1
           now == CommitLeaves(DOMAIN log, NoLeaves)
           found == CommitLeafIndex(DOMAIN log, NoLeafIndex)
<1>0. /\ ChainTypeOK /\ Len(log) \in Nat /\ DOMAIN log = 1..Len(log) /\ height \in Nat
      /\ \A k \in DOMAIN log : log[k].block \in Nat /\ log[k].block <= height + 1
  BY LogDomain DEF LogInv, ChainTypeOK, LogRecord
<1>1. e.block = height + 1 /\ e.op = op /\ e.index = i /\ e.value = v
  OBVIOUS
<1>2. /\ log' = Append(log, e) /\ log \in Seq(LogRecord)
      /\ IF op = "Addition" THEN now[i] = Empty /\ \A j \in Indices : now[j] # v ELSE now[i] = v
  BY <1>0 DEF EmitLog, ChainTypeOK
<1> HIDE DEF e
<1>3. /\ n \in Nat /\ n \notin DOMAIN log /\ DOMAIN log' = DOMAIN log \union {n}
      /\ \A k \in DOMAIN log : log'[k] = log[k] /\ k <= n
      /\ log'[n] = e
  BY <1>0, <1>2, SMTT(15)
<1> HIDE DEF n
<1>4. ASSUME NEW b \in Nat, b <= height, NEW j \in Indices, NEW w \in Values
      PROVE  LeafIndexAt(b)'[w] = j <=> LeavesAt(b)'[j] = w
  <2>1. LogsUpTo(b)' = LogsUpTo(b)
    BY <1>4, EmitKeeps
  <2>2. LeavesAt(b)' = LeavesAt(b) /\ LeafIndexAt(b)' = LeafIndexAt(b)
    BY <1>3, <2>1, StateAtStable
  <2> QED
    BY <2>2 DEF ViewsAgree
<1>5. ASSUME NEW b \in Nat, b >= height + 1
      PROVE  LogsUpTo(b) = DOMAIN log /\ LogsUpTo(b)' = DOMAIN log \union {n}
  <2>1. \A k \in DOMAIN log \union {n} : log'[k].block <= b
    BY <1>0, <1>1, <1>3, <1>5
  <2>2. \A k \in DOMAIN log : log[k].block <= b
    BY <1>0, <1>5
  <2> QED
    BY <1>3, <2>1, <2>2 DEF LogsUpTo
<1>6. \A S : S \subseteq DOMAIN log /\ S # {} => Max(S) \in DOMAIN log
  BY <1>0, MaxOfSet
<1>7. \A S : S \subseteq DOMAIN log => Max(S \union {n}) = n
  <2> SUFFICES ASSUME NEW S, S \subseteq DOMAIN log
               PROVE  Max(S \union {n}) = n
    OBVIOUS
  <2>1. S \union {n} \in SUBSET Nat /\ n \in S \union {n} /\ \A k \in S \union {n} : k <= n
    BY <1>0, <1>3
  <2> QED
    BY <2>1, MaxIs
<1>8. ASSUME NEW b \in Nat, b >= height + 1, NEW j \in Indices
      PROVE  LeavesAt(b)'[j] = IF j = i THEN LeafWrite(e) ELSE now[j]
  <2>1. OnLeaf(LogsUpTo(b), j)' = IF j = i THEN OnLeaf(DOMAIN log, j) \union {n}
                                           ELSE OnLeaf(DOMAIN log, j)
    BY <1>1, <1>3, <1>5, <1>8 DEF OnLeaf
  <2>2. OnLeaf(DOMAIN log, j) \subseteq DOMAIN log
    BY DEF OnLeaf
  <2>3. LeavesAt(b)'[j] = IF OnLeaf(LogsUpTo(b), j)' = {} THEN Empty
                          ELSE LeafWrite(log'[Max(OnLeaf(LogsUpTo(b), j)')])
    BY DEF LeavesAt, CommitLeaves, NoLeaves, LeafWrite
  <2>4. now[j] = IF OnLeaf(DOMAIN log, j) = {} THEN Empty
                 ELSE LeafWrite(log[Max(OnLeaf(DOMAIN log, j))])
    BY DEF CommitLeaves, NoLeaves
  <2>5. CASE j = i
    BY <1>3, <1>7, <2>1, <2>2, <2>3, <2>5
  <2>6. CASE j # i
    BY <1>3, <1>6, <2>1, <2>2, <2>3, <2>4, <2>6
  <2> QED
    BY <2>5, <2>6
<1>9. ASSUME NEW b \in Nat, b >= height + 1, NEW w \in Values
      PROVE  LeafIndexAt(b)'[w] = IF w = v THEN IndexWrite(e) ELSE found[w]
  <2>1. OnValue(LogsUpTo(b), w)' = IF w = v THEN OnValue(DOMAIN log, w) \union {n}
                                            ELSE OnValue(DOMAIN log, w)
    BY <1>1, <1>3, <1>5, <1>9 DEF OnValue
  <2>2. OnValue(DOMAIN log, w) \subseteq DOMAIN log
    BY DEF OnValue
  <2>3. LeafIndexAt(b)'[w] = IF OnValue(LogsUpTo(b), w)' = {} THEN NoIndex
                             ELSE IndexWrite(log'[Max(OnValue(LogsUpTo(b), w)')])
    BY DEF LeafIndexAt, CommitLeafIndex, NoLeafIndex, IndexWrite
  <2>4. found[w] = IF OnValue(DOMAIN log, w) = {} THEN NoIndex
                   ELSE IndexWrite(log[Max(OnValue(DOMAIN log, w))])
    BY DEF CommitLeafIndex, NoLeafIndex
  <2>5. CASE w = v
    BY <1>3, <1>7, <2>1, <2>2, <2>3, <2>5
  <2>6. CASE w # v
    BY <1>3, <1>6, <2>1, <2>2, <2>3, <2>4, <2>6
  <2> QED
    BY <2>5, <2>6
<1>10. ASSUME NEW j \in Indices, NEW w \in Values
       PROVE  found[w] = j <=> now[j] = w
  <2>1. height + 1 \in Nat /\ LogsUpTo(height + 1) = DOMAIN log
    BY <1>0, <1>5
  <2> QED
    BY <1>10, <2>1 DEF ViewsAgree, LeavesAt, LeafIndexAt
<1> HIDE DEF now, found
<1>11. ASSUME NEW b \in Nat, b >= height + 1, NEW j \in Indices, NEW w \in Values
       PROVE  LeafIndexAt(b)'[w] = j <=> LeavesAt(b)'[j] = w
  <2>1. /\ LeavesAt(b)'[j] = IF j = i THEN LeafWrite(e) ELSE now[j]
        /\ LeafIndexAt(b)'[w] = IF w = v THEN IndexWrite(e) ELSE found[w]
    BY <1>8, <1>9, <1>11
  <2>2. CASE op = "Addition"
    <3>1. LeafWrite(e) = v /\ IndexWrite(e) = i
      BY <1>1, <2>2 DEF LeafWrite, IndexWrite
    <3> QED
      BY <1>2, <1>10, <2>1, <2>2, <3>1, SentinelAssumption
  <2>3. CASE op # "Addition"
    <3>1. LeafWrite(e) = Empty /\ IndexWrite(e) = NoIndex
      BY <1>1, <2>3 DEF LeafWrite, IndexWrite
    <3>2. now[i] = v /\ found[v] = i
      BY <1>2, <1>10, <2>3
    <3> QED
      BY <1>10, <2>1, <3>1, <3>2, SentinelAssumption
  <2> QED
    BY <2>2, <2>3
<1>12. ASSUME NEW b \in Nat
       PROVE  b <= height \/ b >= height + 1
  BY <1>0
<1> QED
  BY <1>4, <1>11, <1>12 DEF ViewsAgree

-----------------------------------------------------------------------------
(***************************************************************************)
(* The job.                                                                *)
(***************************************************************************)
(* The job never has a block in its hands that is past the head it knows. *)
BlocksInv ==
  /\ jobBlock <= height
  /\ \A k \in sink : log[k].block <= height
  /\ pc = "history" => fromBlock <= currentBlock
  /\ pc = "commit" => toBlock <= currentBlock

Inv == TypeOK /\ LogInv /\ BlocksInv

(* The job starts in the invariant: an empty database, a stopped job. *)
LEMMA InitInv == Init => Inv
<1> SUFFICES ASSUME Init
             PROVE  Inv
  OBVIOUS
<1>1. DOMAIN log = {} /\ log \in Seq(LogRecord)
  BY DEF Init, ChainInit
<1>2. ChainTypeOK
  BY <1>1, StartBlockAssumption DEF Init, ChainInit, ChainTypeOK
<1>3. TypeOK
  <2>1. leaves \in Leaves /\ leafIndex \in LeafIndex
    BY DEF Init, Leaves, LeafIndex, NoLeaves, NoLeafIndex
  <2>2. stops \in 0..MaxStops /\ jobBlock \in Nat
    BY StartBlockAssumption, BoundAssumption DEF Init
  <2>3. batch = {} /\ sink = {} /\ committed = {}
    BY DEF Init
  <2>4. fromBlock <= height + 1 /\ toBlock <= height /\ currentBlock <= height
    BY StartBlockAssumption DEF Init, ChainInit
  <2> QED
    BY <1>2, <2>1, <2>2, <2>3, <2>4 DEF Init, TypeOK, PCs
<1>4. LogInv
  BY <1>1, <1>2, StartBlockAssumption DEF LogInv, LogOrdered, Init, ChainInit
<1>5. BlocksInv
  BY <1>1, StartBlockAssumption DEF BlocksInv, Init, ChainInit
<1> QED
  BY <1>3, <1>4, <1>5 DEF Inv

(* A commit of the fetched logs keeps the database well typed. *)
LEMMA CommitKeepsTypes ==
  ASSUME TypeOK, NEW block \in Nat, Commit(block), log' = log
  PROVE  /\ leaves' \in Leaves /\ leafIndex' \in LeafIndex
         /\ jobBlock' \in Nat /\ committed' \in SUBSET (DOMAIN log') /\ batch' = {}
BY CommitType DEF TypeOK, Commit

(* The end of the range that FilterLogs asks for. *)
LEMMA RangeEnd ==
  ASSUME TypeOK, pc = "history", BlocksInv
  PROVE  LET to == Min({fromBlock + MaxBlocksDistance - 1, currentBlock})
         IN to \in Nat /\ fromBlock <= to /\ to <= currentBlock
<1> DEFINE a == fromBlock + MaxBlocksDistance - 1
           S == {a, currentBlock}
<1>1. a \in Nat /\ currentBlock \in Nat /\ fromBlock <= a /\ fromBlock <= currentBlock
      /\ fromBlock \in Nat
  BY DistanceAssumption DEF TypeOK, BlocksInv
<1> HIDE DEF a
<1>2. \E x \in S : \A y \in S : x <= y
  BY <1>1
<1>3. Min(S) \in S /\ \A y \in S : Min(S) <= y
  BY <1>2 DEF Min
<1>4. Min(S) \in Nat /\ fromBlock <= Min(S) /\ Min(S) <= currentBlock
  BY <1>1, <1>3
<1> QED
  BY <1>4 DEF a

(* A step that leaves the chain alone keeps what is known of its logs. *)
LEMMA ChainUnchanged ==
  ASSUME LogInv, UNCHANGED chainVars
  PROVE  LogInv' /\ height' = height /\ log' = log
BY DEF LogInv, LogOrdered, ChainTypeOK, chainVars

(* Every step of the job, of the chain and every stop keeps the invariant. *)
LEMMA NextKeepsInv == Inv /\ [Next]_vars => Inv'
<1> SUFFICES ASSUME Inv, [Next]_vars
             PROVE  Inv'
  OBVIOUS
<1> USE DEF Inv
<1>0. ChainTypeOK /\ height \in Nat
  BY DEF LogInv, ChainTypeOK
<1>1. CASE StartJob
  <2>1. LogInv' /\ height' = height /\ log' = log
    BY <1>1, ChainUnchanged DEF StartJob
  <2>2. TypeOK'
    <3>1. fromBlock' <= height' + 1 /\ toBlock' <= height' /\ currentBlock' <= height'
      BY <1>0, <1>1, <2>1 DEF StartJob, TypeOK
    <3> QED
      BY <1>0, <1>1, <2>1, <3>1 DEF StartJob, TypeOK, LogInv, dbVars, subVars, PCs
  <2>3. BlocksInv'
    BY <1>1, <2>1, <1>0, SMTT(15) DEF StartJob, BlocksInv, TypeOK, dbVars, subVars
  <2> QED
    BY <2>1, <2>2, <2>3
<1>2. CASE FilterLogs
  <2> DEFINE to == Min({fromBlock + MaxBlocksDistance - 1, currentBlock})
  <2>1. LogInv' /\ height' = height /\ log' = log
    BY <1>2, ChainUnchanged DEF FilterLogs, FilterRange
  <2>2. to \in Nat /\ to <= currentBlock
    BY <1>2, RangeEnd DEF FilterLogs, FilterRange
  <2>3. toBlock' = to /\ batch' = LogsBetween(fromBlock, to) /\ pc' = "commit"
        /\ UNCHANGED <<dbVars, fromBlock, currentBlock, subVars, onHead, stops>>
    BY <1>2 DEF FilterLogs, FilterRange
  <2> HIDE DEF to
  <2>4. batch' \in SUBSET (DOMAIN log')
    BY <2>1, <2>3 DEF LogsBetween
  <2>5. TypeOK'
    <3>1. toBlock' <= height'
      BY <1>0, <2>1, <2>2, <2>3 DEF TypeOK
    <3> QED
      BY <2>1, <2>2, <2>3, <2>4, <3>1 DEF TypeOK, LogInv, dbVars, subVars, PCs
  <2>6. BlocksInv'
    BY <2>1, <2>2, <2>3 DEF BlocksInv, dbVars, subVars
  <2> QED
    BY <2>1, <2>5, <2>6
<1>3. CASE CommitHistory
  <2>1. LogInv' /\ height' = height /\ log' = log
    BY <1>3, ChainUnchanged DEF CommitHistory
  <2>2. /\ leaves' \in Leaves /\ leafIndex' \in LeafIndex
        /\ jobBlock' \in Nat /\ committed' \in SUBSET (DOMAIN log') /\ batch' = {}
    BY <1>3, <2>1, CommitKeepsTypes DEF CommitHistory, TypeOK
  <2>3. /\ pc = "commit" /\ jobBlock' = toBlock /\ fromBlock' = toBlock + 1
        /\ UNCHANGED <<toBlock, currentBlock, subVars, stops>>
        /\ ContinuePoll(toBlock + 1) \/ ContinueWS(toBlock + 1)
    BY <1>3 DEF CommitHistory, Commit
  <2>4. /\ pc' \in {"history", "poll", "subscribe", "sink", "lateSubscribe"}
        /\ onHead' \in BOOLEAN
        /\ pc' = "history" => toBlock + 1 <= currentBlock
    BY <2>3 DEF ContinuePoll, ContinueWS, LoopOrSink, TypeOK
  <2>5. TypeOK'
    <3>1. fromBlock' \in Nat /\ fromBlock' <= height' + 1
      BY <1>0, <2>1, <2>3 DEF TypeOK
    <3> QED
      BY <2>1, <2>2, <2>3, <2>4, <3>1, SMTT(15) DEF TypeOK, LogInv, subVars, PCs
  <2>6. BlocksInv'
    BY <1>0, <2>1, <2>3, <2>4, SMTT(15) DEF BlocksInv, TypeOK, subVars
  <2> QED
    BY <2>1, <2>5, <2>6
<1>4. CASE PollBlock
  <2>1. LogInv' /\ height' = height /\ log' = log
    BY <1>4, ChainUnchanged DEF PollBlock
  <2>2. TypeOK'
    BY <1>0, <1>4, <2>1 DEF PollBlock, TypeOK, LogInv, dbVars, subVars, PCs
  <2>3. BlocksInv'
    BY <1>0, <1>4, <2>1 DEF PollBlock, BlocksInv, TypeOK, dbVars, subVars
  <2> QED
    BY <2>1, <2>2, <2>3
<1>5. CASE StartSubscription
  <2>1. LogInv' /\ height' = height /\ log' = log
    BY <1>5, ChainUnchanged DEF StartSubscription
  <2>2. TypeOK'
    BY <1>5, <2>1 DEF StartSubscription, TypeOK, LogInv, dbVars, blockVars, PCs
  <2>3. BlocksInv'
    BY <1>5, <2>1 DEF StartSubscription, BlocksInv, dbVars, blockVars
  <2> QED
    BY <2>1, <2>2, <2>3
<1>6. CASE RequeryBlock
  <2>1. LogInv' /\ height' = height /\ log' = log
    BY <1>6, ChainUnchanged DEF RequeryBlock
  <2>2. /\ pc' \in {"history", "sink", "lateSubscribe"}
        /\ onHead' \in BOOLEAN
        /\ pc' = "history" => fromBlock <= height
    BY <1>6 DEF RequeryBlock, LoopOrSink, TypeOK
  <2>3. TypeOK'
    BY <1>0, <1>6, <2>1, <2>2 DEF RequeryBlock, TypeOK, LogInv, dbVars, subVars, PCs
  <2>4. BlocksInv'
    BY <1>0, <1>6, <2>1, <2>2, SMTT(15) DEF RequeryBlock, BlocksInv, dbVars, subVars
  <2> QED
    BY <2>1, <2>3, <2>4
<1>7. CASE StartLateSubscription
  <2>1. LogInv' /\ height' = height /\ log' = log
    BY <1>7, ChainUnchanged DEF StartLateSubscription
  <2>2. TypeOK'
    BY <1>7, <2>1 DEF StartLateSubscription, TypeOK, LogInv, dbVars, blockVars, subVars, PCs
  <2>3. BlocksInv'
    BY <1>7, <2>1 DEF StartLateSubscription, BlocksInv, dbVars, blockVars, subVars
  <2> QED
    BY <2>1, <2>2, <2>3
<1>8. CASE ReadSink
  <2>1. LogInv' /\ height' = height /\ log' = log
    BY <1>8, ChainUnchanged DEF ReadSink
  <2>2. PICK m \in sink :
          /\ toBlock' = log[m].block
          /\ batch' = {k \in {n \in sink : n <= m} : log[k].block >= fromBlock}
          /\ sink' = sink \ {n \in sink : n <= m}
    BY <1>8 DEF ReadSink
  <2>3. pc' = "sinkCommit"
        /\ UNCHANGED <<dbVars, fromBlock, currentBlock, subscriptionStarted, onHead, stops>>
    BY <1>8 DEF ReadSink
  <2>4. toBlock' \in Nat /\ toBlock' <= height
    BY <1>0, <2>2, LogDomain DEF TypeOK, BlocksInv, LogRecord
  <2>5. batch' \subseteq sink /\ sink' \subseteq sink
    BY <2>2
  <2>6. TypeOK'
    BY <2>1, <2>3, <2>4, <2>5 DEF TypeOK, LogInv, dbVars, PCs
  <2>7. BlocksInv'
    BY <2>1, <2>3, <2>4, <2>5 DEF BlocksInv, dbVars
  <2> QED
    BY <2>1, <2>6, <2>7
<1>9. CASE CommitSink
  <2>1. LogInv' /\ height' = height /\ log' = log
    BY <1>9, ChainUnchanged DEF CommitSink
  <2>2. /\ leaves' \in Leaves /\ leafIndex' \in LeafIndex
        /\ jobBlock' \in Nat /\ committed' \in SUBSET (DOMAIN log') /\ batch' = {}
    BY <1>9, <2>1, CommitKeepsTypes DEF CommitSink, TypeOK
  <2>3. jobBlock' = toBlock /\ pc = "sinkCommit" /\ pc' = "sink"
        /\ UNCHANGED <<blockVars, subVars, onHead, stops>>
    BY <1>9 DEF CommitSink, Commit
  <2>4. TypeOK'
    BY <2>1, <2>2, <2>3 DEF TypeOK, LogInv, blockVars, subVars, PCs
  <2>5. BlocksInv'
    BY <2>1, <2>3 DEF BlocksInv, TypeOK, blockVars, subVars
  <2> QED
    BY <2>1, <2>4, <2>5
<1>10. CASE Stop
  <2>1. LogInv' /\ height' = height /\ log' = log
    BY <1>10, ChainUnchanged DEF Stop
  <2>2. stops' \in 0..MaxStops
    BY <1>10, BoundAssumption DEF Stop, TypeOK
  <2>3. TypeOK'
    <3>1. fromBlock' <= height' + 1 /\ toBlock' <= height' /\ currentBlock' <= height'
      BY <1>0, <1>10, <2>1 DEF Stop
    <3> QED
      BY <1>10, <2>1, <2>2, <3>1 DEF Stop, TypeOK, LogInv, dbVars, PCs
  <2>4. BlocksInv'
    BY <1>0, <1>10, <2>1, SMTT(15) DEF Stop, BlocksInv, dbVars
  <2> QED
    BY <2>1, <2>3, <2>4
<1>11. ASSUME NEW op \in Operations, NEW i \in Indices, NEW v \in Values, Emit(op, i, v)
       PROVE  Inv'
  <2>1. EmitLog(op, i, v) /\ UNCHANGED <<sink, jobVars>>
    BY <1>11 DEF Emit
  <2>2. height' = height
    BY <2>1 DEF EmitLog
  <2>3. /\ LogInv'
        /\ DOMAIN log \subseteq DOMAIN log'
        /\ \A k \in DOMAIN log : log'[k] = log[k]
    BY <2>1, EmitKeeps
  <2>4. TypeOK'
    BY <2>1, <2>2, <2>3 DEF TypeOK, LogInv, jobVars, dbVars, blockVars
  <2>5. BlocksInv'
    BY <2>1, <2>2, <2>3 DEF BlocksInv, TypeOK, jobVars, dbVars, blockVars
  <2> QED
    BY <2>3, <2>4, <2>5
<1>12. CASE Mine
  <2>1. height' = height + 1 /\ log' = log /\ UNCHANGED jobVars
    BY <1>12 DEF Mine, MineBlock
  <2>2. LogInv'
    BY <1>12, MineKeeps DEF Mine
  <2>3. sink' \subseteq sink \union LogsBetween(height + 1, height + 1)
    BY <1>12 DEF Mine
  <2>4. \A k \in LogsBetween(height + 1, height + 1) :
          k \in DOMAIN log /\ log[k].block <= height + 1
    BY DEF LogsBetween
  <2>5. TypeOK'
    <3>1. fromBlock' <= height' + 1 /\ toBlock' <= height' /\ currentBlock' <= height'
      BY <1>0, <2>1 DEF TypeOK, jobVars, blockVars
    <3> QED
      BY <2>1, <2>2, <2>3, <2>4, <3>1 DEF TypeOK, LogInv, jobVars, dbVars, blockVars
  <2>6. \A k \in sink' : log'[k].block <= height'
    <3>1. \A k \in sink : log[k].block \in Nat /\ log[k].block <= height
      BY <1>0, LogDomain DEF TypeOK, BlocksInv, LogRecord
    <3> QED
      BY <1>0, <2>1, <2>3, <2>4, <3>1
  <2>7. BlocksInv'
    BY <1>0, <2>1, <2>6, SMTT(15) DEF BlocksInv, TypeOK, jobVars, dbVars, blockVars
  <2> QED
    BY <2>2, <2>5, <2>7
<1>13. CASE UNCHANGED vars
  <2>1. LogInv' /\ height' = height /\ log' = log
    BY <1>13, ChainUnchanged DEF vars
  <2> QED
    BY <1>13, <2>1 DEF vars, TypeOK, LogInv, BlocksInv, dbVars, blockVars, subVars
<1> QED
  BY <1>1, <1>2, <1>3, <1>4, <1>5, <1>6, <1>7, <1>8, <1>9, <1>10, <1>11, <1>12, <1>13
     DEF Next, JobStep

(* The variables keep their types in every behaviour of the job, in both   *)
(* modes: IndexEVMLogs never names a log or a block that does not exist.   *)
THEOREM TypeCorrect == Spec => []TypeOK
<1>1. Inv => TypeOK
  BY DEF Inv
<1> QED
  BY <1>1, InitInv, NextKeepsInv, PTL DEF Spec

(* In both modes the stored CurrentBlock is never past the head, so that   *)
(* IndexEVMLogs never refuses to resume (indexer.go:130).                  *)
THEOREM ResumeAlwaysAccepted == Spec => []ResumeIsAccepted
<1>1. Inv => ResumeIsAccepted
  BY DEF Inv, BlocksInv, ResumeIsAccepted
<1> QED
  BY <1>1, InitInv, NextKeepsInv, PTL DEF Spec

-----------------------------------------------------------------------------
(***************************************************************************)
(* The subscription of the loop.                                           *)
(***************************************************************************)

(* Once the head has been read after the subscription, every log past that *)
(* head has gone to the sink; the sink takes over right behind it.         *)
GapInv ==
  /\ pc \notin {"stopped", "history", "commit"} => fromBlock <= currentBlock + 1
  /\ pc \in {"lateSubscribe", "sink", "sinkCommit"} => fromBlock > currentBlock
  /\ pc \in {"stopped", "subscribe", "lateSubscribe"} => ~subscriptionStarted
  /\ subscriptionStarted /\ pc # "requery" =>
       LogsBetween(currentBlock + 1, height) \subseteq
         sink \union committed \union (IF pc = "sinkCommit" THEN batch ELSE {})

(* The logs of a range of blocks that are mined depend on neither the      *)
(* pending block nor the next one.                                         *)
LEMMA MinedLogsStable ==
  ASSUME LogInv, NEW op \in Operations, NEW i \in Indices, NEW v \in Values,
         EmitLog(op, i, v), NEW b \in Nat
  PROVE  {k \in DOMAIN log' : b <= log'[k].block /\ log'[k].block <= height}
           = LogsBetween(b, height)
<1>1. height \in Nat
  BY DEF LogInv, ChainTypeOK
<1>2. {k \in DOMAIN log' : log'[k].block <= height} = {k \in DOMAIN log : log[k].block <= height}
  BY <1>1, EmitKeeps, SMTT(15) DEF LogsUpTo
<1>3. \A k \in DOMAIN log : log'[k] = log[k]
  BY EmitKeeps
<1> QED
  BY <1>2, <1>3 DEF LogsBetween

(* Every step keeps GapInv. *)
LEMMA NextKeepsGapInv ==
  ASSUME Inv, GapInv, [Next]_vars
  PROVE  GapInv'
<1>0. /\ jobBlock \in Nat /\ fromBlock \in Nat /\ toBlock \in Nat
      /\ currentBlock \in Nat /\ height \in Nat /\ LogInv /\ currentBlock <= height
      /\ \A k \in DOMAIN log : log[k].block \in Nat
  BY LogDomain DEF Inv, TypeOK, ChainTypeOK, BlocksInv, LogInv, LogRecord
<1>1. CASE StartJob
  BY <1>0, <1>1 DEF StartJob, GapInv, subVars
<1>2. CASE FilterLogs
  BY <1>0, <1>2 DEF FilterLogs, FilterRange, GapInv, LogsBetween, chainVars, dbVars, subVars
<1>3. CASE CommitHistory
  <2>1. /\ pc = "commit" /\ fromBlock' = toBlock + 1 /\ toBlock <= currentBlock
        /\ committed' = committed \union batch
        /\ UNCHANGED <<chainVars, currentBlock, subVars>>
    BY <1>3 DEF CommitHistory, Commit, Inv, BlocksInv
  <2>2. /\ pc' \in {"history", "poll", "subscribe", "sink", "lateSubscribe"}
        /\ pc' \in {"subscribe", "lateSubscribe"} => ~subscriptionStarted
        /\ pc' \in {"lateSubscribe", "sink", "poll"} => fromBlock' > currentBlock
    BY <1>0, <1>3, <2>1 DEF CommitHistory, ContinuePoll, ContinueWS, LoopOrSink
  <2> QED
    BY <1>0, <2>1, <2>2 DEF GapInv, LogsBetween, chainVars, subVars
<1>4. CASE PollBlock
  BY <1>0, <1>4, SMTT(15) DEF PollBlock, GapInv, LogsBetween, chainVars, dbVars, subVars
<1>5. CASE StartSubscription
  BY <1>0, <1>5 DEF StartSubscription, GapInv, blockVars
<1>6. CASE RequeryBlock
  <2>1. /\ pc = "requery" /\ currentBlock' = height
        /\ UNCHANGED <<chainVars, fromBlock, subVars>>
    BY <1>6 DEF RequeryBlock
  <2>2. /\ pc' \in {"history", "sink", "lateSubscribe"}
        /\ pc' = "lateSubscribe" => ~subscriptionStarted
        /\ pc' \in {"lateSubscribe", "sink"} => fromBlock > height
    BY <1>0, <1>6 DEF RequeryBlock, LoopOrSink
  <2>3. LogsBetween(currentBlock + 1, height)' = {}
    BY <1>0, <2>1 DEF LogsBetween, chainVars
  <2> QED
    BY <1>0, <2>1, <2>2, <2>3, SMTT(15) DEF GapInv, subVars
<1>7. CASE StartLateSubscription
  <2>1. ~subscriptionStarted /\ pc = "lateSubscribe"
    BY <1>7 DEF StartLateSubscription, GapInv
  <2> QED
    BY <1>0, <1>7, <2>1 DEF StartLateSubscription, GapInv, blockVars, subVars
<1>8. CASE ReadSink
  <2>1. PICK m \in sink :
          /\ batch' = {k \in {n \in sink : n <= m} : log[k].block >= fromBlock}
          /\ sink' = sink \ {n \in sink : n <= m}
    BY <1>8 DEF ReadSink
  <2>2. /\ pc = "sink" /\ pc' = "sinkCommit" /\ fromBlock = currentBlock + 1
        /\ UNCHANGED <<chainVars, committed, fromBlock, currentBlock, subscriptionStarted>>
    BY <1>0, <1>8, SMTT(15) DEF ReadSink, GapInv, dbVars
  <2>3. ASSUME NEW k \in LogsBetween(currentBlock + 1, height), k \in sink
        PROVE  k \in sink' \union batch'
    BY <1>0, <2>1, <2>2, <2>3 DEF LogsBetween
  <2>4. LogsBetween(currentBlock + 1, height)' = LogsBetween(currentBlock + 1, height)
    BY <2>2 DEF LogsBetween, chainVars
  <2> QED
    BY <1>0, <2>2, <2>3, <2>4 DEF GapInv
<1>9. CASE CommitSink
  BY <1>0, <1>9 DEF CommitSink, Commit, GapInv, LogsBetween, chainVars, blockVars, subVars
<1>10. CASE Stop
  BY <1>10 DEF Stop, GapInv
<1>11. ASSUME NEW op \in Operations, NEW i \in Indices, NEW v \in Values, Emit(op, i, v)
       PROVE  GapInv'
  <2>1. EmitLog(op, i, v) /\ UNCHANGED <<committed, pc, blockVars, batch, subVars>>
    BY <1>11 DEF Emit, jobVars, dbVars, subVars
  <2>2. height' = height
    BY <2>1 DEF EmitLog
  <2>3. LogsBetween(currentBlock + 1, height)' = LogsBetween(currentBlock + 1, height)
    <3>1. {k \in DOMAIN log' : currentBlock + 1 <= log'[k].block /\ log'[k].block <= height}
            = LogsBetween(currentBlock + 1, height)
      BY <1>0, <2>1, MinedLogsStable, SMTT(15)
    <3> QED
      BY <2>1, <2>2, <3>1 DEF LogsBetween, blockVars
  <2> QED
    BY <2>1, <2>2, <2>3 DEF GapInv, blockVars, subVars
<1>12. CASE Mine
  <2>1. /\ height' = height + 1 /\ log' = log
        /\ UNCHANGED <<committed, pc, fromBlock, currentBlock, batch, subscriptionStarted>>
    BY <1>12 DEF Mine, MineBlock, jobVars, dbVars, blockVars
  <2>2. sink \subseteq sink'
        /\ (subscriptionStarted => LogsBetween(height + 1, height + 1) \subseteq sink')
    BY <1>12 DEF Mine, Subscribed
  <2>3. LogsBetween(currentBlock + 1, height)' \subseteq
          LogsBetween(currentBlock + 1, height) \union LogsBetween(height + 1, height + 1)
    BY <1>0, <2>1 DEF LogsBetween
  <2> QED
    BY <1>0, <2>1, <2>2, <2>3 DEF GapInv
<1>13. CASE UNCHANGED vars
  BY <1>13 DEF vars, GapInv, LogsBetween, chainVars, dbVars, blockVars, subVars
<1> QED
  BY <1>1, <1>2, <1>3, <1>4, <1>5, <1>6, <1>7, <1>8, <1>9, <1>10, <1>11, <1>12, <1>13
     DEF Next, JobStep

(* A subscription that the loop has started leaves no gap: whatever blocks *)
(* arrive between the last FilterLogs, the subscription and the second     *)
(* BlockNumber, every log behind the history reaches the sink.             *)
THEOREM LoopSubscriptionIsGapless == Spec => []LoopSubscriptionMissesNothing
<1>1. Init => Inv /\ GapInv
  BY InitInv DEF Init, GapInv
<1>2. Inv /\ GapInv /\ [Next]_vars => Inv' /\ GapInv'
  BY NextKeepsInv, NextKeepsGapInv
<1>3. Inv /\ GapInv => LoopSubscriptionMissesNothing
  <2> SUFFICES ASSUME Inv, GapInv, subscriptionStarted, pc \in {"sink", "sinkCommit"},
                      NEW k \in LogsBetween(fromBlock, height)
               PROVE  k \in sink \union batch \union committed
    BY DEF LoopSubscriptionMissesNothing
  <2>1. fromBlock \in Nat /\ currentBlock \in Nat /\ currentBlock + 1 <= fromBlock
    BY DEF Inv, TypeOK, GapInv
  <2>2. \A j \in DOMAIN log : log[j].block \in Nat
    BY LogDomain DEF Inv, LogInv, LogRecord
  <2>3. k \in LogsBetween(currentBlock + 1, height)
    BY <2>1, <2>2 DEF LogsBetween
  <2> QED
    BY <2>3 DEF GapInv
<1> QED
  BY <1>1, <1>2, <1>3, PTL DEF Spec

-----------------------------------------------------------------------------
(***************************************************************************)
(* What is served.                                                         *)
(***************************************************************************)

(* A log that a restarted job has before it once more.  It is not served   *)
(* meanwhile.                                                              *)
Ahead(k) ==
  /\ ~onHead
  /\ pc \notin {"sink", "sinkCommit"}
  /\ log[k].block >= IF pc = "stopped" THEN jobBlock ELSE fromBlock

(* A leaf is what the newest log committed for it has written, or that log *)
(* is still ahead: then an older one may have been written over it.        *)
KeysInv ==
  /\ \A i \in Indices :
       \/ leaves[i] = CommitLeaves(committed, NoLeaves)[i]
       \/ OnLeaf(committed, i) # {} /\ Ahead(Max(OnLeaf(committed, i)))
  /\ \A v \in Values :
       \/ leafIndex[v] = CommitLeafIndex(committed, NoLeafIndex)[v]
       \/ OnValue(committed, v) # {} /\ Ahead(Max(OnValue(committed, v)))

(* How what was committed lies to what the job has in its hands. *)
OrderInv ==
  /\ \A c \in committed : log[c].block <= height
  /\ pc \notin {"stopped", "sink", "sinkCommit"} =>
       /\ jobBlock <= fromBlock
       /\ \A c \in committed : log[c].block <= currentBlock
       /\ onHead => \A c \in committed : log[c].block < fromBlock
  /\ pc = "commit" => batch = LogsBetween(fromBlock, toBlock) /\ fromBlock <= toBlock
  /\ pc = "stopped" => sink = {}
  /\ \A k \in sink, c \in committed : log[k].block >= fromBlock => c < k
  /\ pc = "sinkCommit" => /\ \A k \in batch : log[k].block <= height
                          /\ \A k \in batch, c \in committed : c < k
                          /\ \A k \in batch, n \in sink : k < n

(* The commit of all logs of the blocks a..b over some set C of logs, seen *)
(* from one key: the newest log is one of the batch, or lies behind b.     *)
LEMMA KeyReplay ==
  ASSUME LogInv, NEW a \in Nat, NEW b \in Nat, NEW C \in SUBSET (DOMAIN log),
         NEW X, NEW Z, Z \subseteq C \union LogsBetween(a, b),
         X = Z \cap LogsBetween(a, b), X # {}
  PROVE  Max(Z) = Max(X) \/ log[Max(Z)].block >= b + 1
<1> DEFINE B == LogsBetween(a, b)
<1>1. Len(log) \in Nat /\ DOMAIN log = 1..Len(log) /\ \A k \in DOMAIN log : log[k].block \in Nat
  BY LogDomain DEF LogInv, LogRecord
<1>2. B \subseteq DOMAIN log
  BY DEF LogsBetween
<1>3. X \in SUBSET (1..Len(log)) /\ Z \in SUBSET (1..Len(log)) /\ Z # {}
  BY <1>1, <1>2
<1>4. Max(X) \in X /\ Max(Z) \in Z /\ Max(X) <= Max(Z)
  BY <1>1, <1>3, MaxOfSet
<1>5. CASE Max(Z) \in B
  <2>1. Max(Z) \in X
    BY <1>4, <1>5
  <2>2. Max(Z) <= Max(X)
    BY <1>1, <1>3, <2>1, MaxOfSet
  <2>3. Max(X) \in Nat /\ Max(Z) \in Nat
    BY <1>1, <1>3, <1>4
  <2> QED
    BY <1>4, <2>2, <2>3
<1>6. CASE Max(Z) \notin B
  <2>1. Max(X) \in DOMAIN log /\ Max(Z) \in DOMAIN log /\ Max(X) \in B
    BY <1>1, <1>3, <1>4
  <2>2. a <= log[Max(X)].block /\ log[Max(X)].block <= log[Max(Z)].block
    BY <1>4, <2>1 DEF LogInv, LogOrdered, LogsBetween
  <2>3. ~(a <= log[Max(Z)].block /\ log[Max(Z)].block <= b)
    BY <1>6, <2>1 DEF LogsBetween
  <2> QED
    BY <1>1, <2>1, <2>2, <2>3, SMTT(15)
<1> QED
  BY <1>5, <1>6

(* A step that leaves the database and the logs alone keeps KeysInv if     *)
(* what is ahead stays ahead.                                              *)
LEMMA KeysUnchanged ==
  ASSUME TypeOK, KeysInv, UNCHANGED <<log, dbVars>>,
         \A k \in committed : Ahead(k) => Ahead(k)'
  PROVE  KeysInv'
<1>1. DOMAIN log = 1..Len(log) /\ Len(log) \in Nat /\ committed \subseteq 1..Len(log)
  BY LogDomain DEF TypeOK
<1>2. ASSUME NEW S, S \subseteq committed, S # {}
      PROVE  Max(S) \in committed
  BY <1>1, <1>2, MaxOfSet
<1>3. ASSUME NEW i \in Indices
      PROVE  /\ OnLeaf(committed, i)' = OnLeaf(committed, i)
             /\ OnLeaf(committed, i) \subseteq committed
             /\ CommitLeaves(committed, NoLeaves)'[i] = CommitLeaves(committed, NoLeaves)[i]
  BY DEF OnLeaf, CommitLeaves, LeafWrite, NoLeaves, dbVars
<1>4. ASSUME NEW v \in Values
      PROVE  /\ OnValue(committed, v)' = OnValue(committed, v)
             /\ OnValue(committed, v) \subseteq committed
             /\ CommitLeafIndex(committed, NoLeafIndex)'[v] = CommitLeafIndex(committed, NoLeafIndex)[v]
  BY DEF OnValue, CommitLeafIndex, IndexWrite, NoLeafIndex, dbVars
<1>5. ASSUME NEW i \in Indices, OnLeaf(committed, i) # {}, Ahead(Max(OnLeaf(committed, i)))
      PROVE  Ahead(Max(OnLeaf(committed, i)))'
  <2>1. PICK m : m = Max(OnLeaf(committed, i))
    OBVIOUS
  <2>2. Ahead(m)'
    BY <1>2, <1>3, <1>5, <2>1
  <2> QED
    BY <1>3, <2>1, <2>2
<1>6. ASSUME NEW v \in Values, OnValue(committed, v) # {}, Ahead(Max(OnValue(committed, v)))
      PROVE  Ahead(Max(OnValue(committed, v)))'
  <2>1. PICK m : m = Max(OnValue(committed, v))
    OBVIOUS
  <2>2. Ahead(m)'
    BY <1>2, <1>4, <1>6, <2>1
  <2> QED
    BY <1>4, <2>1, <2>2
<1> QED
  BY <1>3, <1>4, <1>5, <1>6 DEF KeysInv, dbVars

(* Every step keeps OrderInv. *)
LEMMA NextKeepsOrderInv ==
  ASSUME Inv, GapInv, OrderInv, [Next]_vars
  PROVE  OrderInv'
<1>0. /\ jobBlock \in Nat /\ fromBlock \in Nat /\ toBlock \in Nat
      /\ currentBlock \in Nat /\ height \in Nat /\ LogInv /\ currentBlock <= height
      /\ committed \subseteq DOMAIN log /\ sink \subseteq DOMAIN log /\ batch \subseteq DOMAIN log
      /\ DOMAIN log \subseteq Nat
      /\ \A k \in DOMAIN log : log[k].block \in Nat
  <2>1. ChainTypeOK /\ LogInv
    BY DEF Inv, LogInv
  <2>2. DOMAIN log \subseteq Nat /\ \A k \in DOMAIN log : log[k].block \in Nat
    BY <2>1, LogBlocks
  <2> QED
    BY <2>1, <2>2 DEF Inv, TypeOK, ChainTypeOK
<1>1. CASE StartJob
  <2>1. /\ pc = "stopped" /\ pc' = "history"
        /\ fromBlock' = jobBlock /\ currentBlock' = height /\ onHead' = FALSE
        /\ UNCHANGED <<log, height, committed, jobBlock, sink>>
    BY <1>1 DEF StartJob, chainVars, dbVars, subVars
  <2>2. sink = {} /\ \A c \in committed : log[c].block <= height
    BY <2>1 DEF OrderInv
  <2> QED
    BY <1>0, <2>1, <2>2, SMTT(15) DEF OrderInv
<1>2. CASE FilterLogs
  <2> DEFINE to == Min({fromBlock + MaxBlocksDistance - 1, currentBlock})
  <2>1. to \in Nat /\ fromBlock <= to
    BY <1>2, RangeEnd DEF FilterLogs, FilterRange, Inv
  <2>2. toBlock' = to /\ batch' = LogsBetween(fromBlock, to) /\ pc' = "commit" /\ pc = "history"
        /\ UNCHANGED <<chainVars, dbVars, fromBlock, currentBlock, subVars, onHead>>
    BY <1>2 DEF FilterLogs, FilterRange
  <2> HIDE DEF to
  <2>3. LogsBetween(fromBlock, toBlock)' = LogsBetween(fromBlock, to)
    BY <2>2 DEF LogsBetween, chainVars
  <2> QED
    BY <2>1, <2>2, <2>3 DEF OrderInv, chainVars, dbVars, subVars
<1>3. CASE CommitHistory
  <2>1. /\ pc = "commit" /\ fromBlock' = toBlock + 1 /\ toBlock <= currentBlock
        /\ jobBlock' = toBlock /\ batch' = {}
        /\ committed' = committed \union batch
        /\ UNCHANGED <<chainVars, currentBlock, subVars>>
    BY <1>3 DEF CommitHistory, Commit, Inv, BlocksInv
  <2>2. /\ pc' \in {"history", "poll", "subscribe", "sink", "lateSubscribe"}
        /\ onHead' => onHead \/ fromBlock' > currentBlock
    BY <1>0, <1>3, <2>1, SMTT(15) DEF CommitHistory, ContinuePoll, ContinueWS, LoopOrSink
  <2>3. \A k \in batch : fromBlock <= log[k].block /\ log[k].block <= toBlock
    BY <2>1 DEF OrderInv, LogsBetween
  <2>4. \A c \in committed' : log[c].block <= height /\ log[c].block <= currentBlock
    BY <1>0, <2>1, <2>3, SMTT(15) DEF OrderInv
  <2>5. ASSUME onHead', NEW c \in committed'
        PROVE  log[c].block < toBlock + 1
    <3>1. c \in DOMAIN log /\ log[c].block \in Nat
      BY <1>0, <2>1
    <3>2. CASE fromBlock' > currentBlock
      BY <1>0, <2>1, <2>4, <3>1, <3>2, SMTT(15)
    <3>3. CASE onHead /\ c \in committed
      <4>1. log[c].block < fromBlock /\ fromBlock <= toBlock
        BY <2>1, <3>3 DEF OrderInv
      <4> QED
        BY <1>0, <3>1, <4>1
    <3>4. CASE c \in batch
      BY <1>0, <2>3, <3>1, <3>4
    <3> QED
      BY <2>1, <2>2, <2>5, <3>2, <3>3, <3>4
  <2>6. ASSUME NEW k \in sink, NEW c \in committed', log[k].block >= toBlock + 1
        PROVE  c < k
    <3>1. CASE c \in committed
      BY <1>0, <2>1, <2>6, <3>1, SMTT(15) DEF OrderInv
    <3>2. CASE c \in batch
      <4>1. log[c].block < log[k].block /\ c \in DOMAIN log /\ k \in DOMAIN log
        BY <1>0, <2>3, <2>6, <3>2
      <4> QED
        BY <1>0, <4>1, SMTT(15) DEF LogInv, LogOrdered
    <3> QED
      BY <2>1, <3>1, <3>2
  <2>7. UNCHANGED <<log, height, currentBlock, sink>>
    BY <2>1 DEF chainVars, subVars
  <2>8. /\ \A c \in committed' : log'[c].block <= height' /\ log'[c].block <= currentBlock'
        /\ jobBlock' <= fromBlock'
    BY <1>0, <2>1, <2>4, <2>7, SMTT(15)
  <2>9. onHead' => \A c \in committed' : log'[c].block < fromBlock'
    BY <2>1, <2>5, <2>7
  <2>10. \A k \in sink', c \in committed' : log'[k].block >= fromBlock' => c < k
    BY <2>1, <2>6, <2>7
  <2> QED
    BY <2>2, <2>8, <2>9, <2>10 DEF OrderInv
<1>4. CASE PollBlock
  BY <1>0, <1>4 DEF PollBlock, OrderInv, chainVars, dbVars, subVars
<1>5. CASE StartSubscription
  BY <1>0, <1>5 DEF StartSubscription, OrderInv, chainVars, dbVars, blockVars
<1>6. CASE RequeryBlock
  <2>1. /\ pc = "requery" /\ currentBlock' = height
        /\ UNCHANGED <<chainVars, dbVars, fromBlock, subVars>>
        /\ pc' \in {"history", "sink", "lateSubscribe"}
        /\ pc' \in {"history", "lateSubscribe"} => onHead' = onHead
    BY <1>6 DEF RequeryBlock, LoopOrSink
  <2>2. UNCHANGED <<log, height, committed, jobBlock, fromBlock, sink>>
    BY <2>1 DEF chainVars, dbVars, subVars
  <2>3. /\ \A c \in committed : log[c].block <= height
        /\ jobBlock <= fromBlock
        /\ onHead => \A c \in committed : log[c].block < fromBlock
        /\ \A k \in sink, c \in committed : log[k].block >= fromBlock => c < k
    BY <2>1 DEF OrderInv
  <2>4. /\ \A c \in committed' : log'[c].block <= height'
        /\ \A c \in committed' : log'[c].block <= currentBlock'
        /\ jobBlock' <= fromBlock'
        /\ \A k \in sink', c \in committed' : log'[k].block >= fromBlock' => c < k
    BY <2>1, <2>2, <2>3
  <2>5. pc' \notin {"stopped", "sink", "sinkCommit"} /\ onHead' =>
          \A c \in committed' : log'[c].block < fromBlock'
    BY <2>1, <2>2, <2>3
  <2>6. pc' \notin {"commit", "stopped", "sinkCommit"}
    BY <2>1
  <2> QED
    BY <2>4, <2>5, <2>6 DEF OrderInv
<1>7. CASE StartLateSubscription
  BY <1>0, <1>7 DEF StartLateSubscription, OrderInv, chainVars, dbVars, blockVars, subVars
<1>8. CASE ReadSink
  <2>1. PICK m \in sink :
          /\ batch' = {k \in {n \in sink : n <= m} : log[k].block >= fromBlock}
          /\ sink' = sink \ {n \in sink : n <= m}
    BY <1>8 DEF ReadSink
  <2>2. /\ pc = "sink" /\ pc' = "sinkCommit"
        /\ UNCHANGED <<chainVars, committed, fromBlock, currentBlock>>
    BY <1>8 DEF ReadSink, dbVars
  <2>3. \A k \in batch', c \in committed : c < k
    BY <2>1, <2>2 DEF OrderInv
  <2>4. /\ \A k \in batch', n \in sink' : k < n
        /\ \A k \in batch' : log[k].block <= height
    BY <1>0, <2>1 DEF Inv, BlocksInv
  <2> QED
    BY <1>0, <2>1, <2>2, <2>3, <2>4 DEF OrderInv, chainVars
<1>9. CASE CommitSink
  <2>1. /\ pc = "sinkCommit" /\ pc' = "sink"
        /\ committed' = committed \union batch /\ batch' = {}
        /\ UNCHANGED <<chainVars, fromBlock, sink>>
    BY <1>9 DEF CommitSink, Commit, blockVars, subVars
  <2>2. \A k \in batch : log[k].block <= height
    BY <2>1 DEF OrderInv
  <2> QED
    BY <1>0, <2>1, <2>2 DEF OrderInv, chainVars
<1>10. CASE Stop
  BY <1>10 DEF Stop, OrderInv, chainVars, dbVars
<1>11. ASSUME NEW op \in Operations, NEW i \in Indices, NEW v \in Values, Emit(op, i, v)
       PROVE  OrderInv'
  <2>1. EmitLog(op, i, v) /\ UNCHANGED <<committed, jobBlock, pc, blockVars, batch, sink, onHead>>
    BY <1>11 DEF Emit, jobVars, dbVars
  <2>2. height' = height /\ \A k \in DOMAIN log : log'[k] = log[k]
    BY <1>0, <2>1, EmitKeeps DEF EmitLog
  <2>3. ASSUME pc = "commit"
        PROVE  LogsBetween(fromBlock, toBlock)' = LogsBetween(fromBlock, toBlock)
    <3>1. toBlock <= height
      BY <1>0, <2>3 DEF Inv, BlocksInv
    <3>2. {k \in DOMAIN log' : log'[k].block <= toBlock} = {k \in DOMAIN log : log[k].block <= toBlock}
      BY <1>0, <2>1, <3>1, EmitKeeps DEF LogsUpTo
    <3> QED
      BY <2>1, <2>2, <3>2 DEF LogsBetween, blockVars
  <2> QED
    BY <1>0, <2>1, <2>2, <2>3 DEF OrderInv, blockVars
<1>12. CASE Mine
  <2>1. /\ height' = height + 1 /\ log' = log
        /\ UNCHANGED <<committed, jobBlock, pc, blockVars, batch, subscriptionStarted, onHead>>
    BY <1>12 DEF Mine, MineBlock, jobVars, dbVars, blockVars
  <2>2. /\ sink' \subseteq sink \union LogsBetween(height + 1, height + 1)
        /\ pc = "stopped" => sink' = sink
    BY <1>12 DEF Mine, Subscribed, GapInv
  <2>3. ASSUME NEW k \in LogsBetween(height + 1, height + 1), NEW c \in DOMAIN log,
               log[c].block <= height
        PROVE  c < k
    <3>1. k \in DOMAIN log /\ log[c].block < log[k].block
      BY <1>0, <2>3, SMTT(15) DEF LogsBetween
    <3> QED
      BY <1>0, <3>1, SMTT(15) DEF LogInv, LogOrdered
  <2>4. \A k \in sink', c \in committed : log[k].block >= fromBlock => c < k
    BY <1>0, <2>2, <2>3 DEF OrderInv
  <2>5. pc = "sinkCommit" => \A k \in batch, n \in sink' : k < n
    BY <1>0, <2>2, <2>3 DEF OrderInv
  <2>6. LogsBetween(fromBlock, toBlock)' = LogsBetween(fromBlock, toBlock)
    BY <2>1 DEF LogsBetween, blockVars
  <2>7. ASSUME NEW k \in DOMAIN log, log[k].block <= height
        PROVE  log[k].block <= height'
    BY <1>0, <2>1, <2>7
  <2>8. /\ \A c \in committed : log[c].block <= height'
        /\ pc = "sinkCommit" => \A k \in batch : log[k].block <= height'
    BY <1>0, <2>7 DEF OrderInv
  <2> QED
    BY <2>1, <2>2, <2>4, <2>5, <2>6, <2>8 DEF OrderInv, blockVars
<1>13. CASE UNCHANGED vars
  BY <1>13 DEF vars, OrderInv, LogsBetween, chainVars, dbVars, blockVars, subVars
<1> QED
  BY <1>1, <1>2, <1>3, <1>4, <1>5, <1>6, <1>7, <1>8, <1>9, <1>10, <1>11, <1>12, <1>13
     DEF Next, JobStep

(* A log behind the range that CommitHistory writes is ahead after it. *)
LEMMA StillAhead ==
  ASSUME Inv, OrderInv, CommitHistory, NEW m \in committed, log[m].block >= toBlock + 1
  PROVE  Ahead(m)'
<1>0. /\ fromBlock \in Nat /\ toBlock \in Nat /\ currentBlock \in Nat
      /\ committed \subseteq DOMAIN log
      /\ \A k \in DOMAIN log : log[k].block \in Nat
  <2>1. ChainTypeOK
    BY DEF Inv, LogInv
  <2> QED
    BY <2>1, LogBlocks DEF Inv, TypeOK
<1>1. /\ pc = "commit" /\ fromBlock' = toBlock + 1 /\ fromBlock <= toBlock /\ log' = log
  BY DEF CommitHistory, OrderInv, chainVars
<1>2. log[m].block \in Nat /\ log[m].block <= currentBlock /\ ~onHead
  <2>1. /\ log[m].block <= currentBlock
        /\ onHead => log[m].block < fromBlock
        /\ fromBlock <= toBlock
    BY <1>1 DEF OrderInv
  <2>2. log[m].block \in Nat
    BY <1>0
  <2> QED
    BY <1>0, <2>1, <2>2
<1>3. pc' \in {"history", "subscribe"} /\ onHead' = onHead
  BY <1>0, <1>1, <1>2, SMTT(15) DEF CommitHistory, ContinuePoll, ContinueWS, LoopOrSink
<1> QED
  BY <1>0, <1>1, <1>2, <1>3 DEF Ahead

(* The commit of a range, seen from one key. *)
LEMMA HistoryKeepsKeys ==
  ASSUME Inv, OrderInv, KeysInv, CommitHistory
  PROVE  KeysInv'
<1> DEFINE B == batch
           C == committed
<1>0. /\ fromBlock \in Nat /\ toBlock \in Nat /\ currentBlock \in Nat
      /\ C \in SUBSET (DOMAIN log) /\ LogInv
      /\ DOMAIN log = 1..Len(log) /\ Len(log) \in Nat
      /\ \A k \in DOMAIN log : log[k].block \in Nat
  BY LogDomain DEF Inv, TypeOK, LogInv, LogRecord
<1>1. /\ pc = "commit" /\ log' = log /\ B = LogsBetween(fromBlock, toBlock)
      /\ leaves' = CommitLeaves(B, leaves) /\ leafIndex' = CommitLeafIndex(B, leafIndex)
      /\ committed' = C \union B
  BY DEF CommitHistory, Commit, OrderInv, chainVars
<1>2. ASSUME NEW Z, Z \subseteq C \union B, Z \cap B # {}
      PROVE  Max(Z) = Max(Z \cap B) \/ (Max(Z) \in C /\ log[Max(Z)].block >= toBlock + 1)
  <2>1. Max(Z) = Max(Z \cap B) \/ log[Max(Z)].block >= toBlock + 1
    BY <1>0, <1>1, <1>2, KeyReplay
  <2>2. Max(Z) \in Z
    <3>1. Z \in SUBSET (1..Len(log)) /\ Z # {}
      BY <1>0, <1>1, <1>2 DEF LogsBetween
    <3> QED
      BY <1>0, <3>1, MaxOfSet
  <2>3. ASSUME Max(Z) \in B
        PROVE  ~(log[Max(Z)].block >= toBlock + 1)
    <3>1. Max(Z) \in DOMAIN log /\ log[Max(Z)].block <= toBlock
      BY <1>1, <2>3 DEF LogsBetween
    <3> QED
      BY <1>0, <3>1
  <2> QED
    BY <1>2, <2>1, <2>2, <2>3
<1>3. ASSUME NEW Z, Z \subseteq C, Z \cap B = {}, Z # {}, Ahead(Max(Z))
      PROVE  Max(Z) \in C /\ log[Max(Z)].block >= toBlock + 1
  <2>1. Max(Z) \in Z
    <3>1. Z \in SUBSET (1..Len(log))
      BY <1>0, <1>3
    <3> QED
      BY <1>0, <1>3, <3>1, MaxOfSet
  <2>2. Max(Z) \in DOMAIN log /\ Max(Z) \notin LogsBetween(fromBlock, toBlock)
    BY <1>0, <1>1, <1>3, <2>1
  <2>3. log[Max(Z)].block >= fromBlock
    BY <1>1, <1>3 DEF Ahead
  <2> QED
    BY <1>0, <1>3, <2>1, <2>2, <2>3, SMTT(15) DEF LogsBetween
<1>4. ASSUME NEW i \in Indices
      PROVE  \/ leaves'[i] = CommitLeaves(committed, NoLeaves)'[i]
             \/ OnLeaf(committed, i)' # {} /\ Ahead(Max(OnLeaf(committed, i)))'
  <2>1. PICK Z : Z = OnLeaf(C \union B, i)
    OBVIOUS
  <2>2. OnLeaf(committed, i)' = Z /\ Z \cap B = OnLeaf(B, i) /\ Z \cap C = OnLeaf(C, i)
        /\ Z \subseteq C \union B
    BY <1>1, <2>1 DEF OnLeaf
  <2>3. CommitLeaves(committed, NoLeaves)'[i] = IF Z = {} THEN NoLeaves[i] ELSE LeafWrite(log[Max(Z)])
    BY <1>1, <2>2 DEF CommitLeaves, LeafWrite, NoLeaves
  <2>4. leaves'[i] = IF Z \cap B = {} THEN leaves[i] ELSE LeafWrite(log[Max(Z \cap B)])
    BY <1>1, <2>2 DEF CommitLeaves
  <2>5. CASE Z \cap B # {}
    <3>1. CASE Max(Z) = Max(Z \cap B)
      BY <2>3, <2>4, <2>5, <3>1
    <3>2. CASE Max(Z) \in C /\ log[Max(Z)].block >= toBlock + 1
      <4>1. PICK m : m = Max(Z)
        OBVIOUS
      <4>2. Ahead(m)'
        BY <3>2, <4>1, StillAhead
      <4> QED
        BY <2>2, <2>5, <4>1, <4>2
    <3> QED
      BY <1>2, <2>2, <2>5, <3>1, <3>2
  <2>6. CASE Z \cap B = {}
    <3>1. Z = OnLeaf(C, i) /\ Z \subseteq C
      BY <2>2, <2>6
    <3>2. CASE leaves[i] = CommitLeaves(C, NoLeaves)[i]
      <4>1. CommitLeaves(C, NoLeaves)[i] = IF Z = {} THEN NoLeaves[i] ELSE LeafWrite(log[Max(Z)])
        BY <3>1 DEF CommitLeaves
      <4> QED
        BY <2>3, <2>4, <2>6, <3>2, <4>1
    <3>3. CASE Z # {} /\ Ahead(Max(Z))
      <4>1. PICK m : m = Max(Z)
        OBVIOUS
      <4>2. m \in C /\ log[m].block >= toBlock + 1
        BY <1>3, <2>6, <3>1, <3>3, <4>1
      <4>3. Ahead(m)'
        BY <4>2, StillAhead
      <4> QED
        BY <2>2, <3>3, <4>1, <4>3
    <3> QED
      BY <3>1, <3>2, <3>3 DEF KeysInv
  <2> QED
    BY <2>5, <2>6
<1>5. ASSUME NEW v \in Values
      PROVE  \/ leafIndex'[v] = CommitLeafIndex(committed, NoLeafIndex)'[v]
             \/ OnValue(committed, v)' # {} /\ Ahead(Max(OnValue(committed, v)))'
  <2>1. PICK Z : Z = OnValue(C \union B, v)
    OBVIOUS
  <2>2. OnValue(committed, v)' = Z /\ Z \cap B = OnValue(B, v) /\ Z \cap C = OnValue(C, v)
        /\ Z \subseteq C \union B
    BY <1>1, <2>1 DEF OnValue
  <2>3. CommitLeafIndex(committed, NoLeafIndex)'[v]
          = IF Z = {} THEN NoLeafIndex[v] ELSE IndexWrite(log[Max(Z)])
    BY <1>1, <2>2 DEF CommitLeafIndex, IndexWrite, NoLeafIndex
  <2>4. leafIndex'[v] = IF Z \cap B = {} THEN leafIndex[v] ELSE IndexWrite(log[Max(Z \cap B)])
    BY <1>1, <2>2 DEF CommitLeafIndex
  <2>5. CASE Z \cap B # {}
    <3>1. CASE Max(Z) = Max(Z \cap B)
      BY <2>3, <2>4, <2>5, <3>1
    <3>2. CASE Max(Z) \in C /\ log[Max(Z)].block >= toBlock + 1
      <4>1. PICK m : m = Max(Z)
        OBVIOUS
      <4>2. Ahead(m)'
        BY <3>2, <4>1, StillAhead
      <4> QED
        BY <2>2, <2>5, <4>1, <4>2
    <3> QED
      BY <1>2, <2>2, <2>5, <3>1, <3>2
  <2>6. CASE Z \cap B = {}
    <3>1. Z = OnValue(C, v) /\ Z \subseteq C
      BY <2>2, <2>6
    <3>2. CASE leafIndex[v] = CommitLeafIndex(C, NoLeafIndex)[v]
      <4>1. CommitLeafIndex(C, NoLeafIndex)[v]
              = IF Z = {} THEN NoLeafIndex[v] ELSE IndexWrite(log[Max(Z)])
        BY <3>1 DEF CommitLeafIndex
      <4> QED
        BY <2>3, <2>4, <2>6, <3>2, <4>1
    <3>3. CASE Z # {} /\ Ahead(Max(Z))
      <4>1. PICK m : m = Max(Z)
        OBVIOUS
      <4>2. m \in C /\ log[m].block >= toBlock + 1
        BY <1>3, <2>6, <3>1, <3>3, <4>1
      <4>3. Ahead(m)'
        BY <4>2, StillAhead
      <4> QED
        BY <2>2, <3>3, <4>1, <4>3
    <3> QED
      BY <3>1, <3>2, <3>3 DEF KeysInv
  <2> QED
    BY <2>5, <2>6
<1> QED
  BY <1>4, <1>5 DEF KeysInv

(* With nothing ahead the database is what the committed logs wrote. *)
LEMMA NothingAhead ==
  ASSUME Inv, KeysInv, onHead \/ pc \in {"sink", "sinkCommit"}
  PROVE  /\ leaves = CommitLeaves(committed, NoLeaves)
         /\ leafIndex = CommitLeafIndex(committed, NoLeafIndex)
<1>1. \A k : ~Ahead(k)
  BY DEF Ahead
<1>2. /\ \A i \in Indices : leaves[i] = CommitLeaves(committed, NoLeaves)[i]
      /\ \A v \in Values : leafIndex[v] = CommitLeafIndex(committed, NoLeafIndex)[v]
  BY <1>1 DEF KeysInv
<1>3. leaves \in Leaves /\ leafIndex \in LeafIndex
  BY DEF Inv, TypeOK
<1> QED
  BY <1>2, <1>3 DEF Leaves, LeafIndex, CommitLeaves, CommitLeafIndex

(* Every step keeps KeysInv. *)
LEMMA NextKeepsKeysInv ==
  ASSUME Inv, GapInv, OrderInv, KeysInv, [Next]_vars
  PROVE  KeysInv'
<1>0. /\ jobBlock \in Nat /\ fromBlock \in Nat /\ toBlock \in Nat
      /\ currentBlock \in Nat /\ height \in Nat /\ LogInv /\ TypeOK
      /\ committed \in SUBSET (DOMAIN log) /\ batch \in SUBSET (DOMAIN log)
      /\ \A k \in DOMAIN log : log[k].block \in Nat
  BY LogDomain DEF Inv, TypeOK, ChainTypeOK, LogInv, LogRecord
<1>a. ASSUME UNCHANGED <<log, dbVars>>, \A k \in committed : Ahead(k) => Ahead(k)'
      PROVE  KeysInv'
  BY <1>0, <1>a, KeysUnchanged
<1>1. CASE StartJob
  <2>1. UNCHANGED <<log, dbVars>> /\ \A k \in committed : Ahead(k) => Ahead(k)'
    BY <1>1 DEF StartJob, Ahead, chainVars, dbVars
  <2> QED
    BY <1>a, <2>1
<1>2. CASE FilterLogs
  <2>1. UNCHANGED <<log, dbVars>> /\ \A k \in committed : Ahead(k) => Ahead(k)'
    BY <1>2 DEF FilterLogs, FilterRange, Ahead, chainVars, dbVars
  <2> QED
    BY <1>a, <2>1
<1>3. CASE CommitHistory
  BY <1>3, HistoryKeepsKeys
<1>4. CASE PollBlock
  <2>1. UNCHANGED <<log, dbVars>> /\ \A k \in committed : Ahead(k) => Ahead(k)'
    BY <1>4 DEF PollBlock, Ahead, chainVars, dbVars
  <2> QED
    BY <1>a, <2>1
<1>5. CASE StartSubscription
  <2>1. UNCHANGED <<log, dbVars>> /\ \A k \in committed : Ahead(k) => Ahead(k)'
    BY <1>5 DEF StartSubscription, Ahead, chainVars, dbVars, blockVars
  <2> QED
    BY <1>a, <2>1
<1>6. CASE RequeryBlock
  <2>1. /\ pc = "requery" /\ UNCHANGED <<chainVars, dbVars, fromBlock>>
        /\ \/ pc' \in {"history", "lateSubscribe"} /\ onHead' = onHead
           \/ fromBlock > height
    BY <1>0, <1>6, SMTT(15) DEF RequeryBlock, LoopOrSink
  <2>2. \A k \in committed : log[k].block \in Nat /\ log[k].block <= height
    BY <1>0 DEF OrderInv
  <2>3. UNCHANGED <<log, dbVars>> /\ \A k \in committed : Ahead(k) => Ahead(k)'
    BY <1>0, <2>1, <2>2, SMTT(15) DEF Ahead, chainVars, dbVars
  <2> QED
    BY <1>a, <2>3
<1>7. CASE StartLateSubscription
  <2>1. pc = "lateSubscribe" /\ UNCHANGED <<log, dbVars>> /\ fromBlock > currentBlock
    BY <1>7 DEF StartLateSubscription, GapInv, chainVars
  <2>2. \A k \in committed : log[k].block \in Nat /\ log[k].block <= currentBlock
    BY <1>0, <2>1 DEF OrderInv
  <2>3. ASSUME NEW k \in committed, Ahead(k)
        PROVE  FALSE
    <3>1. log[k].block >= fromBlock
      BY <2>1, <2>3 DEF Ahead
    <3> QED
      BY <1>0, <2>1, <2>2, <3>1
  <2> QED
    BY <1>a, <2>1, <2>3
<1>8. CASE ReadSink
  <2>1. UNCHANGED <<log, dbVars>> /\ \A k \in committed : ~Ahead(k)
    BY <1>8 DEF ReadSink, Ahead, chainVars
  <2> QED
    BY <1>a, <2>1
<1>9. CASE CommitSink
  <2>1. /\ pc = "sinkCommit" /\ log' = log /\ committed' = committed \union batch
        /\ leaves' = CommitLeaves(batch, leaves) /\ leafIndex' = CommitLeafIndex(batch, leafIndex)
    BY <1>9 DEF CommitSink, Commit, chainVars
  <2>2. \A c \in committed \ batch, k \in batch : c < k
    BY <2>1 DEF OrderInv
  <2>3. /\ leaves = CommitLeaves(committed, NoLeaves)
        /\ leafIndex = CommitLeafIndex(committed, NoLeafIndex)
    BY <2>1, NothingAhead
  <2>4. ChainTypeOK
    BY DEF Inv, TypeOK
  <2>5. /\ leaves' = CommitLeaves(batch \union committed, NoLeaves)
        /\ leafIndex' = CommitLeafIndex(batch \union committed, NoLeafIndex)
    BY <1>0, <2>1, <2>2, <2>3, <2>4, Overlay
  <2>6. batch \union committed = committed'
    BY <2>1
  <2>7. /\ CommitLeaves(batch \union committed, NoLeaves) = CommitLeaves(committed, NoLeaves)'
        /\ CommitLeafIndex(batch \union committed, NoLeafIndex)
             = CommitLeafIndex(committed, NoLeafIndex)'
    BY <2>1, <2>6 DEF CommitLeaves, CommitLeafIndex, OnLeaf, OnValue, LeafWrite, IndexWrite,
                      NoLeaves, NoLeafIndex
  <2> QED
    BY <2>5, <2>7 DEF KeysInv
<1>10. CASE Stop
  <2>1. /\ pc # "stopped" /\ pc' = "stopped" /\ UNCHANGED <<log, dbVars, onHead>>
    BY <1>10 DEF Stop, chainVars
  <2>2. ASSUME NEW k \in committed, Ahead(k)
        PROVE  Ahead(k)'
    <3>1. /\ ~onHead /\ log[k].block >= fromBlock /\ jobBlock <= fromBlock
          /\ log[k].block \in Nat
      BY <1>0, <2>1, <2>2 DEF Ahead, OrderInv
    <3> QED
      BY <1>0, <2>1, <3>1, SMTT(15) DEF Ahead, dbVars
  <2> QED
    BY <1>a, <2>1, <2>2
<1>11. ASSUME NEW op \in Operations, NEW i \in Indices, NEW v \in Values, Emit(op, i, v)
       PROVE  KeysInv'
  <2>1. /\ EmitLog(op, i, v)
        /\ UNCHANGED <<leaves, leafIndex, jobBlock, committed, pc, fromBlock, onHead>>
    BY <1>11 DEF Emit, jobVars, dbVars, blockVars
  <2>2. \A k \in committed : log'[k] = log[k]
    BY <1>0, <2>1, EmitKeeps
  <2>3. \A S : S \subseteq committed /\ S # {} => Max(S) \in committed
    <3>1. DOMAIN log = 1..Len(log) /\ Len(log) \in Nat
      BY LogDomain DEF LogInv, Inv
    <3> QED
      BY <1>0, <3>1, MaxOfSet
  <2>4. ASSUME NEW m \in committed, Ahead(m)
        PROVE  Ahead(m)'
    BY <2>1, <2>2, <2>4 DEF Ahead
  <2>5. ASSUME NEW j \in Indices
        PROVE  \/ leaves'[j] = CommitLeaves(committed, NoLeaves)'[j]
               \/ OnLeaf(committed, j)' # {} /\ Ahead(Max(OnLeaf(committed, j)))'
    <3>1. PICK Z : Z = OnLeaf(committed, j)
      OBVIOUS
    <3>2. OnLeaf(committed, j)' = Z /\ Z \subseteq committed
      BY <2>1, <2>2, <3>1 DEF OnLeaf
    <3>3. PICK m : m = Max(Z)
      OBVIOUS
    <3>4. Z # {} => m \in committed /\ log'[m] = log[m]
      BY <2>2, <2>3, <3>2, <3>3
    <3>5. CommitLeaves(committed, NoLeaves)'[j] = CommitLeaves(committed, NoLeaves)[j]
      BY <3>1, <3>2, <3>3, <3>4 DEF CommitLeaves, LeafWrite, NoLeaves
    <3>6. leaves[j] = CommitLeaves(committed, NoLeaves)[j] \/ (Z # {} /\ Ahead(m))
      BY <3>1, <3>3 DEF KeysInv
    <3> QED
      BY <2>1, <2>4, <3>2, <3>3, <3>4, <3>5, <3>6
  <2>6. ASSUME NEW w \in Values
        PROVE  \/ leafIndex'[w] = CommitLeafIndex(committed, NoLeafIndex)'[w]
               \/ OnValue(committed, w)' # {} /\ Ahead(Max(OnValue(committed, w)))'
    <3>1. PICK Z : Z = OnValue(committed, w)
      OBVIOUS
    <3>2. OnValue(committed, w)' = Z /\ Z \subseteq committed
      BY <2>1, <2>2, <3>1 DEF OnValue
    <3>3. PICK m : m = Max(Z)
      OBVIOUS
    <3>4. Z # {} => m \in committed /\ log'[m] = log[m]
      BY <2>2, <2>3, <3>2, <3>3
    <3>5. CommitLeafIndex(committed, NoLeafIndex)'[w] = CommitLeafIndex(committed, NoLeafIndex)[w]
      BY <3>1, <3>2, <3>3, <3>4 DEF CommitLeafIndex, IndexWrite, NoLeafIndex
    <3>6. leafIndex[w] = CommitLeafIndex(committed, NoLeafIndex)[w] \/ (Z # {} /\ Ahead(m))
      BY <3>1, <3>3 DEF KeysInv
    <3> QED
      BY <2>1, <2>4, <3>2, <3>3, <3>4, <3>5, <3>6
  <2> QED
    BY <2>5, <2>6 DEF KeysInv
<1>12. CASE Mine
  <2>1. UNCHANGED <<log, dbVars>> /\ \A k \in committed : Ahead(k) => Ahead(k)'
    BY <1>12 DEF Mine, MineBlock, jobVars, Ahead, dbVars, blockVars
  <2> QED
    BY <1>a, <2>1
<1>13. CASE UNCHANGED vars
  <2>1. UNCHANGED <<log, dbVars>> /\ \A k \in committed : Ahead(k) => Ahead(k)'
    BY <1>13 DEF vars, Ahead, chainVars, dbVars, blockVars
  <2> QED
    BY <1>a, <2>1
<1> QED
  BY <1>1, <1>2, <1>3, <1>4, <1>5, <1>6, <1>7, <1>8, <1>9, <1>10, <1>11, <1>12, <1>13
     DEF Next, JobStep

(* Whatever the mode, the batches and the restarts: while the progress     *)
(* tracker lets the registry be served, the database holds for every leaf  *)
(* and for every value what the newest committed log has written.          *)
THEOREM ServedIsNewest == Spec => []ServedIsNewestCommitted
<1>1. Init => Inv /\ GapInv /\ OrderInv /\ KeysInv
  <2> SUFFICES ASSUME Init
               PROVE  Inv /\ GapInv /\ OrderInv /\ KeysInv
    OBVIOUS
  <2>1. Inv /\ GapInv
    BY InitInv DEF Init, GapInv
  <2>2. OrderInv
    BY DEF Init, OrderInv
  <2>3. KeysInv
    BY DEF Init, KeysInv, CommitLeaves, CommitLeafIndex, OnLeaf, OnValue, NoLeaves, NoLeafIndex
  <2> QED
    BY <2>1, <2>2, <2>3
<1>2. Inv /\ GapInv /\ OrderInv /\ KeysInv /\ [Next]_vars
        => Inv' /\ GapInv' /\ OrderInv' /\ KeysInv'
  BY NextKeepsInv, NextKeepsGapInv, NextKeepsOrderInv, NextKeepsKeysInv
<1>3. Inv /\ KeysInv => ServedIsNewestCommitted
  BY NothingAhead DEF ServedIsNewestCommitted
<1> QED
  BY <1>1, <1>2, <1>3, PTL DEF Spec

-----------------------------------------------------------------------------
(***************************************************************************)
(* Progress that moves back.                                               *)
(***************************************************************************)

(* What the history has read since the block of a log in the sink is       *)
(* committed, and the stored progress is behind the loop or behind the     *)
(* logs that are still to come from the sink.                              *)
ReplayInv ==
  /\ \A k \in sink : log[k].block < fromBlock =>
       LogsBetween(log[k].block, fromBlock - 1) \subseteq committed
  /\ pc = "sinkCommit" /\ toBlock < fromBlock =>
       LogsBetween(toBlock, fromBlock - 1) \subseteq committed
  /\ pc \in {"poll", "subscribe", "requery", "lateSubscribe"} => jobBlock < fromBlock
  /\ pc \in {"sink", "sinkCommit"} =>
       jobBlock < fromBlock \/ \A k \in sink : log[k].block >= jobBlock
  /\ pc = "sinkCommit" =>
       /\ jobBlock < fromBlock \/ toBlock >= jobBlock
       /\ \A k \in sink : log[k].block >= toBlock

(* Every step keeps ReplayInv. *)
LEMMA NextKeepsReplayInv ==
  ASSUME Inv, GapInv, OrderInv, ReplayInv, [Next]_vars
  PROVE  ReplayInv'
<1>0. /\ jobBlock \in Nat /\ fromBlock \in Nat /\ toBlock \in Nat
      /\ currentBlock \in Nat /\ height \in Nat /\ LogInv /\ currentBlock <= height
      /\ jobBlock <= height
      /\ sink \subseteq DOMAIN log /\ DOMAIN log \subseteq Nat
      /\ \A k \in DOMAIN log : log[k].block \in Nat
  <2>1. ChainTypeOK /\ LogInv
    BY DEF Inv, LogInv
  <2>2. DOMAIN log \subseteq Nat /\ \A k \in DOMAIN log : log[k].block \in Nat
    BY <2>1, LogBlocks
  <2> QED
    BY <2>1, <2>2 DEF Inv, TypeOK, ChainTypeOK, BlocksInv
<1>a. pc # "stopped" => fromBlock <= height + 1
  <2>1. CASE pc = "history"
    BY <1>0, <2>1 DEF Inv, BlocksInv
  <2>2. CASE pc = "commit"
    <3>1. fromBlock <= toBlock /\ toBlock <= currentBlock
      BY <2>2 DEF Inv, BlocksInv, OrderInv
    <3> QED
      BY <1>0, <3>1
  <2>3. CASE pc \notin {"stopped", "history", "commit"}
    BY <1>0, <2>3 DEF GapInv
  <2> QED
    BY <2>1, <2>2, <2>3
<1>1. CASE StartJob
  BY <1>0, <1>1 DEF StartJob, ReplayInv, OrderInv, chainVars, dbVars, subVars
<1>2. CASE FilterLogs
  <2>1. pc' = "commit" /\ UNCHANGED <<log, committed, fromBlock, sink>>
    BY <1>2 DEF FilterLogs, FilterRange, chainVars, dbVars, subVars
  <2> QED
    BY <2>1 DEF ReplayInv, LogsBetween
<1>3. CASE CommitHistory
  <2>1. /\ pc = "commit" /\ fromBlock' = toBlock + 1 /\ jobBlock' = toBlock
        /\ committed' = committed \union batch /\ log' = log /\ sink' = sink
        /\ batch = LogsBetween(fromBlock, toBlock) /\ fromBlock <= toBlock
        /\ pc' \in {"history", "poll", "subscribe", "sink", "lateSubscribe"}
    BY <1>3 DEF CommitHistory, Commit, OrderInv, ContinuePoll, ContinueWS, LoopOrSink,
                chainVars, subVars
  <2>2. ASSUME NEW k \in sink, log[k].block < toBlock + 1,
               NEW j \in LogsBetween(log[k].block, toBlock)
        PROVE  j \in committed \union batch
    <3>1. j \in DOMAIN log /\ log[k].block <= log[j].block /\ log[j].block <= toBlock
          /\ log[j].block \in Nat /\ log[k].block \in Nat
      BY <1>0 DEF LogsBetween
    <3>2. CASE log[j].block >= fromBlock
      BY <2>1, <3>1, <3>2 DEF LogsBetween
    <3>3. CASE log[j].block < fromBlock
      <4>1. j \in LogsBetween(log[k].block, fromBlock - 1) /\ log[k].block < fromBlock
        BY <1>0, <3>1, <3>3, SMTT(15) DEF LogsBetween
      <4> QED
        BY <4>1 DEF ReplayInv
    <3> QED
      BY <1>0, <3>1, <3>2, <3>3, SMTT(15)
  <2>3. \A k \in sink : LogsBetween(log[k].block, fromBlock - 1)' = LogsBetween(log[k].block, toBlock)
    BY <1>0, <2>1, SMTT(15) DEF LogsBetween
  <2>4. \A k \in sink' : log'[k].block < fromBlock' =>
          LogsBetween(log[k].block, fromBlock - 1)' \subseteq committed'
    BY <2>1, <2>2, <2>3
  <2>5. jobBlock' < fromBlock'
    BY <1>0, <2>1, SMTT(15)
  <2> QED
    BY <2>1, <2>4, <2>5 DEF ReplayInv
<1>4. CASE PollBlock
  <2>1. pc' = "history" /\ UNCHANGED <<log, committed, fromBlock, sink>>
    BY <1>4 DEF PollBlock, chainVars, dbVars, subVars
  <2> QED
    BY <2>1 DEF ReplayInv, LogsBetween
<1>5. CASE StartSubscription
  <2>1. /\ pc = "subscribe" /\ pc' = "requery"
        /\ UNCHANGED <<log, committed, jobBlock, fromBlock, sink>>
    BY <1>5 DEF StartSubscription, chainVars, dbVars, blockVars
  <2> QED
    BY <2>1 DEF ReplayInv, LogsBetween
<1>6. CASE RequeryBlock
  <2>1. /\ pc = "requery" /\ pc' \in {"history", "sink", "lateSubscribe"}
        /\ UNCHANGED <<log, committed, jobBlock, fromBlock, sink>>
    BY <1>6 DEF RequeryBlock, LoopOrSink, chainVars, dbVars, subVars
  <2> QED
    BY <2>1 DEF ReplayInv, LogsBetween
<1>7. CASE StartLateSubscription
  <2>1. /\ pc = "lateSubscribe" /\ pc' = "sink"
        /\ UNCHANGED <<log, committed, jobBlock, fromBlock, sink>>
    BY <1>7 DEF StartLateSubscription, chainVars, dbVars, blockVars, subVars
  <2> QED
    BY <2>1 DEF ReplayInv, LogsBetween
<1>8. CASE ReadSink
  <2>1. PICK m \in sink : toBlock' = log[m].block /\ sink' = sink \ {n \in sink : n <= m}
    BY <1>8 DEF ReadSink
  <2>2. /\ pc = "sink" /\ pc' = "sinkCommit"
        /\ UNCHANGED <<log, committed, jobBlock, fromBlock>>
    BY <1>8 DEF ReadSink, chainVars, dbVars
  <2>3. \A k \in sink' : k \in sink /\ log[k].block >= log[m].block
    <3> SUFFICES ASSUME NEW k \in sink'
                 PROVE  k \in sink /\ log[k].block >= log[m].block
      OBVIOUS
    <3>1. k \in sink /\ k \in DOMAIN log /\ m \in DOMAIN log /\ m <= k
      BY <1>0, <2>1
    <3>2. log[m].block <= log[k].block /\ log[m].block \in Nat /\ log[k].block \in Nat
      BY <1>0, <3>1 DEF LogInv, LogOrdered
    <3> QED
      BY <3>1, <3>2
  <2>4. jobBlock < fromBlock \/ log[m].block >= jobBlock
    BY <2>2 DEF ReplayInv
  <2> QED
    BY <1>0, <2>1, <2>2, <2>3, <2>4 DEF ReplayInv, LogsBetween
<1>9. CASE CommitSink
  <2>1. /\ pc = "sinkCommit" /\ pc' = "sink" /\ jobBlock' = toBlock
        /\ committed \subseteq committed'
        /\ UNCHANGED <<log, fromBlock, sink>>
    BY <1>9 DEF CommitSink, Commit, chainVars, blockVars, subVars
  <2> QED
    BY <1>0, <2>1 DEF ReplayInv, LogsBetween
<1>10. CASE Stop
  BY <1>10 DEF Stop, ReplayInv
<1>11. ASSUME NEW op \in Operations, NEW i \in Indices, NEW v \in Values, Emit(op, i, v)
       PROVE  ReplayInv'
  <2>1. EmitLog(op, i, v) /\ UNCHANGED <<committed, jobBlock, pc, fromBlock, toBlock, sink>>
    BY <1>11 DEF Emit, jobVars, dbVars, blockVars
  <2>2. \A k \in DOMAIN log : log'[k] = log[k]
    BY <1>0, <2>1, EmitKeeps
  <2>3. ASSUME fromBlock <= height + 1, NEW b
        PROVE  LogsBetween(b, fromBlock - 1)' = LogsBetween(b, fromBlock - 1)
    <3>1. \A k \in DOMAIN log' : log'[k].block <= height => k \in DOMAIN log
      <4>1. PICK h \in Nat : h = height
        BY <1>0
      <4>2. LogsUpTo(h)' = LogsUpTo(h)
        <5>1. LogInv /\ h <= height
          BY <1>0, <4>1
        <5> QED
          BY <2>1, <5>1, EmitKeeps
      <4>3. ASSUME NEW k \in DOMAIN log', log'[k].block <= h
            PROVE  k \in DOMAIN log
        <5>1. k \in LogsUpTo(h)'
          BY <4>3 DEF LogsUpTo
        <5>2. k \in LogsUpTo(h)
          BY <4>2, <5>1
        <5> QED
          BY <5>2 DEF LogsUpTo
      <4> QED
        BY <4>1, <4>3
    <3>2. \A k \in DOMAIN log' : log'[k].block <= fromBlock - 1 => k \in DOMAIN log
      <4>1. LogInv'
        BY <1>0, <2>1, EmitKeeps
      <4>2. log' \in Seq(LogRecord) /\ \A e \in LogRecord : e.block \in Nat
        BY <4>1 DEF LogInv, ChainTypeOK, LogRecord
      <4>3. \A k \in DOMAIN log' : log'[k] \in LogRecord
        BY <4>2
      <4> QED
        BY <1>0, <2>3, <3>1, <4>2, <4>3, SMTT(15)
    <3> QED
      BY <1>0, <2>1, <2>2, <3>2, EmitKeeps DEF LogsBetween
  <2>4. fromBlock <= height + 1 \/ (sink = {} /\ pc # "sinkCommit")
    BY <1>a DEF OrderInv
  <2> QED
    BY <1>0, <2>1, <2>2, <2>3, <2>4 DEF ReplayInv
<1>12. CASE Mine
  <2>1. /\ height' = height + 1 /\ log' = log
        /\ UNCHANGED <<committed, jobBlock, pc, fromBlock, toBlock>>
        /\ sink' \subseteq sink \union LogsBetween(height + 1, height + 1)
        /\ pc = "stopped" => sink' = sink
    BY <1>12 DEF Mine, MineBlock, jobVars, dbVars, blockVars, Subscribed, GapInv
  <2>2. \A k \in LogsBetween(height + 1, height + 1) :
          log[k].block = height + 1 /\ k \in DOMAIN log
    BY <1>0 DEF LogsBetween
  <2>3. \A b : LogsBetween(b, fromBlock - 1)' = LogsBetween(b, fromBlock - 1)
    BY <2>1 DEF LogsBetween
  <2>4. fromBlock <= height + 1 \/ (sink' = {} /\ pc # "sinkCommit")
    BY <1>a, <2>1 DEF OrderInv
  <2>5. \A k \in sink' : k \in sink \/ log[k].block = height + 1
    BY <2>1, <2>2
  <2>6. \A k \in sink' : log'[k].block < fromBlock' =>
          LogsBetween(log[k].block, fromBlock - 1)' \subseteq committed'
    <3>1. \A k \in sink' : log[k].block < fromBlock => k \in sink
      BY <1>0, <2>4, <2>5
    <3> QED
      BY <2>1, <2>3, <3>1 DEF ReplayInv
  <2>7. pc' = "sinkCommit" /\ toBlock' < fromBlock' =>
          LogsBetween(toBlock, fromBlock - 1)' \subseteq committed'
    BY <2>1, <2>3 DEF ReplayInv
  <2>8. jobBlock <= height /\ (pc = "sinkCommit" => toBlock <= height)
    BY DEF Inv, BlocksInv, TypeOK
  <2>9. \A k \in sink' \ sink : /\ log[k].block >= jobBlock
                                /\ pc = "sinkCommit" => log[k].block >= toBlock
    BY <1>0, <2>5, <2>8, SMTT(15)
  <2> QED
    BY <2>1, <2>6, <2>7, <2>9 DEF ReplayInv
<1>13. CASE UNCHANGED vars
  BY <1>13 DEF vars, ReplayInv, LogsBetween, chainVars, dbVars, blockVars, subVars
<1> QED
  BY <1>1, <1>2, <1>3, <1>4, <1>5, <1>6, <1>7, <1>8, <1>9, <1>10, <1>11, <1>12, <1>13
     DEF Next, JobStep

(* The stored progress moves back only over logs that are committed: a     *)
(* restart from there repeats work and misses nothing.                     *)
THEOREM RegressIsHarmless == Spec => RegressLosesNothing
<1>1. Init => Inv /\ GapInv /\ OrderInv /\ ReplayInv
  BY InitInv DEF Init, GapInv, OrderInv, ReplayInv
<1>2. Inv /\ GapInv /\ OrderInv /\ ReplayInv /\ [Next]_vars
        => Inv' /\ GapInv' /\ OrderInv' /\ ReplayInv'
  BY NextKeepsInv, NextKeepsGapInv, NextKeepsOrderInv, NextKeepsReplayInv
<1>3. ASSUME Inv, OrderInv, ReplayInv, [Next]_vars, jobBlock' < jobBlock
      PROVE  LogsBetween(jobBlock', jobBlock) \subseteq committed
  <2>0. /\ jobBlock \in Nat /\ fromBlock \in Nat /\ toBlock \in Nat
        /\ \A k \in DOMAIN log : log[k].block \in Nat
    BY <1>3, LogDomain DEF Inv, TypeOK, LogInv, LogRecord
  <2>1. CASE CommitHistory
    <3>1. jobBlock' = toBlock /\ jobBlock <= fromBlock /\ fromBlock <= toBlock
      BY <1>3, <2>1 DEF CommitHistory, Commit, OrderInv
    <3> QED
      BY <1>3, <2>0, <3>1
  <2>2. CASE CommitSink
    <3>1. pc = "sinkCommit" /\ jobBlock' = toBlock /\ toBlock < jobBlock
      BY <1>3, <2>2 DEF CommitSink, Commit
    <3>2. jobBlock < fromBlock \/ toBlock >= jobBlock
      BY <1>3, <3>1 DEF ReplayInv
    <3>3. jobBlock < fromBlock /\ toBlock < fromBlock
      BY <2>0, <3>1, <3>2
    <3>4. LogsBetween(toBlock, fromBlock - 1) \subseteq committed
      BY <1>3, <3>1, <3>3 DEF ReplayInv
    <3>5. LogsBetween(toBlock, jobBlock) \subseteq LogsBetween(toBlock, fromBlock - 1)
      BY <2>0, <3>3 DEF LogsBetween
    <3> QED
      BY <3>1, <3>4, <3>5
  <2>3. CASE ~CommitHistory /\ ~CommitSink
    <3>1. jobBlock' = jobBlock
      BY <1>3, <2>3 DEF Next, JobStep, StartJob, FilterLogs, FilterRange, PollBlock,
           StartSubscription, RequeryBlock, StartLateSubscription, ReadSink, Stop, Emit, Mine,
           jobVars, vars, dbVars
    <3> QED
      BY <1>3, <2>0, <3>1
  <2> QED
    BY <2>1, <2>2, <2>3
<1>4. Inv /\ OrderInv /\ ReplayInv /\ [Next]_vars
        => [jobBlock' < jobBlock => LogsBetween(jobBlock', jobBlock) \subseteq committed]_vars
  BY <1>3
<1> QED
  BY <1>1, <1>2, <1>4, PTL DEF Spec, RegressLosesNothing

-----------------------------------------------------------------------------
(***************************************************************************)
(* Polling mode.                                                           *)
(***************************************************************************)

(* The loop is never more than one block ahead of the stored progress and  *)
(* never behind it, and what it has fetched is what the contract emitted   *)
(* in its range: a commit moves the database from one state of the         *)
(* contract to a later one.                                                *)
PollInv ==
  /\ StoreMatchesProgress
  /\ pc \in {"stopped", "history", "commit", "poll"}
  /\ pc # "stopped" => jobBlock <= fromBlock /\ fromBlock <= jobBlock + 1
  /\ pc = "commit" => batch = LogsBetween(fromBlock, toBlock) /\ fromBlock <= toBlock

(* With no logs the contract's state is empty at every block. *)
LEMMA InitPollInv ==
  ASSUME Init
  PROVE  PollInv
<1>1. LogsUpTo(jobBlock) = {}
  BY DEF Init, ChainInit, LogsUpTo
<1> QED
  BY <1>1 DEF Init, PollInv, StoreMatchesProgress, LeavesAt, LeafIndexAt, OnLeaf, OnValue,
              CommitLeaves, CommitLeafIndex, NoLeaves, NoLeafIndex

(* The state of the contract at a block depends on the logs alone. *)
LEMMA StoreUnchanged ==
  ASSUME StoreMatchesProgress, UNCHANGED chainVars, UNCHANGED dbVars
  PROVE  StoreMatchesProgress'
BY DEF StoreMatchesProgress, LeavesAt, LeafIndexAt, LogsUpTo, CommitLeaves, CommitLeafIndex,
       OnLeaf, OnValue, LeafWrite, IndexWrite, chainVars, dbVars

(* The commit of a fetched range takes the database to the contract's      *)
(* state at the end of the range, which is not before the stored progress. *)
LEMMA CommitMoves ==
  ASSUME Inv, PollInv, CommitHistory
  PROVE  /\ leaves' = LeavesAt(toBlock)
         /\ leafIndex' = LeafIndexAt(toBlock)
         /\ jobBlock' = toBlock
         /\ jobBlock <= toBlock /\ toBlock <= height
<1>1. pc = "commit" /\ Commit(toBlock)
  BY DEF CommitHistory
<1>2. /\ jobBlock \in Nat /\ fromBlock \in Nat /\ toBlock \in Nat
      /\ currentBlock \in Nat /\ height \in Nat
  BY DEF Inv, TypeOK, ChainTypeOK
<1>3. /\ fromBlock <= jobBlock + 1 /\ jobBlock <= toBlock /\ toBlock <= height
      /\ batch = LogsBetween(fromBlock, toBlock)
  <2>1. /\ jobBlock <= fromBlock /\ fromBlock <= jobBlock + 1
        /\ batch = LogsBetween(fromBlock, toBlock) /\ fromBlock <= toBlock
    BY <1>1 DEF PollInv
  <2>2. toBlock <= height
    BY DEF Inv, TypeOK
  <2> QED
    BY <1>2, <2>1, <2>2
<1>4. leaves = LeavesAt(jobBlock) /\ leafIndex = LeafIndexAt(jobBlock)
  BY DEF PollInv, StoreMatchesProgress
<1>5. /\ CommitLeaves(LogsBetween(fromBlock, toBlock), LeavesAt(jobBlock)) = LeavesAt(toBlock)
      /\ CommitLeafIndex(LogsBetween(fromBlock, toBlock), LeafIndexAt(jobBlock))
           = LeafIndexAt(toBlock)
  BY <1>2, <1>3, Replay, SMTT(15) DEF Inv
<1> QED
  BY <1>1, <1>3, <1>4, <1>5 DEF Commit

(* Every step of a polling job keeps PollInv. *)
LEMMA NextKeepsPollInv ==
  ASSUME Mode = ModePoll, Inv, PollInv, [Next]_vars
  PROVE  PollInv'
<1>0. /\ jobBlock \in Nat /\ fromBlock \in Nat /\ toBlock \in Nat
      /\ currentBlock \in Nat /\ height \in Nat /\ LogInv
  BY DEF Inv, TypeOK, ChainTypeOK
<1>1. CASE StartJob
  BY <1>0, <1>1, StoreUnchanged, SMTT(15) DEF StartJob, PollInv, dbVars
<1>2. CASE FilterLogs
  <2> DEFINE to == Min({fromBlock + MaxBlocksDistance - 1, currentBlock})
  <2>1. to \in Nat /\ fromBlock <= to
    BY <1>2, RangeEnd DEF FilterLogs, FilterRange, Inv
  <2>2. toBlock' = to /\ batch' = LogsBetween(fromBlock, to) /\ pc' = "commit" /\ pc = "history"
        /\ UNCHANGED <<chainVars, dbVars, fromBlock>>
    BY <1>2 DEF FilterLogs, FilterRange
  <2> HIDE DEF to
  <2>3. LogsBetween(fromBlock, toBlock)' = LogsBetween(fromBlock, to)
    BY <2>2 DEF LogsBetween, chainVars
  <2> QED
    BY <2>1, <2>2, <2>3, StoreUnchanged DEF PollInv, dbVars
<1>3. CASE CommitHistory
  <2>1. leaves' = LeavesAt(toBlock) /\ leafIndex' = LeafIndexAt(toBlock) /\ jobBlock' = toBlock
    BY <1>3, CommitMoves
  <2>2. log' = log /\ fromBlock' = toBlock + 1 /\ pc' \in {"history", "poll"}
    BY <1>3 DEF CommitHistory, ContinuePoll, ContinueWS, ModePoll, ModeWS, chainVars
  <2>3. LeavesAt(toBlock) = LeavesAt(jobBlock)' /\ LeafIndexAt(toBlock) = LeafIndexAt(jobBlock)'
    BY <2>1, <2>2 DEF LeavesAt, LeafIndexAt, LogsUpTo, CommitLeaves, CommitLeafIndex,
                      OnLeaf, OnValue, LeafWrite, IndexWrite
  <2> QED
    BY <1>0, <2>1, <2>2, <2>3, SMTT(15) DEF PollInv, StoreMatchesProgress
<1>4. CASE PollBlock
  BY <1>4, StoreUnchanged DEF PollBlock, PollInv, dbVars
<1>5. CASE \/ StartSubscription \/ RequeryBlock \/ StartLateSubscription
           \/ ReadSink \/ CommitSink
  BY <1>5 DEF PollInv, StartSubscription, RequeryBlock, StartLateSubscription, ReadSink, CommitSink
<1>6. CASE Stop
  BY <1>6, StoreUnchanged DEF Stop, PollInv
<1>7. ASSUME NEW op \in Operations, NEW i \in Indices, NEW v \in Values, Emit(op, i, v)
      PROVE  PollInv'
  <2>1. EmitLog(op, i, v) /\ UNCHANGED <<dbVars, pc, blockVars, batch>>
    BY <1>7 DEF Emit, jobVars
  <2>2. /\ DOMAIN log \subseteq DOMAIN log'
        /\ \A k \in DOMAIN log : log'[k] = log[k]
        /\ \A b \in Nat : b <= height => LogsUpTo(b)' = LogsUpTo(b)
    BY <1>0, <2>1, EmitKeeps
  <2>3. LogsUpTo(jobBlock)' = LogsUpTo(jobBlock)
    <3>1. jobBlock <= height /\ jobBlock' = jobBlock
      BY <2>1 DEF Inv, BlocksInv, dbVars
    <3> QED
      BY <1>0, <2>2, <3>1 DEF LogsUpTo
  <2>4. StoreMatchesProgress'
    BY <1>0, <2>1, <2>2, <2>3, StateAtStable DEF PollInv, StoreMatchesProgress, dbVars
  <2>5. ASSUME pc = "commit"
        PROVE  LogsBetween(fromBlock, toBlock)' = LogsBetween(fromBlock, toBlock)
    <3>1. toBlock <= height
      BY DEF Inv, TypeOK
    <3>2. {k \in DOMAIN log' : log'[k].block <= toBlock} = {k \in DOMAIN log : log[k].block <= toBlock}
      BY <1>0, <2>2, <3>1 DEF LogsUpTo
    <3> QED
      BY <2>1, <2>2, <3>2 DEF LogsBetween, blockVars
  <2> QED
    BY <2>1, <2>4, <2>5 DEF PollInv, blockVars, dbVars
<1>8. CASE Mine
  <2>1. log' = log /\ UNCHANGED <<dbVars, pc, blockVars, batch>>
    BY <1>8 DEF Mine, MineBlock, jobVars
  <2>2. StoreMatchesProgress'
    BY <2>1 DEF PollInv, StoreMatchesProgress, LeavesAt, LeafIndexAt, LogsUpTo, CommitLeaves,
                CommitLeafIndex, OnLeaf, OnValue, LeafWrite, IndexWrite, dbVars
  <2> QED
    BY <2>1, <2>2 DEF PollInv, LogsBetween, dbVars, blockVars
<1>9. CASE UNCHANGED vars
  <2>1. UNCHANGED <<chainVars, dbVars, pc, blockVars, batch>>
    BY <1>9 DEF vars
  <2> QED
    BY <2>1, StoreUnchanged DEF PollInv, LogsBetween, chainVars, dbVars, blockVars
<1> QED
  BY <1>1, <1>2, <1>3, <1>4, <1>5, <1>6, <1>7, <1>8, <1>9 DEF Next, JobStep

(* In polling mode the database is always exactly the contract's state at  *)
(* the stored CurrentBlock, whatever the chunk size, the chain and the     *)
(* moments at which the job is stopped: Commit writes the operations and   *)
(* the progress in one batch, and the block that a restarted job reads a   *)
(* second time changes nothing.                                            *)
THEOREM PollStoreMatchesProgress ==
  ASSUME Mode = ModePoll
  PROVE  Spec => []StoreMatchesProgress
<1>1. Init => Inv /\ PollInv
  BY InitInv, InitPollInv
<1>2. Inv /\ PollInv /\ [Next]_vars => Inv' /\ PollInv'
  BY NextKeepsInv, NextKeepsPollInv
<1>3. PollInv => StoreMatchesProgress
  BY DEF PollInv
<1> QED
  BY <1>1, <1>2, <1>3, PTL DEF Spec

(* Every step keeps the contract's two views in agreement. *)
LEMMA NextKeepsAgreement ==
  ASSUME Inv, ViewsAgree, [Next]_vars
  PROVE  ViewsAgree'
<1>1. CASE UNCHANGED log
  <2>1. \A b : LeavesAt(b)' = LeavesAt(b) /\ LeafIndexAt(b)' = LeafIndexAt(b)
    <3>1. \A b : LogsUpTo(b)' = LogsUpTo(b)
      BY <1>1 DEF LogsUpTo
    <3>2. \A S, f : CommitLeaves(S, f)' = CommitLeaves(S, f)
      BY <1>1 DEF CommitLeaves, OnLeaf, LeafWrite
    <3>3. \A S, f : CommitLeafIndex(S, f)' = CommitLeafIndex(S, f)
      BY <1>1 DEF CommitLeafIndex, OnValue, IndexWrite
    <3> QED
      BY <3>1, <3>2, <3>3 DEF LeavesAt, LeafIndexAt, NoLeaves, NoLeafIndex
  <2> QED
    BY <2>1 DEF ViewsAgree
<1>2. ASSUME NEW op \in Operations, NEW i \in Indices, NEW v \in Values, Emit(op, i, v)
      PROVE  ViewsAgree'
  BY <1>2, EmitKeepsAgreement DEF Emit, Inv
<1>3. JobStep => UNCHANGED log
  BY DEF JobStep, StartJob, FilterLogs, FilterRange, CommitHistory, PollBlock, StartSubscription,
         RequeryBlock, StartLateSubscription, ReadSink, CommitSink, chainVars
<1>4. Stop \/ Mine \/ UNCHANGED vars => UNCHANGED log
  BY DEF Stop, Mine, MineBlock, vars, chainVars
<1> QED
  BY <1>1, <1>2, <1>3, <1>4 DEF Next

(* In polling mode GetLeafIndex and GetLeaf agree, restarts or not: the    *)
(* database is the contract's state at a block, and the contract keeps a   *)
(* certificate in one leaf at most.                                        *)
THEOREM PollLeafIndexAgrees ==
  ASSUME Mode = ModePoll
  PROVE  Spec => []LeafIndexAgrees
<1>1. Init => Inv /\ PollInv /\ ViewsAgree
  <2>1. ASSUME Init, NEW b
        PROVE  /\ \A i \in Indices : LeavesAt(b)[i] = Empty
               /\ \A v \in Values : LeafIndexAt(b)[v] = NoIndex
    <3>1. LogsUpTo(b) = {}
      BY <2>1 DEF Init, ChainInit, LogsUpTo
    <3> QED
      BY <3>1 DEF LeavesAt, LeafIndexAt, CommitLeaves, CommitLeafIndex, OnLeaf, OnValue,
                  NoLeaves, NoLeafIndex
  <2>2. Init => ViewsAgree
    BY <2>1, SentinelAssumption DEF ViewsAgree
  <2> QED
    BY <2>2, InitInv, InitPollInv
<1>2. Inv /\ PollInv /\ ViewsAgree /\ [Next]_vars => Inv' /\ PollInv' /\ ViewsAgree'
  BY NextKeepsInv, NextKeepsPollInv, NextKeepsAgreement
<1>3. Inv /\ PollInv /\ ViewsAgree => LeafIndexAgrees
  <2>1. Inv => jobBlock \in Nat
    BY DEF Inv, TypeOK
  <2>2. PollInv => leaves = LeavesAt(jobBlock) /\ leafIndex = LeafIndexAt(jobBlock)
    BY DEF PollInv, StoreMatchesProgress
  <2> QED
    BY <2>1, <2>2 DEF ViewsAgree, LeafIndexAgrees
<1> QED
  BY <1>1, <1>2, <1>3, PTL DEF Spec

(* The abstract registry's chain is the job's chain. *)
LEMMA SameChain ==
  /\ Mirror!ChainInit <=> ChainInit
  /\ Mirror!NoLeaves = NoLeaves /\ Mirror!NoLeafIndex = NoLeafIndex
  /\ Mirror!Operations = Operations /\ Mirror!chainVars = chainVars
  /\ Mirror!MineBlock <=> MineBlock
  /\ \A op, i, v : Mirror!EmitLog(op, i, v) <=> EmitLog(op, i, v)
  /\ \A b : Mirror!LeavesAt(b) = LeavesAt(b) /\ Mirror!LeafIndexAt(b) = LeafIndexAt(b)
<1>1. /\ Mirror!ChainInit <=> ChainInit
      /\ Mirror!NoLeaves = NoLeaves /\ Mirror!NoLeafIndex = NoLeafIndex
      /\ Mirror!Operations = Operations /\ Mirror!chainVars = chainVars
      /\ Mirror!MineBlock <=> MineBlock
  BY DEF Mirror!ChainInit, ChainInit, Mirror!NoLeaves, NoLeaves, Mirror!NoLeafIndex, NoLeafIndex,
         Mirror!Operations, Operations, Mirror!chainVars, chainVars, Mirror!MineBlock, MineBlock
<1>2. ASSUME NEW S
      PROVE  Mirror!Max(S) = Max(S)
  BY Zenon DEF Mirror!Max, Max
<1>3. ASSUME NEW B, NEW l
      PROVE  /\ Mirror!CommitLeaves(B, l) = CommitLeaves(B, l)
             /\ Mirror!CommitLeafIndex(B, l) = CommitLeafIndex(B, l)
  BY <1>2 DEF Mirror!CommitLeaves, CommitLeaves, Mirror!CommitLeafIndex, CommitLeafIndex,
              Mirror!OnLeaf, OnLeaf, Mirror!OnValue, OnValue,
              Mirror!LeafWrite, LeafWrite, Mirror!IndexWrite, IndexWrite
<1>4. \A op, i, v : Mirror!EmitLog(op, i, v) <=> EmitLog(op, i, v)
  BY <1>1, <1>3 DEF Mirror!EmitLog, EmitLog
<1>5. ASSUME NEW b
      PROVE  Mirror!LeavesAt(b) = LeavesAt(b) /\ Mirror!LeafIndexAt(b) = LeafIndexAt(b)
  <2>1. Mirror!LogsUpTo(b) = LogsUpTo(b)
    BY DEF Mirror!LogsUpTo, LogsUpTo
  <2> QED
    BY <1>1, <1>3, <2>1 DEF Mirror!LeavesAt, LeavesAt, Mirror!LeafIndexAt, LeafIndexAt
<1> QED
  BY <1>1, <1>4, <1>5

(* A step of a polling job changes the database only by moving it forward  *)
(* to the contract's state at a later block.                               *)
LEMMA StepMovesMirror ==
  ASSUME Mode = ModePoll, Inv, PollInv, [Next]_vars
  PROVE  [Mirror!Next]_(Mirror!mirrorVars)
<1>0. jobBlock \in Nat /\ toBlock \in Nat /\ height \in Nat
  BY DEF Inv, TypeOK, ChainTypeOK
<1>1. CASE CommitHistory
  <2>1. /\ leaves' = LeavesAt(toBlock) /\ leafIndex' = LeafIndexAt(toBlock)
        /\ jobBlock' = toBlock /\ jobBlock <= toBlock /\ toBlock <= height
    BY <1>1, CommitMoves
  <2>2. UNCHANGED chainVars
    BY <1>1 DEF CommitHistory
  <2>3. CASE toBlock = jobBlock
    BY <2>1, <2>2, <2>3 DEF PollInv, StoreMatchesProgress, Mirror!mirrorVars, chainVars
  <2>4. CASE toBlock # jobBlock
    <3>1. toBlock \in (jobBlock + 1)..height
      BY <1>0, <2>1, <2>4
    <3>2. Mirror!MoveTo(toBlock)
      BY <2>1, <2>2, SameChain DEF Mirror!MoveTo, Mirror!chainVars, chainVars
    <3> QED
      BY <3>1, <3>2 DEF Mirror!Advance, Mirror!Next
  <2> QED
    BY <2>3, <2>4
<1>2. CASE StartJob \/ FilterLogs \/ PollBlock \/ Stop \/ UNCHANGED vars
  BY <1>2 DEF StartJob, FilterLogs, FilterRange, PollBlock, Stop, vars, dbVars, chainVars, Mirror!mirrorVars
<1>3. CASE \/ StartSubscription \/ RequeryBlock \/ StartLateSubscription
           \/ ReadSink \/ CommitSink
  BY <1>3 DEF PollInv, StartSubscription, RequeryBlock, StartLateSubscription, ReadSink, CommitSink
<1>4. ASSUME NEW op \in Operations, NEW i \in Indices, NEW v \in Values, Emit(op, i, v)
      PROVE  Mirror!Next
  <2>1. EmitLog(op, i, v) /\ UNCHANGED <<leaves, leafIndex, jobBlock>>
    BY <1>4 DEF Emit, jobVars, dbVars
  <2> QED
    BY <2>1, SameChain DEF Mirror!Chain, Mirror!Next
<1>5. CASE Mine
  <2>1. MineBlock /\ UNCHANGED <<leaves, leafIndex, jobBlock>>
    BY <1>5 DEF Mine, jobVars, dbVars
  <2> QED
    BY <2>1, SameChain DEF Mirror!Chain, Mirror!Next
<1> QED
  BY <1>1, <1>2, <1>3, <1>4, <1>5 DEF Next, JobStep

(* A polling job implements the abstract registry: the database moves only *)
(* forward, from one state of the contract to a later one, in one step.    *)
(* A commit of IndexEVMLogs that holds blocks already indexed is no step.  *)
THEOREM PollImplementsMirror ==
  ASSUME Mode = ModePoll
  PROVE  Spec => MirrorSpec
<1>1. Init => Inv /\ PollInv /\ Mirror!Init
  BY InitInv, InitPollInv, SameChain DEF Init, Mirror!Init
<1>2. Inv /\ PollInv /\ [Next]_vars => Inv' /\ PollInv' /\ [Mirror!Next]_(Mirror!mirrorVars)
  BY NextKeepsInv, NextKeepsPollInv, StepMovesMirror
<1> QED
  BY <1>1, <1>2, PTL DEF Spec, MirrorSpec, Mirror!Spec

(* In polling mode the block that is passed to Commit is "the highest      *)
(* block number that was indexed" (handler.go:42): the stored progress     *)
(* never moves back, not even when a restarted job repeats a block.        *)
THEOREM PollProgressNeverRegresses ==
  ASSUME Mode = ModePoll
  PROVE  Spec => ProgressNeverRegresses
<1>1. Init => Inv /\ PollInv
  BY InitInv, InitPollInv
<1>2. Inv /\ PollInv /\ [Next]_vars => Inv' /\ PollInv'
  BY NextKeepsInv, NextKeepsPollInv
<1>3. Inv /\ PollInv /\ [Next]_vars => [jobBlock' >= jobBlock]_vars
  <2> SUFFICES ASSUME Inv, PollInv, [Next]_vars
               PROVE  jobBlock' >= jobBlock
    OBVIOUS
  <2>1. [Mirror!Next]_(Mirror!mirrorVars) /\ jobBlock \in Nat /\ height \in Nat
    BY StepMovesMirror DEF Inv, TypeOK, ChainTypeOK
  <2> QED
    BY <2>1 DEF Mirror!Next, Mirror!Chain, Mirror!Advance, Mirror!MoveTo, Mirror!mirrorVars
<1> QED
  BY <1>1, <1>2, <1>3, PTL DEF Spec, ProgressNeverRegresses
=============================================================================
