--------------------------- MODULE SubQueueProofs ---------------------------
(***************************************************************************)
(* An implicit producer's sub-queue, for any blocks, sizes of block and    *)
(* index, growth of the index, bulks and consumers.                        *)
(*                                                                         *)
(*   Tickets.  However the producer inserts, grows, fails and undoes, and  *)
(*     however consumers walk through blocks, the four counters are        *)
(*     treated as module DequeueClaim treats them; what is proved there    *)
(*     holds here.                                                         *)
(*   Memory.  Positions wrap around, so blocks are numbered: block k of    *)
(*     the queue holds elements First(k) on, its key in the block index is *)
(*     Key(k), and the newest array of the index stands for a window of    *)
(*     Cap consecutive numbers.  MemoryInv says which entry, which block   *)
(*     of memory and which count belong to each number, and where each     *)
(*     block of memory is.  The window never holds two numbers with one    *)
(*     key, because the capacities divide the number of keys.              *)
(*   Slots.  SlotsOK says which elements lie in memory and where.  MInv    *)
(*     is the whole invariant.                                             *)
(*   Refinement.  What is claimed, moved out and left of a claim maps each *)
(*     step to one of module Fifo, or to a stutter.                        *)
(*                                                                         *)
(* The order is: tickets, block numbers and rings, the producer, the block *)
(* index, consumers, the steps of the producer and of a consumer on memory *)
(* and slots, and the theorems.                                            *)
(***************************************************************************)
EXTENDS SubQueue, DequeueClaimProofs, SequenceTheorems

(* What Publish needs to be an Enqueue of a natural number of elements.    *)
Counts ==
  /\ tailIndex \in Nat
  /\ DOMAIN bulk = {"count", "start", "chain", "undone"} /\ bulk.count \in Nat

LEMMA CountsInit == QueueInit => Counts
BY DEF QueueInit, Init, MemoryInit, NoBulk, Counts

(* A step of the producer that leaves the counters and bulk.count alone.   *)
LEMMA CountsKept ==
  ASSUME Counts, UNCHANGED vars,
         \/ bulk' = NoBulk
         \/ UNCHANGED bulk
         \/ \E n \in Nat : \E b : bulk' = [NoBulk EXCEPT !.count = n, !.start = b]
         \/ \E x : bulk' = [bulk EXCEPT !.chain = x]
         \/ \E x : bulk' = [bulk EXCEPT !.undone = x]
  PROVE  Counts'
<1>1. tailIndex' \in Nat
  BY DEF Counts, vars, counters
<1>2. DOMAIN bulk' = {"count", "start", "chain", "undone"} /\ bulk'.count \in Nat
  <2>0. CASE bulk' = NoBulk
    BY <2>0 DEF NoBulk
  <2>1. CASE UNCHANGED bulk
    BY <2>1 DEF Counts
  <2>2. ASSUME NEW n \in Nat, NEW b, bulk' = [NoBulk EXCEPT !.count = n, !.start = b]
        PROVE  DOMAIN bulk' = {"count", "start", "chain", "undone"} /\ bulk'.count \in Nat
    BY <2>2 DEF NoBulk
  <2>3. ASSUME NEW x, bulk' = [bulk EXCEPT !.chain = x] \/ bulk' = [bulk EXCEPT !.undone = x]
        PROVE  DOMAIN bulk' = {"count", "start", "chain", "undone"} /\ bulk'.count \in Nat
    BY <2>3 DEF Counts
  <2> QED BY <2>0, <2>1, <2>2, <2>3
<1> QED BY <1>1, <1>2 DEF Counts

(* Each step of the queue is one of the ticket protocol or none of its     *)
(* business.                                                               *)
LEMMA Simulates == ASSUME Counts, QueueNext PROVE Counts' /\ [Next]_vars
<1> USE QueueAssumption, BoundAssumption
<1>1. CASE EnqueueInBlock
  <2>1. Enqueue(1) /\ UNCHANGED bulk
    BY <1>1 DEF EnqueueInBlock, producer
  <2>2. 1 \in 1..MaxTail
    BY <2>1 DEF Enqueue, Counts
  <2> QED BY <2>1, <2>2 DEF Next, Counts, Enqueue
<1>2. CASE Publish
  <2> DEFINE n == Positive(bulk.count - 1) + 1
  <2>1. Enqueue(n) /\ bulk' = NoBulk
    BY <1>2 DEF Publish
  <2>2. n \in Nat \ {0}
    BY DEF Positive, Counts
  <2>3. n \in 1..MaxTail
    BY <2>1, <2>2 DEF Enqueue, Counts
  <2>4. Counts'
    BY <2>1, <2>2 DEF Enqueue, Counts, NoBulk
  <2> QED BY <2>1, <2>3, <2>4 DEF Next
<1>3. CASE InsertEntry \/ GrowIndex \/ StoreKey \/ StoreTail \/ Requisition \/ Construct
           \/ Rewind \/ ClearValue \/ InsertFails \/ BulkConstruct \/ BulkThrow \/ UndoEntry
  <2>1. UNCHANGED <<vars, bulk>>
    BY <1>3 DEF InsertEntry, GrowIndex, StoreKey, StoreTail, Requisition, Construct, Rewind,
                ClearValue, InsertFails, BulkConstruct, BulkThrow, UndoEntry
  <2> QED BY <2>1, CountsKept
<1>4. CASE StoreValue
  <2>1. UNCHANGED vars /\ (UNCHANGED bulk \/ \E x : bulk' = [bulk EXCEPT !.chain = x])
    BY <1>4 DEF StoreValue
  <2> QED BY <2>1, CountsKept
<1>5. CASE UndoTail \/ UndoBlocks
  <2>1. UNCHANGED vars /\ (bulk' = NoBulk \/ \E x : bulk' = [bulk EXCEPT !.undone = x])
    BY <1>5 DEF UndoTail, UndoBlocks
  <2> QED BY <2>1, CountsKept
<1>6. ASSUME NEW n \in Bulks, StartBulk(n) PROVE Counts' /\ [Next]_vars
  <2>1. UNCHANGED vars /\ n \in Nat /\ bulk' = [NoBulk EXCEPT !.count = n, !.start = tailBlock]
    BY <1>6 DEF StartBulk
  <2> QED BY <2>1, CountsKept
<1>7. ASSUME NEW c \in Consumer, ClaimStep(c) \/ TakeIndex(c) PROVE Counts' /\ [Next]_vars
  <2>1. (Draw(c) \/ GiveBack(c) \/ TakeAll(c) \/ TakeRest(c)) /\ UNCHANGED bulk
    BY <1>7 DEF ClaimStep, TakeIndex, memory, producer
  <2>2. UNCHANGED tailIndex
    BY <2>1 DEF Draw, GiveBack, TakeAll, TakeRest, Grant
  <2> QED BY <2>1, <2>2 DEF Next, Counts
<1>8. ASSUME NEW c \in Consumer, ConsumerStep(c), ~ClaimStep(c), ~TakeIndex(c)
      PROVE  Counts' /\ [Next]_vars
  <2>1. UNCHANGED <<vars, bulk>>
    BY <1>8 DEF ConsumerStep, LoadHeader, LoadTail, LoadKey, LoadValue, Move, SetEmpty,
                ClearEntry, AddToFreeList, producer
  <2> QED BY <2>1, CountsKept
<1> QED
  BY <1>1, <1>2, <1>3, <1>4, <1>5, <1>6, <1>7, <1>8 DEF QueueNext, ProducerStep, ConsumerStep

(* An implicit producer's sub-queue implements the ticket protocol.        *)
THEOREM UsesTickets == QueueSpec => Spec
<1>1. QueueInit => Init /\ Counts
  BY CountsInit DEF QueueInit
<1>2. Counts /\ [QueueNext]_allVars => Counts' /\ [Next]_vars
  <2> SUFFICES ASSUME Counts, [QueueNext]_allVars PROVE Counts' /\ [Next]_vars
    OBVIOUS
  <2>1. CASE QueueNext
    BY <2>1, Simulates
  <2>2. CASE UNCHANGED allVars
    <3>1. UNCHANGED <<vars, bulk>>
      BY <2>2 DEF allVars, memory, producer
    <3> QED BY <3>1, CountsKept
  <2> QED BY <2>1, <2>2
<1> QED BY <1>1, <1>2, PTL DEF QueueSpec, Spec

(* concurrentqueue.h:2716: no consumer of an implicit producer's sub-queue *)
(* gets an index whose element is not published yet.                       *)
THEOREM HeadStaysBehind == QueueSpec => []HeadWithinTail
BY UsesTickets, HeadNeverPassesTail, PTL

(* The assertions at concurrentqueue.h:2483 and 2706 never fail.           *)
THEOREM AssertionsHold == QueueSpec => []OvercommitAssertion
BY UsesTickets, AssertionHolds, PTL

(* Whenever no claim is under way, the counters show exactly the elements  *)
(* that are left (concurrentqueue.h:2700, 2713).                           *)
THEOREM NothingLeftBehind == QueueSpec => []NoneStranded
BY UsesTickets, NothingStranded, PTL

-----------------------------------------------------------------------------
(* Arithmetic.  Blocks are numbered from 0 without bound; block k holds    *)
(* the elements from First(k) on, and Key(k) is its key in the index.      *)
First(k) == BLOCK_SIZE * k
Key(k)   == Wrap(Base + First(k))
Keys     == IndexMod \div BLOCK_SIZE

LEMMA Products ==
  /\ Keys \in Nat /\ Keys > 0 /\ IndexMod = BLOCK_SIZE * Keys
  /\ Past \in Nat /\ Base = BLOCK_SIZE * Past
<1>1. /\ BLOCK_SIZE \in Nat /\ BLOCK_SIZE > 1 /\ IndexMod \in Nat /\ IndexMod > 0
      /\ IndexMod % BLOCK_SIZE = 0 /\ Base \in Nat /\ Base % BLOCK_SIZE = 0
  BY SizeAssumption, QueueAssumption
<1>2. Keys \in Int /\ IndexMod = BLOCK_SIZE * Keys
  BY <1>1, Division DEF Keys
<1>3. Past \in Int /\ Base = BLOCK_SIZE * Past
  BY <1>1, Division DEF Past
<1>4. Keys > 0
  BY <1>1, <1>2
<1>5. Past >= 0
  BY <1>1, <1>3
<1> QED BY <1>1, <1>2, <1>3, <1>4, <1>5

LEMMA Sizes ==
  /\ BLOCK_SIZE \in Nat /\ BLOCK_SIZE > 1 /\ IndexMod \in Nat /\ IndexMod > 0
  /\ Base \in Nat /\ Past \in Nat /\ Keys \in Nat /\ Keys > 0
BY SizeAssumption, QueueAssumption, Products

(* Blocks follow one another.                                              *)
LEMMA FirstType == First(0) = 0 /\ \A k \in Int : First(k) \in Int
BY Sizes DEF First

LEMMA FirstNext == \A k \in Int : First(k + 1) = First(k) + BLOCK_SIZE
BY Sizes DEF First

LEMMA FirstOrder == \A j, k \in Int : j < k => First(j) + BLOCK_SIZE <= First(k)
<1>1. ASSUME NEW b \in Nat, NEW j \in Int, NEW k \in Int, j < k PROVE b * j + b <= b * k
  BY <1>1
<1> QED BY <1>1, Sizes DEF First

LEMMA BlockNoFacts ==
  /\ \A n \in Int : /\ BlockNo(n) \in Int
                    /\ First(BlockNo(n)) <= n /\ n < First(BlockNo(n)) + BLOCK_SIZE
  /\ \A n, k \in Int : First(k) <= n /\ n < First(k) + BLOCK_SIZE => BlockNo(n) = k
  /\ \A n \in Nat : BlockNo(n) \in Nat
  /\ \A m, n \in Int : m <= n => BlockNo(m) <= BlockNo(n)
<1>1. \A n \in Int : /\ BlockNo(n) \in Int
                     /\ First(BlockNo(n)) <= n /\ n < First(BlockNo(n)) + BLOCK_SIZE
  BY Sizes, Division DEF BlockNo, First
<1>2. ASSUME NEW m \in Int, NEW n \in Int, m <= n PROVE BlockNo(m) <= BlockNo(n)
  <2>1. CASE BlockNo(n) < BlockNo(m)
    <3>1. First(BlockNo(n)) + BLOCK_SIZE <= First(BlockNo(m))
      BY <1>1, <2>1, FirstOrder
    <3>2. First(BlockNo(n)) \in Int /\ First(BlockNo(m)) \in Int /\ BLOCK_SIZE \in Int
      BY <1>1, FirstType, Sizes
    <3>3. n < First(BlockNo(n)) + BLOCK_SIZE /\ First(BlockNo(m)) <= m
      BY <1>1
    <3> QED BY <1>2, <3>1, <3>2, <3>3
  <2> QED BY <1>1, <2>1
<1>3. ASSUME NEW n \in Int, NEW k \in Int, First(k) <= n, n < First(k) + BLOCK_SIZE
      PROVE  BlockNo(n) = k
  <2>1. /\ First(BlockNo(n)) \in Int /\ First(k) \in Int /\ BLOCK_SIZE \in Int
        /\ BlockNo(n) \in Int
    BY <1>1, FirstType, Sizes
  <2>2. First(BlockNo(n)) <= n /\ n < First(BlockNo(n)) + BLOCK_SIZE
    BY <1>1
  <2>3. ~(BlockNo(n) < k)
    <3>1. BlockNo(n) < k => First(BlockNo(n)) + BLOCK_SIZE <= First(k)
      BY <1>3, <2>1, FirstOrder
    <3> QED BY <1>3, <2>1, <2>2, <3>1
  <2>4. ~(k < BlockNo(n))
    <3>1. k < BlockNo(n) => First(k) + BLOCK_SIZE <= First(BlockNo(n))
      BY <1>3, <2>1, FirstOrder
    <3> QED BY <1>3, <2>1, <2>2, <3>1
  <2> QED BY <2>1, <2>3, <2>4
<1>4. BlockNo(0) = 0
  <2>1. First(0) <= 0 /\ 0 < First(0) + BLOCK_SIZE
    BY FirstType, Sizes
  <2> QED BY <2>1, <1>3
<1>5. ASSUME NEW n \in Nat PROVE BlockNo(n) \in Nat
  BY <1>1, <1>2, <1>4
<1> QED BY <1>1, <1>2, <1>3, <1>5

(* The slot of an element is its place in its block.                       *)
LEMMA SlotFacts ==
  \A n \in Int : /\ Idx(n) \in 0..(IndexMod - 1)
                 /\ Slot(Idx(n)) = n - First(BlockNo(n))
                 /\ Slot(Idx(n)) \in 0..(BLOCK_SIZE - 1)
<1> SUFFICES ASSUME NEW n \in Int
             PROVE  /\ Idx(n) \in 0..(IndexMod - 1)
                    /\ Slot(Idx(n)) = n - First(BlockNo(n))
                    /\ Slot(Idx(n)) \in 0..(BLOCK_SIZE - 1)
  OBVIOUS
<1> DEFINE i == Idx(n)
           s == n - First(BlockNo(n))
<1>0. BLOCK_SIZE \in Nat /\ BLOCK_SIZE > 0 /\ IndexMod \in Nat /\ IndexMod > 0 /\ Past \in Nat
  BY Sizes
<1>1. Base + n \in Int /\ i = (Base + n) % IndexMod
  BY Sizes DEF Idx, Wrap
<1>2. i \in 0..(IndexMod - 1) /\ Congruent(IndexMod, Base + n, i)
  BY <1>0, <1>1, CongruentSelf
<1>3. IndexMod % BLOCK_SIZE = 0
  BY SizeAssumption
<1>4. s \in 0..(BLOCK_SIZE - 1)
  <2>1. First(BlockNo(n)) \in Int /\ First(BlockNo(n)) <= n /\ n < First(BlockNo(n)) + BLOCK_SIZE
    BY BlockNoFacts, FirstType
  <2> QED BY <1>0, <2>1
<1>5. Congruent(BLOCK_SIZE, Base + n, s)
  <2>1. Base + n = s + BLOCK_SIZE * (Past + BlockNo(n)) /\ Past + BlockNo(n) \in Int
    <3>1. BlockNo(n) \in Int
      BY BlockNoFacts
    <3> QED BY <1>0, <3>1, Products DEF First
  <2> QED BY <2>1 DEF Congruent
<1> HIDE DEF i, s
<1>6. Congruent(BLOCK_SIZE, Base + n, i)
  BY <1>0, <1>1, <1>2, <1>3, CongruentWithin
<1>7. Congruent(BLOCK_SIZE, i, s)
  <2>1. i \in Int /\ s \in Int /\ Base + n \in Int
    BY <1>1, <1>2, <1>4
  <2>2. Congruent(BLOCK_SIZE, i, Base + n)
    BY <1>0, <1>6, <2>1, CongruentSymmetric
  <2> QED BY <1>0, <1>5, <2>1, <2>2, CongruentTransitive
<1>8. i % BLOCK_SIZE = s
  <2>1. i \in Int /\ BLOCK_SIZE \in Nat /\ BLOCK_SIZE > 0
    BY <1>0, <1>2
  <2> QED BY ONLY <1>4, <1>7, <2>1, CongruentTo
<1> QED BY <1>2, <1>4, <1>8 DEF Slot, i, s

(* The key of a block, from the index of any of its elements.              *)
KeyNo(k) == (Past + k) % Keys

LEMMA KeyNoFacts ==
  \A k \in Int : /\ KeyNo(k) \in 0..(Keys - 1) /\ Congruent(Keys, Past + k, KeyNo(k))
                 /\ Key(k) = BLOCK_SIZE * KeyNo(k) /\ Key(k) \in 0..(IndexMod - 1)
<1> SUFFICES ASSUME NEW k \in Int
             PROVE  /\ KeyNo(k) \in 0..(Keys - 1) /\ Congruent(Keys, Past + k, KeyNo(k))
                    /\ Key(k) = BLOCK_SIZE * KeyNo(k) /\ Key(k) \in 0..(IndexMod - 1)
  OBVIOUS
<1> DEFINE r == KeyNo(k)
<1>0. /\ BLOCK_SIZE \in Nat /\ BLOCK_SIZE > 1 /\ Keys \in Nat /\ Keys > 0
      /\ IndexMod \in Nat /\ IndexMod > 0
      /\ IndexMod = BLOCK_SIZE * Keys /\ Past \in Nat /\ Base = BLOCK_SIZE * Past
  BY Sizes, Products
<1>1. r \in 0..(Keys - 1) /\ Congruent(Keys, Past + k, r)
  <2>1. Past + k \in Int /\ Keys \in Nat /\ Keys > 0
    BY <1>0
  <2> QED BY ONLY <2>1, CongruentSelf DEF KeyNo
<1> HIDE DEF r
<1>2. PICK q \in Int : Past + k = r + Keys * q
  BY <1>1 DEF Congruent
<1>3. BLOCK_SIZE * r \in 0..(IndexMod - 1)
  <2>1. ASSUME NEW b \in Nat, NEW m \in Nat, NEW i \in 0..(m - 1)
        PROVE  b * i + b <= b * m /\ b * i \in Nat
    BY <2>1
  <2>2. BLOCK_SIZE * r + BLOCK_SIZE <= BLOCK_SIZE * Keys /\ BLOCK_SIZE * r \in Nat
    BY <1>0, <1>1, <2>1
  <2> QED BY <1>0, <2>2
<1>4. Base + First(k) = BLOCK_SIZE * r + IndexMod * q
  <2>1. Base + First(k) = BLOCK_SIZE * (Past + k)
    BY <1>0 DEF First
  <2>2. BLOCK_SIZE * (r + Keys * q) = BLOCK_SIZE * r + BLOCK_SIZE * (Keys * q)
    BY <1>0, <1>1, <1>2
  <2>3. BLOCK_SIZE * (Keys * q) = IndexMod * q
    BY <1>0, <1>2
  <2> QED BY <1>2, <2>1, <2>2, <2>3
<1>5. Congruent(IndexMod, Base + First(k), BLOCK_SIZE * r)
  BY <1>2, <1>4 DEF Congruent
<1>6. Base + First(k) \in Int
  BY <1>0, FirstType
<1>7. (Base + First(k)) % IndexMod = BLOCK_SIZE * r
  BY <1>0, <1>3, <1>5, <1>6, CongruentTo
<1> QED BY <1>1, <1>3, <1>7 DEF r, Key, Wrap

LEMMA KeyFacts ==
  /\ \A k \in Int : /\ Key(k) \in 0..(IndexMod - 1) /\ Key(k) # INVALID_BLOCK_BASE
                    /\ Key(k) = Idx(First(k))
  /\ \A n \in Int : BlockBase(Idx(n)) = Key(BlockNo(n))
  /\ \A j, k \in Int : /\ Offset(Key(j), Key(k)) \in Nat
                       /\ Congruent(Keys, Offset(Key(j), Key(k)), j - k)
  /\ \A j, k \in Int : Key(j) = Key(k) => Congruent(Keys, j, k)
<1>0. /\ BLOCK_SIZE \in Nat /\ BLOCK_SIZE > 1 /\ Keys \in Nat /\ Keys > 0
      /\ IndexMod \in Nat /\ IndexMod > 0
      /\ IndexMod = BLOCK_SIZE * Keys /\ Past \in Nat /\ Base = BLOCK_SIZE * Past
  BY Sizes, Products
<1>1. ASSUME NEW k \in Int
      PROVE  /\ Key(k) \in 0..(IndexMod - 1) /\ Key(k) # INVALID_BLOCK_BASE
             /\ Key(k) = Idx(First(k))
  <2>1. ASSUME NEW b \in Nat, b > 1, NEW q \in Nat PROVE b * q # 1
    BY <2>1
  <2>2. Key(k) # 1
    BY <1>0, <2>1, KeyNoFacts
  <2> QED BY <2>2, KeyNoFacts DEF INVALID_BLOCK_BASE, Key, Idx
<1>2. ASSUME NEW n \in Int
      PROVE  BlockBase(Idx(n)) = Key(BlockNo(n))
  <2> DEFINE k == BlockNo(n)
             s == n - First(k)
             r == KeyNo(k)
  <2>1. k \in Int /\ s \in 0..(BLOCK_SIZE - 1) /\ Slot(Idx(n)) = s
    BY SlotFacts, BlockNoFacts
  <2>2. r \in 0..(Keys - 1) /\ Key(k) = BLOCK_SIZE * r /\ Key(k) \in 0..(IndexMod - 1)
    BY <2>1, KeyNoFacts
  <2>3. Key(k) = Wrap(Base + First(k)) /\ Base + First(k) \in Int
    BY <1>0, <2>1, FirstType DEF Key
  <2>4. Idx(n) = Wrap(Base + n) /\ Base + n = (Base + First(k)) + s
    BY <1>0, <2>1, FirstType DEF Idx
  <2> DEFINE x == Base + First(k)
  <2>5. x \in Int /\ Key(k) = x % IndexMod /\ Idx(n) = (x + s) % IndexMod
    BY <2>3, <2>4 DEF Wrap
  <2> HIDE DEF k, s, r, x
  <2>6. Key(k) + s \in 0..(IndexMod - 1)
    <3>1. ASSUME NEW b \in Nat, NEW m \in Nat, NEW i \in 0..(m - 1)
          PROVE  b * i + b <= b * m /\ b * i \in Nat
      BY <3>1
    <3>2. BLOCK_SIZE * r + BLOCK_SIZE <= IndexMod
      BY <1>0, <2>2, <3>1
    <3> QED BY <1>0, <2>1, <2>2, <3>2
  <2>7. Congruent(IndexMod, x + s, Key(k) + s)
    <3>1. Congruent(IndexMod, x, Key(k))
      BY <1>0, <2>5, CongruentSelf
    <3>2. s \in Int /\ x \in Int /\ Key(k) \in Int /\ IndexMod \in Nat /\ IndexMod > 0
      BY <1>0, <2>1, <2>2, <2>5
    <3> QED BY ONLY <3>1, <3>2, CongruentShift
  <2>8. Idx(n) = Key(k) + s
    BY <1>0, <2>1, <2>5, <2>6, <2>7, CongruentTo
  <2>9. BlockBase(Idx(n)) = Key(k)
    BY <1>0, <2>1, <2>2, <2>8 DEF BlockBase
  <2> QED BY <2>9 DEF k
<1>3. ASSUME NEW j \in Int, NEW k \in Int
      PROVE  Offset(Key(j), Key(k)) \in Nat /\ Congruent(Keys, Offset(Key(j), Key(k)), j - k)
  <2> DEFINE a == KeyNo(j)
             c == KeyNo(k)
             d == IF a >= c THEN a - c ELSE a - c + Keys
  <2>1. /\ a \in 0..(Keys - 1) /\ c \in 0..(Keys - 1)
        /\ Key(j) = BLOCK_SIZE * a /\ Key(k) = BLOCK_SIZE * c
        /\ Congruent(Keys, Past + j, a) /\ Congruent(Keys, Past + k, c)
    BY KeyNoFacts
  <2> HIDE DEF a, c
  <2>2. d \in 0..(Keys - 1)
    BY <1>0, <2>1
  <2>3. Congruent(Keys, d, j - k)
    <3>1. PICK p \in Int : Past + j = a + Keys * p
      BY <2>1 DEF Congruent
    <3>2. PICK q \in Int : Past + k = c + Keys * q
      BY <2>1 DEF Congruent
    <3>3. a - c = (j - k) + Keys * (q - p) /\ q - p \in Int
      BY <1>0, <2>1, <3>1, <3>2
    <3>4. Congruent(Keys, a - c, j - k)
      BY <3>3 DEF Congruent
    <3>5. Congruent(Keys, (a - c) + Keys, a - c)
      BY <1>0, <2>1, CongruentNext
    <3>6. Congruent(Keys, (a - c) + Keys, j - k)
      <4>1. a - c \in Int /\ (a - c) + Keys \in Int /\ j - k \in Int
        BY <1>0, <2>1
      <4> QED BY <1>0, <3>4, <3>5, <4>1, CongruentTransitive
    <3> QED BY <3>4, <3>6
  <2>4. Key(j) - Key(k) = BLOCK_SIZE * (a - c) /\ BLOCK_SIZE * d \in Int
    BY <1>0, <2>1, <2>2
  <2>5. Congruent(IndexMod, Key(j) - Key(k), BLOCK_SIZE * d)
    <3>1. CASE a >= c
      <4>1. Key(j) - Key(k) = BLOCK_SIZE * d + IndexMod * 0
        BY <1>0, <2>4, <3>1
      <4> QED BY <4>1 DEF Congruent
    <3>2. CASE ~(a >= c)
      <4>1. d = a - c + Keys
        BY <3>2
      <4>2. BLOCK_SIZE * d = BLOCK_SIZE * (a - c) + BLOCK_SIZE * Keys
        BY <1>0, <2>1, <4>1
      <4>3. Key(j) - Key(k) = BLOCK_SIZE * d - IndexMod
        <5>1. BLOCK_SIZE * (a - c) \in Int /\ IndexMod \in Int /\ IndexMod = BLOCK_SIZE * Keys
          BY <1>0, <2>1
        <5>2. BLOCK_SIZE * d = BLOCK_SIZE * (a - c) + IndexMod
          BY <4>2, <5>1
        <5> HIDE DEF d
        <5> QED BY <2>4, <5>1, <5>2
      <4>4. Key(j) - Key(k) = BLOCK_SIZE * d + IndexMod * (-1)
        BY <1>0, <2>4, <4>3
      <4> QED BY <4>4 DEF Congruent
    <3> QED BY <3>1, <3>2
  <2>6. BLOCK_SIZE * d \in 0..(IndexMod - 1)
    <3>1. ASSUME NEW b \in Nat, NEW m \in Nat, NEW i \in 0..(m - 1)
          PROVE  b * i + b <= b * m /\ b * i \in Nat
      BY <3>1
    <3>2. BLOCK_SIZE * d + BLOCK_SIZE <= IndexMod /\ BLOCK_SIZE * d \in Nat
      BY <1>0, <2>2, <3>1
    <3> QED BY <1>0, <3>2
  <2>7. (Key(j) - Key(k)) % IndexMod = BLOCK_SIZE * d
    <3>1. Key(j) - Key(k) \in Int
      BY <1>1
    <3> QED BY <1>0, <2>5, <2>6, <3>1, CongruentTo
  <2> HIDE DEF d
  <2>8. (BLOCK_SIZE * d) \div BLOCK_SIZE = d
    <3>1. ASSUME NEW b \in Nat, b > 0, NEW x \in Int PROVE (b * x) \div b = x
      BY <3>1
    <3> QED BY <1>0, <2>2, <3>1
  <2>9. Offset(Key(j), Key(k)) = d
    BY <2>7, <2>8 DEF Offset
  <2> QED BY <1>0, <2>2, <2>3, <2>9
<1>4. ASSUME NEW j \in Int, NEW k \in Int, Key(j) = Key(k)
      PROVE  Congruent(Keys, j, k)
  <2>1. ASSUME NEW b \in Nat, b > 0, NEW x \in Int, NEW y \in Int, b * x = b * y PROVE x = y
    BY <2>1
  <2>2. KeyNo(j) = KeyNo(k)
    <3>1. /\ KeyNo(j) \in Int /\ KeyNo(k) \in Int
          /\ BLOCK_SIZE * KeyNo(j) = BLOCK_SIZE * KeyNo(k)
      BY <1>0, <1>4, KeyNoFacts
    <3> QED BY <1>0, <2>1, <3>1
  <2>3. Congruent(Keys, Past + j, Past + k)
    BY <1>0, <2>2, Congruence DEF KeyNo
  <2>4. Congruent(Keys, (Past + j) - Past, (Past + k) - Past)
    <3>1. Past + j \in Int /\ Past + k \in Int /\ Past \in Int /\ Keys \in Nat /\ Keys > 0
      BY <1>0
    <3> QED BY ONLY <2>3, <3>1, CongruentShift
  <2>5. (Past + j) - Past = j /\ (Past + k) - Past = k
    BY <1>0
  <2> QED BY <2>4, <2>5
<1> QED BY <1>1, <1>2, <1>3, <1>4

(* The distance from a block to another by their keys is the one by their  *)
(* numbers, in any index whose capacity divides the number of keys.        *)
LEMMA RingOffset ==
  ASSUME NEW c \in Nat, c > 0, Keys % c = 0, NEW o \in Int, NEW a \in Int, NEW k \in Int
  PROVE  (Ring(o, c, a) + Offset(Key(k), Key(a))) % c = Ring(o, c, k)
<1> DEFINE r == Ring(o, c, a)
           f == Offset(Key(k), Key(a))
<1>1. r \in Int /\ Congruent(c, a - o, r) /\ f \in Int
  <2>1. r \in Int
    BY RingType
  <2>2. Congruent(c, a - o, r)
    BY RingType
  <2>3. f \in Int
    BY KeyFacts
  <2> QED BY <2>1, <2>2, <2>3
<1>2. Congruent(c, f, k - a)
  <2>1. Congruent(Keys, f, k - a) /\ k - a \in Int
    BY KeyFacts
  <2> HIDE DEF f
  <2> QED BY <1>1, <2>1, Sizes, CongruentWithin
<1> HIDE DEF r, f
<1>3. Congruent(c, r + f, r + (k - a))
  <2>1. k - a \in Int
    OBVIOUS
  <2> QED BY <1>1, <1>2, <2>1, CongruentShift
<1>4. Congruent(c, r + (k - a), (a - o) + (k - a))
  <2>1. k - a \in Int /\ a - o \in Int
    OBVIOUS
  <2>2. Congruent(c, r, a - o)
    BY <1>1, <2>1, CongruentSymmetric
  <2> QED BY <1>1, <2>1, <2>2, CongruentShift
<1>5. Congruent(c, r + f, k - o)
  <2>1. (a - o) + (k - a) = k - o /\ r + f \in Int /\ r + (k - a) \in Int /\ k - o \in Int
    BY <1>1
  <2> QED BY <1>3, <1>4, <2>1, CongruentTransitive
<1>6. (r + f) % c = Ring(o, c, k)
  <2>1. r + f \in Int
    BY <1>1
  <2> QED BY <1>5, <2>1, RingIs
<1> QED BY <1>6 DEF r, f

LEMMA RingKey ==
  ASSUME NEW c \in Nat, c > 0, Keys % c = 0, NEW o \in Int, NEW a \in Int, NEW k \in Int,
         Key(a) = Key(k)
  PROVE  Ring(o, c, a) = Ring(o, c, k)
<1>1. Congruent(Keys, a, k)
  BY KeyFacts
<1>2. Congruent(c, a, k)
  BY <1>1, Sizes, CongruentWithin
<1> QED BY <1>2, RingSame

-----------------------------------------------------------------------------
(* Where the producer is.  Cur is the block of the last published element, *)
(* Stored the last block in the index, Back how many blocks of the chain   *)
(* have been taken out of it again, and Top the block that the tail of the *)
(* index stands for.                                                       *)
Cur     == BlockNo(tailIndex - 1)
Chained == Len(bulk.chain)
Stored  == Cur + Chained + (IF ppc = "publish" /\ bulk.count = 0 THEN 1 ELSE 0)
Back    == bulk.undone + (IF ppc = "undoTail" THEN 1 ELSE 0)
Top     == Stored - bulk.undone
            + (IF ppc \in {"requisition", "construct", "storeValue", "rewind"} THEN 1 ELSE 0)

Building == {"storeKey", "storeTail", "requisition", "construct", "storeValue"}
Goal     == BlockNo(tailIndex + bulk.count - 1)

ProducerType ==
  /\ tailIndex \in 0..MaxTail
  /\ ppc \in {"idle", "insert", "storeKey", "storeTail", "requisition", "construct", "storeValue",
              "publish", "rewind", "clearValue", "undo", "undoTail"}
  /\ tailBlock \in Block \cup {Null} /\ newBlock \in Block \cup {Null}
  /\ bulk \in [count : Bulks \cup {0}, start : Block \cup {Null}, chain : Seq(Block), undone : Nat]

(* An enqueue of one element has no chain and inserts a block at the end   *)
(* of the last one; an enqueue_bulk inserts blocks until it has them all.  *)
BulkOK ==
  /\ ppc = "idle" => bulk.count = 0
  /\ ppc \in {"insert", "undo", "undoTail"} => bulk.count > 0
  /\ ppc = "construct" => bulk.count = 0
  /\ ppc \notin {"undo", "undoTail"} => bulk.undone = 0
  /\ bulk.undone <= Chained
  /\ ppc = "undoTail" => bulk.undone < Chained
  /\ bulk.count = 0 => bulk.chain = <<>> /\ bulk.undone = 0
  /\ bulk.count = 0 /\ ppc # "idle" => tailIndex = First(Cur + 1) /\ tailIndex < MaxTail
  /\ bulk.count > 0 => tailIndex + bulk.count <= MaxTail /\ Cur + Chained <= Goal
  /\ bulk.count > 0 /\ ppc \in Building => Cur + Chained < Goal
  /\ bulk.count > 0 /\ ppc = "publish" => Cur + Chained = Goal

(* The block allocated that is not in the index yet, or no longer.         *)
NewBlockOK ==
  /\ ppc \in {"construct", "storeValue"} => newBlock # Null
  /\ ppc = "publish" /\ bulk.count = 0 => newBlock = tailBlock /\ newBlock # Null
  /\ ppc = "publish" /\ bulk.count > 0 => newBlock = Null
  /\ ppc \notin {"construct", "storeValue", "publish", "rewind", "clearValue"} => newBlock = Null

ProducerOK == ProducerType /\ BulkOK /\ NewBlockOK

LEMMA BulkFields ==
  ASSUME ProducerType
  PROVE  /\ bulk.count \in Nat /\ (bulk.count \in Bulks \/ bulk.count = 0)
         /\ bulk.undone \in Nat /\ bulk.chain \in Seq(Block) /\ Chained \in Nat
         /\ tailIndex \in Nat
         /\ Cur \in Int /\ Stored \in Int /\ Back \in Nat /\ Top \in Int /\ Goal \in Int
<1>1. /\ bulk.count \in Nat /\ (bulk.count \in Bulks \/ bulk.count = 0)
      /\ bulk.undone \in Nat /\ bulk.chain \in Seq(Block) /\ Chained \in Nat
      /\ tailIndex \in Nat
  <2>1. /\ bulk.count \in Bulks \cup {0} /\ bulk.undone \in Nat /\ bulk.chain \in Seq(Block)
        /\ tailIndex \in 0..MaxTail
    BY DEF ProducerType
  <2>2. MaxTail \in Nat
    BY BoundAssumption
  <2>3. Bulks \subseteq Nat
    BY QueueAssumption
  <2>4. Chained \in Nat
    BY <2>1 DEF Chained
  <2>5. bulk.count \in Nat /\ (bulk.count \in Bulks \/ bulk.count = 0)
    <3>1. bulk.count \in Bulks \/ bulk.count = 0
      BY <2>1
    <3>2. CASE bulk.count = 0
      BY <3>2
    <3>3. CASE bulk.count \in Bulks
      BY ONLY <2>3, <3>3
    <3> QED BY <3>1, <3>2, <3>3
  <2>6. tailIndex \in Nat
    BY <2>1, <2>2
  <2> QED BY <2>1, <2>4, <2>5, <2>6
<1>2. Cur \in Int /\ Goal \in Int
  <2>1. tailIndex - 1 \in Int /\ tailIndex + bulk.count - 1 \in Int
    BY <1>1
  <2> QED BY <2>1, BlockNoFacts DEF Cur, Goal
<1>3. Stored \in Int /\ Back \in Nat
  BY <1>1, <1>2 DEF Stored, Back
<1>4. Top \in Int
  BY <1>1, <1>3 DEF Top
<1> QED BY <1>1, <1>2, <1>3, <1>4

(* The last published element is in block Cur, and tailIndex there or at   *)
(* its end.                                                                *)
LEMMA TailPlace ==
  ASSUME ProducerType
  PROVE  /\ First(Cur) < tailIndex /\ tailIndex <= First(Cur + 1) /\ Cur >= -1
         /\ First(Cur) \in Int /\ First(Cur + 1) \in Int
         /\ (Slot(Tl) = 0 <=> tailIndex = First(Cur + 1))
         /\ Slot(Tl) # 0 => BlockNo(tailIndex) = Cur
         /\ Slot(Tl) = 0 => BlockNo(tailIndex) = Cur + 1
<1>1. tailIndex \in Nat /\ Cur \in Int /\ Cur = BlockNo(tailIndex - 1)
  BY BulkFields DEF Cur
<1>2. First(Cur) <= tailIndex - 1 /\ tailIndex - 1 < First(Cur) + BLOCK_SIZE
  BY <1>1, BlockNoFacts
<1>3. First(Cur) \in Int /\ First(Cur + 1) = First(Cur) + BLOCK_SIZE /\ First(Cur + 1) \in Int
  BY <1>1, FirstType, FirstNext
<1>4. First(Cur) < tailIndex /\ tailIndex <= First(Cur + 1)
  BY <1>1, <1>2, <1>3, Sizes
<1>5. CASE tailIndex = First(Cur + 1)
  <2>1. BlockNo(tailIndex) = Cur + 1
    <3>1. First(Cur + 1) <= tailIndex /\ tailIndex < First(Cur + 1) + BLOCK_SIZE /\ Cur + 1 \in Int
      BY <1>1, <1>5, Sizes
    <3> QED BY <1>1, <3>1, BlockNoFacts
  <2>2. Slot(Tl) = 0
    BY <1>1, <1>5, <2>1, SlotFacts DEF Tl
  <2>3. BlockNo(tailIndex) >= 0
    BY <1>1, BlockNoFacts
  <2> QED BY <1>1, <1>3, <1>4, <1>5, <2>1, <2>2, <2>3
<1>6. CASE tailIndex # First(Cur + 1)
  <2>1. BlockNo(tailIndex) = Cur
    <3>1. First(Cur) <= tailIndex /\ tailIndex < First(Cur) + BLOCK_SIZE
      BY <1>1, <1>3, <1>4, <1>6, Sizes
    <3> QED BY <1>1, <3>1, BlockNoFacts
  <2>2. Slot(Tl) # 0
    BY <1>1, <1>3, <1>4, <2>1, SlotFacts DEF Tl
  <2>3. BlockNo(tailIndex) >= 0
    BY <1>1, BlockNoFacts
  <2> QED BY <1>1, <1>3, <1>4, <1>6, <2>1, <2>2, <2>3
<1> QED BY <1>5, <1>6

(* The block to insert follows the last one in the index.                  *)
LEMMA TargetPlace ==
  ASSUME ProducerType, BulkOK, Inserting \/ ppc = "storeKey"
  PROVE  /\ Target = First(Stored + 1) /\ Top = Stored /\ Stored = Cur + Chained
         /\ Key(Stored + 1) = Idx(Target)
         /\ ppc = "insert" => Cur + Chained < Goal
<1>1. /\ bulk.count \in Nat /\ bulk.undone \in Nat /\ Chained \in Nat
      /\ Cur \in Int /\ Stored \in Int /\ Goal \in Int
  BY BulkFields
<1>2. Stored = Cur + Chained /\ Top = Stored
  <2>1. ppc \in {"idle", "insert", "storeKey"}
    BY DEF Inserting
  <2>2. bulk.undone = 0
    BY <2>1 DEF BulkOK
  <2>3. Stored = Cur + Chained
    BY <1>1, <2>1 DEF Stored
  <2> QED BY <1>1, <2>1, <2>2, <2>3 DEF Top
<1>3. Target = First(Stored + 1)
  <2>1. CASE bulk.count = 0
    <3>1. tailIndex = First(Cur + 1)
      BY <2>1, TailPlace DEF Inserting, BulkOK
    <3>2. Chained = 0
      BY <2>1 DEF BulkOK, Chained
    <3> QED BY <1>1, <1>2, <2>1, <3>1, <3>2 DEF Target
  <2>2. CASE bulk.count # 0
    <3>1. Target = First(Cur + 1 + Chained)
      BY <2>2 DEF Target, Cur, First, Chained
    <3>2. Cur + 1 + Chained = Stored + 1
      BY <1>1, <1>2
    <3> QED BY <3>1, <3>2
  <2> QED BY <2>1, <2>2
<1>4. ASSUME ppc = "insert" PROVE Cur + Chained < Goal
  <2>1. ~AllBlocks /\ bulk.count > 0
    BY <1>4 DEF Inserting, BulkOK
  <2>2. BlockNo(Target) = Stored + 1
    <3>1. First(Stored + 1) \in Int /\ Stored + 1 \in Int
      BY <1>1, FirstType
    <3>2. First(Stored + 1) <= Target /\ Target < First(Stored + 1) + BLOCK_SIZE
      BY <1>3, <3>1, Sizes
    <3> QED BY <1>3, <3>1, <3>2, BlockNoFacts
  <2> QED BY <1>1, <1>2, <2>1, <2>2 DEF AllBlocks, Goal
<1>5. Stored + 1 \in Int
  BY <1>1
<1> QED BY <1>2, <1>3, <1>4, <1>5, KeyFacts

(* The steps that publish nothing and leave bulk alone, by what they do to *)
(* the producer's place and block.                                         *)
ProducerMove ==
  \/ Inserting /\ ppc' \in {"storeTail", "storeKey"} /\ newBlock' = newBlock
  \/ ppc = "storeKey" /\ ppc' = "storeTail" /\ newBlock' = newBlock
  \/ ppc = "storeTail" /\ ppc' = "requisition" /\ newBlock' = newBlock
  \/ /\ ppc = "requisition" /\ newBlock' \in Block
     /\ ppc' = IF bulk.count = 0 THEN "construct" ELSE "storeValue"
  \/ ppc = "requisition" /\ ppc' = "rewind" /\ newBlock' = newBlock
  \/ ppc = "construct" /\ ppc' \in {"storeValue", "rewind"} /\ newBlock' = newBlock
  \/ ppc = "rewind" /\ ppc' = "clearValue" /\ newBlock' = newBlock
  \/ /\ ppc = "clearValue" /\ newBlock' = Null
     /\ ppc' = IF bulk.count = 0 THEN "idle" ELSE "undo"
  \/ ppc = "insert" /\ ppc' = "undo" /\ newBlock' = newBlock
  \/ ppc = "insert" /\ AllBlocks /\ ppc' = "publish" /\ newBlock' = newBlock
  \/ ppc = "undo" /\ ppc' = "undoTail" /\ bulk.undone < Chained /\ newBlock' = newBlock

LEMMA MoveKeeps ==
  ASSUME ProducerOK, ProducerMove, tailIndex' = tailIndex, bulk' = bulk, tailBlock' = tailBlock
  PROVE  /\ ProducerOK'
         /\ Cur' = Cur /\ Chained' = Chained /\ Stored' = Stored
         /\ Back' = Back + (IF ppc = "undo" THEN 1 ELSE 0)
         /\ Top' = IF ppc = "storeTail" THEN Top + 1 ELSE IF ppc = "rewind" THEN Top - 1 ELSE Top
<1> USE DEF ProducerOK
<1>1. Cur' = Cur /\ Chained' = Chained /\ Goal' = Goal /\ bulk'.count = bulk.count
      /\ bulk'.undone = bulk.undone /\ bulk'.chain = bulk.chain
  BY DEF Cur, Chained, Goal
<1>2. /\ bulk.count \in Nat /\ bulk.undone \in Nat /\ Chained \in Nat /\ tailIndex \in Nat
      /\ Cur \in Int /\ Stored \in Int /\ Back \in Nat /\ Top \in Int /\ Goal \in Int
  BY BulkFields
<1>3. ProducerType'
  <2>1. /\ ppc' \in {"idle", "insert", "storeKey", "storeTail", "requisition", "construct",
                     "storeValue", "publish", "rewind", "clearValue", "undo", "undoTail"}
        /\ newBlock' \in Block \cup {Null}
    BY DEF ProducerMove, ProducerType
  <2> QED BY <2>1 DEF ProducerType
<1>4. ASSUME Inserting, bulk.count = 0 PROVE tailIndex = First(Cur + 1) /\ tailIndex < MaxTail
  <2>1. Slot(Tl) = 0 /\ tailIndex < MaxTail
    BY <1>4 DEF Inserting, BulkOK
  <2> QED BY <2>1, TailPlace
<1>5. ASSUME Inserting PROVE bulk.count > 0 => Cur + Chained < Goal
  BY <1>5, <1>2, TargetPlace DEF Inserting, BulkOK
<1>6. ASSUME ppc = "insert", AllBlocks PROVE Cur + Chained = Goal /\ bulk.count > 0
  <2>1. bulk.count > 0 /\ Cur + Chained <= Goal
    BY <1>6 DEF BulkOK
  <2>2. Target = First(Cur + 1 + Chained)
    BY <2>1, <1>2 DEF Target, First, Cur, Chained
  <2>3. BlockNo(Target) = Cur + 1 + Chained
    <3>1. Cur + 1 + Chained \in Int
      BY <1>2
    <3>2. First(Cur + 1 + Chained) \in Int
      BY <3>1, FirstType
    <3>3. First(Cur + 1 + Chained) <= Target /\ Target < First(Cur + 1 + Chained) + BLOCK_SIZE
      BY <2>2, <3>2, Sizes
    <3> QED BY <2>2, <3>1, <3>2, <3>3, BlockNoFacts
  <2>4. Goal < Cur + 1 + Chained
    BY <1>6, <2>3 DEF AllBlocks, Goal
  <2> QED BY <2>1, <2>4, <1>2
<1>7. BulkOK'
  <2>1. CASE Inserting /\ ppc' \in {"storeTail", "storeKey"}
    <3>1. ppc \in {"idle", "insert"}
      BY <2>1 DEF Inserting
    <3> QED BY <1>1, <1>2, <1>4, <1>5, <2>1, <3>1 DEF BulkOK, Building
  <2>2. CASE ppc \in {"storeKey", "storeTail", "requisition", "construct", "rewind", "clearValue",
                      "undo"}
    BY <1>1, <1>2, <2>2 DEF BulkOK, Building, ProducerMove, Inserting
  <2>3. CASE ppc = "insert" /\ ppc' = "undo"
    BY <1>1, <1>2, <2>3 DEF BulkOK, Building
  <2>4. CASE ppc = "insert" /\ AllBlocks /\ ppc' = "publish"
    BY <1>1, <1>2, <1>6, <2>4 DEF BulkOK, Building
  <2> QED BY <2>1, <2>2, <2>3, <2>4 DEF ProducerMove
<1>8. NewBlockOK'
  <2>1. CASE ppc \in {"idle", "insert"}
    BY <1>1, <1>2, <2>1 DEF NewBlockOK, BulkOK, ProducerMove, Inserting
  <2>2. CASE ppc \notin {"idle", "insert"}
    <3>1. Null \notin Block
      BY QueueAssumption
    <3> QED BY <1>1, <2>2, <3>1 DEF NewBlockOK, BulkOK, ProducerMove, Inserting
  <2> QED BY <2>1, <2>2
<1>9. Stored' = Stored
  <2>1. ~(ppc = "publish" /\ bulk.count = 0)
    BY DEF ProducerMove, Inserting
  <2>2. ~(ppc' = "publish" /\ bulk'.count = 0)
    BY <1>1, <1>2 DEF ProducerMove, BulkOK
  <2> QED BY <1>1, <2>1, <2>2 DEF Stored
<1>10. Back' = Back + (IF ppc = "undo" THEN 1 ELSE 0)
  <2>1. CASE ppc = "undo"
    BY <1>1, <1>2, <2>1 DEF Back, ProducerMove, Inserting
  <2>2. CASE ppc # "undo"
    BY <1>1, <1>2, <2>2 DEF Back, ProducerMove, Inserting
  <2> QED BY <2>1, <2>2
<1>11. Top' = IF ppc = "storeTail" THEN Top + 1 ELSE IF ppc = "rewind" THEN Top - 1 ELSE Top
  BY <1>1, <1>2, <1>9 DEF Top, ProducerMove, Inserting
<1> QED BY <1>1, <1>3, <1>7, <1>8, <1>9, <1>10, <1>11

(* Every step of that kind is a ProducerMove.                              *)
LEMMA Moves ==
  ASSUME pool \subseteq Block,
         \/ InsertEntry \/ GrowIndex \/ StoreKey \/ StoreTail \/ Requisition \/ Construct
         \/ Rewind \/ ClearValue \/ InsertFails \/ BulkConstruct \/ BulkThrow \/ UndoEntry
  PROVE  ProducerMove /\ UNCHANGED <<vars, bulk, tailBlock>>
<1>1. CASE InsertEntry \/ GrowIndex \/ StoreKey \/ StoreTail \/ Rewind
  BY <1>1 DEF ProducerMove, InsertEntry, GrowIndex, StoreKey, StoreTail, Rewind, Pgoto
<1>2. CASE Requisition \/ Construct
  BY <1>2 DEF ProducerMove, Requisition, Construct, Pgoto
<1>3. CASE ClearValue \/ InsertFails \/ BulkConstruct \/ BulkThrow \/ UndoEntry
  BY <1>3 DEF ProducerMove, ClearValue, InsertFails, BulkConstruct, BulkThrow, UndoEntry, Pgoto, Chained
<1> QED BY <1>1, <1>2, <1>3

(* The other steps of the producer.                                        *)
LEMMA EnqueueInBlockNumbers ==
  ASSUME ProducerOK, EnqueueInBlock
  PROVE  /\ ProducerOK' /\ bulk' = bulk /\ tailIndex' = tailIndex + 1
         /\ Cur' = Cur /\ Stored' = Stored /\ Back' = Back /\ Top' = Top
<1> USE DEF ProducerOK
<1>1. /\ tailIndex' = tailIndex + 1 /\ tailIndex + 1 <= MaxTail /\ bulk' = bulk
      /\ ppc' = ppc /\ ppc = "idle" /\ newBlock' = newBlock /\ tailBlock' = tailBlock /\ Slot(Tl) # 0
  BY DEF EnqueueInBlock, Enqueue, producer
<1>2. /\ bulk.count = 0 /\ tailIndex \in Nat /\ MaxTail \in Nat
      /\ Cur \in Int /\ Chained \in Nat /\ bulk.undone \in Nat
  BY <1>1, BulkFields, BoundAssumption DEF BulkOK
<1>3. Cur' = Cur /\ Chained' = Chained
  <2>1. Cur' = BlockNo(tailIndex' - 1)
    BY DEF Cur
  <2>2. tailIndex' - 1 = tailIndex
    BY <1>1, <1>2
  <2>3. BlockNo(tailIndex) = Cur
    BY <1>1, TailPlace
  <2> QED BY <1>1, <2>1, <2>2, <2>3 DEF Chained
<1>4. ProducerType'
  BY <1>1, <1>2 DEF ProducerType
<1>5. BulkOK'
  BY <1>1, <1>2, <1>3 DEF BulkOK, Building
<1>6. NewBlockOK'
  BY <1>1 DEF NewBlockOK
<1>7. Stored' = Stored /\ Back' = Back
  BY <1>1, <1>3 DEF Stored, Back
<1>8. Top' = Top
  BY <1>1, <1>7 DEF Top
<1> QED BY <1>1, <1>3, <1>4, <1>5, <1>6, <1>7, <1>8

LEMMA StartBulkNumbers ==
  ASSUME ProducerOK, NEW n \in Bulks, StartBulk(n)
  PROVE  /\ ProducerOK' /\ tailIndex' = tailIndex
         /\ Cur' = Cur /\ Stored' = Stored /\ Stored = Cur /\ Back' = Back /\ Back = 0 /\ Top' = Top
         /\ bulk'.count = n /\ bulk'.start = tailBlock /\ bulk'.chain = <<>> /\ bulk'.undone = 0
<1> USE DEF ProducerOK
<1>1. /\ tailIndex' = tailIndex /\ tailIndex + n <= MaxTail
      /\ bulk' = [count |-> n, start |-> tailBlock, chain |-> <<>>, undone |-> 0]
      /\ ppc' = "insert" /\ ppc = "idle" /\ newBlock' = newBlock /\ tailBlock' = tailBlock
  BY DEF StartBulk, NoBulk, Pgoto, vars, counters
<1>2. bulk'.count = n /\ bulk'.start = tailBlock /\ bulk'.chain = <<>> /\ bulk'.undone = 0
  BY <1>1
<1>3. /\ n \in Nat /\ n > 0 /\ tailIndex \in Nat /\ Cur \in Int
      /\ bulk.count = 0 /\ bulk.chain = <<>> /\ bulk.undone = 0
  <2>1. Bulks \subseteq Nat \ {0}
    BY QueueAssumption
  <2>2. n \in Nat \ {0}
    BY <2>1
  <2> QED BY <1>1, <2>2, BulkFields DEF BulkOK
<1>4. Cur' = Cur /\ Chained' = 0 /\ Chained = 0 /\ Goal' = BlockNo(tailIndex + n - 1)
  BY <1>1, <1>2, <1>3 DEF Cur, Chained, Goal
<1>5. ProducerType'
  <2>1. bulk' \in [count : Bulks \cup {0}, start : Block \cup {Null}, chain : Seq(Block), undone : Nat]
    BY <1>1 DEF ProducerType
  <2> QED BY <1>1, <2>1 DEF ProducerType
<1>6. Cur <= BlockNo(tailIndex + n - 1)
  <2>1. tailIndex - 1 \in Int /\ tailIndex + n - 1 \in Int /\ tailIndex - 1 <= tailIndex + n - 1
    BY <1>3
  <2> QED BY <2>1, BlockNoFacts DEF Cur
<1>7. BulkOK'
  BY <1>1, <1>2, <1>3, <1>4, <1>6 DEF BulkOK, Building
<1>8. NewBlockOK'
  BY <1>1 DEF NewBlockOK
<1>9. Stored' = Stored /\ Stored = Cur /\ Back' = Back /\ Back = 0
  BY <1>1, <1>2, <1>3, <1>4 DEF Stored, Back
<1>10. Top' = Top
  BY <1>1, <1>2, <1>3, <1>9 DEF Top
<1> QED BY <1>1, <1>2, <1>4, <1>5, <1>7, <1>8, <1>9, <1>10

LEMMA StoreValueNumbers ==
  ASSUME ProducerOK, StoreValue
  PROVE  /\ ProducerOK' /\ tailIndex' = tailIndex /\ newBlock \in Block
         /\ Cur' = Cur /\ Stored' = Stored + 1 /\ Back' = Back /\ Back = 0 /\ Top' = Top
         /\ Top = Stored + 1 /\ tailBlock' = newBlock
         /\ bulk'.count = bulk.count /\ bulk'.start = bulk.start /\ bulk'.undone = 0
         /\ bulk.count = 0 => /\ bulk' = bulk /\ newBlock' = newBlock /\ ppc' = "publish"
         /\ bulk.count # 0 => /\ bulk'.chain = Append(bulk.chain, newBlock) /\ newBlock' = Null
                              /\ ppc' = "insert" /\ Stored = Cur + Chained
<1> USE DEF ProducerOK
<1>1. /\ tailIndex' = tailIndex /\ ppc = "storeValue" /\ tailBlock' = newBlock
      /\ bulk.count = 0 => bulk' = bulk /\ newBlock' = newBlock /\ ppc' = "publish"
      /\ bulk.count # 0 => /\ bulk' = [bulk EXCEPT !.chain = Append(@, newBlock)]
                           /\ newBlock' = Null /\ ppc' = "insert"
  BY DEF StoreValue, Pgoto, vars, counters
<1>2. /\ bulk.count \in Nat /\ tailIndex \in Nat /\ Cur \in Int /\ Chained \in Nat
      /\ bulk.undone = 0 /\ bulk.chain \in Seq(Block) /\ Stored \in Int
  BY <1>1, BulkFields DEF BulkOK
<1>3. newBlock \in Block
  BY <1>1 DEF ProducerType, NewBlockOK
<1>4. /\ bulk'.count = bulk.count /\ bulk'.start = bulk.start /\ bulk'.undone = 0
      /\ bulk.count # 0 => bulk'.chain = Append(bulk.chain, newBlock)
      /\ bulk' \in [count : Bulks \cup {0}, start : Block \cup {Null}, chain : Seq(Block), undone : Nat]
  <2>1. Append(bulk.chain, newBlock) \in Seq(Block)
    BY <1>2, <1>3
  <2>2. CASE bulk.count = 0
    BY <1>1, <1>2, <2>2 DEF ProducerType
  <2>3. CASE bulk.count # 0
    BY <1>1, <1>2, <2>1, <2>3 DEF ProducerType
  <2> QED BY <2>2, <2>3
<1>5. Cur' = Cur /\ Goal' = Goal
  BY <1>1, <1>4 DEF Cur, Goal
<1>6. Chained' = Chained + (IF bulk.count = 0 THEN 0 ELSE 1)
  <2>1. CASE bulk.count = 0
    BY <1>1, <1>2, <2>1 DEF Chained
  <2>2. CASE bulk.count # 0
    <3>1. Len(Append(bulk.chain, newBlock)) = Len(bulk.chain) + 1
      BY <1>2, <1>3
    <3> QED BY <1>2, <1>4, <2>2, <3>1 DEF Chained
  <2> QED BY <2>1, <2>2
<1>7. ProducerType'
  BY <1>1, <1>3, <1>4 DEF ProducerType
<1>8. BulkOK'
  <2>1. CASE bulk.count = 0
    <3>1. bulk' = bulk /\ ppc' = "publish"
      BY <1>1, <2>1
    <3> QED BY <1>1, <1>2, <1>4, <1>5, <1>6, <2>1, <3>1 DEF BulkOK, Building
  <2>2. CASE bulk.count # 0
    <3>1. ppc' = "insert" /\ Chained' = Chained + 1 /\ bulk.count > 0
      BY <1>1, <1>2, <1>6, <2>2
    <3>2. Cur + Chained < Goal /\ tailIndex + bulk.count <= MaxTail /\ Goal \in Int
      BY <1>1, <3>1, BulkFields DEF BulkOK, Building
    <3> QED BY <1>1, <1>2, <1>4, <1>5, <3>1, <3>2 DEF BulkOK, Building
  <2> QED BY <2>1, <2>2
<1>9. NewBlockOK'
  <2>1. newBlock # Null
    BY <1>1 DEF NewBlockOK
  <2> QED BY <1>1, <1>4, <2>1 DEF NewBlockOK
<1>10. Stored = Cur + Chained /\ Stored' = Stored + 1
  BY <1>1, <1>2, <1>4, <1>5, <1>6 DEF Stored
<1>11. Back' = Back /\ Back = 0
  BY <1>1, <1>2, <1>4 DEF Back
<1>12. Top' = Top /\ Top = Stored + 1
  BY <1>1, <1>2, <1>4, <1>10 DEF Top
<1> QED BY <1>1, <1>3, <1>4, <1>5, <1>7, <1>8, <1>9, <1>10, <1>11, <1>12

(* Publication: the elements enqueued end in the last block of the index.  *)
LEMMA PublishNumbers ==
  ASSUME ProducerOK, Publish
  PROVE  /\ ProducerOK' /\ tailIndex' = tailIndex + Positive(bulk.count - 1) + 1
         /\ Cur' = Stored /\ Stored' = Stored /\ Back' = Back /\ Back = 0 /\ Top' = Top
         /\ bulk' = NoBulk /\ headIndex' = headIndex
<1> USE DEF ProducerOK
<1>1. /\ ppc = "publish" /\ ppc' = "idle" /\ newBlock' = Null /\ bulk' = NoBulk
      /\ tailBlock' = tailBlock /\ headIndex' = headIndex
      /\ tailIndex' = tailIndex + (Positive(bulk.count - 1) + 1)
      /\ tailIndex + (Positive(bulk.count - 1) + 1) <= MaxTail
  BY DEF Publish, Pgoto, Enqueue
<1>2. /\ bulk.count \in Nat /\ tailIndex \in Nat /\ Cur \in Int /\ Chained \in Nat
      /\ bulk.undone = 0 /\ Stored \in Int /\ MaxTail \in Nat
  BY <1>1, BulkFields, BoundAssumption DEF BulkOK
<1>3. bulk'.count = 0 /\ bulk'.chain = <<>> /\ bulk'.undone = 0 /\ Chained' = 0
  BY <1>1 DEF NoBulk, Chained
<1>4. Positive(bulk.count - 1) + 1 = IF bulk.count = 0 THEN 1 ELSE bulk.count
  BY <1>2 DEF Positive
<1>5. tailIndex' = tailIndex + (IF bulk.count = 0 THEN 1 ELSE bulk.count) /\ tailIndex' \in 0..MaxTail
  BY <1>1, <1>2, <1>4
<1>6. Cur' = Stored
  <2>1. CASE bulk.count = 0
    <3>1. tailIndex' - 1 = tailIndex
      BY <1>2, <1>5, <2>1
    <3>2. tailIndex = First(Cur + 1)
      BY <1>1, <2>1 DEF BulkOK
    <3>3. BlockNo(tailIndex) = Cur + 1
      BY <3>2, TailPlace
    <3>4. Stored = Cur + 1
      <4>1. Chained = 0
        BY <2>1 DEF BulkOK, Chained
      <4> QED BY <1>1, <1>2, <2>1, <4>1 DEF Stored
    <3> QED BY <3>1, <3>3, <3>4 DEF Cur
  <2>2. CASE bulk.count # 0
    <3>1. tailIndex' - 1 = tailIndex + bulk.count - 1
      BY <1>2, <1>5, <2>2
    <3>2. Cur + Chained = Goal
      BY <1>1, <1>2, <2>2 DEF BulkOK
    <3>3. Cur' = Goal
      BY <3>1 DEF Cur, Goal
    <3> QED BY <1>1, <1>2, <2>2, <3>2, <3>3 DEF Stored
  <2> QED BY <2>1, <2>2
<1>7. ProducerType'
  <2>1. bulk' \in [count : Bulks \cup {0}, start : Block \cup {Null}, chain : Seq(Block), undone : Nat]
    BY <1>1 DEF NoBulk
  <2> QED BY <1>1, <1>5, <2>1 DEF ProducerType
<1>8. BulkOK'
  BY <1>1, <1>3 DEF BulkOK, Building
<1>9. NewBlockOK'
  BY <1>1 DEF NewBlockOK
<1>10. Stored' = Stored
  BY <1>1, <1>2, <1>3, <1>6 DEF Stored
<1>11. Back' = Back /\ Back = 0
  BY <1>1, <1>2, <1>3 DEF Back
<1>12. Top' = Top
  BY <1>1, <1>2, <1>3, <1>10 DEF Top
<1>13. tailIndex' = tailIndex + Positive(bulk.count - 1) + 1
  <2>1. Positive(bulk.count - 1) \in Nat
    BY <1>2 DEF Positive
  <2> QED BY <1>1, <1>2, <2>1
<1> QED BY <1>1, <1>6, <1>7, <1>8, <1>9, <1>10, <1>11, <1>12, <1>13

LEMMA UndoTailNumbers ==
  ASSUME ProducerOK, UndoTail
  PROVE  /\ ProducerOK' /\ tailIndex' = tailIndex
         /\ Cur' = Cur /\ Stored' = Stored /\ Back' = Back /\ Top' = Top - 1
         /\ bulk'.start = bulk.start /\ bulk'.chain = bulk.chain /\ bulk'.count = bulk.count
<1> USE DEF ProducerOK
<1>1. /\ tailIndex' = tailIndex /\ ppc = "undoTail" /\ ppc' = "undo"
      /\ bulk' = [bulk EXCEPT !.undone = @ + 1]
      /\ newBlock' = newBlock /\ tailBlock' = tailBlock
  BY DEF UndoTail, Pgoto, vars, counters
<1>2. /\ bulk.count \in Nat /\ tailIndex \in Nat /\ Cur \in Int /\ Chained \in Nat
      /\ bulk.undone \in Nat /\ Stored \in Int
  BY <1>1, BulkFields
<1>3. /\ bulk'.count = bulk.count /\ bulk'.start = bulk.start /\ bulk'.chain = bulk.chain
      /\ bulk'.undone = bulk.undone + 1
      /\ bulk' \in [count : Bulks \cup {0}, start : Block \cup {Null}, chain : Seq(Block), undone : Nat]
  BY <1>1, <1>2 DEF ProducerType
<1>4. Cur' = Cur /\ Goal' = Goal /\ Chained' = Chained
  BY <1>1, <1>3 DEF Cur, Goal, Chained
<1>5. ProducerType'
  BY <1>1, <1>3 DEF ProducerType
<1>6. BulkOK'
  <2>1. bulk.undone < Chained /\ bulk.count > 0
    BY <1>1 DEF BulkOK
  <2> QED BY <1>1, <1>2, <1>3, <1>4, <2>1 DEF BulkOK, Building
<1>7. NewBlockOK'
  BY <1>1 DEF NewBlockOK
<1>8. Stored' = Stored /\ Back' = Back
  BY <1>1, <1>2, <1>3, <1>4 DEF Stored, Back
<1>9. Top' = Top - 1
  BY <1>1, <1>2, <1>3, <1>8 DEF Top
<1> QED BY <1>1, <1>3, <1>4, <1>5, <1>6, <1>7, <1>8, <1>9

LEMMA UndoBlocksNumbers ==
  ASSUME ProducerOK, UndoBlocks
  PROVE  /\ ProducerOK' /\ tailIndex' = tailIndex /\ bulk' = NoBulk /\ tailBlock' = bulk.start
         /\ Cur' = Cur /\ Stored' = Cur /\ Back' = 0 /\ Top' = Top /\ Top = Cur
         /\ Back = Chained /\ Stored = Cur + Chained
<1> USE DEF ProducerOK
<1>1. /\ tailIndex' = tailIndex /\ ppc = "undo" /\ ppc' = "idle"
      /\ bulk' = NoBulk /\ bulk.undone = Chained
      /\ newBlock' = newBlock /\ tailBlock' = bulk.start
  BY DEF UndoBlocks, Pgoto, vars, counters, Chained
<1>2. /\ bulk.count \in Nat /\ tailIndex \in Nat /\ Cur \in Int /\ Chained \in Nat
      /\ Stored \in Int /\ bulk.start \in Block \cup {Null}
  BY <1>1, BulkFields DEF ProducerType
<1>3. bulk'.count = 0 /\ bulk'.chain = <<>> /\ bulk'.undone = 0 /\ Chained' = 0
  BY <1>1 DEF NoBulk, Chained
<1>4. Cur' = Cur
  BY <1>1 DEF Cur
<1>5. ProducerType'
  <2>1. bulk' \in [count : Bulks \cup {0}, start : Block \cup {Null}, chain : Seq(Block), undone : Nat]
    BY <1>1 DEF NoBulk
  <2> QED BY <1>1, <1>2, <2>1 DEF ProducerType
<1>6. BulkOK'
  BY <1>1, <1>3 DEF BulkOK, Building
<1>7. NewBlockOK'
  BY <1>1 DEF NewBlockOK
<1>8. Stored' = Cur /\ Stored = Cur + Chained /\ Back' = 0 /\ Back = Chained
  BY <1>1, <1>2, <1>3, <1>4 DEF Stored, Back
<1>9. Top' = Top /\ Top = Cur
  BY <1>1, <1>2, <1>3, <1>8 DEF Top
<1> QED BY <1>1, <1>4, <1>5, <1>6, <1>7, <1>8, <1>9

(* Consumers leave the producer where it is.                               *)
LEMMA ConsumerNumbers ==
  ASSUME NEW c \in Consumer, ConsumerStep(c)
  PROVE  /\ UNCHANGED <<producer, headers>> /\ tailIndex' = tailIndex
<1>1. CASE ClaimStep(c)
  BY <1>1 DEF ClaimStep, Draw, GiveBack, memory
<1>2. CASE TakeIndex(c)
  BY <1>2 DEF TakeIndex, TakeAll, TakeRest, Grant
<1>3. CASE LoadHeader(c) \/ LoadTail(c) \/ LoadKey(c) \/ LoadValue(c) \/ Move(c)
  BY <1>3 DEF LoadHeader, LoadTail, LoadKey, LoadValue, Move, vars, counters
<1>4. CASE SetEmpty(c) \/ ClearEntry(c) \/ AddToFreeList(c)
  BY <1>4 DEF SetEmpty, ClearEntry, AddToFreeList, vars, counters
<1> QED BY <1>1, <1>2, <1>3, <1>4 DEF ConsumerStep

-----------------------------------------------------------------------------
(* What the ticket protocol gives: a claim is for one element at least,    *)
(* and for published ones.                                                 *)
CountsPositive == \A c \in Consumer : pc[c] # "idle" => count[c] > 0
Claims == TypeOK /\ HeadWithinTail /\ CountsPositive

LEMMA PositiveStep ==
  ASSUME TypeOK, CountsPositive, [Next]_vars
  PROVE  CountsPositive'
<1>1. ASSUME NEW n \in 1..MaxTail, Enqueue(n) PROVE CountsPositive'
  BY <1>1 DEF Enqueue, CountsPositive, claim
<1>2. ASSUME NEW c \in Consumer, Draw(c) PROVE CountsPositive'
  <2>1. PICK n \in 1..MaxAtOnce : count' = [count EXCEPT ![c] = n]
    BY <1>2 DEF Draw
  <2>2. n > 0
    BY BoundAssumption
  <2>3. pc' = [pc EXCEPT ![c] = "check"]
    BY <1>2 DEF Draw, Goto
  <2> QED BY <2>1, <2>2, <2>3 DEF CountsPositive, TypeOK
<1>3. ASSUME NEW c \in Consumer, Return(c) PROVE CountsPositive'
  BY <1>3 DEF Return, Goto, CountsPositive, TypeOK
<1>4. ASSUME NEW c \in Consumer, TakeAll(c) \/ TakeRest(c) PROVE CountsPositive'
  BY <1>3, <1>4 DEF TakeAll, TakeRest, Grant
<1>5. ASSUME NEW c \in Consumer, GiveBack(c) PROVE CountsPositive'
  <2>1. PICK actual \in {Positive(LeftFor(c, tail)) : tail \in 0..tailIndex} :
          IF actual = 0 THEN Return(c)
          ELSE Goto(c, "take") /\ count' = [count EXCEPT ![c] = actual]
    BY <1>5 DEF GiveBack
  <2>2. CASE actual = 0
    BY <1>3, <2>1, <2>2
  <2>3. CASE actual # 0
    <3>1. PICK tail \in 0..tailIndex : actual = Positive(LeftFor(c, tail))
      OBVIOUS
    <3>2. actual > 0
      BY <2>3, <3>1 DEF Positive, LeftFor, TypeOK
    <3> QED BY <2>1, <2>3, <3>2 DEF Goto, CountsPositive, TypeOK
  <2> QED BY <2>2, <2>3
<1>6. CASE UNCHANGED vars
  BY <1>6 DEF vars, claim, CountsPositive
<1> QED BY <1>1, <1>2, <1>4, <1>5, <1>6 DEF Next

LEMMA ClaimsHold == QueueSpec => []Claims
<1>1. Init => CountsPositive
  BY DEF Init, CountsPositive
<1>2. TypeOK /\ CountsPositive /\ [Next]_vars => CountsPositive'
  BY PositiveStep
<1>3. Spec => []CountsPositive
  BY <1>1, <1>2, TypeCorrect, PTL DEF Spec
<1> QED BY <1>3, UsesTickets, TypeCorrect, HeadNeverPassesTail, PTL DEF Claims

-----------------------------------------------------------------------------
(* The block index.  Capacity[g] is the capacity of the g-th array, and o, *)
(* which the proofs carry along, tells which block each began with.        *)
Doubling(f) ==
  /\ f \in [1..MaxHeaders -> 1..Keys] /\ f[1] = InitialIndexSize
  /\ \A h \in 2..MaxHeaders : f[h] = 2 * f[h - 1]
  /\ \A h \in 1..MaxHeaders : Keys % f[h] = 0
Capacity == CHOOSE f : Doubling(f)

LEMMA CapacityFacts ==
  /\ Capacity[1] = InitialIndexSize /\ 1 \in 1..MaxHeaders /\ MaxHeaders \in Nat
  /\ \A h \in 1..MaxHeaders : /\ Capacity[h] \in Nat /\ Capacity[h] > 0 /\ Keys % Capacity[h] = 0
                              /\ h + 1 \in 1..MaxHeaders => Capacity[h + 1] = 2 * Capacity[h]
<1>1. \E f : Doubling(f)
  BY CapacityAssumption DEF Doubling, Keys
<1>2. Doubling(Capacity)
  BY <1>1 DEF Capacity
<1>3. MaxHeaders \in Nat /\ MaxHeaders > 0
  BY QueueAssumption
<1>4. ASSUME NEW h \in 1..MaxHeaders
      PROVE  /\ Capacity[h] \in Nat /\ Capacity[h] > 0 /\ Keys % Capacity[h] = 0
             /\ h + 1 \in 1..MaxHeaders => Capacity[h + 1] = 2 * Capacity[h]
  <2>1. Capacity[h] \in 1..Keys /\ Keys % Capacity[h] = 0
    BY <1>2 DEF Doubling
  <2>2. ASSUME h + 1 \in 1..MaxHeaders PROVE Capacity[h + 1] = 2 * Capacity[h]
    <3>1. h + 1 \in 2..MaxHeaders /\ (h + 1) - 1 = h
      BY <1>3, <2>2
    <3> QED BY <1>2, <3>1 DEF Doubling
  <2> QED BY <2>1, <2>2, Sizes
<1> QED BY <1>2, <1>3, <1>4 DEF Doubling

Newest        == Len(headers)
Cap           == Capacity[Newest]
EntryId(o, k) == headers[Newest].index[Ring(o[Newest], Cap, k)]
KeyOf(o, k)   == entries[EntryId(o, k)].key
ValueOf(o, k) == entries[EntryId(o, k)].value

Arrays == UNION {[0..(n - 1) -> Nat] : n \in Nat}
Header == [capacity : Nat, tail : Nat, index : Arrays]
Record == [key : 0..(IndexMod - 1), value : Block \cup {Null}]

EntriesType == entries \in Seq(Record) /\ Len(entries) \in Nat

HeadersType(o) ==
  /\ headers \in Seq(Header) /\ Newest \in 1..MaxHeaders
  /\ o \in [1..Newest -> Int]
  /\ \A g \in 1..Newest :
       /\ headers[g].capacity = Capacity[g] /\ headers[g].tail \in 0..(Capacity[g] - 1)
       /\ headers[g].index \in [0..(Capacity[g] - 1) -> 1..Len(entries)]
       /\ Cap % Capacity[g] = 0
  /\ idxEntry \in 1..Len(entries)

(* The index stands for blocks lo + 1 to lo + Cap, of which those up to hi *)
(* have been inserted.                                                     *)
WindowOK(o, lo, hi) ==
  /\ lo \in Int /\ hi \in Int /\ lo <= Cur /\ lo <= Top /\ Top <= hi /\ hi <= lo + Cap
  /\ headers[Newest].tail = Ring(o[Newest], Cap, Top)
  /\ ppc = "storeKey" => hi = Top /\ hi < lo + Cap
  /\ ppc \in {"storeTail", "requisition", "construct", "storeValue", "rewind", "clearValue"}
       => idxEntry = EntryId(o, Stored + 1) /\ Stored + 1 <= hi

KeysOK(o, lo, hi) ==
  \A k \in Int : lo < k /\ k <= lo + Cap =>
    KeyOf(o, k) = IF k <= hi THEN Key(k) ELSE INVALID_BLOCK_BASE

IdsOK == \A p, q \in 0..(Cap - 1) : headers[Newest].index[p] = headers[Newest].index[q] => p = q

(* Each place of each array, old ones too, has a key that belongs there,   *)
(* or none yet.                                                            *)
AlignedAt(o, g, p) ==
  LET key == entries[headers[g].index[p]].key
  IN  IF key = INVALID_BLOCK_BASE THEN g = Newest
      ELSE \E a \in Int : key = Key(a) /\ p = Ring(o[g], Capacity[g], a)
AlignedOK(o) == \A g \in 1..Newest : \A p \in 0..(Capacity[g] - 1) : AlignedAt(o, g, p)

KeyPart(o, lo, hi) ==
  EntriesType /\ HeadersType(o) /\ WindowOK(o, lo, hi) /\ KeysOK(o, lo, hi) /\ IdsOK /\ AlignedOK(o)

LEMMA CapFacts ==
  ASSUME NEW o, HeadersType(o)
  PROVE  /\ Newest \in Nat /\ Newest >= 1 /\ Cap \in Nat /\ Cap > 0 /\ Keys % Cap = 0
         /\ o[Newest] \in Int /\ blockIndex = headers[Newest] /\ blockIndex.capacity = Cap
         /\ blockIndex.tail \in 0..(Cap - 1)
         /\ \A g \in 1..Newest : /\ Capacity[g] \in Nat /\ Capacity[g] > 0 /\ o[g] \in Int
                                 /\ Keys % Capacity[g] = 0 /\ Cap % Capacity[g] = 0
<1>1. Newest \in 1..MaxHeaders /\ MaxHeaders \in Nat
  BY CapacityFacts DEF HeadersType
<1>2. Newest \in Nat /\ Newest >= 1 /\ Newest \in 1..Newest
  BY <1>1
<1>3. blockIndex = headers[Newest]
  BY DEF blockIndex, Newest
<1>4. ASSUME NEW g \in 1..Newest
      PROVE  /\ Capacity[g] \in Nat /\ Capacity[g] > 0 /\ o[g] \in Int
             /\ Keys % Capacity[g] = 0 /\ Cap % Capacity[g] = 0
  <2>1. g \in 1..MaxHeaders
    BY <1>1
  <2> QED BY <2>1, CapacityFacts DEF HeadersType
<1>5. Cap \in Nat /\ Cap > 0 /\ Keys % Cap = 0
  BY <1>2, <1>4 DEF Cap
<1>6. blockIndex.capacity = Cap /\ blockIndex.tail \in 0..(Cap - 1)
  BY <1>2, <1>3 DEF HeadersType, Cap
<1> QED BY <1>2, <1>3, <1>4, <1>5, <1>6

LEMMA EntryIdType ==
  ASSUME NEW o, HeadersType(o), EntriesType, NEW k \in Int
  PROVE  /\ Ring(o[Newest], Cap, k) \in 0..(Cap - 1) /\ EntryId(o, k) \in 1..Len(entries)
         /\ entries[EntryId(o, k)] \in Record
         /\ KeyOf(o, k) \in 0..(IndexMod - 1) /\ ValueOf(o, k) \in Block \cup {Null}
<1>1. Ring(o[Newest], Cap, k) \in 0..(Cap - 1)
  BY CapFacts, RingType
<1>2. EntryId(o, k) \in 1..Len(entries)
  <2>1. headers[Newest].index \in [0..(Cap - 1) -> 1..Len(entries)]
    BY CapFacts DEF HeadersType, Cap
  <2> QED BY <1>1, <2>1 DEF EntryId
<1>3. entries[EntryId(o, k)] \in Record
  BY <1>2 DEF EntriesType
<1> QED BY <1>1, <1>2, <1>3 DEF Record, KeyOf, ValueOf

(* Two blocks of the window have two entries.                              *)
LEMMA EntryIdOnce ==
  ASSUME NEW o, HeadersType(o), IdsOK, NEW lo \in Int, NEW j \in Int, NEW k \in Int,
         lo < j, j <= lo + Cap, lo < k, k <= lo + Cap, EntryId(o, j) = EntryId(o, k)
  PROVE  j = k
<1>1. Cap \in Nat /\ Cap > 0 /\ o[Newest] \in Int
  BY CapFacts
<1>2. Ring(o[Newest], Cap, j) \in 0..(Cap - 1) /\ Ring(o[Newest], Cap, k) \in 0..(Cap - 1)
  BY <1>1, RingType
<1>3. Ring(o[Newest], Cap, j) = Ring(o[Newest], Cap, k)
  BY <1>2 DEF IdsOK, EntryId
<1> QED BY <1>1, <1>3, RingOnce

(* The block after the window shares its entry with the first one.         *)
LEMMA EntryIdWraps ==
  ASSUME NEW o, HeadersType(o), NEW k \in Int
  PROVE  EntryId(o, k + Cap) = EntryId(o, k)
<1>1. Cap \in Nat /\ Cap > 0 /\ o[Newest] \in Int
  BY CapFacts
<1> QED BY <1>1, RingStep DEF EntryId

LEMMA SetKey ==
  ASSUME EntriesType, NEW e \in 1..Len(entries), NEW x \in 0..(IndexMod - 1),
         entries' = [entries EXCEPT ![e].key = x]
  PROVE  /\ EntriesType' /\ Len(entries') = Len(entries)
         /\ \A d \in 1..Len(entries) : /\ entries'[d].value = entries[d].value
                                       /\ entries'[d].key = IF d = e THEN x ELSE entries[d].key
<1>1. entries[e] \in Record /\ DOMAIN entries = 1..Len(entries)
  BY DEF EntriesType
<1>2. [entries[e] EXCEPT !.key = x] \in Record
  BY <1>1 DEF Record
<1>3. entries' = [entries EXCEPT ![e] = [entries[e] EXCEPT !.key = x]]
  BY <1>1
<1>4. entries' \in Seq(Record) /\ Len(entries') = Len(entries)
  BY <1>2, <1>3 DEF EntriesType
<1>5. ASSUME NEW d \in 1..Len(entries)
      PROVE  /\ entries'[d].value = entries[d].value
             /\ entries'[d].key = IF d = e THEN x ELSE entries[d].key
  <2>1. CASE d = e
    BY <1>1, <1>3, <2>1 DEF Record
  <2>2. CASE d # e
    BY <1>1, <1>3, <2>2
  <2> QED BY <2>1, <2>2
<1> QED BY <1>4, <1>5 DEF EntriesType

LEMMA SetValue ==
  ASSUME EntriesType, NEW e \in 1..Len(entries), NEW x \in Block \cup {Null},
         entries' = [entries EXCEPT ![e].value = x]
  PROVE  /\ EntriesType' /\ Len(entries') = Len(entries)
         /\ \A d \in 1..Len(entries) : /\ entries'[d].key = entries[d].key
                                       /\ entries'[d].value = IF d = e THEN x ELSE entries[d].value
<1>1. entries[e] \in Record /\ DOMAIN entries = 1..Len(entries)
  BY DEF EntriesType
<1>2. [entries[e] EXCEPT !.value = x] \in Record
  BY <1>1 DEF Record
<1>3. entries' = [entries EXCEPT ![e] = [entries[e] EXCEPT !.value = x]]
  BY <1>1
<1>4. entries' \in Seq(Record) /\ Len(entries') = Len(entries)
  BY <1>2, <1>3 DEF EntriesType
<1>5. ASSUME NEW d \in 1..Len(entries)
      PROVE  /\ entries'[d].key = entries[d].key
             /\ entries'[d].value = IF d = e THEN x ELSE entries[d].value
  <2>1. CASE d = e
    BY <1>1, <1>3, <2>1 DEF Record
  <2>2. CASE d # e
    BY <1>1, <1>3, <2>2
  <2> QED BY <2>1, <2>2
<1> QED BY <1>4, <1>5 DEF EntriesType

(* What leaves the arrays alone.                                           *)
HeadersSame == Newest' = Newest /\ \A g \in 1..Newest : headers'[g].index = headers[g].index
KeysSame    == /\ Len(entries') = Len(entries)
               /\ \A e \in 1..Len(entries) : entries'[e].key = entries[e].key
ValuesSame  == \A e \in 1..Len(entries) : entries'[e].value = entries[e].value

LEMMA EntryIdSame ==
  ASSUME NEW o, HeadersType(o), HeadersSame
  PROVE  Cap' = Cap /\ \A k \in Int : EntryId(o, k)' = EntryId(o, k)
<1>1. Newest \in 1..Newest /\ Newest' = Newest /\ headers'[Newest].index = headers[Newest].index
  BY CapFacts DEF HeadersSame
<1>2. Cap' = Cap
  BY <1>1 DEF Cap
<1>3. ASSUME NEW k \in Int PROVE EntryId(o, k)' = EntryId(o, k)
  <2>1. EntryId(o, k)' = headers'[Newest'].index[Ring(o[Newest'], Cap', k)]
    BY DEF EntryId
  <2> QED BY <1>1, <1>2, <2>1 DEF EntryId
<1> QED BY <1>2, <1>3

LEMMA SetTailShape ==
  ASSUME NEW o, HeadersType(o), NEW t \in 0..(Cap - 1), SetTail(t), UNCHANGED <<entries, idxEntry>>
  PROVE  HeadersType(o)' /\ HeadersSame /\ headers'[Newest].tail = t
<1>1. Newest \in 1..Newest /\ Newest \in Nat /\ Cap \in Nat /\ Newest = Len(headers)
  BY CapFacts DEF Newest
<1>2. headers[Newest] \in Header /\ DOMAIN headers = 1..Newest /\ headers \in Seq(Header)
  BY <1>1 DEF HeadersType
<1>3. headers' = [headers EXCEPT ![Newest] = [headers[Newest] EXCEPT !.tail = t]]
  BY <1>1, <1>2 DEF SetTail
<1>4. [headers[Newest] EXCEPT !.tail = t] \in Header
  <2>1. t \in Nat
    BY <1>1
  <2> QED BY <1>2, <2>1 DEF Header
<1>5. headers' \in Seq(Header) /\ Len(headers') = Len(headers)
  <2> DEFINE h == [headers[Newest] EXCEPT !.tail = t]
  <2>1. headers' = [headers EXCEPT ![Newest] = h] /\ h \in Header
    BY <1>3, <1>4
  <2> HIDE DEF h
  <2> QED BY <1>1, <1>2, <2>1
<1>6. Newest' = Newest /\ Cap' = Cap
  BY <1>5 DEF Newest, Cap
<1>7. ASSUME NEW g \in 1..Newest
      PROVE  /\ headers'[g].index = headers[g].index /\ headers'[g].capacity = headers[g].capacity
             /\ headers'[g].tail = IF g = Newest THEN t ELSE headers[g].tail
  BY <1>1, <1>2, <1>3 DEF Header
<1>8. ASSUME NEW g \in 1..Newest
      PROVE  /\ headers'[g].capacity = Capacity[g] /\ headers'[g].tail \in 0..(Capacity[g] - 1)
             /\ headers'[g].index \in [0..(Capacity[g] - 1) -> 1..Len(entries)]
             /\ Cap % Capacity[g] = 0
  BY <1>7 DEF HeadersType, Cap
<1>9. HeadersType(o)'
  BY <1>5, <1>6, <1>8 DEF HeadersType
<1> QED BY <1>1, <1>6, <1>7, <1>9 DEF HeadersSame

LEMMA HeadersTypeKept ==
  ASSUME NEW o, HeadersType(o), headers' = headers, Len(entries') = Len(entries),
         idxEntry' \in 1..Len(entries)
  PROVE  HeadersType(o)' /\ HeadersSame /\ Cap' = Cap /\ Newest' = Newest
BY DEF HeadersType, HeadersSame, Cap, Newest

LEMMA KeyFrame ==
  ASSUME NEW o, NEW lo, NEW hi, HeadersType(o), EntriesType, HeadersSame, KeysSame,
         KeysOK(o, lo, hi), IdsOK, AlignedOK(o)
  PROVE  KeysOK(o, lo, hi)' /\ IdsOK' /\ AlignedOK(o)'
<1>1. Cap' = Cap /\ Newest' = Newest /\ \A k \in Int : EntryId(o, k)' = EntryId(o, k)
  BY EntryIdSame DEF HeadersSame
<1>2. \A k \in Int : KeyOf(o, k)' = KeyOf(o, k)
  <2> SUFFICES ASSUME NEW k \in Int PROVE entries'[EntryId(o, k)'].key = entries[EntryId(o, k)].key
    BY DEF KeyOf
  <2> QED BY <1>1, EntryIdType DEF KeysSame
<1>3. KeysOK(o, lo, hi)'
  BY <1>1, <1>2 DEF KeysOK
<1>4. IdsOK'
  <2>1. headers'[Newest].index = headers[Newest].index
    BY CapFacts DEF HeadersSame
  <2> QED BY <1>1, <2>1 DEF IdsOK
<1>5. ASSUME NEW g \in 1..Newest, NEW p \in 0..(Capacity[g] - 1) PROVE AlignedAt(o, g, p)'
  <2>1. headers'[g].index[p] = headers[g].index[p] /\ headers[g].index[p] \in 1..Len(entries)
    BY DEF HeadersSame, HeadersType
  <2>2. entries'[headers'[g].index[p]].key = entries[headers[g].index[p]].key
    BY <2>1 DEF KeysSame
  <2>3. AlignedAt(o, g, p)
    BY DEF AlignedOK
  <2> QED BY <1>1, <2>2, <2>3 DEF AlignedAt
<1>6. AlignedOK(o)'
  BY <1>1, <1>5 DEF AlignedOK
<1> QED BY <1>3, <1>4, <1>6

(* A block number more: the one after the last, over the oldest one when   *)
(* the window is full, or one that was inserted before and taken back.     *)
Slides(lo, hi, K, low, high) ==
  /\ lo \in Int /\ hi \in Int /\ hi <= lo + Cap /\ K \in Int /\ lo < K /\ K <= hi + 1
  /\ low \in Int /\ low = IF K = lo + Cap + 1 THEN lo + 1 ELSE lo
  /\ high \in Int /\ high = IF K = hi + 1 THEN K ELSE hi

LEMMA KeyInsert ==
  ASSUME NEW o, NEW lo, NEW hi, NEW K, NEW low, NEW high, Slides(lo, hi, K, low, high),
         HeadersType(o), EntriesType, KeysOK(o, lo, hi), IdsOK, AlignedOK(o), headers' = headers,
         entries' = [entries EXCEPT ![EntryId(o, K)].key = Key(K)]
  PROVE  /\ KeysOK(o, low, high)' /\ IdsOK' /\ AlignedOK(o)'
         /\ EntriesType' /\ Len(entries') = Len(entries) /\ ValuesSame /\ high <= low + Cap
         /\ \A e \in 1..Len(entries) : entries[e].key # INVALID_BLOCK_BASE
                                         => entries'[e].key # INVALID_BLOCK_BASE
<1> DEFINE E == EntryId(o, K)
<1> /\ lo \in Int /\ hi \in Int /\ hi <= lo + Cap /\ K \in Int /\ lo < K /\ K <= hi + 1
    /\ low \in Int /\ low = (IF K = lo + Cap + 1 THEN lo + 1 ELSE lo)
    /\ high \in Int /\ high = (IF K = hi + 1 THEN K ELSE hi)
  BY DEF Slides
<1>0. /\ Cap \in Nat /\ Cap > 0 /\ Newest \in 1..Newest
      /\ \A k \in Int : EntryId(o, k) \in 1..Len(entries)
      /\ Key(K) \in 0..(IndexMod - 1) /\ Key(K) # INVALID_BLOCK_BASE
  <2>1. Cap \in Nat /\ Cap > 0 /\ Newest \in 1..Newest
    BY CapFacts
  <2>2. \A k \in Int : EntryId(o, k) \in 1..Len(entries)
    BY EntryIdType
  <2>3. Key(K) \in 0..(IndexMod - 1) /\ Key(K) # INVALID_BLOCK_BASE
    BY KeyFacts
  <2> QED BY <2>1, <2>2, <2>3
<1>1. /\ EntriesType' /\ Len(entries') = Len(entries)
      /\ \A d \in 1..Len(entries) : /\ entries'[d].value = entries[d].value
                                    /\ entries'[d].key = IF d = E THEN Key(K) ELSE entries[d].key
  BY <1>0, SetKey, ZenonT(30)
<1>2. HeadersSame /\ Newest' = Newest /\ Cap' = Cap
  BY DEF HeadersSame, Newest, Cap
<1>3. \A k \in Int : EntryId(o, k)' = EntryId(o, k)
  BY <1>2, EntryIdSame
<1>4. \A k \in Int : KeyOf(o, k)' = IF EntryId(o, k) = E THEN Key(K) ELSE KeyOf(o, k)
  BY <1>0, <1>1, <1>3 DEF KeyOf
<1>5. low < K /\ K <= low + Cap /\ K <= high /\ high <= low + Cap
  BY <1>0
<1>6. KeysOK(o, low, high)'
  <2> SUFFICES ASSUME NEW k \in Int, low < k, k <= low + Cap
               PROVE  KeyOf(o, k)' = IF k <= high THEN Key(k) ELSE INVALID_BLOCK_BASE
    BY <1>2 DEF KeysOK
  <2>1. CASE EntryId(o, k) = E
    <3>1. k = K
      BY <1>5, <2>1, EntryIdOnce
    <3> QED BY <1>4, <1>5, <2>1, <3>1
  <2>2. CASE EntryId(o, k) # E
    <3>1. k # K
      BY <2>2
    <3>2. lo < k /\ k <= lo + Cap /\ (k <= high <=> k <= hi)
      BY <1>0, <3>1, SMTT(20)
    <3> QED BY <1>4, <2>2, <3>2 DEF KeysOK
  <2> QED BY <2>1, <2>2
<1>7. IdsOK'
  BY <1>2 DEF IdsOK
<1>8. ASSUME NEW g \in 1..Newest, NEW p \in 0..(Capacity[g] - 1) PROVE AlignedAt(o, g, p)'
  <2> DEFINE e == headers[g].index[p]
             q == Ring(o[Newest], Cap, K)
  <2>1. e \in 1..Len(entries)
    BY DEF HeadersType
  <2>2. AlignedAt(o, g, p)
    BY DEF AlignedOK
  <2>3. CASE e # E
    <3>1. entries'[headers'[g].index[p]].key = entries[headers[g].index[p]].key
      BY <1>1, <2>1, <2>3
    <3> QED BY <1>2, <2>2, <3>1 DEF AlignedAt
  <2>4. CASE e = E
    <3>0. /\ q \in 0..(Cap - 1) /\ E = headers[Newest].index[q] /\ Cap = Capacity[Newest]
          /\ Capacity[g] \in Nat /\ Capacity[g] > 0 /\ o[g] \in Int /\ o[Newest] \in Int
          /\ Keys % Capacity[g] = 0 /\ Cap % Capacity[g] = 0
      BY CapFacts, EntryIdType DEF EntryId, Cap
    <3>1. AlignedAt(o, Newest, q)
      BY <1>0, <3>0 DEF AlignedOK
    <3>2. p = Ring(o[g], Capacity[g], K)
      <4>1. CASE entries[e].key = INVALID_BLOCK_BASE
        <5>1. g = Newest
          BY <2>2, <4>1 DEF AlignedAt
        <5>2. p = q
          BY <2>4, <3>0, <5>1 DEF IdsOK
        <5> QED BY <3>0, <5>1, <5>2
      <4>2. CASE entries[e].key # INVALID_BLOCK_BASE
        <5>1. PICK a \in Int : entries[e].key = Key(a) /\ p = Ring(o[g], Capacity[g], a)
          BY <2>2, <4>2, SMTT(20) DEF AlignedAt
        <5>2. PICK b \in Int : entries[e].key = Key(b) /\ q = Ring(o[Newest], Cap, b)
          BY <2>4, <3>0, <3>1, <4>2 DEF AlignedAt
        <5>3. Ring(o[g], Capacity[g], a) = Ring(o[g], Capacity[g], b)
          BY <3>0, <5>1, <5>2, RingKey
        <5>4. Ring(o[g], Capacity[g], b) = Ring(o[g], Capacity[g], K)
          <6>1. Ring(o[Newest], Cap, b) = Ring(o[Newest], Cap, K)
            BY <5>2
          <6>2. /\ Capacity[g] \in Nat /\ Capacity[g] > 0 /\ Cap \in Nat /\ Cap > 0
                /\ Cap % Capacity[g] = 0 /\ o[g] \in Int /\ o[Newest] \in Int
            BY <1>0, <3>0
          <6> QED BY ONLY <6>1, <6>2, b \in Int, K \in Int, RingWithin
        <5> QED BY <5>1, <5>3, <5>4
      <4> QED BY <4>1, <4>2
    <3>3. entries'[headers'[g].index[p]].key = Key(K)
      BY <1>1, <2>1, <2>4
    <3> QED BY <1>0, <3>2, <3>3 DEF AlignedAt
  <2> QED BY <2>3, <2>4
<1>9. AlignedOK(o)'
  BY <1>2, <1>8 DEF AlignedOK
<1> QED BY <1>0, <1>1, <1>5, <1>6, <1>7, <1>9 DEF ValuesSame

(* Growing a full index: the new array has the blocks of the old one, in   *)
(* order, at its first places, and new entries after them.                 *)
Begun(o, lo) == [g \in 1..(Newest + 1) |-> IF g <= Newest THEN o[g] ELSE lo + 1]

LEMMA GrownShape ==
  ASSUME NEW o, NEW lo \in Int, NEW b, b = Begun(o, lo),
         HeadersType(o), EntriesType, Newest < MaxHeaders,
         headers[Newest].tail = Ring(o[Newest], Cap, lo + Cap),
         headers' = Append(headers, Grown(blockIndex)),
         entries' = entries \o [i \in 1..Cap |-> [key |-> INVALID_BLOCK_BASE, value |-> Null]],
         UNCHANGED idxEntry
  PROVE  /\ EntriesType' /\ Len(entries') = Len(entries) + Cap
         /\ \A e \in 1..Len(entries) : entries'[e] = entries[e]
         /\ \A e \in (Len(entries) + 1)..(Len(entries) + Cap) :
              entries'[e].key = INVALID_BLOCK_BASE /\ entries'[e].value = Null
         /\ HeadersType(b)' /\ Newest' = Newest + 1 /\ Cap' = 2 * Cap
         /\ \A g \in 1..Newest : headers'[g] = headers[g] /\ b[g] = o[g]
         /\ b[Newest + 1] = lo + 1
         /\ headers'[Newest + 1].tail = Cap - 1
         /\ \A i \in 0..(2 * Cap - 1) : headers'[Newest + 1].index[i] =
              IF i < Cap THEN EntryId(o, lo + 1 + i) ELSE Len(entries) + 1 + (i - Cap)
<1> DEFINE new == [i \in 1..Cap |-> [key |-> INVALID_BLOCK_BASE, value |-> Null]]
           h == Grown(blockIndex)
           r == headers[Newest]
           e0 == Len(entries)
<1>0. /\ Cap \in Nat /\ Cap > 0 /\ Newest \in 1..Newest /\ Newest \in Nat /\ blockIndex = r
      /\ r.capacity = Cap /\ o[Newest] \in Int /\ e0 \in Nat
      /\ Newest + 1 \in 1..MaxHeaders
  <2>1. Newest \in 1..MaxHeaders /\ MaxHeaders \in Nat
    BY CapacityFacts DEF HeadersType
  <2>2. e0 \in Nat
    BY DEF EntriesType
  <2>3. blockIndex = r /\ r.capacity = Cap
    BY CapFacts
  <2> QED BY <2>1, <2>2, <2>3, CapFacts
<1>1. /\ entries' \in Seq(Record) /\ Len(entries') = e0 + Cap
      /\ \A e \in 1..e0 : entries'[e] = entries[e]
      /\ \A e \in (e0 + 1)..(e0 + Cap) :
           entries'[e].key = INVALID_BLOCK_BASE /\ entries'[e].value = Null
  <2>1. [key |-> INVALID_BLOCK_BASE, value |-> Null] \in Record
    <3>1. INVALID_BLOCK_BASE \in 0..(IndexMod - 1)
      <4>1. IndexMod > 1
        <5>1. IndexMod # 1
          <6>1. /\ BLOCK_SIZE \in Nat /\ BLOCK_SIZE > 0
                /\ 1 \in Int /\ 1 \in 0..(BLOCK_SIZE - 1)
            BY Sizes
          <6>2. 1 % BLOCK_SIZE = 1
            BY ONLY <6>1, CongruentNext, CongruentTo
          <6> QED BY <6>2, SizeAssumption
        <5> QED BY <5>1, Sizes
      <4> QED BY <4>1, Sizes DEF INVALID_BLOCK_BASE
    <3> QED BY <3>1 DEF Record
  <2>2. new \in Seq(Record) /\ Len(new) = Cap
    BY <1>0, <2>1
  <2>3. \A i \in 1..Cap : new[i].key = INVALID_BLOCK_BASE /\ new[i].value = Null
    OBVIOUS
  <2> HIDE DEF new
  <2>4. entries \in Seq(Record) /\ entries' = entries \o new
    BY DEF EntriesType, new
  <2>5. entries' \in Seq(Record) /\ Len(entries') = e0 + Cap
    BY <1>0, <2>2, <2>4
  <2>6. \A e \in 1..e0 : entries'[e] = entries[e]
    BY <1>0, <2>2, <2>4
  <2>7. ASSUME NEW e \in (e0 + 1)..(e0 + Cap) PROVE entries'[e] = new[e - e0] /\ e - e0 \in 1..Cap
    <3>1. e - e0 \in 1..Cap /\ e \in 1..(e0 + Cap) /\ e > e0
      BY <1>0
    <3>2. (entries \o new)[e] = new[e - e0]
      BY <1>0, <2>2, <2>4, <3>1
    <3> QED BY <2>4, <3>1, <3>2
  <2> QED BY <2>3, <2>5, <2>6, <2>7
<1>2. /\ r.index \in [0..(Cap - 1) -> 1..e0] /\ r.tail = Ring(o[Newest], Cap, lo + Cap)
  BY <1>0 DEF HeadersType, Cap
<1>3. /\ h.capacity = 2 * Cap /\ h.tail = Cap - 1
      /\ h = [capacity |-> 2 * Cap, tail |-> Cap - 1, index |-> h.index]
      /\ h.index = [i \in 0..(2 * Cap - 1) |-> IF i < Cap THEN r.index[(r.tail + 1 + i) % Cap]
                                               ELSE e0 + 1 + i - Cap]
  BY <1>0 DEF Grown
<1>4. ASSUME NEW i \in 0..(2 * Cap - 1)
      PROVE  /\ h.index[i] = IF i < Cap THEN EntryId(o, lo + 1 + i) ELSE e0 + 1 + (i - Cap)
             /\ h.index[i] \in 1..(e0 + Cap)
  <2>1. CASE i < Cap
    <3>1. i \in Nat /\ lo + 1 + i \in Int
      BY <1>0
    <3>2. (r.tail + 1 + i) % Cap = Ring(o[Newest], Cap, lo + 1 + i)
      <4>1. (Ring(o[Newest], Cap, lo + Cap) + 1 + i) % Cap = Ring(o[Newest], Cap, lo + 1 + i)
        <5>1. Cap \in Nat /\ Cap > 0 /\ o[Newest] \in Int /\ i \in Nat
          BY <1>0, <3>1
        <5> QED BY ONLY <5>1, lo \in Int, RingCopy
      <4> QED BY <1>2, <4>1
    <3>3. h.index[i] = EntryId(o, lo + 1 + i)
      BY <1>3, <2>1, <3>2 DEF EntryId
    <3>4. EntryId(o, lo + 1 + i) \in 1..e0
      BY <3>1, EntryIdType
    <3> QED BY <1>0, <2>1, <3>3, <3>4
  <2>2. CASE ~(i < Cap)
    <3>1. h.index[i] = e0 + 1 + i - Cap
      BY <1>3, <2>2
    <3> QED BY <1>0, <2>2, <3>1
  <2> QED BY <2>1, <2>2
<1>5. h.index \in [0..(2 * Cap - 1) -> 1..(e0 + Cap)]
  BY <1>3, <1>4
<1>6. h \in Header
  <2>1. 2 * Cap \in Nat /\ Cap - 1 \in Nat
    BY <1>0
  <2>2. h.index \in Arrays
    <3>1. h.index \in [0..(2 * Cap - 1) -> Nat]
      BY <1>5
    <3> QED BY <2>1, <3>1 DEF Arrays
  <2> QED BY <1>3, <2>1, <2>2 DEF Header
<1> HIDE DEF h
<1>7. headers' = Append(headers, h) /\ headers \in Seq(Header) /\ Len(headers) = Newest
  BY DEF HeadersType, Newest, h
<1>8. /\ headers' \in Seq(Header) /\ Len(headers') = Newest + 1 /\ headers'[Newest + 1] = h
      /\ \A g \in 1..Newest : headers'[g] = headers[g]
  BY <1>0, <1>6, <1>7
<1>9. Newest' = Newest + 1 /\ Cap' = 2 * Cap
  <2>1. Newest' = Newest + 1
    BY <1>8 DEF Newest
  <2>2. Capacity[Newest + 1] = 2 * Cap
    <3>1. Newest \in 1..MaxHeaders
      BY DEF HeadersType
    <3> QED BY <1>0, <3>1, CapacityFacts DEF Cap
  <2> QED BY <2>1, <2>2 DEF Cap
<1>10. /\ b \in [1..(Newest + 1) -> Int] /\ b[Newest + 1] = lo + 1
       /\ \A g \in 1..Newest : b[g] = o[g]
  BY <1>0, CapFacts DEF Begun
<1>11. ASSUME NEW g \in 1..(Newest + 1)
       PROVE  /\ headers'[g].capacity = Capacity[g] /\ headers'[g].tail \in 0..(Capacity[g] - 1)
              /\ headers'[g].index \in [0..(Capacity[g] - 1) -> 1..(e0 + Cap)]
              /\ (2 * Cap) % Capacity[g] = 0
  <2>1. CASE g \in 1..Newest
    <3>1. /\ headers'[g] = headers[g] /\ headers[g].capacity = Capacity[g]
          /\ headers[g].tail \in 0..(Capacity[g] - 1)
          /\ headers[g].index \in [0..(Capacity[g] - 1) -> 1..e0]
          /\ Cap % Capacity[g] = 0 /\ Capacity[g] \in Nat /\ Capacity[g] > 0
      BY <1>8, <2>1, CapFacts DEF HeadersType
    <3>2. (2 * Cap) % Capacity[g] = 0
      <4>1. PICK m \in Int : Cap = Capacity[g] * m
        <5>1. Cap = Capacity[g] * (Cap \div Capacity[g]) + (Cap % Capacity[g])
              /\ Cap \div Capacity[g] \in Int
          <6>1. Capacity[g] \in Nat /\ Capacity[g] > 0 /\ Cap \in Int
            BY <1>0, <3>1
          <6> QED BY ONLY <6>1, Division
        <5>2. Cap = Capacity[g] * (Cap \div Capacity[g])
          BY <1>0, <3>1, <5>1
        <5> QED BY <5>1, <5>2
      <4>2. 2 * Cap = 0 + Capacity[g] * (2 * m) /\ 2 * m \in Int
        BY <1>0, <3>1, <4>1
      <4>3. Congruent(Capacity[g], 2 * Cap, 0)
        BY <4>2 DEF Congruent
      <4>4. 2 * Cap \in Int /\ 0 \in 0..(Capacity[g] - 1)
        BY <1>0, <3>1
      <4> QED BY <3>1, <4>3, <4>4, CongruentTo
    <3>3. headers'[g].index \in [0..(Capacity[g] - 1) -> 1..(e0 + Cap)]
      <4>1. 1..e0 \subseteq 1..(e0 + Cap)
        BY <1>0
      <4>2. headers'[g].index \in [0..(Capacity[g] - 1) -> 1..e0]
        BY <3>1
      <4> QED BY <4>1, <4>2
    <3>4. headers'[g].capacity = Capacity[g] /\ headers'[g].tail \in 0..(Capacity[g] - 1)
      BY <3>1
    <3> QED BY <3>2, <3>3, <3>4
  <2>2. CASE g = Newest + 1
    <3>1. Capacity[g] = 2 * Cap /\ headers'[g] = h
      BY <1>8, <1>9, <2>2 DEF Cap
    <3>2. (2 * Cap) % (2 * Cap) = 0 /\ Cap - 1 \in 0..(2 * Cap - 1)
      BY <1>0
    <3>3. h.capacity = 2 * Cap /\ h.tail = Cap - 1
      BY <1>3
    <3> QED BY <1>5, <3>1, <3>2, <3>3
  <2>3. g \in 1..Newest \/ g = Newest + 1
    BY <1>0
  <2> QED BY <2>1, <2>2, <2>3
<1>12. HeadersType(b)'
  <2>1. idxEntry' \in 1..(e0 + Cap)
    BY <1>0 DEF HeadersType
  <2>2. headers' \in Seq(Header) /\ Newest' \in 1..MaxHeaders /\ b \in [1..Newest' -> Int]
    BY <1>0, <1>8, <1>9, <1>10
  <2>3. \A g \in 1..Newest' :
          /\ headers'[g].capacity = Capacity[g] /\ headers'[g].tail \in 0..(Capacity[g] - 1)
          /\ headers'[g].index \in [0..(Capacity[g] - 1) -> 1..Len(entries')]
          /\ Cap' % Capacity[g] = 0
    BY <1>1, <1>9, <1>11
  <2> QED BY <1>1, <2>1, <2>2, <2>3 DEF HeadersType
<1>13. EntriesType' /\ Len(entries') = e0 + Cap
  <2>1. e0 + Cap \in Nat
    BY <1>0
  <2>2. Len(entries') \in Nat
    BY <1>1, <2>1
  <2> QED BY <1>1, <2>2 DEF EntriesType
<1>14. \A i \in 0..(2 * Cap - 1) : headers'[Newest + 1].index[i] =
              IF i < Cap THEN EntryId(o, lo + 1 + i) ELSE e0 + 1 + (i - Cap)
  BY <1>4, <1>8
<1>15. headers'[Newest + 1].tail = Cap - 1
  BY <1>3, <1>8
<1>16. \A g \in 1..Newest : headers'[g] = headers[g] /\ b[g] = o[g]
  BY <1>8, <1>10
<1> QED BY ONLY <1>1, <1>9, <1>10, <1>12, <1>13, <1>14, <1>15, <1>16

(* The new array has the old ones behind it and its tail at block hi.      *)
Extends(o, b, hi) ==
  /\ \A g \in 1..Newest : headers'[g] = headers[g] /\ b[g] = o[g]
  /\ headers'[Newest + 1].tail = Ring(b[Newest + 1], 2 * Cap, hi)

LEMMA KeyGrow ==
  ASSUME NEW o, NEW lo \in Int, NEW b, b = Begun(o, lo), NEW hi \in Int, hi = lo + Cap,
         HeadersType(o), EntriesType, Newest < MaxHeaders,
         headers[Newest].tail = Ring(o[Newest], Cap, lo + Cap),
         headers' = Append(headers, Grown(blockIndex)),
         entries' = entries \o [i \in 1..Cap |-> [key |-> INVALID_BLOCK_BASE, value |-> Null]],
         UNCHANGED idxEntry, KeysOK(o, lo, hi), IdsOK, AlignedOK(o)
  PROVE  /\ EntriesType' /\ HeadersType(b)' /\ Newest' = Newest + 1 /\ Cap' = 2 * Cap
         /\ Extends(o, b, hi) /\ Len(entries') = Len(entries) + Cap
         /\ \A e \in 1..Len(entries) : entries'[e] = entries[e]
         /\ \A k \in Int : lo < k /\ k <= lo + Cap => EntryId(b, k)' = EntryId(o, k)
         /\ \A k \in Int : lo + Cap < k /\ k <= lo + 2 * Cap =>
              KeyOf(b, k)' = INVALID_BLOCK_BASE /\ ValueOf(b, k)' = Null
         /\ KeysOK(b, lo, hi)' /\ IdsOK' /\ AlignedOK(b)'
<1> DEFINE e0 == Len(entries)
           j(i) == headers'[Newest + 1].index[i]
<1>1. /\ EntriesType' /\ e0 \in Nat /\ Len(entries') = e0 + Cap
      /\ \A e \in 1..e0 : entries'[e] = entries[e]
      /\ \A e \in (e0 + 1)..(e0 + Cap) :
           entries'[e].key = INVALID_BLOCK_BASE /\ entries'[e].value = Null
  BY GrownShape DEF EntriesType
<1>2. /\ HeadersType(b)' /\ Newest' = Newest + 1 /\ Cap' = 2 * Cap
      /\ \A g \in 1..Newest : headers'[g] = headers[g] /\ b[g] = o[g]
      /\ b[Newest + 1] = lo + 1 /\ headers'[Newest + 1].tail = Cap - 1
  <2>1. HeadersType(b)'
    BY GrownShape
  <2>2. Newest' = Newest + 1 /\ Cap' = 2 * Cap /\ b[Newest + 1] = lo + 1
    BY GrownShape
  <2>3. ASSUME NEW g \in 1..Newest PROVE headers'[g] = headers[g] /\ b[g] = o[g]
    <3>1. headers'[g] = headers[g]
      BY GrownShape
    <3>2. b[g] = o[g]
      BY CapFacts DEF Begun
    <3> QED BY <3>1, <3>2
  <2>4. headers'[Newest + 1].tail = Cap - 1
    BY GrownShape
  <2> QED BY <2>1, <2>2, <2>3, <2>4
<1>3. \A i \in 0..(2 * Cap - 1) :
        j(i) = IF i < Cap THEN EntryId(o, lo + 1 + i) ELSE e0 + 1 + (i - Cap)
  BY GrownShape
<1> HIDE DEF e0, j
<1>4. /\ Cap \in Nat /\ Cap > 0 /\ Newest \in Nat /\ Newest >= 1 /\ o[Newest] \in Int
      /\ 2 * Cap \in Nat /\ 2 * Cap > 0
  <2>1. Cap \in Nat /\ Cap > 0 /\ Newest \in Nat /\ Newest >= 1 /\ o[Newest] \in Int
    BY CapFacts
  <2> QED BY <2>1
<1>5. ASSUME NEW i \in 0..(2 * Cap - 1)
      PROVE  Ring(lo + 1, 2 * Cap, lo + 1 + i) = i /\ EntryId(b, lo + 1 + i)' = j(i)
  <2>1. Ring(lo + 1, 2 * Cap, lo + 1 + i) = i
    <3>1. lo + 1 \in Int
      OBVIOUS
    <3> QED BY <1>4, <3>1, RingStart
  <2>2. EntryId(b, lo + 1 + i)' = headers'[Newest'].index[Ring(b[Newest'], Cap', lo + 1 + i)]
    BY DEF EntryId
  <2> QED BY <1>2, <2>1, <2>2 DEF j
<1>6. ASSUME NEW k \in Int, lo < k, k <= lo + 2 * Cap
      PROVE  \E i \in 0..(2 * Cap - 1) : k = lo + 1 + i
  <2>1. k - (lo + 1) \in 0..(2 * Cap - 1) /\ k = lo + 1 + (k - (lo + 1))
    BY <1>4, <1>6
  <2> QED BY <2>1
<1>7. ASSUME NEW k \in Int, lo < k, k <= lo + Cap PROVE EntryId(b, k)' = EntryId(o, k)
  <2>1. PICK i \in 0..(2 * Cap - 1) : k = lo + 1 + i
    BY <1>4, <1>6, <1>7
  <2>2. i < Cap
    BY <1>4, <1>7, <2>1
  <2> QED BY <1>3, <1>5, <2>1, <2>2
<1>8. ASSUME NEW k \in Int, lo + Cap < k, k <= lo + 2 * Cap
      PROVE  KeyOf(b, k)' = INVALID_BLOCK_BASE /\ ValueOf(b, k)' = Null
  <2>1. PICK i \in 0..(2 * Cap - 1) : k = lo + 1 + i
    BY <1>4, <1>6, <1>8
  <2>2. ~(i < Cap)
    BY <1>4, <1>8, <2>1
  <2>3. EntryId(b, k)' = e0 + 1 + (i - Cap)
    BY <1>3, <1>5, <2>1, <2>2
  <2>4. e0 + 1 + (i - Cap) \in (e0 + 1)..(e0 + Cap)
    <3>1. e0 \in Nat /\ Cap \in Nat /\ i \in Int /\ i >= Cap /\ i <= 2 * Cap - 1
      BY <1>1, <1>4, <2>2
    <3> QED BY ONLY <3>1
  <2>5. /\ KeyOf(b, k)' = entries'[EntryId(b, k)'].key
        /\ ValueOf(b, k)' = entries'[EntryId(b, k)'].value
    BY DEF KeyOf, ValueOf
  <2> QED BY <1>1, <2>3, <2>4, <2>5
<1>9. \A k \in Int : EntryId(o, k) \in 1..e0
  BY EntryIdType DEF e0
<1>10. KeysOK(b, lo, hi)'
  <2>1. lo + Cap \in Int
    BY <1>4
  <2> SUFFICES ASSUME NEW k \in Int, lo < k, k <= lo + 2 * Cap
               PROVE  KeyOf(b, k)' = IF k <= hi THEN Key(k) ELSE INVALID_BLOCK_BASE
    BY <1>2 DEF KeysOK
  <2>2. CASE k <= lo + Cap
    <3>1. EntryId(b, k)' = EntryId(o, k)
      BY <1>7, <2>2
    <3>2. KeyOf(b, k)' = entries'[EntryId(b, k)'].key
      BY DEF KeyOf
    <3>3. KeyOf(b, k)' = KeyOf(o, k)
      BY <1>1, <1>9, <3>1, <3>2 DEF KeyOf
    <3> QED BY <2>2, <3>3 DEF KeysOK
  <2>3. CASE ~(k <= lo + Cap)
    <3>1. lo + Cap < k
      BY <2>1, <2>3
    <3> QED BY <1>8, <2>3, <3>1
  <2> QED BY <2>2, <2>3
<1>11. IdsOK'
  <2> SUFFICES ASSUME NEW p \in 0..(2 * Cap - 1), NEW q \in 0..(2 * Cap - 1), j(p) = j(q)
               PROVE  p = q
    BY <1>2 DEF IdsOK, j
  <2>1. CASE p < Cap /\ q < Cap
    <3>1. EntryId(o, lo + 1 + p) = EntryId(o, lo + 1 + q)
      BY <1>3, <2>1
    <3>2. lo + 1 + p \in Int /\ lo + 1 + q \in Int
      OBVIOUS
    <3>3. /\ lo < lo + 1 + p /\ lo + 1 + p <= lo + Cap
          /\ lo < lo + 1 + q /\ lo + 1 + q <= lo + Cap
      BY <1>4, <2>1
    <3>4. lo + 1 + p = lo + 1 + q
      BY <3>1, <3>2, <3>3, EntryIdOnce
    <3> QED BY <3>4
  <2>2. CASE ~(p < Cap) /\ ~(q < Cap)
    <3>1. e0 + 1 + (p - Cap) = e0 + 1 + (q - Cap)
      BY <1>3, <2>2
    <3>2. e0 \in Nat /\ Cap \in Nat /\ p \in Int /\ q \in Int
      BY <1>1, <1>4
    <3> QED BY ONLY <3>1, <3>2
  <2>3. CASE p < Cap /\ ~(q < Cap)
    <3>1. EntryId(o, lo + 1 + p) = e0 + 1 + (q - Cap) /\ EntryId(o, lo + 1 + p) \in 1..e0
      BY <1>3, <1>9, <2>3
    <3> QED BY <1>1, <1>4, <2>3, <3>1
  <2>4. CASE ~(p < Cap) /\ q < Cap
    <3>1. EntryId(o, lo + 1 + q) = e0 + 1 + (p - Cap) /\ EntryId(o, lo + 1 + q) \in 1..e0
      BY <1>3, <1>9, <2>4
    <3> QED BY <1>1, <1>4, <2>4, <3>1
  <2> QED BY <2>1, <2>2, <2>3, <2>4
<1>12. ASSUME NEW g \in 1..(Newest + 1), NEW p \in 0..(Capacity[g] - 1) PROVE AlignedAt(b, g, p)'
  <2>1. CASE g \in 1..Newest
    <3>1. headers'[g].index[p] = headers[g].index[p] /\ headers[g].index[p] \in 1..e0
      BY <1>2, <2>1 DEF HeadersType, e0
    <3>2. entries'[headers'[g].index[p]].key = entries[headers[g].index[p]].key
      BY <1>1, <3>1
    <3>3. AlignedAt(o, g, p)
      BY <2>1 DEF AlignedOK
    <3>4. entries[headers[g].index[p]].key # INVALID_BLOCK_BASE
      <4>1. CASE g = Newest
        <5>1. p \in 0..(Cap - 1) /\ lo \in Int
          BY <4>1 DEF Cap
        <5>2. PICK k \in Int : lo < k /\ k <= lo + Cap /\ Ring(o[Newest], Cap, k) = p
          <6>1. Cap \in Nat /\ Cap > 0 /\ o[Newest] \in Int
            BY <1>4
          <6> QED BY ONLY <5>1, <6>1, RingSome
        <5>3. KeyOf(o, k) = Key(k)
          BY <5>2 DEF KeysOK
        <5>4. KeyOf(o, k) = entries[headers[g].index[p]].key
          BY <4>1, <5>2 DEF KeyOf, EntryId
        <5> QED BY <5>3, <5>4, KeyFacts
      <4>2. CASE g # Newest
        BY <3>3, <4>2, SMTT(20) DEF AlignedAt
      <4> QED BY <4>1, <4>2
    <3> QED BY <1>2, <2>1, <3>2, <3>3, <3>4, Zenon DEF AlignedAt
  <2>2. CASE g = Newest + 1
    <3>1. p \in 0..(2 * Cap - 1)
      BY <1>2, <2>2 DEF Cap
    <3>2. entries'[headers'[g].index[p]].key = KeyOf(b, lo + 1 + p)'
      BY <1>5, <2>2, <3>1 DEF KeyOf, j
    <3>3. lo + 1 + p \in Int /\ lo < lo + 1 + p /\ lo + 1 + p <= lo + 2 * Cap
      BY <1>4, <3>1
    <3>4. \/ KeyOf(b, lo + 1 + p)' = INVALID_BLOCK_BASE
          \/ KeyOf(b, lo + 1 + p)' = Key(lo + 1 + p)
      <4>1. KeyOf(b, lo + 1 + p)' = IF lo + 1 + p <= hi THEN Key(lo + 1 + p)
                                    ELSE INVALID_BLOCK_BASE
        BY <1>2, <1>10, <3>3 DEF KeysOK
      <4> QED BY <4>1
    <3>5. p = Ring(b[g], Capacity[g], lo + 1 + p)
      BY <1>2, <1>5, <2>2, <3>1 DEF Cap
    <3> QED BY <1>2, <2>2, <3>2, <3>3, <3>4, <3>5, Zenon DEF AlignedAt
  <2>3. g \in 1..Newest \/ g = Newest + 1
    BY <1>4
  <2> QED BY <2>1, <2>2, <2>3, SMTT(20)
<1>13. AlignedOK(b)'
  BY <1>2, <1>12 DEF AlignedOK
<1>14. headers'[Newest + 1].tail = Ring(b[Newest + 1], 2 * Cap, hi)
  <2>1. Cap - 1 \in 0..(2 * Cap - 1) /\ lo + 1 + (Cap - 1) = lo + Cap
    BY <1>4
  <2>2. Ring(lo + 1, 2 * Cap, lo + Cap) = Cap - 1
    BY <1>5, <2>1
  <2> QED BY <1>2, <2>2
<1>15. Extends(o, b, hi)
  BY ONLY <1>2, <1>14 DEF Extends
<1> QED BY ONLY <1>1, <1>2, <1>7, <1>8, <1>10, <1>11, <1>13, <1>15 DEF e0

(* What the key part of the index needs to stay.                           *)
Placing == {"storeTail", "requisition", "construct", "storeValue", "rewind", "clearValue"}

LEMMA WindowKept ==
  ASSUME NEW o, NEW lo, NEW hi, HeadersType(o), WindowOK(o, lo, hi), HeadersSame,
         headers'[Newest].tail = Ring(o[Newest], Cap, Top'), idxEntry' = idxEntry,
         lo <= Top', Top' <= hi, Cur \in Int, Cur' \in Int, Cur <= Cur',
         ppc' = "storeKey" => ppc = "storeKey" /\ Top' = Top,
         ppc' \in Placing => ppc \in Placing /\ Stored' = Stored /\ Stored \in Int
  PROVE  WindowOK(o, lo, hi)'
<1>1. /\ Cap' = Cap /\ Newest' = Newest
      /\ \A k \in Int : EntryId(o, k)' = EntryId(o, k)
  BY EntryIdSame DEF HeadersSame
<1>2. lo \in Int /\ hi \in Int /\ lo <= Cur' /\ hi <= lo + Cap'
  BY <1>1 DEF WindowOK
<1>3. headers'[Newest'].tail = Ring(o[Newest'], Cap', Top')
  BY <1>1
<1>4. ppc' = "storeKey" => hi = Top' /\ hi < lo + Cap'
  BY <1>1 DEF WindowOK
<1>5. ASSUME ppc' \in Placing PROVE idxEntry' = EntryId(o, Stored + 1)' /\ Stored' + 1 <= hi
  <2>1. idxEntry = EntryId(o, Stored + 1) /\ Stored + 1 <= hi
    BY <1>5 DEF WindowOK, Placing
  <2>2. EntryId(o, Stored + 1)' = headers'[Newest'].index[Ring(o[Newest'], Cap', Stored' + 1)]
    BY DEF EntryId
  <2>3. Stored + 1 \in Int /\ Stored' = Stored
    BY <1>5
  <2>4. headers'[Newest].index = headers[Newest].index
    BY CapFacts DEF HeadersSame
  <2> QED BY <1>1, <2>1, <2>2, <2>3, <2>4 DEF EntryId
<1> QED BY <1>2, <1>3, <1>4, <1>5 DEF WindowOK, Placing

(* Steps that write values at most ...                                     *)
LEMMA KeyPartPlain ==
  ASSUME NEW o, NEW lo, NEW hi, KeyPart(o, lo, hi), headers' = headers, idxEntry' = idxEntry,
         \/ entries' = entries
         \/ \E e \in 1..Len(entries) : \E x \in Block \cup {Null} :
              entries' = [entries EXCEPT ![e].value = x],
         Top' = Top, Cur \in Int, Cur' \in Int, Cur <= Cur',
         ppc' = "storeKey" => ppc = "storeKey",
         ppc' \in Placing => ppc \in Placing /\ Stored' = Stored /\ Stored \in Int
  PROVE  KeyPart(o, lo, hi)' /\ HeadersSame /\ KeysSame
<1>1. EntriesType' /\ Len(entries') = Len(entries) /\ KeysSame
  <2>1. CASE entries' = entries
    BY <2>1 DEF KeyPart, EntriesType, KeysSame
  <2>2. ASSUME NEW e \in 1..Len(entries), NEW x \in Block \cup {Null},
               entries' = [entries EXCEPT ![e].value = x]
        PROVE  EntriesType' /\ Len(entries') = Len(entries) /\ KeysSame
    BY <2>2, SetValue DEF KeyPart, KeysSame
  <2> QED BY <2>1, <2>2
<1>2. HeadersType(o)' /\ HeadersSame
  <2>1. idxEntry' \in 1..Len(entries)
    BY DEF KeyPart, HeadersType
  <2> QED BY <1>1, <2>1, HeadersTypeKept DEF KeyPart
<1>3. WindowOK(o, lo, hi)'
  <2>1. headers'[Newest].tail = Ring(o[Newest], Cap, Top') /\ lo <= Top' /\ Top' <= hi
    BY DEF KeyPart, WindowOK
  <2> QED BY <1>2, <2>1, WindowKept DEF KeyPart
<1> QED BY <1>1, <1>2, <1>3, KeyFrame DEF KeyPart

(* ... and steps that move the tail.                                       *)
LEMMA KeyPartTail ==
  ASSUME NEW o, NEW lo, NEW hi, KeyPart(o, lo, hi), UNCHANGED <<entries, idxEntry>>,
         SetTail(Ring(o[Newest], Cap, Top')), lo <= Top', Top' <= hi, Top' \in Int,
         Cur \in Int, Cur' = Cur, ppc' # "storeKey",
         ppc' \in Placing => ppc \in Placing /\ Stored' = Stored /\ Stored \in Int
  PROVE  KeyPart(o, lo, hi)' /\ HeadersSame /\ KeysSame
<1>1. Ring(o[Newest], Cap, Top') \in 0..(Cap - 1)
  BY CapFacts, RingType DEF KeyPart
<1>2. HeadersType(o)' /\ HeadersSame /\ headers'[Newest].tail = Ring(o[Newest], Cap, Top')
  BY <1>1, SetTailShape DEF KeyPart
<1>3. KeysSame /\ EntriesType'
  BY DEF KeysSame, KeyPart, EntriesType
<1>4. WindowOK(o, lo, hi)'
  BY <1>2, WindowKept DEF KeyPart
<1> QED BY <1>2, <1>3, <1>4, KeyFrame DEF KeyPart

-----------------------------------------------------------------------------
(* Where the consumers are.  Consumer c has yet to go through blocks       *)
(* FirstBlock(c) to LastBlock(c); at "free" the first one is out of the    *)
(* index already.                                                          *)
FirstBlock(c) == BlockNo(index[c])
LastBlock(c)  == BlockNo(end[c] - 1)
Holds(c, k)   == /\ at[c] # "none" /\ FirstBlock(c) <= k /\ k <= LastBlock(c)
                 /\ at[c] = "free" => k # FirstBlock(c)

Labels == {"none", "header", "tail", "key", "value", "move", "setEmpty", "clear", "free"}

ConsumersOK ==
  /\ at \in [Consumer -> Labels] /\ index \in [Consumer -> Nat] /\ end \in [Consumer -> Nat]
  /\ hdr \in [Consumer -> Nat] /\ ipos \in [Consumer -> Nat]
  /\ block \in [Consumer -> Block \cup {Null}]
  /\ thrown \in [Consumer -> BOOLEAN] /\ DOMAIN item = Consumer
  /\ \A c \in Consumer : 1 <= hdr[c] /\ hdr[c] <= Newest

RangesOK ==
  /\ \A c \in Consumer : at[c] # "none" => index[c] < end[c] /\ end[c] <= headIndex
  /\ \A c, d \in Consumer : c # d /\ at[c] # "none" /\ at[d] # "none" =>
                              end[c] <= index[d] \/ end[d] <= index[c]

(* The blocks in the index: the producer has stored them and not taken     *)
(* them back, and not all of their elements are dequeued.                  *)
Stocked(k) == 0 <= k /\ k <= Stored /\ ~(Cur < k /\ k <= Cur + Back)
Pending(k) == headIndex < First(k + 1) \/ \E c \in Consumer : Holds(c, k)
LiveSet    == {k \in Int : Stocked(k) /\ Pending(k)}

(* The elements dequeued and counted by set_empty.                         *)
Uncounted(c, n) == /\ at[c] # "none" /\ n < end[c]
                   /\ (IF at[c] \in {"clear", "free"} THEN EndIndex(c) ELSE index[c]) <= n
DoneSet == {n \in Nat : n < headIndex /\ \A c \in Consumer : ~Uncounted(c, n)}
Span(k) == First(k)..(First(k) + BLOCK_SIZE - 1)

(* The part of a claim in its first block.                                 *)
LEMMA EndIndexFacts ==
  ASSUME NEW c \in Consumer, index[c] \in Nat, end[c] \in Nat, index[c] < end[c]
  PROVE  /\ FirstBlock(c) \in Nat /\ LastBlock(c) \in Nat /\ FirstBlock(c) <= LastBlock(c)
         /\ EndIndex(c) \in Nat /\ index[c] < EndIndex(c) /\ EndIndex(c) <= end[c]
         /\ First(FirstBlock(c)) <= index[c] /\ EndIndex(c) <= First(FirstBlock(c) + 1)
         /\ EndIndex(c) = end[c] => FirstBlock(c) = LastBlock(c)
         /\ EndIndex(c) # end[c] => /\ EndIndex(c) = First(FirstBlock(c) + 1)
                                    /\ BlockNo(EndIndex(c)) = FirstBlock(c) + 1
                                    /\ FirstBlock(c) < LastBlock(c)
<1> DEFINE k == FirstBlock(c)
           i == index[c]
           e == end[c]
<1>1. /\ k \in Nat /\ LastBlock(c) \in Nat /\ k <= LastBlock(c)
      /\ First(k) <= i /\ i < First(k) + BLOCK_SIZE
  <2>1. i \in Nat /\ e - 1 \in Nat /\ i <= e - 1
    OBVIOUS
  <2>2. k \in Nat /\ LastBlock(c) \in Nat
    BY <2>1, BlockNoFacts DEF FirstBlock, LastBlock
  <2>3. k <= LastBlock(c)
    BY <2>1, BlockNoFacts DEF FirstBlock, LastBlock
  <2>4. First(k) <= i /\ i < First(k) + BLOCK_SIZE
    BY <2>1, BlockNoFacts DEF FirstBlock
  <2> QED BY <2>2, <2>3, <2>4
<1>2. /\ First(k) \in Int /\ First(k + 1) \in Int /\ First(k + 1) = First(k) + BLOCK_SIZE
      /\ BLOCK_SIZE \in Nat /\ BLOCK_SIZE > 1
  <2>1. k \in Int /\ k + 1 \in Int
    BY <1>1
  <2>2. First(k) \in Int /\ First(k + 1) \in Int
    BY <2>1, FirstType
  <2>3. First(k + 1) = First(k) + BLOCK_SIZE
    BY <2>1, FirstNext
  <2> QED BY <2>2, <2>3, Sizes
<1>3. EndIndex(c) = IF e < First(k + 1) THEN e ELSE First(k + 1)
  <2>1. Slot(Idx(i)) = i - First(k)
    BY SlotFacts DEF FirstBlock
  <2>2. i - Slot(Idx(i)) + BLOCK_SIZE = First(k + 1)
    BY <1>2, <2>1
  <2> QED BY <2>2 DEF EndIndex
<1>4. /\ EndIndex(c) \in Nat /\ i < EndIndex(c) /\ EndIndex(c) <= e /\ EndIndex(c) <= First(k + 1)
  BY <1>1, <1>2, <1>3
<1>5. ASSUME EndIndex(c) = e PROVE k = LastBlock(c)
  <2>1. First(k) <= e - 1 /\ e - 1 < First(k) + BLOCK_SIZE
    BY <1>1, <1>2, <1>4, <1>5
  <2>2. e - 1 \in Int /\ k \in Int
    BY <1>1
  <2> QED BY <2>1, <2>2, BlockNoFacts DEF LastBlock
<1>6. ASSUME EndIndex(c) # e
      PROVE  EndIndex(c) = First(k + 1) /\ BlockNo(EndIndex(c)) = k + 1 /\ k < LastBlock(c)
  <2>1. EndIndex(c) = First(k + 1) /\ First(k + 1) < e
    BY <1>2, <1>3, <1>6
  <2>2. BlockNo(First(k + 1)) = k + 1
    <3>1. k + 1 \in Int /\ First(k + 1) <= First(k + 1) /\ First(k + 1) < First(k + 1) + BLOCK_SIZE
      BY <1>1, <1>2
    <3> QED BY <1>2, <3>1, BlockNoFacts
  <2>3. k + 1 <= LastBlock(c)
    <3>1. First(k + 1) \in Int /\ e - 1 \in Int /\ First(k + 1) <= e - 1
      BY <1>2, <2>1
    <3> QED BY <2>2, <3>1, BlockNoFacts DEF LastBlock
  <2> QED BY <1>1, <2>1, <2>2, <2>3
<1> QED BY <1>1, <1>4, <1>5, <1>6

(* What a consumer holds is in the index, and published.                   *)
LEMMA HeldLive ==
  ASSUME ProducerType, BulkOK, HeadWithinTail, headIndex \in Nat, ConsumersOK, RangesOK,
         NEW c \in Consumer, NEW k \in Int, Holds(c, k)
  PROVE  k \in LiveSet /\ 0 <= k /\ k <= Cur
<1>1. index[c] \in Nat /\ end[c] \in Nat /\ index[c] < end[c] /\ end[c] <= headIndex
  BY DEF Holds, ConsumersOK, RangesOK
<1>2. FirstBlock(c) \in Nat /\ FirstBlock(c) <= k /\ k <= LastBlock(c)
  BY <1>1, EndIndexFacts DEF Holds
<1>3. Cur \in Int /\ Chained \in Nat /\ tailIndex \in Nat /\ Stored \in Int
  BY BulkFields
<1>4. LastBlock(c) <= Cur /\ LastBlock(c) \in Int
  <2>1. end[c] - 1 \in Int /\ tailIndex - 1 \in Int /\ end[c] - 1 <= tailIndex - 1
    BY <1>1, <1>3 DEF HeadWithinTail
  <2> QED BY <2>1, BlockNoFacts DEF LastBlock, Cur
<1>5. Cur <= Stored
  BY <1>3 DEF Stored
<1>6. Stocked(k)
  BY <1>2, <1>3, <1>4, <1>5 DEF Stocked
<1>7. Pending(k)
  BY DEF Pending
<1> QED BY <1>2, <1>3, <1>4, <1>6, <1>7 DEF LiveSet

LEMMA LiveKept ==
  ASSUME \A k \in Int : Stocked(k)' <=> Stocked(k), \A k \in Int : Pending(k)' <=> Pending(k)
  PROVE  LiveSet' = LiveSet
BY DEF LiveSet

LEMMA StockedKept ==
  ASSUME Stored' = Stored, Cur' = Cur, Back' = Back
  PROVE  \A k \in Int : Stocked(k)' <=> Stocked(k)
BY DEF Stocked

(* Steps of the producer leave the consumers where they are.               *)
Still == headIndex' = headIndex /\ UNCHANGED locals

LEMMA StillFrame ==
  ASSUME Still, ConsumersOK, RangesOK, Newest \in Int, Newest' \in Int, Newest <= Newest'
  PROVE  /\ ConsumersOK' /\ RangesOK' /\ DoneSet' = DoneSet
         /\ \A k \in Int : Pending(k)' <=> Pending(k)
         /\ \A c \in Consumer : /\ FirstBlock(c)' = FirstBlock(c) /\ EndIndex(c)' = EndIndex(c)
                                /\ \A k \in Int : Holds(c, k)' <=> Holds(c, k)
<1>1. /\ at' = at /\ index' = index /\ end' = end /\ hdr' = hdr /\ ipos' = ipos
      /\ block' = block /\ item' = item /\ thrown' = thrown /\ headIndex' = headIndex
  BY DEF Still, locals
<1>2. ConsumersOK'
  BY <1>1 DEF ConsumersOK
<1>3. RangesOK'
  BY <1>1 DEF RangesOK
<1>4. ASSUME NEW c \in Consumer
      PROVE  /\ FirstBlock(c)' = FirstBlock(c) /\ EndIndex(c)' = EndIndex(c)
             /\ LastBlock(c)' = LastBlock(c)
  BY <1>1 DEF FirstBlock, LastBlock, EndIndex
<1>5. ASSUME NEW c \in Consumer, NEW k \in Int PROVE Holds(c, k)' <=> Holds(c, k)
  BY <1>1, <1>4 DEF Holds
<1>6. \A k \in Int : Pending(k)' <=> Pending(k)
  BY <1>1, <1>5 DEF Pending
<1>7. DoneSet' = DoneSet
  <2>1. ASSUME NEW c \in Consumer, NEW n \in Nat PROVE Uncounted(c, n)' <=> Uncounted(c, n)
    BY <1>1, <1>4 DEF Uncounted
  <2> QED BY <1>1, <2>1 DEF DoneSet
<1> QED BY <1>2, <1>3, <1>4, <1>5, <1>6, <1>7

-----------------------------------------------------------------------------
(* The invariant of the memory.  home[k] is the block of memory in which   *)
(* block k of the queue is or was; place and num tell where each block of  *)
(* memory is: in the pool, in the producer's hand, the home of block       *)
(* num[b], the num[b]-th of the blocks taken back, or with consumer        *)
(* num[b], who is about to free it.                                        *)
LimitOK ==
  /\ First(Stored + 1) <= headIndex + MaxSubqueueSize
  /\ ppc \in Building => First(Stored + 2) <= headIndex + MaxSubqueueSize

ValuesOK(o, lo, hi, home) ==
  /\ \A k \in Int : lo < k /\ k <= lo + Cap =>
       ValueOf(o, k) = IF k \in LiveSet THEN home[k] ELSE Null
  /\ \A k \in LiveSet : lo < k /\ k <= hi /\ home[k] \in Block

LocalRing(o, c, k) == Ring(o[hdr[c]], Capacity[hdr[c]], k)

WalksOK(o) ==
  \A c \in Consumer :
    /\ at[c] \notin {"none", "header"} =>
         \A k \in Int : Holds(c, k) => Local(c).index[LocalRing(o, c, k)] = EntryId(o, k)
    /\ at[c] = "key" => /\ ipos[c] \in 0..(Capacity[hdr[c]] - 1)
                        /\ entries[Entry(c)].key # INVALID_BLOCK_BASE
    /\ at[c] \in {"value", "move", "setEmpty", "clear", "free"} =>
         ipos[c] = LocalRing(o, c, FirstBlock(c))

CarriesOK(home) ==
  \A c \in Consumer : at[c] \in {"move", "setEmpty", "clear"} => block[c] = home[FirstBlock(c)]

CountedOK(home) ==
  /\ emptied \in [Block -> 0..BLOCK_SIZE]
  /\ \A k \in LiveSet : emptied[home[k]] = Cardinality(Span(k) \cap DoneSet)
  /\ ppc \in {"construct", "storeValue"} => emptied[newBlock] = 0
  /\ \A c \in Consumer : at[c] \in {"clear", "free"} => Span(FirstBlock(c)) \subseteq DoneSet
  /\ \A c, d \in Consumer : c # d /\ at[c] \in {"clear", "free"} /\ at[d] \in {"clear", "free"}
                              => FirstBlock(c) # FirstBlock(d)

PlacesOK(home, place, num) ==
  /\ pool \subseteq Block /\ \A b \in Block : b \in pool <=> place[b] = "pool"
  /\ \A b \in Block : place[b] = "hand" <=> b = newBlock /\ ppc # "publish"
  /\ \A k \in LiveSet : place[home[k]] = "home" /\ num[home[k]] = k
  /\ \A b \in Block : place[b] = "home" => num[b] \in LiveSet /\ home[num[b]] = b
  /\ \A i \in 1..Back : place[bulk.chain[i]] = "undone" /\ num[bulk.chain[i]] = i
  /\ \A b \in Block : place[b] = "undone" => num[b] \in 1..Back /\ bulk.chain[num[b]] = b
  /\ \A c \in Consumer : at[c] = "free" => /\ block[c] \in Block
                                           /\ place[block[c]] = "free" /\ num[block[c]] = c
  /\ \A b \in Block : place[b] = "free" => /\ num[b] \in Consumer
                                           /\ at[num[b]] = "free" /\ block[num[b]] = b
  /\ \A b \in Block : place[b] \in {"pool", "hand", "home", "undone", "free"}

ChainOK(home) == \A i \in (Back + 1)..Chained : bulk.chain[i] = home[Cur + i]

MemoryInv(o, lo, hi, home, place, num) ==
  /\ ProducerOK /\ LimitOK /\ KeyPart(o, lo, hi) /\ ConsumersOK /\ RangesOK
  /\ ValuesOK(o, lo, hi, home) /\ WalksOK(o) /\ CarriesOK(home) /\ CountedOK(home)
  /\ PlacesOK(home, place, num) /\ ChainOK(home)

LEMMA ValuesKept ==
  ASSUME NEW o, NEW lo, NEW hi, NEW home, HeadersType(o), EntriesType, HeadersSame, ValuesSame,
         LiveSet' = LiveSet, ValuesOK(o, lo, hi, home)
  PROVE  ValuesOK(o, lo, hi, home)'
<1>1. Cap' = Cap /\ \A k \in Int : EntryId(o, k)' = EntryId(o, k)
  BY EntryIdSame DEF HeadersSame
<1>2. \A k \in Int : ValueOf(o, k)' = ValueOf(o, k)
  <2> SUFFICES ASSUME NEW k \in Int
               PROVE  entries'[EntryId(o, k)'].value = entries[EntryId(o, k)].value
    BY DEF ValueOf
  <2> QED BY <1>1, EntryIdType DEF ValuesSame
<1> QED BY <1>1, <1>2 DEF ValuesOK

LEMMA WalksKept ==
  ASSUME NEW o, NEW b, HeadersType(o), EntriesType, ConsumersOK, Still, WalksOK(o),
         \A g \in 1..Newest : headers'[g].index = headers[g].index /\ b[g] = o[g],
         \A c \in Consumer : \A k \in Int : Holds(c, k) => EntryId(b, k)' = EntryId(o, k),
         \A e \in 1..Len(entries) : entries[e].key # INVALID_BLOCK_BASE
                                      => entries'[e].key # INVALID_BLOCK_BASE
  PROVE  WalksOK(b)'
<1> SUFFICES ASSUME NEW c \in Consumer
             PROVE  /\ at'[c] \notin {"none", "header"} =>
                         \A k \in Int : Holds(c, k)' =>
                           Local(c)'.index[LocalRing(b, c, k)'] = EntryId(b, k)'
                    /\ at'[c] = "key" => /\ ipos'[c] \in 0..(Capacity[hdr'[c]] - 1)
                                         /\ entries'[Entry(c)'].key # INVALID_BLOCK_BASE
                    /\ at'[c] \in {"value", "move", "setEmpty", "clear", "free"} =>
                         ipos'[c] = LocalRing(b, c, FirstBlock(c))'
  BY DEF WalksOK
<1>1. /\ at' = at /\ index' = index /\ end' = end /\ hdr' = hdr /\ ipos' = ipos
  BY DEF Still, locals
<1>2. hdr[c] \in 1..Newest
  BY CapFacts DEF ConsumersOK
<1>3. /\ Local(c)'.index = Local(c).index
      /\ \A k \in Int : LocalRing(b, c, k)' = LocalRing(o, c, k)
  <2>1. Local(c)'.index = Local(c).index
    BY <1>1, <1>2 DEF Local
  <2>2. ASSUME NEW k \in Int PROVE LocalRing(b, c, k)' = LocalRing(o, c, k)
    BY <1>1, <1>2 DEF LocalRing
  <2> QED BY <2>1, <2>2
<1>4. FirstBlock(c)' = FirstBlock(c) /\ \A k \in Int : Holds(c, k)' <=> Holds(c, k)
  BY <1>1 DEF Holds, FirstBlock, LastBlock
<1>5. ASSUME at'[c] \notin {"none", "header"}, NEW k \in Int, Holds(c, k)'
      PROVE  Local(c)'.index[LocalRing(b, c, k)'] = EntryId(b, k)'
  <2>1. Holds(c, k)
    BY <1>4, <1>5
  <2> QED BY <1>1, <1>3, <1>5, <2>1 DEF WalksOK
<1>6. ASSUME at'[c] = "key"
      PROVE  ipos'[c] \in 0..(Capacity[hdr'[c]] - 1) /\ entries'[Entry(c)'].key # INVALID_BLOCK_BASE
  <2>1. ipos[c] \in 0..(Capacity[hdr[c]] - 1) /\ entries[Entry(c)].key # INVALID_BLOCK_BASE
    BY <1>1, <1>6 DEF WalksOK
  <2>2. Entry(c)' = Entry(c)
    BY <1>1, <1>3 DEF Entry
  <2>3. Entry(c) \in 1..Len(entries)
    <3>1. headers[hdr[c]].index \in [0..(Capacity[hdr[c]] - 1) -> 1..Len(entries)]
      BY <1>2 DEF HeadersType
    <3> QED BY <2>1, <3>1 DEF Entry, Local
  <2> QED BY <1>1, <2>1, <2>2, <2>3
<1>7. ASSUME at'[c] \in {"value", "move", "setEmpty", "clear", "free"}
      PROVE  ipos'[c] = LocalRing(b, c, FirstBlock(c))'
  <2>1. FirstBlock(c) \in Int
    BY BlockNoFacts DEF FirstBlock, ConsumersOK
  <2>2. LocalRing(b, c, FirstBlock(c))' = LocalRing(o, c, FirstBlock(c))
    <3>1. FirstBlock(c)' = FirstBlock(c)
      BY <1>4
    <3> QED BY <1>1, <1>2, <3>1 DEF LocalRing
  <2> QED BY <1>1, <1>7, <2>2 DEF WalksOK
<1> QED BY <1>5, <1>6, <1>7

LEMMA LimitKept ==
  ASSUME LimitOK, Stored \in Int, Stored' = Stored, headIndex \in Nat, headIndex' \in Nat,
         headIndex <= headIndex', ppc' \in Building => ppc \in Building
  PROVE  LimitOK'
<1>1. /\ First(Stored + 1) \in Int /\ First(Stored + 2) \in Int /\ MaxSubqueueSize \in Int
      /\ First(Stored' + 1) = First(Stored + 1) /\ First(Stored' + 2) = First(Stored + 2)
  <2>1. Stored + 1 \in Int /\ Stored + 2 \in Int
    OBVIOUS
  <2> QED BY <2>1, FirstType, QueueAssumption
<1>2. First(Stored' + 1) <= headIndex' + MaxSubqueueSize
  BY <1>1 DEF LimitOK
<1>3. ppc' \in Building => First(Stored' + 2) <= headIndex' + MaxSubqueueSize
  BY <1>1 DEF LimitOK
<1> QED BY <1>2, <1>3 DEF LimitOK

LEMMA PlacesKept ==
  ASSUME NEW home, NEW place, NEW num, PlacesOK(home, place, num), Still, pool' = pool,
         \A b \in Block : (b = newBlock' /\ ppc' # "publish") <=> (b = newBlock /\ ppc # "publish"),
         LiveSet' = LiveSet, Back' = Back, Back = 0 \/ bulk'.chain = bulk.chain, Back \in Nat
  PROVE  PlacesOK(home, place, num)'
<1>1. at' = at /\ block' = block
  BY DEF Still, locals
<1>2. \A i \in 1..Back : bulk'.chain[i] = bulk.chain[i]
  <2>1. CASE Back = 0
    BY <2>1
  <2> QED BY <2>1
<1>3. /\ \A i \in 1..Back' : place[bulk'.chain[i]] = "undone" /\ num[bulk'.chain[i]] = i
      /\ \A b \in Block : place[b] = "undone" => num[b] \in 1..Back' /\ bulk'.chain[num[b]] = b
  BY <1>2 DEF PlacesOK
<1>4. \A b \in Block : place[b] = "hand" <=> b = newBlock' /\ ppc' # "publish"
  BY DEF PlacesOK
<1>5. /\ pool' \subseteq Block /\ \A b \in Block : b \in pool' <=> place[b] = "pool"
  BY DEF PlacesOK
<1>6. /\ \A k \in LiveSet' : place[home[k]] = "home" /\ num[home[k]] = k
      /\ \A b \in Block : place[b] = "home" => num[b] \in LiveSet' /\ home[num[b]] = b
  BY DEF PlacesOK
<1>7. /\ \A c \in Consumer : at'[c] = "free" => /\ block'[c] \in Block
                                                /\ place[block'[c]] = "free" /\ num[block'[c]] = c
      /\ \A b \in Block : place[b] = "free" => /\ num[b] \in Consumer
                                               /\ at'[num[b]] = "free" /\ block'[num[b]] = b
  BY <1>1 DEF PlacesOK
<1>8. \A b \in Block : place[b] \in {"pool", "hand", "home", "undone", "free"}
  BY DEF PlacesOK
<1> QED BY <1>3, <1>4, <1>5, <1>6, <1>7, <1>8 DEF PlacesOK

LEMMA CountedKept ==
  ASSUME NEW home, CountedOK(home), Still, DoneSet' = DoneSet, emptied' = emptied,
         LiveSet' = LiveSet, \A c \in Consumer : FirstBlock(c)' = FirstBlock(c),
         ppc' \in {"construct", "storeValue"} =>
           ppc \in {"construct", "storeValue"} /\ newBlock' = newBlock
  PROVE  CountedOK(home)'
<1>1. at' = at
  BY DEF Still, locals
<1> QED BY <1>1 DEF CountedOK

(* A step of the producer that leaves the consumers, the blocks of the     *)
(* index and the arrays alone.                                             *)
LEMMA Steady ==
  ASSUME NEW o, NEW lo, NEW hi, NEW home, NEW place, NEW num,
         MemoryInv(o, lo, hi, home, place, num), Still, Newest' = Newest,
         \A k \in Int : Stocked(k)' <=> Stocked(k)
  PROVE  /\ ConsumersOK' /\ RangesOK' /\ DoneSet' = DoneSet /\ LiveSet' = LiveSet
         /\ \A c \in Consumer : FirstBlock(c)' = FirstBlock(c)
<1>1. Newest \in Int /\ Newest' \in Int /\ Newest <= Newest'
  <2>1. Newest \in Nat
    BY CapFacts DEF MemoryInv, KeyPart
  <2> QED BY <2>1
<1>2. /\ ConsumersOK' /\ RangesOK' /\ DoneSet' = DoneSet
      /\ \A k \in Int : Pending(k)' <=> Pending(k)
      /\ \A c \in Consumer : FirstBlock(c)' = FirstBlock(c)
  BY <1>1, StillFrame DEF MemoryInv
<1> QED BY <1>2, LiveKept

LEMMA ProducerFrame ==
  ASSUME NEW o, NEW lo, NEW hi, NEW home, NEW place, NEW num, NEW new,
         MemoryInv(o, lo, hi, home, place, num), headIndex \in Nat, Still,
         ProducerOK', Stored' = Stored, ppc' \in Building => ppc \in Building,
         \A k \in Int : Stocked(k)' <=> Stocked(k),
         KeyPart(o, lo, hi)', HeadersSame, KeysSame, ValuesSame,
         CountedOK(home)', PlacesOK(home, new, num)', ChainOK(home)'
  PROVE  MemoryInv(o, lo, hi, home, new, num)'
<1>1. /\ ProducerOK /\ LimitOK /\ EntriesType /\ HeadersType(o) /\ ConsumersOK /\ RangesOK
      /\ ValuesOK(o, lo, hi, home) /\ WalksOK(o) /\ CarriesOK(home)
  BY DEF MemoryInv, KeyPart
<1>2. Stored \in Int /\ Newest' = Newest /\ headIndex' = headIndex
  BY <1>1, BulkFields DEF ProducerOK, HeadersSame, Still
<1>3. /\ ConsumersOK' /\ RangesOK' /\ LiveSet' = LiveSet
      /\ \A c \in Consumer : FirstBlock(c)' = FirstBlock(c)
  BY <1>2, Steady
<1>4. LimitOK'
  BY <1>1, <1>2, LimitKept
<1>5. ValuesOK(o, lo, hi, home)'
  BY <1>1, <1>3, ValuesKept
<1>6. WalksOK(o)'
  <2>1. \A c \in Consumer : \A k \in Int : Holds(c, k) => EntryId(o, k)' = EntryId(o, k)
    BY <1>1, EntryIdSame
  <2>2. \A g \in 1..Newest : headers'[g].index = headers[g].index
    BY DEF HeadersSame
  <2>3. \A e \in 1..Len(entries) : entries[e].key # INVALID_BLOCK_BASE
                                     => entries'[e].key # INVALID_BLOCK_BASE
    BY DEF KeysSame
  <2> QED BY <1>1, <2>1, <2>2, <2>3, WalksKept
<1>7. CarriesOK(home)'
  BY <1>1, <1>3 DEF CarriesOK, Still, locals
<1> QED BY <1>3, <1>4, <1>5, <1>6, <1>7 DEF MemoryInv

(* The same, and the blocks of memory stay where they are.                 *)
LEMMA StillInv ==
  ASSUME NEW o, NEW lo, NEW hi, NEW home, NEW place, NEW num,
         MemoryInv(o, lo, hi, home, place, num), headIndex \in Nat, Still, emptied' = emptied,
         ProducerOK', Stored' = Stored, Back' = Back, ppc' \in Building => ppc \in Building,
         \A k \in Int : Stocked(k)' <=> Stocked(k),
         KeyPart(o, lo, hi)', HeadersSame, KeysSame, ValuesSame,
         ppc' \in {"construct", "storeValue"} =>
           ppc \in {"construct", "storeValue"} /\ newBlock' = newBlock,
         pool' = pool, Back = 0 \/ bulk'.chain = bulk.chain,
         \A b \in Block : (b = newBlock' /\ ppc' # "publish") <=> (b = newBlock /\ ppc # "publish"),
         ChainOK(home)'
  PROVE  MemoryInv(o, lo, hi, home, place, num)'
<1>1. ProducerOK /\ CountedOK(home) /\ PlacesOK(home, place, num)
  BY DEF MemoryInv
<1>2. Back \in Nat /\ Newest' = Newest
  BY <1>1, BulkFields DEF ProducerOK, HeadersSame
<1>3. /\ DoneSet' = DoneSet /\ LiveSet' = LiveSet
      /\ \A c \in Consumer : FirstBlock(c)' = FirstBlock(c)
  BY <1>2, Steady
<1>4. CountedOK(home)'
  BY <1>1, <1>3, CountedKept
<1>5. PlacesOK(home, place, num)'
  BY <1>1, <1>2, <1>3, PlacesKept
<1> QED BY <1>4, <1>5, ProducerFrame

(* What every step of the producer may rely on.                            *)
LEMMA InvFacts ==
  ASSUME NEW o, NEW lo, NEW hi, NEW home, NEW place, NEW num,
         MemoryInv(o, lo, hi, home, place, num), Claims
  PROVE  /\ bulk.count \in Nat /\ bulk.undone \in Nat /\ Chained \in Nat /\ bulk.chain \in Seq(Block)
         /\ tailIndex \in Nat /\ headIndex \in Nat /\ headIndex <= tailIndex
         /\ Cur \in Int /\ Stored \in Int /\ Back \in Nat /\ Top \in Int /\ Cur <= Stored
         /\ Newest \in Nat /\ Cap \in Nat /\ Cap > 0 /\ lo \in Int /\ hi \in Int
         /\ pool \subseteq Block /\ newBlock \in Block \cup {Null} /\ Null \notin Block
         /\ Back = 0 \/ ppc \in {"undo", "undoTail"}
<1>1. ProducerOK /\ HeadersType(o) /\ WindowOK(o, lo, hi) /\ PlacesOK(home, place, num)
  BY DEF MemoryInv, KeyPart
<1>2. ProducerType /\ BulkOK
  BY <1>1 DEF ProducerOK
<1>3. /\ bulk.count \in Nat /\ bulk.undone \in Nat /\ Chained \in Nat /\ bulk.chain \in Seq(Block)
      /\ tailIndex \in Nat /\ Cur \in Int /\ Stored \in Int /\ Back \in Nat /\ Top \in Int
  BY <1>2, BulkFields
<1>4. Cur <= Stored
  BY <1>3 DEF Stored
<1>5. headIndex \in Nat /\ headIndex <= tailIndex
  BY DEF Claims, TypeOK, HeadWithinTail
<1>6. Newest \in Nat /\ Cap \in Nat /\ Cap > 0
  BY <1>1, CapFacts
<1>7. lo \in Int /\ hi \in Int /\ pool \subseteq Block
  BY <1>1 DEF WindowOK, PlacesOK
<1>8. newBlock \in Block \cup {Null} /\ Null \notin Block
  BY <1>2, QueueAssumption DEF ProducerType
<1>9. Back = 0 \/ ppc \in {"undo", "undoTail"}
  BY <1>2 DEF BulkOK, Back
<1> QED BY <1>3, <1>4, <1>5, <1>6, <1>7, <1>8, <1>9

LEMMA EnqueueInBlockInv ==
  ASSUME NEW o, NEW lo, NEW hi, NEW home, NEW place, NEW num,
         MemoryInv(o, lo, hi, home, place, num), Claims, EnqueueInBlock
  PROVE  MemoryInv(o, lo, hi, home, place, num)'
<1>1. /\ bulk' = bulk /\ ppc' = ppc /\ newBlock' = newBlock /\ idxEntry' = idxEntry /\ ppc = "idle"
      /\ headers' = headers /\ entries' = entries /\ emptied' = emptied /\ pool' = pool /\ Still
  BY DEF EnqueueInBlock, Enqueue, producer, Still
<1>2. ProducerOK' /\ Cur' = Cur /\ Stored' = Stored /\ Back' = Back /\ Top' = Top
  BY EnqueueInBlockNumbers DEF MemoryInv
<1>3. Cur \in Int /\ Stored \in Int /\ Back \in Nat /\ headIndex \in Nat
  BY InvFacts
<1>4. KeyPart(o, lo, hi)' /\ HeadersSame /\ KeysSame
  BY <1>1, <1>2, <1>3, KeyPartPlain DEF MemoryInv, Placing
<1>5. \A k \in Int : Stocked(k)' <=> Stocked(k)
  BY <1>2, StockedKept
<1>6. ValuesSame
  BY <1>1 DEF ValuesSame
<1>7. ChainOK(home)'
  BY <1>1, <1>2 DEF ChainOK, MemoryInv, Chained
<1> QED BY <1>1, <1>2, <1>3, <1>4, <1>5, <1>6, <1>7, StillInv DEF Building

LEMMA StartBulkInv ==
  ASSUME NEW o, NEW lo, NEW hi, NEW home, NEW place, NEW num,
         MemoryInv(o, lo, hi, home, place, num), Claims, NEW n \in Bulks, StartBulk(n)
  PROVE  MemoryInv(o, lo, hi, home, place, num)'
<1>1. /\ ppc = "idle" /\ ppc' = "insert" /\ newBlock' = newBlock /\ idxEntry' = idxEntry
      /\ headers' = headers /\ entries' = entries /\ emptied' = emptied /\ pool' = pool /\ Still
  BY DEF StartBulk, Pgoto, blocks, vars, counters, Still
<1>2. /\ ProducerOK' /\ Cur' = Cur /\ Stored' = Stored /\ Back' = Back /\ Back = 0 /\ Top' = Top
      /\ bulk'.chain = <<>>
  BY StartBulkNumbers DEF MemoryInv
<1>3. Cur \in Int /\ Stored \in Int /\ Back \in Nat /\ headIndex \in Nat
  BY InvFacts
<1>4. KeyPart(o, lo, hi)' /\ HeadersSame /\ KeysSame
  BY <1>1, <1>2, <1>3, KeyPartPlain DEF MemoryInv, Placing
<1>5. \A k \in Int : Stocked(k)' <=> Stocked(k)
  BY <1>2, StockedKept
<1>6. ValuesSame
  BY <1>1 DEF ValuesSame
<1>7. ChainOK(home)'
  <2>1. Chained' = 0 /\ Back' = 0
    BY <1>2 DEF Chained
  <2> QED BY <2>1 DEF ChainOK
<1> QED BY <1>1, <1>2, <1>3, <1>4, <1>5, <1>6, <1>7, StillInv DEF Building

LEMMA PublishInv ==
  ASSUME NEW o, NEW lo, NEW hi, NEW home, NEW place, NEW num,
         MemoryInv(o, lo, hi, home, place, num), Claims, Publish
  PROVE  MemoryInv(o, lo, hi, home, place, num)'
<1>1. /\ ppc = "publish" /\ ppc' = "idle" /\ newBlock' = Null /\ idxEntry' = idxEntry
      /\ headers' = headers /\ entries' = entries /\ emptied' = emptied /\ pool' = pool /\ Still
  BY DEF Publish, Pgoto, blocks, Enqueue, Still
<1>2. /\ ProducerOK' /\ Cur' = Stored /\ Stored' = Stored /\ Back' = Back /\ Back = 0 /\ Top' = Top
      /\ bulk' = NoBulk
  BY PublishNumbers DEF MemoryInv
<1>3. /\ Cur \in Int /\ Stored \in Int /\ Cur <= Stored /\ headIndex \in Nat
      /\ newBlock \in Block \cup {Null} /\ Null \notin Block
  BY InvFacts
<1>4. KeyPart(o, lo, hi)' /\ HeadersSame /\ KeysSame
  BY <1>1, <1>2, <1>3, KeyPartPlain DEF MemoryInv, Placing
<1>5. \A k \in Int : Stocked(k)' <=> Stocked(k)
  BY <1>2, <1>3 DEF Stocked
<1>6. ValuesSame
  BY <1>1 DEF ValuesSame
<1>7. ChainOK(home)'
  <2>1. Chained' = 0 /\ Back' = 0
    BY <1>2 DEF Chained, NoBulk
  <2> QED BY <2>1 DEF ChainOK
<1> QED BY <1>1, <1>2, <1>3, <1>4, <1>5, <1>6, <1>7, StillInv DEF Building

(* The steps that only move the producer on, or move the tail as well.     *)
LEMMA MovesInv ==
  ASSUME NEW o, NEW lo, NEW hi, NEW home, NEW place, NEW num,
         MemoryInv(o, lo, hi, home, place, num), Claims,
         \/ InsertFails \/ BulkConstruct \/ BulkThrow \/ Construct
         \/ Requisition /\ ppc' = "rewind"
  PROVE  MemoryInv(o, lo, hi, home, place, num)'
<1>1. ProducerMove /\ bulk' = bulk /\ tailIndex' = tailIndex /\ tailBlock' = tailBlock
  <2>1. pool \subseteq Block
    BY InvFacts
  <2> QED BY <2>1, Moves DEF vars, counters
<1>2. /\ newBlock' = newBlock /\ idxEntry' = idxEntry
      /\ headers' = headers /\ entries' = entries /\ emptied' = emptied /\ pool' = pool /\ Still
      /\ \/ ppc = "insert" /\ ppc' \in {"undo", "publish"}
         \/ ppc = "construct" /\ ppc' \in {"storeValue", "rewind"}
         \/ ppc = "requisition" /\ ppc' = "rewind"
  <2>1. CASE InsertFails \/ BulkConstruct \/ BulkThrow
    BY <2>1 DEF InsertFails, BulkConstruct, BulkThrow, Pgoto, blocks, vars, counters, Still
  <2>2. CASE Construct
    BY <2>2 DEF Construct, Pgoto, blocks, vars, counters, Still
  <2>3. CASE Requisition /\ ppc' = "rewind"
    BY <2>3 DEF Requisition, Pgoto, blocks, vars, counters, Still
  <2> QED BY <2>1, <2>2, <2>3
<1>3. ProducerOK' /\ Cur' = Cur /\ Chained' = Chained /\ Stored' = Stored /\ Back' = Back /\ Top' = Top
  <2>1. ppc \notin {"undo", "storeTail", "rewind"}
    BY <1>2
  <2>2. Back \in Nat
    BY InvFacts
  <2> QED BY <1>1, <2>1, <2>2, MoveKeeps DEF MemoryInv
<1>4. Cur \in Int /\ Stored \in Int /\ Back \in Nat /\ headIndex \in Nat
  BY InvFacts
<1>5. KeyPart(o, lo, hi)' /\ HeadersSame /\ KeysSame
  BY <1>2, <1>3, <1>4, KeyPartPlain DEF MemoryInv, Placing
<1>6. \A k \in Int : Stocked(k)' <=> Stocked(k)
  BY <1>3, StockedKept
<1>7. ValuesSame
  BY <1>2 DEF ValuesSame
<1>8. ChainOK(home)'
  BY <1>1, <1>3 DEF ChainOK, MemoryInv
<1>9. ppc = "insert" => newBlock \notin Block
  BY InvFacts DEF MemoryInv, ProducerOK, NewBlockOK
<1> QED BY <1>1, <1>2, <1>3, <1>4, <1>5, <1>6, <1>7, <1>8, <1>9, StillInv DEF Building

LEMMA TailMoves ==
  ASSUME NEW o, NEW lo, NEW hi, HeadersType(o), WindowOK(o, lo, hi), Top \in Int
  PROVE  /\ NewTail = Ring(o[Newest], Cap, Top + 1)
         /\ (blockIndex.tail - 1) % blockIndex.capacity = Ring(o[Newest], Cap, Top - 1)
<1>1. Cap \in Nat /\ Cap > 0 /\ o[Newest] \in Int /\ blockIndex = headers[Newest]
      /\ blockIndex.capacity = Cap
  BY CapFacts
<1>2. blockIndex.tail = Ring(o[Newest], Cap, Top)
  BY <1>1 DEF WindowOK
<1>3. /\ (Ring(o[Newest], Cap, Top) + 1) % Cap = Ring(o[Newest], Cap, Top + 1)
      /\ (Ring(o[Newest], Cap, Top) - 1) % Cap = Ring(o[Newest], Cap, Top - 1)
  BY ONLY <1>1, Top \in Int, RingStep
<1> QED BY <1>1, <1>2, <1>3 DEF NewTail

LEMMA TailInv ==
  ASSUME NEW o, NEW lo, NEW hi, NEW home, NEW place, NEW num,
         MemoryInv(o, lo, hi, home, place, num), Claims, StoreTail \/ Rewind \/ UndoTail
  PROVE  MemoryInv(o, lo, hi, home, place, num)'
<1> DEFINE t == IF StoreTail THEN Top + 1 ELSE Top - 1
<1>0. /\ Cur \in Int /\ Stored \in Int /\ Back \in Nat /\ headIndex \in Nat /\ Top \in Int
      /\ Cur <= Stored /\ lo \in Int /\ hi \in Int /\ bulk.undone \in Nat /\ Chained \in Nat
  BY InvFacts
<1>1. /\ newBlock' = newBlock /\ idxEntry' = idxEntry /\ tailIndex' = tailIndex
      /\ entries' = entries /\ emptied' = emptied /\ pool' = pool /\ Still
      /\ \/ ppc = "storeTail" /\ ppc' = "requisition" /\ StoreTail
         \/ ppc = "rewind" /\ ppc' = "clearValue" /\ Rewind
         \/ ppc = "undoTail" /\ ppc' = "undo" /\ UndoTail
  <2>1. CASE StoreTail
    BY <2>1 DEF StoreTail, Pgoto, blocks, vars, counters, Still
  <2>2. CASE Rewind
    BY <2>2 DEF Rewind, Pgoto, blocks, vars, counters, Still
  <2>3. CASE UndoTail
    BY <2>3 DEF UndoTail, Pgoto, blocks, vars, counters, Still
  <2> QED BY <2>1, <2>2, <2>3
<1>2. /\ ProducerOK' /\ Cur' = Cur /\ Chained' = Chained /\ Stored' = Stored /\ Back' = Back
      /\ Top' = t /\ bulk'.chain = bulk.chain
  <2>1. CASE ppc # "undoTail"
    <3>1. pool \subseteq Block
      BY InvFacts
    <3>2. ProducerMove /\ bulk' = bulk /\ tailIndex' = tailIndex /\ tailBlock' = tailBlock
      BY <1>1, <2>1, <3>1, Moves DEF vars, counters
    <3>3. /\ ProducerOK' /\ Cur' = Cur /\ Chained' = Chained /\ Stored' = Stored
          /\ Back' = Back + (IF ppc = "undo" THEN 1 ELSE 0)
          /\ Top' = IF ppc = "storeTail" THEN Top + 1 ELSE IF ppc = "rewind" THEN Top - 1 ELSE Top
      BY <3>2, MoveKeeps DEF MemoryInv
    <3>4. StoreTail => ppc = "storeTail"
      BY DEF StoreTail
    <3> QED BY <1>0, <1>1, <2>1, <3>2, <3>3, <3>4
  <2>2. CASE ppc = "undoTail"
    <3>1. UndoTail /\ ~StoreTail
      BY <1>1, <2>2 DEF StoreTail
    <3> QED BY <3>1, UndoTailNumbers DEF MemoryInv, Chained
  <2> QED BY <2>1, <2>2
<1>3. HeadersType(o) /\ WindowOK(o, lo, hi) /\ KeyPart(o, lo, hi) /\ BulkOK
  BY DEF MemoryInv, KeyPart, ProducerOK
<1>4. SetTail(Ring(o[Newest], Cap, t))
  BY <1>0, <1>1, <1>3, TailMoves DEF StoreTail, Rewind, UndoTail
<1>5. t \in Int /\ lo <= t /\ t <= hi
  <2>1. lo <= Cur /\ Top <= hi
    BY <1>3 DEF WindowOK
  <2>2. CASE ppc = "storeTail"
    <3>1. Top = Stored
      <4>1. bulk.undone = 0
        BY <1>3, <2>2 DEF BulkOK
      <4> QED BY <1>0, <2>2, <4>1 DEF Top
    <3>2. Stored + 1 <= hi
      BY <1>3, <2>2 DEF WindowOK
    <3> QED BY <1>0, <1>1, <2>1, <2>2, <3>1, <3>2
  <2>3. CASE ppc = "rewind"
    <3>1. Top = Stored + 1
      <4>1. bulk.undone = 0
        BY <1>3, <2>3 DEF BulkOK
      <4> QED BY <1>0, <2>3, <4>1 DEF Top
    <3>2. ~StoreTail
      BY <2>3 DEF StoreTail
    <3> QED BY <1>0, <2>1, <3>1, <3>2
  <2>4. CASE ppc = "undoTail"
    <3>1. bulk.undone < Chained
      BY <1>3, <2>4 DEF BulkOK
    <3>2. Stored = Cur + Chained /\ Top = Stored - bulk.undone
      BY <1>0, <2>4 DEF Stored, Top
    <3>3. ~StoreTail
      BY <2>4 DEF StoreTail
    <3> QED BY <1>0, <2>1, <3>1, <3>2, <3>3
  <2> QED BY <1>1, <2>2, <2>3, <2>4
<1> HIDE DEF t
<1>6. KeyPart(o, lo, hi)' /\ HeadersSame /\ KeysSame
  BY <1>0, <1>1, <1>2, <1>3, <1>4, <1>5, KeyPartTail DEF Placing
<1>7. \A k \in Int : Stocked(k)' <=> Stocked(k)
  BY <1>2, StockedKept
<1>8. ValuesSame
  BY <1>1 DEF ValuesSame
<1>9. ChainOK(home)'
  BY <1>2 DEF ChainOK, MemoryInv
<1> QED BY <1>0, <1>1, <1>2, <1>6, <1>7, <1>8, <1>9, StillInv DEF Building

(* A block changes hands between the pool and the producer.                *)
LEMMA HandMoves ==
  ASSUME NEW home, NEW place, NEW num, PlacesOK(home, place, num), Still, LiveSet' = LiveSet,
         Back = 0, Back' = 0, \A k \in LiveSet : home[k] \in Block, Null \notin Block,
         ppc # "publish", ppc' # "publish", NEW b \in Block, NEW new,
         \/ /\ b \in pool /\ newBlock = Null /\ newBlock' = b /\ pool' = pool \ {b}
            /\ new = [x \in Block |-> IF x = b THEN "hand" ELSE place[x]]
         \/ /\ newBlock = b /\ newBlock' = Null /\ pool' = pool \cup {b}
            /\ new = [x \in Block |-> IF x = b THEN "pool" ELSE place[x]]
  PROVE  PlacesOK(home, new, num)'
<1>1. at' = at /\ block' = block
  BY DEF Still, locals
<1>2. place[b] \in {"pool", "hand"}
  BY DEF PlacesOK
<1>3. pool' \subseteq Block /\ \A x \in Block : x \in pool' <=> new[x] = "pool"
  BY DEF PlacesOK
<1>4. \A x \in Block : new[x] = "hand" <=> x = newBlock' /\ ppc' # "publish"
  BY DEF PlacesOK
<1>5. \A x \in Block : x # b => new[x] = place[x]
  OBVIOUS
<1>6. new[b] \in {"pool", "hand"}
  OBVIOUS
<1>7. \A k \in LiveSet' : new[home[k]] = "home" /\ num[home[k]] = k
  <2> SUFFICES ASSUME NEW k \in LiveSet PROVE new[home[k]] = "home" /\ num[home[k]] = k
    OBVIOUS
  <2>1. home[k] \in Block /\ place[home[k]] = "home" /\ num[home[k]] = k
    BY DEF PlacesOK
  <2>2. home[k] # b
    BY <1>2, <2>1
  <2> QED BY <1>5, <2>1, <2>2
<1>8. \A x \in Block : new[x] = "home" => num[x] \in LiveSet' /\ home[num[x]] = x
  BY <1>5, <1>6 DEF PlacesOK
<1>9. /\ \A i \in 1..Back' : new[bulk'.chain[i]] = "undone" /\ num[bulk'.chain[i]] = i
      /\ \A x \in Block : new[x] = "undone" => num[x] \in 1..Back' /\ bulk'.chain[num[x]] = x
  <2>1. \A x \in Block : new[x] = "undone" => place[x] = "undone"
    BY <1>5, <1>6
  <2>2. \A x \in Block : place[x] # "undone"
    BY DEF PlacesOK
  <2> QED BY <2>1, <2>2
<1>10. \A c \in Consumer : at'[c] = "free" => /\ block'[c] \in Block
                                              /\ new[block'[c]] = "free" /\ num[block'[c]] = c
  <2> SUFFICES ASSUME NEW c \in Consumer, at[c] = "free"
               PROVE  /\ block[c] \in Block
                      /\ new[block[c]] = "free" /\ num[block[c]] = c
    BY <1>1
  <2>1. block[c] \in Block /\ place[block[c]] = "free" /\ num[block[c]] = c
    BY DEF PlacesOK
  <2>2. block[c] # b
    BY <1>2, <2>1
  <2> QED BY <1>5, <2>1, <2>2
<1>11. \A x \in Block : new[x] = "free" => /\ num[x] \in Consumer
                                           /\ at'[num[x]] = "free" /\ block'[num[x]] = x
  BY <1>1, <1>5, <1>6 DEF PlacesOK
<1>12. \A x \in Block : new[x] \in {"pool", "hand", "home", "undone", "free"}
  BY <1>5, <1>6 DEF PlacesOK
<1> QED BY <1>3, <1>4, <1>7, <1>8, <1>9, <1>10, <1>11, <1>12 DEF PlacesOK

LEMMA RequisitionInv ==
  ASSUME NEW o, NEW lo, NEW hi, NEW home, NEW place, NEW num,
         MemoryInv(o, lo, hi, home, place, num), Claims, Requisition
  PROVE  \E new : MemoryInv(o, lo, hi, home, new, num)'
<1>1. CASE ppc' = "rewind"
  BY <1>1, MovesInv
<1>2. CASE ppc' # "rewind"
  <2>1. PICK b \in pool : /\ newBlock' = b /\ pool' = pool \ {b} /\ emptied' = [emptied EXCEPT ![b] = 0]
                          /\ ppc' = IF bulk.count = 0 THEN "construct" ELSE "storeValue"
    BY <1>2 DEF Requisition, Pgoto
  <2> DEFINE new == [x \in Block |-> IF x = b THEN "hand" ELSE place[x]]
  <2>2. /\ ppc = "requisition" /\ idxEntry' = idxEntry /\ tailIndex' = tailIndex /\ bulk' = bulk
        /\ headers' = headers /\ entries' = entries /\ Still /\ tailBlock' = tailBlock
    BY DEF Requisition, vars, counters, Still
  <2>3. /\ Cur \in Int /\ Stored \in Int /\ Back \in Nat /\ headIndex \in Nat
        /\ pool \subseteq Block /\ Null \notin Block /\ Back = 0
    BY <2>2, InvFacts
  <2>4. ProducerMove
    BY <2>3, Moves
  <2>5. ProducerOK' /\ Cur' = Cur /\ Chained' = Chained /\ Stored' = Stored /\ Back' = Back /\ Top' = Top
    BY <2>2, <2>3, <2>4, MoveKeeps DEF MemoryInv
  <2>6. KeyPart(o, lo, hi)' /\ HeadersSame /\ KeysSame
    BY <2>1, <2>2, <2>3, <2>5, KeyPartPlain DEF MemoryInv, Placing
  <2>7. \A k \in Int : Stocked(k)' <=> Stocked(k)
    BY <2>5, StockedKept
  <2>8. /\ DoneSet' = DoneSet /\ LiveSet' = LiveSet
        /\ \A c \in Consumer : FirstBlock(c)' = FirstBlock(c)
    BY <2>2, <2>6, <2>7, Steady DEF HeadersSame
  <2>9. b \in Block /\ place[b] = "pool" /\ \A k \in LiveSet : home[k] \in Block /\ home[k] # b
    <3>1. b \in Block /\ place[b] = "pool"
      BY <2>3 DEF MemoryInv, PlacesOK
    <3>2. ASSUME NEW k \in LiveSet PROVE home[k] \in Block /\ place[home[k]] = "home"
      BY DEF MemoryInv, PlacesOK, ValuesOK
    <3> QED BY <3>1, <3>2
  <2>10. CountedOK(home)'
    <3>1. CountedOK(home)
      BY DEF MemoryInv
    <3>2. 0 \in 0..BLOCK_SIZE
      BY Sizes
    <3>3. emptied' \in [Block -> 0..BLOCK_SIZE] /\ emptied'[newBlock'] = 0
      BY <2>1, <2>9, <3>1, <3>2 DEF CountedOK
    <3>4. \A k \in LiveSet' : emptied'[home[k]] = Cardinality(Span(k) \cap DoneSet')
      <4> SUFFICES ASSUME NEW k \in LiveSet
                   PROVE  emptied'[home[k]] = Cardinality(Span(k) \cap DoneSet)
        BY <2>8
      <4>1. emptied'[home[k]] = emptied[home[k]]
        BY <2>1, <2>9, <3>1 DEF CountedOK
      <4> QED BY <3>1, <4>1 DEF CountedOK
    <3>5. at' = at
      BY <2>2 DEF Still, locals
    <3>6. \A c \in Consumer : at'[c] \in {"clear", "free"} => Span(FirstBlock(c))' \subseteq DoneSet'
      <4> SUFFICES ASSUME NEW c \in Consumer, at[c] \in {"clear", "free"}
                   PROVE  Span(FirstBlock(c)') \subseteq DoneSet
        BY <2>8, <3>5 DEF Span
      <4> QED BY <2>8, <3>1 DEF CountedOK
    <3>7. \A c, d \in Consumer :
            c # d /\ at'[c] \in {"clear", "free"} /\ at'[d] \in {"clear", "free"}
              => FirstBlock(c)' # FirstBlock(d)'
      BY <2>8, <3>1, <3>5 DEF CountedOK
    <3> QED BY <3>3, <3>4, <3>6, <3>7 DEF CountedOK
  <2>11. PlacesOK(home, new, num)'
    <3>1. newBlock = Null
      BY <2>2 DEF MemoryInv, ProducerOK, NewBlockOK
    <3>2. ppc # "publish" /\ ppc' # "publish" /\ Back' = 0
      BY <2>1, <2>2, <2>3, <2>5
    <3>3. PlacesOK(home, place, num)
      BY DEF MemoryInv
    <3> QED BY <2>1, <2>2, <2>3, <2>8, <2>9, <3>1, <3>2, <3>3, HandMoves
  <2>12. ChainOK(home)'
    BY <2>2, <2>5 DEF ChainOK, MemoryInv
  <2>13. ValuesSame
    BY <2>2 DEF ValuesSame
  <2>14. ppc' \in Building => ppc \in Building
    BY <2>2 DEF Building
  <2> HIDE DEF new
  <2>15. MemoryInv(o, lo, hi, home, new, num)'
    BY <2>2, <2>3, <2>5, <2>6, <2>7, <2>10, <2>11, <2>12, <2>13, <2>14, ProducerFrame
  <2> QED BY <2>15
<1> QED BY <1>1, <1>2

(* The entry was null already: the block was never stored in it.           *)
LEMMA ClearValueInv ==
  ASSUME NEW o, NEW lo, NEW hi, NEW home, NEW place, NEW num,
         MemoryInv(o, lo, hi, home, place, num), Claims, ClearValue
  PROVE  \E new : MemoryInv(o, lo, hi, home, new, num)'
<1>1. /\ ppc = "clearValue" /\ ppc' \in {"idle", "undo"} /\ newBlock' = Null
      /\ idxEntry' = idxEntry /\ tailIndex' = tailIndex /\ bulk' = bulk
      /\ headers' = headers /\ entries' = [entries EXCEPT ![idxEntry].value = Null]
      /\ pool' = pool \cup ({newBlock} \ {Null}) /\ emptied' = emptied
      /\ Still /\ tailBlock' = tailBlock
  BY DEF ClearValue, vars, counters, Still, Pgoto
<1>2. /\ Cur \in Int /\ Stored \in Int /\ Cur <= Stored /\ Back \in Nat /\ headIndex \in Nat
      /\ pool \subseteq Block /\ Null \notin Block /\ Back = 0 /\ newBlock \in Block \cup {Null}
      /\ Cap \in Nat
  BY <1>1, InvFacts
<1>3. ProducerMove
  BY <1>2, Moves
<1>4. ProducerOK' /\ Cur' = Cur /\ Chained' = Chained /\ Stored' = Stored /\ Back' = Back /\ Top' = Top
  BY <1>1, <1>2, <1>3, MoveKeeps DEF MemoryInv
<1>5. EntriesType /\ HeadersType(o) /\ WindowOK(o, lo, hi) /\ ValuesOK(o, lo, hi, home)
  BY DEF MemoryInv, KeyPart
<1>6. idxEntry \in 1..Len(entries) /\ Null \in Block \cup {Null}
  BY <1>5 DEF HeadersType
<1>7. KeyPart(o, lo, hi)' /\ HeadersSame /\ KeysSame
  <2>1. \E e \in 1..Len(entries) : \E x \in Block \cup {Null} :
          entries' = [entries EXCEPT ![e].value = x]
    BY <1>1, <1>6
  <2>2. ppc' # "storeKey" /\ ppc' \notin Placing
    BY <1>1 DEF Placing
  <2>3. KeyPart(o, lo, hi)
    BY DEF MemoryInv
  <2>4. /\ headers' = headers /\ idxEntry' = idxEntry /\ Top' = Top
        /\ Cur \in Int /\ Cur' \in Int /\ Cur <= Cur'
    BY <1>1, <1>2, <1>4
  <2> QED BY ONLY <2>1, <2>2, <2>3, <2>4, KeyPartPlain
<1>8. ValuesSame
  <2>1. idxEntry = EntryId(o, Stored + 1) /\ Stored + 1 <= hi /\ hi <= lo + Cap /\ lo <= Cur
        /\ lo \in Int /\ hi \in Int
    BY <1>1, <1>5 DEF WindowOK
  <2>2. Stored + 1 \in Int /\ lo < Stored + 1 /\ Stored + 1 <= lo + Cap
    BY <1>2, <2>1
  <2>3. Stored + 1 \notin LiveSet
    BY <1>2 DEF LiveSet, Stocked
  <2>4. ValueOf(o, Stored + 1) = Null
    BY <1>5, <2>2, <2>3 DEF ValuesOK
  <2>5. entries[idxEntry].value = Null
    BY <2>1, <2>4 DEF ValueOf
  <2>6. \A d \in 1..Len(entries) : entries'[d].value = IF d = idxEntry THEN Null ELSE entries[d].value
    BY <1>1, <1>5, <1>6, SetValue
  <2> QED BY <2>5, <2>6 DEF ValuesSame
<1>9. \A k \in Int : Stocked(k)' <=> Stocked(k)
  BY <1>4, StockedKept
<1>10. /\ DoneSet' = DoneSet /\ LiveSet' = LiveSet
       /\ \A c \in Consumer : FirstBlock(c)' = FirstBlock(c)
  BY <1>1, <1>7, <1>9, Steady DEF HeadersSame
<1>11. CountedOK(home)'
  BY <1>1, <1>10, CountedKept DEF MemoryInv
<1>12. ChainOK(home)'
  BY <1>1, <1>4 DEF ChainOK, MemoryInv
<1>13. ppc' \in Building => ppc \in Building
  BY <1>1 DEF Building
<1>14. ASSUME NEW new, PlacesOK(home, new, num)' PROVE MemoryInv(o, lo, hi, home, new, num)'
  BY <1>1, <1>2, <1>4, <1>7, <1>8, <1>9, <1>11, <1>12, <1>13, <1>14, ProducerFrame
<1>15. \E new : PlacesOK(home, new, num)'
  <2>0. PlacesOK(home, place, num) /\ ppc # "publish" /\ ppc' # "publish" /\ Back' = 0
    BY <1>1, <1>2, <1>4 DEF MemoryInv
  <2>1. CASE newBlock = Null
    <3>1. pool' = pool
      BY <1>1, <2>1
    <3>2. PlacesOK(home, place, num)'
      BY <1>1, <1>2, <1>4, <1>10, <2>0, <2>1, <3>1, PlacesKept
    <3> QED BY <3>2
  <2>2. CASE newBlock # Null
    <3> DEFINE new == [x \in Block |-> IF x = newBlock THEN "pool" ELSE place[x]]
    <3>1. newBlock \in Block /\ pool' = pool \cup {newBlock}
      BY <1>1, <1>2, <2>2
    <3>2. \A k \in LiveSet : home[k] \in Block
      BY <1>5 DEF ValuesOK
    <3>3. PICK b \in Block : b = newBlock
      BY <3>1
    <3>4. PICK n : n = [x \in Block |-> IF x = b THEN "pool" ELSE place[x]]
      OBVIOUS
    <3>5. PlacesOK(home, n, num)'
      BY <1>1, <1>2, <1>10, <2>0, <3>1, <3>2, <3>3, <3>4, HandMoves
    <3> QED BY <3>5
  <2> QED BY <2>1, <2>2
<1> QED BY <1>14, <1>15

(* Blocks that the producer has in the index but not published are live.   *)
LEMMA ChainLive ==
  ASSUME ProducerType, BulkOK, HeadWithinTail, headIndex \in Nat, NEW k \in Int,
         Cur + Back < k, k <= Stored
  PROVE  k \in LiveSet
<1>1. Cur \in Int /\ Back \in Nat /\ tailIndex \in Nat /\ Stored \in Int
  BY BulkFields
<1>2. Cur >= -1 /\ tailIndex <= First(Cur + 1)
  BY TailPlace
<1>3. First(Cur + 1) + BLOCK_SIZE <= First(k + 1)
  <2>1. Cur + 1 \in Int /\ k + 1 \in Int /\ Cur + 1 < k + 1
    BY <1>1
  <2> QED BY <2>1, FirstOrder
<1>4. First(Cur + 1) \in Int /\ First(k + 1) \in Int /\ BLOCK_SIZE \in Nat /\ BLOCK_SIZE > 0
  <2>1. Cur + 1 \in Int /\ k + 1 \in Int
    BY <1>1
  <2> QED BY <2>1, FirstType, Sizes
<1>5. headIndex < First(k + 1)
  BY <1>1, <1>2, <1>3, <1>4 DEF HeadWithinTail
<1>6. Stocked(k)
  BY <1>1, <1>2 DEF Stocked
<1> QED BY <1>5, <1>6 DEF LiveSet, Pending

(* The head that enqueue compares with may be old, but there is room.      *)
LEMMA NotFull ==
  ASSUME ProducerOK, Inserting, headIndex \in Nat, NEW head \in 0..headIndex, ~Full(head)
  PROVE  First(Stored + 2) <= headIndex + MaxSubqueueSize
<1>1. Target = First(Stored + 1) /\ Stored \in Int
  BY TargetPlace, BulkFields DEF ProducerOK
<1>2. ~(MaxSubqueueSize - BLOCK_SIZE < Target - head)
  BY DEF Full
<1>3. First(Stored + 2) = First(Stored + 1) + BLOCK_SIZE /\ First(Stored + 1) \in Int
  <2>1. Stored + 1 \in Int /\ (Stored + 1) + 1 = Stored + 2
    BY <1>1
  <2> QED BY <2>1, FirstNext, FirstType
<1>4. MaxSubqueueSize \in Int /\ BLOCK_SIZE \in Int /\ head \in Int /\ head <= headIndex
  BY QueueAssumption, Sizes
<1> QED BY <1>1, <1>2, <1>3, <1>4

LEMMA KeyInsertInv ==
  ASSUME NEW o, NEW lo, NEW hi, NEW home, NEW place, NEW num,
         MemoryInv(o, lo, hi, home, place, num), Claims, ProducerMove, Still,
         UNCHANGED <<tailIndex, bulk, tailBlock, newBlock, emptied, pool, headers>>,
         ppc \in {"idle", "insert", "storeKey"}, ppc' = "storeTail", NEW K \in Int, K = Stored + 1,
         idxEntry' = EntryId(o, K), entries' = [entries EXCEPT ![EntryId(o, K)].key = Key(K)],
         K <= hi + 1, K = lo + Cap + 1 => lo + 1 \notin LiveSet,
         First(Stored + 2) <= headIndex + MaxSubqueueSize
  PROVE  \E low, high : MemoryInv(o, low, high, home, place, num)'
<1>1. /\ Cur \in Int /\ Stored \in Int /\ Cur <= Stored /\ Back \in Nat /\ headIndex \in Nat
      /\ Back = 0 /\ Cap \in Nat /\ Cap > 0 /\ lo \in Int /\ hi \in Int /\ Top \in Int
      /\ newBlock \in Block \cup {Null} /\ Null \notin Block
  BY InvFacts
<1>2. /\ ProducerOK /\ LimitOK /\ EntriesType /\ HeadersType(o) /\ ConsumersOK /\ RangesOK
      /\ WindowOK(o, lo, hi) /\ KeysOK(o, lo, hi) /\ IdsOK /\ AlignedOK(o)
      /\ ValuesOK(o, lo, hi, home) /\ WalksOK(o) /\ CarriesOK(home) /\ CountedOK(home)
      /\ PlacesOK(home, place, num) /\ ChainOK(home)
  BY DEF MemoryInv, KeyPart
<1>3. lo <= Cur /\ Top <= hi /\ hi <= lo + Cap /\ Top = Stored
  <2>1. bulk.undone = 0
    BY <1>2 DEF ProducerOK, BulkOK
  <2> QED BY <1>1, <1>2, <2>1 DEF WindowOK, Top
<1> DEFINE low == IF K = lo + Cap + 1 THEN lo + 1 ELSE lo
           high == IF K = hi + 1 THEN K ELSE hi
<1>4. low \in Int /\ high \in Int /\ lo < K
  BY <1>1, <1>3
<1>5. low <= Cur
  <2>1. CASE K = lo + Cap + 1
    <3>1. ASSUME lo = Cur PROVE FALSE
      <4>1. lo + 1 \in Int /\ Cur + Back < lo + 1 /\ lo + 1 <= Stored
        BY <1>1, <1>3, <2>1, <3>1
      <4>2. lo + 1 \in LiveSet
        BY <1>1, <1>2, <4>1, ChainLive DEF ProducerOK, Claims
      <4> QED BY <2>1, <4>2
    <3> QED BY <1>1, <1>3, <2>1, <3>1
  <2>2. CASE K # lo + Cap + 1
    BY <1>3, <2>2
  <2> QED BY <2>1, <2>2
<1>6. PICK l \in Int, h \in Int : l = low /\ h = high
  BY <1>4
<1> HIDE DEF low, high
<1>7. /\ KeysOK(o, l, h)' /\ IdsOK' /\ AlignedOK(o)'
      /\ EntriesType' /\ Len(entries') = Len(entries) /\ ValuesSame /\ h <= l + Cap
      /\ \A e \in 1..Len(entries) : entries[e].key # INVALID_BLOCK_BASE
                                         => entries'[e].key # INVALID_BLOCK_BASE
  <2>1. Slides(lo, hi, K, l, h)
    BY <1>1, <1>3, <1>4, <1>6 DEF low, high, Slides
  <2>2. headers' = headers /\ entries' = [entries EXCEPT ![EntryId(o, K)].key = Key(K)]
    OBVIOUS
  <2> QED BY <1>2, <2>1, <2>2, KeyInsert
<1>8. /\ l <= Cur /\ l <= Stored /\ K <= h /\ Stored <= h /\ hi <= h /\ l >= lo
      /\ (l = lo \/ (l = lo + 1 /\ K = lo + Cap + 1))
  BY <1>1, <1>3, <1>5, <1>6 DEF low, high
<1>9. ProducerOK' /\ Cur' = Cur /\ Chained' = Chained /\ Stored' = Stored /\ Back' = Back /\ Top' = Top
  BY <1>1, <1>2, MoveKeeps
<1>10. HeadersType(o)' /\ HeadersSame /\ Cap' = Cap /\ Newest' = Newest
  <2>1. EntryId(o, K) \in 1..Len(entries)
    BY <1>2, EntryIdType
  <2> QED BY <1>2, <1>7, <2>1, HeadersTypeKept
<1>11. \A k \in Int : EntryId(o, k)' = EntryId(o, k)
  BY <1>2, <1>10, EntryIdSame
<1>12. WindowOK(o, l, h)'
  <2>1. l \in Int /\ h \in Int /\ l <= Cur' /\ l <= Top' /\ Top' <= h /\ h <= l + Cap'
    BY <1>3, <1>7, <1>8, <1>9, <1>10
  <2>2. headers'[Newest'].tail = Ring(o[Newest'], Cap', Top')
    BY <1>2, <1>9, <1>10 DEF WindowOK
  <2>3. EntryId(o, Stored + 1)' = EntryId(o, K)
    <3>1. EntryId(o, Stored + 1)' = headers'[Newest'].index[Ring(o[Newest'], Cap', Stored' + 1)]
      BY DEF EntryId
    <3> QED BY <1>9, <1>10, <3>1 DEF EntryId
  <2>4. idxEntry' = EntryId(o, Stored + 1)' /\ Stored' + 1 <= h
    BY <1>8, <1>9, <2>3
  <2> QED BY <2>1, <2>2, <2>4 DEF WindowOK
<1>13. KeyPart(o, l, h)'
  BY <1>7, <1>10, <1>12 DEF KeyPart
<1>14. \A k \in Int : Stocked(k)' <=> Stocked(k)
  BY <1>9, StockedKept
<1>15. /\ ConsumersOK' /\ RangesOK' /\ DoneSet' = DoneSet /\ LiveSet' = LiveSet
       /\ \A c \in Consumer : FirstBlock(c)' = FirstBlock(c)
  BY <1>10, <1>14, Steady
<1>16. ValuesOK(o, l, h, home)'
  <2>1. \A k \in Int : ValueOf(o, k)' = ValueOf(o, k)
    <3> SUFFICES ASSUME NEW k \in Int
                 PROVE  entries'[EntryId(o, k)'].value = entries[EntryId(o, k)].value
      BY DEF ValueOf
    <3> QED BY <1>2, <1>7, <1>11, EntryIdType DEF ValuesSame
  <2>2. ASSUME NEW k \in Int, l < k, k <= l + Cap
        PROVE  ValueOf(o, k) = IF k \in LiveSet THEN home[k] ELSE Null
    <3>1. CASE k <= lo + Cap
      <4>1. lo < k
        BY <1>1, <1>8, <2>2
      <4> QED BY <1>2, <3>1, <4>1 DEF ValuesOK
    <3>2. CASE ~(k <= lo + Cap)
      <4>1. l = lo + 1 /\ K = lo + Cap + 1 /\ k = (lo + 1) + Cap /\ k = K
        BY <1>1, <1>8, <2>2, <3>2
      <4>2. EntryId(o, (lo + 1) + Cap) = EntryId(o, lo + 1)
        <5>1. lo + 1 \in Int
          BY <1>1
        <5> QED BY <1>2, <5>1, EntryIdWraps
      <4>3. ValueOf(o, lo + 1) = Null
        <5>1. lo + 1 \in Int /\ lo < lo + 1 /\ lo + 1 <= lo + Cap /\ lo + 1 \notin LiveSet
          BY <1>1, <4>1
        <5> QED BY <1>2, <5>1 DEF ValuesOK
      <4>4. k \notin LiveSet
        BY <1>1, <4>1 DEF LiveSet, Stocked
      <4>5. ValueOf(o, k) = Null
        BY <4>1, <4>2, <4>3 DEF ValueOf
      <4> QED BY <4>4, <4>5
    <3> QED BY <3>1, <3>2
  <2>3. ASSUME NEW k \in LiveSet PROVE l < k /\ k <= h /\ home[k] \in Block
    <3>1. k \in Int /\ lo < k /\ k <= hi /\ home[k] \in Block
      BY <1>2 DEF ValuesOK, LiveSet
    <3>2. l < k
      BY <1>1, <1>8, <3>1
    <3> QED BY <1>1, <1>8, <3>1, <3>2
  <2> QED BY <1>10, <1>15, <2>1, <2>2, <2>3 DEF ValuesOK
<1>17. WalksOK(o)'
  <2>1. \A g \in 1..Newest : headers'[g].index = headers[g].index
    BY <1>10 DEF HeadersSame
  <2>2. \A c \in Consumer : \A k \in Int : Holds(c, k) => EntryId(o, k)' = EntryId(o, k)
    BY <1>11
  <2> QED BY <1>2, <1>7, <2>1, <2>2, WalksKept
<1>18. CarriesOK(home)'
  BY <1>2, <1>15 DEF CarriesOK, Still, locals
<1>19. CountedOK(home)'
  BY <1>2, <1>15, CountedKept
<1>20. PlacesOK(home, place, num)'
  <2>1. newBlock \notin Block
    BY <1>1, <1>2 DEF ProducerOK, NewBlockOK
  <2> QED BY <1>1, <1>2, <1>9, <1>15, <2>1, PlacesKept
<1>21. ChainOK(home)'
  BY <1>2, <1>9 DEF ChainOK
<1>22. LimitOK'
  BY <1>2, <1>9 DEF LimitOK, Still
<1>23. MemoryInv(o, l, h, home, place, num)'
  BY <1>9, <1>13, <1>15, <1>16, <1>17, <1>18, <1>19, <1>20, <1>21, <1>22 DEF MemoryInv
<1> QED BY <1>23

(* The entry after the tail, which enqueue tries, is the next block's.     *)
LEMMA NextEntry ==
  ASSUME NEW o, NEW lo, NEW hi, NEW home, NEW place, NEW num,
         MemoryInv(o, lo, hi, home, place, num), Claims, Inserting \/ ppc = "storeKey"
  PROVE  /\ blockIndex.index[NewTail] = EntryId(o, Stored + 1) /\ Idx(Target) = Key(Stored + 1)
         /\ Top = Stored /\ Stored \in Int /\ lo \in Int /\ hi \in Int /\ Cap \in Nat /\ Cap > 0
         /\ Cur <= Stored /\ lo <= Stored /\ Stored <= hi /\ hi <= lo + Cap
         /\ EntryId(o, Stored + 1) \in 1..Len(entries)
<1>1. ProducerType /\ BulkOK /\ HeadersType(o) /\ EntriesType /\ WindowOK(o, lo, hi)
  BY DEF MemoryInv, KeyPart, ProducerOK
<1>2. /\ Stored \in Int /\ Top \in Int /\ Cur \in Int /\ lo \in Int /\ hi \in Int
      /\ Cap \in Nat /\ Cap > 0 /\ Cur <= Stored
  BY InvFacts
<1>3. Idx(Target) = Key(Stored + 1) /\ Top = Stored
  BY <1>1, TargetPlace
<1>4. NewTail = Ring(o[Newest], Cap, Stored + 1) /\ blockIndex = headers[Newest]
  BY <1>1, <1>2, <1>3, TailMoves, CapFacts
<1>5. blockIndex.index[NewTail] = EntryId(o, Stored + 1)
  BY <1>4 DEF EntryId
<1>6. lo <= Cur /\ Top <= hi /\ hi <= lo + Cap
  BY <1>1 DEF WindowOK
<1>7. EntryId(o, Stored + 1) \in 1..Len(entries)
  <2>1. Stored + 1 \in Int
    BY <1>2
  <2> QED BY <1>1, <2>1, EntryIdType
<1> QED BY <1>2, <1>3, <1>5, <1>6, <1>7

LEMMA InsertEntryInv ==
  ASSUME NEW o, NEW lo, NEW hi, NEW home, NEW place, NEW num,
         MemoryInv(o, lo, hi, home, place, num), Claims, InsertEntry
  PROVE  \E low, high : MemoryInv(o, low, high, home, place, num)'
<1>1. /\ Inserting /\ ppc \in {"idle", "insert"} /\ ppc' = "storeTail" /\ Still
      /\ UNCHANGED <<tailIndex, bulk, tailBlock, newBlock, emptied, pool, headers>>
      /\ idxEntry' = blockIndex.index[NewTail]
      /\ entries' = [entries EXCEPT ![blockIndex.index[NewTail]].key = Idx(Target)]
  BY DEF InsertEntry, Pgoto, Inserting, blocks, vars, counters, Still
<1>2. /\ blockIndex.index[NewTail] = EntryId(o, Stored + 1) /\ Idx(Target) = Key(Stored + 1)
      /\ Top = Stored /\ Stored \in Int /\ lo \in Int /\ hi \in Int /\ Cap \in Nat /\ Cap > 0
      /\ lo <= Stored /\ Stored <= hi /\ hi <= lo + Cap
  BY <1>1, NextEntry
<1>3. First(Stored + 2) <= headIndex + MaxSubqueueSize
  <2>1. headIndex \in Nat /\ ProducerOK
    BY InvFacts DEF MemoryInv
  <2>2. \E head \in 0..headIndex : ~Full(head)
    BY DEF InsertEntry
  <2> QED BY <1>1, <2>1, <2>2, NotFull
<1>4. ASSUME Stored + 1 = lo + Cap + 1 PROVE lo + 1 \notin LiveSet
  <2>1. HeadersType(o) /\ KeysOK(o, lo, hi) /\ ValuesOK(o, lo, hi, home)
    BY DEF MemoryInv, KeyPart
  <2>2. EntryId(o, Stored + 1) = EntryId(o, lo + 1)
    <3>1. lo + 1 \in Int /\ Stored + 1 = (lo + 1) + Cap
      BY <1>2, <1>4
    <3> QED BY <2>1, <3>1, EntryIdWraps
  <2>3. lo + 1 \in Int /\ lo < lo + 1 /\ lo + 1 <= lo + Cap /\ lo + 1 <= hi
    BY <1>2, <1>4
  <2>4. KeyOf(o, lo + 1) # INVALID_BLOCK_BASE
    BY <2>1, <2>3, KeyFacts DEF KeysOK
  <2>5. ValueOf(o, lo + 1) = Null
    BY <1>2, <2>2, <2>4 DEF InsertEntry, KeyOf, ValueOf
  <2>6. lo + 1 \in LiveSet => ValueOf(o, lo + 1) \in Block
    BY <2>1, <2>3 DEF ValuesOK
  <2> QED BY <2>5, <2>6, QueueAssumption
<1>5. ProducerMove
  <2>1. pool \subseteq Block
    BY InvFacts
  <2> QED BY <2>1, Moves
<1>6. PICK K \in Int : K = Stored + 1
  BY <1>2
<1>7. K <= hi + 1
  BY <1>2, <1>6
<1> QED BY <1>1, <1>2, <1>3, <1>4, <1>5, <1>6, <1>7, KeyInsertInv

LEMMA StoreKeyInv ==
  ASSUME NEW o, NEW lo, NEW hi, NEW home, NEW place, NEW num,
         MemoryInv(o, lo, hi, home, place, num), Claims, StoreKey
  PROVE  \E low, high : MemoryInv(o, low, high, home, place, num)'
<1>1. /\ ppc = "storeKey" /\ ppc' = "storeTail" /\ Still
      /\ UNCHANGED <<tailIndex, bulk, tailBlock, newBlock, emptied, pool, headers>>
      /\ idxEntry' = blockIndex.index[NewTail]
      /\ entries' = [entries EXCEPT ![blockIndex.index[NewTail]].key = Idx(Target)]
  BY DEF StoreKey, Pgoto, blocks, vars, counters, Still
<1>2. /\ blockIndex.index[NewTail] = EntryId(o, Stored + 1) /\ Idx(Target) = Key(Stored + 1)
      /\ Top = Stored /\ Stored \in Int /\ lo \in Int /\ hi \in Int /\ Cap \in Nat /\ Cap > 0
  BY <1>1, NextEntry
<1>3. First(Stored + 2) <= headIndex + MaxSubqueueSize
  BY <1>1 DEF MemoryInv, LimitOK, Building
<1>4. hi = Top /\ hi < lo + Cap
  BY <1>1 DEF MemoryInv, KeyPart, WindowOK
<1>5. ProducerMove
  <2>1. pool \subseteq Block
    BY InvFacts
  <2> QED BY <2>1, Moves
<1>6. PICK K \in Int : K = Stored + 1
  BY <1>2
<1>7. K <= hi + 1 /\ K # lo + Cap + 1
  BY <1>2, <1>4, <1>6
<1> QED BY <1>1, <1>2, <1>3, <1>5, <1>6, <1>7, KeyInsertInv

(* Growing: every entry of the old array stands for a live block.          *)
LEMMA GrowIndexInv ==
  ASSUME NEW o, NEW lo, NEW hi, NEW home, NEW place, NEW num,
         MemoryInv(o, lo, hi, home, place, num), Claims, GrowIndex
  PROVE  \E b : MemoryInv(b, lo, hi, home, place, num)'
<1>1. /\ Inserting /\ ppc \in {"idle", "insert"} /\ ppc' = "storeKey" /\ Still
      /\ bulk' = bulk /\ tailIndex' = tailIndex /\ tailBlock' = tailBlock /\ newBlock' = newBlock
      /\ emptied' = emptied /\ pool' = pool /\ idxEntry' = idxEntry
      /\ headers' = Append(headers, Grown(blockIndex)) /\ Newest < MaxHeaders
      /\ entries' = entries \o [i \in 1..blockIndex.capacity |->
                                  [key |-> INVALID_BLOCK_BASE, value |-> Null]]
  BY DEF GrowIndex, Pgoto, Inserting, blocks, vars, counters, Still, Newest
<1>2. /\ blockIndex.index[NewTail] = EntryId(o, Stored + 1)
      /\ Top = Stored /\ Stored \in Int /\ lo \in Int /\ hi \in Int /\ Cap \in Nat /\ Cap > 0
      /\ lo <= Stored /\ Stored <= hi /\ hi <= lo + Cap
  BY <1>1, NextEntry
<1>3. /\ ProducerOK /\ LimitOK /\ EntriesType /\ HeadersType(o) /\ ConsumersOK /\ RangesOK
      /\ WindowOK(o, lo, hi) /\ KeysOK(o, lo, hi) /\ IdsOK /\ AlignedOK(o)
      /\ ValuesOK(o, lo, hi, home) /\ WalksOK(o) /\ CarriesOK(home) /\ CountedOK(home)
      /\ PlacesOK(home, place, num) /\ ChainOK(home)
  BY DEF MemoryInv, KeyPart
<1>4. /\ Cur \in Int /\ Cur <= Stored /\ Back \in Nat /\ headIndex \in Nat /\ Back = 0
      /\ newBlock \in Block \cup {Null} /\ Null \notin Block /\ pool \subseteq Block
      /\ headIndex <= tailIndex
  BY <1>1, InvFacts
<1>5. hi = lo + Cap /\ Stored = hi
  <2>1. ASSUME Stored + 1 <= lo + Cap PROVE FALSE
    <3>1. Stored + 1 \in Int /\ lo < Stored + 1 /\ Stored + 1 \notin LiveSet
      BY <1>2 DEF LiveSet, Stocked
    <3>2. ValueOf(o, Stored + 1) = Null
      BY <1>3, <2>1, <3>1 DEF ValuesOK
    <3>3. ValueOf(o, Stored + 1) # Null
      BY <1>2 DEF GrowIndex, ValueOf
    <3> QED BY <3>2, <3>3
  <2> QED BY <1>2, <2>1
<1>6. headers[Newest].tail = Ring(o[Newest], Cap, lo + Cap) /\ blockIndex.capacity = Cap
  BY <1>2, <1>3, <1>5, CapFacts DEF WindowOK
<1>7. PICK b : b = Begun(o, lo)
  OBVIOUS
<1>8. /\ EntriesType' /\ HeadersType(b)' /\ Newest' = Newest + 1 /\ Cap' = 2 * Cap
      /\ \A g \in 1..Newest : headers'[g] = headers[g] /\ b[g] = o[g]
      /\ Len(entries') = Len(entries) + Cap
      /\ \A e \in 1..Len(entries) : entries'[e] = entries[e]
      /\ \A k \in Int : lo < k /\ k <= lo + Cap => EntryId(b, k)' = EntryId(o, k)
      /\ \A k \in Int : lo + Cap < k /\ k <= lo + 2 * Cap =>
           KeyOf(b, k)' = INVALID_BLOCK_BASE /\ ValueOf(b, k)' = Null
      /\ headers'[Newest + 1].tail = Ring(b[Newest + 1], 2 * Cap, hi)
      /\ KeysOK(b, lo, hi)' /\ IdsOK' /\ AlignedOK(b)'
  <2>1. lo \in Int /\ hi \in Int /\ hi = lo + Cap
    BY <1>2, <1>5
  <2>2. /\ HeadersType(o) /\ EntriesType /\ Newest < MaxHeaders
        /\ headers[Newest].tail = Ring(o[Newest], Cap, lo + Cap)
        /\ headers' = Append(headers, Grown(blockIndex))
        /\ KeysOK(o, lo, hi) /\ IdsOK /\ AlignedOK(o) /\ idxEntry' = idxEntry
    BY <1>1, <1>3, <1>6
  <2>3. entries' = entries \o [i \in 1..Cap |-> [key |-> INVALID_BLOCK_BASE, value |-> Null]]
    BY <1>1, <1>6
  <2>4. EntriesType' /\ HeadersType(b)' /\ Newest' = Newest + 1 /\ Cap' = 2 * Cap
    BY ONLY <1>7, <2>1, <2>2, <2>3, KeyGrow
  <2>5. Extends(o, b, hi)
    BY ONLY <1>7, <2>1, <2>2, <2>3, KeyGrow
  <2>6. /\ Len(entries') = Len(entries) + Cap
        /\ \A e \in 1..Len(entries) : entries'[e] = entries[e]
    BY ONLY <1>7, <2>1, <2>2, <2>3, KeyGrow
  <2>7. \A k \in Int : lo < k /\ k <= lo + Cap => EntryId(b, k)' = EntryId(o, k)
    BY ONLY <1>7, <2>1, <2>2, <2>3, KeyGrow
  <2>8. \A k \in Int : lo + Cap < k /\ k <= lo + 2 * Cap =>
           KeyOf(b, k)' = INVALID_BLOCK_BASE /\ ValueOf(b, k)' = Null
    BY ONLY <1>7, <2>1, <2>2, <2>3, KeyGrow
  <2>9. /\ \A g \in 1..Newest : headers'[g] = headers[g] /\ b[g] = o[g]
        /\ headers'[Newest + 1].tail = Ring(b[Newest + 1], 2 * Cap, hi)
    BY ONLY <2>5 DEF Extends
  <2>10. KeysOK(b, lo, hi)' /\ IdsOK' /\ AlignedOK(b)'
    BY ONLY <1>7, <2>1, <2>2, <2>3, KeyGrow
  <2> QED BY ONLY <2>4, <2>6, <2>7, <2>8, <2>9, <2>10
<1>9. ProducerMove
  BY <1>4, Moves
<1>10. ProducerOK' /\ Cur' = Cur /\ Chained' = Chained /\ Stored' = Stored /\ Back' = Back /\ Top' = Top
  BY <1>1, <1>3, <1>4, <1>9, MoveKeeps
<1>11. WindowOK(b, lo, hi)'
  <2>1. lo \in Int /\ hi \in Int /\ lo <= Cur' /\ lo <= Top' /\ Top' <= hi /\ hi <= lo + Cap'
    BY <1>2, <1>3, <1>5, <1>8, <1>10 DEF WindowOK
  <2>2. headers'[Newest'].tail = Ring(b[Newest'], Cap', Top')
    BY <1>2, <1>5, <1>8, <1>10
  <2>3. hi = Top' /\ hi < lo + Cap'
    BY <1>2, <1>5, <1>8, <1>10
  <2> QED BY <1>1, <2>1, <2>2, <2>3 DEF WindowOK
<1>12. KeyPart(b, lo, hi)'
  BY <1>8, <1>11 DEF KeyPart
<1>13. \A k \in Int : Stocked(k)' <=> Stocked(k)
  BY <1>10, StockedKept
<1>14. /\ ConsumersOK' /\ RangesOK' /\ DoneSet' = DoneSet /\ LiveSet' = LiveSet
       /\ \A c \in Consumer : FirstBlock(c)' = FirstBlock(c)
  <2>1. Newest \in Int /\ Newest' \in Int /\ Newest <= Newest'
    <3>1. Newest \in Nat
      BY <1>3, CapFacts
    <3> QED BY <1>8, <3>1
  <2>2. /\ ConsumersOK' /\ RangesOK' /\ DoneSet' = DoneSet
        /\ \A k \in Int : Pending(k)' <=> Pending(k)
        /\ \A c \in Consumer : FirstBlock(c)' = FirstBlock(c)
    BY <1>1, <1>3, <2>1, StillFrame
  <2> QED BY <1>13, <2>2, LiveKept
<1>15. ValuesOK(b, lo, hi, home)'
  <2>1. ASSUME NEW k \in Int, lo < k, k <= lo + Cap'
        PROVE  ValueOf(b, k)' = IF k \in LiveSet THEN home[k] ELSE Null
    <3>1. CASE k <= lo + Cap
      <4>1. EntryId(b, k)' = EntryId(o, k) /\ EntryId(o, k) \in 1..Len(entries)
        BY <1>3, <1>8, <2>1, <3>1, EntryIdType
      <4>2. ValueOf(b, k)' = entries'[EntryId(b, k)'].value
        BY DEF ValueOf
      <4>3. ValueOf(b, k)' = ValueOf(o, k)
        BY <1>8, <4>1, <4>2 DEF ValueOf
      <4> QED BY <1>3, <2>1, <3>1, <4>3 DEF ValuesOK
    <3>2. CASE ~(k <= lo + Cap)
      <4>1. lo + Cap < k /\ k <= lo + 2 * Cap
        BY <1>2, <1>8, <2>1, <3>2, SMTT(20)
      <4>2. k \notin LiveSet
        BY <1>2, <1>5, <4>1 DEF LiveSet, Stocked
      <4> QED BY <1>8, <4>1, <4>2
    <3> QED BY <3>1, <3>2
  <2> QED BY <1>3, <1>14, <2>1 DEF ValuesOK
<1>16. WalksOK(b)'
  <2>1. \A g \in 1..Newest : headers'[g].index = headers[g].index /\ b[g] = o[g]
    BY <1>8
  <2>2. ASSUME NEW c \in Consumer, NEW k \in Int, Holds(c, k) PROVE EntryId(b, k)' = EntryId(o, k)
    <3>1. k \in LiveSet
      BY <1>3, <1>4, <2>2, HeldLive DEF Claims, ProducerOK
    <3>2. lo < k /\ k <= lo + Cap
      BY <1>3, <1>5, <3>1 DEF ValuesOK
    <3> QED BY <1>8, <3>2
  <2>3. \A e \in 1..Len(entries) : entries[e].key # INVALID_BLOCK_BASE
                                     => entries'[e].key # INVALID_BLOCK_BASE
    BY <1>8
  <2> QED BY <1>1, <1>3, <2>1, <2>2, <2>3, WalksKept
<1>17. CarriesOK(home)'
  BY <1>1, <1>3, <1>14 DEF CarriesOK, Still, locals
<1>18. CountedOK(home)'
  BY <1>1, <1>3, <1>14, CountedKept
<1>19. PlacesOK(home, place, num)'
  <2>1. newBlock \notin Block
    BY <1>1, <1>3, <1>4 DEF ProducerOK, NewBlockOK
  <2> QED BY <1>1, <1>3, <1>4, <1>10, <1>14, <2>1, PlacesKept
<1>20. ChainOK(home)'
  BY <1>1, <1>3, <1>10 DEF ChainOK
<1>21. LimitOK'
  <2>1. First(Stored + 2) <= headIndex + MaxSubqueueSize
    <3>1. \E head \in 0..headIndex : ~Full(head)
      BY DEF GrowIndex
    <3> QED BY <1>1, <1>3, <1>4, <3>1, NotFull
  <2> QED BY <1>1, <1>3, <1>10, <2>1 DEF LimitOK, Still
<1>22. MemoryInv(b, lo, hi, home, place, num)'
  BY <1>10, <1>12, <1>14, <1>15, <1>16, <1>17, <1>18, <1>19, <1>20, <1>21 DEF MemoryInv
<1> QED BY <1>22

(* Is(home, b, p, n): by the program's state, block b is at place p with   *)
(* number n.  PlacesOK says that place and num are the only such p and n.  *)
Numbered == {"home", "undone", "free"}
Is(home, b, p, n) ==
  \/ p = "pool" /\ b \in pool
  \/ p = "hand" /\ b = newBlock /\ ppc # "publish"
  \/ p = "home" /\ n \in LiveSet /\ home[n] = b
  \/ p = "undone" /\ n \in 1..Back /\ bulk.chain[n] = b
  \/ p = "free" /\ n \in Consumer /\ at[n] = "free" /\ block[n] = b
Only(home, b, q, m) ==
  /\ Is(home, b, q, m)
  /\ \A p, n : Is(home, b, p, n) => p = q /\ (p \in Numbered => n = m)
InBlocks(home) ==
  /\ pool \subseteq Block /\ \A k \in LiveSet : home[k] \in Block
  /\ \A i \in 1..Back : bulk.chain[i] \in Block
  /\ \A c \in Consumer : at[c] = "free" => block[c] \in Block

LEMMA PlacesGive ==
  ASSUME NEW home, NEW place, NEW num, PlacesOK(home, place, num), NEW b \in Block
  PROVE  Only(home, b, place[b], num[b])
<1>1. place[b] \in {"pool", "hand", "home", "undone", "free"}
  BY DEF PlacesOK
<1>2. Is(home, b, place[b], num[b])
  BY <1>1 DEF PlacesOK, Is
<1>3. ASSUME NEW p, NEW n, Is(home, b, p, n) PROVE p = place[b] /\ (p \in Numbered => n = num[b])
  <2>1. CASE p = "pool" \/ p = "hand"
    BY <1>3, <2>1 DEF Is, PlacesOK, Numbered
  <2>2. CASE p = "home"
    BY <1>3, <2>2 DEF Is, PlacesOK, Numbered
  <2>3. CASE p = "undone"
    BY <1>3, <2>3 DEF Is, PlacesOK, Numbered
  <2>4. CASE p = "free"
    BY <1>3, <2>4 DEF Is, PlacesOK, Numbered
  <2> QED BY <1>3, <2>1, <2>2, <2>3, <2>4 DEF Is
<1> QED BY <1>2, <1>3 DEF Only

LEMMA PlacesTaken ==
  ASSUME NEW home, NEW place, NEW num, InBlocks(home)',
         \A b \in Block : Only(home, b, place[b], num[b])'
  PROVE  PlacesOK(home, place, num)'
<1>1. \A b \in Block : Is(home, b, place[b], num[b])'
  BY DEF Only
<1>2. \A b \in Block : \A p, n : Is(home, b, p, n)' => p = place[b] /\ (p \in Numbered => n = num[b])
  BY DEF Only
<1>3. pool' \subseteq Block /\ \A b \in Block : b \in pool' <=> place[b] = "pool"
  <2>1. ASSUME NEW b \in Block, b \in pool' PROVE place[b] = "pool"
    <3>1. Is(home, b, "pool", num[b])'
      BY <2>1 DEF Is
    <3> QED BY <1>2, <3>1
  <2> QED BY <1>1, <2>1 DEF Is, InBlocks
<1>4. \A b \in Block : place[b] = "hand" <=> b = newBlock' /\ ppc' # "publish"
  <2>1. ASSUME NEW b \in Block, b = newBlock', ppc' # "publish" PROVE place[b] = "hand"
    <3>1. Is(home, b, "hand", num[b])'
      BY <2>1 DEF Is
    <3> QED BY <1>2, <3>1
  <2> QED BY <1>1, <2>1 DEF Is
<1>5. \A k \in LiveSet' : place[home[k]] = "home" /\ num[home[k]] = k
  <2> SUFFICES ASSUME NEW k \in LiveSet' PROVE place[home[k]] = "home" /\ num[home[k]] = k
    OBVIOUS
  <2>1. home[k] \in Block /\ Is(home, home[k], "home", k)'
    BY DEF Is, InBlocks
  <2> QED BY <1>2, <2>1 DEF Numbered
<1>6. \A b \in Block : place[b] = "home" => num[b] \in LiveSet' /\ home[num[b]] = b
  BY <1>1 DEF Is
<1>7. \A i \in 1..Back' : place[bulk'.chain[i]] = "undone" /\ num[bulk'.chain[i]] = i
  <2> SUFFICES ASSUME NEW i \in 1..Back', NEW b, b = bulk'.chain[i]
               PROVE  place[b] = "undone" /\ num[b] = i
    OBVIOUS
  <2>1. b \in Block /\ Is(home, b, "undone", i)'
    BY DEF Is, InBlocks
  <2> QED BY <1>2, <2>1 DEF Numbered
<1>8. \A b \in Block : place[b] = "undone" => num[b] \in 1..Back' /\ bulk'.chain[num[b]] = b
  BY <1>1 DEF Is
<1>9. \A c \in Consumer : at'[c] = "free" => /\ block'[c] \in Block
                                             /\ place[block'[c]] = "free" /\ num[block'[c]] = c
  <2> SUFFICES ASSUME NEW c \in Consumer, at'[c] = "free", NEW b, b = block'[c]
               PROVE  b \in Block /\ place[b] = "free" /\ num[b] = c
    OBVIOUS
  <2>1. b \in Block /\ Is(home, b, "free", c)'
    BY DEF Is, InBlocks
  <2> QED BY <1>2, <2>1 DEF Numbered
<1>10. \A b \in Block : place[b] = "free" => /\ num[b] \in Consumer
                                             /\ at'[num[b]] = "free" /\ block'[num[b]] = b
  BY <1>1 DEF Is
<1>11. \A b \in Block : place[b] \in {"pool", "hand", "home", "undone", "free"}
  BY <1>1 DEF Is
<1> QED BY <1>3, <1>4, <1>5, <1>6, <1>7, <1>8, <1>9, <1>10, <1>11 DEF PlacesOK

(* One block changes place.                                                *)
LEMMA PlaceMoves ==
  ASSUME NEW home, NEW place, NEW num, PlacesOK(home, place, num), NEW h, InBlocks(h)',
         NEW b \in Block, NEW q, NEW m, Only(h, b, q, m)',
         \A x \in Block : x # b => \A p, n : Is(h, x, p, n)' <=> Is(home, x, p, n)
  PROVE  \E new, to : PlacesOK(h, new, to)'
<1> DEFINE new == [x \in Block |-> IF x = b THEN q ELSE place[x]]
           to  == [x \in Block |-> IF x = b THEN m ELSE num[x]]
<1>1. ASSUME NEW x \in Block PROVE Only(h, x, new[x], to[x])'
  <2>1. CASE x = b
    BY <2>1
  <2>2. CASE x # b
    <3>1. Only(home, x, place[x], num[x])
      BY PlacesGive
    <3>2. new[x] = place[x] /\ to[x] = num[x]
      BY <2>2
    <3>3. \A p, n : Is(h, x, p, n)' <=> Is(home, x, p, n)
      BY <2>2
    <3> HIDE DEF new, to
    <3>4. Is(h, x, new[x], to[x])'
      BY <3>1, <3>2, <3>3 DEF Only
    <3>5. ASSUME NEW p, NEW n, Is(h, x, p, n)' PROVE p = new[x] /\ (p \in Numbered => n = to[x])
      BY <3>1, <3>2, <3>3, <3>5 DEF Only
    <3> QED BY <3>4, <3>5 DEF Only
  <2> QED BY <2>1, <2>2
<1> HIDE DEF new, to
<1>2. PlacesOK(h, new, to)'
  BY <1>1, PlacesTaken
<1> QED BY <1>2

(* The block enters the index: it is the home of block Stored + 1 now.     *)
LEMMA StoreValueInv ==
  ASSUME NEW o, NEW lo, NEW hi, NEW home, NEW place, NEW num,
         MemoryInv(o, lo, hi, home, place, num), Claims, StoreValue
  PROVE  \E h, new, to : /\ MemoryInv(o, lo, hi, h, new, to)' /\ h[Stored + 1] = newBlock
                         /\ \A k \in Int : k # Stored + 1 => h[k] = home[k]
<1>1. /\ ppc = "storeValue" /\ ppc' \in {"publish", "insert"} /\ idxEntry' = idxEntry
      /\ entries' = [entries EXCEPT ![idxEntry].value = newBlock]
      /\ headers' = headers /\ emptied' = emptied /\ pool' = pool /\ Still
  BY DEF StoreValue, Pgoto, vars, counters, blocks, Still
<1>2. /\ Cur \in Int /\ Stored \in Int /\ Cur <= Stored /\ Back = 0 /\ headIndex \in Nat
      /\ headIndex <= tailIndex /\ tailIndex \in Nat /\ Null \notin Block /\ Chained \in Nat
      /\ Newest \in Nat /\ Cap \in Nat /\ lo \in Int /\ hi \in Int /\ bulk.chain \in Seq(Block)
  BY <1>1, InvFacts
<1>3. /\ ProducerOK /\ LimitOK /\ EntriesType /\ HeadersType(o) /\ ConsumersOK /\ RangesOK
      /\ WindowOK(o, lo, hi) /\ IdsOK
      /\ ValuesOK(o, lo, hi, home) /\ WalksOK(o) /\ CarriesOK(home) /\ CountedOK(home)
      /\ PlacesOK(home, place, num) /\ ChainOK(home)
  BY DEF MemoryInv, KeyPart
<1>4. /\ ProducerOK' /\ newBlock \in Block /\ Cur' = Cur /\ Stored' = Stored + 1 /\ Back' = 0
      /\ Top' = Top /\ bulk'.count = bulk.count
      /\ bulk.count = 0 => bulk' = bulk /\ newBlock' = newBlock /\ ppc' = "publish"
      /\ bulk.count # 0 => /\ bulk'.chain = Append(bulk.chain, newBlock) /\ newBlock' = Null
                           /\ ppc' = "insert" /\ Stored = Cur + Chained
  BY <1>2, <1>3, StoreValueNumbers
<1>5. PICK K \in Int : K = Stored + 1
  BY <1>2
<1>6. PICK h : h = [k \in Int |-> IF k = K THEN newBlock ELSE home[k]]
  OBVIOUS
<1>7. h[K] = newBlock /\ \A k \in Int : k # K => h[k] = home[k]
  BY <1>6
<1>8. idxEntry = EntryId(o, K) /\ lo < K /\ K <= hi /\ hi <= lo + Cap
  BY <1>1, <1>2, <1>3, <1>5 DEF WindowOK
<1>9. idxEntry \in 1..Len(entries)
  BY <1>3 DEF HeadersType
<1>10. KeyPart(o, lo, hi)' /\ HeadersSame /\ KeysSame
  <2>1. \E e \in 1..Len(entries) : \E x \in Block \cup {Null} :
          entries' = [entries EXCEPT ![e].value = x]
    BY <1>1, <1>4, <1>9
  <2>2. ppc' # "storeKey" /\ ppc' \notin Placing
    BY <1>1 DEF Placing
  <2>3. KeyPart(o, lo, hi)
    BY DEF MemoryInv
  <2>4. /\ headers' = headers /\ idxEntry' = idxEntry /\ Top' = Top
        /\ Cur \in Int /\ Cur' \in Int /\ Cur <= Cur'
    BY <1>1, <1>2, <1>4
  <2> QED BY ONLY <2>1, <2>2, <2>3, <2>4, KeyPartPlain
<1>11. Newest' = Newest /\ Cap' = Cap
  BY <1>10 DEF HeadersSame, Cap
<1>12. /\ ConsumersOK' /\ RangesOK' /\ DoneSet' = DoneSet
       /\ \A k \in Int : Pending(k)' <=> Pending(k)
       /\ \A c \in Consumer : FirstBlock(c)' = FirstBlock(c)
  <2>1. Newest \in Int /\ Newest' \in Int /\ Newest <= Newest'
    BY <1>2, <1>11
  <2> QED BY <1>1, <1>3, <2>1, StillFrame
<1>13. headIndex <= First(K) /\ headIndex < First(K + 1) /\ K >= 0 /\ First(K) \in Int
  <2>1. tailIndex <= First(Cur + 1) /\ Cur >= -1 /\ First(Cur + 1) \in Int
    BY <1>3, TailPlace DEF ProducerOK
  <2>2. First(Cur + 1) <= First(K)
    <3>1. CASE Cur + 1 = K
      BY <2>1, <3>1
    <3>2. CASE Cur + 1 # K
      <4>1. Cur + 1 \in Int /\ Cur + 1 < K
        BY <1>2, <1>5, <3>2
      <4>2. First(Cur + 1) + BLOCK_SIZE <= First(K)
        BY <4>1, FirstOrder
      <4>3. First(K) \in Int
        BY FirstType
      <4> QED BY <2>1, <4>2, <4>3, Sizes
    <3> QED BY <3>1, <3>2
  <2>3. First(K + 1) = First(K) + BLOCK_SIZE /\ First(K) \in Int
    BY FirstNext, FirstType
  <2> QED BY <1>2, <1>5, <2>1, <2>2, <2>3, Sizes
<1>14. LiveSet' = LiveSet \cup {K} /\ K \notin LiveSet
  <2>1. ASSUME NEW k \in Int PROVE Stocked(k)' <=> Stocked(k) \/ k = K
    BY <1>2, <1>4, <1>5, <1>13 DEF Stocked
  <2>2. Pending(K)
    BY <1>13 DEF Pending
  <2>3. ~Stocked(K)
    BY <1>2, <1>5 DEF Stocked
  <2> QED BY <1>12, <2>1, <2>2, <2>3 DEF LiveSet
<1>15. \A k \in LiveSet : k \in Int /\ k # K /\ h[k] = home[k] /\ home[k] \in Block
  BY <1>3, <1>7, <1>14 DEF LiveSet, ValuesOK
<1>16. ValuesOK(o, lo, hi, h)'
  <2>1. \A d \in 1..Len(entries) :
          entries'[d].value = IF d = idxEntry THEN newBlock ELSE entries[d].value
    BY <1>1, <1>3, <1>4, <1>9, SetValue
  <2>2. ASSUME NEW k \in Int, lo < k, k <= lo + Cap
        PROVE  ValueOf(o, k)' = IF k \in LiveSet' THEN h[k] ELSE Null
    <3>1. EntryId(o, k)' = EntryId(o, k) /\ EntryId(o, k) \in 1..Len(entries)
      BY <1>3, <1>10, EntryIdSame, EntryIdType
    <3>2. ValueOf(o, k)' = IF EntryId(o, k) = idxEntry THEN newBlock ELSE ValueOf(o, k)
      BY <2>1, <3>1 DEF ValueOf
    <3>3. CASE k = K
      BY <1>7, <1>8, <1>14, <3>2, <3>3
    <3>4. CASE k # K
      <4>1. EntryId(o, k) # idxEntry
        <5>1. lo < K /\ K <= lo + Cap
          BY <1>2, <1>8
        <5> QED BY <1>2, <1>3, <1>8, <2>2, <3>4, <5>1, EntryIdOnce
      <4>2. ValueOf(o, k)' = ValueOf(o, k)
        BY <3>2, <4>1
      <4>3. k \in LiveSet' <=> k \in LiveSet
        BY <1>14, <3>4
      <4> QED BY <1>3, <1>7, <2>2, <3>4, <4>2, <4>3 DEF ValuesOK
    <3> QED BY <3>3, <3>4
  <2>3. \A k \in LiveSet' : lo < k /\ k <= hi /\ h[k] \in Block
    BY <1>3, <1>4, <1>7, <1>8, <1>14, <1>15 DEF ValuesOK
  <2> QED BY <1>11, <2>2, <2>3 DEF ValuesOK
<1>17. WalksOK(o)'
  <2>1. \A c \in Consumer : \A k \in Int : Holds(c, k) => EntryId(o, k)' = EntryId(o, k)
    BY <1>3, <1>10, EntryIdSame
  <2>2. \A g \in 1..Newest : headers'[g].index = headers[g].index
    BY <1>10 DEF HeadersSame
  <2>3. \A e \in 1..Len(entries) : entries[e].key # INVALID_BLOCK_BASE
                                     => entries'[e].key # INVALID_BLOCK_BASE
    BY <1>10 DEF KeysSame
  <2> QED BY <1>1, <1>3, <2>1, <2>2, <2>3, WalksKept
<1>18. CarriesOK(h)'
  <2>1. at' = at /\ block' = block
    BY <1>1 DEF Still, locals
  <2>2. ASSUME NEW c \in Consumer, at[c] \in {"move", "setEmpty", "clear"}
        PROVE  block[c] = h[FirstBlock(c)]
    <3>1. index[c] \in Nat /\ end[c] \in Nat /\ index[c] < end[c] /\ at[c] # "none"
      BY <1>3, <2>2 DEF ConsumersOK, RangesOK
    <3>2. FirstBlock(c) \in Nat /\ Holds(c, FirstBlock(c))
      BY <2>2, <3>1, EndIndexFacts DEF Holds
    <3>3. FirstBlock(c) \in LiveSet
      BY <1>2, <1>3, <3>2, HeldLive DEF Claims, ProducerOK
    <3> QED BY <1>3, <1>15, <2>2, <3>3 DEF CarriesOK
  <2> QED BY <1>12, <2>1, <2>2 DEF CarriesOK
<1>19. CountedOK(h)'
  <2>1. at' = at
    BY <1>1 DEF Still, locals
  <2>2. Span(K) \cap DoneSet = {}
    BY <1>2, <1>13 DEF Span, DoneSet
  <2>3. \A k \in LiveSet' : emptied'[h[k]] = Cardinality(Span(k) \cap DoneSet')
    <3> SUFFICES ASSUME NEW k \in LiveSet' PROVE emptied[h[k]] = Cardinality(Span(k) \cap DoneSet)
      BY <1>1, <1>12
    <3>1. CASE k = K
      <4>1. emptied[newBlock] = 0
        BY <1>1, <1>3 DEF CountedOK
      <4> QED BY <1>7, <2>2, <3>1, <4>1, FS_EmptySet
    <3>2. CASE k \in LiveSet
      BY <1>3, <1>15, <3>2 DEF CountedOK
    <3> QED BY <1>14, <3>1, <3>2
  <2>4. \A c \in Consumer : at'[c] \in {"clear", "free"} => Span(FirstBlock(c))' \subseteq DoneSet'
    <3> SUFFICES ASSUME NEW c \in Consumer, at[c] \in {"clear", "free"}
                 PROVE  Span(FirstBlock(c)') \subseteq DoneSet
      BY <1>12, <2>1 DEF Span
    <3> QED BY <1>3, <1>12 DEF CountedOK
  <2>5. \A c, d \in Consumer :
          c # d /\ at'[c] \in {"clear", "free"} /\ at'[d] \in {"clear", "free"}
            => FirstBlock(c)' # FirstBlock(d)'
    BY <1>3, <1>12, <2>1 DEF CountedOK
  <2> QED BY <1>1, <1>3, <2>3, <2>4, <2>5 DEF CountedOK
<1>20. ChainOK(h)'
  <2>1. CASE bulk.count = 0
    <3>1. bulk.chain = <<>>
      BY <1>3, <2>1 DEF ProducerOK, BulkOK
    <3>2. Chained' = 0
      BY <1>4, <2>1, <3>1 DEF Chained
    <3> QED BY <1>4, <3>2 DEF ChainOK
  <2>2. CASE bulk.count # 0
    <3>1. Chained' = Chained + 1
      BY <1>2, <1>4, <2>2 DEF Chained
    <3>2. ASSUME NEW i \in 1..(Chained + 1) PROVE bulk'.chain[i] = h[Cur + i]
      <4>1. CASE i = Chained + 1
        <5>1. bulk'.chain[i] = newBlock
          BY <1>2, <1>4, <2>2, <4>1 DEF Chained
        <5>2. Cur + i = K
          BY <1>2, <1>4, <1>5, <2>2, <4>1
        <5> QED BY <1>7, <5>1, <5>2
      <4>2. CASE i # Chained + 1
        <5>1. i \in (Back + 1)..Chained
          BY <1>2, <4>2
        <5>2. bulk'.chain[i] = bulk.chain[i]
          BY <1>2, <1>4, <2>2, <5>1, SMTT(20) DEF Chained
        <5>3. Cur + i \in Int /\ Cur + i # K
          BY <1>2, <1>4, <1>5, <2>2, <4>2
        <5> QED BY <1>3, <1>7, <5>1, <5>2, <5>3 DEF ChainOK
      <4> QED BY <4>1, <4>2
    <3> QED BY <1>4, <3>1, <3>2 DEF ChainOK
  <2> QED BY <2>1, <2>2
<1>21. LimitOK'
  <2>1. First(Stored + 2) <= headIndex + MaxSubqueueSize
    BY <1>1, <1>3 DEF LimitOK, Building
  <2>2. Stored' + 1 = Stored + 2
    BY <1>2, <1>4
  <2> QED BY <1>1, <2>1, <2>2 DEF LimitOK, Still, Building
<1>22. \E new, to : PlacesOK(h, new, to)'
  <2>1. at' = at /\ block' = block
    BY <1>1 DEF Still, locals
  <2>2. Back' = 0
    BY <1>4
  <2>3. InBlocks(h)'
    BY <1>1, <1>3, <1>4, <1>7, <1>14, <1>15, <2>1, <2>2 DEF InBlocks, PlacesOK
  <2>4. ASSUME NEW x \in Block, x # newBlock, NEW p, NEW n
        PROVE  Is(h, x, p, n)' <=> Is(home, x, p, n)
    <3>1. n \in LiveSet' /\ h[n] = x <=> n \in LiveSet /\ home[n] = x
      BY <1>7, <1>14, <1>15, <2>4
    <3>2. x = newBlock' /\ ppc' # "publish" <=> x = newBlock /\ ppc # "publish"
      BY <1>2, <1>4, <2>4
    <3>3. n \notin 1..Back /\ n \notin 1..Back'
      BY <1>2, <2>2
    <3> QED BY <1>1, <2>1, <3>1, <3>2, <3>3 DEF Is
  <2>5. ASSUME NEW b \in Block, b = newBlock PROVE Only(h, b, "home", K)'
    <3>1. Is(h, b, "home", K)'
      BY <1>7, <1>14, <2>5 DEF Is
    <3>2. ASSUME NEW p, NEW n, Is(h, b, p, n)'
          PROVE  p = "home" /\ (p \in Numbered => n = K)
      <4>1. Only(home, newBlock, place[newBlock], num[newBlock])
        BY <1>3, <1>4, PlacesGive
      <4>2. Is(home, newBlock, "hand", n)
        BY <1>1 DEF Is
      <4>3. \A q : Is(home, newBlock, q, n) => q = "hand"
        BY <4>1, <4>2 DEF Only
      <4>4. ~(p = "pool" /\ b \in pool') /\ ~(p = "free" /\ n \in Consumer /\ at'[n] = "free" /\ block'[n] = b)
        BY <1>1, <2>1, <2>5, <4>3 DEF Is
      <4>5. ~(b = newBlock' /\ ppc' # "publish")
        BY <1>2, <1>4, <2>5
      <4>6. n \notin 1..Back'
        BY <2>2
      <4>7. p = "home" /\ n \in LiveSet' /\ h[n] = b
        BY <3>2, <4>4, <4>5, <4>6 DEF Is
      <4>8. ~(n \in LiveSet /\ home[n] = newBlock)
        BY <4>3 DEF Is
      <4>9. n # K => n \in LiveSet /\ h[n] = home[n]
        BY <1>14, <1>15, <4>7
      <4> QED BY <2>5, <4>7, <4>8, <4>9
    <3> QED BY <3>1, <3>2 DEF Only
  <2>6. PICK b \in Block : b = newBlock
    BY <1>4
  <2>7. \A x \in Block : x # b => \A p, n : Is(h, x, p, n)' <=> Is(home, x, p, n)
    BY <2>4, <2>6
  <2>8. Only(h, b, "home", K)'
    BY <2>5, <2>6
  <2> QED BY <1>3, <2>3, <2>7, <2>8, PlaceMoves
<1>23. ASSUME NEW new, NEW to, PlacesOK(h, new, to)' PROVE MemoryInv(o, lo, hi, h, new, to)'
  BY <1>4, <1>10, <1>12, <1>16, <1>17, <1>18, <1>19, <1>20, <1>21, <1>23 DEF MemoryInv
<1>24. h[Stored + 1] = newBlock /\ \A k \in Int : k # Stored + 1 => h[k] = home[k]
  BY <1>5, <1>7
<1> QED BY <1>22, <1>23, <1>24

(* get_block_index_entry_for_index finds the entry of a block, however the *)
(* tail stands.                                                            *)
LEMMA EntryForFinds ==
  ASSUME NEW o, NEW lo, NEW hi, KeyPart(o, lo, hi), Top \in Int, lo < Top, NEW n \in Int
  PROVE  EntryFor(n) = EntryId(o, BlockNo(n))
<1>1. HeadersType(o) /\ WindowOK(o, lo, hi) /\ KeysOK(o, lo, hi)
  BY DEF KeyPart
<1>2. Cap \in Nat /\ Cap > 0 /\ Keys % Cap = 0 /\ o[Newest] \in Int /\ blockIndex = headers[Newest]
      /\ blockIndex.capacity = Cap
  BY <1>1, CapFacts
<1>3. blockIndex.tail = Ring(o[Newest], Cap, Top) /\ Top <= hi /\ hi <= lo + Cap /\ lo \in Int /\ hi \in Int
  BY <1>1, <1>2 DEF WindowOK
<1>4. entries[blockIndex.index[blockIndex.tail]].key = Key(Top)
  <2>1. KeyOf(o, Top) = Key(Top)
    BY <1>1, <1>2, <1>3 DEF KeysOK
  <2> QED BY <1>2, <1>3, <2>1 DEF KeyOf, EntryId
<1>5. BlockBase(Idx(n)) = Key(BlockNo(n)) /\ BlockNo(n) \in Int
  BY KeyFacts, BlockNoFacts
<1>6. (Ring(o[Newest], Cap, Top) + Offset(Key(BlockNo(n)), Key(Top))) % Cap
        = Ring(o[Newest], Cap, BlockNo(n))
  BY ONLY <1>2, <1>5, Top \in Int, RingOffset, ZenonT(30)
<1>7. EntryFor(n) = headers[Newest].index[
        (blockIndex.tail + Offset(BlockBase(Idx(n)), Key(Top))) % Cap]
  BY <1>2, <1>4 DEF EntryFor, Distance
<1> QED BY <1>3, <1>5, <1>6, <1>7 DEF EntryId

(* The entry of a block that is no longer live is cleared.                 *)
LEMMA ValuesDropped ==
  ASSUME NEW o, NEW lo, NEW hi, NEW home, KeyPart(o, lo, hi), ValuesOK(o, lo, hi, home),
         HeadersSame, NEW K \in LiveSet, LiveSet' = LiveSet \ {K},
         entries' = [entries EXCEPT ![EntryId(o, K)].value = Null]
  PROVE  ValuesOK(o, lo, hi, home)'
<1>1. HeadersType(o) /\ EntriesType /\ WindowOK(o, lo, hi) /\ IdsOK
  BY DEF KeyPart
<1>2. K \in Int /\ lo < K /\ K <= hi /\ hi <= lo + Cap /\ lo \in Int /\ hi \in Int /\ Cap \in Nat
      /\ Cap' = Cap
  BY <1>1, CapFacts DEF LiveSet, ValuesOK, WindowOK, HeadersSame, Cap
<1>3. EntryId(o, K) \in 1..Len(entries)
  BY <1>1, <1>2, EntryIdType
<1>4. \A d \in 1..Len(entries) :
        entries'[d].value = IF d = EntryId(o, K) THEN Null ELSE entries[d].value
  BY <1>1, <1>3, SetValue
<1>5. ASSUME NEW k \in Int, lo < k, k <= lo + Cap
      PROVE  ValueOf(o, k)' = IF k \in LiveSet' THEN home[k] ELSE Null
  <2>1. EntryId(o, k)' = EntryId(o, k) /\ EntryId(o, k) \in 1..Len(entries)
    BY <1>1, EntryIdSame, EntryIdType
  <2>2. ValueOf(o, k)' = IF EntryId(o, k) = EntryId(o, K) THEN Null ELSE ValueOf(o, k)
    BY <1>4, <2>1 DEF ValueOf
  <2>3. CASE k = K
    BY <2>2, <2>3
  <2>4. CASE k # K
    <3>1. EntryId(o, k) # EntryId(o, K)
      <4>1. K <= lo + Cap
        BY <1>2
      <4> QED BY <1>1, <1>2, <1>5, <2>4, <4>1, EntryIdOnce
    <3>2. ValueOf(o, k)' = ValueOf(o, k)
      BY <2>2, <3>1
    <3> QED BY <1>5, <2>4, <3>2 DEF ValuesOK
  <2> QED BY <2>3, <2>4
<1> QED BY <1>2, <1>5 DEF ValuesOK

LEMMA UndoEntryInv ==
  ASSUME NEW o, NEW lo, NEW hi, NEW home, NEW place, NEW num,
         MemoryInv(o, lo, hi, home, place, num), Claims, UndoEntry
  PROVE  \E new, to : MemoryInv(o, lo, hi, home, new, to)'
<1>1. /\ ppc = "undo" /\ ppc' = "undoTail" /\ idxEntry' = idxEntry /\ newBlock' = newBlock
      /\ headers' = headers /\ emptied' = emptied /\ pool' = pool /\ Still
      /\ bulk' = bulk /\ tailIndex' = tailIndex /\ tailBlock' = tailBlock
      /\ bulk.undone < Chained
  BY DEF UndoEntry, Pgoto, vars, counters, blocks, Still, Chained
<1>2. /\ Cur \in Int /\ Stored \in Int /\ Cur <= Stored /\ Back \in Nat /\ headIndex \in Nat
      /\ headIndex <= tailIndex /\ tailIndex \in Nat /\ Null \notin Block /\ Chained \in Nat
      /\ Newest \in Nat /\ Cap \in Nat /\ lo \in Int /\ hi \in Int /\ bulk.undone \in Nat
      /\ pool \subseteq Block /\ Top \in Int
  BY <1>1, InvFacts
<1>3. /\ ProducerOK /\ LimitOK /\ EntriesType /\ HeadersType(o) /\ ConsumersOK /\ RangesOK
      /\ WindowOK(o, lo, hi) /\ IdsOK /\ KeyPart(o, lo, hi)
      /\ ValuesOK(o, lo, hi, home) /\ WalksOK(o) /\ CarriesOK(home) /\ CountedOK(home)
      /\ PlacesOK(home, place, num) /\ ChainOK(home)
  BY DEF MemoryInv, KeyPart
<1>4. /\ ProducerOK' /\ Cur' = Cur /\ Chained' = Chained /\ Stored' = Stored
      /\ Back' = Back + 1 /\ Top' = Top
  <2>1. ProducerMove
    BY <1>2, Moves
  <2> QED BY <1>1, <1>3, <2>1, MoveKeeps
<1>5. Back = bulk.undone /\ Stored = Cur + Chained /\ Top = Stored - Back
  BY <1>1, <1>2 DEF Back, Stored, Top
<1>6. PICK K \in Int : K = Cur + Back + 1
  BY <1>2
<1>7. Cur < Top /\ K <= Stored /\ Cur < K /\ K = Cur + 1 + bulk.undone
  <2>1. Back < Chained
    BY <1>1, <1>5
  <2>2. K = Cur + 1 + bulk.undone
    BY ONLY <1>2, <1>5, <1>6
  <2>3. Back \in Nat /\ Chained \in Nat /\ Cur \in Int /\ Stored \in Int
    BY <1>2
  <2>4. Cur < Top /\ K <= Stored /\ Cur < K
    BY ONLY <1>5, <1>6, <2>1, <2>3
  <2> QED BY <2>2, <2>4
<1>8. entries' = [entries EXCEPT ![EntryId(o, K)].value = Null]
  <2>1. entries' = [entries EXCEPT ![EntryFor(First(K))].value = Null]
    BY <1>7 DEF UndoEntry, First, Cur
  <2>2. lo < Top
    BY <1>2, <1>3, <1>7 DEF WindowOK
  <2>3. First(K) \in Int /\ BlockNo(First(K)) = K
    <3>1. First(K) \in Int /\ First(K) <= First(K) /\ First(K) < First(K) + BLOCK_SIZE
      BY FirstType, Sizes
    <3> QED BY <3>1, BlockNoFacts
  <2>4. EntryFor(First(K)) = EntryId(o, K)
    BY <1>2, <1>3, <2>2, <2>3, EntryForFinds
  <2> QED BY <2>1, <2>4
<1>9. KeyPart(o, lo, hi)' /\ HeadersSame /\ KeysSame
  <2>1. \E e \in 1..Len(entries) : \E x \in Block \cup {Null} :
          entries' = [entries EXCEPT ![e].value = x]
    <3>1. EntryId(o, K) \in 1..Len(entries) /\ Null \in Block \cup {Null}
      BY <1>3, EntryIdType
    <3> QED BY <1>8, <3>1
  <2>2. ppc' # "storeKey" /\ ppc' \notin Placing
    BY <1>1 DEF Placing
  <2>3. /\ headers' = headers /\ idxEntry' = idxEntry /\ Top' = Top
        /\ Cur \in Int /\ Cur' \in Int /\ Cur <= Cur'
    BY <1>1, <1>2, <1>4
  <2>4. KeyPart(o, lo, hi)
    BY <1>3
  <2> QED BY ONLY <2>1, <2>2, <2>3, <2>4, KeyPartPlain
<1>10. Newest' = Newest
  BY <1>9 DEF HeadersSame
<1>11. /\ ConsumersOK' /\ RangesOK' /\ DoneSet' = DoneSet
       /\ \A k \in Int : Pending(k)' <=> Pending(k)
       /\ \A c \in Consumer : FirstBlock(c)' = FirstBlock(c)
  <2>1. Newest \in Int /\ Newest' \in Int /\ Newest <= Newest'
    BY <1>2, <1>10
  <2> QED BY <1>1, <1>3, <2>1, StillFrame
<1>12. LiveSet' = LiveSet \ {K} /\ K \in LiveSet
  <2>1. ASSUME NEW k \in Int PROVE Stocked(k)' <=> Stocked(k) /\ k # K
    BY <1>2, <1>4, <1>6 DEF Stocked
  <2>2. K \in LiveSet
    <3>1. Cur + Back < K /\ K <= Stored
      BY <1>2, <1>6, <1>7
    <3> QED BY <1>2, <1>3, <3>1, ChainLive DEF ProducerOK, Claims
  <2> QED BY <1>11, <2>1, <2>2 DEF LiveSet
<1>13. ValuesOK(o, lo, hi, home)'
  BY <1>3, <1>8, <1>9, <1>12, ValuesDropped
<1>14. WalksOK(o)'
  <2>1. \A c \in Consumer : \A k \in Int : Holds(c, k) => EntryId(o, k)' = EntryId(o, k)
    BY <1>3, <1>9, EntryIdSame
  <2>2. \A g \in 1..Newest : headers'[g].index = headers[g].index
    BY <1>9 DEF HeadersSame
  <2>3. \A e \in 1..Len(entries) : entries[e].key # INVALID_BLOCK_BASE
                                     => entries'[e].key # INVALID_BLOCK_BASE
    BY <1>9 DEF KeysSame
  <2> QED BY <1>1, <1>3, <2>1, <2>2, <2>3, WalksKept
<1>15. CarriesOK(home)'
  BY <1>1, <1>3, <1>11 DEF CarriesOK, Still, locals
<1>16. CountedOK(home)'
  <2>1. at' = at
    BY <1>1 DEF Still, locals
  <2>2. \A k \in LiveSet' : emptied'[home[k]] = Cardinality(Span(k) \cap DoneSet')
    BY <1>1, <1>3, <1>11, <1>12 DEF CountedOK
  <2>3. \A c \in Consumer : at'[c] \in {"clear", "free"} => Span(FirstBlock(c))' \subseteq DoneSet'
    <3> SUFFICES ASSUME NEW c \in Consumer, at[c] \in {"clear", "free"}
                 PROVE  Span(FirstBlock(c)') \subseteq DoneSet
      BY <1>11, <2>1 DEF Span
    <3> QED BY <1>3, <1>11 DEF CountedOK
  <2>4. \A c, d \in Consumer :
          c # d /\ at'[c] \in {"clear", "free"} /\ at'[d] \in {"clear", "free"}
            => FirstBlock(c)' # FirstBlock(d)'
    BY <1>3, <1>11, <2>1 DEF CountedOK
  <2> QED BY <1>1, <1>3, <2>2, <2>3, <2>4 DEF CountedOK
<1>17. ChainOK(home)'
  BY <1>1, <1>2, <1>3, <1>4 DEF ChainOK
<1>18. LimitOK'
  <2>1. ppc' \notin Building
    BY <1>1 DEF Building
  <2> QED BY <1>1, <1>3, <1>4, <2>1 DEF LimitOK, Still
<1>19. \E new, to : PlacesOK(home, new, to)'
  <2>1. at' = at /\ block' = block
    BY <1>1 DEF Still, locals
  <2>2. PICK b \in Block : b = home[K]
    BY <1>3, <1>12 DEF ValuesOK
  <2>3. bulk.chain[Back + 1] = b
    <3>1. Back + 1 \in (Back + 1)..Chained /\ Cur + (Back + 1) = K
      BY <1>1, <1>2, <1>5, <1>6
    <3>2. bulk.chain[Back + 1] = home[Cur + (Back + 1)]
      BY <1>3, <3>1 DEF ChainOK
    <3> QED BY <2>2, <3>1, <3>2
  <2>4. InBlocks(home)'
    <3>1. \A i \in 1..Back' : bulk'.chain[i] \in Block
      <4> SUFFICES ASSUME NEW i \in 1..(Back + 1) PROVE bulk.chain[i] \in Block
        BY <1>1, <1>4
      <4>1. i \in 1..Chained /\ bulk.chain \in Seq(Block)
        BY <1>1, <1>2, <1>5, InvFacts
      <4> QED BY <4>1 DEF Chained
    <3> QED BY <1>1, <1>3, <1>12, <2>1, <3>1 DEF InBlocks, PlacesOK, ValuesOK
  <2>5. ASSUME NEW x \in Block, x # b, NEW p, NEW n
        PROVE  Is(home, x, p, n)' <=> Is(home, x, p, n)
    <3>1. n \in LiveSet' /\ home[n] = x <=> n \in LiveSet /\ home[n] = x
      BY <1>12, <2>2, <2>5
    <3>2. n \in 1..Back' /\ bulk'.chain[n] = x <=> n \in 1..Back /\ bulk.chain[n] = x
      BY <1>1, <1>2, <1>4, <2>3, <2>5
    <3> QED BY <1>1, <2>1, <3>1, <3>2 DEF Is
  <2>6. ASSUME NEW m, m = Back + 1 PROVE Only(home, b, "undone", m)'
    <3>1. Is(home, b, "undone", m)'
      BY <1>1, <1>2, <1>4, <2>3, <2>6 DEF Is
    <3>2. ASSUME NEW p, NEW n, Is(home, b, p, n)'
          PROVE  p = "undone" /\ (p \in Numbered => n = m)
      <4>1. \A q, i : Is(home, b, q, i) => q = "home" /\ i = K
        <5>1. Only(home, b, place[b], num[b])
          BY <1>3, PlacesGive
        <5>2. Is(home, b, "home", K)
          BY <1>12, <2>2 DEF Is
        <5> QED BY <5>1, <5>2 DEF Only, Numbered
      <4>2. /\ ~(p = "pool" /\ b \in pool) /\ ~(b = newBlock /\ ppc # "publish")
            /\ ~(p = "free" /\ n \in Consumer /\ at[n] = "free" /\ block[n] = b)
        BY <4>1 DEF Is
      <4>3. ~(n \in LiveSet' /\ home[n] = b)
        BY <1>12, <4>1 DEF Is
      <4>4. ~(n \in 1..Back /\ bulk.chain[n] = b)
        BY <4>1 DEF Is
      <4>5. p = "undone" /\ n \in 1..(Back + 1) /\ bulk.chain[n] = b
        BY <1>1, <1>4, <2>1, <3>2, <4>2, <4>3 DEF Is
      <4> QED BY <1>2, <2>6, <4>4, <4>5
    <3> QED BY <3>1, <3>2 DEF Only
  <2>7. \A x \in Block : x # b => \A p, n : Is(home, x, p, n)' <=> Is(home, x, p, n)
    BY <2>5
  <2>8. PICK m : m = Back + 1
    OBVIOUS
  <2>9. Only(home, b, "undone", m)'
    BY <2>6, <2>8
  <2> QED BY <1>3, <2>4, <2>7, <2>9, PlaceMoves
<1>20. ASSUME NEW new, NEW to, PlacesOK(home, new, to)' PROVE MemoryInv(o, lo, hi, home, new, to)'
  BY <1>4, <1>9, <1>11, <1>13, <1>14, <1>15, <1>16, <1>17, <1>18, <1>20 DEF MemoryInv
<1> QED BY <1>19, <1>20

LEMMA UndoBlocksInv ==
  ASSUME NEW o, NEW lo, NEW hi, NEW home, NEW place, NEW num,
         MemoryInv(o, lo, hi, home, place, num), Claims, UndoBlocks
  PROVE  \E new : MemoryInv(o, lo, hi, home, new, num)'
<1>1. /\ ppc = "undo" /\ ppc' = "idle" /\ idxEntry' = idxEntry /\ newBlock' = newBlock
      /\ headers' = headers /\ entries' = entries /\ emptied' = emptied /\ Still
      /\ tailIndex' = tailIndex /\ pool' = pool \cup ToSet(bulk.chain)
  BY DEF UndoBlocks, Pgoto, vars, counters, Still
<1>2. /\ Cur \in Int /\ Stored \in Int /\ Cur <= Stored /\ Back \in Nat /\ headIndex \in Nat
      /\ Null \notin Block /\ Chained \in Nat /\ bulk.chain \in Seq(Block)
      /\ Newest \in Nat /\ pool \subseteq Block
  BY <1>1, InvFacts
<1>3. /\ ProducerOK /\ LimitOK /\ EntriesType /\ HeadersType(o) /\ ConsumersOK /\ RangesOK
      /\ ValuesOK(o, lo, hi, home) /\ WalksOK(o) /\ CarriesOK(home) /\ CountedOK(home)
      /\ PlacesOK(home, place, num) /\ ChainOK(home)
  BY DEF MemoryInv, KeyPart
<1>4. /\ ProducerOK' /\ Cur' = Cur /\ Stored' = Cur /\ Back' = 0 /\ Top' = Top
      /\ Back = Chained /\ Stored = Cur + Chained /\ bulk' = NoBulk
  BY <1>3, UndoBlocksNumbers
<1>5. KeyPart(o, lo, hi)' /\ HeadersSame /\ KeysSame
  <2>1. ppc' # "storeKey" /\ ppc' \notin Placing
    BY <1>1 DEF Placing
  <2>2. /\ headers' = headers /\ entries' = entries /\ idxEntry' = idxEntry /\ Top' = Top
        /\ Cur \in Int /\ Cur' \in Int /\ Cur <= Cur' /\ KeyPart(o, lo, hi)
    BY <1>1, <1>2, <1>4 DEF MemoryInv
  <2> QED BY ONLY <2>1, <2>2, KeyPartPlain
<1>6. ValuesSame
  BY <1>1 DEF ValuesSame
<1>7. \A k \in Int : Stocked(k)' <=> Stocked(k)
  BY <1>2, <1>4 DEF Stocked
<1>8. /\ ConsumersOK' /\ RangesOK' /\ DoneSet' = DoneSet /\ LiveSet' = LiveSet
      /\ \A c \in Consumer : FirstBlock(c)' = FirstBlock(c)
  BY <1>1, <1>5, <1>7, Steady DEF HeadersSame
<1>9. ValuesOK(o, lo, hi, home)'
  BY <1>3, <1>5, <1>6, <1>8, ValuesKept
<1>10. WalksOK(o)'
  <2>1. \A c \in Consumer : \A k \in Int : Holds(c, k) => EntryId(o, k)' = EntryId(o, k)
    BY <1>3, <1>5, EntryIdSame
  <2>2. \A g \in 1..Newest : headers'[g].index = headers[g].index
    BY <1>5 DEF HeadersSame
  <2>3. \A e \in 1..Len(entries) : entries[e].key # INVALID_BLOCK_BASE
                                     => entries'[e].key # INVALID_BLOCK_BASE
    BY <1>5 DEF KeysSame
  <2> QED BY <1>1, <1>3, <2>1, <2>2, <2>3, WalksKept
<1>11. CarriesOK(home)'
  BY <1>1, <1>3, <1>8 DEF CarriesOK, Still, locals
<1>12. CountedOK(home)'
  BY <1>1, <1>3, <1>8, CountedKept
<1>13. ChainOK(home)'
  <2>1. Chained' = 0
    BY <1>4 DEF Chained, NoBulk
  <2> QED BY <1>4, <2>1 DEF ChainOK
<1>14. LimitOK'
  <2>1. First(Cur + 1) <= First(Stored + 1) /\ First(Cur + 1) \in Int /\ First(Stored + 1) \in Int
    <3>1. Cur + 1 \in Int /\ Stored + 1 \in Int
      BY <1>2
    <3>2. First(Cur + 1) \in Int /\ First(Stored + 1) \in Int
      BY <3>1, FirstType
    <3>3. CASE Cur = Stored
      BY <3>2, <3>3
    <3>4. CASE Cur # Stored
      <4>1. Cur + 1 < Stored + 1
        BY <1>2, <3>4
      <4>2. First(Cur + 1) + BLOCK_SIZE <= First(Stored + 1)
        BY <3>1, <4>1, FirstOrder
      <4> QED BY <3>2, <4>2, Sizes
    <3> QED BY <3>2, <3>3, <3>4
  <2>2. First(Stored + 1) <= headIndex + MaxSubqueueSize
    BY <1>3 DEF LimitOK
  <2>3. First(Cur + 1) <= headIndex + MaxSubqueueSize
    BY <1>2, <2>1, <2>2, QueueAssumption
  <2>4. ppc' \notin Building
    BY <1>1 DEF Building
  <2> QED BY <1>1, <1>4, <2>3, <2>4 DEF LimitOK, Still
<1>15. PICK new : new = [x \in Block |-> IF place[x] = "undone" THEN "pool" ELSE place[x]]
  OBVIOUS
<1>16. \A x \in Block : new[x] = IF place[x] = "undone" THEN "pool" ELSE place[x]
  BY <1>15
<1>17. \A x \in Block : place[x] = "undone" <=> x \in ToSet(bulk.chain)
  <2>1. ToSet(bulk.chain) = {bulk.chain[i] : i \in 1..Chained} /\ ToSet(bulk.chain) \subseteq Block
    BY <1>2 DEF ToSet, Chained
  <2> QED BY <1>3, <1>4, <2>1 DEF PlacesOK
<1>18. PlacesOK(home, new, num)'
  <2>1. at' = at /\ block' = block
    BY <1>1 DEF Still, locals
  <2>2. pool' \subseteq Block /\ \A b \in Block : b \in pool' <=> new[b] = "pool"
    <3>1. ToSet(bulk.chain) \subseteq Block
      BY <1>2 DEF ToSet
    <3>2. \A b \in Block : b \in pool <=> place[b] = "pool"
      BY <1>3 DEF PlacesOK
    <3> QED BY <1>1, <1>2, <1>16, <1>17, <3>1, <3>2
  <2>3. \A b \in Block : new[b] = "hand" <=> b = newBlock' /\ ppc' # "publish"
    BY <1>1, <1>3, <1>16 DEF PlacesOK
  <2>4. \A k \in LiveSet' : new[home[k]] = "home" /\ num[home[k]] = k
    BY <1>3, <1>8, <1>16 DEF PlacesOK, ValuesOK
  <2>5. \A b \in Block : new[b] = "home" => num[b] \in LiveSet' /\ home[num[b]] = b
    BY <1>3, <1>8, <1>16 DEF PlacesOK
  <2>6. /\ \A i \in 1..Back' : new[bulk'.chain[i]] = "undone" /\ num[bulk'.chain[i]] = i
        /\ \A b \in Block : new[b] = "undone" => num[b] \in 1..Back' /\ bulk'.chain[num[b]] = b
    BY <1>4, <1>16
  <2>7. /\ \A c \in Consumer : at'[c] = "free" => /\ block'[c] \in Block
                                                  /\ new[block'[c]] = "free" /\ num[block'[c]] = c
        /\ \A b \in Block : new[b] = "free" => /\ num[b] \in Consumer
                                               /\ at'[num[b]] = "free" /\ block'[num[b]] = b
    BY <1>3, <1>16, <2>1 DEF PlacesOK
  <2>8. \A b \in Block : new[b] \in {"pool", "hand", "home", "undone", "free"}
    BY <1>3, <1>16 DEF PlacesOK
  <2> QED BY <2>2, <2>3, <2>4, <2>5, <2>6, <2>7, <2>8 DEF PlacesOK
<1>19. MemoryInv(o, lo, hi, home, new, num)'
  BY <1>4, <1>5, <1>8, <1>9, <1>10, <1>11, <1>12, <1>13, <1>14, <1>18 DEF MemoryInv
<1> QED BY <1>19

-----------------------------------------------------------------------------
(* The steps of a consumer touch no other consumer ...                     *)
OnlyAt(c) ==
  \A d \in Consumer : d # c =>
    /\ at'[d] = at[d] /\ index'[d] = index[d] /\ end'[d] = end[d] /\ hdr'[d] = hdr[d]
    /\ ipos'[d] = ipos[d] /\ block'[d] = block[d]

LEMMA NextBlockShape ==
  ASSUME ConsumersOK, NEW c \in Consumer, NextBlock(c)
  PROVE  /\ OnlyAt(c) /\ DOMAIN item' = Consumer /\ thrown' \in [Consumer -> BOOLEAN]
         /\ EndIndex(c) = end[c] =>
              /\ at' = [at EXCEPT ![c] = "none"] /\ index' = [index EXCEPT ![c] = 0]
              /\ end' = [end EXCEPT ![c] = 0] /\ hdr' = [hdr EXCEPT ![c] = 1]
              /\ ipos' = [ipos EXCEPT ![c] = 0] /\ block' = [block EXCEPT ![c] = Null]
         /\ EndIndex(c) # end[c] =>
              /\ at' = [at EXCEPT ![c] = "value"] /\ index' = [index EXCEPT ![c] = EndIndex(c)]
              /\ ipos' = [ipos EXCEPT ![c] = (ipos[c] + 1) % Local(c).capacity]
              /\ block' = [block EXCEPT ![c] = Null] /\ end' = end /\ hdr' = hdr
<1>1. CASE EndIndex(c) = end[c]
  <2>1. /\ at' = [at EXCEPT ![c] = "none"] /\ index' = [index EXCEPT ![c] = 0]
        /\ end' = [end EXCEPT ![c] = 0] /\ hdr' = [hdr EXCEPT ![c] = 1]
        /\ ipos' = [ipos EXCEPT ![c] = 0] /\ block' = [block EXCEPT ![c] = Null]
        /\ item' = [item EXCEPT ![c] = <<>>] /\ thrown' = [thrown EXCEPT ![c] = FALSE]
    BY <1>1 DEF NextBlock, Cgoto
  <2>2. OnlyAt(c) /\ DOMAIN item' = Consumer /\ thrown' \in [Consumer -> BOOLEAN]
    BY <2>1 DEF OnlyAt, ConsumersOK
  <2> QED BY <1>1, <2>1, <2>2
<1>2. CASE EndIndex(c) # end[c]
  <2>1. /\ at' = [at EXCEPT ![c] = "value"] /\ index' = [index EXCEPT ![c] = EndIndex(c)]
        /\ ipos' = [ipos EXCEPT ![c] = (ipos[c] + 1) % Local(c).capacity]
        /\ block' = [block EXCEPT ![c] = Null] /\ end' = end /\ hdr' = hdr
        /\ item' = item /\ thrown' = thrown
    BY <1>2 DEF NextBlock, Cgoto
  <2>2. OnlyAt(c) /\ DOMAIN item' = Consumer /\ thrown' \in [Consumer -> BOOLEAN]
    BY <2>1 DEF OnlyAt, ConsumersOK
  <2> QED BY <1>2, <2>1, <2>2
<1> QED BY <1>1, <1>2

LEMMA ConsumerAlone ==
  ASSUME ConsumersOK, NEW c \in Consumer, ConsumerStep(c)
  PROVE  OnlyAt(c) /\ DOMAIN item' = Consumer /\ thrown' \in [Consumer -> BOOLEAN]
<1>1. CASE ClaimStep(c)
  BY <1>1 DEF ClaimStep, memory, locals, OnlyAt, ConsumersOK
<1>2. CASE TakeIndex(c) \/ LoadHeader(c) \/ LoadTail(c) \/ LoadKey(c) \/ LoadValue(c)
  BY <1>2 DEF TakeIndex, LoadHeader, LoadTail, LoadKey, LoadValue, Cgoto, OnlyAt, ConsumersOK
<1>3. CASE Move(c)
  <2>1. PICK k \in 0..Here(c) :
          /\ \E s : item' = [item EXCEPT ![c] = s]
          /\ thrown' = [thrown EXCEPT ![c] = @ \/ k < Here(c)]
    BY <1>3 DEF Move
  <2>2. DOMAIN item' = Consumer
    BY <2>1 DEF ConsumersOK
  <2>3. thrown' \in [Consumer -> BOOLEAN]
    <3>1. (thrown[c] \/ k < Here(c)) \in BOOLEAN
      OBVIOUS
    <3> QED BY <2>1, <3>1 DEF ConsumersOK
  <2>4. at' = [at EXCEPT ![c] = "setEmpty"] /\ UNCHANGED <<index, end, hdr, ipos, block>>
    BY <1>3 DEF Move, Cgoto
  <2> QED BY <2>2, <2>3, <2>4 DEF OnlyAt, ConsumersOK
<1>4. CASE SetEmpty(c)
  <2>1. \/ NextBlock(c)
        \/ Cgoto(c, "clear") /\ UNCHANGED <<index, end, hdr, ipos, block, item, thrown>>
    <3>1. CASE emptied[block[c]] + Here(c) = BLOCK_SIZE
      BY <1>4, <3>1 DEF SetEmpty
    <3>2. CASE emptied[block[c]] + Here(c) # BLOCK_SIZE
      BY <1>4, <3>2 DEF SetEmpty
    <3> QED BY <3>1, <3>2
  <2>2. CASE Cgoto(c, "clear") /\ UNCHANGED <<index, end, hdr, ipos, block, item, thrown>>
    BY <2>2 DEF Cgoto, OnlyAt, ConsumersOK
  <2> QED BY <2>1, <2>2, NextBlockShape
<1>5. CASE ClearEntry(c)
  BY <1>5 DEF ClearEntry, Cgoto, OnlyAt, ConsumersOK
<1>6. CASE AddToFreeList(c)
  BY <1>6, NextBlockShape DEF AddToFreeList
<1> QED BY <1>1, <1>2, <1>3, <1>4, <1>5, <1>6 DEF ConsumerStep

LEMMA OthersKept ==
  ASSUME NEW c, OnlyAt(c), NEW d \in Consumer, d # c
  PROVE  /\ FirstBlock(d)' = FirstBlock(d) /\ EndIndex(d)' = EndIndex(d)
         /\ \A k \in Int : Holds(d, k)' <=> Holds(d, k)
         /\ \A n \in Nat : Uncounted(d, n)' <=> Uncounted(d, n)
<1>1. at'[d] = at[d] /\ index'[d] = index[d] /\ end'[d] = end[d]
  BY DEF OnlyAt
<1>2. FirstBlock(d)' = FirstBlock(d) /\ EndIndex(d)' = EndIndex(d) /\ LastBlock(d)' = LastBlock(d)
  BY <1>1 DEF FirstBlock, EndIndex, LastBlock
<1>3. ASSUME NEW k \in Int PROVE Holds(d, k)' <=> Holds(d, k)
  BY <1>1, <1>2 DEF Holds
<1>4. ASSUME NEW n \in Nat PROVE Uncounted(d, n)' <=> Uncounted(d, n)
  BY <1>1, <1>2 DEF Uncounted
<1> QED BY <1>2, <1>3, <1>4

(* ... and leave the producer, the index and its tail alone.               *)
LEMMA ConsumerFrame ==
  ASSUME NEW o, NEW lo, NEW hi, NEW home, NEW place, NEW num,
         MemoryInv(o, lo, hi, home, place, num), Claims, Claims', NEW c \in Consumer, ConsumerStep(c)
  PROVE  /\ ppc' = ppc /\ bulk' = bulk /\ newBlock' = newBlock /\ tailBlock' = tailBlock
         /\ idxEntry' = idxEntry /\ headers' = headers /\ tailIndex' = tailIndex
         /\ ProducerOK' /\ Cur' = Cur /\ Chained' = Chained /\ Stored' = Stored
         /\ Back' = Back /\ Top' = Top /\ LimitOK' /\ Newest' = Newest
         /\ \A k \in Int : Stocked(k)' <=> Stocked(k)
<1>1. /\ ppc' = ppc /\ bulk' = bulk /\ newBlock' = newBlock /\ tailBlock' = tailBlock
      /\ idxEntry' = idxEntry /\ headers' = headers /\ tailIndex' = tailIndex
  BY ConsumerNumbers DEF producer
<1>2. /\ Cur' = Cur /\ Chained' = Chained /\ Stored' = Stored /\ Back' = Back /\ Top' = Top
      /\ Goal' = Goal
  BY <1>1 DEF Cur, Chained, Stored, Back, Top, Goal
<1>3. ProducerOK'
  <2>1. ProducerType /\ BulkOK /\ NewBlockOK
    BY DEF MemoryInv, ProducerOK
  <2>2. ProducerType'
    BY <1>1, <2>1 DEF ProducerType
  <2>3. BulkOK'
    BY <1>1, <1>2, <2>1 DEF BulkOK
  <2>4. NewBlockOK'
    BY <1>1, <2>1 DEF NewBlockOK
  <2> QED BY <2>2, <2>3, <2>4 DEF ProducerOK
<1>4. LimitOK'
  <2>1. headIndex \in Nat /\ headIndex' \in Nat /\ Stored \in Int
    BY InvFacts DEF Claims, TypeOK
  <2>2. headIndex <= headIndex'
    <3>1. CASE TakeIndex(c)
      <4>1. headIndex' = headIndex + count[c] /\ count[c] \in Nat
        BY <3>1 DEF TakeIndex, TakeAll, TakeRest, Grant, Claims, TypeOK
      <4> QED BY <2>1, <4>1
    <3>2. CASE ClaimStep(c)
      BY <2>1, <3>2 DEF ClaimStep, Draw, GiveBack
    <3>3. CASE ~TakeIndex(c) /\ ~ClaimStep(c)
      BY <2>1, <3>3 DEF ConsumerStep, LoadHeader, LoadTail, LoadKey, LoadValue, Move, SetEmpty,
                        ClearEntry, AddToFreeList, vars, counters
    <3> QED BY <3>1, <3>2, <3>3
  <2>3. LimitOK
    BY DEF MemoryInv
  <2> QED BY <1>1, <1>2, <2>1, <2>2, <2>3, LimitKept
<1>5. Newest' = Newest
  BY <1>1 DEF Newest
<1> QED BY <1>1, <1>2, <1>3, <1>4, <1>5, StockedKept

(* What WalksOK and CarriesOK say of one consumer.                         *)
WalkAt(o, c) ==
  /\ at[c] \notin {"none", "header"} =>
       \A k \in Int : Holds(c, k) => Local(c).index[LocalRing(o, c, k)] = EntryId(o, k)
  /\ at[c] = "key" => /\ ipos[c] \in 0..(Capacity[hdr[c]] - 1)
                      /\ entries[Entry(c)].key # INVALID_BLOCK_BASE
  /\ at[c] \in {"value", "move", "setEmpty", "clear", "free"} =>
       ipos[c] = LocalRing(o, c, FirstBlock(c))
CarryAt(home, c) == at[c] \in {"move", "setEmpty", "clear"} => block[c] = home[FirstBlock(c)]

LEMMA OtherWalks ==
  ASSUME NEW o, NEW home, HeadersType(o), EntriesType, ConsumersOK, WalksOK(o), CarriesOK(home),
         NEW c, OnlyAt(c), NEW d \in Consumer, d # c, headers' = headers, KeysSame
  PROVE  WalkAt(o, d)' /\ CarryAt(home, d)'
<1>1. /\ at'[d] = at[d] /\ index'[d] = index[d] /\ end'[d] = end[d] /\ hdr'[d] = hdr[d]
      /\ ipos'[d] = ipos[d] /\ block'[d] = block[d]
  BY DEF OnlyAt
<1>2. FirstBlock(d)' = FirstBlock(d) /\ \A k \in Int : Holds(d, k)' <=> Holds(d, k)
  BY OthersKept
<1>3. hdr[d] \in 1..Newest
  BY CapFacts DEF ConsumersOK
<1>4. /\ Local(d)' = Local(d) /\ \A k \in Int : LocalRing(o, d, k)' = LocalRing(o, d, k)
      /\ \A k \in Int : EntryId(o, k)' = EntryId(o, k) /\ Entry(d)' = Entry(d)
  BY <1>1 DEF Local, LocalRing, EntryId, Entry, Newest, Cap
<1>5. FirstBlock(d) \in Int
  BY BlockNoFacts DEF FirstBlock, ConsumersOK
<1>6. at'[d] = "key" => /\ ipos'[d] \in 0..(Capacity[hdr'[d]] - 1)
                        /\ entries'[Entry(d)'].key # INVALID_BLOCK_BASE
  <2> SUFFICES ASSUME at[d] = "key"
               PROVE  /\ ipos[d] \in 0..(Capacity[hdr[d]] - 1)
                      /\ entries'[Entry(d)].key # INVALID_BLOCK_BASE
    BY <1>1, <1>4
  <2>1. ipos[d] \in 0..(Capacity[hdr[d]] - 1) /\ entries[Entry(d)].key # INVALID_BLOCK_BASE
    BY DEF WalksOK
  <2>2. Entry(d) \in 1..Len(entries)
    <3>1. headers[hdr[d]].index \in [0..(Capacity[hdr[d]] - 1) -> 1..Len(entries)]
      BY <1>3 DEF HeadersType
    <3> QED BY <2>1, <3>1 DEF Entry, Local
  <2> QED BY <2>1, <2>2 DEF KeysSame
<1>7. at'[d] \notin {"none", "header"} =>
        \A k \in Int : Holds(d, k)' => Local(d)'.index[LocalRing(o, d, k)'] = EntryId(o, k)'
  <2> SUFFICES ASSUME at[d] \notin {"none", "header"}, NEW k \in Int, Holds(d, k)
               PROVE  Local(d).index[LocalRing(o, d, k)] = EntryId(o, k)
    BY <1>1, <1>2, <1>4
  <2> QED BY DEF WalksOK
<1>8. at'[d] \in {"value", "move", "setEmpty", "clear", "free"} =>
        ipos'[d] = LocalRing(o, d, FirstBlock(d))'
  <2>1. LocalRing(o, d, FirstBlock(d))' = LocalRing(o, d, FirstBlock(d))
    BY <1>1, <1>2 DEF LocalRing
  <2> QED BY <1>1, <2>1 DEF WalksOK
<1>9. CarryAt(home, d)'
  <2>1. at[d] \in {"move", "setEmpty", "clear"} => block[d] = home[FirstBlock(d)]
    BY DEF CarriesOK
  <2> QED BY <1>1, <1>2, <2>1 DEF CarryAt
<1> QED BY <1>6, <1>7, <1>8, <1>9 DEF WalkAt

(* So it is enough to look at the consumer and the shared state.           *)
LEMMA ConsumerParts ==
  ASSUME NEW o, NEW lo, NEW hi, NEW home, NEW place, NEW num, NEW new, NEW to,
         MemoryInv(o, lo, hi, home, place, num), Claims, Claims', NEW c \in Consumer, ConsumerStep(c),
         \/ entries' = entries
         \/ \E e \in 1..Len(entries) : \E x \in Block \cup {Null} :
              entries' = [entries EXCEPT ![e].value = x],
         ConsumersOK', RangesOK', ValuesOK(o, lo, hi, home)', WalkAt(o, c)', CarryAt(home, c)',
         CountedOK(home)', PlacesOK(home, new, to)'
  PROVE  MemoryInv(o, lo, hi, home, new, to)'
<1>1. /\ ProducerOK' /\ LimitOK' /\ Top' = Top /\ Cur' = Cur /\ Stored' = Stored
      /\ headers' = headers /\ idxEntry' = idxEntry /\ ppc' = ppc /\ bulk' = bulk
      /\ Back' = Back /\ Chained' = Chained
  BY ConsumerFrame
<1>2. KeyPart(o, lo, hi)' /\ HeadersSame /\ KeysSame
  <2>1. KeyPart(o, lo, hi) /\ Cur \in Int /\ Cur' \in Int /\ Cur <= Cur' /\ Stored \in Int
    BY <1>1, InvFacts DEF MemoryInv
  <2>2. ppc' = "storeKey" => ppc = "storeKey"
    BY <1>1
  <2>3. ppc' \in Placing => ppc \in Placing /\ Stored' = Stored /\ Stored \in Int
    BY <1>1, <2>1
  <2>4. \/ entries' = entries
        \/ \E e \in 1..Len(entries) : \E x \in Block \cup {Null} :
              entries' = [entries EXCEPT ![e].value = x]
    OBVIOUS
  <2> QED BY ONLY <1>1, <2>1, <2>2, <2>3, <2>4, KeyPartPlain
<1>3. ASSUME NEW d \in Consumer PROVE WalkAt(o, d)' /\ CarryAt(home, d)'
  <2>1. CASE d = c
    BY <2>1
  <2>2. CASE d # c
    BY <1>1, <1>2, <2>2, ConsumerAlone, OtherWalks DEF MemoryInv, KeyPart
  <2> QED BY <2>1, <2>2
<1>4. WalksOK(o)'
  BY <1>3 DEF WalksOK, WalkAt
<1>5. CarriesOK(home)'
  BY <1>3 DEF CarriesOK, CarryAt
<1>6. ChainOK(home)'
  BY <1>1 DEF ChainOK, MemoryInv
<1> QED BY <1>1, <1>2, <1>4, <1>5, <1>6 DEF MemoryInv

(* The consumer's own numbers, while it walks in one block.                *)
Walking(c) == LoadHeader(c) \/ LoadTail(c) \/ LoadKey(c) \/ LoadValue(c) \/ Move(c)

LEMMA WalkingShape ==
  ASSUME ConsumersOK, NEW c \in Consumer, Walking(c)
  PROVE  /\ at[c] \in {"header", "tail", "key", "value", "move"}
         /\ at' \in [Consumer -> Labels]
         /\ at'[c] \in {"tail", "key", "value", "move", "setEmpty"}
         /\ headIndex' = headIndex /\ index' = index /\ end' = end
         /\ entries' = entries /\ emptied' = emptied /\ pool' = pool /\ headers' = headers
<1>1. at[c] \in {"header", "tail", "key", "value", "move"}
  BY DEF Walking, LoadHeader, LoadTail, LoadKey, LoadValue, Move
<1>2. PICK l \in {"tail", "key", "value", "move", "setEmpty"} : at' = [at EXCEPT ![c] = l]
  BY DEF Walking, LoadHeader, LoadTail, LoadKey, LoadValue, Move, Cgoto
<1>3. at' \in [Consumer -> Labels] /\ at'[c] \in {"tail", "key", "value", "move", "setEmpty"}
  BY <1>2 DEF ConsumersOK, Labels
<1>4. headIndex' = headIndex /\ index' = index /\ end' = end /\ entries' = entries
      /\ emptied' = emptied /\ pool' = pool /\ headers' = headers
  BY DEF Walking, LoadHeader, LoadTail, LoadKey, LoadValue, Move, vars, counters, blocks
<1> QED BY <1>1, <1>3, <1>4

LEMMA WalkInv ==
  ASSUME NEW o, NEW lo, NEW hi, NEW home, NEW place, NEW num,
         MemoryInv(o, lo, hi, home, place, num), Claims, Claims', NEW c \in Consumer,
         Walking(c), hdr' \in [Consumer -> Nat], 1 <= hdr'[c], hdr'[c] <= Newest,
         ipos' \in [Consumer -> Nat], block' \in [Consumer -> Block \cup {Null}],
         WalkAt(o, c)', CarryAt(home, c)'
  PROVE  MemoryInv(o, lo, hi, home, place, num)'
<1>1. /\ HeadersType(o) /\ EntriesType /\ ConsumersOK /\ RangesOK
      /\ ValuesOK(o, lo, hi, home) /\ CountedOK(home) /\ PlacesOK(home, place, num)
  BY DEF MemoryInv, KeyPart
<1>2. ConsumerStep(c)
  BY DEF Walking, ConsumerStep
<1>3. /\ at[c] \in {"header", "tail", "key", "value", "move"}
      /\ at' \in [Consumer -> Labels]
      /\ at'[c] \in {"tail", "key", "value", "move", "setEmpty"}
      /\ headIndex' = headIndex /\ index' = index /\ end' = end
      /\ entries' = entries /\ emptied' = emptied /\ pool' = pool /\ headers' = headers
  BY <1>1, WalkingShape
<1>4. /\ OnlyAt(c) /\ DOMAIN item' = Consumer /\ thrown' \in [Consumer -> BOOLEAN]
  BY <1>1, <1>2, ConsumerAlone
<1>5. /\ Newest' = Newest /\ bulk' = bulk /\ ppc' = ppc /\ newBlock' = newBlock /\ Back' = Back
      /\ \A k \in Int : Stocked(k)' <=> Stocked(k)
  BY <1>2, ConsumerFrame
<1>6. ConsumersOK'
  <2>1. \A d \in Consumer : 1 <= hdr'[d] /\ hdr'[d] <= Newest'
    <3> SUFFICES ASSUME NEW d \in Consumer PROVE 1 <= hdr'[d] /\ hdr'[d] <= Newest
      BY <1>5
    <3>1. d # c => hdr'[d] = hdr[d]
      BY <1>4 DEF OnlyAt
    <3> QED BY <1>1, <3>1 DEF ConsumersOK
  <2> QED BY <1>1, <1>3, <1>4, <2>1 DEF ConsumersOK
<1>7. \A d \in Consumer : /\ at'[d] = "none" <=> at[d] = "none"
                          /\ at'[d] = "free" <=> at[d] = "free"
                          /\ at'[d] = "clear" <=> at[d] = "clear"
  <2> SUFFICES ASSUME NEW d \in Consumer
               PROVE  /\ at'[d] = "none" <=> at[d] = "none"
                      /\ at'[d] = "free" <=> at[d] = "free"
                      /\ at'[d] = "clear" <=> at[d] = "clear"
    OBVIOUS
  <2>1. d # c => at'[d] = at[d]
    BY <1>4 DEF OnlyAt
  <2> QED BY <1>3, <2>1
<1>8. RangesOK'
  BY <1>1, <1>3, <1>7 DEF RangesOK
<1>9. \A d \in Consumer : /\ FirstBlock(d)' = FirstBlock(d)
                          /\ \A k \in Int : Holds(d, k)' <=> Holds(d, k)
                          /\ \A n \in Nat : Uncounted(d, n)' <=> Uncounted(d, n)
  <2> SUFFICES ASSUME NEW d \in Consumer
               PROVE  /\ FirstBlock(d)' = FirstBlock(d)
                      /\ \A k \in Int : Holds(d, k)' <=> Holds(d, k)
                      /\ \A n \in Nat : Uncounted(d, n)' <=> Uncounted(d, n)
    OBVIOUS
  <2>1. FirstBlock(d)' = FirstBlock(d) /\ LastBlock(d)' = LastBlock(d) /\ EndIndex(d)' = EndIndex(d)
    BY <1>3 DEF FirstBlock, LastBlock, EndIndex
  <2>2. ASSUME NEW k \in Int PROVE Holds(d, k)' <=> Holds(d, k)
    BY <1>3, <1>7, <2>1 DEF Holds
  <2>3. ASSUME NEW n \in Nat PROVE Uncounted(d, n)' <=> Uncounted(d, n)
    BY <1>3, <1>7, <2>1 DEF Uncounted
  <2> QED BY <2>1, <2>2, <2>3
<1>10. LiveSet' = LiveSet /\ DoneSet' = DoneSet
  <2>1. \A k \in Int : Pending(k)' <=> Pending(k)
    BY <1>3, <1>9 DEF Pending
  <2>2. DoneSet' = DoneSet
    BY <1>3, <1>9 DEF DoneSet
  <2> QED BY <1>5, <2>1, <2>2, LiveKept
<1>11. ValuesOK(o, lo, hi, home)'
  <2>1. HeadersSame /\ ValuesSame
    BY <1>3, <1>5 DEF HeadersSame, ValuesSame
  <2> QED BY <1>1, <1>10, <2>1, ValuesKept
<1>12. CountedOK(home)'
  <2>1. \A k \in LiveSet' : emptied'[home[k]] = Cardinality(Span(k) \cap DoneSet')
    BY <1>1, <1>3, <1>10 DEF CountedOK
  <2>2. \A d \in Consumer : at'[d] \in {"clear", "free"} => Span(FirstBlock(d))' \subseteq DoneSet'
    <3> SUFFICES ASSUME NEW d \in Consumer, at[d] \in {"clear", "free"}
                 PROVE  Span(FirstBlock(d)') \subseteq DoneSet
      BY <1>7, <1>10 DEF Span
    <3> QED BY <1>1, <1>9 DEF CountedOK
  <2>3. \A d, e \in Consumer :
          d # e /\ at'[d] \in {"clear", "free"} /\ at'[e] \in {"clear", "free"}
            => FirstBlock(d)' # FirstBlock(e)'
    BY <1>1, <1>7, <1>9 DEF CountedOK
  <2> QED BY <1>1, <1>3, <1>5, <2>1, <2>2, <2>3 DEF CountedOK
<1>13. PlacesOK(home, place, num)'
  <2>1. \A d \in Consumer : at[d] = "free" => block'[d] = block[d]
    BY <1>3, <1>4 DEF OnlyAt
  <2>2. /\ \A d \in Consumer : at'[d] = "free" => /\ block'[d] \in Block
                                                  /\ place[block'[d]] = "free" /\ num[block'[d]] = d
        /\ \A b \in Block : place[b] = "free" => /\ num[b] \in Consumer
                                                 /\ at'[num[b]] = "free" /\ block'[num[b]] = b
    BY <1>1, <1>7, <2>1 DEF PlacesOK
  <2> QED BY <1>1, <1>3, <1>5, <1>10, <2>2 DEF PlacesOK
<1> QED BY <1>2, <1>3, <1>6, <1>8, <1>11, <1>12, <1>13, ConsumerParts

(* A consumer that walks holds the block it is at.                         *)
LEMMA AtBlock ==
  ASSUME NEW o, NEW lo, NEW hi, NEW home, NEW place, NEW num,
         MemoryInv(o, lo, hi, home, place, num), Claims, NEW c \in Consumer,
         at[c] \notin {"none", "free"}
  PROVE  /\ index[c] \in Nat /\ end[c] \in Nat /\ index[c] < end[c] /\ end[c] <= headIndex
         /\ FirstBlock(c) \in Nat /\ Holds(c, FirstBlock(c)) /\ FirstBlock(c) \in LiveSet
         /\ FirstBlock(c) <= Cur /\ home[FirstBlock(c)] \in Block
         /\ lo < FirstBlock(c) /\ FirstBlock(c) <= hi /\ hdr[c] \in 1..Newest
         /\ Local(c) = headers[hdr[c]] /\ Local(c).capacity = Capacity[hdr[c]]
         /\ Capacity[hdr[c]] \in Nat /\ Capacity[hdr[c]] > 0 /\ Keys % Capacity[hdr[c]] = 0
         /\ o[hdr[c]] \in Int
<1>1. /\ ProducerType /\ BulkOK /\ HeadersType(o) /\ ConsumersOK /\ RangesOK
      /\ ValuesOK(o, lo, hi, home) /\ HeadWithinTail /\ headIndex \in Nat
  BY DEF MemoryInv, KeyPart, ProducerOK, Claims, TypeOK
<1>2. index[c] \in Nat /\ end[c] \in Nat /\ index[c] < end[c] /\ end[c] <= headIndex
  BY <1>1 DEF ConsumersOK, RangesOK
<1>3. FirstBlock(c) \in Nat /\ FirstBlock(c) <= LastBlock(c)
  BY <1>2, EndIndexFacts
<1>4. Holds(c, FirstBlock(c))
  BY <1>3 DEF Holds
<1>5. FirstBlock(c) \in LiveSet /\ FirstBlock(c) <= Cur
  BY <1>1, <1>3, <1>4, HeldLive
<1>6. home[FirstBlock(c)] \in Block /\ lo < FirstBlock(c) /\ FirstBlock(c) <= hi
  BY <1>1, <1>5 DEF ValuesOK
<1>7. hdr[c] \in 1..Newest
  BY <1>1, CapFacts DEF ConsumersOK
<1>8. Local(c) = headers[hdr[c]] /\ Local(c).capacity = Capacity[hdr[c]]
  BY <1>1, <1>7 DEF Local, HeadersType
<1>9. /\ Capacity[hdr[c]] \in Nat /\ Capacity[hdr[c]] > 0 /\ Keys % Capacity[hdr[c]] = 0
      /\ o[hdr[c]] \in Int
  BY <1>1, <1>7, CapFacts
<1> QED BY <1>2, <1>3, <1>4, <1>5, <1>6, <1>7, <1>8, <1>9

LEMMA LoadHeaderInv ==
  ASSUME NEW o, NEW lo, NEW hi, NEW home, NEW place, NEW num,
         MemoryInv(o, lo, hi, home, place, num), Claims, Claims', NEW c \in Consumer, LoadHeader(c)
  PROVE  MemoryInv(o, lo, hi, home, place, num)'
<1>1. ConsumersOK /\ HeadersType(o) /\ Newest \in Nat /\ Newest >= 1
  BY CapFacts DEF MemoryInv, KeyPart
<1>2. /\ Walking(c) /\ hdr' = [hdr EXCEPT ![c] = Newest] /\ at' = [at EXCEPT ![c] = "tail"]
      /\ ipos' = ipos /\ block' = block /\ headers' = headers
  BY DEF LoadHeader, Walking, Cgoto, Newest
<1>3. hdr'[c] = Newest /\ at'[c] = "tail"
  BY <1>1, <1>2 DEF ConsumersOK
<1>4. hdr' \in [Consumer -> Nat] /\ ipos' \in [Consumer -> Nat]
      /\ block' \in [Consumer -> Block \cup {Null}]
  BY <1>1, <1>2 DEF ConsumersOK
<1>5. Newest' = Newest /\ Local(c)' = headers'[Newest]
  BY <1>2, <1>3 DEF Newest, Local
<1>6. \A k \in Int : Local(c)'.index[LocalRing(o, c, k)'] = EntryId(o, k)'
  BY <1>3, <1>5 DEF LocalRing, EntryId, Cap
<1>7. WalkAt(o, c)' /\ CarryAt(home, c)'
  BY <1>3, <1>6 DEF WalkAt, CarryAt
<1> QED BY <1>1, <1>2, <1>3, <1>4, <1>7, WalkInv

LEMMA LoadTailInv ==
  ASSUME NEW o, NEW lo, NEW hi, NEW home, NEW place, NEW num,
         MemoryInv(o, lo, hi, home, place, num), Claims, Claims', NEW c \in Consumer, LoadTail(c)
  PROVE  MemoryInv(o, lo, hi, home, place, num)'
<1>1. /\ ConsumersOK /\ HeadersType(o) /\ EntriesType /\ WindowOK(o, lo, hi) /\ KeysOK(o, lo, hi)
      /\ AlignedOK(o) /\ WalksOK(o) /\ ProducerOK
  BY DEF MemoryInv, KeyPart
<1>2. /\ Walking(c) /\ ipos' = [ipos EXCEPT ![c] = headers[hdr[c]].tail]
      /\ at[c] = "tail" /\ at' = [at EXCEPT ![c] = "key"]
      /\ hdr' = hdr /\ block' = block /\ index' = index /\ end' = end /\ headers' = headers
      /\ entries' = entries
  BY DEF LoadTail, Walking, Cgoto
<1>3. ipos'[c] = headers[hdr[c]].tail /\ at'[c] = "key" /\ hdr'[c] = hdr[c]
  BY <1>1, <1>2 DEF ConsumersOK
<1>4. /\ hdr[c] \in 1..Newest /\ FirstBlock(c) <= Cur /\ lo < FirstBlock(c) /\ FirstBlock(c) \in Nat
      /\ Capacity[hdr[c]] \in Nat
  BY <1>2, AtBlock
<1>5. headers[hdr[c]].tail \in 0..(Capacity[hdr[c]] - 1)
  BY <1>1, <1>4 DEF HeadersType
<1>6. /\ hdr' \in [Consumer -> Nat] /\ ipos' \in [Consumer -> Nat]
      /\ block' \in [Consumer -> Block \cup {Null}] /\ 1 <= hdr'[c] /\ hdr'[c] <= Newest
  BY <1>1, <1>2, <1>3, <1>4, <1>5 DEF ConsumersOK
<1>7. Local(c)' = Local(c) /\ Local(c) = headers[hdr[c]]
  BY <1>2, <1>3 DEF Local
<1>8. entries'[Entry(c)'].key # INVALID_BLOCK_BASE
  <2>1. Entry(c)' = headers[hdr[c]].index[headers[hdr[c]].tail]
    BY <1>3, <1>7 DEF Entry
  <2>2. CASE hdr[c] = Newest
    <3>1. headers[Newest].tail = Ring(o[Newest], Cap, Top)
      BY <1>1 DEF WindowOK
    <3>2. entries[Entry(c)'].key = KeyOf(o, Top)
      BY <2>1, <2>2, <3>1 DEF KeyOf, EntryId
    <3>3. lo < Top /\ Top <= lo + Cap /\ Top <= hi /\ Top \in Int
      <4>1. /\ Cur \in Int /\ Top \in Int /\ lo \in Int /\ hi \in Int /\ Stored \in Int
            /\ Chained \in Nat /\ bulk.undone \in Nat /\ Cap \in Nat
        BY InvFacts
      <4>2. bulk.undone <= Chained
        BY <1>1 DEF ProducerOK, BulkOK
      <4>3. Cur <= Top
        <5>1. Cur + Chained <= Stored
          BY <4>1 DEF Stored
        <5>2. Stored - bulk.undone <= Top
          BY <4>1 DEF Top
        <5> QED BY <4>1, <4>2, <5>1, <5>2
      <4>4. Top <= hi /\ hi <= lo + Cap
        BY <1>1 DEF WindowOK
      <4> QED BY <1>4, <4>1, <4>3, <4>4
    <3>4. KeyOf(o, Top) = Key(Top)
      BY <1>1, <3>3, SMTT(20) DEF KeysOK
    <3> QED BY <1>2, <3>2, <3>3, <3>4, KeyFacts
  <2>3. CASE hdr[c] # Newest
    <3>1. AlignedAt(o, hdr[c], headers[hdr[c]].tail)
      BY <1>1, <1>4, <1>5 DEF AlignedOK
    <3> QED BY <1>2, <2>1, <2>3, <3>1 DEF AlignedAt
  <2> QED BY <2>2, <2>3
<1>9. \A k \in Int : Holds(c, k)' => Local(c)'.index[LocalRing(o, c, k)'] = EntryId(o, k)'
  <2> SUFFICES ASSUME NEW k \in Int, Holds(c, k)'
               PROVE  Local(c)'.index[LocalRing(o, c, k)'] = EntryId(o, k)'
    OBVIOUS
  <2>1. Holds(c, k)
    BY <1>2, <1>3 DEF Holds, FirstBlock, LastBlock
  <2>2. LocalRing(o, c, k)' = LocalRing(o, c, k) /\ EntryId(o, k)' = EntryId(o, k)
    BY <1>2, <1>3 DEF LocalRing, EntryId, Newest, Cap
  <2> QED BY <1>1, <1>2, <1>7, <2>1, <2>2 DEF WalksOK
<1>10. WalkAt(o, c)' /\ CarryAt(home, c)'
  BY <1>3, <1>5, <1>8, <1>9 DEF WalkAt, CarryAt
<1> QED BY <1>2, <1>6, <1>10, WalkInv

LEMMA SameHeader ==
  ASSUME NEW o, WalksOK(o), NEW c \in Consumer, at[c] \notin {"none", "header", "free"},
         at'[c] # "none", hdr'[c] = hdr[c], index'[c] = index[c], end'[c] = end[c],
         headers' = headers
  PROVE  /\ FirstBlock(c)' = FirstBlock(c) /\ Local(c)' = Local(c)
         /\ \A k \in Int : LocalRing(o, c, k)' = LocalRing(o, c, k)
         /\ \A k \in Int : Holds(c, k)' => Local(c)'.index[LocalRing(o, c, k)'] = EntryId(o, k)'
<1>1. FirstBlock(c)' = FirstBlock(c) /\ LastBlock(c)' = LastBlock(c) /\ Local(c)' = Local(c)
  BY DEF FirstBlock, LastBlock, Local
<1>2. \A k \in Int : LocalRing(o, c, k)' = LocalRing(o, c, k) /\ EntryId(o, k)' = EntryId(o, k)
  BY DEF LocalRing, EntryId, Newest, Cap
<1>3. ASSUME NEW k \in Int, Holds(c, k)'
      PROVE  Local(c)'.index[LocalRing(o, c, k)'] = EntryId(o, k)'
  <2>1. Holds(c, k)
    BY <1>1, <1>3 DEF Holds
  <2> QED BY <1>1, <1>2, <2>1 DEF WalksOK
<1> QED BY <1>1, <1>2, <1>3

LEMMA LoadKeyInv ==
  ASSUME NEW o, NEW lo, NEW hi, NEW home, NEW place, NEW num,
         MemoryInv(o, lo, hi, home, place, num), Claims, Claims', NEW c \in Consumer, LoadKey(c)
  PROVE  MemoryInv(o, lo, hi, home, place, num)'
<1>1. ConsumersOK /\ AlignedOK(o) /\ WalksOK(o)
  BY DEF MemoryInv, KeyPart
<1>2. /\ Walking(c) /\ at[c] = "key" /\ at' = [at EXCEPT ![c] = "value"]
      /\ ipos' = [ipos EXCEPT ![c] = Distance(Local(c), ipos[c], entries[Entry(c)].key, index[c])]
      /\ hdr' = hdr /\ block' = block /\ index' = index /\ end' = end /\ headers' = headers
  BY DEF LoadKey, Walking, Cgoto
<1>3. /\ ipos'[c] = Distance(Local(c), ipos[c], entries[Entry(c)].key, index[c])
      /\ at'[c] = "value" /\ hdr'[c] = hdr[c]
  BY <1>1, <1>2 DEF ConsumersOK
<1>4. /\ hdr[c] \in 1..Newest /\ FirstBlock(c) \in Nat /\ index[c] \in Nat
      /\ Local(c) = headers[hdr[c]] /\ Local(c).capacity = Capacity[hdr[c]]
      /\ Capacity[hdr[c]] \in Nat /\ Capacity[hdr[c]] > 0 /\ Keys % Capacity[hdr[c]] = 0
      /\ o[hdr[c]] \in Int
  BY <1>2, AtBlock
<1>5. ipos[c] \in 0..(Capacity[hdr[c]] - 1) /\ entries[Entry(c)].key # INVALID_BLOCK_BASE
  BY <1>1, <1>2 DEF WalksOK
<1>6. PICK a \in Int : /\ entries[Entry(c)].key = Key(a)
                       /\ ipos[c] = Ring(o[hdr[c]], Capacity[hdr[c]], a)
  <2>1. AlignedAt(o, hdr[c], ipos[c])
    BY <1>1, <1>4, <1>5 DEF AlignedOK
  <2> QED BY <1>4, <1>5, <2>1 DEF AlignedAt, Entry
<1>7. BlockBase(Idx(index[c])) = Key(FirstBlock(c))
  <2>1. index[c] \in Int
    BY <1>4
  <2>2. \A n \in Int : BlockBase(Idx(n)) = Key(BlockNo(n))
    BY KeyFacts
  <2> QED BY ONLY <2>1, <2>2 DEF FirstBlock
<1>8. ipos'[c] = Ring(o[hdr[c]], Capacity[hdr[c]], FirstBlock(c))
  <2>1. ipos'[c] = (ipos[c] + Offset(Key(FirstBlock(c)), Key(a))) % Capacity[hdr[c]]
    BY <1>3, <1>4, <1>6, <1>7 DEF Distance
  <2>2. FirstBlock(c) \in Int
    BY <1>4
  <2>3. (Ring(o[hdr[c]], Capacity[hdr[c]], a) + Offset(Key(FirstBlock(c)), Key(a))) % Capacity[hdr[c]]
          = Ring(o[hdr[c]], Capacity[hdr[c]], FirstBlock(c))
    BY ONLY <1>4, <2>2, a \in Int, RingOffset, ZenonT(30)
  <2> QED BY <1>6, <2>1, <2>3
<1>9. ipos' \in [Consumer -> Nat]
  <2>1. ipos'[c] \in Nat
    <3>1. FirstBlock(c) \in Int
      BY <1>4
    <3>2. Ring(o[hdr[c]], Capacity[hdr[c]], FirstBlock(c)) \in 0..(Capacity[hdr[c]] - 1)
      BY ONLY <1>4, <3>1, RingType
    <3> QED BY <1>4, <1>8, <3>2
  <2> QED BY <1>1, <1>2, <1>3, <2>1 DEF ConsumersOK
<1>10. /\ hdr' \in [Consumer -> Nat] /\ 1 <= hdr'[c] /\ hdr'[c] <= Newest
       /\ block' \in [Consumer -> Block \cup {Null}]
  BY <1>1, <1>2 DEF ConsumersOK
<1>11. /\ FirstBlock(c)' = FirstBlock(c)
       /\ \A k \in Int : LocalRing(o, c, k)' = LocalRing(o, c, k)
       /\ \A k \in Int : Holds(c, k)' => Local(c)'.index[LocalRing(o, c, k)'] = EntryId(o, k)'
  BY <1>1, <1>2, <1>3, SameHeader
<1>12. ipos'[c] = LocalRing(o, c, FirstBlock(c))'
  BY <1>2, <1>3, <1>8, <1>11 DEF LocalRing
<1>13. WalkAt(o, c)' /\ CarryAt(home, c)'
  BY <1>3, <1>11, <1>12 DEF WalkAt, CarryAt
<1> QED BY <1>2, <1>9, <1>10, <1>13, WalkInv

(* The entry found is the one of the element's block.                      *)
LEMMA FoundEntry ==
  ASSUME NEW o, NEW lo, NEW hi, NEW home, NEW place, NEW num,
         MemoryInv(o, lo, hi, home, place, num), Claims, NEW c \in Consumer,
         at[c] \in {"value", "move", "setEmpty", "clear"}
  PROVE  /\ Entry(c) = EntryId(o, FirstBlock(c)) /\ Entry(c) \in 1..Len(entries)
         /\ entries[Entry(c)].key = Key(FirstBlock(c))
         /\ entries[Entry(c)].value = home[FirstBlock(c)] /\ home[FirstBlock(c)] \in Block
<1>1. /\ HeadersType(o) /\ EntriesType /\ WalksOK(o) /\ KeysOK(o, lo, hi) /\ WindowOK(o, lo, hi)
      /\ ValuesOK(o, lo, hi, home)
  BY DEF MemoryInv, KeyPart
<1>2. /\ FirstBlock(c) \in Int /\ Holds(c, FirstBlock(c)) /\ FirstBlock(c) \in LiveSet
      /\ home[FirstBlock(c)] \in Block /\ lo < FirstBlock(c) /\ FirstBlock(c) <= hi
  BY AtBlock
<1>3. ipos[c] = LocalRing(o, c, FirstBlock(c))
  BY <1>1 DEF WalksOK
<1>4. Entry(c) = EntryId(o, FirstBlock(c))
  BY <1>1, <1>2, <1>3 DEF WalksOK, Entry
<1>5. EntryId(o, FirstBlock(c)) \in 1..Len(entries)
  BY <1>1, <1>2, EntryIdType
<1>6. FirstBlock(c) <= lo + Cap
  BY <1>1, <1>2, CapFacts DEF WindowOK
<1>7. KeyOf(o, FirstBlock(c)) = Key(FirstBlock(c))
  BY <1>1, <1>2, <1>6 DEF KeysOK
<1>8. ValueOf(o, FirstBlock(c)) = home[FirstBlock(c)]
  BY <1>1, <1>2, <1>6 DEF ValuesOK
<1> QED BY <1>2, <1>4, <1>5, <1>7, <1>8 DEF KeyOf, ValueOf

LEMMA LoadValueInv ==
  ASSUME NEW o, NEW lo, NEW hi, NEW home, NEW place, NEW num,
         MemoryInv(o, lo, hi, home, place, num), Claims, Claims', NEW c \in Consumer,
         LoadValue(c) \/ Move(c)
  PROVE  MemoryInv(o, lo, hi, home, place, num)'
<1>1. ConsumersOK /\ WalksOK(o) /\ CarriesOK(home)
  BY DEF MemoryInv
<1>2. /\ Walking(c) /\ at[c] \in {"value", "move"}
      /\ \/ /\ at[c] = "value" /\ at' = [at EXCEPT ![c] = "move"]
            /\ block' = [block EXCEPT ![c] = entries[Entry(c)].value]
         \/ at[c] = "move" /\ at' = [at EXCEPT ![c] = "setEmpty"] /\ block' = block
      /\ hdr' = hdr /\ ipos' = ipos /\ index' = index /\ end' = end /\ headers' = headers
  BY DEF LoadValue, Move, Walking, Cgoto
<1>3. at'[c] \in {"move", "setEmpty"} /\ hdr'[c] = hdr[c] /\ ipos'[c] = ipos[c]
  BY <1>1, <1>2 DEF ConsumersOK
<1>4. entries[Entry(c)].value = home[FirstBlock(c)] /\ home[FirstBlock(c)] \in Block
  BY <1>2, FoundEntry
<1>5. block' \in [Consumer -> Block \cup {Null}] /\ block'[c] = home[FirstBlock(c)]
  BY <1>1, <1>2, <1>4 DEF ConsumersOK, CarriesOK
<1>6. /\ hdr' \in [Consumer -> Nat] /\ 1 <= hdr'[c] /\ hdr'[c] <= Newest
      /\ ipos' \in [Consumer -> Nat]
  BY <1>1, <1>2 DEF ConsumersOK
<1>7. /\ FirstBlock(c)' = FirstBlock(c)
      /\ \A k \in Int : LocalRing(o, c, k)' = LocalRing(o, c, k)
      /\ \A k \in Int : Holds(c, k)' => Local(c)'.index[LocalRing(o, c, k)'] = EntryId(o, k)'
  BY <1>1, <1>2, <1>3, SameHeader
<1>8. ipos'[c] = LocalRing(o, c, FirstBlock(c))'
  <2>1. ipos[c] = LocalRing(o, c, FirstBlock(c))
    BY <1>1, <1>2 DEF WalksOK
  <2> QED BY <1>2, <1>3, <1>7, <2>1 DEF LocalRing
<1>9. WalkAt(o, c)' /\ CarryAt(home, c)'
  BY <1>3, <1>5, <1>7, <1>8 DEF WalkAt, CarryAt
<1> QED BY <1>2, <1>5, <1>6, <1>9, WalkInv

(* A claim, or a failed one, touches nothing but the counters.             *)
LEMMA MemoryKept ==
  ASSUME NEW o, NEW lo, NEW hi, NEW home, NEW place, NEW num,
         MemoryInv(o, lo, hi, home, place, num), Claims,
         UNCHANGED memory, headIndex' = headIndex, tailIndex' = tailIndex
  PROVE  MemoryInv(o, lo, hi, home, place, num)'
<1>1. /\ entries' = entries /\ emptied' = emptied /\ pool' = pool /\ Still
      /\ ppc' = ppc /\ bulk' = bulk /\ newBlock' = newBlock /\ idxEntry' = idxEntry
      /\ tailBlock' = tailBlock /\ headers' = headers
  BY DEF memory, blocks, producer, Still
<1>2. /\ Cur' = Cur /\ Stored' = Stored /\ Back' = Back /\ Top' = Top /\ Chained' = Chained
      /\ Goal' = Goal
  BY <1>1 DEF Cur, Stored, Back, Top, Chained, Goal
<1>3. ProducerOK'
  <2>1. ProducerType /\ BulkOK /\ NewBlockOK
    BY DEF MemoryInv, ProducerOK
  <2>2. ProducerType'
    BY <1>1, <2>1 DEF ProducerType
  <2>3. BulkOK'
    BY <1>1, <1>2, <2>1 DEF BulkOK
  <2>4. NewBlockOK'
    BY <1>1, <2>1 DEF NewBlockOK
  <2> QED BY <2>2, <2>3, <2>4 DEF ProducerOK
<1>4. Cur \in Int /\ Stored \in Int /\ Back \in Nat /\ headIndex \in Nat
  BY InvFacts
<1>5. KeyPart(o, lo, hi)' /\ HeadersSame /\ KeysSame
  BY <1>1, <1>2, <1>4, KeyPartPlain DEF MemoryInv, Placing
<1>6. \A k \in Int : Stocked(k)' <=> Stocked(k)
  BY <1>2, StockedKept
<1>7. ValuesSame
  BY <1>1 DEF ValuesSame
<1>8. ChainOK(home)'
  BY <1>1, <1>2 DEF ChainOK, MemoryInv
<1>9. /\ ppc' \in Building => ppc \in Building
      /\ ppc' \in {"construct", "storeValue"} =>
           ppc \in {"construct", "storeValue"} /\ newBlock' = newBlock
      /\ Back = 0 \/ bulk'.chain = bulk.chain
      /\ \A b \in Block : (b = newBlock' /\ ppc' # "publish") <=> (b = newBlock /\ ppc # "publish")
  BY <1>1
<1> QED BY <1>1, <1>2, <1>3, <1>4, <1>5, <1>6, <1>7, <1>8, <1>9, StillInv

LEMMA ClaimStepInv ==
  ASSUME NEW o, NEW lo, NEW hi, NEW home, NEW place, NEW num,
         MemoryInv(o, lo, hi, home, place, num), Claims, NEW c \in Consumer, ClaimStep(c)
  PROVE  MemoryInv(o, lo, hi, home, place, num)'
<1>1. UNCHANGED memory /\ headIndex' = headIndex /\ tailIndex' = tailIndex
  BY DEF ClaimStep, Draw, GiveBack
<1> QED BY <1>1, MemoryKept

(* What is enough for the counts and for the places when the claims move   *)
(* on but no block starts or stops being emptied, or is freed.             *)
LEMMA SameBlocks ==
  ASSUME NEW home, NEW place, NEW num, CountedOK(home), PlacesOK(home, place, num),
         NEW c \in Consumer, OnlyAt(c), at[c] \notin {"clear", "free"},
         at'[c] \notin {"clear", "free"}, LiveSet' = LiveSet, DoneSet' = DoneSet,
         emptied' = emptied, pool' = pool, ppc' = ppc, bulk' = bulk, newBlock' = newBlock,
         Back' = Back
  PROVE  CountedOK(home)' /\ PlacesOK(home, place, num)'
<1>1. \A d \in Consumer : /\ at'[d] = "free" <=> at[d] = "free"
                          /\ at'[d] = "clear" <=> at[d] = "clear"
                          /\ d # c => FirstBlock(d)' = FirstBlock(d) /\ block'[d] = block[d]
  <2> SUFFICES ASSUME NEW d \in Consumer
               PROVE  /\ at'[d] = "free" <=> at[d] = "free"
                      /\ at'[d] = "clear" <=> at[d] = "clear"
                      /\ d # c => FirstBlock(d)' = FirstBlock(d) /\ block'[d] = block[d]
    OBVIOUS
  <2>1. CASE d = c
    BY <2>1
  <2>2. CASE d # c
    <3>1. at'[d] = at[d] /\ block'[d] = block[d]
      BY <2>2 DEF OnlyAt
    <3>2. FirstBlock(d)' = FirstBlock(d)
      BY <2>2, OthersKept
    <3> QED BY <3>1, <3>2
  <2> QED BY <2>1, <2>2
<1>2. CountedOK(home)'
  <2>1. \A k \in LiveSet' : emptied'[home[k]] = Cardinality(Span(k) \cap DoneSet')
    BY DEF CountedOK
  <2>2. \A d \in Consumer : at'[d] \in {"clear", "free"} => Span(FirstBlock(d))' \subseteq DoneSet'
    <3> SUFFICES ASSUME NEW d \in Consumer, at'[d] \in {"clear", "free"}
                 PROVE  Span(FirstBlock(d)') \subseteq DoneSet
      BY DEF Span
    <3>1. d # c /\ at[d] \in {"clear", "free"} /\ FirstBlock(d)' = FirstBlock(d)
      BY <1>1
    <3> QED BY <3>1 DEF CountedOK
  <2>3. \A d, e \in Consumer :
          d # e /\ at'[d] \in {"clear", "free"} /\ at'[e] \in {"clear", "free"}
            => FirstBlock(d)' # FirstBlock(e)'
    BY <1>1 DEF CountedOK
  <2> QED BY <2>1, <2>2, <2>3 DEF CountedOK
<1>3. PlacesOK(home, place, num)'
  <2>1. \A d \in Consumer : at[d] = "free" => block'[d] = block[d]
    BY <1>1
  <2>2. /\ \A d \in Consumer : at'[d] = "free" => /\ block'[d] \in Block
                                                  /\ place[block'[d]] = "free" /\ num[block'[d]] = d
        /\ \A b \in Block : place[b] = "free" => /\ num[b] \in Consumer
                                                 /\ at'[num[b]] = "free" /\ block'[num[b]] = b
    BY <1>1, <2>1 DEF PlacesOK
  <2> QED BY <2>2 DEF PlacesOK
<1> QED BY <1>2, <1>3

(* A successful claim: its elements start where the others' end.           *)
LEMMA TakeIndexInv ==
  ASSUME NEW o, NEW lo, NEW hi, NEW home, NEW place, NEW num,
         MemoryInv(o, lo, hi, home, place, num), Claims, Claims', NEW c \in Consumer, TakeIndex(c)
  PROVE  MemoryInv(o, lo, hi, home, place, num)'
<1>1. /\ HeadersType(o) /\ EntriesType /\ ConsumersOK /\ RangesOK /\ ValuesOK(o, lo, hi, home)
      /\ CountedOK(home) /\ PlacesOK(home, place, num)
  BY DEF MemoryInv, KeyPart
<1>2. /\ ConsumerStep(c) /\ at[c] = "none" /\ at' = [at EXCEPT ![c] = "header"]
      /\ index' = [index EXCEPT ![c] = headIndex]
      /\ end' = [end EXCEPT ![c] = headIndex + count[c]] /\ headIndex' = headIndex + count[c]
      /\ count[c] \in Nat /\ count[c] > 0 /\ hdr' = hdr /\ ipos' = ipos /\ block' = block
      /\ entries' = entries /\ emptied' = emptied /\ pool' = pool
  <2>1. /\ ConsumerStep(c) /\ at[c] = "none" /\ at' = [at EXCEPT ![c] = "header"]
        /\ index' = [index EXCEPT ![c] = headIndex]
        /\ end' = [end EXCEPT ![c] = headIndex + count[c]]
        /\ hdr' = hdr /\ ipos' = ipos /\ block' = block
        /\ entries' = entries /\ emptied' = emptied /\ pool' = pool
        /\ TakeAll(c) \/ TakeRest(c)
    BY DEF TakeIndex, ConsumerStep, Cgoto, blocks
  <2>2. pc[c] # "idle" /\ headIndex' = headIndex + count[c]
    BY <2>1 DEF TakeAll, TakeRest, Grant
  <2>3. count[c] \in Nat /\ count[c] > 0
    BY <2>2 DEF Claims, TypeOK, CountsPositive
  <2> QED BY <2>1, <2>2, <2>3
<1>3. /\ OnlyAt(c) /\ DOMAIN item' = Consumer /\ thrown' \in [Consumer -> BOOLEAN]
  BY <1>1, <1>2, ConsumerAlone
<1>4. /\ Newest' = Newest /\ bulk' = bulk /\ ppc' = ppc /\ newBlock' = newBlock /\ Back' = Back
      /\ headers' = headers /\ \A k \in Int : Stocked(k)' <=> Stocked(k)
  BY <1>2, ConsumerFrame
<1>5. headIndex \in Nat /\ headIndex' \in Nat /\ headIndex < headIndex'
  BY <1>2, InvFacts, SMTT(20)
<1>6. at'[c] = "header" /\ index'[c] = headIndex /\ end'[c] = headIndex'
  BY <1>1, <1>2 DEF ConsumersOK
<1>7. ConsumersOK'
  <2>1. at' \in [Consumer -> Labels]
    BY <1>1, <1>2 DEF ConsumersOK, Labels
  <2>2. index' \in [Consumer -> Nat] /\ end' \in [Consumer -> Nat]
    BY <1>1, <1>2, <1>5 DEF ConsumersOK
  <2> QED BY <1>1, <1>2, <1>3, <1>4, <2>1, <2>2 DEF ConsumersOK
<1>8. RangesOK'
  <2>1. ASSUME NEW d \in Consumer, at'[d] # "none"
        PROVE  /\ index'[d] < end'[d] /\ end'[d] <= headIndex'
               /\ d # c => end'[d] <= index'[c]
    <3>1. CASE d = c
      BY <1>5, <1>6, <3>1
    <3>2. CASE d # c
      <4>1. at'[d] = at[d] /\ index'[d] = index[d] /\ end'[d] = end[d]
        BY <1>3, <3>2 DEF OnlyAt
      <4>2. index[d] < end[d] /\ end[d] <= headIndex /\ end[d] \in Nat
        BY <1>1, <2>1, <4>1 DEF RangesOK, ConsumersOK
      <4> QED BY <1>5, <1>6, <3>2, <4>1, <4>2
    <3> QED BY <3>1, <3>2
  <2>2. ASSUME NEW d \in Consumer, NEW e \in Consumer, d # e, at'[d] # "none", at'[e] # "none"
        PROVE  end'[d] <= index'[e] \/ end'[e] <= index'[d]
    <3>1. CASE d = c \/ e = c
      BY <2>1, <2>2, <3>1
    <3>2. CASE d # c /\ e # c
      BY <1>1, <1>3, <2>2, <3>2 DEF OnlyAt, RangesOK
    <3> QED BY <3>1, <3>2
  <2> QED BY <2>1, <2>2 DEF RangesOK
<1>9. \A d \in Consumer : d # c => /\ \A k \in Int : Holds(d, k)' <=> Holds(d, k)
                                   /\ \A n \in Nat : Uncounted(d, n)' <=> Uncounted(d, n)
  BY <1>3, OthersKept
<1>10. /\ FirstBlock(c)' = BlockNo(headIndex) /\ LastBlock(c)' = BlockNo(headIndex' - 1)
       /\ ~\E k \in Int : Holds(c, k)
  BY <1>2, <1>6 DEF FirstBlock, LastBlock, Holds
<1>11. ASSUME NEW k \in Int PROVE Pending(k)' <=> Pending(k)
  <2>1. /\ First(k) \in Int /\ First(k + 1) \in Int /\ First(k + 1) = First(k) + BLOCK_SIZE
        /\ BLOCK_SIZE \in Nat /\ BLOCK_SIZE > 1
    <3>1. k + 1 \in Int
      OBVIOUS
    <3>2. First(k) \in Int /\ First(k + 1) \in Int
      BY <3>1, FirstType
    <3>3. First(k + 1) = First(k) + BLOCK_SIZE
      BY FirstNext
    <3> QED BY <3>2, <3>3, Sizes
  <2>2. headIndex < First(k + 1) <=> BlockNo(headIndex) <= k
    <3>1. headIndex \in Int /\ First(k + 1) \in Int /\ First(k + 1) - 1 \in Int
      BY <1>5, <2>1
    <3>2. BlockNo(First(k + 1) - 1) = k
      <4>1. First(k) <= First(k + 1) - 1 /\ First(k + 1) - 1 < First(k) + BLOCK_SIZE
        BY <2>1
      <4> QED BY <3>1, <4>1, BlockNoFacts
    <3>3. ASSUME headIndex < First(k + 1) PROVE BlockNo(headIndex) <= k
      <4>1. headIndex <= First(k + 1) - 1
        BY <3>1, <3>3
      <4>2. BlockNo(headIndex) <= BlockNo(First(k + 1) - 1)
        BY <3>1, <4>1, BlockNoFacts
      <4> QED BY <3>2, <4>2
    <3>4. ASSUME BlockNo(headIndex) <= k PROVE headIndex < First(k + 1)
      <4>1. BlockNo(headIndex) \in Int /\ headIndex < First(BlockNo(headIndex)) + BLOCK_SIZE
        BY <3>1, BlockNoFacts
      <4>2. First(BlockNo(headIndex)) <= First(k) /\ First(BlockNo(headIndex)) \in Int
        <5>1. First(BlockNo(headIndex)) \in Int
          BY <4>1, FirstType
        <5>2. BlockNo(headIndex) < k => First(BlockNo(headIndex)) + BLOCK_SIZE <= First(k)
          BY <4>1, FirstOrder
        <5>3. BlockNo(headIndex) < k \/ BlockNo(headIndex) = k
          BY <3>4, <4>1
        <5> QED BY <2>1, <5>1, <5>2, <5>3
      <4> QED BY <2>1, <3>1, <4>1, <4>2
    <3> QED BY <3>3, <3>4
  <2>3. ASSUME ~(headIndex' < First(k + 1)) PROVE k <= BlockNo(headIndex' - 1)
    <3>1. headIndex' - 1 \in Int /\ First(k) \in Int /\ First(k) <= headIndex' - 1
      BY <1>5, <2>1, <2>3
    <3>2. BlockNo(First(k)) = k
      <4>1. First(k) <= First(k) /\ First(k) < First(k) + BLOCK_SIZE
        BY <2>1
      <4> QED BY <2>1, <4>1, BlockNoFacts
    <3> QED BY <3>1, <3>2, BlockNoFacts
  <2>4. Holds(c, k)' <=> BlockNo(headIndex) <= k /\ k <= BlockNo(headIndex' - 1)
    BY <1>6, <1>10 DEF Holds
  <2>5. headIndex' < First(k + 1) => headIndex < First(k + 1)
    BY <1>5, <2>1
  <2>6. (\E d \in Consumer : Holds(d, k)') <=> Holds(c, k)' \/ \E d \in Consumer : Holds(d, k)
    BY <1>9, <1>10
  <2> QED BY <2>2, <2>3, <2>4, <2>5, <2>6 DEF Pending
<1>12. LiveSet' = LiveSet
  BY <1>4, <1>11, LiveKept
<1>13. DoneSet' = DoneSet
  <2>1. ASSUME NEW n \in Nat PROVE Uncounted(c, n)' <=> headIndex <= n /\ n < headIndex'
    BY <1>6 DEF Uncounted
  <2>2. ASSUME NEW n \in Nat PROVE ~Uncounted(c, n)
    BY <1>2 DEF Uncounted
  <2>3. ASSUME NEW n \in Nat PROVE n \in DoneSet' <=> n \in DoneSet
    <3>1. n \in DoneSet' <=> n < headIndex' /\ \A d \in Consumer : ~Uncounted(d, n)'
      BY DEF DoneSet
    <3>2. n \in DoneSet <=> n < headIndex /\ \A d \in Consumer : ~Uncounted(d, n)
      BY DEF DoneSet
    <3>3. (\A d \in Consumer : ~Uncounted(d, n)')
            <=> ~Uncounted(c, n)' /\ \A d \in Consumer : ~Uncounted(d, n)
      BY <1>9, <2>2
    <3> QED BY <1>5, <2>1, <3>1, <3>2, <3>3
  <2>4. DoneSet' \subseteq Nat /\ DoneSet \subseteq Nat
    BY DEF DoneSet
  <2> QED BY <2>3, <2>4
<1>14. ValuesOK(o, lo, hi, home)'
  <2>1. HeadersSame /\ ValuesSame
    BY <1>2, <1>4 DEF HeadersSame, ValuesSame
  <2> QED BY <1>1, <1>12, <2>1, ValuesKept
<1>15. CountedOK(home)' /\ PlacesOK(home, place, num)'
  BY <1>1, <1>2, <1>3, <1>4, <1>6, <1>12, <1>13, SameBlocks
<1>16. WalkAt(o, c)' /\ CarryAt(home, c)'
  BY <1>6 DEF WalkAt, CarryAt
<1> QED BY <1>2, <1>7, <1>8, <1>14, <1>15, <1>16, ConsumerParts

(* A consumer that has to do with its first block.                         *)
LEMMA ClaimFacts ==
  ASSUME ConsumersOK, RangesOK, headIndex \in Nat, NEW c \in Consumer, at[c] # "none"
  PROVE  /\ index[c] \in Nat /\ end[c] \in Nat /\ index[c] < end[c] /\ end[c] <= headIndex
         /\ FirstBlock(c) \in Nat /\ LastBlock(c) \in Nat /\ FirstBlock(c) <= LastBlock(c)
         /\ EndIndex(c) \in Nat /\ index[c] < EndIndex(c) /\ EndIndex(c) <= end[c]
         /\ First(FirstBlock(c)) <= index[c] /\ EndIndex(c) <= First(FirstBlock(c)) + BLOCK_SIZE
         /\ First(FirstBlock(c)) \in Nat
         /\ EndIndex(c) = end[c] => FirstBlock(c) = LastBlock(c)
         /\ EndIndex(c) # end[c] => /\ EndIndex(c) = First(FirstBlock(c)) + BLOCK_SIZE
                                    /\ BlockNo(EndIndex(c)) = FirstBlock(c) + 1
                                    /\ FirstBlock(c) < LastBlock(c)
<1>1. index[c] \in Nat /\ end[c] \in Nat /\ index[c] < end[c] /\ end[c] <= headIndex
  BY DEF ConsumersOK, RangesOK
<1>2. /\ FirstBlock(c) \in Nat /\ LastBlock(c) \in Nat /\ FirstBlock(c) <= LastBlock(c)
      /\ EndIndex(c) \in Nat /\ index[c] < EndIndex(c) /\ EndIndex(c) <= end[c]
      /\ First(FirstBlock(c)) <= index[c] /\ EndIndex(c) <= First(FirstBlock(c) + 1)
      /\ EndIndex(c) = end[c] => FirstBlock(c) = LastBlock(c)
      /\ EndIndex(c) # end[c] => /\ EndIndex(c) = First(FirstBlock(c) + 1)
                                 /\ BlockNo(EndIndex(c)) = FirstBlock(c) + 1
                                 /\ FirstBlock(c) < LastBlock(c)
  BY <1>1, EndIndexFacts
<1>3. First(FirstBlock(c) + 1) = First(FirstBlock(c)) + BLOCK_SIZE
  BY <1>2, FirstNext
<1>4. First(FirstBlock(c)) \in Nat
  <2>1. \A j \in Nat : First(j) \in Nat
    BY Sizes DEF First
  <2> QED BY <1>2, <2>1
<1> QED BY <1>1, <1>2, <1>3, <1>4

(* Going on to the next block.                                             *)
LEMMA NextBlockInv ==
  ASSUME NEW o, NEW lo, NEW hi, NEW home, NEW place, NEW num,
         MemoryInv(o, lo, hi, home, place, num), Claims, Claims', NEW c \in Consumer,
         ConsumerStep(c), at[c] \in {"setEmpty", "free"}, NextBlock(c), headIndex' = headIndex
  PROVE  /\ ConsumersOK' /\ RangesOK' /\ WalkAt(o, c)' /\ CarryAt(home, c)'
         /\ at'[c] \in {"none", "value"}
         /\ \A j \in Int : Holds(c, j)' <=> FirstBlock(c) < j /\ j <= LastBlock(c)
         /\ \A n \in Nat : Uncounted(c, n)' <=> EndIndex(c) <= n /\ n < end[c]
<1> DEFINE k == FirstBlock(c)
           e == EndIndex(c)
<1>1. HeadersType(o) /\ ConsumersOK /\ RangesOK /\ WalksOK(o) /\ headIndex \in Nat
  BY InvFacts DEF MemoryInv, KeyPart
<1>2. /\ index[c] \in Nat /\ end[c] \in Nat /\ index[c] < end[c] /\ end[c] <= headIndex
      /\ k \in Nat /\ LastBlock(c) \in Nat /\ e \in Nat /\ index[c] < e /\ e <= end[c]
      /\ e = end[c] => k = LastBlock(c)
      /\ e # end[c] => BlockNo(e) = k + 1 /\ k < LastBlock(c)
  BY <1>1, ClaimFacts
<1>3. /\ OnlyAt(c) /\ DOMAIN item' = Consumer /\ thrown' \in [Consumer -> BOOLEAN]
      /\ e = end[c] =>
              /\ at' = [at EXCEPT ![c] = "none"] /\ index' = [index EXCEPT ![c] = 0]
              /\ end' = [end EXCEPT ![c] = 0] /\ hdr' = [hdr EXCEPT ![c] = 1]
              /\ ipos' = [ipos EXCEPT ![c] = 0] /\ block' = [block EXCEPT ![c] = Null]
      /\ e # end[c] =>
              /\ at' = [at EXCEPT ![c] = "value"] /\ index' = [index EXCEPT ![c] = e]
              /\ ipos' = [ipos EXCEPT ![c] = (ipos[c] + 1) % Local(c).capacity]
              /\ block' = [block EXCEPT ![c] = Null] /\ end' = end /\ hdr' = hdr
  BY <1>1, NextBlockShape
<1>4. headers' = headers /\ Newest' = Newest
  BY ConsumerFrame
<1>5. hdr[c] \in 1..Newest /\ Newest \in Nat /\ 1 <= Newest
  BY <1>1, CapFacts DEF ConsumersOK
<1>6. /\ Local(c).capacity = Capacity[hdr[c]] /\ Capacity[hdr[c]] \in Nat /\ Capacity[hdr[c]] > 0
      /\ o[hdr[c]] \in Int
  BY <1>1, <1>5, CapFacts DEF Local, HeadersType
<1>7. ipos[c] = Ring(o[hdr[c]], Capacity[hdr[c]], k)
  BY <1>1 DEF WalksOK, LocalRing
<1>8. (ipos[c] + 1) % Local(c).capacity = Ring(o[hdr[c]], Capacity[hdr[c]], k + 1)
  <2>1. k \in Int
    BY <1>2
  <2>2. (Ring(o[hdr[c]], Capacity[hdr[c]], k) + 1) % Capacity[hdr[c]]
          = Ring(o[hdr[c]], Capacity[hdr[c]], k + 1)
    BY ONLY <1>6, <2>1, RingStep
  <2> QED BY <1>6, <1>7, <2>2
<1>9. Ring(o[hdr[c]], Capacity[hdr[c]], k + 1) \in Nat
  <2>1. k + 1 \in Int
    BY <1>2
  <2>2. Ring(o[hdr[c]], Capacity[hdr[c]], k + 1) \in 0..(Capacity[hdr[c]] - 1)
    BY ONLY <1>6, <2>1, RingType
  <2> QED BY <1>6, <2>2
<1> HIDE DEF k, e
<1>10. at'[c] = IF e = end[c] THEN "none" ELSE "value"
  BY <1>1, <1>3 DEF ConsumersOK
<1>11. e # end[c] => index'[c] = e /\ end'[c] = end[c] /\ hdr'[c] = hdr[c]
                     /\ ipos'[c] = Ring(o[hdr[c]], Capacity[hdr[c]], k + 1)
  BY <1>1, <1>3, <1>8 DEF ConsumersOK
<1>12. ConsumersOK'
  <2>1. at' \in [Consumer -> Labels]
    BY <1>1, <1>3 DEF ConsumersOK, Labels
  <2>2. index' \in [Consumer -> Nat] /\ end' \in [Consumer -> Nat]
    BY <1>1, <1>2, <1>3 DEF ConsumersOK
  <2>3. hdr' \in [Consumer -> Nat]
    BY <1>1, <1>3 DEF ConsumersOK
  <2>4. \A d \in Consumer : 1 <= hdr'[d] /\ hdr'[d] <= Newest'
    BY <1>1, <1>3, <1>4, <1>5 DEF ConsumersOK
  <2>5. ipos' \in [Consumer -> Nat]
    BY <1>1, <1>3, <1>8, <1>9 DEF ConsumersOK
  <2>6. block' \in [Consumer -> Block \cup {Null}]
    BY <1>1, <1>3 DEF ConsumersOK
  <2> QED BY <1>3, <2>1, <2>2, <2>3, <2>4, <2>5, <2>6 DEF ConsumersOK
<1>13. RangesOK'
  <2>1. ASSUME NEW d \in Consumer, at'[d] # "none"
        PROVE  /\ at[d] # "none" /\ index'[d] < end'[d] /\ end'[d] = end[d]
               /\ index[d] <= index'[d] /\ end[d] <= headIndex
               /\ index'[d] \in Nat /\ index[d] \in Nat /\ end[d] \in Nat
    <3>1. CASE d = c
      BY <1>2, <1>10, <1>11, <2>1, <3>1
    <3>2. CASE d # c
      <4>1. at'[d] = at[d] /\ index'[d] = index[d] /\ end'[d] = end[d]
        BY <1>3, <3>2 DEF OnlyAt
      <4>2. index[d] \in Nat /\ end[d] \in Nat /\ index[d] < end[d] /\ end[d] <= headIndex
        BY <1>1, <2>1, <4>1 DEF RangesOK, ConsumersOK
      <4> QED BY <2>1, <4>1, <4>2
    <3> QED BY <3>1, <3>2
  <2>2. ASSUME NEW d \in Consumer, NEW f \in Consumer, d # f, at'[d] # "none", at'[f] # "none"
        PROVE  end'[d] <= index'[f] \/ end'[f] <= index'[d]
    <3>1. end[d] <= index[f] \/ end[f] <= index[d]
      BY <1>1, <2>1, <2>2 DEF RangesOK
    <3> QED BY <2>1, <2>2, <3>1
  <2>3. \A d \in Consumer : at'[d] # "none" => index'[d] < end'[d] /\ end'[d] <= headIndex'
    BY <2>1
  <2> QED BY <2>2, <2>3 DEF RangesOK
<1>14. e # end[c] => FirstBlock(c)' = k + 1 /\ LastBlock(c)' = LastBlock(c)
  <2>1. ASSUME e # end[c] PROVE FirstBlock(c)' = k + 1 /\ LastBlock(c)' = LastBlock(c)
    <3>1. FirstBlock(c)' = BlockNo(e) /\ LastBlock(c)' = BlockNo(end[c] - 1)
      BY <1>11, <2>1 DEF FirstBlock, LastBlock
    <3> QED BY <1>2, <2>1, <3>1 DEF LastBlock
  <2> QED BY <2>1
<1>15. \A j \in Int : Holds(c, j)' <=> k < j /\ j <= LastBlock(c)
  <2> SUFFICES ASSUME NEW j \in Int PROVE Holds(c, j)' <=> k < j /\ j <= LastBlock(c)
    OBVIOUS
  <2>1. CASE e = end[c]
    BY <1>2, <1>10, <2>1 DEF Holds
  <2>2. CASE e # end[c]
    <3>1. Holds(c, j)' <=> k + 1 <= j /\ j <= LastBlock(c)
      BY <1>10, <1>14, <2>2 DEF Holds
    <3> QED BY <1>2, <3>1
  <2> QED BY <2>1, <2>2
<1>16. \A n \in Nat : Uncounted(c, n)' <=> e <= n /\ n < end[c]
  <2> SUFFICES ASSUME NEW n \in Nat PROVE Uncounted(c, n)' <=> e <= n /\ n < end[c]
    OBVIOUS
  <2>1. CASE e = end[c]
    BY <1>2, <1>10, <2>1 DEF Uncounted
  <2>2. CASE e # end[c]
    BY <1>10, <1>11, <2>2 DEF Uncounted
  <2> QED BY <2>1, <2>2
<1>17. WalkAt(o, c)' /\ CarryAt(home, c)'
  <2>1. CASE e = end[c]
    BY <1>10, <2>1 DEF WalkAt, CarryAt
  <2>2. CASE e # end[c]
    <3>1. Local(c)' = Local(c) /\ \A j \in Int : /\ LocalRing(o, c, j)' = LocalRing(o, c, j)
                                                 /\ EntryId(o, j)' = EntryId(o, j)
      BY <1>4, <1>11, <2>2 DEF Local, LocalRing, EntryId, Newest, Cap
    <3>2. ASSUME NEW j \in Int, Holds(c, j)'
          PROVE  Local(c)'.index[LocalRing(o, c, j)'] = EntryId(o, j)'
      <4>1. k < j /\ j <= LastBlock(c)
        BY <1>15, <3>2
      <4>2. Holds(c, j)
        BY <1>2, <4>1 DEF Holds, k
      <4>3. Local(c).index[LocalRing(o, c, j)] = EntryId(o, j)
        BY <1>1, <4>2 DEF WalksOK
      <4> QED BY <3>1, <4>3
    <3>3. ipos'[c] = LocalRing(o, c, FirstBlock(c))'
      BY <1>11, <1>14, <2>2 DEF LocalRing
    <3> QED BY <1>10, <2>2, <3>2, <3>3 DEF WalkAt, CarryAt
  <2> QED BY <2>1, <2>2
<1> QED BY <1>10, <1>12, <1>13, <1>15, <1>16, <1>17 DEF k, e

(* What set_empty counts: the elements of this claim in this block.        *)
Now(c)    == index[c]..(EndIndex(c) - 1)
After(c)  == DoneSet \cup Now(c)
Filled(c) == emptied[block[c]] + Here(c) = BLOCK_SIZE

LEMMA SetEmptyCounts ==
  ASSUME NEW o, NEW lo, NEW hi, NEW home, NEW place, NEW num,
         MemoryInv(o, lo, hi, home, place, num), Claims, NEW c \in Consumer, at[c] = "setEmpty"
  PROVE  /\ Here(c) \in Nat /\ Now(c) \subseteq Span(FirstBlock(c)) /\ Now(c) \cap DoneSet = {}
         /\ index[c] \in Now(c) /\ block[c] = home[FirstBlock(c)] /\ block[c] \in Block
         /\ emptied[block[c]] \in Nat
         /\ emptied[block[c]] + Here(c) = Cardinality(Span(FirstBlock(c)) \cap After(c))
         /\ emptied[block[c]] + Here(c) <= BLOCK_SIZE
         /\ Filled(c) => Span(FirstBlock(c)) \subseteq After(c)
<1> DEFINE k == FirstBlock(c)
           S == Span(k)
           D == After(c)
<1>1. /\ ConsumersOK /\ RangesOK /\ CountedOK(home) /\ CarriesOK(home) /\ headIndex \in Nat
  BY InvFacts DEF MemoryInv
<1>2. /\ k \in LiveSet /\ home[k] \in Block
  BY AtBlock
<1>3. /\ index[c] \in Nat /\ end[c] \in Nat /\ EndIndex(c) \in Nat /\ index[c] < EndIndex(c)
      /\ EndIndex(c) <= end[c] /\ First(k) <= index[c] /\ EndIndex(c) <= First(k) + BLOCK_SIZE
      /\ First(k) \in Nat /\ BLOCK_SIZE \in Nat
  BY <1>1, ClaimFacts, Sizes
<1>4. block[c] = home[k] /\ block[c] \in Block /\ emptied[block[c]] \in Nat
  BY <1>1, <1>2, <1>3 DEF CarriesOK, CountedOK
<1>5. Here(c) \in Nat /\ Now(c) = index[c]..(index[c] + Here(c) - 1) /\ index[c] \in Now(c)
  BY <1>3 DEF Here, Now
<1>6. Now(c) \subseteq S
  BY <1>3 DEF Now, Span
<1>7. Now(c) \cap DoneSet = {}
  <2>1. ASSUME NEW n \in Now(c) PROVE Uncounted(c, n)
    BY <1>3, <2>1 DEF Now, Uncounted
  <2> QED BY <2>1 DEF DoneSet
<1>8. IsFiniteSet(S) /\ Cardinality(S) = BLOCK_SIZE
  BY <1>3, RangeSize DEF Span
<1>9. emptied[block[c]] = Cardinality(S \cap DoneSet)
  BY <1>1, <1>2, <1>4 DEF CountedOK
<1> HIDE DEF S, D
<1>10. IsFiniteSet(S \cap DoneSet) /\ IsFiniteSet(S \cap D)
  BY <1>8, FS_Subset
<1>11. Cardinality(S \cap D) = emptied[block[c]] + Here(c)
  <2>1. S \cap D = (S \cap DoneSet) \cup Now(c)
    BY <1>6 DEF D, After
  <2>2. (S \cap DoneSet) \cap Now(c) = {}
    BY <1>7
  <2> DEFINE T == S \cap DoneSet
  <2>3. IsFiniteSet(T) /\ T \cap (index[c]..(index[c] + Here(c) - 1)) = {}
    BY <1>5, <1>10, <2>2
  <2>4. index[c] \in Nat /\ Here(c) \in Nat
    BY <1>3, <1>5
  <2> HIDE DEF T
  <2>5. Cardinality(T \cup (index[c]..(index[c] + Here(c) - 1))) = Cardinality(T) + Here(c)
    BY ONLY <2>3, <2>4, AddRange
  <2> QED BY <1>5, <1>9, <2>1, <2>5 DEF T
<1>12. Cardinality(S \cap D) <= BLOCK_SIZE
  <2>1. S \cap D \subseteq S
    OBVIOUS
  <2> QED BY <1>8, <2>1, FS_Subset
<1>13. ASSUME Filled(c) PROVE S \subseteq D
  <2>1. S \cap D \subseteq S /\ Cardinality(S \cap D) = Cardinality(S)
    BY <1>8, <1>11, <1>13 DEF Filled
  <2>2. S \cap D = S
    BY <1>8, <2>1, FS_Subset
  <2> QED BY <2>2
<1> QED BY <1>4, <1>5, <1>6, <1>7, <1>11, <1>12, <1>13 DEF S, D

LEMMA SetEmptyShape ==
  ASSUME NEW o, NEW lo, NEW hi, NEW home, NEW place, NEW num,
         MemoryInv(o, lo, hi, home, place, num), Claims, Claims', NEW c \in Consumer, SetEmpty(c)
  PROVE  /\ ConsumersOK' /\ RangesOK' /\ WalkAt(o, c)' /\ CarryAt(home, c)'
         /\ at'[c] \in {"none", "value", "clear"} /\ (at'[c] = "clear" <=> Filled(c))
         /\ Filled(c) => FirstBlock(c)' = FirstBlock(c)
         /\ \A j \in Int : Holds(c, j)' <=> \/ FirstBlock(c) < j /\ j <= LastBlock(c)
                                            \/ Filled(c) /\ j = FirstBlock(c)
         /\ \A n \in Nat : Uncounted(c, n)' <=> EndIndex(c) <= n /\ n < end[c]
<1>1. ConsumersOK /\ RangesOK /\ WalksOK(o) /\ CarriesOK(home) /\ headIndex \in Nat
  BY InvFacts DEF MemoryInv
<1>2. /\ at[c] = "setEmpty" /\ headIndex' = headIndex /\ ConsumerStep(c)
  BY DEF SetEmpty, ConsumerStep, vars, counters
<1>3. CASE Filled(c)
  <2>1. /\ at' = [at EXCEPT ![c] = "clear"] /\ index' = index /\ end' = end /\ hdr' = hdr
        /\ ipos' = ipos /\ block' = block /\ item' = item /\ thrown' = thrown
    BY <1>3 DEF SetEmpty, Filled, Cgoto
  <2>2. /\ headers' = headers /\ Newest' = Newest
    BY <1>2, ConsumerFrame
  <2>3. at'[c] = "clear" /\ \A d \in Consumer : at'[d] # "none" <=> at[d] # "none"
    BY <1>1, <1>2, <2>1 DEF ConsumersOK
  <2>4. ConsumersOK'
    BY <1>1, <2>1, <2>2 DEF ConsumersOK, Labels
  <2>5. RangesOK'
    BY <1>1, <1>2, <2>1, <2>3 DEF RangesOK
  <2>6. /\ FirstBlock(c)' = FirstBlock(c) /\ LastBlock(c)' = LastBlock(c)
        /\ EndIndex(c)' = EndIndex(c)
    BY <2>1 DEF FirstBlock, LastBlock, EndIndex
  <2>7. FirstBlock(c) \in Nat /\ LastBlock(c) \in Nat /\ FirstBlock(c) <= LastBlock(c)
    BY <1>1, <1>2, ClaimFacts
  <2>8. \A j \in Int : Holds(c, j)' <=> \/ FirstBlock(c) < j /\ j <= LastBlock(c)
                                        \/ Filled(c) /\ j = FirstBlock(c)
    BY <1>3, <2>3, <2>6, <2>7 DEF Holds
  <2>9. \A n \in Nat : Uncounted(c, n)' <=> EndIndex(c) <= n /\ n < end[c]
    BY <2>1, <2>3, <2>6 DEF Uncounted
  <2>10. WalkAt(o, c)' /\ CarryAt(home, c)'
    <3>1. /\ Local(c)' = Local(c)
          /\ \A j \in Int : LocalRing(o, c, j)' = LocalRing(o, c, j)
          /\ \A j \in Int : Holds(c, j)' => Local(c)'.index[LocalRing(o, c, j)'] = EntryId(o, j)'
      BY <1>1, <1>2, <2>1, <2>2, <2>3, SameHeader
    <3>2. ipos'[c] = LocalRing(o, c, FirstBlock(c))'
      <4>1. ipos[c] = LocalRing(o, c, FirstBlock(c))
        BY <1>1, <1>2 DEF WalksOK
      <4> QED BY <2>1, <2>6, <2>7, <3>1, <4>1
    <3>3. block'[c] = home[FirstBlock(c)']
      BY <1>1, <1>2, <2>1, <2>6 DEF CarriesOK
    <3> QED BY <2>3, <3>1, <3>2, <3>3 DEF WalkAt, CarryAt
  <2> QED BY <1>3, <2>3, <2>4, <2>5, <2>6, <2>8, <2>9, <2>10
<1>4. CASE ~Filled(c)
  <2>1. NextBlock(c)
    BY <1>4 DEF SetEmpty, Filled
  <2>2. /\ ConsumersOK' /\ RangesOK' /\ WalkAt(o, c)' /\ CarryAt(home, c)'
        /\ at'[c] \in {"none", "value"}
        /\ \A j \in Int : Holds(c, j)' <=> FirstBlock(c) < j /\ j <= LastBlock(c)
        /\ \A n \in Nat : Uncounted(c, n)' <=> EndIndex(c) <= n /\ n < end[c]
    BY <1>2, <2>1, NextBlockInv
  <2> QED BY <1>4, <2>2
<1> QED BY <1>3, <1>4

(* Someone must still deal with an element of a block that is not done.    *)
LEMMA NotDone ==
  ASSUME ConsumersOK, RangesOK, headIndex \in Nat, NEW d \in Consumer,
         NEW k \in Nat, NEW n \in Nat, n \in Span(k), Uncounted(d, n)
  PROVE  Holds(d, k)
<1>1. /\ at[d] # "none" /\ n < end[d]
      /\ (IF at[d] \in {"clear", "free"} THEN EndIndex(d) ELSE index[d]) <= n
  BY DEF Uncounted
<1>2. /\ index[d] \in Nat /\ end[d] \in Nat /\ index[d] < end[d] /\ FirstBlock(d) \in Nat
      /\ EndIndex(d) \in Nat /\ index[d] < EndIndex(d) /\ EndIndex(d) <= end[d]
      /\ EndIndex(d) # end[d] => EndIndex(d) = First(FirstBlock(d)) + BLOCK_SIZE
  BY <1>1, ClaimFacts
<1>3. BlockNo(n) = k
  <2>1. First(k) \in Int /\ BLOCK_SIZE \in Int
    BY FirstType, Sizes
  <2>2. First(k) <= n /\ n < First(k) + BLOCK_SIZE
    BY <2>1 DEF Span
  <2> QED BY <2>2, BlockNoFacts
<1>4. index[d] <= n /\ n <= end[d] - 1
  BY <1>1, <1>2
<1>5. FirstBlock(d) <= k
  <2>1. index[d] \in Int /\ n \in Int
    BY <1>2
  <2> QED BY <1>3, <1>4, <2>1, BlockNoFacts DEF FirstBlock
<1>6. k <= LastBlock(d)
  <2>1. end[d] - 1 \in Int /\ n \in Int
    BY <1>2
  <2> QED BY <1>3, <1>4, <2>1, BlockNoFacts DEF LastBlock
<1>7. at[d] = "free" => k # FirstBlock(d)
  <2> SUFFICES ASSUME at[d] = "free", k = FirstBlock(d) PROVE FALSE
    OBVIOUS
  <2>1. EndIndex(d) <= n /\ EndIndex(d) = First(k) + BLOCK_SIZE
    BY <1>1, <1>2
  <2>2. First(k) \in Int /\ BLOCK_SIZE \in Int
    BY FirstType, Sizes
  <2>3. n < First(k) + BLOCK_SIZE
    BY <2>2 DEF Span
  <2> QED BY <1>2, <2>1, <2>2, <2>3
<1> QED BY <1>1, <1>5, <1>6, <1>7 DEF Holds

LEMMA SetEmptyInv ==
  ASSUME NEW o, NEW lo, NEW hi, NEW home, NEW place, NEW num,
         MemoryInv(o, lo, hi, home, place, num), Claims, Claims', NEW c \in Consumer, SetEmpty(c)
  PROVE  MemoryInv(o, lo, hi, home, place, num)'
<1>0. PICK k : k = FirstBlock(c)
  OBVIOUS
<1>1. /\ HeadersType(o) /\ EntriesType /\ ConsumersOK /\ RangesOK /\ ValuesOK(o, lo, hi, home)
      /\ CountedOK(home) /\ PlacesOK(home, place, num) /\ headIndex \in Nat
  BY InvFacts DEF MemoryInv, KeyPart
<1>2. /\ ConsumerStep(c) /\ at[c] = "setEmpty" /\ headIndex' = headIndex
      /\ emptied' = [emptied EXCEPT ![block[c]] = emptied[block[c]] + Here(c)]
      /\ entries' = entries /\ pool' = pool
  BY DEF SetEmpty, ConsumerStep, vars, counters
<1>3. After(c) = DoneSet \cup Now(c)
  BY DEF After
<1>4. /\ Here(c) \in Nat /\ Now(c) \subseteq Span(k) /\ Now(c) \cap DoneSet = {}
      /\ index[c] \in Now(c) /\ block[c] = home[k] /\ block[c] \in Block
      /\ emptied[block[c]] \in Nat
      /\ emptied[block[c]] + Here(c) = Cardinality(Span(k) \cap After(c))
      /\ emptied[block[c]] + Here(c) <= BLOCK_SIZE
      /\ Filled(c) => Span(k) \subseteq After(c)
  BY <1>0, <1>2, SetEmptyCounts
<1>5. Filled(c) <=> emptied[block[c]] + Here(c) = BLOCK_SIZE
  BY DEF Filled
<1>6. /\ ConsumersOK' /\ RangesOK' /\ WalkAt(o, c)' /\ CarryAt(home, c)'
      /\ at'[c] \in {"none", "value", "clear"} /\ (at'[c] = "clear" <=> Filled(c))
      /\ Filled(c) => FirstBlock(c)' = k
      /\ \A j \in Int : Holds(c, j)' <=> (k < j /\ j <= LastBlock(c)) \/ (Filled(c) /\ j = k)
      /\ \A n \in Nat : Uncounted(c, n)' <=> EndIndex(c) <= n /\ n < end[c]
  BY <1>0, SetEmptyShape
<1>7. OnlyAt(c)
  BY <1>1, <1>2, ConsumerAlone
<1>8. /\ Newest' = Newest /\ bulk' = bulk /\ ppc' = ppc /\ newBlock' = newBlock /\ Back' = Back
      /\ headers' = headers /\ \A j \in Int : Stocked(j)' <=> Stocked(j)
  BY <1>2, ConsumerFrame
<1>9. \A d \in Consumer : d # c => /\ FirstBlock(d)' = FirstBlock(d)
                                   /\ at'[d] = at[d] /\ block'[d] = block[d]
                                   /\ \A j \in Int : Holds(d, j)' <=> Holds(d, j)
                                   /\ \A n \in Nat : Uncounted(d, n)' <=> Uncounted(d, n)
  BY <1>7, OthersKept DEF OnlyAt
<1>10. /\ index[c] \in Nat /\ end[c] \in Nat /\ EndIndex(c) \in Nat /\ index[c] < EndIndex(c)
       /\ EndIndex(c) <= end[c] /\ end[c] <= headIndex /\ k \in Nat /\ k <= LastBlock(c)
       /\ LastBlock(c) \in Nat
  BY <1>0, <1>1, <1>2, ClaimFacts
<1>11. DoneSet' = After(c)
  <2>1. ASSUME NEW n \in Nat PROVE Uncounted(c, n) <=> n \in Now(c) \/ Uncounted(c, n)'
    BY <1>2, <1>6, <1>10 DEF Uncounted, Now
  <2>2. ASSUME NEW n \in Nat, n \in Now(c) PROVE n < headIndex /\ \A d \in Consumer : ~Uncounted(d, n)'
    <3>1. n < EndIndex(c) /\ index[c] <= n
      BY <1>10, <2>2 DEF Now
    <3>2. ~Uncounted(c, n)'
      BY <1>6, <1>10, <3>1
    <3>3. ASSUME NEW d \in Consumer, d # c, Uncounted(d, n) PROVE FALSE
      <4>1. at[d] # "none" /\ n < end[d]
        BY <3>3 DEF Uncounted
      <4>2. index[d] <= n /\ index[d] \in Nat /\ end[d] \in Nat
        <5>1. index[d] \in Nat /\ end[d] \in Nat /\ EndIndex(d) \in Nat /\ index[d] < EndIndex(d)
          BY <1>1, <4>1, ClaimFacts
        <5> QED BY <3>3, <5>1 DEF Uncounted
      <4>3. end[c] <= index[d] \/ end[d] <= index[c]
        BY <1>1, <1>2, <3>3, <4>1 DEF RangesOK
      <4> QED BY <1>10, <3>1, <4>1, <4>2, <4>3
    <3>4. n < headIndex
      BY <1>1, <1>10, <3>1
    <3> QED BY <1>9, <3>2, <3>3, <3>4
  <2>3. ASSUME NEW n \in Nat PROVE n \in DoneSet' <=> n \in DoneSet \/ n \in Now(c)
    <3>1. n \in DoneSet' <=> n < headIndex /\ \A d \in Consumer : ~Uncounted(d, n)'
      BY <1>2 DEF DoneSet
    <3>2. n \in DoneSet <=> n < headIndex /\ \A d \in Consumer : ~Uncounted(d, n)
      BY DEF DoneSet
    <3> QED BY <1>9, <2>1, <2>2, <3>1, <3>2
  <2>4. Now(c) \subseteq Nat
    BY <1>10 DEF Now
  <2>5. DoneSet' \subseteq Nat /\ DoneSet \subseteq Nat
    BY DEF DoneSet
  <2> QED BY <1>3, <2>3, <2>4, <2>5
<1>12. Holds(c, k) /\ \A j \in Int : j # k => (Holds(c, j)' <=> Holds(c, j))
  BY <1>0, <1>2, <1>6, <1>10 DEF Holds
<1>13. Pending(k)'
  <2>1. CASE Filled(c)
    BY <1>6, <1>10, <2>1 DEF Pending
  <2>2. CASE ~Filled(c)
    <3>1. \E n \in Span(k) : n \notin After(c)
      <4>1. Cardinality(Span(k)) = BLOCK_SIZE
        <5>1. First(k) \in Nat /\ BLOCK_SIZE \in Nat
          BY <1>0, <1>1, <1>2, ClaimFacts, Sizes
        <5> QED BY <5>1, RangeSize DEF Span
      <4>2. Span(k) \subseteq After(c) => Span(k) \cap After(c) = Span(k)
        OBVIOUS
      <4> QED BY <1>4, <1>5, <2>2, <4>1, <4>2
    <3>2. PICK n \in Span(k) : n \notin DoneSet'
      BY <1>11, <3>1
    <3>3. First(k) \in Nat /\ BLOCK_SIZE \in Nat /\ First(k + 1) = First(k) + BLOCK_SIZE
      BY <1>0, <1>1, <1>2, <1>10, ClaimFacts, Sizes, FirstNext
    <3>4. n \in Nat /\ n < First(k + 1)
      BY <3>3 DEF Span
    <3>5. CASE headIndex <= n
      <4>1. headIndex' < First(k + 1)
        BY <1>1, <1>2, <3>3, <3>4, <3>5
      <4> QED BY <4>1 DEF Pending
    <3>6. CASE ~(headIndex <= n)
      <4>1. n < headIndex'
        BY <1>1, <1>2, <3>4, <3>6
      <4>2. PICK d \in Consumer : Uncounted(d, n)'
        BY <3>2, <3>4, <4>1 DEF DoneSet
      <4>3. d # c
        <5> SUFFICES ASSUME Uncounted(c, n)' PROVE FALSE
          BY <4>2
        <5>1. EndIndex(c) <= n /\ n < end[c]
          BY <1>6, <3>4
        <5>2. EndIndex(c) # end[c]
          BY <1>10, <3>4, <5>1
        <5>3. EndIndex(c) = First(k) + BLOCK_SIZE
          BY <1>0, <1>1, <1>2, <5>2, ClaimFacts
        <5> QED BY <1>10, <3>3, <3>4, <5>1, <5>3
      <4>4. Uncounted(d, n)
        BY <1>9, <3>4, <4>2, <4>3
      <4>5. Holds(d, k)
        BY <1>1, <1>10, <3>4, <4>4, NotDone
      <4>6. Holds(d, k)'
        BY <1>9, <1>10, <4>3, <4>5
      <4> QED BY <4>6 DEF Pending
    <3> QED BY <3>5, <3>6
  <2> QED BY <2>1, <2>2
<1>14. \A j \in Int : Pending(j)' <=> Pending(j)
  <2> SUFFICES ASSUME NEW j \in Int PROVE Pending(j)' <=> Pending(j)
    OBVIOUS
  <2>1. CASE j = k
    BY <1>12, <1>13, <2>1 DEF Pending
  <2>2. CASE j # k
    <3>1. \A d \in Consumer : Holds(d, j)' <=> Holds(d, j)
      BY <1>9, <1>12, <2>2
    <3> QED BY <1>2, <3>1 DEF Pending
  <2> QED BY <2>1, <2>2
<1>15. LiveSet' = LiveSet /\ k \in LiveSet
  <2>1. LiveSet' = LiveSet
    BY <1>8, <1>14, LiveKept
  <2>2. k \in LiveSet
    BY <1>0, <1>2, AtBlock
  <2> QED BY <2>1, <2>2
<1>16. ValuesOK(o, lo, hi, home)'
  <2>1. HeadersSame /\ ValuesSame
    BY <1>2, <1>8 DEF HeadersSame, ValuesSame
  <2> QED BY <1>1, <1>15, <2>1, ValuesKept
<1>17. CountedOK(home)'
  <2>1. emptied' \in [Block -> 0..BLOCK_SIZE]
    BY <1>1, <1>2, <1>4, Sizes DEF CountedOK
  <2>2. \A b \in Block : emptied'[b] = IF b = home[k] THEN emptied[block[c]] + Here(c) ELSE emptied[b]
    BY <1>1, <1>2, <1>4 DEF CountedOK
  <2>3. ASSUME NEW j \in LiveSet PROVE emptied'[home[j]] = Cardinality(Span(j) \cap DoneSet')
    <3>1. CASE j = k
      BY <1>4, <1>11, <2>2, <3>1
    <3>2. CASE j # k
      <4>1. home[j] # home[k]
        BY <1>1, <1>15, <3>2 DEF PlacesOK
      <4>2. home[j] \in Block
        BY <1>1 DEF ValuesOK
      <4>3. Span(j) \cap Now(c) = {}
        <5> SUFFICES ASSUME NEW n, n \in Span(j), n \in Span(k) PROVE FALSE
          BY <1>4
        <5>1. j \in Int /\ k \in Int
          BY <1>10 DEF LiveSet
        <5>2. First(j) \in Int /\ First(k) \in Int /\ BLOCK_SIZE \in Int
          BY <5>1, FirstType, Sizes
        <5>3. n \in Int /\ First(j) <= n /\ n < First(j) + BLOCK_SIZE
              /\ First(k) <= n /\ n < First(k) + BLOCK_SIZE
          BY <5>2 DEF Span
        <5> QED BY <3>2, <5>1, <5>3, BlockNoFacts
      <4>4. Span(j) \cap After(c) = Span(j) \cap DoneSet
        BY <1>3, <4>3
      <4> QED BY <1>1, <1>11, <2>2, <4>1, <4>2, <4>4 DEF CountedOK
    <3> QED BY <3>1, <3>2
  <2>4. ASSUME ppc' \in {"construct", "storeValue"} PROVE emptied'[newBlock'] = 0
    <3>1. newBlock \in Block
      <4>1. newBlock # Null /\ newBlock \in Block \cup {Null}
        BY <1>8, <2>4 DEF MemoryInv, ProducerOK, NewBlockOK, ProducerType
      <4> QED BY <4>1
    <3>2. place[newBlock] = "hand" /\ place[home[k]] = "home"
      BY <1>1, <1>8, <1>15, <2>4, <3>1 DEF PlacesOK
    <3>3. newBlock # home[k]
      BY <3>2
    <3> QED BY <1>1, <1>8, <2>2, <2>4, <3>1, <3>3 DEF CountedOK
  <2>5. ASSUME NEW d \in Consumer, at'[d] \in {"clear", "free"}
        PROVE  Span(FirstBlock(d)') \subseteq DoneSet' /\ (d # c => FirstBlock(d)' # k)
    <3>1. CASE d = c
      <4>1. Filled(c)
        BY <1>6, <2>5, <3>1
      <4> QED BY <1>4, <1>5, <1>6, <1>11, <3>1, <4>1
    <3>2. CASE d # c
      <4>1. at[d] \in {"clear", "free"} /\ FirstBlock(d)' = FirstBlock(d)
        BY <1>9, <2>5, <3>2
      <4>2. Span(FirstBlock(d)) \subseteq DoneSet
        BY <1>1, <4>1 DEF CountedOK
      <4>3. FirstBlock(d) # k
        BY <1>4, <4>2
      <4> QED BY <1>3, <1>11, <4>1, <4>2, <4>3
    <3> QED BY <3>1, <3>2
  <2>6. \A d \in Consumer : at'[d] \in {"clear", "free"} => Span(FirstBlock(d))' \subseteq DoneSet'
    BY <2>5 DEF Span
  <2>7. ASSUME NEW d \in Consumer, NEW f \in Consumer, d # f,
               at'[d] \in {"clear", "free"}, at'[f] \in {"clear", "free"}
        PROVE  FirstBlock(d)' # FirstBlock(f)'
    <3>1. CASE d # c /\ f # c
      <4>1. /\ at[d] \in {"clear", "free"} /\ FirstBlock(d)' = FirstBlock(d)
            /\ at[f] \in {"clear", "free"} /\ FirstBlock(f)' = FirstBlock(f)
        BY <1>9, <2>7, <3>1
      <4> QED BY <1>1, <2>7, <4>1 DEF CountedOK
    <3>2. CASE d = c \/ f = c
      <4>1. at'[c] = "clear" /\ FirstBlock(c)' = k
        BY <1>6, <2>7, <3>2
      <4> QED BY <2>5, <2>7, <3>2, <4>1
    <3> QED BY <3>1, <3>2
  <2> QED BY <1>15, <2>1, <2>3, <2>4, <2>6, <2>7 DEF CountedOK
<1>18. PlacesOK(home, place, num)'
  <2>1. \A d \in Consumer : /\ at'[d] = "free" <=> at[d] = "free"
                            /\ at[d] = "free" => block'[d] = block[d]
    BY <1>2, <1>6, <1>9
  <2>2. /\ \A d \in Consumer : at'[d] = "free" => /\ block'[d] \in Block
                                                  /\ place[block'[d]] = "free" /\ num[block'[d]] = d
        /\ \A b \in Block : place[b] = "free" => /\ num[b] \in Consumer
                                                 /\ at'[num[b]] = "free" /\ block'[num[b]] = b
    BY <1>1, <2>1 DEF PlacesOK
  <2> QED BY <1>1, <1>2, <1>8, <1>15, <2>2 DEF PlacesOK
<1> QED BY <1>2, <1>6, <1>16, <1>17, <1>18, ConsumerParts

(* Only the consumer that filled a block up still has to do with it.       *)
LEMMA ClearAlone ==
  ASSUME NEW o, NEW lo, NEW hi, NEW home, NEW place, NEW num,
         MemoryInv(o, lo, hi, home, place, num), Claims, NEW c \in Consumer, at[c] = "clear",
         NEW k \in Nat, k = FirstBlock(c)
  PROVE  First(k + 1) <= headIndex /\ \A d \in Consumer : Holds(d, k) => d = c
<1>1. ConsumersOK /\ RangesOK /\ CountedOK(home) /\ headIndex \in Nat
  BY InvFacts DEF MemoryInv
<1>2. Span(k) \subseteq DoneSet
  BY <1>1 DEF CountedOK
<1>3. /\ First(k) \in Nat /\ BLOCK_SIZE \in Nat /\ BLOCK_SIZE > 1
      /\ First(k + 1) = First(k) + BLOCK_SIZE
  BY <1>1, ClaimFacts, Sizes, FirstNext
<1>4. First(k + 1) <= headIndex
  <2>1. First(k) + BLOCK_SIZE - 1 \in Span(k)
    BY <1>3 DEF Span
  <2>2. First(k) + BLOCK_SIZE - 1 < headIndex
    BY <1>2, <2>1 DEF DoneSet
  <2> QED BY <1>1, <1>3, <2>2
<1>5. ASSUME NEW d \in Consumer, Holds(d, k), d # c PROVE FALSE
  <2>1. /\ at[d] # "none" /\ FirstBlock(d) <= k /\ k <= LastBlock(d)
        /\ at[d] = "free" => k # FirstBlock(d)
    BY <1>5 DEF Holds
  <2>2. /\ index[d] \in Nat /\ end[d] \in Nat /\ index[d] < end[d] /\ EndIndex(d) \in Nat
        /\ FirstBlock(d) \in Nat /\ LastBlock(d) \in Nat
        /\ First(FirstBlock(d)) <= index[d] /\ EndIndex(d) <= First(FirstBlock(d)) + BLOCK_SIZE
        /\ First(FirstBlock(d)) \in Nat
    BY <1>1, <2>1, ClaimFacts
  <2>3. First(k) <= end[d] - 1
    <3>1. end[d] - 1 \in Int /\ LastBlock(d) \in Int /\ k \in Int
      BY <2>2
    <3>2. First(LastBlock(d)) <= end[d] - 1 /\ First(LastBlock(d)) \in Int
      BY <3>1, BlockNoFacts, FirstType DEF LastBlock
    <3>3. k < LastBlock(d) => First(k) + BLOCK_SIZE <= First(LastBlock(d))
      BY <3>1, FirstOrder
    <3> QED BY <1>3, <2>1, <2>2, <3>1, <3>2, <3>3
  <2>4. index[d] < First(k + 1)
    <3>1. index[d] \in Int /\ FirstBlock(d) \in Int /\ k \in Int
      BY <2>2
    <3>2. index[d] < First(FirstBlock(d)) + BLOCK_SIZE
      BY <3>1, BlockNoFacts DEF FirstBlock
    <3>3. FirstBlock(d) < k => First(FirstBlock(d)) + BLOCK_SIZE <= First(k)
      BY <3>1, FirstOrder
    <3> QED BY <1>3, <2>1, <2>2, <3>1, <3>2, <3>3
  <2>5. CASE at[d] \in {"clear", "free"}
    <3>1. FirstBlock(d) # k
      BY <1>1, <1>5, <2>5 DEF CountedOK
    <3>2. FirstBlock(d) \in Int /\ k \in Int /\ FirstBlock(d) < k
      BY <2>1, <2>2, <3>1
    <3>3. First(FirstBlock(d)) + BLOCK_SIZE <= First(k)
      BY <3>2, FirstOrder
    <3>4. Uncounted(d, First(k))
      BY <1>3, <2>1, <2>2, <2>3, <2>5, <3>3 DEF Uncounted
    <3>5. First(k) \in Span(k)
      BY <1>3 DEF Span
    <3> QED BY <1>2, <3>4, <3>5 DEF DoneSet
  <2>6. CASE at[d] \notin {"clear", "free"}
    <3>1. PICK n : n = IF index[d] < First(k) THEN First(k) ELSE index[d]
      OBVIOUS
    <3>2. n \in Span(k) /\ index[d] <= n /\ n < end[d]
      BY <1>3, <2>2, <2>3, <2>4, <3>1 DEF Span
    <3>3. Uncounted(d, n)
      BY <2>1, <2>6, <3>2 DEF Uncounted
    <3> QED BY <1>2, <3>2, <3>3 DEF DoneSet
  <2> QED BY <2>5, <2>6
<1> QED BY <1>4, <1>5

(* The entry of a block that is dequeued entirely is cleared: the block    *)
(* leaves the index.                                                       *)
LEMMA ClearEntryInv ==
  ASSUME NEW o, NEW lo, NEW hi, NEW home, NEW place, NEW num,
         MemoryInv(o, lo, hi, home, place, num), Claims, Claims', NEW c \in Consumer, ClearEntry(c)
  PROVE  \E new, to : MemoryInv(o, lo, hi, home, new, to)'
<1>0. PICK k : k = FirstBlock(c)
  OBVIOUS
<1>1. /\ HeadersType(o) /\ EntriesType /\ ConsumersOK /\ RangesOK /\ ValuesOK(o, lo, hi, home)
      /\ WalksOK(o) /\ CarriesOK(home) /\ CountedOK(home) /\ PlacesOK(home, place, num)
      /\ KeyPart(o, lo, hi) /\ headIndex \in Nat
  BY InvFacts DEF MemoryInv, KeyPart
<1>2. /\ ConsumerStep(c) /\ at[c] = "clear" /\ at' = [at EXCEPT ![c] = "free"]
      /\ entries' = [entries EXCEPT ![Entry(c)].value = Null]
      /\ emptied' = emptied /\ pool' = pool /\ headIndex' = headIndex
      /\ index' = index /\ end' = end /\ hdr' = hdr /\ ipos' = ipos /\ block' = block
  BY DEF ClearEntry, ConsumerStep, Cgoto, vars, counters, blocks
<1>3. OnlyAt(c) /\ DOMAIN item' = Consumer /\ thrown' \in [Consumer -> BOOLEAN]
  BY <1>1, <1>2, ConsumerAlone
<1>4. /\ Newest' = Newest /\ bulk' = bulk /\ ppc' = ppc /\ newBlock' = newBlock /\ Back' = Back
      /\ headers' = headers /\ \A j \in Int : Stocked(j)' <=> Stocked(j)
  BY <1>2, ConsumerFrame
<1>5. k \in Nat /\ k \in LiveSet /\ home[k] \in Block
  BY <1>0, <1>2, AtBlock
<1>6. Entry(c) = EntryId(o, k) /\ Entry(c) \in 1..Len(entries)
  BY <1>0, <1>2, FoundEntry
<1>7. at'[c] = "free" /\ block[c] = home[k]
  BY <1>0, <1>1, <1>2 DEF ConsumersOK, CarriesOK
<1>8. \A d \in Consumer : /\ FirstBlock(d)' = FirstBlock(d) /\ LastBlock(d)' = LastBlock(d)
                          /\ EndIndex(d)' = EndIndex(d) /\ (at'[d] = "none" <=> at[d] = "none")
                          /\ d # c => at'[d] = at[d]
  <2>1. \A d \in Consumer : (at'[d] = "none" <=> at[d] = "none") /\ (d # c => at'[d] = at[d])
    BY <1>1, <1>2 DEF ConsumersOK
  <2>2. \A d \in Consumer : /\ FirstBlock(d)' = FirstBlock(d) /\ LastBlock(d)' = LastBlock(d)
                            /\ EndIndex(d)' = EndIndex(d)
    BY <1>2 DEF FirstBlock, LastBlock, EndIndex
  <2> QED BY <2>1, <2>2
<1>9. ConsumersOK'
  <2>1. at' \in [Consumer -> Labels]
    BY <1>1, <1>2 DEF ConsumersOK, Labels
  <2> QED BY <1>1, <1>2, <1>3, <1>4, <2>1 DEF ConsumersOK
<1>10. RangesOK'
  BY <1>1, <1>2, <1>8 DEF RangesOK
<1>11. /\ \A d \in Consumer, j \in Int : Holds(d, j)' <=> Holds(d, j) /\ ~(d = c /\ j = k)
       /\ \A d \in Consumer, n \in Nat : Uncounted(d, n)' <=> Uncounted(d, n)
  <2>1. ASSUME NEW d \in Consumer, NEW j \in Int
        PROVE  Holds(d, j)' <=> Holds(d, j) /\ ~(d = c /\ j = k)
    <3>1. CASE d = c
      BY <1>0, <1>2, <1>7, <1>8, <3>1 DEF Holds
    <3>2. CASE d # c
      BY <1>8, <3>2 DEF Holds
    <3> QED BY <3>1, <3>2
  <2>2. ASSUME NEW d \in Consumer, NEW n \in Nat PROVE Uncounted(d, n)' <=> Uncounted(d, n)
    <3>1. CASE d = c
      BY <1>2, <1>7, <1>8, <3>1 DEF Uncounted
    <3>2. CASE d # c
      BY <1>2, <1>8, <3>2 DEF Uncounted
    <3> QED BY <3>1, <3>2
  <2> QED BY <2>1, <2>2
<1>12. DoneSet' = DoneSet
  BY <1>2, <1>11 DEF DoneSet
<1>13. LiveSet' = LiveSet \ {k}
  <2>1. First(k + 1) <= headIndex /\ \A d \in Consumer : Holds(d, k) => d = c
    BY <1>0, <1>2, <1>5, ClearAlone
  <2>2. First(k + 1) \in Int
    BY <1>5, FirstType
  <2>3. ASSUME NEW j \in Int PROVE Pending(j)' <=> Pending(j) /\ j # k
    <3>1. CASE j = k
      BY <1>1, <1>2, <1>11, <2>1, <2>2, <3>1 DEF Pending
    <3>2. CASE j # k
      BY <1>2, <1>11, <3>2 DEF Pending
    <3> QED BY <3>1, <3>2
  <2> QED BY <1>4, <2>3 DEF LiveSet
<1>14. ValuesOK(o, lo, hi, home)'
  <2>1. HeadersSame
    BY <1>4 DEF HeadersSame
  <2>2. entries' = [entries EXCEPT ![EntryId(o, k)].value = Null]
    BY <1>2, <1>6
  <2> QED BY <1>1, <1>5, <1>13, <2>1, <2>2, ValuesDropped
<1>15. WalkAt(o, c)' /\ CarryAt(home, c)'
  <2>1. /\ Local(c)' = Local(c) /\ \A j \in Int : LocalRing(o, c, j)' = LocalRing(o, c, j)
        /\ \A j \in Int : Holds(c, j)' => Local(c)'.index[LocalRing(o, c, j)'] = EntryId(o, j)'
    BY <1>1, <1>2, <1>4, <1>7, SameHeader
  <2>2. ipos'[c] = LocalRing(o, c, FirstBlock(c))'
    <3>1. ipos[c] = LocalRing(o, c, k)
      BY <1>0, <1>1, <1>2 DEF WalksOK
    <3>2. FirstBlock(c)' = k /\ k \in Int
      BY <1>0, <1>5, <1>8
    <3>3. LocalRing(o, c, FirstBlock(c))' = LocalRing(o, c, k)
      BY <1>2, <3>2 DEF LocalRing
    <3> QED BY <1>2, <3>1, <3>3
  <2> QED BY <1>7, <2>1, <2>2 DEF WalkAt, CarryAt
<1>16. CountedOK(home)'
  <2>1. \A d \in Consumer : at'[d] \in {"clear", "free"} <=> at[d] \in {"clear", "free"}
    BY <1>2, <1>7, <1>8
  <2>2. \A d \in Consumer : at'[d] \in {"clear", "free"} => Span(FirstBlock(d))' \subseteq DoneSet'
    <3> SUFFICES ASSUME NEW d \in Consumer, at[d] \in {"clear", "free"}
                 PROVE  Span(FirstBlock(d)') \subseteq DoneSet
      BY <1>12, <2>1 DEF Span
    <3> QED BY <1>1, <1>8 DEF CountedOK
  <2>3. \A d, e \in Consumer :
          d # e /\ at'[d] \in {"clear", "free"} /\ at'[e] \in {"clear", "free"}
            => FirstBlock(d)' # FirstBlock(e)'
    BY <1>1, <1>8, <2>1 DEF CountedOK
  <2>4. \A j \in LiveSet' : emptied'[home[j]] = Cardinality(Span(j) \cap DoneSet')
    BY <1>1, <1>2, <1>12, <1>13 DEF CountedOK
  <2>5. ppc' \in {"construct", "storeValue"} => emptied'[newBlock'] = 0
    BY <1>1, <1>2, <1>4 DEF CountedOK
  <2> QED BY <1>1, <1>2, <2>2, <2>3, <2>4, <2>5 DEF CountedOK
<1>17. PICK b \in Block : b = home[k]
  BY <1>5
<1>18. \E new, to : PlacesOK(home, new, to)'
  <2>1. InBlocks(home)'
    <3>1. \A d \in Consumer : at'[d] = "free" => block'[d] \in Block
      BY <1>1, <1>2, <1>5, <1>7, <1>8 DEF PlacesOK
    <3>2. \A i \in 1..Back' : bulk'.chain[i] \in Block
      <4>1. bulk.chain \in Seq(Block) /\ Back \in 0..Len(bulk.chain)
        <5>1. bulk.chain \in Seq(Block) /\ Back \in Nat /\ Chained \in Nat /\ bulk.undone \in Nat
          BY InvFacts
        <5>2. Back <= Chained
          BY <5>1 DEF MemoryInv, ProducerOK, BulkOK, Back
        <5> QED BY <5>1, <5>2 DEF Chained
      <4> QED BY <1>4, <4>1
    <3>3. \A j \in LiveSet' : home[j] \in Block
      BY <1>1, <1>13 DEF ValuesOK
    <3>4. pool' \subseteq Block
      BY <1>1, <1>2 DEF PlacesOK
    <3> QED BY <3>1, <3>2, <3>3, <3>4 DEF InBlocks
  <2>2. Only(home, b, "free", c)'
    <3>1. Is(home, b, "free", c)'
      BY <1>2, <1>7, <1>17 DEF Is
    <3>2. place[b] = "home" /\ num[b] = k
      BY <1>1, <1>5, <1>17 DEF PlacesOK
    <3>3. ASSUME NEW p, NEW n, Is(home, b, p, n)'
          PROVE  p = "free" /\ (p \in Numbered => n = c)
      <4>1. CASE p = "pool" \/ p = "hand"
        BY <1>1, <1>2, <1>4, <3>2, <3>3, <4>1 DEF Is, PlacesOK
      <4>2. CASE p = "home"
        <5>1. n \in LiveSet' /\ home[n] = b
          BY <3>3, <4>2 DEF Is
        <5> QED BY <1>1, <1>13, <3>2, <5>1 DEF PlacesOK
      <4>3. CASE p = "undone"
        BY <1>1, <1>4, <3>2, <3>3, <4>3 DEF Is, PlacesOK
      <4>4. CASE p = "free"
        <5>1. n \in Consumer /\ at'[n] = "free" /\ block[n] = b
          BY <1>2, <3>3, <4>4 DEF Is
        <5>2. n # c => place[b] = "free"
          BY <1>1, <1>8, <5>1 DEF PlacesOK
        <5> QED BY <3>2, <4>4, <5>2
      <4> QED BY <3>3, <4>1, <4>2, <4>3, <4>4 DEF Is
    <3> QED BY <3>1, <3>3 DEF Only
  <2>3. ASSUME NEW x \in Block, x # b, NEW p, NEW n PROVE Is(home, x, p, n)' <=> Is(home, x, p, n)
    <3>1. n \in LiveSet' /\ home[n] = x <=> n \in LiveSet /\ home[n] = x
      BY <1>13, <1>17, <2>3
    <3>2. n \in Consumer /\ at'[n] = "free" /\ block'[n] = x
            <=> n \in Consumer /\ at[n] = "free" /\ block[n] = x
      BY <1>2, <1>7, <1>8, <1>17, <2>3
    <3> QED BY <1>2, <1>4, <3>1, <3>2 DEF Is
  <2> QED BY <1>1, <2>1, <2>2, <2>3, PlaceMoves
<1>19. \E e \in 1..Len(entries) : \E x \in Block \cup {Null} :
         entries' = [entries EXCEPT ![e].value = x]
  BY <1>2, <1>6
<1> QED BY <1>2, <1>9, <1>10, <1>14, <1>15, <1>16, <1>18, <1>19, ConsumerParts

(* A block that is dequeued and out of the index goes to the pool.         *)
LEMMA AddToFreeListInv ==
  ASSUME NEW o, NEW lo, NEW hi, NEW home, NEW place, NEW num,
         MemoryInv(o, lo, hi, home, place, num), Claims, Claims', NEW c \in Consumer,
         AddToFreeList(c)
  PROVE  \E new, to : MemoryInv(o, lo, hi, home, new, to)'
<1>0. PICK k, b : k = FirstBlock(c) /\ b = block[c]
  OBVIOUS
<1>1. /\ HeadersType(o) /\ EntriesType /\ ConsumersOK /\ RangesOK /\ ValuesOK(o, lo, hi, home)
      /\ CountedOK(home) /\ PlacesOK(home, place, num) /\ headIndex \in Nat
  BY InvFacts DEF MemoryInv, KeyPart
<1>2. /\ ConsumerStep(c) /\ at[c] = "free" /\ NextBlock(c) /\ pool' = pool \cup {block[c]}
      /\ emptied' = emptied /\ entries' = entries /\ headIndex' = headIndex
  BY DEF AddToFreeList, ConsumerStep, vars, counters
<1>3. /\ ConsumersOK' /\ RangesOK' /\ WalkAt(o, c)' /\ CarryAt(home, c)'
      /\ at'[c] \in {"none", "value"}
      /\ \A j \in Int : Holds(c, j)' <=> k < j /\ j <= LastBlock(c)
      /\ \A n \in Nat : Uncounted(c, n)' <=> EndIndex(c) <= n /\ n < end[c]
  BY <1>0, <1>2, NextBlockInv
<1>4. OnlyAt(c)
  BY <1>1, <1>2, ConsumerAlone
<1>5. /\ Newest' = Newest /\ bulk' = bulk /\ ppc' = ppc /\ newBlock' = newBlock /\ Back' = Back
      /\ headers' = headers /\ \A j \in Int : Stocked(j)' <=> Stocked(j)
  BY <1>2, ConsumerFrame
<1>6. \A d \in Consumer : d # c => /\ FirstBlock(d)' = FirstBlock(d)
                                   /\ at'[d] = at[d] /\ block'[d] = block[d]
                                   /\ \A j \in Int : Holds(d, j)' <=> Holds(d, j)
                                   /\ \A n \in Nat : Uncounted(d, n)' <=> Uncounted(d, n)
  BY <1>4, OthersKept DEF OnlyAt
<1>7. k \in Nat /\ LastBlock(c) \in Nat
  BY <1>0, <1>1, <1>2, ClaimFacts
<1>8. \A d \in Consumer : /\ \A j \in Int : Holds(d, j)' <=> Holds(d, j)
                          /\ \A n \in Nat : Uncounted(d, n)' <=> Uncounted(d, n)
  <2>1. \A j \in Int : Holds(c, j)' <=> Holds(c, j)
    BY <1>0, <1>2, <1>3, <1>7 DEF Holds
  <2>2. \A n \in Nat : Uncounted(c, n)' <=> Uncounted(c, n)
    BY <1>2, <1>3 DEF Uncounted
  <2> QED BY <1>6, <2>1, <2>2
<1>9. LiveSet' = LiveSet /\ DoneSet' = DoneSet
  <2>1. \A j \in Int : Pending(j)' <=> Pending(j)
    BY <1>2, <1>8 DEF Pending
  <2>2. DoneSet' = DoneSet
    BY <1>2, <1>8 DEF DoneSet
  <2> QED BY <1>5, <2>1, <2>2, LiveKept
<1>10. ValuesOK(o, lo, hi, home)'
  <2>1. HeadersSame /\ ValuesSame
    BY <1>2, <1>5 DEF HeadersSame, ValuesSame
  <2> QED BY <1>1, <1>9, <2>1, ValuesKept
<1>11. CountedOK(home)'
  <2>1. \A d \in Consumer : at'[d] \in {"clear", "free"} =>
          d # c /\ at[d] \in {"clear", "free"} /\ FirstBlock(d)' = FirstBlock(d)
    BY <1>3, <1>6
  <2>2. \A d \in Consumer : at'[d] \in {"clear", "free"} => Span(FirstBlock(d))' \subseteq DoneSet'
    <3> SUFFICES ASSUME NEW d \in Consumer, at'[d] \in {"clear", "free"}
                 PROVE  Span(FirstBlock(d)') \subseteq DoneSet
      BY <1>9 DEF Span
    <3> QED BY <1>1, <2>1 DEF CountedOK
  <2>3. \A d, e \in Consumer :
          d # e /\ at'[d] \in {"clear", "free"} /\ at'[e] \in {"clear", "free"}
            => FirstBlock(d)' # FirstBlock(e)'
    BY <1>1, <2>1 DEF CountedOK
  <2>4. \A j \in LiveSet' : emptied'[home[j]] = Cardinality(Span(j) \cap DoneSet')
    BY <1>1, <1>2, <1>9 DEF CountedOK
  <2>5. ppc' \in {"construct", "storeValue"} => emptied'[newBlock'] = 0
    BY <1>1, <1>2, <1>5 DEF CountedOK
  <2> QED BY <1>1, <1>2, <2>2, <2>3, <2>4, <2>5 DEF CountedOK
<1>12. b \in Block /\ place[b] = "free" /\ num[b] = c
  BY <1>0, <1>1, <1>2 DEF PlacesOK
<1>13. \E new, to : PlacesOK(home, new, to)'
  <2>1. InBlocks(home)'
    <3>1. \A d \in Consumer : at'[d] = "free" => block'[d] \in Block
      BY <1>1, <1>3, <1>6 DEF PlacesOK
    <3>2. \A i \in 1..Back' : bulk'.chain[i] \in Block
      <4>1. bulk.chain \in Seq(Block) /\ Back \in 0..Len(bulk.chain)
        <5>1. bulk.chain \in Seq(Block) /\ Back \in Nat /\ Chained \in Nat /\ bulk.undone \in Nat
          BY InvFacts
        <5>2. Back <= Chained
          BY <5>1 DEF MemoryInv, ProducerOK, BulkOK, Back
        <5> QED BY <5>1, <5>2 DEF Chained
      <4> QED BY <1>5, <4>1
    <3>3. \A j \in LiveSet' : home[j] \in Block
      BY <1>1, <1>9 DEF ValuesOK
    <3>4. pool' \subseteq Block
      BY <1>0, <1>1, <1>2, <1>12 DEF PlacesOK
    <3> QED BY <3>1, <3>2, <3>3, <3>4 DEF InBlocks
  <2>2. Only(home, b, "pool", c)'
    <3>1. Is(home, b, "pool", c)'
      BY <1>0, <1>2 DEF Is
    <3>2. ASSUME NEW p, NEW n, Is(home, b, p, n)' PROVE p = "pool"
      <4>1. p # "hand"
        BY <1>1, <1>5, <1>12, <3>2 DEF Is, PlacesOK
      <4>2. p # "home"
        BY <1>1, <1>9, <1>12, <3>2 DEF Is, PlacesOK
      <4>3. p # "undone"
        BY <1>1, <1>5, <1>12, <3>2 DEF Is, PlacesOK
      <4>4. ASSUME p = "free" PROVE FALSE
        <5>1. n \in Consumer /\ at'[n] = "free" /\ block'[n] = b
          BY <3>2, <4>4 DEF Is
        <5>2. n # c
          BY <1>3, <5>1
        <5>3. at[n] = "free" /\ block[n] = b
          BY <1>6, <5>1, <5>2
        <5> QED BY <1>1, <1>12, <5>1, <5>2, <5>3 DEF PlacesOK
      <4> QED BY <3>2, <4>1, <4>2, <4>3, <4>4 DEF Is
    <3> QED BY <3>1, <3>2 DEF Only, Numbered
  <2>3. ASSUME NEW x \in Block, x # b, NEW p, NEW n PROVE Is(home, x, p, n)' <=> Is(home, x, p, n)
    <3>1. x \in pool' <=> x \in pool
      BY <1>0, <1>2, <2>3
    <3>2. n \in Consumer /\ at'[n] = "free" /\ block'[n] = x
            <=> n \in Consumer /\ at[n] = "free" /\ block[n] = x
      BY <1>0, <1>3, <1>6, <2>3
    <3> QED BY <1>5, <1>9, <3>1, <3>2 DEF Is
  <2> QED BY <1>1, <1>12, <2>1, <2>2, <2>3, PlaceMoves
<1> QED BY <1>2, <1>3, <1>10, <1>11, <1>13, ConsumerParts

(* The blocks that have come and gone left their keys in the index.        *)
Latest(e) == CHOOSE k \in (Past - InitialIndexSize)..(Past - 1) : k % InitialIndexSize = e - 1

LEMMA LatestFacts ==
  ASSUME NEW k \in Int, -1 - InitialIndexSize < k, k <= -1
  PROVE  Latest(Ring(-Past, InitialIndexSize, k) + 1) = Past + k
<1> DEFINE I == InitialIndexSize
           e == Ring(-Past, I, k) + 1
<1>1. I \in Nat /\ I > 0 /\ Past \in Nat
  BY QueueAssumption, Sizes
<1>2. Ring(-Past, I, k) \in 0..(I - 1) /\ Ring(-Past, I, k) = (Past + k) % I
  <2>1. Ring(-Past, I, k) \in 0..(I - 1)
    <3>1. -Past \in Int
      BY <1>1
    <3> QED BY <1>1, <3>1, RingType
  <2>2. k - (-Past) = Past + k
    BY <1>1
  <2> QED BY <2>1, <2>2 DEF Ring
<1>3. \A j \in (Past - I)..(Past - 1) : j % I = e - 1 => j = Past + k
  <2> SUFFICES ASSUME NEW j \in (Past - I)..(Past - 1), j % I = e - 1 PROVE j = Past + k
    OBVIOUS
  <2>1. j \in Int /\ Past + k \in Int /\ Past - I - 1 \in Int
    BY <1>1
  <2>2. Ring(0, I, j) = Ring(0, I, Past + k)
    <3>1. j - 0 = j /\ (Past + k) - 0 = Past + k
      BY <2>1
    <3>2. j % I = (Past + k) % I
      BY <1>2
    <3> QED BY <3>1, <3>2 DEF Ring
  <2>3. /\ Past - I - 1 < j /\ j <= (Past - I - 1) + I
        /\ Past - I - 1 < Past + k /\ Past + k <= (Past - I - 1) + I
    BY <1>1, <2>1
  <2>4. 0 \in Int
    OBVIOUS
  <2> HIDE DEF I
  <2> QED BY ONLY <1>1, <2>1, <2>2, <2>3, <2>4, RingOnce
<1>4. Past + k \in (Past - I)..(Past - 1) /\ (Past + k) % I = e - 1
  BY <1>1, <1>2
<1> HIDE DEF e
<1>5. Latest(e) = Past + k
  BY <1>3, <1>4 DEF Latest
<1> QED BY <1>5 DEF e

LEMMA InitIndex ==
  ASSUME QueueInit, NEW o, o = <<-Past>>, NEW lo, NEW hi, hi = -1,
         lo = -1 - (IF Past < InitialIndexSize THEN Past ELSE InitialIndexSize)
  PROVE  KeyPart(o, lo, hi) /\ Newest = 1
<1> DEFINE I == InitialIndexSize
<1>1. I \in Nat /\ I > 1 /\ Past \in Nat /\ -Past \in Int
  BY QueueAssumption, Sizes
<1>2. /\ entries = [e \in 1..I |-> [key |-> IF Latest(e) < 0 THEN INVALID_BLOCK_BASE
                                           ELSE (Latest(e) * BLOCK_SIZE) % IndexMod,
                                    value |-> Null]]
      /\ headers = <<[capacity |-> I, tail |-> (Past - 1) % I,
                      index |-> [i \in 0..(I - 1) |-> i + 1]]>>
      /\ ppc = "idle" /\ idxEntry = 1 /\ bulk = NoBulk /\ tailIndex = 0
  BY DEF QueueInit, Init, MemoryInit, Latest
<1>3. \A e \in 1..I : Latest(e) \in Int /\ (Past - I <= Latest(e) /\ Latest(e) <= Past - 1)
                      /\ Latest(e) % I = e - 1
  <2> SUFFICES ASSUME NEW e \in 1..I
               PROVE  /\ Latest(e) \in (Past - I)..(Past - 1) /\ Latest(e) % I = e - 1
    BY <1>1
  <2>1. \E k \in (Past - I)..(Past - 1) : k % I = e - 1
    <3>1. 0 \in Int /\ Past - I - 1 \in Int /\ e - 1 \in 0..(I - 1) /\ I > 0
      BY <1>1
    <3> HIDE DEF I
    <3>2. \E k \in Int : Past - I - 1 < k /\ k <= (Past - I - 1) + I /\ Ring(0, I, k) = e - 1
      BY ONLY <1>1, <3>1, RingSome, ZenonT(30)
    <3>3. PICK k \in Int : Past - I - 1 < k /\ k <= (Past - I - 1) + I /\ Ring(0, I, k) = e - 1
      BY <3>2
    <3>4. k \in (Past - I)..(Past - 1) /\ k - 0 = k
      BY <1>1, <3>3
    <3> QED BY <3>3, <3>4 DEF Ring
  <2> QED BY <2>1 DEF Latest
<1>4. Newest = 1 /\ Cap = I /\ o \in [1..1 -> Int] /\ o[1] = -Past /\ Capacity[1] = I
  BY <1>1, <1>2, CapacityFacts DEF Newest, Cap
<1> HIDE DEF I
<1>5. \A n \in Int : n % IndexMod \in 0..(IndexMod - 1)
  BY Sizes
<1>6. 0 <= INVALID_BLOCK_BASE /\ INVALID_BLOCK_BASE <= IndexMod - 1 /\ INVALID_BLOCK_BASE \in Int
  <2>1. IndexMod > 1
    <3>1. IndexMod = BLOCK_SIZE * Keys /\ Keys \in Nat /\ Keys > 0 /\ BLOCK_SIZE \in Nat /\ BLOCK_SIZE > 1
      BY Products, Sizes
    <3>2. \A b, q \in Nat : b > 1 /\ q > 0 => b * q > 1
      OBVIOUS
    <3> QED BY <3>1, <3>2
  <2> QED BY <2>1, Sizes DEF INVALID_BLOCK_BASE
<1>7. EntriesType /\ Len(entries) = I
  <2>1. \A e \in 1..I : entries[e] \in Record
    <3> SUFFICES ASSUME NEW e \in 1..I PROVE entries[e] \in Record
      OBVIOUS
    <3>1. (Latest(e) * BLOCK_SIZE) % IndexMod \in 0..(IndexMod - 1)
      <4>1. Latest(e) * BLOCK_SIZE \in Int
        BY <1>3, Sizes
      <4> QED BY <1>5, <4>1
    <3>2. INVALID_BLOCK_BASE \in 0..(IndexMod - 1)
      BY <1>6, Sizes
    <3> QED BY <1>2, <3>1, <3>2 DEF Record
  <2>2. entries \in [1..I -> Record]
    BY <1>2, <2>1
  <2> QED BY <1>1, <2>2 DEF EntriesType
<1>8. HeadersType(o)
  <2>1. (Past - 1) % I \in 0..(I - 1)
    BY <1>1
  <2>2. [i \in 0..(I - 1) |-> i + 1] \in [0..(I - 1) -> 1..I]
    BY <1>1
  <2>3. [i \in 0..(I - 1) |-> i + 1] \in Arrays
    BY <1>1, <2>2 DEF Arrays
  <2>4. headers \in Seq(Header)
    BY <1>1, <1>2, <2>1, <2>3 DEF Header
  <2>5. I % I = 0
    BY <1>1
  <2>6. headers[1].capacity = I /\ headers[1].tail \in 0..(I - 1)
        /\ headers[1].index \in [0..(I - 1) -> 1..I]
    BY <1>2, <2>1, <2>2
  <2>7. Newest \in 1..MaxHeaders /\ 1..Newest = {1} /\ idxEntry \in 1..I
    BY <1>1, <1>2, <1>4, CapacityFacts
  <2>8. \A g \in 1..Newest :
          /\ headers[g].capacity = Capacity[g] /\ headers[g].tail \in 0..(Capacity[g] - 1)
          /\ headers[g].index \in [0..(Capacity[g] - 1) -> 1..Len(entries)]
          /\ Cap % Capacity[g] = 0
    BY <1>4, <1>7, <2>5, <2>6, <2>7
  <2> QED BY <1>4, <1>7, <2>4, <2>7, <2>8 DEF HeadersType
<1>9. Cur = -1 /\ Stored = -1 /\ Top = -1
  <2>1. BlockNo(-1) = -1
    <3>1. First(-1) <= -1 /\ -1 < First(-1) + BLOCK_SIZE
      BY Sizes DEF First
    <3> QED BY <3>1, BlockNoFacts
  <2>2. Cur = -1
    BY <1>2, <2>1 DEF Cur
  <2> QED BY <1>2, <2>2 DEF Stored, Top, Chained, NoBulk
<1>10. lo \in Int /\ hi \in Int /\ hi <= lo + I
  BY <1>1 DEF I
<1>11. WindowOK(o, lo, hi)
  <2>1. headers[1].tail = Ring(-Past, I, -1)
    <3>1. -1 - (-Past) = Past - 1
      BY <1>1
    <3> QED BY <1>2, <3>1 DEF Ring
  <2>2. lo <= -1
    BY <1>1 DEF I
  <2> QED BY <1>2, <1>4, <1>9, <1>10, <2>1, <2>2 DEF WindowOK
<1>12. \A k \in Int : EntryId(o, k) = Ring(-Past, I, k) + 1 /\ EntryId(o, k) \in 1..I
  <2> SUFFICES ASSUME NEW k \in Int
               PROVE  EntryId(o, k) = Ring(-Past, I, k) + 1 /\ EntryId(o, k) \in 1..I
    OBVIOUS
  <2>1. Ring(-Past, I, k) \in 0..(I - 1)
    <3>1. I > 0
      BY <1>1
    <3> QED BY <1>1, <3>1, RingType
  <2> QED BY <1>1, <1>2, <1>4, <2>1 DEF EntryId
<1>13. \A a \in Int : (a * BLOCK_SIZE) % IndexMod = Key(a - Past)
  <2> SUFFICES ASSUME NEW a \in Int PROVE (a * BLOCK_SIZE) % IndexMod = Key(a - Past)
    OBVIOUS
  <2>1. Base = BLOCK_SIZE * Past /\ BLOCK_SIZE \in Nat /\ Past \in Nat
    BY Products, Sizes
  <2>2. \A b, p \in Nat : b * p + b * (a - p) = a * b
    OBVIOUS
  <2>3. Base + First(a - Past) = a * BLOCK_SIZE
    BY <2>1, <2>2 DEF First
  <2> QED BY <2>3 DEF Key, Wrap
<1>14. \A k \in Int : KeyOf(o, k) = IF Latest(EntryId(o, k)) < 0 THEN INVALID_BLOCK_BASE
                                    ELSE (Latest(EntryId(o, k)) * BLOCK_SIZE) % IndexMod
  BY <1>2, <1>12 DEF KeyOf, I
<1>15. KeysOK(o, lo, hi)
  <2> SUFFICES ASSUME NEW k \in Int, lo < k, k <= lo + I
               PROVE  KeyOf(o, k) = IF k <= -1 THEN Key(k) ELSE INVALID_BLOCK_BASE
    BY <1>4 DEF KeysOK
  <2>1. CASE k <= -1
    <3>1. -1 - I < k /\ 0 <= Past + k
      BY <1>1, <2>1 DEF I
    <3>2. Latest(EntryId(o, k)) = Past + k
      BY <1>12, <2>1, <3>1, LatestFacts DEF I
    <3>3. (Past + k) - Past = k /\ Past + k \in Int
      BY <1>1
    <3>4. ((Past + k) * BLOCK_SIZE) % IndexMod = Key((Past + k) - Past)
      BY <1>13, <3>3
    <3>5. ~(Past + k < 0)
      BY <1>1, <3>1
    <3> QED BY <1>14, <2>1, <3>2, <3>3, <3>4, <3>5
  <2>2. CASE ~(k <= -1)
    <3>1. Past < I /\ Past + k < I /\ k >= 0
      BY <1>1, <2>2 DEF I
    <3>2. k - I \in Int /\ -1 - I < k - I /\ k - I <= -1
      BY <1>1, <3>1
    <3>3. Latest(Ring(-Past, I, k - I) + 1) = Past + (k - I)
      BY <3>2, LatestFacts DEF I
    <3>4. Ring(-Past, I, k - I) = Ring(-Past, I, k)
      <4>1. I > 0 /\ (k - I) + I = k
        BY <1>1
      <4>2. Ring(-Past, I, (k - I) + I) = Ring(-Past, I, k - I)
        BY ONLY <1>1, <3>2, <4>1, RingStep
      <4> QED BY <4>1, <4>2
    <3>5. Past + (k - I) < 0
      BY <1>1, <3>1
    <3> QED BY <1>12, <1>14, <2>2, <3>3, <3>4, <3>5
  <2> QED BY <2>1, <2>2
<1>16. IdsOK
  BY <1>1, <1>2, <1>4 DEF IdsOK
<1>17. AlignedOK(o)
  <2> SUFFICES ASSUME NEW p \in 0..(I - 1) PROVE AlignedAt(o, 1, p)
    BY <1>4 DEF AlignedOK
  <2>1. p + 1 \in 1..I /\ headers[1].index[p] = p + 1
    BY <1>1, <1>2
  <2>2. /\ Latest(p + 1) \in Int /\ Latest(p + 1) % I = p
        /\ entries[p + 1].key = IF Latest(p + 1) < 0 THEN INVALID_BLOCK_BASE
                                ELSE (Latest(p + 1) * BLOCK_SIZE) % IndexMod
    BY <1>2, <1>3, <2>1
  <2>3. CASE Latest(p + 1) < 0
    BY <1>4, <2>1, <2>2, <2>3 DEF AlignedAt
  <2>4. CASE ~(Latest(p + 1) < 0)
    <3>1. entries[p + 1].key = Key(Latest(p + 1) - Past)
      BY <1>13, <2>2, <2>4
    <3>2. Latest(p + 1) - Past \in Int /\ (Latest(p + 1) - Past) - (-Past) = Latest(p + 1)
      BY <1>1, <2>2
    <3>3. p = Ring(-Past, I, Latest(p + 1) - Past)
      BY <2>2, <3>2 DEF Ring
    <3>4. \E a \in Int : entries[p + 1].key = Key(a) /\ p = Ring(o[1], Capacity[1], a)
      BY <1>4, <3>1, <3>2, <3>3
    <3> QED BY <1>4, <2>1, <3>4 DEF AlignedAt
  <2> QED BY <2>3, <2>4
<1> QED BY <1>4, <1>7, <1>8, <1>11, <1>15, <1>16, <1>17 DEF KeyPart

-----------------------------------------------------------------------------
(* What is in the slots.  Element n is present from its construction, which *)
(* may be before it is published, until its consumer moves it out; it lies  *)
(* in the home of its block, or still in the block in the producer's hand.  *)
Handed == ppc = "storeValue" /\ bulk.count = 0
Made   == tailIndex + (IF Handed THEN 1
                       ELSE IF ppc = "publish" THEN Positive(bulk.count - 1) + 1 ELSE 0)
Unmoved(c, n) == at[c] # "none" /\ Unfetched(c) <= n /\ n < end[c]
Present == {n \in Nat : n < Made /\ (headIndex <= n \/ \E c \in Consumer : Unmoved(c, n))}
Loc(home, n) == IF Handed /\ n = tailIndex THEN newBlock ELSE home[BlockNo(n)]
Lies(home, n, b, i) == n \in Present /\ Loc(home, n) = b /\ Slot(Idx(n)) = i

Slots == 0..(BLOCK_SIZE - 1)
SlotsOK(home) ==
  /\ slots \in [Block -> [Slots -> Nat]]
  /\ \A b \in Block, i \in Slots, n \in Nat : slots[b][i] = n + 1 <=> Lies(home, n, b, i)

TailOK(home) == tailBlock = home[Stored] /\ (bulk.count > 0 => bulk.start = home[Cur])

(* What a consumer has not moved yet is in a block it holds.               *)
LEMMA UnmovedHeld ==
  ASSUME ConsumersOK, RangesOK, headIndex \in Nat, NEW c \in Consumer, NEW n \in Nat, Unmoved(c, n)
  PROVE  n < headIndex /\ index[c] <= n /\ BlockNo(n) \in Nat /\ Holds(c, BlockNo(n))
<1>1. at[c] # "none" /\ Unfetched(c) <= n /\ n < end[c]
  BY DEF Unmoved
<1>2. /\ index[c] \in Nat /\ end[c] \in Nat /\ index[c] < end[c] /\ end[c] <= headIndex
      /\ FirstBlock(c) \in Nat /\ LastBlock(c) \in Nat
      /\ EndIndex(c) \in Nat /\ index[c] < EndIndex(c) /\ EndIndex(c) <= end[c]
      /\ EndIndex(c) # end[c] => /\ EndIndex(c) = First(FirstBlock(c)) + BLOCK_SIZE
  BY <1>1, ClaimFacts
<1>3. index[c] <= n /\ n < headIndex
  BY <1>1, <1>2 DEF Unfetched
<1>4. BlockNo(n) \in Nat
  BY BlockNoFacts
<1>5. FirstBlock(c) <= BlockNo(n) /\ BlockNo(n) <= LastBlock(c)
  <2>1. end[c] - 1 \in Int /\ n <= end[c] - 1 /\ index[c] \in Int /\ n \in Int
    BY <1>1, <1>2
  <2> QED BY <1>3, <2>1, BlockNoFacts DEF FirstBlock, LastBlock
<1>6. ASSUME at[c] = "free" PROVE BlockNo(n) # FirstBlock(c)
  <2>1. Unfetched(c) = EndIndex(c)
    BY <1>6 DEF Unfetched
  <2>2. EndIndex(c) = First(FirstBlock(c)) + BLOCK_SIZE
    BY <1>1, <1>2, <2>1
  <2>3. n < First(BlockNo(n)) + BLOCK_SIZE /\ n \in Int
    BY BlockNoFacts
  <2>4. First(FirstBlock(c)) + BLOCK_SIZE <= n
    BY <1>1, <2>1, <2>2
  <2>5. First(FirstBlock(c)) \in Int
    BY <1>2, FirstType
  <2> QED BY <2>3, <2>4, <2>5, Sizes
<1> QED BY <1>1, <1>3, <1>4, <1>5, <1>6 DEF Holds

(* How far the producer has constructed elements.                          *)
LEMMA MadeFacts ==
  ASSUME NEW o, NEW lo, NEW hi, NEW home, NEW place, NEW num,
         MemoryInv(o, lo, hi, home, place, num), Claims
  PROVE  /\ Made \in Nat /\ tailIndex <= Made
         /\ Handed => Made = tailIndex + 1 /\ newBlock \in Block /\ Back = 0
                      /\ BlockNo(tailIndex) = Stored + 1
         /\ ppc = "publish" => Back = 0
         /\ ppc \notin {"storeValue", "publish"} => Made = tailIndex
         /\ \A n \in Nat : n < Made => BlockNo(n) <= Stored \/ (Handed /\ n = tailIndex)
         /\ \A n \in Nat : n < tailIndex => BlockNo(n) <= Cur
<1>1. ProducerOK /\ ProducerType /\ BulkOK /\ NewBlockOK
  BY DEF MemoryInv, ProducerOK
<1>2. /\ bulk.count \in Nat /\ Chained \in Nat /\ tailIndex \in Nat /\ Cur \in Int /\ Stored \in Int
      /\ Cur <= Stored /\ newBlock \in Block \cup {Null}
      /\ Back = 0 \/ ppc \in {"undo", "undoTail"}
  BY InvFacts
<1>3. Positive(bulk.count - 1) \in Nat
  BY <1>2 DEF Positive
<1>4. Made \in Nat /\ tailIndex <= Made /\ (Handed => Made = tailIndex + 1)
      /\ (ppc \notin {"storeValue", "publish"} => Made = tailIndex)
  BY <1>2, <1>3 DEF Made, Handed
<1>5. ASSUME NEW n \in Nat, n < tailIndex PROVE BlockNo(n) <= Cur
  <2>1. n \in Int /\ tailIndex - 1 \in Int /\ n <= tailIndex - 1
    BY <1>2, <1>5
  <2> QED BY <2>1, BlockNoFacts DEF Cur
<1>6. ASSUME bulk.count = 0, ppc # "idle" PROVE BlockNo(tailIndex) = Cur + 1
  <2>1. tailIndex = First(Cur + 1)
    BY <1>1, <1>6 DEF BulkOK
  <2>2. Cur + 1 \in Int /\ tailIndex \in Int /\ First(Cur + 1) <= tailIndex
        /\ tailIndex < First(Cur + 1) + BLOCK_SIZE
    BY <1>2, <2>1, Sizes
  <2> QED BY <2>2, BlockNoFacts
<1>7. Handed => newBlock \in Block /\ Back = 0 /\ BlockNo(tailIndex) = Stored + 1
  <2> HAVE Handed
  <2>1. newBlock \in Block /\ Back = 0
    BY <1>1, <1>2 DEF NewBlockOK, Handed
  <2>2. Stored = Cur
    <3>1. bulk.chain = <<>>
      BY <1>1 DEF Handed, BulkOK
    <3>2. Chained = 0
      BY <3>1 DEF Chained
    <3> QED BY <1>2, <3>2 DEF Stored, Handed
  <2> QED BY <1>6, <2>1, <2>2 DEF Handed
<1>8. ASSUME NEW n \in Nat, n < Made PROVE BlockNo(n) <= Stored \/ (Handed /\ n = tailIndex)
  <2>0. BlockNo(n) \in Int
    BY BlockNoFacts
  <2>1. CASE n < tailIndex
    BY <1>2, <1>5, <2>0, <2>1
  <2>2. CASE Handed
    BY <1>2, <1>4, <1>8, <2>1, <2>2
  <2>3. CASE ~Handed /\ tailIndex <= n
    <3>1. ppc = "publish"
      BY <1>2, <1>8, <2>3 DEF Made
    <3>2. CASE bulk.count = 0
      <4>1. n = tailIndex
        BY <1>2, <1>8, <2>3, <3>1, <3>2 DEF Made, Positive
      <4>2. Stored = Cur + Chained + 1
        BY <3>1, <3>2 DEF Stored
      <4>3. BlockNo(tailIndex) = Cur + 1
        BY <1>6, <3>1, <3>2
      <4> QED BY <1>2, <4>1, <4>2, <4>3
    <3>3. CASE bulk.count # 0
      <4>1. n <= tailIndex + bulk.count - 1
        BY <1>2, <1>8, <2>3, <3>1, <3>3 DEF Made, Positive
      <4>2. BlockNo(n) <= Goal
        <5>1. n \in Int /\ tailIndex + bulk.count - 1 \in Int
          BY <1>2
        <5> QED BY <4>1, <5>1, BlockNoFacts DEF Goal
      <4>3. Cur + Chained = Goal
        BY <1>1, <1>2, <3>1, <3>3 DEF BulkOK
      <4>4. Stored = Cur + Chained
        BY <1>2, <3>3 DEF Stored
      <4> QED BY <4>2, <4>3, <4>4
    <3> QED BY <3>2, <3>3
  <2>4. n < tailIndex \/ tailIndex <= n
    BY <1>2
  <2> QED BY <2>1, <2>2, <2>3, <2>4
<1>9. ppc = "publish" => Back = 0
  BY <1>2
<1> QED BY <1>4, <1>5, <1>7, <1>8, <1>9

(* The block of an element that is present is in the index, or in the      *)
(* producer's hand.                                                        *)
LEMMA PresentLive ==
  ASSUME NEW o, NEW lo, NEW hi, NEW home, NEW place, NEW num,
         MemoryInv(o, lo, hi, home, place, num), Claims, NEW n \in Present
  PROVE  /\ n \in Nat /\ n < Made
         /\ Handed /\ n = tailIndex => Loc(home, n) = newBlock /\ place[newBlock] = "hand"
         /\ ~(Handed /\ n = tailIndex) => BlockNo(n) \in LiveSet /\ Loc(home, n) = home[BlockNo(n)]
         /\ Loc(home, n) \in Block
<1>1. n \in Nat /\ n < Made /\ (headIndex <= n \/ \E c \in Consumer : Unmoved(c, n))
  BY DEF Present
<1>2. /\ ConsumersOK /\ RangesOK /\ ProducerType /\ BulkOK /\ HeadWithinTail
      /\ ValuesOK(o, lo, hi, home) /\ PlacesOK(home, place, num)
  BY DEF MemoryInv, ProducerOK, Claims
<1>3. /\ headIndex \in Nat /\ tailIndex \in Nat /\ headIndex <= tailIndex /\ Cur \in Int
      /\ Stored \in Int /\ Back \in Nat /\ (Back = 0 \/ ppc \in {"undo", "undoTail"})
  BY InvFacts
<1>4. /\ Handed => newBlock \in Block
      /\ ppc \notin {"storeValue", "publish"} => Made = tailIndex
      /\ BlockNo(n) <= Stored \/ (Handed /\ n = tailIndex)
      /\ n < tailIndex => BlockNo(n) <= Cur
  BY <1>1, MadeFacts
<1>5. Handed => place[newBlock] = "hand"
  BY <1>2, <1>4 DEF PlacesOK, Handed
<1>6. ASSUME ~(Handed /\ n = tailIndex) PROVE BlockNo(n) \in LiveSet /\ home[BlockNo(n)] \in Block
  <2>1. BlockNo(n) \in Nat /\ BlockNo(n) <= Stored
    BY <1>1, <1>4, <1>6, BlockNoFacts
  <2>2. Stocked(BlockNo(n))
    <3>1. CASE Back = 0
      BY <1>3, <2>1, <3>1 DEF Stocked
    <3>2. CASE Back # 0
      <4>1. n < tailIndex
        BY <1>1, <1>3, <1>4, <3>2
      <4> QED BY <1>3, <1>4, <2>1, <4>1 DEF Stocked
    <3> QED BY <3>1, <3>2
  <2>3. Pending(BlockNo(n))
    <3>1. CASE headIndex <= n
      <4>1. BlockNo(n) \in Int /\ n \in Int
        BY <1>1, <2>1
      <4>2. n < First(BlockNo(n)) + BLOCK_SIZE
        BY <4>1, BlockNoFacts
      <4>3. First(BlockNo(n) + 1) = First(BlockNo(n)) + BLOCK_SIZE /\ First(BlockNo(n)) \in Int
        BY <4>1, FirstNext, FirstType
      <4> QED BY <1>1, <1>3, <3>1, <4>2, <4>3, Sizes DEF Pending
    <3>2. ASSUME NEW c \in Consumer, Unmoved(c, n) PROVE Pending(BlockNo(n))
      <4>1. Holds(c, BlockNo(n))
        BY <1>1, <1>2, <1>3, <3>2, UnmovedHeld
      <4> QED BY <4>1 DEF Pending
    <3> QED BY <1>1, <3>1, <3>2
  <2>4. BlockNo(n) \in LiveSet
    BY <2>1, <2>2, <2>3 DEF LiveSet
  <2> QED BY <1>2, <2>4 DEF ValuesOK
<1> QED BY <1>1, <1>4, <1>5, <1>6 DEF Loc

(* Blocks in the index have homes of their own, and none is in the         *)
(* producer's hand.                                                        *)
LEMMA HomeOnce ==
  ASSUME NEW o, NEW lo, NEW hi, NEW home, NEW place, NEW num,
         MemoryInv(o, lo, hi, home, place, num), NEW j \in LiveSet
  PROVE  /\ \A k \in LiveSet : home[j] = home[k] => j = k
         /\ home[j] \in Block /\ place[home[j]] = "home"
         /\ ppc # "publish" => home[j] # newBlock
<1>1. ValuesOK(o, lo, hi, home) /\ PlacesOK(home, place, num)
  BY DEF MemoryInv
<1>2. home[j] \in Block
  BY <1>1 DEF ValuesOK
<1>3. \A k \in LiveSet : place[home[k]] = "home" /\ num[home[k]] = k
  BY <1>1 DEF PlacesOK
<1>4. \A b \in Block : b = newBlock /\ ppc # "publish" => place[b] = "hand"
  BY <1>1 DEF PlacesOK
<1> QED BY <1>2, <1>3, <1>4

(* In one block, a slot stands for one element.                            *)
LEMMA SlotOnce ==
  ASSUME NEW m \in Int, NEW n \in Int, BlockNo(m) = BlockNo(n), Slot(Idx(m)) = Slot(Idx(n))
  PROVE  m = n
<1>1. Slot(Idx(m)) = m - First(BlockNo(m)) /\ Slot(Idx(n)) = n - First(BlockNo(n))
  BY SlotFacts
<1>2. BlockNo(n) \in Int
  BY BlockNoFacts
<1>3. First(BlockNo(n)) \in Int
  BY <1>2, FirstType
<1>4. m - First(BlockNo(n)) = n - First(BlockNo(n))
  BY <1>1
<1> QED BY ONLY <1>3, <1>4, m \in Int, n \in Int

(* The step leaves the slots alone.                                        *)
LEMMA SlotsKept ==
  ASSUME NEW home, NEW h, SlotsOK(home), slots' = slots, Present' = Present,
         \A n \in Present : Loc(h, n)' = Loc(home, n)
  PROVE  SlotsOK(h)'
<1>1. ASSUME NEW b \in Block, NEW i \in Slots, NEW n \in Nat PROVE Lies(h, n, b, i)' <=> Lies(home, n, b, i)
  BY DEF Lies
<1> QED BY <1>1 DEF SlotsOK, Slots

(* One element is constructed.                                             *)
LEMMA SlotsFilled ==
  ASSUME NEW home, SlotsOK(home), NEW b \in Block, NEW i \in Slots, NEW n \in Nat,
         n \notin Present, slots[b][i] = 0, slots' = [slots EXCEPT ![b][i] = n + 1],
         Present' = Present \cup {n}, Slot(Idx(n)) = i,
         Loc(home, n)' = b, \A m \in Present : Loc(home, m)' = Loc(home, m)
  PROVE  SlotsOK(home)'
<1>1. slots \in [Block -> [Slots -> Nat]]
  BY DEF SlotsOK
<1>2. slots' \in [Block -> [Slots -> Nat]]
  BY <1>1
<1>3. ASSUME NEW d \in Block, NEW j \in Slots, NEW m \in Nat
      PROVE  slots'[d][j] = m + 1 <=> Lies(home, m, d, j)'
  <2>1. Lies(home, m, d, j)' <=> m \in Present' /\ Loc(home, m)' = d /\ Slot(Idx(m)) = j
    BY DEF Lies
  <2>2. slots[d][j] = m + 1 <=> Lies(home, m, d, j)
    BY DEF SlotsOK
  <2>3. CASE d = b /\ j = i
    <3>1. slots'[d][j] = n + 1
      BY <1>1, <2>3
    <3>2. ~Lies(home, m, d, j)
      BY <2>2, <2>3
    <3>3. CASE m = n
      BY <2>1, <2>3, <3>1, <3>3
    <3>4. CASE m # n
      BY <2>1, <3>1, <3>2, <3>4 DEF Lies
    <3> QED BY <3>3, <3>4
  <2>4. CASE ~(d = b /\ j = i)
    <3>1. slots'[d][j] = slots[d][j]
      BY <1>1, <2>4
    <3>2. CASE m = n
      BY <2>1, <2>2, <2>4, <3>1, <3>2 DEF Lies
    <3>3. CASE m # n
      BY <2>1, <2>2, <3>1, <3>3 DEF Lies
    <3> QED BY <3>2, <3>3
  <2> QED BY <2>3, <2>4
<1> QED BY <1>2, <1>3 DEF SlotsOK, Slots

(* Steps of the producer and what is in the slots.                         *)
LEMMA PresentKept ==
  ASSUME Still, Made' = Made
  PROVE  Present' = Present
<1>1. at' = at /\ index' = index /\ end' = end /\ headIndex' = headIndex
  BY DEF Still, locals
<1>2. ASSUME NEW c \in Consumer, NEW n \in Nat PROVE Unmoved(c, n)' <=> Unmoved(c, n)
  BY <1>1 DEF Unmoved, Unfetched, EndIndex
<1> QED BY <1>1, <1>2 DEF Present

LEMMA QuietSlots ==
  ASSUME NEW home, SlotsOK(home), TailOK(home), Still, slots' = slots, tailIndex' = tailIndex,
         ppc \notin {"storeValue", "publish"}, ppc' # "publish", ~Handed'
  PROVE  SlotsOK(home)'
<1>1. Made' = Made /\ ~Handed
  BY DEF Made, Handed
<1>2. Present' = Present
  BY <1>1, PresentKept
<1>3. \A n \in Present : Loc(home, n)' = Loc(home, n)
  BY <1>1 DEF Loc
<1> QED BY <1>2, <1>3, SlotsKept

LEMMA QuietTail ==
  ASSUME NEW home, TailOK(home), tailIndex' = tailIndex, tailBlock' = tailBlock,
         bulk'.chain = bulk.chain, bulk'.count = bulk.count, bulk'.start = bulk.start,
         ppc # "publish", ppc' # "publish"
  PROVE  TailOK(home)'
<1>1. Cur' = Cur /\ Stored' = Stored
  BY DEF Cur, Stored, Chained
<1> QED BY <1>1 DEF TailOK

LEMMA QuietSteps ==
  ASSUME NEW o, NEW lo, NEW hi, NEW home, NEW place, NEW num,
         MemoryInv(o, lo, hi, home, place, num), Claims, SlotsOK(home), TailOK(home),
         \/ InsertEntry \/ GrowIndex \/ StoreKey \/ StoreTail \/ Requisition \/ InsertFails
         \/ BulkThrow \/ Rewind \/ ClearValue \/ UndoEntry \/ UndoTail
         \/ Construct /\ ppc' = "rewind"
  PROVE  SlotsOK(home)' /\ TailOK(home)'
<1>0. ProducerType
  BY DEF MemoryInv, ProducerOK
<1>1. /\ Still /\ slots' = slots /\ tailIndex' = tailIndex /\ tailBlock' = tailBlock
      /\ bulk'.chain = bulk.chain /\ bulk'.count = bulk.count /\ bulk'.start = bulk.start
      /\ ppc \notin {"storeValue", "publish"} /\ ppc' # "publish"
      /\ ppc' = "storeValue" => bulk.count # 0
  <2>1. CASE InsertEntry
    BY <2>1 DEF InsertEntry, Inserting, Pgoto, vars, counters, blocks, Still
  <2>2. CASE GrowIndex
    BY <2>2 DEF GrowIndex, Inserting, Pgoto, vars, counters, blocks, Still
  <2>3. CASE StoreKey \/ StoreTail
    BY <2>3 DEF StoreKey, StoreTail, Pgoto, vars, counters, blocks, Still
  <2>4. CASE Requisition
    BY <2>4 DEF Requisition, Pgoto, vars, counters, Still
  <2>5. CASE InsertFails \/ BulkThrow
    BY <2>5 DEF InsertFails, BulkThrow, Pgoto, vars, counters, blocks, Still
  <2>6. CASE Rewind
    BY <2>6 DEF Rewind, Pgoto, vars, counters, blocks, Still
  <2>7. CASE ClearValue
    BY <2>7 DEF ClearValue, Pgoto, vars, counters, Still
  <2>8. CASE UndoEntry
    BY <2>8 DEF UndoEntry, Pgoto, vars, counters, blocks, Still
  <2>9. CASE UndoTail
    <3>1. bulk' = [bulk EXCEPT !.undone = bulk.undone + 1]
      BY <2>9 DEF UndoTail
    <3>2. bulk \in [count : Bulks \cup {0}, start : Block \cup {Null}, chain : Seq(Block), undone : Nat]
      BY <1>0 DEF ProducerType
    <3>3. bulk'.chain = bulk.chain /\ bulk'.count = bulk.count /\ bulk'.start = bulk.start
      BY <3>1, <3>2
    <3> QED BY <2>9, <3>3 DEF UndoTail, Pgoto, vars, counters, blocks, Still
  <2>10. CASE Construct /\ ppc' = "rewind"
    BY <2>10 DEF Construct, Pgoto, vars, counters, Still
  <2> QED BY <2>1, <2>2, <2>3, <2>4, <2>5, <2>6, <2>7, <2>8, <2>9, <2>10
<1>2. ~Handed'
  BY <1>1 DEF Handed
<1>3. SlotsOK(home)'
  BY <1>1, <1>2, QuietSlots
<1>4. TailOK(home)'
  BY <1>1, QuietTail
<1> QED BY <1>3, <1>4

(* Where enqueue puts an element in the block at the tail: that block is   *)
(* in the index, and the slot is free.                                     *)
LEMMA TailSlot ==
  ASSUME NEW o, NEW lo, NEW hi, NEW home, NEW place, NEW num,
         MemoryInv(o, lo, hi, home, place, num), Claims, SlotsOK(home), TailOK(home),
         ppc = "idle", Slot(Tl) # 0
  PROVE  /\ tailBlock \in Block /\ tailBlock = home[Cur] /\ Cur \in LiveSet /\ Stored = Cur
         /\ BlockNo(tailIndex) = Cur /\ Slot(Tl) \in Slots /\ slots[tailBlock][Slot(Tl)] = 0
<1>1. /\ tailIndex \in Nat /\ headIndex \in Nat /\ headIndex <= tailIndex /\ Cur \in Int
      /\ Back = 0
  BY InvFacts
<1>2. /\ ProducerType /\ ProducerOK /\ BulkOK /\ ValuesOK(o, lo, hi, home)
  BY DEF MemoryInv, ProducerOK
<1>3. Stored = Cur
  <2>1. bulk.chain = <<>>
    BY <1>2 DEF BulkOK
  <2>2. Chained = 0
    BY <2>1 DEF Chained
  <2> QED BY <1>1, <2>2 DEF Stored
<1>4. BlockNo(tailIndex) = Cur /\ tailIndex < First(Cur + 1) /\ First(Cur + 1) \in Int
  BY <1>1, <1>2, TailPlace
<1>5. Cur >= 0
  BY <1>1, <1>4, BlockNoFacts
<1>6. Cur \in LiveSet
  <2>1. Stocked(Cur)
    BY <1>1, <1>3, <1>5 DEF Stocked
  <2>2. Pending(Cur)
    BY <1>1, <1>4 DEF Pending
  <2> QED BY <1>1, <2>1, <2>2 DEF LiveSet
<1>7. tailBlock = home[Cur] /\ tailBlock \in Block
  BY <1>2, <1>3, <1>6 DEF TailOK, ValuesOK
<1>8. Slot(Tl) \in Slots
  BY <1>1, SlotFacts DEF Tl, Slots
<1>9. slots[tailBlock][Slot(Tl)] = 0
  <2> SUFFICES ASSUME NEW m \in Nat, slots[tailBlock][Slot(Tl)] = m + 1 PROVE FALSE
    <3>1. slots[tailBlock][Slot(Tl)] \in Nat
      BY <1>7, <1>8 DEF SlotsOK
    <3> QED BY <3>1
  <2>1. m \in Present /\ Loc(home, m) = tailBlock /\ Slot(Idx(m)) = Slot(Tl)
    BY <1>7, <1>8 DEF SlotsOK, Lies
  <2>2. m < Made /\ Made = tailIndex
    BY <1>2, <2>1, MadeFacts DEF Present
  <2>3. BlockNo(m) \in LiveSet /\ Loc(home, m) = home[BlockNo(m)]
    BY <2>1, PresentLive, <1>2 DEF Handed
  <2>4. BlockNo(m) = BlockNo(tailIndex)
    <3>1. \A k \in LiveSet : home[Cur] = home[k] => Cur = k
      BY <1>6, HomeOnce
    <3>2. home[Cur] = home[BlockNo(m)]
      BY <1>7, <2>1, <2>3
    <3> QED BY <1>4, <2>3, <3>1, <3>2
  <2>5. m = tailIndex
    BY <1>1, <2>1, <2>4, SlotOnce DEF Tl
  <2> QED BY <1>1, <2>2, <2>5
<1> QED BY <1>3, <1>4, <1>6, <1>7, <1>8, <1>9

LEMMA EnqueueSlots ==
  ASSUME NEW o, NEW lo, NEW hi, NEW home, NEW place, NEW num,
         MemoryInv(o, lo, hi, home, place, num), Claims, SlotsOK(home), TailOK(home), EnqueueInBlock
  PROVE  SlotsOK(home)' /\ TailOK(home)'
<1>1. /\ ppc = "idle" /\ Slot(Tl) # 0 /\ slots' = [slots EXCEPT ![tailBlock][Slot(Tl)] = tailIndex + 1]
      /\ tailIndex' = tailIndex + 1 /\ ppc' = "idle" /\ bulk' = bulk /\ tailBlock' = tailBlock
      /\ Still
  BY DEF EnqueueInBlock, Enqueue, producer, Still, claim
<1>2. /\ tailBlock \in Block /\ tailBlock = home[Cur] /\ Cur \in LiveSet /\ Stored = Cur
      /\ BlockNo(tailIndex) = Cur /\ Slot(Tl) \in Slots /\ slots[tailBlock][Slot(Tl)] = 0
  BY <1>1, TailSlot
<1>3. tailIndex \in Nat /\ headIndex \in Nat /\ headIndex <= tailIndex
  BY InvFacts
<1>4. Made = tailIndex /\ Made' = tailIndex + 1 /\ ~Handed /\ ~Handed'
  BY <1>1, <1>3 DEF Made, Handed
<1>5. Present' = Present \cup {tailIndex} /\ tailIndex \notin Present
  <2>1. ASSUME NEW c \in Consumer, NEW n \in Nat PROVE Unmoved(c, n)' <=> Unmoved(c, n)
    BY <1>1 DEF Unmoved, Unfetched, EndIndex, Still, locals
  <2>2. headIndex' = headIndex
    BY <1>1 DEF Still
  <2>3. ASSUME NEW n \in Nat PROVE n \in Present' <=> n \in Present \/ n = tailIndex
    <3>1. n < Made' <=> n < Made \/ n = tailIndex
      BY <1>3, <1>4
    <3> QED BY <1>3, <1>4, <2>1, <2>2, <3>1 DEF Present
  <2>4. tailIndex \notin Present
    BY <1>3, <1>4 DEF Present
  <2> QED BY <1>3, <2>3, <2>4 DEF Present
<1>6. Loc(home, tailIndex)' = home[BlockNo(tailIndex')] /\ \A m \in Present : Loc(home, m)' = Loc(home, m)
  BY <1>4 DEF Loc
<1>7. SlotsOK(home)'
  <2>1. PICK n \in Nat : n = tailIndex
    BY <1>3
  <2>2. Loc(home, n)' = tailBlock
    BY <1>2, <1>4, <2>1 DEF Loc
  <2>3. Slot(Idx(n)) = Slot(Tl)
    BY <2>1 DEF Tl
  <2> QED BY <1>1, <1>2, <1>5, <1>6, <2>1, <2>2, <2>3, SlotsFilled
<1>8. Cur' = Cur /\ Stored' = Stored
  <2>1. Cur' = BlockNo(tailIndex)
    <3>1. tailIndex' - 1 = tailIndex
      BY <1>1, <1>3
    <3> QED BY <3>1 DEF Cur
  <2> QED BY <1>1, <1>2, <2>1 DEF Stored, Chained
<1>9. TailOK(home)'
  BY <1>1, <1>8 DEF TailOK
<1> QED BY <1>7, <1>9

(* Enqueue constructs its element in a new block: that block is empty.     *)
LEMMA HandSlot ==
  ASSUME NEW o, NEW lo, NEW hi, NEW home, NEW place, NEW num,
         MemoryInv(o, lo, hi, home, place, num), Claims, SlotsOK(home),
         ppc \in {"construct", "storeValue"}, ~Handed, NEW i \in Slots
  PROVE  newBlock \in Block /\ slots[newBlock][i] = 0
<1>1. newBlock \in Block
  <2>1. newBlock \in Block \cup {Null}
    BY InvFacts
  <2>2. newBlock # Null
    BY DEF MemoryInv, ProducerOK, NewBlockOK
  <2> QED BY <2>1, <2>2
<1>2. ASSUME NEW m \in Nat, slots[newBlock][i] = m + 1 PROVE FALSE
  <2>1. m \in Present /\ Loc(home, m) = newBlock
    BY <1>1, <1>2 DEF SlotsOK, Lies
  <2>2. BlockNo(m) \in LiveSet /\ Loc(home, m) = home[BlockNo(m)]
    BY <2>1, PresentLive
  <2>3. home[BlockNo(m)] # newBlock
    BY <2>2, HomeOnce
  <2> QED BY <2>1, <2>2, <2>3
<1>3. slots[newBlock][i] \in Nat
  BY <1>1 DEF SlotsOK
<1> QED BY <1>1, <1>2, <1>3

LEMMA ConstructSlots ==
  ASSUME NEW o, NEW lo, NEW hi, NEW home, NEW place, NEW num,
         MemoryInv(o, lo, hi, home, place, num), Claims, SlotsOK(home), TailOK(home),
         Construct, ppc' # "rewind"
  PROVE  SlotsOK(home)' /\ TailOK(home)'
<1>1. /\ ppc = "construct" /\ slots' = [slots EXCEPT ![newBlock][Slot(Tl)] = tailIndex + 1]
      /\ tailIndex' = tailIndex /\ ppc' = "storeValue" /\ bulk' = bulk /\ tailBlock' = tailBlock
      /\ newBlock' = newBlock /\ Still
  BY DEF Construct, Pgoto, vars, counters, Still
<1>2. tailIndex \in Nat /\ headIndex \in Nat /\ headIndex <= tailIndex
  BY InvFacts
<1>3. bulk.count = 0
  BY <1>1 DEF MemoryInv, ProducerOK, BulkOK
<1>4. Made = tailIndex /\ Made' = tailIndex + 1 /\ ~Handed /\ Handed'
  BY <1>1, <1>2, <1>3 DEF Made, Handed
<1>5. Present' = Present \cup {tailIndex} /\ tailIndex \notin Present
  <2>1. ASSUME NEW c \in Consumer, NEW n \in Nat PROVE Unmoved(c, n)' <=> Unmoved(c, n)
    BY <1>1 DEF Unmoved, Unfetched, EndIndex, Still, locals
  <2>2. headIndex' = headIndex
    BY <1>1 DEF Still
  <2>3. ASSUME NEW n \in Nat PROVE n \in Present' <=> n \in Present \/ n = tailIndex
    <3>1. n < Made' <=> n < Made \/ n = tailIndex
      BY <1>2, <1>4
    <3> QED BY <1>2, <1>4, <2>1, <2>2, <3>1 DEF Present
  <2>4. tailIndex \notin Present
    BY <1>2, <1>4 DEF Present
  <2> QED BY <1>2, <2>3, <2>4 DEF Present
<1>6. \A m \in Present : Loc(home, m)' = Loc(home, m)
  BY <1>1, <1>4, <1>5 DEF Loc
<1>7. SlotsOK(home)'
  <2>1. PICK n \in Nat : n = tailIndex
    BY <1>2
  <2>2. Loc(home, n)' = newBlock
    BY <1>1, <1>4, <2>1 DEF Loc
  <2>3. Slot(Idx(n)) = Slot(Tl) /\ Slot(Tl) \in Slots
    BY <2>1, SlotFacts DEF Tl, Slots
  <2>4. newBlock \in Block /\ slots[newBlock][Slot(Tl)] = 0
    BY <1>1, <1>4, <2>3, HandSlot
  <2> QED BY <1>1, <1>5, <1>6, <2>1, <2>2, <2>3, <2>4, SlotsFilled
<1>8. TailOK(home)'
  BY <1>1, QuietTail
<1> QED BY <1>7, <1>8

(* The block enters the index with its element.                            *)
LEMMA StoreValueSlots ==
  ASSUME NEW o, NEW lo, NEW hi, NEW home, NEW place, NEW num,
         MemoryInv(o, lo, hi, home, place, num), Claims, SlotsOK(home), TailOK(home), StoreValue,
         NEW h, h[Stored + 1] = newBlock, \A k \in Int : k # Stored + 1 => h[k] = home[k]
  PROVE  SlotsOK(h)' /\ TailOK(h)'
<1>1. /\ ppc = "storeValue" /\ slots' = slots /\ tailIndex' = tailIndex /\ tailBlock' = newBlock /\ Still
  BY DEF StoreValue, Pgoto, vars, counters, blocks, Still
<1>2. /\ ProducerOK /\ Cur' = Cur /\ Stored' = Stored + 1 /\ bulk'.count = bulk.count
      /\ bulk.count = 0 => bulk' = bulk /\ ppc' = "publish"
      /\ bulk.count # 0 => ppc' = "insert" /\ Stored = Cur + Chained
  <2>1. ProducerOK
    BY DEF MemoryInv
  <2> QED BY <2>1, StoreValueNumbers
<1>3. /\ tailIndex \in Nat /\ Cur \in Int /\ Stored \in Int /\ Cur <= Stored /\ bulk.count \in Nat
  BY InvFacts
<1>4. Made' = Made /\ ~Handed'
  <2>1. CASE bulk.count = 0
    <3>1. Positive(bulk.count - 1) + 1 = 1
      BY <2>1 DEF Positive
    <3> QED BY <1>1, <1>2, <2>1, <3>1 DEF Made, Handed
  <2>2. CASE bulk.count # 0
    BY <1>1, <1>2, <2>2 DEF Made, Handed
  <2> QED BY <2>1, <2>2
<1>5. Present' = Present
  BY <1>1, <1>4, PresentKept
<1>6. \A n \in Present : Loc(h, n)' = Loc(home, n)
  <2> SUFFICES ASSUME NEW n \in Present PROVE h[BlockNo(n)] = Loc(home, n)
    BY <1>4 DEF Loc
  <2>1. CASE Handed /\ n = tailIndex
    <3>1. BlockNo(n) = Stored + 1
      BY <2>1, MadeFacts
    <3> QED BY <2>1, <3>1 DEF Loc
  <2>2. CASE ~(Handed /\ n = tailIndex)
    <3>1. BlockNo(n) \in LiveSet /\ Loc(home, n) = home[BlockNo(n)]
      BY <2>2, PresentLive
    <3>2. BlockNo(n) \in Int /\ BlockNo(n) # Stored + 1
      BY <1>3, <3>1 DEF LiveSet, Stocked
    <3> QED BY <3>1, <3>2
  <2> QED BY <2>1, <2>2
<1>7. SlotsOK(h)'
  BY <1>1, <1>5, <1>6, SlotsKept
<1>8. TailOK(h)'
  <2>1. h[Cur] = home[Cur]
    BY <1>3
  <2>2. bulk.count > 0 => bulk'.start = bulk.start
    <3> HAVE bulk.count > 0
    <3>1. bulk' = [bulk EXCEPT !.chain = Append(bulk.chain, newBlock)]
      BY <1>3 DEF StoreValue
    <3>2. bulk \in [count : Bulks \cup {0}, start : Block \cup {Null}, chain : Seq(Block), undone : Nat]
      BY <1>2 DEF ProducerOK, ProducerType
    <3> QED BY <3>1, <3>2
  <2> QED BY <1>1, <1>2, <2>1, <2>2 DEF TailOK
<1> QED BY <1>7, <1>8

LEMMA PublishSlots ==
  ASSUME NEW o, NEW lo, NEW hi, NEW home, NEW place, NEW num,
         MemoryInv(o, lo, hi, home, place, num), Claims, SlotsOK(home), TailOK(home), Publish
  PROVE  SlotsOK(home)' /\ TailOK(home)'
<1>1. ppc = "publish" /\ slots' = slots /\ ppc' = "idle" /\ tailBlock' = tailBlock /\ Still
  BY DEF Publish, Pgoto, Enqueue, blocks, Still
<1>2. /\ tailIndex' = tailIndex + Positive(bulk.count - 1) + 1 /\ Stored' = Stored /\ bulk' = NoBulk
  BY PublishNumbers DEF MemoryInv
<1>3. tailIndex \in Nat /\ Positive(bulk.count - 1) \in Nat
  BY InvFacts DEF Positive
<1>4. Made' = Made /\ ~Handed /\ ~Handed'
  BY <1>1, <1>2, <1>3 DEF Made, Handed
<1>5. Present' = Present
  BY <1>1, <1>4, PresentKept
<1>6. \A n \in Present : Loc(home, n)' = Loc(home, n)
  BY <1>4 DEF Loc
<1>7. SlotsOK(home)'
  BY <1>1, <1>5, <1>6, SlotsKept
<1> QED BY <1>1, <1>2, <1>7 DEF TailOK, NoBulk

LEMMA StartBulkSlots ==
  ASSUME NEW o, NEW lo, NEW hi, NEW home, NEW place, NEW num,
         MemoryInv(o, lo, hi, home, place, num), Claims, SlotsOK(home), TailOK(home),
         NEW n \in Bulks, StartBulk(n)
  PROVE  SlotsOK(home)' /\ TailOK(home)'
<1>1. /\ ppc = "idle" /\ slots' = slots /\ ppc' = "insert" /\ tailBlock' = tailBlock /\ Still
      /\ tailIndex' = tailIndex
  BY DEF StartBulk, Pgoto, vars, counters, blocks, Still
<1>2. Cur' = Cur /\ Stored' = Stored /\ Stored = Cur /\ bulk'.start = tailBlock
  BY StartBulkNumbers DEF MemoryInv
<1>3. SlotsOK(home)'
  <2>1. ~Handed' /\ ppc \notin {"storeValue", "publish"}
    BY <1>1 DEF Handed
  <2> QED BY <1>1, <2>1, QuietSlots
<1> QED BY <1>1, <1>2, <1>3 DEF TailOK

LEMMA UndoBlocksSlots ==
  ASSUME NEW o, NEW lo, NEW hi, NEW home, NEW place, NEW num,
         MemoryInv(o, lo, hi, home, place, num), Claims, SlotsOK(home), TailOK(home), UndoBlocks
  PROVE  SlotsOK(home)' /\ TailOK(home)'
<1>1. ppc = "undo" /\ slots' = slots /\ ppc' = "idle" /\ Still
  BY DEF UndoBlocks, Pgoto, vars, counters, Still
<1>2. /\ tailIndex' = tailIndex /\ bulk' = NoBulk /\ tailBlock' = bulk.start /\ Stored' = Cur
  BY UndoBlocksNumbers DEF MemoryInv
<1>3. SlotsOK(home)'
  <2>1. ~Handed' /\ ppc \notin {"storeValue", "publish"}
    BY <1>1 DEF Handed
  <2> QED BY <1>1, <1>2, <2>1, QuietSlots
<1>4. bulk.count > 0
  BY <1>1 DEF MemoryInv, ProducerOK, BulkOK
<1> QED BY <1>2, <1>3, <1>4 DEF TailOK, NoBulk

(* Where enqueue_bulk puts its elements: in the block at the tail and in   *)
(* those of the chain, each of which is in the index.                      *)
LEMMA BulkPlace ==
  ASSUME NEW o, NEW lo, NEW hi, NEW home, NEW place, NEW num,
         MemoryInv(o, lo, hi, home, place, num), Claims, TailOK(home),
         ppc = "insert", AllBlocks, NEW n \in Elements
  PROVE  /\ n \in Nat /\ tailIndex <= n /\ n < tailIndex + bulk.count
         /\ BlockOf(n) = home[BlockNo(n)] /\ BlockNo(n) \in LiveSet
         /\ BlockNo(n) <= Cur => BlockOf(n) = bulk.start
<1>1. /\ bulk.count \in Nat /\ tailIndex \in Nat /\ headIndex \in Nat /\ headIndex <= tailIndex
      /\ Cur \in Int /\ Stored \in Int /\ Chained \in Nat /\ Back = 0
  BY InvFacts
<1>2. ProducerType /\ BulkOK /\ ChainOK(home) /\ bulk.count > 0
  BY DEF MemoryInv, ProducerOK, BulkOK
<1>3. n \in Nat /\ tailIndex <= n /\ n <= tailIndex + bulk.count - 1
  BY <1>1 DEF Elements
<1>4. BlockNo(n) \in Int /\ Cur <= BlockNo(n) /\ BlockNo(n) <= Goal /\ BlockNo(n) >= 0
  <2>1. n \in Int /\ tailIndex - 1 \in Int /\ tailIndex + bulk.count - 1 \in Int
        /\ tailIndex - 1 <= n
    BY <1>1, <1>3
  <2> QED BY <1>3, <2>1, BlockNoFacts DEF Cur, Goal
<1>5. Goal <= Cur + Chained
  <2>1. Target = First(Cur + 1 + Chained) /\ Cur + 1 + Chained \in Int
    BY <1>1, <1>2 DEF Target, Cur, First, Chained
  <2>2. First(Cur + 1 + Chained) \in Int
    BY <2>1, FirstType
  <2>3. BlockNo(Target) = Cur + 1 + Chained
    BY <2>1, <2>2, BlockNoFacts, Sizes
  <2>4. Goal \in Int /\ Goal < BlockNo(Target)
    BY <1>2, BulkFields DEF AllBlocks, Goal
  <2> QED BY <1>1, <2>3, <2>4
<1>6. Stored = Cur + Chained
  BY <1>1 DEF Stored
<1>7. BlockNo(n) \in LiveSet
  <2>1. Stocked(BlockNo(n))
    BY <1>1, <1>4, <1>5, <1>6, <1>2, BulkFields DEF Stocked
  <2>2. n < First(BlockNo(n) + 1) /\ First(BlockNo(n) + 1) \in Int
    <3>1. n \in Int
      BY <1>3
    <3>2. n < First(BlockNo(n)) + BLOCK_SIZE
      BY <3>1, BlockNoFacts
    <3>3. First(BlockNo(n) + 1) = First(BlockNo(n)) + BLOCK_SIZE /\ First(BlockNo(n) + 1) \in Int
      <4>1. BlockNo(n) + 1 \in Int
        BY <1>4
      <4> QED BY <1>4, <4>1, FirstNext, FirstType
    <3> QED BY <3>2, <3>3
  <2>3. Pending(BlockNo(n))
    BY <1>1, <1>3, <2>2 DEF Pending
  <2> QED BY <1>4, <2>1, <2>3 DEF LiveSet
<1>8. BlockOf(n) = home[BlockNo(n)]
  <2>1. BlockOf(n) = IF BlockNo(n) = Cur THEN bulk.start ELSE bulk.chain[BlockNo(n) - Cur]
    BY <1>1, <1>4 DEF BlockOf, Cur
  <2>2. CASE BlockNo(n) = Cur
    BY <1>2, <2>1, <2>2 DEF TailOK
  <2>3. CASE BlockNo(n) # Cur
    <3>1. PICK i \in Int : i = BlockNo(n) - Cur
      BY <1>1, <1>4
    <3>2. i \in (Back + 1)..Chained /\ Cur + i = BlockNo(n)
      <4>1. Goal \in Int
        BY <1>2, BulkFields
      <4> QED BY <1>1, <1>4, <1>5, <2>3, <3>1, <4>1
    <3>3. bulk.chain[i] = home[Cur + i]
      BY <1>2, <3>2 DEF ChainOK
    <3> QED BY <2>1, <2>3, <3>1, <3>2, <3>3
  <2> QED BY <2>2, <2>3
<1>9. BlockNo(n) <= Cur => BlockOf(n) = bulk.start
  <2> HAVE BlockNo(n) <= Cur
  <2>1. BlockNo(n) = Cur
    BY <1>1, <1>4
  <2> QED BY <1>2, <1>8, <2>1 DEF TailOK
<1> QED BY <1>1, <1>3, <1>7, <1>8, <1>9

(* All the elements of an enqueue_bulk are constructed.                    *)
LEMMA BulkSlots ==
  ASSUME NEW o, NEW lo, NEW hi, NEW home, NEW place, NEW num,
         MemoryInv(o, lo, hi, home, place, num), Claims, SlotsOK(home), TailOK(home), BulkConstruct
  PROVE  SlotsOK(home)' /\ TailOK(home)'
<1>1. /\ ppc = "insert" /\ AllBlocks /\ ppc' = "publish" /\ tailBlock' = tailBlock /\ bulk' = bulk
      /\ tailIndex' = tailIndex /\ Still
      /\ slots' = [b \in Block |-> [i \in 0..(BLOCK_SIZE - 1) |->
           IF \E n \in Elements : Fills(b, i, n) THEN 1 + CHOOSE n \in Elements : Fills(b, i, n)
           ELSE slots[b][i]]]
  BY DEF BulkConstruct, Pgoto, vars, counters, Still
<1>2. bulk.count \in Nat /\ tailIndex \in Nat /\ headIndex \in Nat /\ headIndex <= tailIndex
  BY InvFacts
<1>3. bulk.count > 0
  BY <1>1, <1>2 DEF MemoryInv, ProducerOK, BulkOK
<1>4. Made = tailIndex /\ Made' = tailIndex + bulk.count /\ ~Handed /\ ~Handed'
  BY <1>1, <1>2, <1>3 DEF Made, Handed, Positive
<1>5. Present' = Present \cup Elements
  <2>1. ASSUME NEW c \in Consumer, NEW n \in Nat PROVE Unmoved(c, n)' <=> Unmoved(c, n)
    BY <1>1 DEF Unmoved, Unfetched, EndIndex, Still, locals
  <2>2. headIndex' = headIndex
    BY <1>1 DEF Still
  <2>3. ASSUME NEW n \in Nat PROVE n \in Present' <=> n \in Present \/ n \in Elements
    <3>1. n < Made' <=> n < Made \/ n \in Elements
      BY <1>2, <1>3, <1>4 DEF Elements
    <3>2. n \in Elements => headIndex <= n
      BY <1>2 DEF Elements
    <3> QED BY <2>1, <2>2, <3>1, <3>2 DEF Present
  <2>4. Elements \subseteq Nat
    BY <1>2 DEF Elements
  <2> QED BY <2>3, <2>4 DEF Present
<1>6. ASSUME NEW n \in Elements
      PROVE  n \in Nat /\ BlockOf(n) = home[BlockNo(n)] /\ BlockNo(n) \in LiveSet
  BY <1>1, BulkPlace
<1>7. ASSUME NEW n \in Present
      PROVE  n \in Nat /\ BlockNo(n) \in LiveSet /\ Loc(home, n) = home[BlockNo(n)]
  BY <1>4, PresentLive
<1>8. \A n \in Nat : Loc(home, n)' = home[BlockNo(n)]
  BY <1>4 DEF Loc
<1>9. ASSUME NEW n \in Present \cup Elements, NEW m \in Present \cup Elements,
             home[BlockNo(m)] = home[BlockNo(n)], Slot(Idx(m)) = Slot(Idx(n))
      PROVE  m = n
  <2>1. m \in Int /\ n \in Int /\ BlockNo(m) \in LiveSet /\ BlockNo(n) \in LiveSet
    BY <1>6, <1>7
  <2>2. BlockNo(m) = BlockNo(n)
    BY <1>9, <2>1, HomeOnce
  <2> QED BY <1>9, <2>1, <2>2, SlotOnce
<1>10. ASSUME NEW b \in Block, NEW i \in Slots, NEW m \in Nat
       PROVE  Lies(home, m, b, i)' <=> /\ m \in Present \cup Elements
                                       /\ home[BlockNo(m)] = b /\ Slot(Idx(m)) = i
  BY <1>5, <1>8 DEF Lies
<1>11. ASSUME NEW b \in Block, NEW i \in Slots
       PROVE  /\ slots'[b][i] \in Nat
              /\ \A m \in Nat : slots'[b][i] = m + 1 <=> Lies(home, m, b, i)'
  <2>1. CASE \E n \in Elements : Fills(b, i, n)
    <3>1. PICK x : x = CHOOSE n \in Elements : Fills(b, i, n)
      OBVIOUS
    <3>2. x \in Elements /\ Fills(b, i, x)
      BY <2>1, <3>1
    <3>3. slots'[b][i] = 1 + x
      BY <1>1, <2>1, <3>1 DEF Slots
    <3>4. x \in Nat /\ home[BlockNo(x)] = b /\ Slot(Idx(x)) = i
      BY <1>6, <3>2 DEF Fills
    <3>5. \A m \in Nat : slots'[b][i] = m + 1 <=> m = x
      BY <3>3, <3>4
    <3>6. \A m \in Nat : Lies(home, m, b, i)' <=> m = x
      BY <1>9, <1>10, <3>2, <3>4
    <3> QED BY <3>3, <3>4, <3>5, <3>6
  <2>2. CASE ~\E n \in Elements : Fills(b, i, n)
    <3>1. slots'[b][i] = slots[b][i] /\ slots[b][i] \in Nat
      BY <1>1, <2>2 DEF Slots, SlotsOK
    <3>2. ASSUME NEW m \in Nat PROVE Lies(home, m, b, i)' <=> Lies(home, m, b, i)
      <4>1. m \in Elements => ~(home[BlockNo(m)] = b /\ Slot(Idx(m)) = i)
        BY <1>6, <2>2 DEF Fills
      <4> QED BY <1>7, <1>10, <4>1 DEF Lies
    <3> QED BY <3>1, <3>2 DEF SlotsOK
  <2> QED BY <2>1, <2>2
<1>12. SlotsOK(home)'
  <2>1. slots' \in [Block -> [Slots -> Nat]]
    <3>1. slots' = [b \in Block |-> slots'[b]] /\ \A b \in Block : slots'[b] \in [Slots -> Nat]
      <4>1. ASSUME NEW b \in Block PROVE slots'[b] \in [Slots -> Nat]
        <5>1. DOMAIN slots'[b] = Slots /\ slots'[b] = [i \in Slots |-> slots'[b][i]]
          BY <1>1 DEF Slots
        <5> QED BY <1>11, <5>1
      <4> QED BY <1>1, <4>1
    <3> QED BY <3>1
  <2> QED BY <1>11, <2>1 DEF SlotsOK, Slots
<1>13. TailOK(home)'
  <2>1. Cur' = Cur /\ Stored' = Stored
    BY <1>1, <1>3 DEF Cur, Stored, Chained
  <2> QED BY <1>1, <2>1 DEF TailOK
<1> QED BY <1>12, <1>13

(* Steps of a consumer and what is in the slots.                           *)
LEMMA OthersUnmoved ==
  ASSUME NEW c, OnlyAt(c), NEW d \in Consumer, d # c, NEW n \in Nat
  PROVE  Unmoved(d, n)' <=> Unmoved(d, n)
<1>1. at'[d] = at[d] /\ index'[d] = index[d] /\ end'[d] = end[d]
  BY DEF OnlyAt
<1> QED BY <1>1 DEF Unmoved, Unfetched, EndIndex

LEMMA PresentSame ==
  ASSUME NEW c \in Consumer, OnlyAt(c), Made' = Made, headIndex' = headIndex,
         \A n \in Nat : Unmoved(c, n)' <=> Unmoved(c, n)
  PROVE  Present' = Present
<1>1. ASSUME NEW d \in Consumer, NEW n \in Nat PROVE Unmoved(d, n)' <=> Unmoved(d, n)
  BY OthersUnmoved
<1> QED BY <1>1 DEF Present

LEMMA ConsumerSlotsKept ==
  ASSUME NEW o, NEW lo, NEW hi, NEW home, NEW place, NEW num,
         MemoryInv(o, lo, hi, home, place, num), Claims, Claims', NEW c \in Consumer, ConsumerStep(c)
  PROVE  /\ Made' = Made /\ \A n : Loc(home, n)' = Loc(home, n)
         /\ TailOK(home) => TailOK(home)'
         /\ SlotsOK(home) /\ slots' = slots /\ Present' = Present => SlotsOK(home)'
<1>1. /\ ppc' = ppc /\ bulk' = bulk /\ newBlock' = newBlock /\ tailBlock' = tailBlock
      /\ tailIndex' = tailIndex /\ Cur' = Cur /\ Stored' = Stored
  BY ConsumerFrame
<1>2. Made' = Made /\ \A n : Loc(home, n)' = Loc(home, n)
  BY <1>1 DEF Made, Loc, Handed
<1>3. TailOK(home) => TailOK(home)'
  BY <1>1 DEF TailOK
<1> QED BY <1>2, <1>3, SlotsKept

LEMMA TakeIndexPresent ==
  ASSUME NEW o, NEW lo, NEW hi, NEW home, NEW place, NEW num,
         MemoryInv(o, lo, hi, home, place, num), Claims, Claims', NEW c \in Consumer, TakeIndex(c)
  PROVE  slots' = slots /\ Present' = Present
<1>1. ConsumersOK /\ headIndex \in Nat
  BY InvFacts DEF MemoryInv
<1>2. /\ ConsumerStep(c) /\ at[c] = "none" /\ at' = [at EXCEPT ![c] = "header"] /\ slots' = slots
      /\ index' = [index EXCEPT ![c] = headIndex] /\ end' = [end EXCEPT ![c] = headIndex + count[c]]
      /\ TakeAll(c) \/ TakeRest(c)
  BY DEF TakeIndex, ConsumerStep, Cgoto, blocks
<1>3. pc[c] # "idle" /\ headIndex' = headIndex + count[c]
  BY <1>2 DEF TakeAll, TakeRest, Grant
<1>4. count[c] \in Nat
  BY DEF Claims, TypeOK
<1>5. OnlyAt(c) /\ Made' = Made
  BY <1>1, <1>2, ConsumerAlone, ConsumerSlotsKept
<1>6. at'[c] = "header" /\ index'[c] = headIndex /\ end'[c] = headIndex'
  BY <1>1, <1>2, <1>3 DEF ConsumersOK
<1>7. ASSUME NEW n \in Nat PROVE n \in Present' <=> n \in Present
  <2>1. ~Unmoved(c, n)
    BY <1>2 DEF Unmoved
  <2>2. Unmoved(c, n)' <=> headIndex <= n /\ n < headIndex'
    BY <1>6 DEF Unmoved, Unfetched
  <2>3. \A d \in Consumer : d # c => (Unmoved(d, n)' <=> Unmoved(d, n))
    BY <1>5, OthersUnmoved
  <2>4. headIndex <= n <=> headIndex' <= n \/ Unmoved(c, n)'
    BY <1>1, <1>3, <1>4, <2>2
  <2> QED BY <1>5, <2>1, <2>3, <2>4 DEF Present
<1> QED BY <1>2, <1>7 DEF Present

(* The consumer goes on with what it has not moved.                        *)
LEMMA GoOnPresent ==
  ASSUME NEW o, NEW lo, NEW hi, NEW home, NEW place, NEW num,
         MemoryInv(o, lo, hi, home, place, num), Claims, Claims', NEW c \in Consumer,
         SetEmpty(c) \/ ClearEntry(c) \/ AddToFreeList(c)
  PROVE  slots' = slots /\ Present' = Present
<1>1. ConsumersOK /\ RangesOK /\ headIndex \in Nat
  BY InvFacts DEF MemoryInv
<1>2. /\ ConsumerStep(c) /\ at[c] \in {"setEmpty", "clear", "free"} /\ headIndex' = headIndex
      /\ slots' = slots
  BY DEF SetEmpty, ClearEntry, AddToFreeList, ConsumerStep, vars, counters, blocks
<1>3. OnlyAt(c) /\ Made' = Made
  BY <1>1, <1>2, ConsumerAlone, ConsumerSlotsKept
<1>4. ASSUME NEW n \in Nat PROVE Unmoved(c, n) <=> EndIndex(c) <= n /\ n < end[c]
  BY <1>2 DEF Unmoved, Unfetched
<1>5. ASSUME NEW n \in Nat PROVE Unmoved(c, n)' <=> EndIndex(c) <= n /\ n < end[c]
  <2>1. CASE at'[c] \in {"clear", "free"}
    <3>1. index' = index /\ end' = end
      <4>1. CASE ClearEntry(c)
        BY <4>1 DEF ClearEntry
      <4>2. CASE SetEmpty(c)
        <5>1. Filled(c)
          BY <2>1, <4>2, SetEmptyShape
        <5> QED BY <4>2, <5>1 DEF SetEmpty, Filled
      <4>3. CASE AddToFreeList(c)
        <5>1. NextBlock(c) /\ at[c] = "free"
          BY <4>3 DEF AddToFreeList
        <5>2. at'[c] \in {"none", "value"}
          BY <1>1, <5>1, NextBlockShape DEF ConsumersOK
        <5> QED BY <2>1, <5>2
      <4> QED BY <4>1, <4>2, <4>3
    <3> QED BY <2>1, <3>1 DEF Unmoved, Unfetched, EndIndex
  <2>2. CASE at'[c] \in {"none", "value"}
    <3>1. Uncounted(c, n)' <=> EndIndex(c) <= n /\ n < end[c]
      <4>1. CASE SetEmpty(c)
        BY <4>1, SetEmptyShape
      <4>2. CASE ClearEntry(c)
        BY <1>1, <2>2, <4>2 DEF ClearEntry, Cgoto, ConsumersOK
      <4>3. CASE AddToFreeList(c)
        BY <1>2, <4>3, NextBlockInv DEF AddToFreeList
      <4> QED BY <4>1, <4>2, <4>3
    <3>2. Uncounted(c, n)' <=> Unmoved(c, n)'
      BY <2>2 DEF Uncounted, Unmoved, Unfetched
    <3> QED BY <3>1, <3>2
  <2>3. at'[c] \in {"none", "value", "clear", "free"}
    <3>1. CASE SetEmpty(c)
      BY <3>1, SetEmptyShape
    <3>2. CASE ClearEntry(c)
      BY <1>1, <3>2 DEF ClearEntry, Cgoto, ConsumersOK
    <3>3. CASE AddToFreeList(c)
      BY <1>1, <3>3, NextBlockShape DEF ConsumersOK, AddToFreeList
    <3> QED BY <3>1, <3>2, <3>3
  <2> QED BY <2>1, <2>2, <2>3
<1> QED BY <1>2, <1>3, <1>4, <1>5, PresentSame

LEMMA WalkPresent ==
  ASSUME NEW o, NEW lo, NEW hi, NEW home, NEW place, NEW num,
         MemoryInv(o, lo, hi, home, place, num), Claims, Claims', NEW c \in Consumer,
         \/ ClaimStep(c) \/ LoadHeader(c) \/ LoadTail(c) \/ LoadKey(c) \/ LoadValue(c)
  PROVE  slots' = slots /\ Present' = Present
<1>1. ConsumersOK
  BY DEF MemoryInv
<1>2. /\ ConsumerStep(c) /\ headIndex' = headIndex /\ slots' = slots /\ index' = index /\ end' = end
  <2>1. CASE ClaimStep(c)
    BY <2>1 DEF ClaimStep, Draw, GiveBack, memory, blocks, locals, ConsumerStep
  <2>2. CASE LoadHeader(c) \/ LoadTail(c) \/ LoadKey(c) \/ LoadValue(c)
    BY <2>2 DEF LoadHeader, LoadTail, LoadKey, LoadValue, vars, counters, blocks, ConsumerStep
  <2> QED BY <2>1, <2>2
<1>3. OnlyAt(c) /\ Made' = Made
  BY <1>1, <1>2, ConsumerAlone, ConsumerSlotsKept
<1>4. /\ at'[c] \notin {"setEmpty", "clear", "free"} /\ at[c] \notin {"setEmpty", "clear", "free"}
      /\ at'[c] = "none" <=> at[c] = "none"
  <2>1. CASE ClaimStep(c)
    BY <2>1 DEF ClaimStep, memory, locals
  <2>2. CASE LoadHeader(c) \/ LoadTail(c) \/ LoadKey(c) \/ LoadValue(c)
    BY <1>1, <2>2 DEF LoadHeader, LoadTail, LoadKey, LoadValue, Cgoto, ConsumersOK
  <2> QED BY <2>1, <2>2
<1>5. ASSUME NEW n \in Nat PROVE Unmoved(c, n)' <=> Unmoved(c, n)
  BY <1>2, <1>4 DEF Unmoved, Unfetched
<1> QED BY <1>2, <1>3, <1>5, PresentSame

(* Move takes out what the consumer claimed in its first block, and        *)
(* nothing else.                                                           *)
LEMMA MovePresent ==
  ASSUME NEW o, NEW lo, NEW hi, NEW home, NEW place, NEW num,
         MemoryInv(o, lo, hi, home, place, num), Claims, Claims', NEW c \in Consumer, Move(c)
  PROVE  /\ Present' = Present \ (index[c]..(EndIndex(c) - 1))
         /\ \A n \in index[c]..(EndIndex(c) - 1) :
              n \in Present /\ n \in Nat /\ BlockNo(n) = FirstBlock(c) /\ Loc(home, n) = block[c]
         /\ block[c] \in Block
<1>1. /\ ConsumersOK /\ RangesOK /\ headIndex \in Nat /\ CarriesOK(home) /\ tailIndex \in Nat
      /\ headIndex <= tailIndex
  BY InvFacts DEF MemoryInv
<1>2. /\ ConsumerStep(c) /\ at[c] = "move" /\ at' = [at EXCEPT ![c] = "setEmpty"]
      /\ headIndex' = headIndex /\ index' = index /\ end' = end
  BY DEF Move, ConsumerStep, Cgoto, vars, counters
<1>3. OnlyAt(c) /\ Made' = Made /\ Made \in Nat /\ tailIndex <= Made
  BY <1>1, <1>2, ConsumerAlone, ConsumerSlotsKept, MadeFacts
<1>4. at'[c] = "setEmpty"
  BY <1>1, <1>2 DEF ConsumersOK
<1>5. /\ index[c] \in Nat /\ end[c] \in Nat /\ index[c] < end[c] /\ end[c] <= headIndex
      /\ FirstBlock(c) \in Nat /\ EndIndex(c) \in Nat /\ index[c] < EndIndex(c) /\ EndIndex(c) <= end[c]
      /\ First(FirstBlock(c)) <= index[c] /\ EndIndex(c) <= First(FirstBlock(c)) + BLOCK_SIZE
      /\ First(FirstBlock(c)) \in Nat
  BY <1>1, <1>2, ClaimFacts
<1>6. /\ \A n \in Nat : Unmoved(c, n) <=> index[c] <= n /\ n < end[c]
      /\ \A n \in Nat : Unmoved(c, n)' <=> EndIndex(c) <= n /\ n < end[c]
  <2>1. EndIndex(c)' = EndIndex(c)
    BY <1>2 DEF EndIndex
  <2> QED BY <1>2, <1>4, <2>1 DEF Unmoved, Unfetched
<1>7. block[c] = home[FirstBlock(c)] /\ block[c] \in Block
  BY <1>1, <1>2, AtBlock DEF CarriesOK
<1>8. ASSUME NEW n \in index[c]..(EndIndex(c) - 1)
      PROVE  n \in Present /\ n \in Nat /\ BlockNo(n) = FirstBlock(c) /\ Loc(home, n) = block[c]
  <2>1. n \in Nat /\ index[c] <= n /\ n < EndIndex(c) /\ n < tailIndex
    BY <1>1, <1>5
  <2>2. n \in Present
    BY <1>3, <1>1, <1>5, <1>6, <2>1 DEF Present
  <2>3. BlockNo(n) = FirstBlock(c)
    <3>1. n \in Int /\ FirstBlock(c) \in Int /\ First(FirstBlock(c)) <= n
          /\ n < First(FirstBlock(c)) + BLOCK_SIZE
      BY <1>5, <2>1, Sizes
    <3> QED BY <3>1, BlockNoFacts
  <2>4. Loc(home, n) = block[c]
    BY <1>1, <1>7, <2>1, <2>3 DEF Loc
  <2> QED BY <2>1, <2>2, <2>3, <2>4
<1>9. ASSUME NEW n \in Nat
      PROVE  n \in Present' <=> n \in Present /\ n \notin index[c]..(EndIndex(c) - 1)
  <2>1. \A d \in Consumer : d # c => (Unmoved(d, n)' <=> Unmoved(d, n))
    BY <1>3, OthersUnmoved
  <2>2. CASE n \in index[c]..(EndIndex(c) - 1)
    <3>1. index[c] <= n /\ n < EndIndex(c) /\ n < headIndex /\ ~Unmoved(c, n)'
      BY <1>1, <1>5, <1>6, <2>2
    <3>2. ASSUME NEW d \in Consumer, d # c PROVE ~Unmoved(d, n)
      <4> SUFFICES ASSUME Unmoved(d, n) PROVE FALSE
        OBVIOUS
      <4>1. index[d] <= n /\ n < end[d] /\ at[d] # "none" /\ index[d] \in Nat /\ end[d] \in Nat
        BY <1>1, UnmovedHeld DEF Unmoved, ConsumersOK
      <4>2. end[d] <= index[c] \/ end[c] <= index[d]
        BY <1>1, <1>2, <3>2, <4>1 DEF RangesOK
      <4> QED BY <1>5, <3>1, <4>1, <4>2
    <3> QED BY <1>1, <1>2, <2>1, <2>2, <3>1, <3>2 DEF Present
  <2>3. CASE n \notin index[c]..(EndIndex(c) - 1)
    <3>1. Unmoved(c, n)' <=> Unmoved(c, n)
      BY <1>5, <1>6, <2>3
    <3> QED BY <1>2, <1>3, <2>1, <2>3, <3>1 DEF Present
  <2> QED BY <2>2, <2>3
<1>10. Present' = Present \ (index[c]..(EndIndex(c) - 1))
  BY <1>9 DEF Present
<1> QED BY <1>7, <1>8, <1>10

LEMMA MoveSlots ==
  ASSUME NEW o, NEW lo, NEW hi, NEW home, NEW place, NEW num,
         MemoryInv(o, lo, hi, home, place, num), Claims, Claims', SlotsOK(home),
         NEW c \in Consumer, Move(c)
  PROVE  SlotsOK(home)'
<1>0. PICK N, b : N = index[c]..(EndIndex(c) - 1) /\ b = block[c]
  OBVIOUS
<1>1. /\ Present' = Present \ N /\ b \in Block
      /\ \A n \in N : n \in Present /\ n \in Nat /\ BlockNo(n) = FirstBlock(c) /\ Loc(home, n) = b
  BY <1>0, MovePresent
<1>2. /\ slots' = [slots EXCEPT ![b] = [i \in Slots |->
                     IF \E n \in N : Slot(Idx(n)) = i THEN 0 ELSE slots[b][i]]]
      /\ ConsumerStep(c)
  BY <1>0 DEF Move, ConsumerStep, Slots
<1>3. \A n : Loc(home, n)' = Loc(home, n)
  BY <1>2, ConsumerSlotsKept
<1>4. ASSUME NEW d \in Block, NEW i \in Slots, NEW n \in Nat
      PROVE  /\ slots[d][i] = n + 1 <=> Lies(home, n, d, i)
             /\ Lies(home, n, d, i)' <=> Lies(home, n, d, i) /\ n \notin N
  BY <1>1, <1>3 DEF Lies, SlotsOK
<1>5. slots \in [Block -> [Slots -> Nat]]
  BY DEF SlotsOK
<1>6. slots' \in [Block -> [Slots -> Nat]]
  BY <1>1, <1>2, <1>5
<1>7. ASSUME NEW d \in Block, NEW i \in Slots, NEW n \in Nat
      PROVE  slots'[d][i] = n + 1 <=> Lies(home, n, d, i)'
  <2>1. CASE d = b /\ \E m \in N : Slot(Idx(m)) = i
    <3>1. slots'[d][i] = 0
      BY <1>2, <1>5, <2>1
    <3>2. PICK m \in N : Slot(Idx(m)) = i
      BY <2>1
    <3>3. m \in Nat /\ Lies(home, m, d, i)
      BY <1>1, <2>1, <3>2 DEF Lies
    <3>4. Lies(home, n, d, i) => n = m
      <4>1. slots[d][i] = m + 1
        BY <1>4, <3>3
      <4> QED BY <1>4, <3>3, <4>1
    <3> QED BY <1>4, <3>1, <3>2, <3>4
  <2>2. CASE ~(d = b /\ \E m \in N : Slot(Idx(m)) = i)
    <3>1. slots'[d][i] = slots[d][i]
      BY <1>2, <1>5, <2>2
    <3>2. Lies(home, n, d, i) => n \notin N
      BY <1>1, <2>2 DEF Lies
    <3> QED BY <1>4, <3>1, <3>2
  <2> QED BY <2>1, <2>2
<1> QED BY <1>6, <1>7 DEF SlotsOK, Slots

-----------------------------------------------------------------------------
(* The invariant: the block index, the places of the blocks, the counts    *)
(* and the slots, for some witnesses.                                      *)
MInv == \E o, lo, hi, home, place, num :
          MemoryInv(o, lo, hi, home, place, num) /\ SlotsOK(home) /\ TailOK(home)

LEMMA ProducerInv == ASSUME MInv, Claims, ProducerStep PROVE MInv'
<1> PICK o, lo, hi, home, place, num :
      MemoryInv(o, lo, hi, home, place, num) /\ SlotsOK(home) /\ TailOK(home)
  BY DEF MInv
<1> SUFFICES \E b, low, high, h, new, to :
               /\ MemoryInv(b, low, high, h, new, to)' /\ SlotsOK(h)' /\ TailOK(h)'
  BY DEF MInv
<1>1. CASE EnqueueInBlock
  BY <1>1, EnqueueInBlockInv, EnqueueSlots
<1>2. CASE \/ InsertEntry \/ GrowIndex \/ StoreKey \/ StoreTail \/ Requisition \/ InsertFails
           \/ BulkThrow \/ Rewind \/ ClearValue \/ UndoEntry \/ UndoTail
           \/ Construct /\ ppc' = "rewind"
  <2>1. SlotsOK(home)' /\ TailOK(home)'
    BY <1>2, QuietSteps
  <2>2. \E b, low, high, new, to : MemoryInv(b, low, high, home, new, to)'
    <3>1. CASE InsertEntry \/ GrowIndex \/ StoreKey
      BY <3>1, InsertEntryInv, GrowIndexInv, StoreKeyInv
    <3>2. CASE StoreTail \/ Rewind \/ UndoTail
      BY <3>2, TailInv
    <3>3. CASE Requisition
      BY <3>3, RequisitionInv
    <3>4. CASE InsertFails \/ BulkThrow \/ Construct
      BY <3>4, MovesInv
    <3>5. CASE ClearValue
      BY <3>5, ClearValueInv
    <3>6. CASE UndoEntry
      BY <3>6, UndoEntryInv
    <3> QED BY <1>2, <3>1, <3>2, <3>3, <3>4, <3>5, <3>6
  <2> QED BY <2>1, <2>2
<1>3. CASE Construct /\ ppc' # "rewind"
  BY <1>3, MovesInv, ConstructSlots
<1>4. CASE StoreValue
  <2>1. PICK h, new, to : /\ MemoryInv(o, lo, hi, h, new, to)' /\ h[Stored + 1] = newBlock
                          /\ \A k \in Int : k # Stored + 1 => h[k] = home[k]
    BY <1>4, StoreValueInv
  <2>2. SlotsOK(h)' /\ TailOK(h)'
    BY <1>4, <2>1, StoreValueSlots
  <2> QED BY <2>1, <2>2
<1>5. CASE Publish
  BY <1>5, PublishInv, PublishSlots
<1>6. CASE \E n \in Bulks : StartBulk(n)
  BY <1>6, StartBulkInv, StartBulkSlots
<1>7. CASE BulkConstruct
  BY <1>7, MovesInv, BulkSlots
<1>8. CASE UndoBlocks
  BY <1>8, UndoBlocksInv, UndoBlocksSlots
<1> QED BY <1>1, <1>2, <1>3, <1>4, <1>5, <1>6, <1>7, <1>8 DEF ProducerStep

LEMMA ConsumerInv ==
  ASSUME MInv, Claims, Claims', NEW c \in Consumer, ConsumerStep(c)
  PROVE  MInv'
<1> PICK o, lo, hi, home, place, num :
      MemoryInv(o, lo, hi, home, place, num) /\ SlotsOK(home) /\ TailOK(home)
  BY DEF MInv
<1>1. TailOK(home)'
  BY ConsumerSlotsKept
<1>2. SlotsOK(home)'
  <2>1. CASE Move(c)
    BY <2>1, MoveSlots
  <2>2. CASE \/ ClaimStep(c) \/ LoadHeader(c) \/ LoadTail(c) \/ LoadKey(c) \/ LoadValue(c)
             \/ TakeIndex(c) \/ SetEmpty(c) \/ ClearEntry(c) \/ AddToFreeList(c)
    <3>1. slots' = slots /\ Present' = Present
      BY <2>2, WalkPresent, TakeIndexPresent, GoOnPresent
    <3> QED BY <3>1, ConsumerSlotsKept
  <2> QED BY <2>1, <2>2 DEF ConsumerStep
<1>3. \E new, to : MemoryInv(o, lo, hi, home, new, to)'
  <2>1. CASE ClaimStep(c)
    BY <2>1, ClaimStepInv
  <2>2. CASE TakeIndex(c)
    BY <2>2, TakeIndexInv
  <2>3. CASE LoadHeader(c)
    BY <2>3, LoadHeaderInv
  <2>4. CASE LoadTail(c)
    BY <2>4, LoadTailInv
  <2>5. CASE LoadKey(c)
    BY <2>5, LoadKeyInv
  <2>6. CASE LoadValue(c) \/ Move(c)
    BY <2>6, LoadValueInv
  <2>7. CASE SetEmpty(c)
    BY <2>7, SetEmptyInv
  <2>8. CASE ClearEntry(c)
    BY <2>8, ClearEntryInv
  <2>9. CASE AddToFreeList(c)
    BY <2>9, AddToFreeListInv
  <2> QED BY <2>1, <2>2, <2>3, <2>4, <2>5, <2>6, <2>7, <2>8, <2>9 DEF ConsumerStep
<1> QED BY <1>1, <1>2, <1>3 DEF MInv

LEMMA InitInv == QueueInit => MInv
<1> SUFFICES ASSUME QueueInit
             PROVE  \E o, lo, hi, home, place, num :
                      MemoryInv(o, lo, hi, home, place, num) /\ SlotsOK(home) /\ TailOK(home)
  BY DEF MInv
<1>1. PICK o, lo, hi, home, place, num :
        /\ o = <<-Past>> /\ hi = -1
        /\ lo = -1 - (IF Past < InitialIndexSize THEN Past ELSE InitialIndexSize)
        /\ home = [k \in Int |-> Null] /\ place = [b \in Block |-> "pool"] /\ num = 0
  OBVIOUS
<1>2. /\ tailIndex = 0 /\ headIndex = 0 /\ ppc = "idle" /\ bulk = NoBulk
      /\ tailBlock = Null /\ newBlock = Null /\ pool = Block
      /\ slots = [b \in Block |-> [i \in 0..(BLOCK_SIZE - 1) |-> 0]]
      /\ emptied = [b \in Block |-> IF Past = 0 THEN 0 ELSE BLOCK_SIZE]
      /\ at = [c \in Consumer |-> "none"] /\ index = [c \in Consumer |-> 0]
      /\ end = [c \in Consumer |-> 0] /\ hdr = [c \in Consumer |-> 1]
      /\ ipos = [c \in Consumer |-> 0] /\ block = [c \in Consumer |-> Null]
      /\ item = [c \in Consumer |-> <<>>] /\ thrown = [c \in Consumer |-> FALSE]
      /\ entries = [e \in 1..InitialIndexSize |->
                      [key |-> IF Latest(e) < 0 THEN INVALID_BLOCK_BASE
                               ELSE (Latest(e) * BLOCK_SIZE) % IndexMod,
                       value |-> Null]]
  BY DEF QueueInit, Init, MemoryInit, Latest
<1>3. KeyPart(o, lo, hi) /\ Newest = 1
  BY <1>1, InitIndex
<1>4. Cur = -1 /\ Chained = 0 /\ Stored = -1 /\ Back = 0
  <2>1. BlockNo(-1) = -1
    <3>1. First(-1) <= -1 /\ -1 < First(-1) + BLOCK_SIZE
      BY Sizes DEF First
    <3> QED BY <3>1, BlockNoFacts
  <2>2. Cur = -1
    BY <1>2, <2>1 DEF Cur
  <2> QED BY <1>2, <2>2 DEF Stored, Chained, Back, NoBulk
<1>5. ProducerOK
  <2>1. MaxTail \in Nat /\ Null \in Block \cup {Null}
    BY BoundAssumption
  <2>2. bulk \in [count : Bulks \cup {0}, start : Block \cup {Null}, chain : Seq(Block), undone : Nat]
    BY <1>2 DEF NoBulk
  <2>3. ProducerType
    BY <1>2, <2>1, <2>2 DEF ProducerType
  <2>4. BulkOK
    BY <1>2, <1>4 DEF BulkOK, NoBulk, Building
  <2>5. NewBlockOK
    BY <1>2 DEF NewBlockOK
  <2> QED BY <2>3, <2>4, <2>5 DEF ProducerOK
<1>6. LimitOK
  <2>1. First(Stored + 1) = 0
    BY <1>4, FirstType
  <2> QED BY <1>2, <2>1, QueueAssumption DEF LimitOK, Building
<1>7. ConsumersOK
  <2>1. at \in [Consumer -> Labels]
    BY <1>2 DEF Labels
  <2>2. index \in [Consumer -> Nat] /\ end \in [Consumer -> Nat] /\ hdr \in [Consumer -> Nat]
        /\ ipos \in [Consumer -> Nat] /\ block \in [Consumer -> Block \cup {Null}]
    BY <1>2
  <2>3. thrown \in [Consumer -> BOOLEAN] /\ DOMAIN item = Consumer
    BY <1>2
  <2>4. \A c \in Consumer : 1 <= hdr[c] /\ hdr[c] <= Newest
    BY <1>2, <1>3
  <2> QED BY <2>1, <2>2, <2>3, <2>4 DEF ConsumersOK
<1>8. \A c \in Consumer : at[c] = "none"
  BY <1>2
<1>9. RangesOK /\ WalksOK(o) /\ CarriesOK(home)
  BY <1>8 DEF RangesOK, WalksOK, CarriesOK
<1>10. LiveSet = {}
  BY <1>4 DEF LiveSet, Stocked
<1>11. ValuesOK(o, lo, hi, home)
  <2>1. \A k \in Int : ValueOf(o, k) = Null
    <3> SUFFICES ASSUME NEW k \in Int PROVE ValueOf(o, k) = Null
      OBVIOUS
    <3>1. EntryId(o, k) \in 1..Len(entries)
      BY <1>3, EntryIdType DEF KeyPart
    <3>2. Len(entries) = InitialIndexSize
      BY <1>2, QueueAssumption
    <3> QED BY <1>2, <3>1, <3>2 DEF ValueOf
  <2> QED BY <1>10, <2>1 DEF ValuesOK
<1>12. CountedOK(home)
  <2>1. emptied \in [Block -> 0..BLOCK_SIZE]
    BY <1>2, Sizes
  <2> QED BY <1>2, <1>8, <1>10, <2>1 DEF CountedOK
<1>13. PlacesOK(home, place, num)
  <2>1. \A b \in Block : place[b] = "pool"
    BY <1>1
  <2>2. \A b \in Block : b # newBlock
    BY <1>2, QueueAssumption
  <2> QED BY <1>2, <1>4, <1>8, <1>10, <2>1, <2>2 DEF PlacesOK
<1>14. ChainOK(home)
  BY <1>4 DEF ChainOK
<1>15. MemoryInv(o, lo, hi, home, place, num)
  BY <1>3, <1>5, <1>6, <1>7, <1>9, <1>11, <1>12, <1>13, <1>14 DEF MemoryInv
<1>16. SlotsOK(home)
  <2>1. Present = {}
    <3>1. Made = 0
      BY <1>2 DEF Made, Handed
    <3> QED BY <1>2, <1>8, <3>1 DEF Present
  <2>2. slots \in [Block -> [Slots -> Nat]]
    BY <1>2 DEF Slots
  <2> QED BY <1>2, <2>1, <2>2 DEF SlotsOK, Lies, Slots
<1>17. TailOK(home)
  BY <1>1, <1>2, <1>4 DEF TailOK, NoBulk
<1> QED BY <1>15, <1>16, <1>17

LEMMA StutterInv == ASSUME MInv, Claims, UNCHANGED allVars PROVE MInv'
<1> PICK o, lo, hi, home, place, num :
      MemoryInv(o, lo, hi, home, place, num) /\ SlotsOK(home) /\ TailOK(home)
  BY DEF MInv
<1>1. UNCHANGED memory /\ headIndex' = headIndex /\ tailIndex' = tailIndex
  BY DEF allVars, vars, counters
<1>2. MemoryInv(o, lo, hi, home, place, num)'
  BY <1>1, MemoryKept
<1>3. slots' = slots /\ at' = at /\ index' = index /\ end' = end /\ ppc' = ppc /\ bulk' = bulk
      /\ newBlock' = newBlock /\ tailBlock' = tailBlock
  BY <1>1 DEF memory, blocks, producer, locals
<1>4. Made' = Made /\ (Handed' <=> Handed) /\ Stored' = Stored /\ Cur' = Cur
  BY <1>1, <1>3 DEF Made, Handed, Stored, Cur, Chained
<1>5. Present' = Present
  <2>1. ASSUME NEW c \in Consumer, NEW n \in Nat PROVE Unmoved(c, n)' <=> Unmoved(c, n)
    BY <1>3 DEF Unmoved, Unfetched, EndIndex
  <2> QED BY <1>1, <1>4, <2>1 DEF Present
<1>6. \A n \in Present : Loc(home, n)' = Loc(home, n)
  BY <1>1, <1>3, <1>4 DEF Loc
<1>7. SlotsOK(home)'
  BY <1>3, <1>5, <1>6, SlotsKept
<1>8. TailOK(home)'
  BY <1>3, <1>4 DEF TailOK
<1> QED BY <1>2, <1>7, <1>8 DEF MInv

(* The invariant of the memory holds in every state.                       *)
LEMMA MemoryHolds == QueueSpec => [](MInv /\ Claims)
<1>1. QueueSpec => []Claims
  BY ClaimsHold
<1>2. QueueInit => MInv
  BY InitInv
<1>3. MInv /\ Claims /\ Claims' /\ [QueueNext]_allVars => MInv'
  <2> SUFFICES ASSUME MInv, Claims, Claims', [QueueNext]_allVars PROVE MInv'
    OBVIOUS
  <2>1. CASE ProducerStep
    BY <2>1, ProducerInv
  <2>2. ASSUME NEW c \in Consumer, ConsumerStep(c) PROVE MInv'
    BY <2>2, ConsumerInv
  <2>3. CASE UNCHANGED allVars
    BY <2>3, StutterInv
  <2> QED BY <2>1, <2>2, <2>3 DEF QueueNext
<1> QED BY <1>1, <1>2, <1>3, PTL DEF QueueSpec

(* concurrentqueue.h:313: the tests of lines 2418 and 2579, made against a  *)
(* head that may be old, keep the sub-queue within MAX_SUBQUEUE_SIZE       *)
(* elements.  A head only moves on, so an old one errs on the safe side.   *)
THEOREM StaysWithinLimit == QueueSpec => []WithinLimit
<1>1. ASSUME MInv, Claims PROVE WithinLimit
  <2> PICK o, lo, hi, home, place, num : MemoryInv(o, lo, hi, home, place, num)
    BY <1>1 DEF MInv
  <2>1. /\ Cur \in Int /\ Stored \in Int /\ Cur <= Stored /\ headIndex \in Nat /\ tailIndex \in Nat
    BY <1>1, InvFacts
  <2>2. First(Stored + 1) <= headIndex + MaxSubqueueSize
    BY DEF MemoryInv, LimitOK
  <2>3. First(Cur + 1) <= First(Stored + 1) /\ First(Cur + 1) \in Int /\ First(Stored + 1) \in Int
    <3>1. Cur + 1 \in Int /\ Stored + 1 \in Int
      BY <2>1
    <3>2. First(Cur + 1) \in Int /\ First(Stored + 1) \in Int
      BY <3>1, FirstType
    <3>3. Cur # Stored => First(Cur + 1) + BLOCK_SIZE <= First(Stored + 1)
      <4>1. Cur # Stored => Cur + 1 < Stored + 1
        BY <2>1
      <4> QED BY <3>1, <4>1, FirstOrder
    <3> QED BY <3>2, <3>3, Sizes
  <2>4. tailIndex - 1 < First(Cur + 1)
    <3>1. tailIndex - 1 \in Int
      BY <2>1
    <3>2. tailIndex - 1 < First(Cur) + BLOCK_SIZE
      BY <3>1, BlockNoFacts DEF Cur
    <3>3. First(Cur + 1) = First(Cur) + BLOCK_SIZE
      BY <2>1, FirstNext
    <3> QED BY <3>2, <3>3
  <2> QED BY <2>1, <2>2, <2>3, <2>4, QueueAssumption DEF WithinLimit
<1> QED BY <1>1, MemoryHolds, PTL

(* The assertions at concurrentqueue.h:2841, 2869 and 2874: after the      *)
(* index has grown, the entry the producer is about to use is a new one; a *)
(* consumer that computes an offset in the index it has loaded starts from *)
(* an entry in use, and the entry it arrives at, even in an array the      *)
(* producer has replaced meanwhile, is the one of its element.             *)
THEOREM FindsEntries == QueueSpec => []BlockIndexAssertions
<1>1. ASSUME MInv, Claims PROVE BlockIndexAssertions
  <2> PICK o, lo, hi, home, place, num : MemoryInv(o, lo, hi, home, place, num)
    BY <1>1 DEF MInv
  <2>1. /\ HeadersType(o) /\ WindowOK(o, lo, hi) /\ KeysOK(o, lo, hi) /\ WalksOK(o) /\ RangesOK
    BY DEF MemoryInv, KeyPart
  <2>2. ASSUME ppc = "storeKey" PROVE entries[blockIndex.index[NewTail]].key = INVALID_BLOCK_BASE
    <3>1. /\ Top \in Int /\ lo \in Int /\ hi \in Int /\ Cap \in Nat /\ Cap > 0 /\ o[Newest] \in Int
          /\ blockIndex = headers[Newest] /\ blockIndex.capacity = Cap
      BY <1>1, <2>1, InvFacts, CapFacts
    <3>2. hi = Top /\ hi < lo + Cap /\ headers[Newest].tail = Ring(o[Newest], Cap, Top) /\ lo <= Top
      BY <2>1, <2>2 DEF WindowOK
    <3>3. NewTail = Ring(o[Newest], Cap, Top + 1)
      <4>1. (Ring(o[Newest], Cap, Top) + 1) % Cap = Ring(o[Newest], Cap, Top + 1)
        BY <3>1, RingStep
      <4> QED BY <3>1, <3>2, <4>1 DEF NewTail
    <3>4. entries[blockIndex.index[NewTail]].key = KeyOf(o, Top + 1)
      BY <3>1, <3>3 DEF KeyOf, EntryId
    <3>5. Top + 1 \in Int /\ lo < Top + 1 /\ Top + 1 <= lo + Cap /\ ~(Top + 1 <= hi)
      BY <3>1, <3>2
    <3> QED BY <2>1, <3>4, <3>5 DEF KeysOK
  <2>3. ASSUME NEW c \in Consumer, at[c] = "value"
        PROVE  entries[Entry(c)].key = BaseOf(c) /\ entries[Entry(c)].value # Null
    <3>1. /\ entries[Entry(c)].key = Key(FirstBlock(c))
          /\ entries[Entry(c)].value = home[FirstBlock(c)] /\ home[FirstBlock(c)] \in Block
      BY <1>1, <2>3, FoundEntry
    <3>2. BlockBase(Idx(index[c])) = Key(FirstBlock(c))
      <4>1. index[c] \in Nat
        BY <1>1, <2>3, AtBlock
      <4>2. index[c] \in Int
        BY <4>1
      <4>3. \A n \in Int : BlockBase(Idx(n)) = Key(BlockNo(n))
        BY KeyFacts
      <4> QED BY ONLY <4>2, <4>3 DEF FirstBlock
    <3> QED BY <3>1, <3>2, QueueAssumption DEF BaseOf
  <2>4. ASSUME NEW c \in Consumer, at[c] = "key" PROVE entries[Entry(c)].key # INVALID_BLOCK_BASE
    BY <2>1, <2>4 DEF WalksOK
  <2> QED BY <2>2, <2>3, <2>4 DEF BlockIndexAssertions
<1> QED BY <1>1, MemoryHolds, PTL

(* set_empty never counts past the block.                                  *)
NeverPastBlock ==
  \A c \in Consumer : at[c] = "setEmpty" => emptied[block[c]] + Here(c) <= BLOCK_SIZE

LEMMA CountsWithinBlock == ASSUME MInv, Claims PROVE NeverPastBlock
<1> PICK o, lo, hi, home, place, num : MemoryInv(o, lo, hi, home, place, num)
  BY DEF MInv
<1> QED BY SetEmptyCounts DEF NeverPastBlock

(* A block that a consumer uses is the home of a block in the index, or    *)
(* out of it and the consumer's own.                                       *)
LEMMA UsedBlock ==
  ASSUME NEW o, NEW lo, NEW hi, NEW home, NEW place, NEW num,
         MemoryInv(o, lo, hi, home, place, num), Claims,
         NEW c \in Consumer, NEW b \in Block, Using(c, b)
  PROVE  \/ place[b] = "free"
         \/ FirstBlock(c) \in LiveSet /\ FirstBlock(c) <= Cur /\ b = home[FirstBlock(c)]
<1>1. CarriesOK(home) /\ PlacesOK(home, place, num)
  BY DEF MemoryInv
<1>2. CASE at[c] = "free"
  BY <1>1, <1>2 DEF Using, PlacesOK
<1>3. CASE at[c] # "free"
  <2>1. at[c] \in {"move", "setEmpty", "clear"} /\ block[c] = b
    BY <1>3 DEF Using
  <2>2. b = home[FirstBlock(c)]
    BY <1>1, <2>1 DEF CarriesOK
  <2> QED BY <2>1, <2>2, AtBlock
<1> QED BY <1>2, <1>3

(* No element is constructed over another (concurrentqueue.h:2445, 2467,   *)
(* 2636), nor in a block that a slow consumer still reads or counts in,    *)
(* and set_empty never counts past the block (1546).                       *)
THEOREM NeverOverwrites == QueueSpec => []NoOverwrite
<1>1. ASSUME MInv, Claims PROVE NoOverwrite
  <2> PICK o, lo, hi, home, place, num :
        MemoryInv(o, lo, hi, home, place, num) /\ SlotsOK(home) /\ TailOK(home)
    BY <1>1 DEF MInv
  <2> USE <1>1
  <2>1. ASSUME ppc = "insert", AllBlocks, NEW n \in Elements
        PROVE  /\ slots[BlockOf(n)][Slot(Idx(n))] = 0
               /\ \A c \in Consumer : Using(c, BlockOf(n)) => BlockOf(n) = bulk.start
    <3>1. /\ n \in Nat /\ tailIndex <= n /\ BlockOf(n) = home[BlockNo(n)] /\ BlockNo(n) \in LiveSet
          /\ BlockNo(n) <= Cur => BlockOf(n) = bulk.start
      BY <2>1, BulkPlace
    <3>2. /\ \A k \in LiveSet : home[BlockNo(n)] = home[k] => BlockNo(n) = k
          /\ home[BlockNo(n)] \in Block /\ place[home[BlockNo(n)]] = "home"
      BY <3>1, HomeOnce
    <3>3. Slot(Idx(n)) \in Slots
      BY <3>1, SlotFacts DEF Slots
    <3>4. slots[BlockOf(n)][Slot(Idx(n))] = 0
      <4> SUFFICES ASSUME NEW m \in Nat, slots[BlockOf(n)][Slot(Idx(n))] = m + 1 PROVE FALSE
        <5>1. slots[BlockOf(n)][Slot(Idx(n))] \in Nat
          BY <3>1, <3>2, <3>3 DEF SlotsOK
        <5>2. PICK v \in Nat : v = slots[BlockOf(n)][Slot(Idx(n))]
          BY <5>1
        <5>3. v # 0 => v - 1 \in Nat /\ v = (v - 1) + 1
          OBVIOUS
        <5> QED BY <5>2, <5>3
      <4>1. m \in Present /\ Loc(home, m) = home[BlockNo(n)] /\ Slot(Idx(m)) = Slot(Idx(n))
        BY <3>1, <3>2, <3>3 DEF SlotsOK, Lies
      <4>2. BlockNo(m) \in LiveSet /\ Loc(home, m) = home[BlockNo(m)]
        BY <2>1, <4>1, PresentLive DEF Handed
      <4>3. BlockNo(n) = BlockNo(m)
        BY <3>2, <4>1, <4>2
      <4>4. m = n
        BY <3>1, <4>1, <4>3, SlotOnce
      <4>5. m < Made /\ Made = tailIndex /\ tailIndex \in Nat
        BY <2>1, <4>1, MadeFacts, InvFacts DEF Present
      <4> QED BY <3>1, <4>4, <4>5
    <3>5. ASSUME NEW c \in Consumer, Using(c, BlockOf(n)) PROVE BlockOf(n) = bulk.start
      <4>1. FirstBlock(c) \in LiveSet /\ FirstBlock(c) <= Cur /\ BlockOf(n) = home[FirstBlock(c)]
        BY <3>1, <3>2, <3>5, UsedBlock
      <4>2. BlockNo(n) = FirstBlock(c)
        BY <3>1, <3>2, <4>1
      <4> QED BY <3>1, <4>1, <4>2
    <3> QED BY <3>4, <3>5
  <2>2. ASSUME ppc = "construct"
        PROVE  slots[newBlock][Slot(Tl)] = 0 /\ \A c \in Consumer : ~Using(c, newBlock)
    <3>1. Slot(Tl) \in Slots
      BY InvFacts, SlotFacts DEF Tl, Slots
    <3>2. newBlock \in Block /\ slots[newBlock][Slot(Tl)] = 0
      BY <2>2, <3>1, HandSlot DEF Handed
    <3>3. place[newBlock] = "hand"
      BY <2>2, <3>2 DEF MemoryInv, PlacesOK
    <3>4. ASSUME NEW c \in Consumer, Using(c, newBlock) PROVE FALSE
      <4>1. FirstBlock(c) \in LiveSet /\ newBlock = home[FirstBlock(c)]
        BY <3>2, <3>3, <3>4, UsedBlock
      <4> QED BY <2>2, <4>1, HomeOnce
    <3> QED BY <3>2, <3>4
  <2>3. ppc = "idle" /\ Slot(Tl) # 0 => slots[tailBlock][Slot(Tl)] = 0
    BY TailSlot
  <2>4. NeverPastBlock
    BY CountsWithinBlock
  <2> QED BY <2>1, <2>2, <2>3, <2>4 DEF NoOverwrite, NeverPastBlock
<1> QED BY <1>1, MemoryHolds, PTL

(* Nobody is inside the queue: its blocks are those from the head's to the *)
(* tail's, with the elements between head and tail in them, and every      *)
(* other block of memory is in the pool.                                   *)
LEMMA QuietFacts ==
  ASSUME NEW o, NEW lo, NEW hi, NEW home, NEW place, NEW num,
         MemoryInv(o, lo, hi, home, place, num), Claims, TailOK(home), Quiet
  PROVE  /\ Stored = Cur /\ Top = Cur /\ Made = tailIndex /\ ~Handed
         /\ tailBlock = home[Cur]
         /\ \A k \in Int : k \in LiveSet <=> 0 <= k /\ k <= Cur /\ headIndex < First(k + 1)
         /\ \A n \in Nat : n \in Present <=> headIndex <= n /\ n < tailIndex
         /\ \A b \in Block : b \in pool \/ \E k \in LiveSet : b = home[k]
         /\ \A k \in LiveSet : home[k] \in Block /\ home[k] \notin pool
<1>1. ppc = "idle" /\ \A c \in Consumer : at[c] = "none"
  BY DEF Quiet
<1>2. /\ Cur \in Int /\ Back = 0 /\ headIndex \in Nat /\ tailIndex \in Nat /\ headIndex <= tailIndex
      /\ bulk.undone \in Nat
  BY <1>1, InvFacts
<1>3. /\ ProducerType /\ BulkOK /\ NewBlockOK /\ ValuesOK(o, lo, hi, home)
      /\ PlacesOK(home, place, num)
  BY DEF MemoryInv, ProducerOK
<1>4. Stored = Cur /\ Top = Cur
  <2>1. bulk.chain = <<>> /\ bulk.undone = 0
    BY <1>1, <1>3 DEF BulkOK
  <2>2. Chained = 0
    BY <2>1 DEF Chained
  <2> QED BY <1>1, <1>2, <2>1, <2>2 DEF Stored, Top
<1>5. Made = tailIndex /\ ~Handed
  BY <1>1, <1>2 DEF Made, Handed
<1>6. \A k \in Int : k \in LiveSet <=> 0 <= k /\ k <= Cur /\ headIndex < First(k + 1)
  BY <1>1, <1>2, <1>4 DEF LiveSet, Stocked, Pending, Holds
<1>7. \A n \in Nat : n \in Present <=> headIndex <= n /\ n < tailIndex
  BY <1>1, <1>5 DEF Present, Unmoved
<1>8. ASSUME NEW b \in Block PROVE b \in pool \/ \E k \in LiveSet : b = home[k]
  <2>1. newBlock = Null /\ Null \notin Block
    BY <1>1, <1>3, QueueAssumption DEF NewBlockOK
  <2>2. place[b] \notin {"hand", "undone", "free"}
    BY <1>1, <1>2, <1>3, <2>1 DEF PlacesOK
  <2> QED BY <1>3, <2>2 DEF PlacesOK
<1>9. \A k \in LiveSet : home[k] \in Block /\ home[k] \notin pool
  BY <1>3 DEF PlacesOK, ValuesOK
<1> QED BY <1>4, <1>5, <1>6, <1>7, <1>8, <1>9 DEF TailOK

(* The index finds the block of an element that is present.                *)
LEMMA HomeFound ==
  ASSUME NEW o, NEW lo, NEW hi, NEW home, NEW place, NEW num,
         MemoryInv(o, lo, hi, home, place, num), Claims, TailOK(home), Quiet,
         NEW n \in Int, BlockNo(n) \in LiveSet
  PROVE  HomeOf(n) = home[BlockNo(n)]
<1>1. KeyPart(o, lo, hi) /\ WindowOK(o, lo, hi) /\ ValuesOK(o, lo, hi, home)
  BY DEF MemoryInv, KeyPart
<1>2. Top \in Int /\ Cap \in Nat /\ lo \in Int /\ hi \in Int
  BY InvFacts
<1>3. BlockNo(n) \in Int /\ BlockNo(n) <= Top /\ lo < BlockNo(n) /\ BlockNo(n) <= hi
  BY <1>1, QuietFacts DEF ValuesOK, LiveSet
<1>4. EntryFor(n) = EntryId(o, BlockNo(n))
  BY <1>1, <1>2, <1>3, EntryForFinds
<1>5. hi <= lo + Cap
  BY <1>1 DEF WindowOK
<1>6. ValueOf(o, BlockNo(n)) = home[BlockNo(n)]
  BY <1>1, <1>2, <1>3, <1>5 DEF ValuesOK
<1> QED BY <1>4, <1>6 DEF HomeOf, ValueOf

(* The blocks that the destructor returns, in the order of the queue.      *)
FreedFrom(home, first, length) ==
  /\ Freed = [i \in 1..length |-> home[first + i - 1]]
  /\ \A k \in Int : k \in LiveSet <=> first <= k /\ k < first + length

LEMMA FreedShape ==
  ASSUME NEW o, NEW lo, NEW hi, NEW home, NEW place, NEW num,
         MemoryInv(o, lo, hi, home, place, num), Claims, TailOK(home), Quiet
  PROVE  \E first, length \in Nat : FreedFrom(home, first, length)
<1> DEFINE first == BlockNo(headIndex)
<1>1. /\ Cur \in Int /\ headIndex \in Nat /\ tailIndex \in Nat /\ headIndex <= tailIndex
      /\ Null \notin Block
  BY InvFacts
<1>2. /\ tailBlock = home[Cur] /\ \A k \in LiveSet : home[k] \in Block
      /\ \A k \in Int : k \in LiveSet <=> 0 <= k /\ k <= Cur /\ headIndex < First(k + 1)
  BY QuietFacts
<1>3. /\ First(Cur) < tailIndex /\ tailIndex <= First(Cur + 1) /\ Cur >= -1
      /\ First(Cur) \in Int /\ First(Cur + 1) \in Int
      /\ (Slot(Tl) = 0 <=> tailIndex = First(Cur + 1))
  BY TailPlace DEF MemoryInv, ProducerOK
<1>4. first \in Nat /\ \A k \in Int : headIndex < First(k + 1) <=> first <= k
  <2>1. first \in Nat /\ headIndex \in Int
    BY <1>1, BlockNoFacts
  <2>2. First(first) <= headIndex /\ headIndex < First(first) + BLOCK_SIZE
    BY <1>1, BlockNoFacts
  <2>3. ASSUME NEW k \in Int PROVE headIndex < First(k + 1) <=> first <= k
    <3>1. First(k + 1) \in Int /\ First(first) \in Int /\ First(first + 1) \in Int
          /\ First(first + 1) = First(first) + BLOCK_SIZE
      <4>1. k + 1 \in Int /\ first + 1 \in Int /\ first \in Int
        BY <2>1
      <4> QED BY <4>1, FirstType, FirstNext
    <3>2. CASE first <= k
      <4>1. first + 1 = k + 1 \/ first + 1 < k + 1
        BY <2>1, <3>2
      <4>2. First(first + 1) <= First(k + 1)
        <5>1. first + 1 < k + 1 => First(first + 1) + BLOCK_SIZE <= First(k + 1)
          <6>1. k + 1 \in Int /\ first + 1 \in Int
            BY <2>1
          <6> QED BY <6>1, FirstOrder
        <5> QED BY <3>1, <4>1, <5>1, Sizes
      <4> QED BY <1>1, <2>2, <3>1, <3>2, <4>2
    <3>3. CASE k < first
      <4>1. k + 1 = first \/ k + 1 < first
        BY <2>1, <3>3
      <4>2. First(k + 1) <= First(first)
        <5>1. k + 1 < first => First(k + 1) + BLOCK_SIZE <= First(first)
          <6>1. k + 1 \in Int /\ first \in Int
            BY <2>1
          <6> QED BY <6>1, FirstOrder
        <5> QED BY <3>1, <4>1, <5>1, Sizes
      <4> QED BY <1>1, <2>1, <2>2, <3>1, <3>3, <4>2
    <3> QED BY <2>1, <3>2, <3>3
  <2> QED BY <2>1, <2>3
<1> HIDE DEF first
<1>5. \A k \in Int : k \in LiveSet <=> first <= k /\ k <= Cur
  BY <1>2, <1>4
<1>6. CASE headIndex = tailIndex /\ Slot(Tl) = 0
  <2>1. Freed = <<>>
    BY <1>6 DEF Freed
  <2>2. ~(first <= Cur)
    BY <1>1, <1>3, <1>4, <1>6
  <2>3. Freed = [i \in 1..0 |-> home[first + i - 1]]
    BY <2>1
  <2>4. \A k \in Int : k \in LiveSet <=> first <= k /\ k < first + 0
    BY <1>1, <1>4, <1>5, <2>2
  <2> QED BY <1>4, <2>3, <2>4 DEF FreedFrom
<1>7. CASE headIndex = tailIndex /\ Slot(Tl) # 0
  <2>1. first <= Cur
    BY <1>1, <1>3, <1>4, <1>7
  <2>2. ~(first <= Cur - 1)
    <3>1. Cur - 1 \in Int /\ (Cur - 1) + 1 = Cur
      BY <1>1
    <3>2. headIndex < First((Cur - 1) + 1) <=> first <= Cur - 1
      BY <1>4, <3>1
    <3> QED BY <1>1, <1>3, <1>7, <3>1, <3>2
  <2>3. first = Cur
    BY <1>1, <1>4, <2>1, <2>2
  <2>4. Cur \in LiveSet
    BY <1>1, <1>5, <2>3
  <2>5. tailBlock # Null
    BY <1>1, <1>2, <2>4
  <2>6. Freed = <<tailBlock>>
    BY <1>7, <2>5 DEF Freed
  <2>7. Freed = [i \in 1..1 |-> home[first + i - 1]]
    <3>1. \A i \in 1..1 : first + i - 1 = Cur
      BY <1>1, <2>3
    <3> QED BY <1>2, <2>6, <3>1
  <2>8. \A k \in Int : k \in LiveSet <=> first <= k /\ k < first + 1
    BY <1>1, <1>5, <2>3
  <2> QED BY <1>4, <2>7, <2>8 DEF FreedFrom
<1>8. CASE headIndex # tailIndex
  <2>1. first <= Cur
    <3>1. headIndex < First(Cur + 1)
      BY <1>1, <1>3, <1>8
    <3> QED BY <1>1, <1>4, <3>1
  <2>2. Cur \in LiveSet
    BY <1>1, <1>5, <2>1
  <2>3. tailBlock # Null
    BY <1>1, <1>2, <2>2
  <2>4. PICK span \in Nat : span = Cur - first
    BY <1>1, <1>4, <2>1
  <2>5. FreedInLoop = [i \in 1..span |->
          HomeOf(IF i = 1 THEN headIndex ELSE BLOCK_SIZE * (first + i - 1))]
    BY <2>4 DEF FreedInLoop, first, Cur
  <2>6. ASSUME NEW i \in 1..span
        PROVE  HomeOf(IF i = 1 THEN headIndex ELSE BLOCK_SIZE * (first + i - 1))
                 = home[first + i - 1]
    <3>1. PICK n : n = IF i = 1 THEN headIndex ELSE First(first + i - 1)
      OBVIOUS
    <3>2. n \in Int /\ BlockNo(n) = first + i - 1
      <4>1. CASE i = 1
        BY <1>1, <1>4, <3>1, <4>1 DEF first
      <4>2. CASE i # 1
        <5>1. first + i - 1 \in Int
          BY <1>4
        <5>2. First(first + i - 1) \in Int
          BY <5>1, FirstType
        <5> QED BY <3>1, <4>2, <5>1, <5>2, BlockNoFacts, Sizes
      <4> QED BY <4>1, <4>2
    <3>3. first + i - 1 \in LiveSet
      <4>1. first + i - 1 \in Int /\ first <= first + i - 1 /\ first + i - 1 <= Cur
        BY <1>1, <1>4, <2>4
      <4> QED BY <1>5, <4>1
    <3>4. HomeOf(n) = home[first + i - 1]
      BY <3>2, <3>3, HomeFound
    <3> QED BY <3>1, <3>4 DEF First
  <2>7. Freed = FreedInLoop \o <<tailBlock>>
    BY <1>8, <2>3 DEF Freed
  <2>8. Freed = [i \in 1..(span + 1) |-> home[first + i - 1]]
    <3>1. FreedInLoop = [i \in 1..span |-> home[first + i - 1]]
      BY <2>5, <2>6
    <3>2. first + (span + 1) - 1 = Cur
      BY <1>1, <1>4, <2>4
    <3>3. home[first + (span + 1) - 1] = tailBlock
      BY <1>2, <3>2
    <3> HIDE DEF first
    <3>4. \A s, x : s = [i \in 1..span |-> home[first + i - 1]] /\ x = home[first + (span + 1) - 1]
                      => s \o <<x>> = [i \in 1..(span + 1) |-> home[first + i - 1]]
      OBVIOUS
    <3> QED BY <2>7, <3>1, <3>3, <3>4
  <2>9. \A k \in Int : k \in LiveSet <=> first <= k /\ k < first + (span + 1)
    BY <1>1, <1>4, <1>5, <2>4
  <2>10. PICK length \in Nat : length = span + 1
    OBVIOUS
  <2>11. Freed = [i \in 1..length |-> home[first + i - 1]]
    BY <2>8, <2>10
  <2>12. \A k \in Int : k \in LiveSet <=> first <= k /\ k < first + length
    BY <2>9, <2>10
  <2> QED BY <1>4, <2>11, <2>12 DEF FreedFrom
<1> QED BY <1>6, <1>7, <1>8

(* The elements between head and tail, and no others, are in memory, each  *)
(* where the index says.                                                   *)
LEMMA QuietElements ==
  ASSUME NEW o, NEW lo, NEW hi, NEW home, NEW place, NEW num,
         MemoryInv(o, lo, hi, home, place, num), Claims, SlotsOK(home), TailOK(home), Quiet
  PROVE  /\ \A b \in Block, i \in Slots : slots[b][i] # 0 =>
              slots[b][i] - 1 \in headIndex..(tailIndex - 1)
         /\ \A n \in headIndex..(tailIndex - 1) :
              /\ BlockNo(n) \in LiveSet /\ HomeOf(n) = home[BlockNo(n)]
              /\ home[BlockNo(n)] \in Block /\ Slot(Idx(n)) \in Slots
              /\ slots[home[BlockNo(n)]][Slot(Idx(n))] = n + 1
<1>1. /\ headIndex \in Nat /\ tailIndex \in Nat
  BY InvFacts
<1>2. ~Handed /\ \A n \in Nat : n \in Present <=> headIndex <= n /\ n < tailIndex
  BY QuietFacts
<1>3. ASSUME NEW b \in Block, NEW i \in Slots, slots[b][i] # 0
      PROVE  slots[b][i] - 1 \in headIndex..(tailIndex - 1)
  <2>1. slots[b][i] \in Nat
    BY DEF SlotsOK
  <2>2. PICK v \in Nat : v = slots[b][i]
    BY <2>1
  <2>3. v - 1 \in Nat /\ v = (v - 1) + 1
    BY <1>3, <2>2
  <2>4. v - 1 \in Present
    <3>1. Lies(home, v - 1, b, i)
      BY <2>2, <2>3 DEF SlotsOK
    <3> QED BY <3>1 DEF Lies
  <2>5. headIndex <= v - 1 /\ v - 1 < tailIndex
    BY <1>2, <2>3, <2>4
  <2> QED BY <1>1, <2>2, <2>3, <2>5
<1>4. ASSUME NEW n \in headIndex..(tailIndex - 1)
      PROVE  /\ BlockNo(n) \in LiveSet /\ HomeOf(n) = home[BlockNo(n)]
             /\ home[BlockNo(n)] \in Block /\ Slot(Idx(n)) \in Slots
             /\ slots[home[BlockNo(n)]][Slot(Idx(n))] = n + 1
  <2>1. n \in Nat /\ n \in Int /\ n \in Present
    BY <1>1, <1>2
  <2>2. BlockNo(n) \in LiveSet /\ Loc(home, n) = home[BlockNo(n)]
    BY <1>2, <2>1, PresentLive
  <2>3. home[BlockNo(n)] \in Block
    BY <2>2, HomeOnce
  <2>4. HomeOf(n) = home[BlockNo(n)]
    BY <2>1, <2>2, HomeFound
  <2>5. Slot(Idx(n)) \in Slots
    BY <2>1, SlotFacts DEF Slots
  <2>6. Lies(home, n, home[BlockNo(n)], Slot(Idx(n)))
    BY <2>1, <2>2 DEF Lies
  <2>7. slots[home[BlockNo(n)]][Slot(Idx(n))] = n + 1
    BY <2>1, <2>3, <2>5, <2>6 DEF SlotsOK
  <2> QED BY <2>2, <2>3, <2>4, <2>5, <2>7
<1> QED BY <1>3, <1>4

(* Whenever the destructor may run, it finds every element not dequeued    *)
(* through the block index, in its slot, there is no other object left in  *)
(* any block, and it returns each block that is not in the pool once.      *)
THEOREM DestructionIsComplete == QueueSpec => []DestroysAll
<1>1. ASSUME MInv, Claims, Idle
      PROVE  /\ \A b \in Block, i \in 0..(BLOCK_SIZE - 1) : slots[b][i] # 0 =>
                  slots[b][i] - 1 \in headIndex..(tailIndex - 1)
             /\ \A n \in headIndex..(tailIndex - 1) : /\ HomeOf(n) # Null
                                                      /\ slots[HomeOf(n)][Slot(Idx(n))] = n + 1
             /\ IsInjective(Freed) /\ ToSet(Freed) = Block \ pool
  <2> PICK o, lo, hi, home, place, num :
        MemoryInv(o, lo, hi, home, place, num) /\ SlotsOK(home) /\ TailOK(home)
    BY <1>1 DEF MInv
  <2> USE <1>1
  <2>1. Quiet
    BY DEF Idle
  <2>2. /\ \A b \in Block, i \in Slots : slots[b][i] # 0 =>
             slots[b][i] - 1 \in headIndex..(tailIndex - 1)
        /\ \A n \in headIndex..(tailIndex - 1) :
             /\ HomeOf(n) = home[BlockNo(n)] /\ home[BlockNo(n)] \in Block
             /\ slots[home[BlockNo(n)]][Slot(Idx(n))] = n + 1
    BY <2>1, QuietElements
  <2>3. \A n \in headIndex..(tailIndex - 1) : /\ HomeOf(n) # Null
                                              /\ slots[HomeOf(n)][Slot(Idx(n))] = n + 1
    BY <2>2, QueueAssumption
  <2>0. \E first, length \in Nat : FreedFrom(home, first, length)
    BY <2>1, FreedShape
  <2>4. PICK first \in Nat, length \in Nat :
          /\ Freed = [i \in 1..length |-> home[first + i - 1]]
          /\ \A k \in Int : k \in LiveSet <=> first <= k /\ k < first + length
    BY <2>0 DEF FreedFrom
  <2>5. \A i \in 1..length : first + i - 1 \in LiveSet
    BY <2>4
  <2>6. DOMAIN Freed = 1..length /\ \A i \in 1..length : Freed[i] = home[first + i - 1]
    BY <2>4
  <2>7. ASSUME NEW i \in 1..length, NEW j \in 1..length, Freed[i] = Freed[j] PROVE i = j
    <3>1. home[first + i - 1] = home[first + j - 1]
      BY <2>6, <2>7
    <3>2. first + i - 1 = first + j - 1
      BY <2>5, <3>1, HomeOnce
    <3> QED BY <3>2
  <2>8. IsInjective(Freed)
    BY <2>6, <2>7 DEF IsInjective
  <2>9. ToSet(Freed) = {Freed[i] : i \in 1..length}
    BY <2>6 DEF ToSet
  <2>10. ASSUME NEW i \in 1..length PROVE Freed[i] \in Block \ pool
    BY <2>1, <2>5, <2>6, QuietFacts
  <2>11. ASSUME NEW b \in Block \ pool PROVE \E i \in 1..length : Freed[i] = b
    <3>1. PICK k \in LiveSet : b = home[k]
      BY <2>1, QuietFacts
    <3>2. k \in Int /\ first <= k /\ k < first + length
      BY <2>4 DEF LiveSet
    <3>3. PICK i \in 1..length : i = k - first + 1
      BY <2>4, <3>2
    <3>4. first + i - 1 = k
      BY <3>2, <3>3
    <3> QED BY <2>6, <3>1, <3>4
  <2>12. ToSet(Freed) = Block \ pool
    BY <2>9, <2>10, <2>11
  <2> QED BY <2>2, <2>3, <2>8, <2>12 DEF Slots
<1>2. MInv /\ Claims => DestroysAll
  BY <1>1 DEF DestroysAll
<1> QED BY <1>2, MemoryHolds, PTL

(* The places of the index where a block is found: one for a block in use, *)
(* none for any other.                                                     *)
LEMMA InIndexFacts ==
  ASSUME NEW o, NEW lo, NEW hi, NEW home, NEW place, NEW num,
         MemoryInv(o, lo, hi, home, place, num), Claims
  PROVE  /\ \A j \in LiveSet : \E p : InIndex(home[j]) = {p}
         /\ \A b \in Block : (\A k \in LiveSet : b # home[k]) => InIndex(b) = {}
<1>1. /\ HeadersType(o) /\ EntriesType /\ WindowOK(o, lo, hi) /\ ValuesOK(o, lo, hi, home)
  BY DEF MemoryInv, KeyPart
<1>2. /\ Cap \in Nat /\ Cap > 0 /\ o[Newest] \in Int /\ lo \in Int /\ hi \in Int /\ hi <= lo + Cap
      /\ blockIndex = headers[Newest] /\ blockIndex.capacity = Cap
  BY <1>1, CapFacts DEF WindowOK
<1> DEFINE at0(k) == Ring(o[Newest], Cap, k)
<1>3. ASSUME NEW k \in Int, lo < k, k <= lo + Cap
      PROVE  /\ at0(k) \in 0..(Cap - 1)
             /\ entries[blockIndex.index[at0(k)]].value = IF k \in LiveSet THEN home[k] ELSE Null
  <2>1. at0(k) \in 0..(Cap - 1)
    BY <1>2, RingType
  <2>2. ValueOf(o, k) = IF k \in LiveSet THEN home[k] ELSE Null
    BY <1>1, <1>3 DEF ValuesOK
  <2> QED BY <1>2, <2>1, <2>2 DEF ValueOf, EntryId
<1>4. ASSUME NEW i \in 0..(Cap - 1)
      PROVE  \E k \in Int : lo < k /\ k <= lo + Cap /\ at0(k) = i
  <2>1. PICK c \in Nat : c = Cap /\ c > 0
    BY <1>2
  <2>2. PICK first \in Int : first = o[Newest]
    BY <1>2
  <2>3. i \in 0..(c - 1)
    BY <2>1
  <2>4. \A q \in 0..(c - 1) : \E k \in Int : lo < k /\ k <= lo + c /\ Ring(first, c, k) = q
    <3>1. c \in Nat /\ c > 0 /\ first \in Int /\ lo \in Int
      BY <1>2, <2>1, <2>2
    <3> QED BY ONLY <3>1, RingSome, ZenonT(30)
  <2>5. \E k \in Int : lo < k /\ k <= lo + c /\ Ring(first, c, k) = i
    BY ONLY <2>3, <2>4
  <2> QED BY <2>1, <2>2, <2>5
<1>5. \A k \in LiveSet : k \in Int /\ lo < k /\ k <= lo + Cap /\ home[k] \in Block
  <2> SUFFICES ASSUME NEW k \in LiveSet PROVE k \in Int /\ lo < k /\ k <= lo + Cap /\ home[k] \in Block
    OBVIOUS
  <2>1. k \in Int
    BY DEF LiveSet
  <2>2. lo < k /\ k <= hi /\ home[k] \in Block
    BY <1>1 DEF ValuesOK
  <2> QED BY <1>2, <2>1, <2>2
<1> HIDE DEF at0
<1>6. ASSUME NEW j \in LiveSet PROVE InIndex(home[j]) = {at0(j)}
  <2>1. at0(j) \in InIndex(home[j])
    BY <1>2, <1>3, <1>5 DEF InIndex
  <2>2. ASSUME NEW i \in InIndex(home[j]) PROVE i = at0(j)
    <3>1. i \in 0..(Cap - 1) /\ entries[blockIndex.index[i]].value = home[j]
      BY <1>2 DEF InIndex
    <3>2. PICK k \in Int : lo < k /\ k <= lo + Cap /\ at0(k) = i
      BY <1>4, <3>1
    <3>3. home[j] = IF k \in LiveSet THEN home[k] ELSE Null
      BY <1>3, <3>1, <3>2
    <3>4. k \in LiveSet /\ home[j] = home[k]
      BY <1>5, <3>3, QueueAssumption
    <3>5. j = k
      BY <3>4, HomeOnce
    <3> QED BY <3>2, <3>5
  <2> QED BY <2>1, <2>2
<1>7. ASSUME NEW b \in Block, \A k \in LiveSet : b # home[k], NEW i \in InIndex(b) PROVE FALSE
  <2>1. i \in 0..(Cap - 1) /\ entries[blockIndex.index[i]].value = b
    BY <1>2 DEF InIndex
  <2>2. PICK k \in Int : lo < k /\ k <= lo + Cap /\ at0(k) = i
    BY <1>4, <2>1
  <2>3. b = IF k \in LiveSet THEN home[k] ELSE Null
    BY <1>3, <2>1, <2>2
  <2> QED BY <1>7, <2>3, QueueAssumption
<1> QED BY <1>6, <1>7

(* When nobody is inside the queue, a block in use has an element in it,   *)
(* or is the tail's and has room for the next one.                         *)
LEMMA InUse ==
  ASSUME NEW o, NEW lo, NEW hi, NEW home, NEW place, NEW num,
         MemoryInv(o, lo, hi, home, place, num), Claims, TailOK(home), Quiet, NEW j \in LiveSet
  PROVE  \/ \E n \in headIndex..(tailIndex - 1) : BlockNo(n) = j
         \/ home[j] = tailBlock /\ Slot(Tl) # 0
<1>1. /\ Cur \in Int /\ headIndex \in Nat /\ tailIndex \in Nat /\ headIndex <= tailIndex
  BY InvFacts
<1>2. tailBlock = home[Cur] /\ j \in Int /\ 0 <= j /\ j <= Cur /\ headIndex < First(j + 1)
  <2>1. j \in Int
    BY DEF LiveSet
  <2> QED BY <2>1, QuietFacts
<1>3. /\ First(Cur) < tailIndex /\ tailIndex <= First(Cur + 1)
      /\ First(Cur) \in Int /\ First(Cur + 1) \in Int
      /\ (Slot(Tl) = 0 <=> tailIndex = First(Cur + 1))
  BY TailPlace DEF MemoryInv, ProducerOK
<1>4. /\ First(j + 1) \in Int /\ First(j) \in Int /\ First(j + 1) = First(j) + BLOCK_SIZE
  <2>1. j \in Int /\ j + 1 \in Int
    BY <1>2
  <2> QED BY <2>1, FirstType, FirstNext
<1>5. j < Cur => First(j + 1) <= First(Cur)
  <2>1. j + 1 = Cur \/ j + 1 < Cur \/ Cur <= j
    BY <1>1, <1>2
  <2>2. j + 1 < Cur => First(j + 1) + BLOCK_SIZE <= First(Cur)
    <3>1. j + 1 \in Int
      BY <1>2
    <3> QED BY <1>1, <3>1, FirstOrder
  <2> QED BY <1>1, <1>2, <1>3, <1>4, <2>1, <2>2, Sizes
<1>6. CASE j < Cur
  <2>1. PICK n \in Int : n = First(j + 1) - 1
    BY <1>4
  <2>2. First(j) <= n /\ n < First(j) + BLOCK_SIZE
    BY <1>4, <2>1, Sizes
  <2>3. BlockNo(n) = j
    BY <1>2, <2>2, BlockNoFacts
  <2>4. n \in headIndex..(tailIndex - 1)
    BY <1>1, <1>2, <1>3, <1>4, <1>5, <1>6, <2>1
  <2> QED BY <2>3, <2>4
<1>7. CASE j = Cur /\ headIndex < tailIndex
  <2>1. tailIndex - 1 \in headIndex..(tailIndex - 1)
    BY <1>1, <1>7
  <2> QED BY <1>7, <2>1 DEF Cur
<1>8. CASE j = Cur /\ headIndex = tailIndex
  BY <1>1, <1>2, <1>3, <1>8
<1> QED BY <1>1, <1>2, <1>6, <1>7, <1>8

(* Whenever nobody is inside the queue, each block is in the pool and not  *)
(* in the block index, or in the index exactly once and of use: failed     *)
(* enqueues, blocks taken back by enqueue_bulk, growing the index and      *)
(* dequeues that race lose no block.                                       *)
THEOREM LosesNoBlock == QueueSpec => []NoBlockLost
<1>1. ASSUME MInv, Claims, Quiet, NEW b \in Block
      PROVE  IF b \in pool THEN InIndex(b) = {}
             ELSE /\ Cardinality(InIndex(b)) = 1
                  /\ \/ \E i \in 0..(BLOCK_SIZE - 1) : slots[b][i] # 0
                     \/ b = tailBlock /\ Slot(Tl) # 0
  <2> PICK o, lo, hi, home, place, num :
        MemoryInv(o, lo, hi, home, place, num) /\ SlotsOK(home) /\ TailOK(home)
    BY <1>1 DEF MInv
  <2> USE <1>1
  <2>1. CASE b \in pool
    <3>1. \A k \in LiveSet : b # home[k]
      BY <2>1, QuietFacts
    <3> QED BY <2>1, <3>1, InIndexFacts
  <2>2. CASE b \notin pool
    <3>1. PICK j \in LiveSet : b = home[j]
      BY <2>2, QuietFacts
    <3>2. PICK p : InIndex(b) = {p}
      BY <3>1, InIndexFacts
    <3>3. Cardinality(InIndex(b)) = 1
      BY ONLY <3>2, FS_Singleton
    <3>4. ASSUME NEW n \in headIndex..(tailIndex - 1), BlockNo(n) = j
          PROVE  \E i \in 0..(BLOCK_SIZE - 1) : slots[b][i] # 0
      <4>1. Slot(Idx(n)) \in Slots /\ slots[b][Slot(Idx(n))] = n + 1
        BY <3>1, <3>4, QuietElements
      <4>2. n \in Nat
        BY InvFacts
      <4>3. n + 1 # 0
        BY <4>2
      <4> QED BY <4>1, <4>3 DEF Slots
    <3>5. \/ \E i \in 0..(BLOCK_SIZE - 1) : slots[b][i] # 0
          \/ b = tailBlock /\ Slot(Tl) # 0
      BY <3>1, <3>4, InUse
    <3> QED BY <2>2, <3>3, <3>5
  <2> QED BY <2>1, <2>2
<1>2. MInv /\ Claims => NoBlockLost
  BY <1>1 DEF NoBlockLost
<1> QED BY <1>2, MemoryHolds, PTL

-----------------------------------------------------------------------------
(* Sequences of element numbers.                                           *)
LEMMA NumbersFacts ==
  ASSUME NEW a \in Nat, NEW b \in Nat, a <= b
  PROVE  /\ Numbers(a, b) \in Seq(Nat) /\ Len(Numbers(a, b)) = b - a
         /\ \A i \in 1..(b - a) : Numbers(a, b)[i] = a + i
         /\ \A top \in Nat : b <= top => Numbers(a, b) \in Seq(1..top)
<1>1. PICK n \in Nat : n = b - a
  OBVIOUS
<1>2. Numbers(a, b) = [i \in 1..n |-> a + i]
  BY <1>1 DEF Numbers
<1>3. Numbers(a, b) \in Seq(Nat) /\ Len(Numbers(a, b)) = n /\ \A i \in 1..n : Numbers(a, b)[i] = a + i
  BY <1>2
<1>4. ASSUME NEW top \in Nat, b <= top PROVE Numbers(a, b) \in Seq(1..top)
  <2>1. \A i \in 1..n : a + i \in 1..top
    BY <1>1, <1>4
  <2> QED BY <1>2, <2>1
<1> QED BY <1>1, <1>3, <1>4

LEMMA NumbersSub ==
  ASSUME NEW a \in Nat, NEW b \in Nat, a <= b, NEW m \in 0..(b - a)
  PROVE  /\ SubSeq(Numbers(a, b), 1, m) = Numbers(a, a + m)
         /\ SubSeq(Numbers(a, b), m + 1, b - a) = Numbers(a + m, b)
<1>1. /\ a + m \in Nat /\ a <= a + m /\ a + m <= b /\ m \in Nat /\ m \in Int /\ b - a \in Int
  OBVIOUS
<1>2. \A i \in 1..(b - a) : Numbers(a, b)[i] = a + i
  BY NumbersFacts
<1>3. \A i \in 1..(b - a) : Numbers(a, b)[i] \in Nat
  BY <1>2
<1>4. SubSeq(Numbers(a, b), 1, m) = Numbers(a, a + m)
  <2>1. \A i \in 1..m : Numbers(a, b)[i] \in Nat
    BY <1>1, <1>3
  <2>2. /\ SubSeq(Numbers(a, b), 1, m) \in Seq(Nat) /\ Len(SubSeq(Numbers(a, b), 1, m)) = m
        /\ \A i \in 1..m : SubSeq(Numbers(a, b), 1, m)[i] = a + i
    <3>1. /\ SubSeq(Numbers(a, b), 1, m) \in Seq(Nat)
          /\ Len(SubSeq(Numbers(a, b), 1, m)) = IF 1 <= m THEN m - 1 + 1 ELSE 0
          /\ \A i \in 1..(m - 1 + 1) : SubSeq(Numbers(a, b), 1, m)[i] = Numbers(a, b)[1 + i - 1]
      BY <1>1, <2>1, SubSeqProperties
    <3>2. \A i \in 1..m : SubSeq(Numbers(a, b), 1, m)[i] = a + i
      BY <1>1, <1>2, <3>1
    <3> QED BY <1>1, <3>1, <3>2
  <2>3. /\ Numbers(a, a + m) \in Seq(Nat) /\ Len(Numbers(a, a + m)) = m
        /\ \A i \in 1..m : Numbers(a, a + m)[i] = a + i
    <3>1. (a + m) - a = m
      BY <1>1
    <3> QED BY <1>1, <3>1, NumbersFacts
  <2> QED BY <2>2, <2>3, SeqEqual
<1>5. SubSeq(Numbers(a, b), m + 1, b - a) = Numbers(a + m, b)
  <2> DEFINE s == SubSeq(Numbers(a, b), m + 1, b - a)
  <2>0. PICK n \in Nat : n = b - (a + m)
    BY <1>1
  <2>1. \A i \in (m + 1)..(b - a) : Numbers(a, b)[i] \in Nat
    BY <1>1, <1>3
  <2>2. s \in Seq(Nat) /\ Len(s) = n /\ \A i \in 1..n : s[i] = a + m + i
    <3>1. m + 1 \in Int
      BY <1>1
    <3>2. /\ s \in Seq(Nat)
          /\ Len(s) = IF m + 1 <= b - a THEN b - a - (m + 1) + 1 ELSE 0
          /\ \A i \in 1..(b - a - (m + 1) + 1) : s[i] = Numbers(a, b)[m + 1 + i - 1]
      BY <1>1, <2>1, <3>1, SubSeqProperties
    <3>3. Len(s) = n
      BY <1>1, <2>0, <3>2
    <3>4. ASSUME NEW i \in 1..n PROVE s[i] = a + m + i
      <4>1. i \in 1..(b - a - (m + 1) + 1) /\ m + 1 + i - 1 = m + i /\ m + i \in 1..(b - a)
        BY <1>1, <2>0
      <4>2. s[i] = Numbers(a, b)[m + i]
        BY <3>2, <4>1
      <4> QED BY <1>1, <1>2, <4>1, <4>2
    <3> QED BY <3>2, <3>3, <3>4
  <2>3. /\ Numbers(a + m, b) \in Seq(Nat) /\ Len(Numbers(a + m, b)) = n
        /\ \A i \in 1..n : Numbers(a + m, b)[i] = a + m + i
    BY <1>1, <2>0, NumbersFacts
  <2> HIDE DEF s
  <2>4. s = Numbers(a + m, b)
    BY <2>2, <2>3, SeqEqual
  <2> QED BY <2>4 DEF s
<1> QED BY <1>4, <1>5

LEMMA NumbersNone == ASSUME NEW a \in Nat PROVE Numbers(a, a) = <<>>
<1>1. a - a = 0
  OBVIOUS
<1> QED BY <1>1 DEF Numbers

(* A consumer that is not in a call has nothing, and what a call has moved *)
(* out is numbers of elements.                                             *)
RestOK ==
  /\ item \in [Consumer -> Seq(1..MaxTail)] /\ thrown \in [Consumer -> BOOLEAN]
  /\ \A c \in Consumer : at[c] = "none" =>
       index[c] = 0 /\ end[c] = 0 /\ item[c] = <<>> /\ thrown[c] = FALSE

(* What Fifo's variables are for the sub-queue.                            *)
Waiting == Numbers(headIndex, tailIndex)
Claimed == [c \in Consumer |-> Numbers(Unfetched(c), end[c])]
FifoSame == Waiting' = Waiting /\ Claimed' = Claimed /\ item' = item /\ thrown' = thrown

LEMMA FifoSameStutters == ASSUME FifoSame PROVE UNCHANGED F!vars
BY DEF FifoSame, Waiting, Claimed, F!vars

(* What a step of the producer does to the counters and the consumers.     *)
LEMMA ProducerCounts ==
  ASSUME NEW o, NEW lo, NEW hi, NEW home, NEW place, NEW num,
         MemoryInv(o, lo, hi, home, place, num), Claims, ProducerStep
  PROVE  /\ Still /\ tailIndex' \in Nat /\ tailIndex' <= MaxTail /\ tailIndex <= tailIndex'
<1>1. /\ tailIndex \in Nat /\ MaxTail \in Nat /\ tailIndex <= MaxTail /\ bulk.count \in Nat
  BY InvFacts, BoundAssumption DEF MemoryInv, ProducerOK, ProducerType
<1>2. CASE EnqueueInBlock
  BY <1>1, <1>2 DEF EnqueueInBlock, Enqueue, Still
<1>3. CASE Publish
  <2>1. PICK n \in Nat : n = Positive(bulk.count - 1) + 1
    BY <1>1 DEF Positive
  <2>2. Enqueue(n) /\ UNCHANGED locals
    BY <1>3, <2>1 DEF Publish
  <2> QED BY <1>1, <2>2 DEF Enqueue, Still
<1>4. CASE ~EnqueueInBlock /\ ~Publish
  <2>1. UNCHANGED vars /\ UNCHANGED locals
    BY <1>4 DEF ProducerStep, InsertEntry, GrowIndex, StoreKey, StoreTail, Requisition, Construct,
                StoreValue, Rewind, ClearValue, StartBulk, InsertFails, BulkConstruct, BulkThrow,
                UndoEntry, UndoTail, UndoBlocks
  <2> QED BY <1>1, <2>1, SMTT(20) DEF Still, vars, counters
<1> QED BY <1>2, <1>3, <1>4

LEMMA NumbersGrow ==
  ASSUME NEW a \in Nat, NEW b \in Nat, NEW c \in Nat, NEW top \in Nat, a <= b, b < c, c <= top
  PROVE  F!IsStrictPrefix(Numbers(a, b), Numbers(a, c)) /\ Numbers(a, c) \in Seq(1..top)
<1>1. PICK m \in Nat : m = b - a
  OBVIOUS
<1>2. PICK n \in Nat : n = c - a
  OBVIOUS
<1>3. m < n /\ a + m = b /\ m \in 0..(c - a) /\ a <= c
  BY <1>1, <1>2
<1>4. Numbers(a, b) \in Seq(Nat) /\ Len(Numbers(a, b)) = m
  BY <1>1, NumbersFacts
<1>5. Len(Numbers(a, c)) = n /\ Numbers(a, c) \in Seq(1..top)
  BY <1>2, <1>3, NumbersFacts
<1>6. SubSeq(Numbers(a, c), 1, m) = Numbers(a, b)
  BY <1>3, NumbersSub
<1>7. SubSeq(Numbers(a, b), 1, m) = Numbers(a, b)
  BY <1>4, SubSeqFull
<1> QED BY <1>3, <1>4, <1>5, <1>6, <1>7 DEF F!IsStrictPrefix, F!IsPrefix

(* The producer puts elements, or does nothing.                            *)
LEMMA ProducerPuts ==
  ASSUME NEW o, NEW lo, NEW hi, NEW home, NEW place, NEW num,
         MemoryInv(o, lo, hi, home, place, num), Claims, RestOK, ProducerStep
  PROVE  RestOK' /\ (F!Put \/ UNCHANGED F!vars)
<1>1. /\ headIndex \in Nat /\ tailIndex \in Nat /\ headIndex <= tailIndex /\ MaxTail \in Nat
  BY InvFacts, BoundAssumption
<1>2. /\ Still /\ tailIndex' \in Nat /\ tailIndex' <= MaxTail /\ tailIndex <= tailIndex'
  BY ProducerCounts
<1>3. /\ at' = at /\ index' = index /\ end' = end /\ item' = item /\ thrown' = thrown
      /\ headIndex' = headIndex
  BY <1>2 DEF Still, locals
<1>4. RestOK'
  BY <1>3 DEF RestOK
<1>5. Claimed' = Claimed
  BY <1>3 DEF Claimed, Unfetched, EndIndex
<1>6. CASE tailIndex' = tailIndex
  BY <1>3, <1>4, <1>5, <1>6, FifoSameStutters DEF FifoSame, Waiting
<1>7. CASE tailIndex' # tailIndex
  <2>1. tailIndex < tailIndex'
    BY <1>1, <1>2, <1>7
  <2>2. /\ F!IsStrictPrefix(Numbers(headIndex, tailIndex), Numbers(headIndex, tailIndex'))
        /\ Numbers(headIndex, tailIndex') \in Seq(1..MaxTail)
    BY <1>1, <1>2, <2>1, NumbersGrow
  <2>3. F!Put
    BY <1>3, <1>5, <2>2 DEF F!Put, Claimed
  <2> QED BY <1>4, <2>3
<1> QED BY <1>6, <1>7

(* A step of a consumer changes what that consumer has.                    *)
LEMMA ClaimedAlone ==
  ASSUME NEW c \in Consumer, OnlyAt(c), NEW s, s = Numbers(Unfetched(c), end[c])'
  PROVE  Claimed' = [Claimed EXCEPT ![c] = s]
<1>1. ASSUME NEW d \in Consumer, d # c
      PROVE  Numbers(Unfetched(d), end[d])' = Numbers(Unfetched(d), end[d])
  <2>1. at'[d] = at[d] /\ index'[d] = index[d] /\ end'[d] = end[d]
    BY <1>1 DEF OnlyAt
  <2> QED BY <2>1 DEF Unfetched, EndIndex, Numbers
<1> QED BY <1>1 DEF Claimed

(* Move takes the numbers of the elements it moves out of their slots.     *)
LEMMA MoveValues ==
  ASSUME NEW o, NEW lo, NEW hi, NEW home, NEW place, NEW num,
         MemoryInv(o, lo, hi, home, place, num), Claims, Claims', SlotsOK(home),
         NEW c \in Consumer, Move(c)
  PROVE  \E k \in 0..Here(c) :
           /\ thrown[c] => k = 0
           /\ item' = [item EXCEPT ![c] = @ \o Numbers(index[c], index[c] + k)]
           /\ thrown' = [thrown EXCEPT ![c] = @ \/ k < Here(c)]
<1>1. /\ ConsumersOK /\ RangesOK /\ headIndex \in Nat /\ at[c] = "move"
  BY InvFacts DEF MemoryInv, Move
<1>2. index[c] \in Nat /\ EndIndex(c) \in Nat /\ index[c] < EndIndex(c)
  BY <1>1, ClaimFacts
<1>3. /\ block[c] \in Block
      /\ \A n \in index[c]..(EndIndex(c) - 1) : n \in Present /\ n \in Nat /\ Loc(home, n) = block[c]
  BY MovePresent
<1>4. ASSUME NEW n \in index[c]..(EndIndex(c) - 1) PROVE slots[block[c]][Slot(Idx(n))] = n + 1
  <2>1. n \in Nat /\ n \in Int /\ Lies(home, n, block[c], Slot(Idx(n)))
    BY <1>3 DEF Lies
  <2>2. Slot(Idx(n)) \in Slots
    BY <2>1, SlotFacts DEF Slots
  <2> QED BY <1>3, <2>1, <2>2 DEF SlotsOK
<1>5. PICK k \in 0..Here(c) :
        /\ thrown[c] => k = 0
        /\ item' = [item EXCEPT ![c] =
             @ \o [i \in 1..k |-> slots[block[c]][Slot(Idx(index[c] + i - 1))]]]
        /\ thrown' = [thrown EXCEPT ![c] = @ \/ k < Here(c)]
  BY DEF Move
<1>6. k \in Nat /\ index[c] + k <= EndIndex(c)
  BY <1>2, <1>5 DEF Here
<1>7. ASSUME NEW i \in 1..k PROVE slots[block[c]][Slot(Idx(index[c] + i - 1))] = index[c] + i
  <2>1. PICK n \in index[c]..(EndIndex(c) - 1) : n = index[c] + i - 1
    BY <1>2, <1>6
  <2>2. n + 1 = index[c] + i
    BY <1>2, <2>1
  <2> QED BY <1>4, <2>1, <2>2
<1>8. [i \in 1..k |-> slots[block[c]][Slot(Idx(index[c] + i - 1))]] = [i \in 1..k |-> index[c] + i]
  BY <1>7
<1>9. Numbers(index[c], index[c] + k) = [i \in 1..k |-> index[c] + i]
  <2>1. (index[c] + k) - index[c] = k
    BY <1>2, <1>6
  <2> QED BY <2>1 DEF Numbers
<1> QED BY <1>5, <1>8, <1>9

(* The claim: the first elements waiting become the consumer's.            *)
LEMMA TakeIndexClaims ==
  ASSUME NEW o, NEW lo, NEW hi, NEW home, NEW place, NEW num,
         MemoryInv(o, lo, hi, home, place, num), Claims, Claims', RestOK,
         NEW c \in Consumer, TakeIndex(c)
  PROVE  RestOK' /\ F!Claim(c)
<1>1. ConsumersOK /\ headIndex \in Nat /\ tailIndex \in Nat /\ headIndex <= tailIndex
  BY InvFacts DEF MemoryInv
<1>2. /\ ConsumerStep(c) /\ at[c] = "none" /\ at' = [at EXCEPT ![c] = "header"]
      /\ index' = [index EXCEPT ![c] = headIndex] /\ end' = [end EXCEPT ![c] = headIndex + count[c]]
      /\ TakeAll(c) \/ TakeRest(c)
      /\ item' = item /\ thrown' = thrown
  BY DEF TakeIndex, ConsumerStep, Cgoto
<1>3. pc[c] # "idle" /\ headIndex' = headIndex + count[c] /\ tailIndex' = tailIndex
  BY <1>2 DEF TakeAll, TakeRest, Grant
<1>4. PICK n \in Nat : n = count[c] /\ n > 0
  BY <1>3 DEF Claims, TypeOK, CountsPositive
<1>5. headIndex + n <= tailIndex
  BY <1>3, <1>4 DEF Claims, HeadWithinTail
<1>6. OnlyAt(c)
  BY <1>1, <1>2, ConsumerAlone
<1>7. at'[c] = "header" /\ index'[c] = headIndex /\ end'[c] = headIndex + n
  BY <1>1, <1>2, <1>4 DEF ConsumersOK
<1>8. RestOK'
  BY <1>2, <1>6, <1>7 DEF RestOK, OnlyAt
<1>9. Numbers(Unfetched(c), end[c])' = Numbers(headIndex, headIndex + n)
  BY <1>7 DEF Unfetched, Numbers
<1>10. Claimed' = [Claimed EXCEPT ![c] = Numbers(headIndex, headIndex + n)]
  BY <1>6, <1>9, ClaimedAlone
<1>11. PICK m \in Nat : m = tailIndex - headIndex
  BY <1>1
<1>12. n \in 1..m /\ n \in 0..m
  BY <1>1, <1>4, <1>5, <1>11
<1>13. /\ Len(Waiting) = m /\ SubSeq(Waiting, 1, n) = Numbers(headIndex, headIndex + n)
       /\ SubSeq(Waiting, n + 1, m) = Numbers(headIndex + n, tailIndex)
  BY <1>1, <1>11, <1>12, NumbersFacts, NumbersSub, ZenonT(30) DEF Waiting
<1>14. Waiting' = Numbers(headIndex + n, tailIndex)
  BY <1>3, <1>4 DEF Waiting
<1>15. Claimed[c] = <<>> /\ item[c] = <<>> /\ ~thrown[c]
  <2>1. Unfetched(c) = 0 /\ end[c] = 0 /\ item[c] = <<>> /\ ~thrown[c]
    BY <1>2 DEF RestOK, Unfetched
  <2> QED BY <2>1, NumbersNone DEF Claimed
<1>16. \E j \in 1..Len(Waiting) : /\ Claimed' = [Claimed EXCEPT ![c] = SubSeq(Waiting, 1, j)]
                                  /\ Waiting' = SubSeq(Waiting, j + 1, Len(Waiting))
  BY <1>10, <1>12, <1>13, <1>14
<1>17. F!Claim(c)
  BY <1>2, <1>15, <1>16 DEF F!Claim, Waiting, Claimed
<1> QED BY <1>8, <1>17

(* Moving elements out of a block is receiving the next of those claimed.  *)
LEMMA MoveReceives ==
  ASSUME NEW o, NEW lo, NEW hi, NEW home, NEW place, NEW num,
         MemoryInv(o, lo, hi, home, place, num), Claims, Claims', SlotsOK(home), RestOK,
         NEW c \in Consumer, Move(c)
  PROVE  RestOK' /\ F!Receive(c)
<1>1. /\ ConsumersOK /\ RangesOK /\ headIndex \in Nat /\ tailIndex \in Nat /\ headIndex <= tailIndex
      /\ tailIndex <= MaxTail /\ MaxTail \in Nat
  BY InvFacts, BoundAssumption DEF MemoryInv, ProducerOK, ProducerType
<1>2. /\ ConsumerStep(c) /\ at[c] = "move" /\ at' = [at EXCEPT ![c] = "setEmpty"]
      /\ headIndex' = headIndex /\ tailIndex' = tailIndex /\ index' = index /\ end' = end
  BY DEF Move, ConsumerStep, Cgoto, vars, counters
<1>3. OnlyAt(c) /\ at'[c] = "setEmpty"
  BY <1>1, <1>2, ConsumerAlone DEF ConsumersOK
<1>4. PICK a \in Nat, b \in Nat, e \in Nat : a = index[c] /\ b = end[c] /\ e = EndIndex(c)
  BY <1>1, <1>2, ClaimFacts
<1>5. a < e /\ e <= b /\ b <= headIndex
  BY <1>1, <1>2, <1>4, ClaimFacts
<1>6. PICK n \in Nat : n = e - a
  BY <1>5
<1>7. n = Here(c) /\ e = a + n /\ n \in 1..(b - a) /\ n \in 0..(b - a) /\ a <= b
  BY <1>4, <1>5, <1>6 DEF Here
<1>8. PICK k \in 0..n :
           /\ thrown[c] => k = 0
           /\ item' = [item EXCEPT ![c] = @ \o Numbers(a, a + k)]
           /\ thrown' = [thrown EXCEPT ![c] = @ \/ k < n]
  BY <1>4, <1>7, MoveValues
<1>9. k \in Nat /\ k \in 0..(b - a) /\ a <= a + k /\ a + k <= MaxTail
  BY <1>1, <1>5, <1>7
<1>10. RestOK'
  <2>1. Numbers(a, a + k) \in Seq(1..MaxTail)
    <3>1. a + k \in Nat
      BY <1>9
    <3> QED BY <1>1, <1>9, <3>1, NumbersFacts
  <2>2. item[c] \o Numbers(a, a + k) \in Seq(1..MaxTail)
    BY <2>1, ConcatProperties DEF RestOK
  <2>3. item' \in [Consumer -> Seq(1..MaxTail)]
    BY <1>8, <2>2 DEF RestOK
  <2>4. thrown' \in [Consumer -> BOOLEAN]
    BY <1>1, <1>2, ConsumerAlone
  <2>5. ASSUME NEW d \in Consumer, at'[d] = "none"
        PROVE  index'[d] = 0 /\ end'[d] = 0 /\ item'[d] = <<>> /\ thrown'[d] = FALSE
    <3>1. d # c /\ at[d] = "none"
      BY <1>3, <2>5 DEF OnlyAt
    <3> QED BY <1>2, <1>8, <3>1 DEF RestOK
  <2> QED BY <2>3, <2>4, <2>5 DEF RestOK
<1>11. Claimed[c] = Numbers(a, b)
  BY <1>2, <1>4 DEF Claimed, Unfetched
<1>12. Claimed' = [Claimed EXCEPT ![c] = Numbers(e, b)]
  <2>1. EndIndex(c)' = e
    BY <1>2, <1>4 DEF EndIndex
  <2>2. Numbers(Unfetched(c), end[c])' = Numbers(e, b)
    BY <1>2, <1>3, <1>4, <2>1 DEF Unfetched, Numbers
  <2> QED BY <1>3, <2>2, ClaimedAlone
<1>13. Len(Numbers(a, b)) = b - a
  BY <1>7, NumbersFacts
<1>14. /\ SubSeq(Numbers(a, b), 1, k) = Numbers(a, a + k)
       /\ SubSeq(Numbers(a, b), n + 1, b - a) = Numbers(e, b)
  <2>1. SubSeq(Numbers(a, b), 1, k) = Numbers(a, a + k)
    BY <1>7, <1>9, NumbersSub, ZenonT(30)
  <2>2. SubSeq(Numbers(a, b), n + 1, b - a) = Numbers(a + n, b)
    BY <1>7, NumbersSub, ZenonT(30)
  <2> QED BY <1>7, <2>1, <2>2
<1>15. Waiting' = Waiting
  BY <1>2 DEF Waiting
<1>16. \E m \in 1..Len(Claimed[c]), j \in 0..Len(Claimed[c]) :
         /\ j <= m /\ (thrown[c] => j = 0)
         /\ item' = [item EXCEPT ![c] = @ \o SubSeq(Claimed[c], 1, j)]
         /\ Claimed' = [Claimed EXCEPT ![c] = SubSeq(@, m + 1, Len(@))]
         /\ thrown' = [thrown EXCEPT ![c] = @ \/ j < m]
  <2>1. n \in 1..Len(Claimed[c]) /\ k \in 0..Len(Claimed[c]) /\ k <= n
    BY <1>7, <1>9, <1>11, <1>13
  <2>2. item' = [item EXCEPT ![c] = @ \o SubSeq(Claimed[c], 1, k)]
    BY <1>8, <1>11, <1>14
  <2>3. Claimed' = [Claimed EXCEPT ![c] = SubSeq(@, n + 1, Len(@))]
    BY <1>11, <1>12, <1>13, <1>14
  <2> QED BY <1>8, <2>1, <2>2, <2>3
<1>17. F!Receive(c)
  BY <1>15, <1>16 DEF F!Receive, Claimed, Waiting
<1> QED BY <1>10, <1>17

(* Finding the elements in memory changes nothing that Fifo speaks of.     *)
LEMMA WalkFifo ==
  ASSUME NEW o, NEW lo, NEW hi, NEW home, NEW place, NEW num,
         MemoryInv(o, lo, hi, home, place, num), Claims, Claims', RestOK, NEW c \in Consumer,
         ClaimStep(c) \/ LoadHeader(c) \/ LoadTail(c) \/ LoadKey(c) \/ LoadValue(c) \/ ClearEntry(c)
  PROVE  RestOK' /\ FifoSame
<1>1. ConsumersOK
  BY DEF MemoryInv
<1>2. /\ headIndex' = headIndex /\ tailIndex' = tailIndex /\ ConsumerStep(c)
      /\ index' = index /\ end' = end /\ item' = item /\ thrown' = thrown
  <2>1. CASE ClaimStep(c)
    BY <2>1 DEF ClaimStep, Draw, GiveBack, memory, locals, ConsumerStep
  <2>2. CASE LoadHeader(c) \/ LoadTail(c) \/ LoadKey(c) \/ LoadValue(c) \/ ClearEntry(c)
    BY <2>2 DEF LoadHeader, LoadTail, LoadKey, LoadValue, ClearEntry, vars, counters, ConsumerStep
  <2> QED BY <2>1, <2>2
<1>3. OnlyAt(c)
  BY <1>1, <1>2, ConsumerAlone
<1>4. /\ at'[c] = "none" <=> at[c] = "none"
      /\ at'[c] \in {"setEmpty", "clear", "free"} <=> at[c] \in {"setEmpty", "clear", "free"}
  <2>1. CASE ClaimStep(c)
    BY <2>1 DEF ClaimStep, memory, locals
  <2>2. CASE LoadHeader(c) \/ LoadTail(c) \/ LoadKey(c) \/ LoadValue(c) \/ ClearEntry(c)
    BY <1>1, <2>2 DEF LoadHeader, LoadTail, LoadKey, LoadValue, ClearEntry, Cgoto, ConsumersOK
  <2> QED BY <2>1, <2>2
<1>5. \A d \in Consumer : Unfetched(d)' = Unfetched(d)
  BY <1>2, <1>3, <1>4 DEF Unfetched, EndIndex, OnlyAt
<1>6. RestOK'
  BY <1>2, <1>3, <1>4 DEF RestOK, OnlyAt
<1>7. Claimed' = Claimed
  BY <1>2, <1>5 DEF Claimed
<1> QED BY <1>2, <1>6, <1>7 DEF FifoSame, Waiting

(* Done with a block, the consumer goes on with the rest of its claim, or  *)
(* returns what it has received.                                           *)
LEMMA GoOnFifo ==
  ASSUME NEW o, NEW lo, NEW hi, NEW home, NEW place, NEW num,
         MemoryInv(o, lo, hi, home, place, num), Claims, Claims', RestOK, NEW c \in Consumer,
         SetEmpty(c) \/ AddToFreeList(c)
  PROVE  RestOK' /\ (F!Return(c) \/ FifoSame)
<1>1. ConsumersOK /\ RangesOK /\ headIndex \in Nat
  BY InvFacts DEF MemoryInv
<1>2. /\ ConsumerStep(c) /\ at[c] \in {"setEmpty", "free"}
      /\ headIndex' = headIndex /\ tailIndex' = tailIndex
  BY DEF SetEmpty, AddToFreeList, ConsumerStep, vars, counters
<1>3. OnlyAt(c) /\ thrown' \in [Consumer -> BOOLEAN]
  BY <1>1, <1>2, ConsumerAlone
<1>4. PICK e \in Nat, b \in Nat : e = EndIndex(c) /\ b = end[c]
  BY <1>1, <1>2, ClaimFacts
<1>5. Claimed[c] = Numbers(e, b) /\ Waiting' = Waiting
  BY <1>2, <1>4 DEF Claimed, Unfetched, Waiting
<1>6. \/ at' = [at EXCEPT ![c] = "clear"] /\ UNCHANGED <<index, end, item, thrown>>
      \/ NextBlock(c)
  BY DEF SetEmpty, AddToFreeList, Cgoto
<1>7. CASE at' = [at EXCEPT ![c] = "clear"] /\ UNCHANGED <<index, end, item, thrown>>
  <2>1. at'[c] = "clear"
    BY <1>1, <1>7 DEF ConsumersOK
  <2>2. RestOK'
    BY <1>3, <1>7, <2>1 DEF RestOK, OnlyAt
  <2>3. EndIndex(c)' = e
    BY <1>4, <1>7 DEF EndIndex
  <2>4. Numbers(Unfetched(c), end[c])' = Numbers(e, b)
    BY <1>4, <1>7, <2>1, <2>3 DEF Unfetched, Numbers
  <2>5. Claimed' = [Claimed EXCEPT ![c] = Numbers(e, b)]
    BY <1>3, <2>4, ClaimedAlone
  <2>6. Claimed' = Claimed
    BY <1>5, <2>5 DEF Claimed
  <2> QED BY <1>5, <1>7, <2>2, <2>6 DEF FifoSame
<1>8. CASE NextBlock(c) /\ e # b
  <2>1. /\ at' = [at EXCEPT ![c] = "value"] /\ index' = [index EXCEPT ![c] = e]
        /\ end' = end /\ item' = item /\ thrown' = thrown
    BY <1>4, <1>8 DEF NextBlock, Cgoto
  <2>2. at'[c] = "value" /\ index'[c] = e /\ end'[c] = b
    BY <1>1, <1>4, <2>1 DEF ConsumersOK
  <2>3. RestOK'
    BY <1>3, <2>1, <2>2 DEF RestOK, OnlyAt
  <2>4. Numbers(Unfetched(c), end[c])' = Numbers(e, b)
    BY <2>2 DEF Unfetched, Numbers
  <2>5. Claimed' = [Claimed EXCEPT ![c] = Numbers(e, b)]
    BY <1>3, <2>4, ClaimedAlone
  <2>6. Claimed' = Claimed
    BY <1>5, <2>5 DEF Claimed
  <2> QED BY <1>5, <2>1, <2>3, <2>6 DEF FifoSame
<1>9. CASE NextBlock(c) /\ e = b
  <2>1. /\ at' = [at EXCEPT ![c] = "none"] /\ index' = [index EXCEPT ![c] = 0]
        /\ end' = [end EXCEPT ![c] = 0]
        /\ item' = [item EXCEPT ![c] = <<>>] /\ thrown' = [thrown EXCEPT ![c] = FALSE]
    BY <1>4, <1>9 DEF NextBlock, Cgoto
  <2>2. at'[c] = "none" /\ index'[c] = 0 /\ end'[c] = 0
    BY <1>1, <2>1 DEF ConsumersOK
  <2>3. RestOK'
    <3>1. item' \in [Consumer -> Seq(1..MaxTail)] /\ item'[c] = <<>> /\ thrown'[c] = FALSE
      BY <2>1 DEF RestOK
    <3>2. ASSUME NEW d \in Consumer, d # c, at'[d] = "none"
          PROVE  index'[d] = 0 /\ end'[d] = 0 /\ item'[d] = <<>> /\ thrown'[d] = FALSE
      <4>1. at[d] = "none" /\ index'[d] = index[d] /\ end'[d] = end[d]
        BY <1>3, <3>2 DEF OnlyAt
      <4>2. item'[d] = item[d] /\ thrown'[d] = thrown[d]
        BY <2>1, <3>2 DEF RestOK
      <4> QED BY <4>1, <4>2 DEF RestOK
    <3> QED BY <1>3, <2>2, <3>1, <3>2 DEF RestOK
  <2>4. Numbers(Unfetched(c), end[c])' = <<>>
    <3>1. Unfetched(c)' = 0
      BY <2>2 DEF Unfetched
    <3>2. Numbers(Unfetched(c), end[c])' = Numbers(0, 0)
      BY <2>2, <3>1 DEF Numbers
    <3> QED BY <3>2, NumbersNone
  <2>5. Claimed[c] = <<>>
    BY <1>5, <1>9, NumbersNone
  <2>6. Claimed' = [Claimed EXCEPT ![c] = <<>>]
    BY <1>3, <2>4, ClaimedAlone
  <2>7. Claimed' = Claimed
    BY <2>5, <2>6 DEF Claimed
  <2>8. F!Return(c)
    BY <1>5, <2>1, <2>5, <2>7 DEF F!Return, Claimed, Waiting
  <2> QED BY <2>3, <2>8
<1> QED BY <1>6, <1>7, <1>8, <1>9

(* Every step of the sub-queue is a step of Fifo or none of its business.  *)
LEMMA FifoStep ==
  ASSUME MInv, Claims, Claims', RestOK, [QueueNext]_allVars
  PROVE  RestOK' /\ [F!Next]_(F!vars)
<1> PICK o, lo, hi, home, place, num :
      MemoryInv(o, lo, hi, home, place, num) /\ SlotsOK(home) /\ TailOK(home)
  BY DEF MInv
<1>1. CASE ProducerStep
  <2>1. RestOK' /\ (F!Put \/ UNCHANGED F!vars)
    BY <1>1, ProducerPuts
  <2> QED BY <2>1 DEF F!Next
<1>2. ASSUME NEW c \in Consumer, ConsumerStep(c) PROVE RestOK' /\ [F!Next]_(F!vars)
  <2>1. CASE TakeIndex(c)
    <3>1. RestOK' /\ F!Claim(c)
      BY <2>1, TakeIndexClaims
    <3> QED BY <3>1 DEF F!Next
  <2>2. CASE Move(c)
    <3>1. RestOK' /\ F!Receive(c)
      BY <2>2, MoveReceives
    <3> QED BY <3>1 DEF F!Next
  <2>3. CASE SetEmpty(c) \/ AddToFreeList(c)
    <3>1. RestOK' /\ (F!Return(c) \/ FifoSame)
      BY <2>3, GoOnFifo
    <3> QED BY <3>1, FifoSameStutters DEF F!Next
  <2>4. CASE ClaimStep(c) \/ LoadHeader(c) \/ LoadTail(c) \/ LoadKey(c) \/ LoadValue(c) \/ ClearEntry(c)
    <3>1. RestOK' /\ FifoSame
      BY <2>4, WalkFifo
    <3> QED BY <3>1, FifoSameStutters
  <2> QED BY <1>2, <2>1, <2>2, <2>3, <2>4 DEF ConsumerStep
<1>3. CASE UNCHANGED allVars
  <2>1. /\ at' = at /\ index' = index /\ end' = end /\ item' = item /\ thrown' = thrown
        /\ headIndex' = headIndex /\ tailIndex' = tailIndex
    BY <1>3 DEF allVars, vars, counters, memory, locals
  <2>2. RestOK'
    BY <2>1 DEF RestOK
  <2>3. Claimed' = Claimed
    BY <2>1 DEF Claimed, Unfetched, EndIndex
  <2> QED BY <2>1, <2>2, <2>3, FifoSameStutters DEF FifoSame, Waiting
<1> QED BY <1>1, <1>2, <1>3 DEF QueueNext

LEMMA FifoInit == ASSUME QueueInit PROVE RestOK /\ F!Init
<1>1. /\ headIndex = 0 /\ tailIndex = 0 /\ at = [c \in Consumer |-> "none"]
      /\ index = [c \in Consumer |-> 0] /\ end = [c \in Consumer |-> 0]
      /\ item = [c \in Consumer |-> <<>>] /\ thrown = [c \in Consumer |-> FALSE]
  BY DEF QueueInit, Init, MemoryInit
<1>2. RestOK
  <2>1. <<>> \in Seq(1..MaxTail)
    OBVIOUS
  <2> QED BY <1>1, <2>1 DEF RestOK
<1>3. Numbers(0, 0) = <<>>
  BY NumbersNone
<1>4. Waiting = <<>> /\ Claimed = [c \in Consumer |-> <<>>]
  BY <1>1, <1>3 DEF Waiting, Claimed, Unfetched
<1>5. F!Init
  BY <1>1, <1>4 DEF F!Init, Waiting, Claimed
<1> QED BY <1>2, <1>5

LEMMA RestHolds == QueueSpec => []RestOK
<1>1. QueueInit => RestOK
  BY FifoInit
<1>2. MInv /\ Claims /\ Claims' /\ RestOK /\ [QueueNext]_allVars => RestOK'
  BY FifoStep
<1> QED BY <1>1, <1>2, MemoryHolds, PTL DEF QueueSpec

(* The sub-queue, with its blocks, its block index that grows, its         *)
(* counters and its consumers that look for their elements at their own    *)
(* pace, is a first-in first-out queue: each element is claimed once and   *)
(* in order, and what is moved out of memory is that very element.         *)
THEOREM IsFifo == QueueSpec => ImplementsFifo
<1>1. QueueInit => F!Init
  BY FifoInit
<1>2. MInv /\ Claims /\ Claims' /\ RestOK /\ [QueueNext]_allVars => [F!Next]_(F!vars)
  BY FifoStep
<1> QED BY <1>1, <1>2, MemoryHolds, RestHolds, PTL DEF QueueSpec, ImplementsFifo, F!Spec

(* Every variable of the sub-queue has its type: no counter, index, slot   *)
(* or place in an array is ever outside its range.                         *)
THEOREM QueueTypeCorrect == QueueSpec => []QueueTypeOK
<1>1. ASSUME MInv, Claims, RestOK PROVE QueueTypeOK
  <2> PICK o, lo, hi, home, place, num :
        MemoryInv(o, lo, hi, home, place, num) /\ SlotsOK(home) /\ TailOK(home)
    BY <1>1 DEF MInv
  <2> USE <1>1
  <2>1. /\ ProducerType /\ BulkOK /\ EntriesType /\ HeadersType(o) /\ ConsumersOK /\ RangesOK
        /\ pool \subseteq Block /\ emptied \in [Block -> 0..BLOCK_SIZE]
    BY DEF MemoryInv, ProducerOK, KeyPart, PlacesOK, CountedOK
  <2>2. /\ headIndex \in Nat /\ tailIndex \in Nat /\ headIndex <= tailIndex /\ tailIndex <= MaxTail
        /\ MaxTail \in Nat /\ bulk.count \in Nat /\ Newest \in Nat /\ Newest >= 1
    BY <2>1, InvFacts, CapFacts, BoundAssumption DEF ProducerType
  <2>3. Made \in Nat /\ Made <= MaxTail
    <3>1. Made \in Nat
      BY MadeFacts
    <3>2. CASE Handed
      BY <2>1, <2>2, <3>2 DEF Made, Handed, BulkOK
    <3>3. CASE ~Handed /\ ppc = "publish"
      <4>1. bulk.count = 0 \/ bulk.count > 0
        BY <2>2
      <4> QED BY <2>1, <2>2, <3>3, <4>1 DEF Made, BulkOK, Positive
    <3>4. CASE ~Handed /\ ppc # "publish"
      BY <2>2, <3>4 DEF Made
    <3> QED BY <3>1, <3>2, <3>3, <3>4
  <2>4. slots \in [Block -> [0..(BLOCK_SIZE - 1) -> 0..MaxTail]]
    <3>1. slots \in [Block -> [Slots -> Nat]]
      BY DEF SlotsOK
    <3>2. ASSUME NEW b \in Block, NEW i \in Slots PROVE slots[b][i] \in 0..MaxTail
      <4>1. PICK v \in Nat : v = slots[b][i]
        BY <3>1
      <4>2. ASSUME v # 0 PROVE v <= MaxTail
        <5>1. v - 1 \in Nat /\ v = (v - 1) + 1
          BY <4>2
        <5>2. Lies(home, v - 1, b, i)
          BY <4>1, <5>1 DEF SlotsOK
        <5>3. v - 1 < Made
          BY <5>2 DEF Lies, Present
        <5> QED BY <2>2, <2>3, <5>1, <5>3
      <4> QED BY <2>2, <4>1, <4>2
    <3>3. \A b \in Block : slots[b] \in [Slots -> 0..MaxTail]
      BY <3>1, <3>2
    <3> QED BY <3>1, <3>3 DEF Slots
  <2>5. /\ entries \in Seq([key : 0..(IndexMod - 1), value : Block \cup {Null}])
        /\ DOMAIN entries = 1..Len(entries) /\ idxEntry \in DOMAIN entries
    <3>1. entries \in Seq(Record) /\ DOMAIN entries = 1..Len(entries)
      BY <2>1 DEF EntriesType
    <3>2. idxEntry \in 1..Len(entries)
      BY <2>1 DEF HeadersType
    <3> QED BY <3>1, <3>2 DEF Record
  <2>6. DOMAIN headers = 1..Newest
    BY <2>1 DEF HeadersType, Newest
  <2>7. ASSUME NEW h \in ToSet(headers)
        PROVE  h.tail \in 0..(h.capacity - 1) /\ h.index \in [0..(h.capacity - 1) -> DOMAIN entries]
    <3>1. PICK g \in 1..Newest : h = headers[g]
      BY <2>6 DEF ToSet
    <3>2. /\ headers[g].capacity = Capacity[g] /\ headers[g].tail \in 0..(Capacity[g] - 1)
          /\ headers[g].index \in [0..(Capacity[g] - 1) -> 1..Len(entries)]
      BY <2>1 DEF HeadersType
    <3> QED BY <2>5, <3>1, <3>2
  <2>8. bulk.count \in Bulks \cup {0} /\ ToSet(bulk.chain) \subseteq Block
    <3>1. bulk.count \in Bulks \cup {0} /\ bulk.chain \in Seq(Block)
      BY <2>1 DEF ProducerType
    <3> QED BY <3>1 DEF ToSet
  <2>9. ASSUME NEW c \in Consumer PROVE index[c] \in 0..MaxTail /\ end[c] \in 0..MaxTail
    <3>1. CASE at[c] = "none"
      BY <2>2, <3>1 DEF RestOK
    <3>2. CASE at[c] # "none"
      <4>1. index[c] \in Nat /\ end[c] \in Nat /\ index[c] < end[c] /\ end[c] <= headIndex
        BY <2>1, <2>2, <3>2, ClaimFacts
      <4> QED BY <2>2, <4>1
    <3> QED BY <3>1, <3>2
  <2>10. index \in [Consumer -> 0..MaxTail] /\ end \in [Consumer -> 0..MaxTail]
    BY <2>1, <2>9 DEF ConsumersOK
  <2>11. hdr \in [Consumer -> DOMAIN headers]
    <3>1. \A c \in Consumer : hdr[c] \in 1..Newest
      BY <2>1, <2>2 DEF ConsumersOK
    <3> QED BY <2>1, <2>6, <3>1 DEF ConsumersOK
  <2>12. ASSUME NEW c \in Consumer PROVE item[c] \in Seq(0..MaxTail)
    <3>1. item[c] \in Seq(1..MaxTail)
      BY DEF RestOK
    <3>2. 1..MaxTail \subseteq 0..MaxTail
      BY <2>2
    <3> QED BY <3>1, <3>2, SeqMonotonic
  <2>13. at \in [Consumer -> Labels] /\ ipos \in [Consumer -> Nat]
         /\ block \in [Consumer -> Block \cup {Null}] /\ thrown \in [Consumer -> BOOLEAN]
    BY <2>1 DEF ConsumersOK
  <2>14. /\ ppc \in {"idle", "insert", "storeKey", "storeTail", "requisition", "construct",
                     "storeValue", "publish", "rewind", "clearValue", "undo", "undoTail"}
         /\ tailBlock \in Block \cup {Null} /\ newBlock \in Block \cup {Null} /\ TypeOK
    BY <2>1 DEF ProducerType, Claims
  <2> QED BY <2>1, <2>4, <2>5, <2>7, <2>8, <2>10, <2>11, <2>12, <2>13, <2>14
          DEF QueueTypeOK, Labels
<1> QED BY <1>1, MemoryHolds, RestHolds, PTL
=============================================================================
