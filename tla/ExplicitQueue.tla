---------------------------- MODULE ExplicitQueue ----------------------------
(***************************************************************************)
(* The sub-queue of a producer token, ExplicitProducer of                  *)
(* concurrentqueue.h: enqueue, enqueue_bulk, dequeue, dequeue_bulk and the *)
(* destructor.  Its blocks form a ring that starts after tailBlock with    *)
(* the oldest one, and are used again in place.  The block index is a      *)
(* circular array of entries, which is replaced by a larger copy when all  *)
(* its entries are in use.                                                 *)
(*                                                                         *)
(* As in SubQueue, the counters and the claim are DequeueClaim's, the pool *)
(* of free blocks is FreePool's, and accesses other than those to the      *)
(* counters are sequentially consistent.  The constructor of an element    *)
(* may throw: the order of steps is the one the code takes then.           *)
(***************************************************************************)
EXTENDS DequeueClaim, IndexArithmetic, Sequences, SequencesExt

CONSTANTS
  Block, Null,
  InitialIndexSize,    \* EXPLICIT_INITIAL_INDEX_SIZE
  MaxSubqueueSize,     \* MAX_SUBQUEUE_SIZE
  MaxBulk,             \* bound: elements in one enqueue_bulk
  MaxHeaders,          \* bound: block indices allocated
  Pasts,               \* how many elements may have come and gone before
  PartialBulk          \* TRUE: an enqueue_bulk may fail after it changed the ring

ASSUME RingAssumption ==
  /\ InitialIndexSize \in Nat \ {0} /\ InitialIndexSize % 2 = 0 /\ MaxHeaders \in Nat \ {0}
  /\ MaxSubqueueSize \in Nat /\ MaxBulk \in Nat \ {0}
  /\ Pasts \subseteq Nat /\ (\A n \in Pasts : n % BLOCK_SIZE = 0) /\ PartialBulk \in BOOLEAN
  /\ IsFiniteSet(Block) /\ Null \notin Block

(* The block index doubles, and its capacities, powers of two, divide the  *)
(* number of blocks before block numbers wrap around (2^59 in the code).   *)
ASSUME CapacityAssumption ==
  LET wrap == IndexMod \div BLOCK_SIZE
  IN  \E capacity \in [1..MaxHeaders -> 1..wrap] :
        /\ capacity[1] = InitialIndexSize
        /\ \A h \in 2..MaxHeaders : capacity[h] = 2 * capacity[h - 1]
        /\ \A h \in 1..MaxHeaders : wrap % capacity[h] = 0

VARIABLES
  past,                \* one of them
  tailBlock, next,     \* the ring
  slots,               \* slots[b][i]: the object in slot i of block b (element n is the n-th enqueued), or 0
  emptyFlags,          \* emptyFlags[b]: the slots whose flag is set
  pool,                \* free blocks
  headers,             \* the block indices, oldest first; blockIndex is the last
  slotsUsed, front,    \* pr_blockIndexSlotsUsed, pr_blockIndexFront
  ppc,                 \* where the producer is
  start,               \* what to go back to: startBlock, originalBlockIndexSlotsUsed and -Front
  bulk,                \* locals of enqueue_bulk: count, firstAllocatedBlock, and currentTailIndex, unwrapped
  at,                  \* at[c]: where the consumer is, after it claimed elements index[c] to end[c] - 1
  index, end,          \* unwrapped; index[c] moves on block by block
  hdr, ipos,           \* localBlockIndex; localBlockIndexHead, then indexIndex
  block,
  item,                \* item[c]: what a dequeue under way has moved out for its caller
  thrown               \* thrown[c]: whether a move assignment has thrown

ring     == <<past, tailBlock, next, emptyFlags, pool>>
blockIdx == <<headers, slotsUsed, front>>
call     == <<ppc, start, bulk>>
locals   == <<at, index, end, hdr, ipos, block, item, thrown>>
memory   == <<ring, slots, blockIdx, call, locals>>
allVars  == <<vars, memory>>

NoCall  == [tail |-> Null, used |-> 0, front |-> 0]
NoBulk  == [count |-> 0, first |-> Null, tail |-> 0]
Slots   == 0..(BLOCK_SIZE - 1)

Idx(n)  == Wrap(past + n)

(* The constructor, whose first block index may fail to be allocated; or a *)
(* queue through which elements have passed, one at a time, so that a      *)
(* single block was enough.                                                *)
Fresh ==
  /\ past = 0 /\ tailBlock = Null /\ next = [b \in Block |-> Null] /\ pool = Block
  /\ emptyFlags = [b \in Block |-> {}] /\ slotsUsed = 0 /\ front = 0
  /\ headers \in {<<>>, <<[size |-> InitialIndexSize, front |-> -1,
                           entries |-> [i \in 0..(InitialIndexSize - 1) |->
                                          [base |-> 0, block |-> Null]]]>>}

Used == past \div BLOCK_SIZE
LastUse(i) == CHOOSE k \in (Used - InitialIndexSize)..(Used - 1) : k % InitialIndexSize = i
Passed ==
  /\ past > 0 /\ Used >= InitialIndexSize
  /\ \E b \in Block :
       /\ tailBlock = b /\ next = [d \in Block |-> IF d = b THEN b ELSE Null] /\ pool = Block \ {b}
       /\ emptyFlags = [d \in Block |-> IF d = b THEN Slots ELSE {}]
       /\ headers = <<[size |-> InitialIndexSize, front |-> (Used - 1) % InitialIndexSize,
                       entries |-> [i \in 0..(InitialIndexSize - 1) |->
                          [base |-> Wrap(LastUse(i) * BLOCK_SIZE), block |-> b]]]>>
       /\ slotsUsed = 1 /\ front = Used % InitialIndexSize

MemoryInit ==
  /\ past \in Pasts /\ (Fresh \/ Passed)
  /\ slots = [b \in Block |-> [i \in Slots |-> 0]]
  /\ ppc = "idle" /\ start = NoCall /\ bulk = NoBulk
  /\ at = [c \in Consumer |-> "none"]
  /\ index = [c \in Consumer |-> 0] /\ end = [c \in Consumer |-> 0]
  /\ hdr = [c \in Consumer |-> 1] /\ ipos = [c \in Consumer |-> 0]
  /\ block = [c \in Consumer |-> Null]
  /\ item = [c \in Consumer |-> <<>>] /\ thrown = [c \in Consumer |-> FALSE]

-----------------------------------------------------------------------------
(* The block index *)
blockIndex == headers[Len(headers)]
size       == IF headers = <<>> THEN InitialIndexSize \div 2 ELSE blockIndex.size
HasRoom    == headers # <<>> /\ slotsUsed < size

SetEntry(n, b) ==                    \* for block b, with the elements from n on
  headers' = [headers EXCEPT ![Len(headers)].entries[front] = [base |-> Idx(n), block |-> b]]
NextFront == (front + 1) % size

(* new_block_index *)
Grow(exposed) ==
  /\ ~HasRoom /\ Len(headers) < MaxHeaders
  /\ headers' = Append(headers,
       [size |-> 2 * size, front |-> exposed - 1,
        entries |-> [i \in 0..(2 * size - 1) |->
                       IF i < slotsUsed THEN blockIndex.entries[(front - slotsUsed + i) % size]
                       ELSE [base |-> 0, block |-> Null]]])
  /\ front' = slotsUsed

(* The ring *)
IsEmpty_LastFlag(b) == BLOCK_SIZE - 1 \in emptyFlags[b]    \* mutant: one flag tells
IsEmpty(b) == emptyFlags[b] = Slots
Ahead      == next[tailBlock]
CanReuse   == tailBlock # Null /\ IsEmpty(Ahead) /\ Ahead # bulk.first

(* is_empty reads one flag after the other, relaxed: it may miss flags that*)
(* consumers have set, and the producer passes over the block.  It misses  *)
(* none that the producer has set itself, in blocks a failed bulk kept.    *)
PassOver   == ~CanReuse \/ ~PartialBulk

Insert(b, flags) ==
  /\ pool' = pool \ {b}
  /\ next' = IF tailBlock = Null THEN [next EXCEPT ![b] = b]
             ELSE [next EXCEPT ![b] = Ahead, ![tailBlock] = b]
  /\ tailBlock' = b
  /\ emptyFlags' = [emptyFlags EXCEPT ![b] = flags]
  /\ slotsUsed' = slotsUsed + 1

(* The block k steps after b.                                              *)
After(b, k) ==
  LET walk[i \in 0..Cardinality(Block)] == IF i = 0 THEN b ELSE next[walk[i - 1]]
  IN  walk[k]

(* headIndex is a relaxed load.  n is the first element of the new block.  *)
Full(n, head) == \/ ~CircularLessThan(Idx(head), Idx(n + BLOCK_SIZE))
                 \/ MaxSubqueueSize - BLOCK_SIZE < n - head

-----------------------------------------------------------------------------
(* enqueue *)
Pgoto(l) == ppc' = l
AtBoundary == ppc = "idle" /\ Slot(Idx(tailIndex)) = 0 /\ tailIndex < MaxTail
Begin == start' = [tail |-> tailBlock, used |-> slotsUsed, front |-> front]
Return0 == Pgoto("idle") /\ start' = NoCall /\ bulk' = NoBulk

EnqueueInBlock ==
  /\ ppc = "idle" /\ Slot(Idx(tailIndex)) # 0
  /\ slots' = [slots EXCEPT ![tailBlock][Slot(Idx(tailIndex))] = tailIndex + 1]
  /\ Enqueue(1)
  /\ UNCHANGED <<ring, blockIdx, call, locals>>

ReuseBlock ==
  /\ AtBoundary /\ CanReuse
  /\ Begin
  /\ tailBlock' = Ahead
  /\ emptyFlags' = [emptyFlags EXCEPT ![Ahead] = {}]
  /\ Pgoto("construct")
  /\ UNCHANGED <<vars, past, next, pool, slots, blockIdx, bulk, locals>>

NeedBlock ==
  /\ AtBoundary /\ PassOver /\ HasRoom
  /\ \E head \in 0..headIndex : ~Full(tailIndex, head)
  /\ Begin
  /\ Pgoto("requisition")
  /\ UNCHANGED <<vars, ring, slots, blockIdx, bulk, locals>>

GrowIndex ==
  /\ AtBoundary /\ PassOver
  /\ \E head \in 0..headIndex : ~Full(tailIndex, head)
  /\ Grow(slotsUsed)
  /\ Begin
  /\ Pgoto("requisition")
  /\ UNCHANGED <<vars, ring, slots, slotsUsed, bulk, locals>>

Requisition ==
  /\ ppc = "requisition"
  /\ \/ \E b \in pool : Insert(b, {}) /\ Pgoto("construct") /\ UNCHANGED <<start, bulk>>
     \/ Return0 /\ UNCHANGED <<tailBlock, next, emptyFlags, pool, slotsUsed>>
  /\ UNCHANGED <<vars, past, slots, headers, front, locals>>

Construct_ToStart ==                        \* mutant: back to startBlock, even if there is none
  /\ ppc = "construct"
  /\ \/ /\ slots' = [slots EXCEPT ![tailBlock][Slot(Idx(tailIndex))] = tailIndex + 1]
        /\ Pgoto("storeEntry")
        /\ UNCHANGED <<tailBlock, slotsUsed, start, bulk>>
     \/ /\ slotsUsed' = start.used
        /\ tailBlock' = start.tail
        /\ Return0
        /\ UNCHANGED slots
  /\ UNCHANGED <<vars, past, next, emptyFlags, pool, headers, front, locals>>

(* When the constructor throws, the block stays in the ring.               *)
Construct ==
  /\ ppc = "construct"
  /\ \/ /\ slots' = [slots EXCEPT ![tailBlock][Slot(Idx(tailIndex))] = tailIndex + 1]
        /\ Pgoto("storeEntry")
        /\ UNCHANGED <<tailBlock, slotsUsed, start, bulk>>
     \/ /\ slotsUsed' = start.used
        /\ tailBlock' = IF start.tail = Null THEN tailBlock ELSE start.tail
        /\ Return0
        /\ UNCHANGED slots
  /\ UNCHANGED <<vars, past, next, emptyFlags, pool, headers, front, locals>>

StoreEntry ==
  /\ ppc = "storeEntry"
  /\ SetEntry(tailIndex, tailBlock)
  /\ Pgoto("storeFront")
  /\ UNCHANGED <<vars, ring, slots, slotsUsed, front, start, bulk, locals>>

StoreFront ==
  /\ ppc = "storeFront"
  /\ headers' = [headers EXCEPT ![Len(headers)].front = front]
  /\ front' = NextFront
  /\ Pgoto("publish")
  /\ UNCHANGED <<vars, ring, slots, slotsUsed, start, bulk, locals>>

Publish ==
  /\ ppc = "publish"
  /\ Enqueue(1)
  /\ Return0
  /\ UNCHANGED <<ring, slots, blockIdx, locals>>

-----------------------------------------------------------------------------
(* enqueue_bulk: bulk.tail is the first element of the last block so far.  *)
BlockNo(n)  == n \div BLOCK_SIZE
LastBlockNo == BlockNo(tailIndex + bulk.count - 1)
AllBlocks   == BlockNo(bulk.tail) = LastBlockNo            \* blockBaseDiff is 0

StartBulk(n) ==
  /\ ppc = "idle" /\ tailIndex + n <= MaxTail
  /\ Begin
  /\ bulk' = [count |-> n, first |-> Null, tail |-> BLOCK_SIZE * BlockNo(tailIndex - 1)]
  /\ Pgoto("reuse")
  /\ UNCHANGED <<vars, ring, slots, blockIdx, locals>>

Took(b) == bulk' = [bulk EXCEPT !.first = IF @ = Null THEN b ELSE @, !.tail = @ + BLOCK_SIZE]

(* As many blocks as possible from ahead; they are reset later.            *)
BulkReuse ==
  /\ ppc = "reuse" /\ ~AllBlocks /\ CanReuse
  /\ tailBlock' = Ahead
  /\ Took(Ahead)
  /\ SetEntry(bulk.tail + BLOCK_SIZE, Ahead)
  /\ front' = NextFront
  /\ UNCHANGED <<vars, past, next, emptyFlags, pool, slots, slotsUsed, ppc, start, locals>>

BulkNoReuse ==
  /\ ppc = "reuse" /\ ~AllBlocks /\ PassOver
  /\ Pgoto("allocate")
  /\ UNCHANGED <<vars, ring, slots, blockIdx, start, bulk, locals>>

HasLeeway == \E head \in 0..headIndex : ~Full(bulk.tail + BLOCK_SIZE, head)

BulkGrow ==
  /\ ppc = "allocate" /\ ~AllBlocks /\ HasLeeway
  /\ Grow(start.used)
  /\ start' = [start EXCEPT !.front = start.used]
  /\ UNCHANGED <<vars, ring, slots, slotsUsed, ppc, bulk, locals>>

BulkRequisition ==
  /\ ppc = "allocate" /\ ~AllBlocks /\ HasLeeway /\ HasRoom
  /\ \E b \in pool : /\ Insert(b, Slots)
                     /\ Took(b)
                     /\ SetEntry(bulk.tail + BLOCK_SIZE, b)
  /\ front' = NextFront
  /\ UNCHANGED <<vars, past, slots, ppc, start, locals>>

(* Undo, but keep the blocks in the ring.                                  *)
BulkUndo ==
  /\ PartialBulk \/ bulk.first = Null
  /\ front' = start.front /\ slotsUsed' = start.used
  /\ tailBlock' = IF start.tail = Null THEN bulk.first ELSE start.tail
  /\ Return0
  /\ UNCHANGED <<vars, past, next, emptyFlags, pool, slots, headers, locals>>

(* No leeway, no new index or no block: memory may be short at any time.   *)
BulkFail == ppc = "allocate" /\ ~AllBlocks /\ BulkUndo

(* The blocks of the elements; the first may be the old tail block.        *)
BlockOf(n) == LET k == BlockNo(n) - BlockNo(tailIndex - 1)
              IN  IF k = 0 THEN start.tail ELSE After(bulk.first, k - 1)
NewBlocks  == IF bulk.first = Null THEN {}
              ELSE {After(bulk.first, k) : k \in 0..(LastBlockNo - BlockNo(tailIndex - 1) - 1)}
Elements   == tailIndex..(tailIndex + bulk.count - 1)

BulkReset ==
  /\ ppc \in {"reuse", "allocate"} /\ AllBlocks
  /\ emptyFlags' = [b \in Block |-> IF b \in NewBlocks THEN {} ELSE emptyFlags[b]]
  /\ Pgoto("constructAll")
  /\ UNCHANGED <<vars, past, tailBlock, next, pool, slots, blockIdx, start, bulk, locals>>

(* Nobody sees the elements before tailIndex is stored.                    *)
BulkConstruct ==
  /\ ppc = "constructAll"
  /\ slots' = [b \in Block |-> [i \in Slots |->
       IF \E n \in Elements : BlockOf(n) = b /\ Slot(Idx(n)) = i
       THEN 1 + CHOOSE n \in Elements : BlockOf(n) = b /\ Slot(Idx(n)) = i
       ELSE slots[b][i]]]
  /\ Pgoto(IF bulk.first = Null THEN "publishAll" ELSE "storeLastFront")
  /\ UNCHANGED <<vars, ring, blockIdx, start, bulk, locals>>

(* A constructor throws: those that ran before are undone.                 *)
BulkThrow == ppc = "constructAll" /\ BulkUndo

BulkStoreFront_Next ==                      \* mutant: the next slot, not the current one
  /\ ppc = "storeLastFront"
  /\ headers' = [headers EXCEPT ![Len(headers)].front = front]
  /\ Pgoto("publishAll")
  /\ UNCHANGED <<vars, ring, slots, slotsUsed, front, start, bulk, locals>>

BulkStoreFront ==
  /\ ppc = "storeLastFront"
  /\ headers' = [headers EXCEPT ![Len(headers)].front = (front - 1) % size]
  /\ Pgoto("publishAll")
  /\ UNCHANGED <<vars, ring, slots, slotsUsed, front, start, bulk, locals>>

BulkPublish ==
  /\ ppc = "publishAll"
  /\ Enqueue(bulk.count)
  /\ Return0
  /\ UNCHANGED <<ring, slots, blockIdx, locals>>

-----------------------------------------------------------------------------
(* dequeue and dequeue_bulk: the claim is DequeueClaim's. *)
Cgoto(c, l) == at' = [at EXCEPT ![c] = l]
producer    == <<ring, blockIdx, call>>

ClaimStep(c) ==
  /\ at[c] = "none"
  /\ Draw(c) \/ GiveBack(c)
  /\ UNCHANGED memory

TakeIndex(c) ==
  /\ at[c] = "none"
  /\ TakeAll(c) \/ TakeRest(c)
  /\ index' = [index EXCEPT ![c] = headIndex]
  /\ end' = [end EXCEPT ![c] = headIndex + count[c]]
  /\ Cgoto(c, "header")
  /\ UNCHANGED <<producer, slots, hdr, ipos, block, item, thrown>>

LoadHeader(c) ==
  /\ at[c] = "header"
  /\ hdr' = [hdr EXCEPT ![c] = Len(headers)]
  /\ Cgoto(c, "front")
  /\ UNCHANGED <<vars, producer, slots, index, end, ipos, block, item, thrown>>

LoadFront(c) ==
  /\ at[c] = "front"
  /\ ipos' = [ipos EXCEPT ![c] = headers[hdr[c]].front]
  /\ Cgoto(c, "base")
  /\ UNCHANGED <<vars, producer, slots, index, end, hdr, block, item, thrown>>

(* The entry that is as far from entry f of h as index i is from its base. *)
EntryOf(h, f, i) == (f + Offset(BlockBase(Idx(i)), h.entries[f].base)) % h.size

LoadBase(c) ==
  /\ at[c] = "base"
  /\ ipos' = [ipos EXCEPT ![c] = EntryOf(headers[hdr[c]], @, index[c])]
  /\ Cgoto(c, "block")
  /\ UNCHANGED <<vars, producer, slots, index, end, hdr, block, item, thrown>>

(* Block by block: the elements of this one are index[c] to endIndex - 1.  *)
EndIndex(c)  == LET following == index[c] - Slot(Idx(index[c])) + BLOCK_SIZE
                IN  IF end[c] < following THEN end[c] ELSE following
SlotsHere(c) == {Slot(Idx(n)) : n \in index[c]..(EndIndex(c) - 1)}

LoadBlock(c) ==
  /\ at[c] = "block"
  /\ block' = [block EXCEPT ![c] = headers[hdr[c]].entries[ipos[c]].block]
  /\ Cgoto(c, "move")
  /\ UNCHANGED <<vars, producer, slots, index, end, hdr, ipos, item, thrown>>

(* Move the elements out and destroy them.  When an assignment throws, it  *)
(* and the rest, here and in the blocks to come, are only destroyed.       *)
Move(c) ==
  /\ at[c] = "move"
  /\ \E k \in 0..(EndIndex(c) - index[c]) :
       /\ thrown[c] => k = 0
       /\ item' = [item EXCEPT ![c] =
            @ \o [i \in 1..k |-> slots[block[c]][Slot(Idx(index[c] + i - 1))]]]
       /\ thrown' = [thrown EXCEPT ![c] = @ \/ k < EndIndex(c) - index[c]]
  /\ slots' = [slots EXCEPT ![block[c]] =
       [i \in Slots |-> IF i \in SlotsHere(c) THEN 0 ELSE @[i]]]
  /\ Cgoto(c, "setEmpty")
  /\ UNCHANGED <<vars, producer, index, end, hdr, ipos, block>>

NextEntry_Same(c) == ipos[c]                \* mutant: indexIndex is not advanced
NextEntry(c) == (ipos[c] + 1) % headers[hdr[c]].size

(* set_empty, set_many_empty; then on to the next block, or the call       *)
(* returns.                                                                *)
SetEmpty(c) ==
  /\ at[c] = "setEmpty"
  /\ emptyFlags' = [emptyFlags EXCEPT ![block[c]] = @ \cup SlotsHere(c)]
  /\ IF EndIndex(c) = end[c]
     THEN /\ Cgoto(c, "none")
          /\ index' = [index EXCEPT ![c] = 0] /\ end' = [end EXCEPT ![c] = 0]
          /\ hdr' = [hdr EXCEPT ![c] = 1] /\ ipos' = [ipos EXCEPT ![c] = 0]
          /\ item' = [item EXCEPT ![c] = <<>>] /\ thrown' = [thrown EXCEPT ![c] = FALSE]
     ELSE /\ Cgoto(c, "block")
          /\ index' = [index EXCEPT ![c] = EndIndex(c)]
          /\ ipos' = [ipos EXCEPT ![c] = NextEntry(c)]
          /\ UNCHANGED <<end, hdr, item, thrown>>
  /\ block' = [block EXCEPT ![c] = Null]
  /\ UNCHANGED <<vars, past, tailBlock, next, pool, slots, blockIdx, call>>

-----------------------------------------------------------------------------
ProducerStep ==
  \/ EnqueueInBlock \/ ReuseBlock \/ NeedBlock \/ GrowIndex \/ Requisition \/ Construct
  \/ StoreEntry \/ StoreFront \/ Publish
  \/ \E n \in 1..MaxBulk : StartBulk(n)
  \/ BulkReuse \/ BulkNoReuse \/ BulkGrow \/ BulkRequisition \/ BulkFail \/ BulkReset
  \/ BulkConstruct \/ BulkThrow \/ BulkStoreFront \/ BulkPublish

ConsumerStep(c) ==
  \/ ClaimStep(c) \/ TakeIndex(c) \/ LoadHeader(c) \/ LoadFront(c) \/ LoadBase(c)
  \/ LoadBlock(c) \/ Move(c) \/ SetEmpty(c)

QueueInit == Init /\ MemoryInit
QueueNext == ProducerStep \/ \E c \in Consumer : ConsumerStep(c)
QueueSpec == QueueInit /\ [][QueueNext]_allVars
-----------------------------------------------------------------------------
QueueTypeOK ==
  /\ TypeOK
  /\ past \in Pasts /\ tailBlock \in Block \cup {Null} /\ pool \subseteq Block
  /\ next \in [Block -> Block \cup {Null}] /\ emptyFlags \in [Block -> SUBSET Slots]
  /\ slots \in [Block -> [Slots -> 0..MaxTail]]
  /\ \A h \in ToSet(headers) :
       /\ h.front \in -1..(h.size - 1)
       /\ h.entries \in [0..(h.size - 1) -> [base : 0..(IndexMod - 1), block : Block \cup {Null}]]
  /\ slotsUsed \in 0..size /\ front \in 0..size
  /\ at \in [Consumer -> {"none", "header", "front", "base", "block", "move", "setEmpty"}]
  /\ index \in [Consumer -> 0..MaxTail] /\ end \in [Consumer -> 0..MaxTail]
  /\ block \in [Consumer -> Block \cup {Null}] /\ thrown \in [Consumer -> BOOLEAN]
  /\ \A c \in Consumer : item[c] \in Seq(0..MaxTail)

(* Reusing a block overwrites an entry of the block index: "guaranteed to  *)
(* be room since we're conceptually removing the last block from it first" *)
(* (concurrentqueue.h:1796).  So, at any moment, a consumer that starts to *)
(* look for an element not dequeued yet finds its block.                   *)
Unfetched(c) == IF at[c] = "setEmpty" THEN EndIndex(c) ELSE index[c]
Finds(n) == blockIndex.entries[EntryOf(blockIndex, blockIndex.front, n)].block
EachIsFound ==
  \A n \in headIndex..(tailIndex - 1)
         \cup UNION {Unfetched(c)..(end[c] - 1) : c \in Consumer} :
    Finds(n) # Null /\ slots[Finds(n)][Slot(Idx(n))] = n + 1

(* An object is constructed only where there is none, in a block that no   *)
(* slow consumer still uses, and no flag is set twice                      *)
(* (concurrentqueue.h:1517).                                               *)
Using(c, b) == at[c] \in {"move", "setEmpty"} /\ block[c] = b
Fill(b, i) == slots[b][i] = 0 /\ \A c \in Consumer : Using(c, b) => i \notin SlotsHere(c)
NoOverwrite ==
  /\ ppc = "construct" => Fill(tailBlock, Slot(Idx(tailIndex)))
  /\ ppc = "constructAll" => \A n \in Elements : Fill(BlockOf(n), Slot(Idx(n)))
  /\ \A c \in Consumer : at[c] = "setEmpty" => SlotsHere(c) \cap emptyFlags[block[c]] = {}

(* The sub-queue is a first-in first-out queue, in which the elements of   *)
(* one enqueue_bulk appear together.                                       *)
Numbers(from, to) == [i \in 1..(to - from) |-> from + i]
F == INSTANCE Fifo WITH
       Element <- 1..MaxTail,
       queue    <- Numbers(headIndex, tailIndex),
       claimed  <- [c \in Consumer |-> Numbers(Unfetched(c), end[c])],
       received <- item
ImplementsFifo == F!Spec

-----------------------------------------------------------------------------
(* The destructor, once nobody is inside the queue: what it destroys in    *)
(* block b of the ring.                                                    *)
Quiet == ppc = "idle" /\ \A c \in Consumer : at[c] = "none" /\ pc[c] = "idle"
Head0 == Slot(Idx(headIndex))
Oldest(k) == blockIndex.entries[(front - slotsUsed + k) % size]
HalfDequeued ==
  IF Head0 = 0 THEN Null
  ELSE Oldest(CHOOSE k \in 0..size :
         /\ ~CircularLessThan(Wrap(Oldest(k).base + BLOCK_SIZE), Idx(headIndex))
         /\ \A j \in 0..(k - 1) :
              CircularLessThan(Wrap(Oldest(j).base + BLOCK_SIZE), Idx(headIndex))).block
Destroyed(b) ==
  IF IsEmpty(b) THEN {}
  ELSE {i \in Slots : /\ b = HalfDequeued => i >= Head0
                      /\ b = tailBlock /\ Slot(Idx(tailIndex)) # 0 => i < Slot(Idx(tailIndex))}

(* "Destroy all blocks that we own" (concurrentqueue.h:1752): whatever     *)
(* enqueues and bulks have failed half-way, the walk from tailBlock along  *)
(* next meets every block that left the pool once, and ends.               *)
RingWhole ==
  IF tailBlock = Null THEN pool = Block
  ELSE LET owned == Cardinality(Block \ pool)
       IN  /\ {After(tailBlock, k) : k \in 0..(owned - 1)} = Block \ pool
           /\ After(tailBlock, owned) = tailBlock

(* "Destruct any elements not yet dequeued" (concurrentqueue.h:1719): these*)
(* and no others.                                                          *)
DestroysWhatIsLeft ==
  Quiet => \A b \in Block \ pool : Destroyed(b) = {i \in Slots : slots[b][i] # 0}
=============================================================================
