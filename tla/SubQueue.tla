------------------------------ MODULE SubQueue ------------------------------
(***************************************************************************)
(* One implicit producer's sub-queue, ImplicitProducer of                  *)
(* concurrentqueue.h: enqueue, enqueue_bulk, dequeue, dequeue_bulk and the *)
(* destructor, with the memory behind the indices that module DequeueClaim *)
(* hands out: blocks of BLOCK_SIZE slots, and the block index that finds   *)
(* the block of an index.  The block index is a circular array of pointers *)
(* to entries; growing it makes a new array that shares the old entries,   *)
(* and consumers may still be using the old one.                           *)
(*                                                                         *)
(* The counters are DequeueClaim's and do not wrap; every use the code     *)
(* makes of one as an index_t goes through Idx, which does.  The pool of   *)
(* free blocks is module FreePool's: a block or, when memory is short or   *)
(* the free list seems empty, none.  Apart from the counters accesses are  *)
(* sequentially consistent.                                                *)
(***************************************************************************)
EXTENDS DequeueClaim, IndexArithmetic, Sequences, SequencesExt

CONSTANTS
  Block, Null,
  InitialIndexSize,    \* IMPLICIT_INITIAL_INDEX_SIZE
  MaxSubqueueSize,     \* MAX_SUBQUEUE_SIZE
  Bulks,               \* bound: how many elements an enqueue_bulk may have
  Base,                \* elements that have come and gone before: a multiple of BLOCK_SIZE
  MaxHeaders           \* bound: block indices allocated

ASSUME QueueAssumption ==
  /\ InitialIndexSize \in Nat \ {0, 1} /\ MaxHeaders \in Nat \ {0}
  /\ Base \in Nat /\ Base % BLOCK_SIZE = 0 /\ Bulks \subseteq Nat \ {0}
  /\ Null \notin Block /\ MaxSubqueueSize \in Nat

(* The block index doubles, and its capacities, powers of two, divide the  *)
(* number of blocks before block numbers wrap around (2^59 in the code).   *)
ASSUME CapacityAssumption ==
  LET wrap == IndexMod \div BLOCK_SIZE
  IN  \E capacity \in [1..MaxHeaders -> 1..wrap] :
        /\ capacity[1] = InitialIndexSize
        /\ \A h \in 2..MaxHeaders : capacity[h] = 2 * capacity[h - 1]
        /\ \A h \in 1..MaxHeaders : wrap % capacity[h] = 0

INVALID_BLOCK_BASE == 1

VARIABLES
  tailBlock,
  slots,       \* slots[b][i]: the object in slot i of block b (element n is the n-th enqueued), or 0
  emptied,     \* elementsCompletelyDequeued of each block
  pool,        \* free blocks
  headers,     \* the block indices, oldest first; blockIndex is the last
  entries,     \* their entries: [key, value]
  ppc,         \* where the producer is
  newBlock,    \* the producer's locals of these names
  idxEntry,
  bulk,        \* locals of enqueue_bulk: count (0 for enqueue), startBlock, the chain of
               \* blocks allocated, and how many of them have been taken back
  at,          \* at[c]: where the consumer is, after it claimed elements index[c] to end[c] - 1
  index, end,  \* unwrapped, counted from 0; index[c] moves on block by block
  hdr,         \* hdr[c]: localBlockIndex
  ipos,        \* ipos[c]: tail, then idx
  block,       \* block[c]
  item,        \* item[c]: what a dequeue under way has moved out for its caller
  thrown       \* thrown[c]: whether a move assignment has thrown

blocks   == <<slots, emptied, pool>>
producer == <<tailBlock, ppc, newBlock, idxEntry, bulk>>
locals   == <<at, index, end, hdr, ipos, block, item, thrown>>
memory   == <<blocks, producer, headers, entries, locals>>
allVars  == <<vars, memory>>

-----------------------------------------------------------------------------
Idx(n) == Wrap(Base + n)
NoBulk == [count |-> 0, start |-> Null, chain |-> <<>>, undone |-> 0]

(* What new_block_index makes of the previous index: its entries, oldest   *)
(* first, then as many new ones.                                           *)
Grown_FromTail(h) ==                        \* mutant: the copy starts at the tail
  [capacity |-> 2 * h.capacity, tail |-> h.capacity - 1,
   index |-> [i \in 0..(2 * h.capacity - 1) |->
                IF i < h.capacity THEN h.index[(h.tail + i) % h.capacity]
                ELSE Len(entries) + 1 + i - h.capacity]]

Grown(h) ==
  [capacity |-> 2 * h.capacity, tail |-> h.capacity - 1,
   index |-> [i \in 0..(2 * h.capacity - 1) |->
                IF i < h.capacity THEN h.index[(h.tail + 1 + i) % h.capacity]
                ELSE Len(entries) + 1 + i - h.capacity]]

blockIndex == headers[Len(headers)]
SetTail(t) == headers' = [headers EXCEPT ![Len(headers)].tail = t]
NewTail    == (blockIndex.tail + 1) % blockIndex.capacity

(* The constructor, and the Base elements that have come and gone.         *)
Past == Base \div BLOCK_SIZE
MemoryInit ==
  /\ tailBlock = Null /\ pool = Block
  /\ slots = [b \in Block |-> [i \in 0..(BLOCK_SIZE - 1) |-> 0]]
  /\ emptied = [b \in Block |-> IF Past = 0 THEN 0 ELSE BLOCK_SIZE]
  /\ entries = [e \in 1..InitialIndexSize |->
       LET last == CHOOSE k \in (Past - InitialIndexSize)..(Past - 1) :
                          k % InitialIndexSize = e - 1
       IN  [key |-> IF last < 0 THEN INVALID_BLOCK_BASE ELSE (last * BLOCK_SIZE) % IndexMod,
            value |-> Null]]
  /\ headers = <<[capacity |-> InitialIndexSize, tail |-> (Past - 1) % InitialIndexSize,
                  index |-> [i \in 0..(InitialIndexSize - 1) |-> i + 1]]>>
  /\ ppc = "idle" /\ newBlock = Null /\ idxEntry = 1 /\ bulk = NoBulk
  /\ at = [c \in Consumer |-> "none"]
  /\ index = [c \in Consumer |-> 0] /\ end = [c \in Consumer |-> 0]
  /\ hdr = [c \in Consumer |-> 1] /\ ipos = [c \in Consumer |-> 0]
  /\ block = [c \in Consumer |-> Null]
  /\ item = [c \in Consumer |-> <<>>] /\ thrown = [c \in Consumer |-> FALSE]

-----------------------------------------------------------------------------
(* enqueue *)
Pgoto(l) == ppc' = l
Tl == Idx(tailIndex)

(* Inside a block: construct, then publish.  A constructor that throws     *)
(* changes nothing.                                                        *)
EnqueueInBlock ==
  /\ ppc = "idle" /\ Slot(Tl) # 0
  /\ slots' = [slots EXCEPT ![tailBlock][Slot(Tl)] = tailIndex + 1]
  /\ Enqueue(1)
  /\ UNCHANGED <<emptied, pool, producer, headers, entries, locals>>

(* The block to insert next begins with element Target: enqueue is at the  *)
(* end of a block; enqueue_bulk has all the blocks of bulk.chain.          *)
BlockNo(n) == n \div BLOCK_SIZE
Target     == IF bulk.count = 0 THEN tailIndex
              ELSE BLOCK_SIZE * (BlockNo(tailIndex - 1) + 1 + Len(bulk.chain))
AllBlocks  == BlockNo(tailIndex + bulk.count - 1) < BlockNo(Target)
Inserting  == \/ ppc = "idle" /\ Slot(Tl) = 0 /\ tailIndex < MaxTail
              \/ ppc = "insert" /\ ~AllBlocks

StartBulk(n) ==
  /\ ppc = "idle" /\ tailIndex + n <= MaxTail
  /\ bulk' = [NoBulk EXCEPT !.count = n, !.start = tailBlock]
  /\ Pgoto("insert")
  /\ UNCHANGED <<vars, blocks, tailBlock, newBlock, idxEntry, headers, entries, locals>>

Full_NoReserve(head) ==                     \* mutant: the block to come is not counted
  \/ ~CircularLessThan(Idx(head), Idx(Target + BLOCK_SIZE))
  \/ MaxSubqueueSize < Target - head

(* headIndex is a relaxed load.                                            *)
Full(head) == \/ ~CircularLessThan(Idx(head), Idx(Target + BLOCK_SIZE))
              \/ MaxSubqueueSize - BLOCK_SIZE < Target - head

(* No leeway, or no memory for the index: enqueue returns false and        *)
(* nothing has changed, enqueue_bulk has to undo what it did.              *)
InsertFails ==
  /\ ppc = "insert" /\ ~AllBlocks
  /\ Pgoto("undo")
  /\ UNCHANGED <<vars, blocks, tailBlock, newBlock, idxEntry, bulk, headers, entries, locals>>

InsertEntry_KeepsLive ==                    \* mutant: an entry in use is reused
  /\ Inserting
  /\ \E head \in 0..headIndex : ~Full(head)
  /\ idxEntry' = blockIndex.index[NewTail]
  /\ entries' = [entries EXCEPT ![blockIndex.index[NewTail]].key = Idx(Target)]
  /\ Pgoto("storeTail")
  /\ UNCHANGED <<vars, blocks, tailBlock, newBlock, bulk, headers, locals>>

(* insert_block_index_entry, first attempt: the entry after the tail.      *)
InsertEntry ==
  /\ Inserting
  /\ \E head \in 0..headIndex : ~Full(head)
  /\ LET e == entries[blockIndex.index[NewTail]]
     IN  e.key = INVALID_BLOCK_BASE \/ e.value = Null
  /\ idxEntry' = blockIndex.index[NewTail]
  /\ entries' = [entries EXCEPT ![blockIndex.index[NewTail]].key = Idx(Target)]
  /\ Pgoto("storeTail")
  /\ UNCHANGED <<vars, blocks, tailBlock, newBlock, bulk, headers, locals>>

(* No room: new_block_index.                                               *)
GrowIndex ==
  /\ Inserting
  /\ \E head \in 0..headIndex : ~Full(head)
  /\ LET e == entries[blockIndex.index[NewTail]]
     IN  e.key # INVALID_BLOCK_BASE /\ e.value # Null
  /\ Len(headers) < MaxHeaders
  /\ headers' = Append(headers, Grown(blockIndex))
  /\ entries' = entries \o [i \in 1..blockIndex.capacity |->
                              [key |-> INVALID_BLOCK_BASE, value |-> Null]]
  /\ Pgoto("storeKey")
  /\ UNCHANGED <<vars, blocks, tailBlock, newBlock, idxEntry, bulk, locals>>

StoreKey ==
  /\ ppc = "storeKey"
  /\ idxEntry' = blockIndex.index[NewTail]
  /\ entries' = [entries EXCEPT ![blockIndex.index[NewTail]].key = Idx(Target)]
  /\ Pgoto("storeTail")
  /\ UNCHANGED <<vars, blocks, tailBlock, newBlock, bulk, headers, locals>>

StoreTail ==
  /\ ppc = "storeTail"
  /\ SetTail(NewTail)
  /\ Pgoto("requisition")
  /\ UNCHANGED <<vars, blocks, tailBlock, newBlock, idxEntry, bulk, entries, locals>>

Requisition_NoReset ==                      \* mutant: reset_empty is forgotten
  /\ ppc = "requisition"
  /\ \/ \E b \in pool : /\ newBlock' = b /\ pool' = pool \ {b}
                        /\ Pgoto(IF bulk.count = 0 THEN "construct" ELSE "storeValue")
     \/ Pgoto("rewind") /\ UNCHANGED <<newBlock, pool>>
  /\ UNCHANGED <<vars, slots, emptied, tailBlock, idxEntry, bulk, headers, entries, locals>>

(* requisition_block and reset_empty, or no block.                         *)
Requisition ==
  /\ ppc = "requisition"
  /\ \/ \E b \in pool : /\ newBlock' = b /\ pool' = pool \ {b}
                        /\ emptied' = [emptied EXCEPT ![b] = 0]
                        /\ Pgoto(IF bulk.count = 0 THEN "construct" ELSE "storeValue")
     \/ Pgoto("rewind") /\ UNCHANGED <<newBlock, pool, emptied>>
  /\ UNCHANGED <<vars, slots, tailBlock, idxEntry, bulk, headers, entries, locals>>

(* enqueue: the element goes into the new block before the block is        *)
(* published; its constructor may throw.                                   *)
Construct ==
  /\ ppc = "construct"
  /\ \/ /\ slots' = [slots EXCEPT ![newBlock][Slot(Tl)] = tailIndex + 1]
        /\ Pgoto("storeValue")
     \/ Pgoto("rewind") /\ UNCHANGED slots
  /\ UNCHANGED <<vars, emptied, pool, tailBlock, newBlock, idxEntry, bulk, headers, entries, locals>>

StoreValue ==
  /\ ppc = "storeValue"
  /\ entries' = [entries EXCEPT ![idxEntry].value = newBlock]
  /\ tailBlock' = newBlock
  /\ IF bulk.count = 0
     THEN Pgoto("publish") /\ UNCHANGED <<newBlock, bulk>>
     ELSE Pgoto("insert") /\ newBlock' = Null /\ bulk' = [bulk EXCEPT !.chain = Append(@, newBlock)]
  /\ UNCHANGED <<vars, blocks, idxEntry, headers, locals>>

Publish ==
  /\ ppc = "publish"
  /\ Enqueue(Positive(bulk.count - 1) + 1)
  /\ newBlock' = Null /\ bulk' = NoBulk
  /\ Pgoto("idle")
  /\ UNCHANGED <<blocks, tailBlock, idxEntry, headers, entries, locals>>

(* Failure: rewind_block_index_tail, clear the entry, return the block.    *)
Rewind ==
  /\ ppc = "rewind"
  /\ SetTail((blockIndex.tail - 1) % blockIndex.capacity)
  /\ Pgoto("clearValue")
  /\ UNCHANGED <<vars, blocks, tailBlock, newBlock, idxEntry, bulk, entries, locals>>

ClearValue_LeaksBlock ==                    \* mutant: the block is not returned
  /\ ppc = "clearValue"
  /\ entries' = [entries EXCEPT ![idxEntry].value = Null]
  /\ newBlock' = Null
  /\ Pgoto(IF bulk.count = 0 THEN "idle" ELSE "undo")
  /\ UNCHANGED <<vars, blocks, tailBlock, idxEntry, bulk, headers, locals>>

ClearValue ==
  /\ ppc = "clearValue"
  /\ entries' = [entries EXCEPT ![idxEntry].value = Null]
  /\ pool' = pool \cup ({newBlock} \ {Null})
  /\ newBlock' = Null
  /\ Pgoto(IF bulk.count = 0 THEN "idle" ELSE "undo")
  /\ UNCHANGED <<vars, slots, emptied, tailBlock, idxEntry, bulk, headers, locals>>

-----------------------------------------------------------------------------
(* enqueue_bulk, when it has all its blocks.  Nobody sees the elements     *)
(* before tailIndex is stored.                                             *)
Elements == tailIndex..(tailIndex + bulk.count - 1)
BlockOf(n) == LET k == BlockNo(n) - BlockNo(tailIndex - 1)
              IN  IF k = 0 THEN bulk.start ELSE bulk.chain[k]
Fills(b, i, n) == BlockOf(n) = b /\ Slot(Idx(n)) = i

BulkConstruct ==
  /\ ppc = "insert" /\ AllBlocks
  /\ slots' = [b \in Block |-> [i \in 0..(BLOCK_SIZE - 1) |->
       IF \E n \in Elements : Fills(b, i, n) THEN 1 + CHOOSE n \in Elements : Fills(b, i, n)
       ELSE slots[b][i]]]
  /\ Pgoto("publish")
  /\ UNCHANGED <<vars, emptied, pool, tailBlock, newBlock, idxEntry, bulk, headers, entries, locals>>

(* A constructor throws: those that ran before are undone, and the blocks  *)
(* taken back.                                                             *)
BulkThrow ==
  /\ ppc = "insert" /\ AllBlocks
  /\ Pgoto("undo")
  /\ UNCHANGED <<vars, blocks, tailBlock, newBlock, idxEntry, bulk, headers, entries, locals>>

(* get_block_index_entry_for_index: the entry for element n, by the tail   *)
(* of header h and the key of its entry.                                   *)
Distance(h, t, key, n) == (t + Offset(BlockBase(Idx(n)), key)) % h.capacity
EntryFor(n) == LET h == blockIndex
               IN  h.index[Distance(h, h.tail, entries[h.index[h.tail]].key, n)]

UndoEntry ==
  /\ ppc = "undo" /\ bulk.undone < Len(bulk.chain)
  /\ entries' = [entries EXCEPT
       ![EntryFor(BLOCK_SIZE * (BlockNo(tailIndex - 1) + 1 + bulk.undone))].value = Null]
  /\ Pgoto("undoTail")
  /\ UNCHANGED <<vars, blocks, tailBlock, newBlock, idxEntry, bulk, headers, locals>>

UndoTail ==
  /\ ppc = "undoTail"
  /\ SetTail((blockIndex.tail - 1) % blockIndex.capacity)
  /\ bulk' = [bulk EXCEPT !.undone = @ + 1]
  /\ Pgoto("undo")
  /\ UNCHANGED <<vars, blocks, tailBlock, newBlock, idxEntry, entries, locals>>

(* add_blocks_to_free_list                                                 *)
UndoBlocks ==
  /\ ppc = "undo" /\ bulk.undone = Len(bulk.chain)
  /\ pool' = pool \cup ToSet(bulk.chain)
  /\ tailBlock' = bulk.start
  /\ bulk' = NoBulk
  /\ Pgoto("idle")
  /\ UNCHANGED <<vars, slots, emptied, newBlock, idxEntry, headers, entries, locals>>

-----------------------------------------------------------------------------
(* dequeue and dequeue_bulk: the claim is DequeueClaim's. *)
Cgoto(c, l) == at' = [at EXCEPT ![c] = l]

ClaimStep(c) ==
  /\ at[c] = "none"
  /\ Draw(c) \/ GiveBack(c)
  /\ UNCHANGED memory

TakeIndex(c) ==
  /\ at[c] = "none"
  /\ TakeAll(c) \/ TakeRest(c)
  /\ index' = [index EXCEPT ![c] = headIndex]
  /\ end' = [end EXCEPT ![c] = headIndex + count[c]]
  /\ Cgoto(c, "header")
  /\ UNCHANGED <<blocks, producer, headers, entries, hdr, ipos, block, item, thrown>>

(* get_block_index_index_for_index                                         *)
LoadHeader(c) ==
  /\ at[c] = "header"
  /\ hdr' = [hdr EXCEPT ![c] = Len(headers)]
  /\ Cgoto(c, "tail")
  /\ UNCHANGED <<vars, blocks, producer, headers, entries, index, end, ipos, block, item, thrown>>

LoadTail(c) ==
  /\ at[c] = "tail"
  /\ ipos' = [ipos EXCEPT ![c] = headers[hdr[c]].tail]
  /\ Cgoto(c, "key")
  /\ UNCHANGED <<vars, blocks, producer, headers, entries, index, end, hdr, block, item, thrown>>

Local(c)   == headers[hdr[c]]
Entry(c)   == Local(c).index[ipos[c]]
BaseOf(c)  == BlockBase(Idx(index[c]))

LoadKey(c) ==
  /\ at[c] = "key"
  /\ ipos' = [ipos EXCEPT ![c] = Distance(Local(c), @, entries[Entry(c)].key, index[c])]
  /\ Cgoto(c, "value")
  /\ UNCHANGED <<vars, blocks, producer, headers, entries, index, end, hdr, block, item, thrown>>

(* Block by block: the elements of this one are index[c] to endIndex - 1.  *)
EndIndex(c) == LET next == index[c] - Slot(Idx(index[c])) + BLOCK_SIZE
               IN  IF end[c] < next THEN end[c] ELSE next
Here(c)     == EndIndex(c) - index[c]

LoadValue(c) ==
  /\ at[c] = "value"
  /\ block' = [block EXCEPT ![c] = entries[Entry(c)].value]
  /\ Cgoto(c, "move")
  /\ UNCHANGED <<vars, blocks, producer, headers, entries, index, end, hdr, ipos, item, thrown>>

(* Move the elements out and destroy them.  When an assignment throws, it  *)
(* and the rest, here and in the blocks to come, are only destroyed.       *)
Move(c) ==
  /\ at[c] = "move"
  /\ \E k \in 0..Here(c) :
       /\ thrown[c] => k = 0
       /\ item' = [item EXCEPT ![c] =
            @ \o [i \in 1..k |-> slots[block[c]][Slot(Idx(index[c] + i - 1))]]]
       /\ thrown' = [thrown EXCEPT ![c] = @ \/ k < Here(c)]
  /\ slots' = [slots EXCEPT ![block[c]] = [i \in 0..(BLOCK_SIZE - 1) |->
       IF \E n \in index[c]..(EndIndex(c) - 1) : Slot(Idx(n)) = i THEN 0 ELSE @[i]]]
  /\ Cgoto(c, "setEmpty")
  /\ UNCHANGED <<vars, emptied, pool, producer, headers, entries, index, end, hdr, ipos, block>>

(* On to the next block; or the call returns, and its locals are gone.     *)
NextBlock(c) ==
  IF EndIndex(c) = end[c]
  THEN /\ Cgoto(c, "none")
       /\ index' = [index EXCEPT ![c] = 0] /\ end' = [end EXCEPT ![c] = 0]
       /\ hdr' = [hdr EXCEPT ![c] = 1] /\ ipos' = [ipos EXCEPT ![c] = 0]
       /\ block' = [block EXCEPT ![c] = Null]
       /\ item' = [item EXCEPT ![c] = <<>>] /\ thrown' = [thrown EXCEPT ![c] = FALSE]
  ELSE /\ Cgoto(c, "value")
       /\ index' = [index EXCEPT ![c] = EndIndex(c)]
       /\ ipos' = [ipos EXCEPT ![c] = (@ + 1) % Local(c).capacity]
       /\ block' = [block EXCEPT ![c] = Null]
       /\ UNCHANGED <<end, hdr, item, thrown>>

(* set_empty, set_many_empty: the consumer that empties the block returns  *)
(* it.                                                                     *)
SetEmpty(c) ==
  /\ at[c] = "setEmpty"
  /\ emptied' = [emptied EXCEPT ![block[c]] = @ + Here(c)]
  /\ IF emptied[block[c]] + Here(c) = BLOCK_SIZE
     THEN Cgoto(c, "clear") /\ UNCHANGED <<index, end, hdr, ipos, block, item, thrown>>
     ELSE NextBlock(c)
  /\ UNCHANGED <<vars, slots, pool, producer, headers, entries>>

ClearEntry(c) ==
  /\ at[c] = "clear"
  /\ entries' = [entries EXCEPT ![Entry(c)].value = Null]
  /\ Cgoto(c, "free")
  /\ UNCHANGED <<vars, blocks, producer, headers, index, end, hdr, ipos, block, item, thrown>>

AddToFreeList(c) ==
  /\ at[c] = "free"
  /\ pool' = pool \cup {block[c]}
  /\ NextBlock(c)
  /\ UNCHANGED <<vars, slots, emptied, producer, headers, entries>>

-----------------------------------------------------------------------------
ProducerStep ==
  \/ EnqueueInBlock \/ InsertEntry \/ GrowIndex \/ StoreKey \/ StoreTail \/ Requisition
  \/ Construct \/ StoreValue \/ Publish \/ Rewind \/ ClearValue
  \/ \E n \in Bulks : StartBulk(n)
  \/ InsertFails \/ BulkConstruct \/ BulkThrow \/ UndoEntry \/ UndoTail \/ UndoBlocks

ConsumerStep(c) ==
  \/ ClaimStep(c) \/ TakeIndex(c) \/ LoadHeader(c) \/ LoadTail(c) \/ LoadKey(c) \/ LoadValue(c)
  \/ Move(c) \/ SetEmpty(c) \/ ClearEntry(c) \/ AddToFreeList(c)

QueueInit == Init /\ MemoryInit
QueueNext == ProducerStep \/ \E c \in Consumer : ConsumerStep(c)
QueueSpec == QueueInit /\ [][QueueNext]_allVars
-----------------------------------------------------------------------------
QueueTypeOK ==
  /\ TypeOK
  /\ tailBlock \in Block \cup {Null} /\ newBlock \in Block \cup {Null} /\ pool \subseteq Block
  /\ slots \in [Block -> [0..(BLOCK_SIZE - 1) -> 0..MaxTail]]
  /\ emptied \in [Block -> 0..BLOCK_SIZE]
  /\ entries \in Seq([key : 0..(IndexMod - 1), value : Block \cup {Null}])
  /\ idxEntry \in DOMAIN entries
  /\ \A h \in ToSet(headers) : /\ h.tail \in 0..(h.capacity - 1)
                               /\ h.index \in [0..(h.capacity - 1) -> DOMAIN entries]
  /\ ppc \in {"idle", "insert", "storeKey", "storeTail", "requisition", "construct", "storeValue",
              "publish", "rewind", "clearValue", "undo", "undoTail"}
  /\ bulk.count \in Bulks \cup {0} /\ ToSet(bulk.chain) \subseteq Block
  /\ at \in [Consumer -> {"none", "header", "tail", "key", "value", "move", "setEmpty", "clear",
                         "free"}]
  /\ index \in [Consumer -> 0..MaxTail] /\ end \in [Consumer -> 0..MaxTail]
  /\ thrown \in [Consumer -> BOOLEAN] /\ hdr \in [Consumer -> DOMAIN headers]
  /\ ipos \in [Consumer -> Nat] /\ block \in [Consumer -> Block \cup {Null}]
  /\ \A c \in Consumer : item[c] \in Seq(0..MaxTail)

(* The assertions of the block index (concurrentqueue.h:2841, 2869, 2874): *)
(* the entry after the tail of a grown index is new; the tail's entry is   *)
(* in use; and the entry a consumer computes from a header, a tail and a   *)
(* key it read at different times is the one of its element's block.       *)
BlockIndexAssertions ==
  /\ ppc = "storeKey" => entries[blockIndex.index[NewTail]].key = INVALID_BLOCK_BASE
  /\ \A c \in Consumer :
       /\ at[c] = "key" => entries[Entry(c)].key # INVALID_BLOCK_BASE
       /\ at[c] = "value" => entries[Entry(c)].key = BaseOf(c) /\ entries[Entry(c)].value # Null

(* An object is constructed only where there is none, in a block that no   *)
(* slow consumer still reads (concurrentqueue.h:2445, 2467), and set_empty *)
(* never counts past the block (1524).                                     *)
Using(c, b) == at[c] \in {"move", "setEmpty", "clear", "free"} /\ block[c] = b
NoOverwrite ==
  /\ ppc = "insert" /\ AllBlocks => \A n \in Elements :
       /\ slots[BlockOf(n)][Slot(Idx(n))] = 0
       /\ \A c \in Consumer : Using(c, BlockOf(n)) => BlockOf(n) = bulk.start
  /\ ppc = "construct" => /\ slots[newBlock][Slot(Tl)] = 0
                          /\ \A c \in Consumer : ~Using(c, newBlock)
  /\ ppc = "idle" /\ Slot(Tl) # 0 => slots[tailBlock][Slot(Tl)] = 0
  /\ \A c \in Consumer : at[c] = "setEmpty" => emptied[block[c]] + Here(c) <= BLOCK_SIZE

(* When nobody is inside the queue, each block is in the pool, or it is in *)
(* the block index once, and then has an object in it or room for the next *)
(* one: failed enqueues and racing dequeues lose no block.                 *)
Quiet == ppc = "idle" /\ \A c \in Consumer : at[c] = "none"
InIndex(b) == {i \in 0..(blockIndex.capacity - 1) : entries[blockIndex.index[i]].value = b}
NoBlockLost ==
  Quiet => \A b \in Block :
    IF b \in pool THEN InIndex(b) = {}
    ELSE /\ Cardinality(InIndex(b)) = 1
         /\ \/ \E i \in 0..(BLOCK_SIZE - 1) : slots[b][i] # 0
            \/ b = tailBlock /\ Slot(Tl) # 0

(* concurrentqueue.h:313: the sub-queue never holds more than              *)
(* MAX_SUBQUEUE_SIZE elements (a multiple of the block size), however old  *)
(* the head that enqueue compares with.                                    *)
WithinLimit == tailIndex - headIndex <= MaxSubqueueSize

(* The sub-queue is a first-in first-out queue: each element is claimed    *)
(* once, in order, and what its consumer moves out of memory is that very  *)
(* element (or nothing, when the assignment throws).  The elements of one  *)
(* enqueue_bulk appear together.                                           *)
Numbers(from, to) == [i \in 1..(to - from) |-> from + i]
Unfetched(c) == IF at[c] \in {"setEmpty", "clear", "free"} THEN EndIndex(c) ELSE index[c]
F == INSTANCE Fifo WITH
       Element <- 1..MaxTail,
       queue    <- Numbers(headIndex, tailIndex),
       claimed  <- [c \in Consumer |-> Numbers(Unfetched(c), end[c])],
       received <- item
ImplementsFifo == F!Spec

-----------------------------------------------------------------------------
(* The destructor, once nobody is inside the queue: the blocks of the      *)
(* elements not dequeued yet, and which blocks it returns, in order.       *)
Idle == Quiet /\ \A c \in Consumer : pc[c] = "idle"
HomeOf(n) == entries[EntryFor(n)].value
FreedInLoop ==
  LET first == BlockNo(headIndex)
  IN  [k \in 1..(BlockNo(tailIndex - 1) - first) |->
         HomeOf(IF k = 1 THEN headIndex ELSE BLOCK_SIZE * (first + k - 1))]
Freed_NeverTail ==                          \* mutant: forceFreeLastBlock is forgotten
  (IF headIndex = tailIndex THEN <<>> ELSE FreedInLoop)
    \o (IF tailBlock # Null /\ Slot(Tl) # 0 THEN <<tailBlock>> ELSE <<>>)
Freed ==
  (IF headIndex = tailIndex THEN <<>> ELSE FreedInLoop)
    \o (IF tailBlock # Null /\ (headIndex # tailIndex \/ Slot(Tl) # 0) THEN <<tailBlock>> ELSE <<>>)

(* "Destroy all remaining elements!" (concurrentqueue.h:2370): whenever    *)
(* the destructor may run, the objects left in memory are those of the     *)
(* elements not dequeued, each found through the block index, and every    *)
(* block goes back to the free list once, without leak or double return.   *)
DestroysAll ==
  Idle =>
    /\ \A b \in Block, i \in 0..(BLOCK_SIZE - 1) : slots[b][i] # 0 =>
         slots[b][i] - 1 \in headIndex..(tailIndex - 1)
    /\ \A n \in headIndex..(tailIndex - 1) : /\ HomeOf(n) # Null
                                             /\ slots[HomeOf(n)][Slot(Idx(n))] = n + 1
    /\ IsInjective(Freed) /\ ToSet(Freed) = Block \ pool
=============================================================================
