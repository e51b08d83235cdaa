------------------------ MODULE ExplicitQueueProofs -------------------------
(***************************************************************************)
(* What is proved of a token's sub-queue.  However its ring, its flags and *)
(* its block index change, and even where a failed bulk leaves them in     *)
(* disorder, its four counters are treated as module DequeueClaim says, so *)
(* that what is proved there holds here, and its blocks stay in one ring.  *)
(* Both are proved whatever PartialBulk is.                                *)
(*                                                                         *)
(* The rest is proved where PartialBulk is FALSE, as a failed bulk breaks  *)
(* it: a consumer finds each element it claims, no element is overwritten, *)
(* and the sub-queue is a first-in first-out queue.                        *)
(***************************************************************************)
EXTENDS ExplicitQueue, DequeueClaimProofs, SequenceTheorems

(* What BulkPublish needs to be an Enqueue of a natural number of elements.*)
Counts ==
  /\ tailIndex \in Nat
  /\ DOMAIN bulk = {"count", "first", "tail"} /\ bulk.count \in Nat

LEMMA CountsInit == QueueInit => Counts
BY DEF QueueInit, Init, MemoryInit, NoBulk, Counts

(* A step of the producer that leaves the counters and bulk.count alone.   *)
LEMMA CountsKept ==
  ASSUME Counts, UNCHANGED vars,
         \/ bulk' = NoBulk
         \/ UNCHANGED bulk
         \/ \E n \in Nat : \E x : bulk' = [count |-> n, first |-> Null, tail |-> x]
         \/ \E x, y : bulk' = [bulk EXCEPT !.first = x, !.tail = y]
  PROVE  Counts'
<1>1. tailIndex' \in Nat
  BY DEF Counts, vars, counters
<1>2. DOMAIN bulk' = {"count", "first", "tail"} /\ bulk'.count \in Nat
  <2>1. CASE bulk' = NoBulk
    BY <2>1 DEF NoBulk
  <2>2. CASE UNCHANGED bulk
    BY <2>2 DEF Counts
  <2>3. ASSUME NEW n \in Nat, NEW x, bulk' = [count |-> n, first |-> Null, tail |-> x]
        PROVE  DOMAIN bulk' = {"count", "first", "tail"} /\ bulk'.count \in Nat
    BY <2>3
  <2>4. ASSUME NEW x, NEW y, bulk' = [bulk EXCEPT !.first = x, !.tail = y]
        PROVE  DOMAIN bulk' = {"count", "first", "tail"} /\ bulk'.count \in Nat
    BY <2>4 DEF Counts
  <2> QED BY <2>1, <2>2, <2>3, <2>4
<1> QED BY <1>1, <1>2 DEF Counts

(* Each step of the queue is one of the ticket protocol or none of its     *)
(* business.                                                               *)
LEMMA Simulates == ASSUME Counts, QueueNext PROVE Counts' /\ [Next]_vars
<1> USE RingAssumption, BoundAssumption
<1>1. CASE EnqueueInBlock
  <2>1. Enqueue(1) /\ UNCHANGED bulk
    BY <1>1 DEF EnqueueInBlock, call
  <2>2. 1 \in 1..MaxTail
    BY <2>1 DEF Enqueue, Counts
  <2> QED BY <2>1, <2>2 DEF Next, Counts, Enqueue
<1>2. CASE Publish
  <2>1. Enqueue(1) /\ bulk' = NoBulk
    BY <1>2 DEF Publish, Return0
  <2>2. 1 \in 1..MaxTail
    BY <2>1 DEF Enqueue, Counts
  <2>3. Counts'
    BY <2>1 DEF Enqueue, Counts, NoBulk
  <2> QED BY <2>1, <2>2, <2>3 DEF Next
<1>3. CASE BulkPublish
  <2>1. Enqueue(bulk.count) /\ bulk' = NoBulk
    BY <1>3 DEF BulkPublish, Return0
  <2>2. Counts'
    BY <2>1 DEF Enqueue, Counts, NoBulk
  <2>3. CASE bulk.count = 0
    BY <2>1, <2>2, <2>3 DEF Enqueue, Counts, vars, counters
  <2>4. CASE bulk.count # 0
    <3>1. bulk.count \in 1..MaxTail
      BY <2>1, <2>4 DEF Enqueue, Counts
    <3> QED BY <2>1, <2>2, <3>1 DEF Next
  <2> QED BY <2>3, <2>4
<1>4. CASE ReuseBlock \/ NeedBlock \/ GrowIndex \/ Requisition \/ Construct \/ StoreEntry
           \/ StoreFront \/ BulkNoReuse \/ BulkGrow \/ BulkFail \/ BulkReset \/ BulkConstruct
           \/ BulkThrow \/ BulkStoreFront
  <2>1. UNCHANGED vars /\ (UNCHANGED bulk \/ bulk' = NoBulk)
    BY <1>4 DEF ReuseBlock, NeedBlock, GrowIndex, Requisition, Construct, StoreEntry, StoreFront,
                BulkNoReuse, BulkGrow, BulkFail, BulkReset, BulkConstruct, BulkThrow,
                BulkStoreFront, BulkUndo, Return0
  <2> QED BY <2>1, CountsKept
<1>5. CASE BulkReuse \/ BulkRequisition
  <2>1. UNCHANGED vars /\ \E b : Took(b)
    BY <1>5 DEF BulkReuse, BulkRequisition
  <2>2. \E x, y : bulk' = [bulk EXCEPT !.first = x, !.tail = y]
    BY <2>1 DEF Took
  <2> QED BY <2>1, <2>2, CountsKept
<1>6. ASSUME NEW n \in 1..MaxBulk, StartBulk(n) PROVE Counts' /\ [Next]_vars
  <2>1. UNCHANGED vars /\ n \in Nat
    BY <1>6 DEF StartBulk
  <2>2. \E x : bulk' = [count |-> n, first |-> Null, tail |-> x]
    BY <1>6 DEF StartBulk
  <2> QED BY <2>1, <2>2, CountsKept
<1>7. ASSUME NEW c \in Consumer, ClaimStep(c) \/ TakeIndex(c) PROVE Counts' /\ [Next]_vars
  <2>1. (Draw(c) \/ GiveBack(c) \/ TakeAll(c) \/ TakeRest(c)) /\ UNCHANGED bulk
    BY <1>7 DEF ClaimStep, TakeIndex, memory, producer, call
  <2>2. UNCHANGED tailIndex
    BY <2>1 DEF Draw, GiveBack, TakeAll, TakeRest, Grant
  <2> QED BY <2>1, <2>2 DEF Next, Counts
<1>8. ASSUME NEW c \in Consumer, ConsumerStep(c), ~ClaimStep(c), ~TakeIndex(c)
      PROVE  Counts' /\ [Next]_vars
  <2>1. UNCHANGED <<vars, bulk>>
    BY <1>8 DEF ConsumerStep, LoadHeader, LoadFront, LoadBase, LoadBlock, Move, SetEmpty,
                producer, call
  <2> QED BY <2>1, CountsKept
<1> QED
  BY <1>1, <1>2, <1>3, <1>4, <1>5, <1>6, <1>7, <1>8 DEF QueueNext, ProducerStep, ConsumerStep

(* A token's sub-queue implements the ticket protocol.                     *)
THEOREM UsesTickets == QueueSpec => Spec
<1>1. QueueInit => Init /\ Counts
  BY CountsInit DEF QueueInit
<1>2. Counts /\ [QueueNext]_allVars => Counts' /\ [Next]_vars
  <2> SUFFICES ASSUME Counts, [QueueNext]_allVars PROVE Counts' /\ [Next]_vars
    OBVIOUS
  <2>1. CASE QueueNext
    BY <2>1, Simulates
  <2>2. CASE UNCHANGED allVars
    <3>1. UNCHANGED <<vars, bulk>>
      BY <2>2 DEF allVars, memory, call
    <3> QED BY <3>1, CountsKept
  <2> QED BY <2>1, <2>2
<1> QED BY <1>1, <1>2, PTL DEF QueueSpec, Spec

(* concurrentqueue.h:1925, 2190: no consumer of a token's sub-queue gets   *)
(* an index whose element is not published yet.                            *)
THEOREM HeadStaysBehind == QueueSpec => []HeadWithinTail
BY UsesTickets, HeadNeverPassesTail, PTL

(* The assertions at concurrentqueue.h:1916 and 2180 never fail.           *)
THEOREM AssertionsHold == QueueSpec => []OvercommitAssertion
BY UsesTickets, AssertionHolds, PTL

(* Whenever no claim is under way, the counters show exactly the elements  *)
(* that are left (concurrentqueue.h:1977, 2187).                           *)
THEOREM NothingLeftBehind == QueueSpec => []NoneStranded
BY UsesTickets, NothingStranded, PTL

-----------------------------------------------------------------------------
(* Induction as far as N, over a set.                                      *)
LEMMA UpTo ==
  ASSUME NEW N \in Nat, NEW S, 0 \in S, \A n \in 0..(N - 1) : n \in S => n + 1 \in S
  PROVE  N \in S
<1> DEFINE T == S \cap 0..N
<1>1. IsFiniteSet(T) /\ T # {} /\ T \in SUBSET Nat
  <2>1. IsFiniteSet(0..N)
    BY FS_Interval
  <2>2. IsFiniteSet(T)
    BY <2>1, FS_Subset
  <2>3. 0 \in T
    OBVIOUS
  <2> QED BY <2>1, <2>2, <2>3
<1>2. PICK m \in T : \A t \in T : t <= m
  BY <1>1, MaxExists
<1>3. CASE m = N
  BY <1>2, <1>3
<1>4. CASE m # N
  <2>1. m \in 0..(N - 1) /\ m \in S
    BY <1>2, <1>4
  <2>2. m + 1 \in T
    BY <2>1
  <2> QED BY <1>2, <2>1, <2>2
<1> QED BY <1>3, <1>4

(* After is well defined: next, applied k times.  f is its table for b, up *)
(* to N steps.                                                             *)
StepsOf(f, b, N) == f = [i \in 0..N |-> IF i = 0 THEN b ELSE next[f[i - 1]]]

LEMMA StepsExist == ASSUME NEW N \in Nat, NEW b PROVE \E f : StepsOf(f, b, N)
<1> DEFINE S == {n \in 0..N : \E f : StepsOf(f, b, n)}
<1>1. 0 \in S
  <2> DEFINE g == [i \in 0..0 |-> b]
  <2>1. StepsOf(g, b, 0)
    BY DEF StepsOf
  <2> QED BY <2>1
<1>2. ASSUME NEW n \in 0..(N - 1), n \in S PROVE n + 1 \in S
  <2>1. PICK f : StepsOf(f, b, n)
    BY <1>2
  <2> DEFINE g == [i \in 0..(n + 1) |-> IF i = n + 1 THEN next[f[n]] ELSE f[i]]
  <2>2. ASSUME NEW i \in 0..(n + 1)
        PROVE  g[i] = IF i = 0 THEN b ELSE next[g[i - 1]]
    <3>1. CASE i = n + 1
      <4>1. g[i] = next[f[n]] /\ g[n] = f[n] /\ i - 1 = n
        BY <3>1
      <4> QED BY <3>1, <4>1
    <3>2. CASE i # n + 1
      <4>1. i \in 0..n /\ g[i] = f[i]
        BY <3>2
      <4>2. f[i] = IF i = 0 THEN b ELSE next[f[i - 1]]
        BY <2>1, <4>1 DEF StepsOf
      <4>3. i # 0 => g[i - 1] = f[i - 1]
        BY <3>2
      <4> QED BY <4>1, <4>2, <4>3
    <3> QED BY <3>1, <3>2
  <2>3. StepsOf(g, b, n + 1)
    BY <2>2 DEF StepsOf
  <2>4. n + 1 \in 0..N
    OBVIOUS
  <2> QED BY <2>3, <2>4
<1>3. N \in S
  <2> HIDE DEF S
  <2> QED BY <1>1, <1>2, UpTo
<1> QED BY <1>3

LEMMA AfterSteps ==
  ASSUME NEW b
  PROVE  /\ Cardinality(Block) \in Nat
         /\ After(b, 0) = b
         /\ \A k \in 1..Cardinality(Block) : After(b, k) = next[After(b, k - 1)]
<1>1. Cardinality(Block) \in Nat
  BY FS_CardinalityType, RingAssumption
<1> DEFINE N == Cardinality(Block)
           w == CHOOSE f : StepsOf(f, b, N)
<1>2. StepsOf(w, b, N)
  <2>1. \E f : StepsOf(f, b, N)
    BY <1>1, StepsExist
  <2> QED BY <2>1
<1>3. \A k : After(b, k) = w[k]
  BY DEF After, StepsOf
<1> HIDE DEF w
<1>4. ASSUME NEW k \in 0..N
      PROVE  w[k] = IF k = 0 THEN b ELSE next[w[k - 1]]
  BY <1>2 DEF StepsOf
<1>5. w[0] = b
  BY <1>1, <1>4
<1>6. ASSUME NEW k \in 1..N PROVE w[k] = next[w[k - 1]]
  BY <1>1, <1>4
<1> QED BY <1>1, <1>3, <1>5, <1>6

(***************************************************************************)
(* The ring.  A set of blocks is closed when following next does not leave *)
(* it.  The blocks that left the pool are closed, and no part of them is:  *)
(* that makes them one ring, and is easy to keep when a block is inserted. *)
(* The rest of RingInv says that whatever the code may put tailBlock back  *)
(* to is in the ring, or that there is none yet.                           *)
(***************************************************************************)
Owned     == Block \ pool
Closed(S) == \A b \in S : next[b] \in S
OneRing   == Closed(Owned) /\ \A S \in SUBSET Owned : S # {} /\ Closed(S) => S = Owned
InBulk    == ppc \in {"reuse", "allocate", "constructAll", "storeLastFront", "publishAll"}

RingInv ==
  /\ tailBlock \in Owned \cup {Null} /\ pool \subseteq Block
  /\ next \in [Block -> Block \cup {Null}]
  /\ OneRing
  /\ tailBlock = Null => pool = Block
  /\ DOMAIN start = {"tail", "used", "front"} /\ start.tail \in Owned \cup {Null}
  /\ DOMAIN bulk = {"count", "first", "tail"} /\ bulk.first \in Owned \cup {Null}
  /\ InBulk /\ bulk.first = Null => tailBlock = start.tail

LEMMA RingInit == QueueInit => RingInv
<1> SUFFICES ASSUME QueueInit PROVE RingInv
  OBVIOUS
<1> USE RingAssumption
<1>1. /\ DOMAIN start = {"tail", "used", "front"} /\ start.tail = Null
      /\ DOMAIN bulk = {"count", "first", "tail"} /\ bulk.first = Null /\ ~InBulk
  BY DEF QueueInit, MemoryInit, NoCall, NoBulk, InBulk
<1>2. CASE Fresh
  BY <1>1, <1>2 DEF Fresh, RingInv, OneRing, Closed, Owned
<1>3. CASE Passed
  <2>1. PICK b \in Block : /\ tailBlock = b /\ pool = Block \ {b}
                           /\ next = [d \in Block |-> IF d = b THEN b ELSE Null]
    BY <1>3 DEF Passed
  <2>2. Owned = {b} /\ next[b] = b /\ next \in [Block -> Block \cup {Null}]
    BY <2>1 DEF Owned
  <2>3. OneRing
    BY <2>2 DEF OneRing, Closed
  <2> QED BY <1>1, <2>1, <2>2, <2>3 DEF RingInv
<1> QED BY <1>2, <1>3 DEF QueueInit, MemoryInit

(* A block inserted after tailBlock makes the ring longer.                 *)
LEMMA InsertInRing ==
  ASSUME RingInv, NEW b \in pool, NEW flags, Insert(b, flags)
  PROVE  /\ OneRing' /\ tailBlock' = b /\ b \in Owned' /\ Owned \subseteq Owned' /\ pool' \subseteq Block
         /\ next' \in [Block -> Block \cup {Null}] /\ tailBlock' # Null
<1> USE RingAssumption
<1>1. /\ tailBlock' = b /\ pool' = pool \ {b} /\ Owned' = Owned \cup {b} /\ b \notin Owned /\ b \in Block
      /\ pool' \subseteq Block /\ Owned \subseteq Owned' /\ b \in Owned' /\ b # Null
  BY DEF Insert, Owned, RingInv
<1>2. CASE tailBlock = Null
  <2>1. Owned = {} /\ next' = [next EXCEPT ![b] = b]
    BY <1>2 DEF RingInv, Owned, Insert
  <2>2. next'[b] = b /\ next' \in [Block -> Block \cup {Null}] /\ Owned' = {b}
    BY <1>1, <2>1 DEF RingInv
  <2> QED BY <1>1, <2>2 DEF OneRing, Closed
<1>3. CASE tailBlock # Null
  <2>1. /\ tailBlock \in Owned /\ next[tailBlock] \in Owned /\ tailBlock # b
        /\ next' = [next EXCEPT ![b] = next[tailBlock], ![tailBlock] = b]
    BY <1>1, <1>3 DEF RingInv, OneRing, Closed, Insert, Ahead
  <2>2. /\ next'[b] = next[tailBlock] /\ next'[tailBlock] = b
        /\ \A d \in Owned \ {tailBlock} : next'[d] = next[d]
        /\ next' \in [Block -> Block \cup {Null}]
    BY <1>1, <2>1 DEF RingInv, Owned
  <2>3. ASSUME NEW d \in Owned' PROVE next'[d] \in Owned'
    <3>1. \A x \in Owned : next[x] \in Owned
      BY DEF RingInv, OneRing, Closed
    <3> QED BY <1>1, <2>1, <2>2, <3>1
  <2>4. ASSUME NEW S \in SUBSET Owned', S # {}, \A d \in S : next'[d] \in S
        PROVE  S = Owned'
    <3> DEFINE R == S \ {b}
    <3>1. R # {} /\ R \in SUBSET Owned
      BY <1>1, <2>1, <2>2, <2>4
    <3>2. ASSUME NEW d \in R PROVE next[d] \in R
      <4>1. d \in Owned /\ next[d] \in Owned
        BY <3>1 DEF RingInv, OneRing, Closed
      <4>2. CASE d = tailBlock
        BY <1>1, <2>1, <2>2, <2>4, <4>2
      <4>3. CASE d # tailBlock
        BY <1>1, <2>2, <2>4, <4>1, <4>3
      <4> QED BY <4>2, <4>3
    <3>3. R = Owned
      BY <3>1, <3>2 DEF RingInv, OneRing, Closed
    <3>4. b \in S
      BY <2>1, <2>2, <2>4, <3>3
    <3> QED BY <1>1, <3>3, <3>4
  <2>5. OneRing'
    BY <2>3, <2>4 DEF OneRing, Closed
  <2> QED BY <1>1, <2>2, <2>5
<1> QED BY <1>2, <1>3

(* Steps that leave the ring alone but may move to another block of it.    *)
LEMMA RingKept ==
  ASSUME RingInv, UNCHANGED <<next, pool>>,
         tailBlock' \in Owned \cup {Null}, tailBlock' = Null => pool = Block,
         DOMAIN start' = {"tail", "used", "front"}, start'.tail \in Owned \cup {Null},
         DOMAIN bulk' = {"count", "first", "tail"}, bulk'.first \in Owned \cup {Null},
         InBulk' /\ bulk'.first = Null => tailBlock' = start'.tail
  PROVE  RingInv'
BY DEF RingInv, OneRing, Closed, Owned

LEMMA UndoKeepsRing ==
  ASSUME RingInv, BulkUndo, InBulk
  PROVE  RingInv'
<1>1. /\ UNCHANGED <<next, pool>> /\ start' = NoCall /\ bulk' = NoBulk /\ ppc' = "idle"
      /\ tailBlock' = IF start.tail = Null THEN bulk.first ELSE start.tail
  BY DEF BulkUndo, Return0, Pgoto
<1>2. tailBlock' \in Owned \cup {Null}
  BY <1>1 DEF RingInv
<1>3. tailBlock' = Null => pool = Block
  BY <1>1 DEF RingInv
<1> QED BY <1>1, <1>2, <1>3, RingKept DEF NoCall, NoBulk, InBulk

LEMMA RingInvStep == ASSUME RingInv, QueueNext PROVE RingInv'
<1> USE RingAssumption
<1>1. CASE EnqueueInBlock \/ Publish \/ BulkPublish \/ (\E c \in Consumer : ConsumerStep(c))
           \/ StoreEntry \/ StoreFront \/ BulkNoReuse \/ BulkConstruct \/ BulkStoreFront \/ BulkReset
  <2>1. UNCHANGED <<next, pool, tailBlock>>
    BY <1>1 DEF EnqueueInBlock, Publish, BulkPublish, StoreEntry, StoreFront, BulkNoReuse,
                BulkConstruct, BulkStoreFront, BulkReset, ConsumerStep, ClaimStep, TakeIndex,
                LoadHeader, LoadFront, LoadBase, LoadBlock, Move, SetEmpty, ring, memory, producer
  <2>2. \/ start' = NoCall /\ bulk' = NoBulk /\ ppc' = "idle"
        \/ UNCHANGED <<start, bulk>> /\ (InBulk' => InBulk)
    BY <1>1 DEF EnqueueInBlock, Publish, BulkPublish, StoreEntry, StoreFront, BulkNoReuse,
                BulkConstruct, BulkStoreFront, BulkReset, ConsumerStep, ClaimStep, TakeIndex,
                LoadHeader, LoadFront, LoadBase, LoadBlock, Move, SetEmpty, call, memory, producer,
                Return0, Pgoto, InBulk
  <2> QED BY <2>1, <2>2, RingKept DEF RingInv, NoCall, NoBulk, InBulk
<1>2. CASE ReuseBlock \/ NeedBlock \/ GrowIndex
  <2>1. UNCHANGED <<next, pool, bulk>> /\ start' = [tail |-> tailBlock, used |-> slotsUsed, front |-> front]
        /\ ppc' \in {"construct", "requisition"}
    BY <1>2 DEF ReuseBlock, NeedBlock, GrowIndex, ring, Begin, Pgoto
  <2>2. tailBlock' = tailBlock \/ (tailBlock # Null /\ tailBlock' = next[tailBlock])
    <3>1. ReuseBlock => tailBlock # Null /\ tailBlock' = next[tailBlock]
      BY DEF ReuseBlock, CanReuse, Ahead
    <3>2. NeedBlock \/ GrowIndex => tailBlock' = tailBlock
      BY DEF NeedBlock, GrowIndex, ring
    <3> QED BY <1>2, <3>1, <3>2
  <2>3. tailBlock' \in Owned \cup {Null} /\ (tailBlock' = Null => pool = Block)
    BY <2>2 DEF RingInv, OneRing, Closed, Owned
  <2> QED BY <2>1, <2>3, RingKept DEF RingInv, InBulk
<1>3. CASE Requisition
  <2>1. ASSUME NEW b \in pool, Insert(b, {}), Pgoto("construct"), UNCHANGED <<start, bulk>>
        PROVE  RingInv'
    <3>1. /\ OneRing' /\ tailBlock' = b /\ b \in Owned' /\ Owned \subseteq Owned' /\ pool' \subseteq Block
          /\ next' \in [Block -> Block \cup {Null}] /\ tailBlock' # Null
      BY <2>1, InsertInRing
    <3> QED BY <2>1, <3>1 DEF RingInv, InBulk, Pgoto
  <2>2. CASE Return0 /\ UNCHANGED <<tailBlock, next, emptyFlags, pool, slotsUsed>>
    BY <2>2, RingKept DEF RingInv, NoCall, NoBulk, InBulk, Return0, Pgoto
  <2> QED BY <1>3, <2>1, <2>2 DEF Requisition
<1>4. CASE Construct
  <2>1. UNCHANGED <<next, pool>> /\ ppc' \in {"storeEntry", "idle"}
        /\ tailBlock' \in {tailBlock, start.tail} /\ (tailBlock' = Null => tailBlock = Null)
    BY <1>4 DEF Construct, Return0, Pgoto
  <2>2. (start' = start /\ bulk' = bulk) \/ (start' = NoCall /\ bulk' = NoBulk)
    BY <1>4, Zenon DEF Construct, Return0
  <2> QED BY <2>1, <2>2, RingKept DEF RingInv, NoCall, NoBulk, InBulk
<1>5. ASSUME NEW n \in 1..MaxBulk, StartBulk(n) PROVE RingInv'
  <2>1. /\ UNCHANGED <<next, pool, tailBlock>> /\ start' = [tail |-> tailBlock, used |-> slotsUsed, front |-> front]
        /\ \E x : bulk' = [count |-> n, first |-> Null, tail |-> x]
    BY <1>5 DEF StartBulk, ring, Begin
  <2>2. /\ DOMAIN start' = {"tail", "used", "front"} /\ start'.tail = tailBlock
        /\ DOMAIN bulk' = {"count", "first", "tail"} /\ bulk'.first = Null
    BY <2>1
  <2> QED BY <2>1, <2>2, RingKept DEF RingInv
<1>6. CASE BulkReuse
  <2>1. /\ UNCHANGED <<next, pool, start>> /\ tailBlock # Null /\ tailBlock' = next[tailBlock]
        /\ bulk' = [bulk EXCEPT !.first = IF @ = Null THEN next[tailBlock] ELSE @, !.tail = @ + BLOCK_SIZE]
    BY <1>6 DEF BulkReuse, CanReuse, Ahead, Took
  <2>2. next[tailBlock] \in Owned
    BY <2>1 DEF RingInv, OneRing, Closed
  <2>3. DOMAIN bulk' = {"count", "first", "tail"} /\ bulk'.first \in Owned
    BY <2>1, <2>2 DEF RingInv
  <2> QED BY <2>1, <2>2, <2>3, RingKept DEF RingInv, Owned
<1>7. CASE BulkGrow
  <2>1. UNCHANGED <<next, pool, tailBlock, bulk, ppc>> /\ start' = [start EXCEPT !.front = start.used]
    BY <1>7 DEF BulkGrow, ring
  <2> QED BY <2>1, RingKept DEF RingInv, InBulk
<1>8. CASE BulkRequisition
  <2>1. PICK b \in pool : Insert(b, Slots) /\ Took(b)
    BY <1>8 DEF BulkRequisition
  <2>2. UNCHANGED start
    BY <1>8 DEF BulkRequisition
  <2>3. /\ OneRing' /\ tailBlock' = b /\ b \in Owned' /\ Owned \subseteq Owned' /\ pool' \subseteq Block
        /\ next' \in [Block -> Block \cup {Null}] /\ tailBlock' # Null
    BY <2>1, InsertInRing
  <2>4. DOMAIN bulk' = {"count", "first", "tail"} /\ bulk'.first \in Owned'
    <3>1. bulk' = [bulk EXCEPT !.first = IF @ = Null THEN b ELSE @, !.tail = @ + BLOCK_SIZE]
      BY <2>1 DEF Took
    <3>2. bulk.first \in Owned \cup {Null} /\ DOMAIN bulk = {"count", "first", "tail"}
      BY DEF RingInv
    <3>3. DOMAIN bulk' = {"count", "first", "tail"} /\ bulk'.first = IF bulk.first = Null THEN b ELSE bulk.first
      BY <3>1, <3>2
    <3> QED BY <2>3, <3>2, <3>3
  <2>5. bulk'.first # Null
    BY <2>4 DEF Owned
  <2> QED BY <2>2, <2>3, <2>4, <2>5 DEF RingInv
<1>9. CASE BulkFail \/ BulkThrow
  BY <1>9, UndoKeepsRing DEF BulkFail, BulkThrow, InBulk
<1> QED
  BY <1>1, <1>2, <1>3, <1>4, <1>5, <1>6, <1>7, <1>8, <1>9 DEF QueueNext, ProducerStep

(* A walk of as many steps as there are blocks comes back to where it      *)
(* started, and passes each block: where it meets a block for the second   *)
(* time, those in between are closed, so they are all there are.           *)
LEMMA WalkMeetsAll == RingInv => RingWhole
<1> SUFFICES ASSUME RingInv, tailBlock # Null PROVE RingWhole
  BY DEF RingInv, RingWhole
<1> DEFINE N == Cardinality(Owned)
           a == [k \in 0..N |-> After(tailBlock, k)]
<1>1. IsFiniteSet(Owned) /\ N \in Nat /\ Cardinality(Block) \in Nat /\ N <= Cardinality(Block)
  BY RingAssumption, FS_Subset, FS_CardinalityType DEF Owned
<1>2. a[0] = tailBlock /\ tailBlock \in Owned
  BY <1>1, AfterSteps DEF RingInv
<1>3. ASSUME NEW k \in 1..N PROVE a[k] = next[a[k - 1]]
  <2>1. k \in 1..Cardinality(Block) /\ k \in 0..N /\ k - 1 \in 0..N
    BY <1>1
  <2>2. After(tailBlock, k) = next[After(tailBlock, k - 1)]
    BY <2>1, AfterSteps
  <2> QED BY <2>1, <2>2
<1> HIDE DEF a
<1>4. ASSUME NEW k \in 0..N PROVE a[k] \in Owned
  <2> DEFINE S == {j \in 0..k : a[j] \in Owned}
  <2>1. 0 \in S
    BY <1>1, <1>2
  <2>2. ASSUME NEW j \in 0..(k - 1), j \in S PROVE j + 1 \in S
    <3>1. j + 1 \in 1..N /\ a[j] \in Owned /\ j + 1 \in 0..k
      BY <1>1, <2>2
    <3>2. a[j + 1] = next[a[j]]
      <4>1. a[j + 1] = next[a[(j + 1) - 1]]
        BY <3>1, <1>3
      <4> QED BY <4>1
    <3> QED BY <3>1, <3>2 DEF RingInv, OneRing, Closed
  <2>3. k \in Nat
    BY <1>1
  <2>4. k \in S
    <3> HIDE DEF S
    <3> QED BY <2>1, <2>2, <2>3, UpTo
  <2> QED BY <2>4
<1>5. PICK x \in 0..N : \E y \in 0..N : x # y /\ a[x] = a[y]
  <2>1. IsFiniteSet(0..N) /\ Cardinality(0..N) = N + 1
    BY <1>1, FS_Interval
  <2>2. a \in [0..N -> Owned]
    BY <1>4 DEF a
  <2>3. Cardinality(Owned) < Cardinality(0..N)
    BY <1>1, <2>1
  <2> QED BY ONLY <1>1, <2>1, <2>2, <2>3, FS_PigeonHole
<1>6. \E i, j \in 0..N : i < j /\ a[i] = a[j]
  BY <1>1, <1>5
<1>7. PICK i \in 0..N : \E j \in 0..N : i < j /\ a[i] = a[j]
  BY <1>6
<1>8. PICK j \in 0..N : i < j /\ a[i] = a[j]
  BY <1>7
<1> DEFINE I == i..(j - 1)
           S == {a[k] : k \in I}
           f == [k \in I |-> a[k]]
<1>9. I \subseteq 0..N /\ i \in I
  BY <1>1, <1>8
<1>10. S \in SUBSET Owned /\ S # {}
  BY <1>4, <1>9
<1>11. Closed(S)
  <2> SUFFICES ASSUME NEW k \in I PROVE next[a[k]] \in S
    BY DEF Closed
  <2>1. k + 1 \in 1..N /\ (k + 1) - 1 = k
    BY <1>1, <1>8
  <2>2. next[a[k]] = a[k + 1]
    BY <2>1, <1>3
  <2>3. CASE k + 1 = j
    BY <1>8, <1>9, <2>2, <2>3
  <2>4. CASE k + 1 # j
    BY <1>1, <1>8, <2>2, <2>4
  <2> QED BY <2>3, <2>4
<1>12. S = Owned
  BY <1>10, <1>11 DEF RingInv, OneRing
<1>13. IsFiniteSet(I) /\ Cardinality(I) = j - i
  <2>1. i \in Int /\ j - 1 \in Int /\ i <= j - 1 /\ (j - 1) - i + 1 = j - i
    BY <1>1, <1>8
  <2>2. /\ IsFiniteSet(i..(j - 1))
        /\ Cardinality(i..(j - 1)) = IF i > j - 1 THEN 0 ELSE (j - 1) - i + 1
    BY ONLY <2>1, FS_Interval
  <2> QED BY <2>1, <2>2
<1>14. Cardinality(S) <= Cardinality(I)
  <2>1. f \in Surjection(I, S)
    BY DEF Surjection
  <2> HIDE DEF f, S, I
  <2> QED BY ONLY <1>13, <2>1, FS_Surjection
<1>15. i = 0 /\ j = N
  <2>1. N <= j - i
    BY <1>12, <1>13, <1>14
  <2> QED BY ONLY <1>1, <1>8, <2>1
<1>16. {After(tailBlock, k) : k \in 0..(N - 1)} = Owned
  <2>1. \A k \in 0..(N - 1) : a[k] = After(tailBlock, k)
    BY <1>1 DEF a
  <2>2. S = {a[k] : k \in 0..(N - 1)}
    BY <1>15
  <2> QED BY <1>12, <2>1, <2>2
<1>17. After(tailBlock, N) = tailBlock
  BY <1>1, <1>2, <1>8, <1>15 DEF a
<1> QED BY <1>16, <1>17 DEF RingWhole, Owned

LEMMA RingHolds == QueueSpec => []RingInv
<1>1. RingInv /\ [QueueNext]_allVars => RingInv'
  <2>1. RingInv /\ QueueNext => RingInv'
    BY RingInvStep
  <2>2. RingInv /\ UNCHANGED allVars => RingInv'
    BY DEF allVars, memory, ring, call, RingInv, OneRing, Closed, Owned, InBulk
  <2> QED BY <2>1, <2>2
<1> QED BY RingInit, <1>1, PTL DEF QueueSpec

(* concurrentqueue.h:1752: whatever enqueues and bulks have failed half-way*)
(* and where they left tailBlock, the destructor's walk from tailBlock     *)
(* along next meets every block that left the pool exactly once, and comes *)
(* back to tailBlock.                                                      *)
THEOREM RingIsWhole == QueueSpec => []RingWhole
BY RingHolds, WalkMeetsAll, PTL

-----------------------------------------------------------------------------
(* Arithmetic.  Blocks are numbered without bound, from 0 on (those of the *)
(* elements that had passed before, below 0); block k holds the elements   *)
(* from First(k) on, and Key(k) is its key in the index.                   *)
First(k) == BLOCK_SIZE * k
Key(k)   == Wrap(past + First(k))
Keys     == IndexMod \div BLOCK_SIZE

PastOK   == past \in Nat /\ past % BLOCK_SIZE = 0

LEMMA Products == PastOK =>
  /\ Keys \in Nat /\ Keys > 0 /\ IndexMod = BLOCK_SIZE * Keys
  /\ Used \in Nat /\ past = BLOCK_SIZE * Used
<1> SUFFICES ASSUME PastOK
             PROVE  /\ Keys \in Nat /\ Keys > 0 /\ IndexMod = BLOCK_SIZE * Keys
                    /\ Used \in Nat /\ past = BLOCK_SIZE * Used
  OBVIOUS
<1>1. /\ BLOCK_SIZE \in Nat /\ BLOCK_SIZE > 1 /\ IndexMod \in Nat /\ IndexMod > 0
      /\ IndexMod % BLOCK_SIZE = 0 /\ past \in Nat /\ past % BLOCK_SIZE = 0
  BY SizeAssumption DEF PastOK
<1>2. Keys \in Int /\ IndexMod = BLOCK_SIZE * Keys
  BY <1>1, Division DEF Keys
<1>3. Used \in Int /\ past = BLOCK_SIZE * Used
  BY <1>1, Division DEF Used
<1>4. Keys > 0
  BY <1>1, <1>2
<1>5. Used >= 0
  BY <1>1, <1>3
<1> QED BY <1>1, <1>2, <1>3, <1>4, <1>5

LEMMA Sizes ==
  /\ BLOCK_SIZE \in Nat /\ BLOCK_SIZE > 1 /\ IndexMod \in Nat /\ IndexMod > 0
  /\ Keys \in Nat /\ Keys > 0 /\ IndexMod = BLOCK_SIZE * Keys
  /\ PastOK => past \in Nat /\ Used \in Nat /\ past = BLOCK_SIZE * Used
<1>1. /\ BLOCK_SIZE \in Nat /\ BLOCK_SIZE > 1 /\ IndexMod \in Nat /\ IndexMod > 0
      /\ IndexMod % BLOCK_SIZE = 0
  BY SizeAssumption
<1>2. Keys \in Int /\ IndexMod = BLOCK_SIZE * Keys
  BY <1>1, Division DEF Keys
<1>3. Keys > 0
  BY <1>1, <1>2
<1>4. PastOK => past \in Nat /\ Used \in Nat /\ past = BLOCK_SIZE * Used
  BY Products DEF PastOK
<1> QED BY <1>1, <1>2, <1>3, <1>4

(* Blocks follow one another.                                              *)
LEMMA FirstType == First(0) = 0 /\ \A k \in Int : First(k) \in Int
BY Sizes DEF First

LEMMA FirstNext == \A k \in Int : First(k + 1) = First(k) + BLOCK_SIZE
BY Sizes DEF First

LEMMA FirstOrder == \A j, k \in Int : j < k => First(j) + BLOCK_SIZE <= First(k)
<1>1. ASSUME NEW b \in Nat, NEW j \in Int, NEW k \in Int, j < k PROVE b * j + b <= b * k
  BY <1>1
<1> QED BY <1>1, Sizes DEF First

LEMMA BlockNoFacts ==
  /\ \A n \in Int : /\ BlockNo(n) \in Int
                    /\ First(BlockNo(n)) <= n /\ n < First(BlockNo(n)) + BLOCK_SIZE
  /\ \A n, k \in Int : First(k) <= n /\ n < First(k) + BLOCK_SIZE => BlockNo(n) = k
  /\ \A n \in Nat : BlockNo(n) \in Nat
  /\ \A m, n \in Int : m <= n => BlockNo(m) <= BlockNo(n)
<1>1. \A n \in Int : /\ BlockNo(n) \in Int
                     /\ First(BlockNo(n)) <= n /\ n < First(BlockNo(n)) + BLOCK_SIZE
  BY Sizes, Division DEF BlockNo, First
<1>2. ASSUME NEW m \in Int, NEW n \in Int, m <= n PROVE BlockNo(m) <= BlockNo(n)
  <2>1. CASE BlockNo(n) < BlockNo(m)
    <3>1. First(BlockNo(n)) + BLOCK_SIZE <= First(BlockNo(m))
      BY <1>1, <2>1, FirstOrder
    <3>2. First(BlockNo(n)) \in Int /\ First(BlockNo(m)) \in Int /\ BLOCK_SIZE \in Int
      BY <1>1, FirstType, Sizes
    <3>3. n < First(BlockNo(n)) + BLOCK_SIZE /\ First(BlockNo(m)) <= m
      BY <1>1
    <3> QED BY <1>2, <3>1, <3>2, <3>3
  <2> QED BY <1>1, <2>1
<1>3. ASSUME NEW n \in Int, NEW k \in Int, First(k) <= n, n < First(k) + BLOCK_SIZE
      PROVE  BlockNo(n) = k
  <2>1. /\ First(BlockNo(n)) \in Int /\ First(k) \in Int /\ BLOCK_SIZE \in Int
        /\ BlockNo(n) \in Int
    BY <1>1, FirstType, Sizes
  <2>2. First(BlockNo(n)) <= n /\ n < First(BlockNo(n)) + BLOCK_SIZE
    BY <1>1
  <2>3. ~(BlockNo(n) < k)
    <3>1. BlockNo(n) < k => First(BlockNo(n)) + BLOCK_SIZE <= First(k)
      BY <1>3, <2>1, FirstOrder
    <3> QED BY <1>3, <2>1, <2>2, <3>1
  <2>4. ~(k < BlockNo(n))
    <3>1. k < BlockNo(n) => First(k) + BLOCK_SIZE <= First(BlockNo(n))
      BY <1>3, <2>1, FirstOrder
    <3> QED BY <1>3, <2>1, <2>2, <3>1
  <2> QED BY <2>1, <2>3, <2>4
<1>4. BlockNo(0) = 0
  <2>1. First(0) <= 0 /\ 0 < First(0) + BLOCK_SIZE
    BY FirstType, Sizes
  <2> QED BY <2>1, <1>3
<1>5. ASSUME NEW n \in Nat PROVE BlockNo(n) \in Nat
  BY <1>1, <1>2, <1>4
<1> QED BY <1>1, <1>2, <1>3, <1>5

(* The slot of an element is its place in its block.                       *)
LEMMA SlotFacts == ASSUME PastOK PROVE
  \A n \in Int : /\ Idx(n) \in 0..(IndexMod - 1)
                 /\ Slot(Idx(n)) = n - First(BlockNo(n))
                 /\ Slot(Idx(n)) \in 0..(BLOCK_SIZE - 1)
<1> SUFFICES ASSUME NEW n \in Int
             PROVE  /\ Idx(n) \in 0..(IndexMod - 1)
                    /\ Slot(Idx(n)) = n - First(BlockNo(n))
                    /\ Slot(Idx(n)) \in 0..(BLOCK_SIZE - 1)
  OBVIOUS
<1> DEFINE i == Idx(n)
           s == n - First(BlockNo(n))
<1>0. BLOCK_SIZE \in Nat /\ BLOCK_SIZE > 0 /\ IndexMod \in Nat /\ IndexMod > 0 /\ Used \in Nat
  BY Sizes
<1>1. past + n \in Int /\ i = (past + n) % IndexMod
  BY Sizes DEF Idx, Wrap
<1>2. i \in 0..(IndexMod - 1) /\ Congruent(IndexMod, past + n, i)
  BY <1>0, <1>1, CongruentSelf
<1>3. IndexMod % BLOCK_SIZE = 0
  BY SizeAssumption
<1>4. s \in 0..(BLOCK_SIZE - 1)
  <2>1. First(BlockNo(n)) \in Int /\ First(BlockNo(n)) <= n /\ n < First(BlockNo(n)) + BLOCK_SIZE
    BY BlockNoFacts, FirstType
  <2> QED BY <1>0, <2>1
<1>5. Congruent(BLOCK_SIZE, past + n, s)
  <2>1. past + n = s + BLOCK_SIZE * (Used + BlockNo(n)) /\ Used + BlockNo(n) \in Int
    <3>1. BlockNo(n) \in Int
      BY BlockNoFacts
    <3> QED BY <1>0, <3>1, Products DEF First
  <2> QED BY <2>1 DEF Congruent
<1> HIDE DEF i, s
<1>6. Congruent(BLOCK_SIZE, past + n, i)
  BY <1>0, <1>1, <1>2, <1>3, CongruentWithin
<1>7. Congruent(BLOCK_SIZE, i, s)
  <2>1. i \in Int /\ s \in Int /\ past + n \in Int
    BY <1>1, <1>2, <1>4
  <2>2. Congruent(BLOCK_SIZE, i, past + n)
    BY <1>0, <1>6, <2>1, CongruentSymmetric
  <2> QED BY <1>0, <1>5, <2>1, <2>2, CongruentTransitive
<1>8. i % BLOCK_SIZE = s
  <2>1. i \in Int /\ BLOCK_SIZE \in Nat /\ BLOCK_SIZE > 0
    BY <1>0, <1>2
  <2> QED BY ONLY <1>4, <1>7, <2>1, CongruentTo
<1> QED BY <1>2, <1>4, <1>8 DEF Slot, i, s

(* The key of a block, from the index of any of its elements.              *)
KeyNo(k) == (Used + k) % Keys

LEMMA KeyNoFacts == ASSUME PastOK PROVE
  \A k \in Int : /\ KeyNo(k) \in 0..(Keys - 1) /\ Congruent(Keys, Used + k, KeyNo(k))
                 /\ Key(k) = BLOCK_SIZE * KeyNo(k) /\ Key(k) \in 0..(IndexMod - 1)
<1> SUFFICES ASSUME NEW k \in Int
             PROVE  /\ KeyNo(k) \in 0..(Keys - 1) /\ Congruent(Keys, Used + k, KeyNo(k))
                    /\ Key(k) = BLOCK_SIZE * KeyNo(k) /\ Key(k) \in 0..(IndexMod - 1)
  OBVIOUS
<1> DEFINE r == KeyNo(k)
<1>0. /\ BLOCK_SIZE \in Nat /\ BLOCK_SIZE > 1 /\ Keys \in Nat /\ Keys > 0
      /\ IndexMod \in Nat /\ IndexMod > 0
      /\ IndexMod = BLOCK_SIZE * Keys /\ Used \in Nat /\ past = BLOCK_SIZE * Used
  BY Sizes, Products
<1>1. r \in 0..(Keys - 1) /\ Congruent(Keys, Used + k, r)
  <2>1. Used + k \in Int /\ Keys \in Nat /\ Keys > 0
    BY <1>0
  <2> QED BY ONLY <2>1, CongruentSelf DEF KeyNo
<1> HIDE DEF r
<1>2. PICK q \in Int : Used + k = r + Keys * q
  BY <1>1 DEF Congruent
<1>3. BLOCK_SIZE * r \in 0..(IndexMod - 1)
  <2>1. ASSUME NEW b \in Nat, NEW m \in Nat, NEW i \in 0..(m - 1)
        PROVE  b * i + b <= b * m /\ b * i \in Nat
    BY <2>1
  <2>2. BLOCK_SIZE * r + BLOCK_SIZE <= BLOCK_SIZE * Keys /\ BLOCK_SIZE * r \in Nat
    BY <1>0, <1>1, <2>1
  <2> QED BY <1>0, <2>2
<1>4. past + First(k) = BLOCK_SIZE * r + IndexMod * q
  <2>1. past + First(k) = BLOCK_SIZE * (Used + k)
    BY <1>0 DEF First
  <2>2. BLOCK_SIZE * (r + Keys * q) = BLOCK_SIZE * r + BLOCK_SIZE * (Keys * q)
    BY <1>0, <1>1, <1>2
  <2>3. BLOCK_SIZE * (Keys * q) = IndexMod * q
    BY <1>0, <1>2
  <2> QED BY <1>2, <2>1, <2>2, <2>3
<1>5. Congruent(IndexMod, past + First(k), BLOCK_SIZE * r)
  BY <1>2, <1>4 DEF Congruent
<1>6. past + First(k) \in Int
  BY <1>0, FirstType
<1>7. (past + First(k)) % IndexMod = BLOCK_SIZE * r
  BY <1>0, <1>3, <1>5, <1>6, CongruentTo
<1> QED BY <1>1, <1>3, <1>7 DEF r, Key, Wrap

LEMMA KeyFacts == ASSUME PastOK PROVE
  /\ \A k \in Int : /\ Key(k) \in 0..(IndexMod - 1)
                    /\ Key(k) = Idx(First(k))
  /\ \A n \in Int : BlockBase(Idx(n)) = Key(BlockNo(n))
  /\ \A j, k \in Int : /\ Offset(Key(j), Key(k)) \in Nat
                       /\ Congruent(Keys, Offset(Key(j), Key(k)), j - k)
  /\ \A j, k \in Int : Key(j) = Key(k) => Congruent(Keys, j, k)
<1>0. /\ BLOCK_SIZE \in Nat /\ BLOCK_SIZE > 1 /\ Keys \in Nat /\ Keys > 0
      /\ IndexMod \in Nat /\ IndexMod > 0
      /\ IndexMod = BLOCK_SIZE * Keys /\ Used \in Nat /\ past = BLOCK_SIZE * Used
  BY Sizes, Products
<1>1. ASSUME NEW k \in Int
      PROVE  /\ Key(k) \in 0..(IndexMod - 1)
             /\ Key(k) = Idx(First(k))
  BY KeyNoFacts DEF Key, Idx
<1>2. ASSUME NEW n \in Int
      PROVE  BlockBase(Idx(n)) = Key(BlockNo(n))
  <2> DEFINE k == BlockNo(n)
             s == n - First(k)
             r == KeyNo(k)
  <2>1. k \in Int /\ s \in 0..(BLOCK_SIZE - 1) /\ Slot(Idx(n)) = s
    BY SlotFacts, BlockNoFacts
  <2>2. r \in 0..(Keys - 1) /\ Key(k) = BLOCK_SIZE * r /\ Key(k) \in 0..(IndexMod - 1)
    BY <2>1, KeyNoFacts
  <2>3. Key(k) = Wrap(past + First(k)) /\ past + First(k) \in Int
    BY <1>0, <2>1, FirstType DEF Key
  <2>4. Idx(n) = Wrap(past + n) /\ past + n = (past + First(k)) + s
    BY <1>0, <2>1, FirstType DEF Idx
  <2> DEFINE x == past + First(k)
  <2>5. x \in Int /\ Key(k) = x % IndexMod /\ Idx(n) = (x + s) % IndexMod
    BY <2>3, <2>4 DEF Wrap
  <2> HIDE DEF k, s, r, x
  <2>6. Key(k) + s \in 0..(IndexMod - 1)
    <3>1. ASSUME NEW b \in Nat, NEW m \in Nat, NEW i \in 0..(m - 1)
          PROVE  b * i + b <= b * m /\ b * i \in Nat
      BY <3>1
    <3>2. BLOCK_SIZE * r + BLOCK_SIZE <= IndexMod
      BY <1>0, <2>2, <3>1
    <3> QED BY <1>0, <2>1, <2>2, <3>2
  <2>7. Congruent(IndexMod, x + s, Key(k) + s)
    <3>1. Congruent(IndexMod, x, Key(k))
      BY <1>0, <2>5, CongruentSelf
    <3>2. s \in Int /\ x \in Int /\ Key(k) \in Int /\ IndexMod \in Nat /\ IndexMod > 0
      BY <1>0, <2>1, <2>2, <2>5
    <3> QED BY ONLY <3>1, <3>2, CongruentShift
  <2>8. Idx(n) = Key(k) + s
    BY <1>0, <2>1, <2>5, <2>6, <2>7, CongruentTo
  <2>9. BlockBase(Idx(n)) = Key(k)
    BY <1>0, <2>1, <2>2, <2>8 DEF BlockBase
  <2> QED BY <2>9 DEF k
<1>3. ASSUME NEW j \in Int, NEW k \in Int
      PROVE  Offset(Key(j), Key(k)) \in Nat /\ Congruent(Keys, Offset(Key(j), Key(k)), j - k)
  <2> DEFINE a == KeyNo(j)
             c == KeyNo(k)
             d == IF a >= c THEN a - c ELSE a - c + Keys
  <2>1. /\ a \in 0..(Keys - 1) /\ c \in 0..(Keys - 1)
        /\ Key(j) = BLOCK_SIZE * a /\ Key(k) = BLOCK_SIZE * c
        /\ Congruent(Keys, Used + j, a) /\ Congruent(Keys, Used + k, c)
    BY KeyNoFacts
  <2> HIDE DEF a, c
  <2>2. d \in 0..(Keys - 1)
    BY <1>0, <2>1
  <2>3. Congruent(Keys, d, j - k)
    <3>1. PICK p \in Int : Used + j = a + Keys * p
      BY <2>1 DEF Congruent
    <3>2. PICK q \in Int : Used + k = c + Keys * q
      BY <2>1 DEF Congruent
    <3>3. a - c = (j - k) + Keys * (q - p) /\ q - p \in Int
      BY <1>0, <2>1, <3>1, <3>2
    <3>4. Congruent(Keys, a - c, j - k)
      BY <3>3 DEF Congruent
    <3>5. Congruent(Keys, (a - c) + Keys, a - c)
      BY <1>0, <2>1, CongruentNext
    <3>6. Congruent(Keys, (a - c) + Keys, j - k)
      <4>1. a - c \in Int /\ (a - c) + Keys \in Int /\ j - k \in Int
        BY <1>0, <2>1
      <4> QED BY <1>0, <3>4, <3>5, <4>1, CongruentTransitive
    <3> QED BY <3>4, <3>6
  <2>4. Key(j) - Key(k) = BLOCK_SIZE * (a - c) /\ BLOCK_SIZE * d \in Int
    BY <1>0, <2>1, <2>2
  <2>5. Congruent(IndexMod, Key(j) - Key(k), BLOCK_SIZE * d)
    <3>1. CASE a >= c
      <4>1. Key(j) - Key(k) = BLOCK_SIZE * d + IndexMod * 0
        BY <1>0, <2>4, <3>1
      <4> QED BY <4>1 DEF Congruent
    <3>2. CASE ~(a >= c)
      <4>1. d = a - c + Keys
        BY <3>2
      <4>2. BLOCK_SIZE * d = BLOCK_SIZE * (a - c) + BLOCK_SIZE * Keys
        BY <1>0, <2>1, <4>1
      <4>3. Key(j) - Key(k) = BLOCK_SIZE * d - IndexMod
        <5>1. BLOCK_SIZE * (a - c) \in Int /\ IndexMod \in Int /\ IndexMod = BLOCK_SIZE * Keys
          BY <1>0, <2>1
        <5>2. BLOCK_SIZE * d = BLOCK_SIZE * (a - c) + IndexMod
          BY <4>2, <5>1
        <5> HIDE DEF d
        <5> QED BY <2>4, <5>1, <5>2
      <4>4. Key(j) - Key(k) = BLOCK_SIZE * d + IndexMod * (-1)
        BY <1>0, <2>4, <4>3
      <4> QED BY <4>4 DEF Congruent
    <3> QED BY <3>1, <3>2
  <2>6. BLOCK_SIZE * d \in 0..(IndexMod - 1)
    <3>1. ASSUME NEW b \in Nat, NEW m \in Nat, NEW i \in 0..(m - 1)
          PROVE  b * i + b <= b * m /\ b * i \in Nat
      BY <3>1
    <3>2. BLOCK_SIZE * d + BLOCK_SIZE <= IndexMod /\ BLOCK_SIZE * d \in Nat
      BY <1>0, <2>2, <3>1
    <3> QED BY <1>0, <3>2
  <2>7. (Key(j) - Key(k)) % IndexMod = BLOCK_SIZE * d
    <3>1. Key(j) - Key(k) \in Int
      BY <1>1
    <3> QED BY <1>0, <2>5, <2>6, <3>1, CongruentTo
  <2> HIDE DEF d
  <2>8. (BLOCK_SIZE * d) \div BLOCK_SIZE = d
    <3>1. ASSUME NEW b \in Nat, b > 0, NEW x \in Int PROVE (b * x) \div b = x
      BY <3>1
    <3> QED BY <1>0, <2>2, <3>1
  <2>9. Offset(Key(j), Key(k)) = d
    BY <2>7, <2>8 DEF Offset
  <2> QED BY <1>0, <2>2, <2>3, <2>9
<1>4. ASSUME NEW j \in Int, NEW k \in Int, Key(j) = Key(k)
      PROVE  Congruent(Keys, j, k)
  <2>1. ASSUME NEW b \in Nat, b > 0, NEW x \in Int, NEW y \in Int, b * x = b * y PROVE x = y
    BY <2>1
  <2>2. KeyNo(j) = KeyNo(k)
    <3>1. /\ KeyNo(j) \in Int /\ KeyNo(k) \in Int
          /\ BLOCK_SIZE * KeyNo(j) = BLOCK_SIZE * KeyNo(k)
      BY <1>0, <1>4, KeyNoFacts
    <3> QED BY <1>0, <2>1, <3>1
  <2>3. Congruent(Keys, Used + j, Used + k)
    BY <1>0, <2>2, Congruence DEF KeyNo
  <2>4. Congruent(Keys, (Used + j) - Used, (Used + k) - Used)
    <3>1. Used + j \in Int /\ Used + k \in Int /\ Used \in Int /\ Keys \in Nat /\ Keys > 0
      BY <1>0
    <3> QED BY ONLY <2>3, <3>1, CongruentShift
  <2>5. (Used + j) - Used = j /\ (Used + k) - Used = k
    BY <1>0
  <2> QED BY <2>4, <2>5
<1> QED BY <1>1, <1>2, <1>3, <1>4

(* The distance from a block to another by their keys is the one by their  *)
(* numbers, in any index whose capacity divides the number of keys.        *)
LEMMA RingOffset ==
  ASSUME PastOK, NEW c \in Nat, c > 0, Keys % c = 0, NEW o \in Int, NEW a \in Int, NEW k \in Int
  PROVE  (Ring(o, c, a) + Offset(Key(k), Key(a))) % c = Ring(o, c, k)
<1> DEFINE r == Ring(o, c, a)
           f == Offset(Key(k), Key(a))
<1>1. r \in Int /\ Congruent(c, a - o, r) /\ f \in Int
  <2>1. r \in Int
    BY RingType
  <2>2. Congruent(c, a - o, r)
    BY RingType
  <2>3. f \in Int
    BY KeyFacts
  <2> QED BY <2>1, <2>2, <2>3
<1>2. Congruent(c, f, k - a)
  <2>1. Congruent(Keys, f, k - a) /\ k - a \in Int
    BY KeyFacts
  <2> HIDE DEF f
  <2> QED BY <1>1, <2>1, Sizes, CongruentWithin
<1> HIDE DEF r, f
<1>3. Congruent(c, r + f, r + (k - a))
  <2>1. k - a \in Int
    OBVIOUS
  <2> QED BY <1>1, <1>2, <2>1, CongruentShift
<1>4. Congruent(c, r + (k - a), (a - o) + (k - a))
  <2>1. k - a \in Int /\ a - o \in Int
    OBVIOUS
  <2>2. Congruent(c, r, a - o)
    BY <1>1, <2>1, CongruentSymmetric
  <2> QED BY <1>1, <2>1, <2>2, CongruentShift
<1>5. Congruent(c, r + f, k - o)
  <2>1. (a - o) + (k - a) = k - o /\ r + f \in Int /\ r + (k - a) \in Int /\ k - o \in Int
    BY <1>1
  <2> QED BY <1>3, <1>4, <2>1, CongruentTransitive
<1>6. (r + f) % c = Ring(o, c, k)
  <2>1. r + f \in Int
    BY <1>1
  <2> QED BY <1>5, <2>1, RingIs
<1> QED BY <1>6 DEF r, f

(* What the ticket protocol gives: a claim is for one element at least,    *)
(* and for published ones.                                                 *)
CountsPositive == \A c \in Consumer : pc[c] # "idle" => count[c] > 0
Claims == TypeOK /\ HeadWithinTail /\ CountsPositive

LEMMA PositiveStep ==
  ASSUME TypeOK, CountsPositive, [Next]_vars
  PROVE  CountsPositive'
<1>1. ASSUME NEW n \in 1..MaxTail, Enqueue(n) PROVE CountsPositive'
  BY <1>1 DEF Enqueue, CountsPositive, claim
<1>2. ASSUME NEW c \in Consumer, Draw(c) PROVE CountsPositive'
  <2>1. PICK n \in 1..MaxAtOnce : count' = [count EXCEPT ![c] = n]
    BY <1>2 DEF Draw
  <2>2. n > 0
    BY BoundAssumption
  <2>3. pc' = [pc EXCEPT ![c] = "check"]
    BY <1>2 DEF Draw, Goto
  <2> QED BY <2>1, <2>2, <2>3 DEF CountsPositive, TypeOK
<1>3. ASSUME NEW c \in Consumer, Return(c) PROVE CountsPositive'
  BY <1>3 DEF Return, Goto, CountsPositive, TypeOK
<1>4. ASSUME NEW c \in Consumer, TakeAll(c) \/ TakeRest(c) PROVE CountsPositive'
  BY <1>3, <1>4 DEF TakeAll, TakeRest, Grant
<1>5. ASSUME NEW c \in Consumer, GiveBack(c) PROVE CountsPositive'
  <2>1. PICK actual \in {Positive(LeftFor(c, tail)) : tail \in 0..tailIndex} :
          IF actual = 0 THEN Return(c)
          ELSE Goto(c, "take") /\ count' = [count EXCEPT ![c] = actual]
    BY <1>5 DEF GiveBack
  <2>2. CASE actual = 0
    BY <1>3, <2>1, <2>2
  <2>3. CASE actual # 0
    <3>1. PICK tail \in 0..tailIndex : actual = Positive(LeftFor(c, tail))
      OBVIOUS
    <3>2. actual > 0
      BY <2>3, <3>1 DEF Positive, LeftFor, TypeOK
    <3> QED BY <2>1, <2>3, <3>2 DEF Goto, CountsPositive, TypeOK
  <2> QED BY <2>2, <2>3
<1>6. CASE UNCHANGED vars
  BY <1>6 DEF vars, claim, CountsPositive
<1> QED BY <1>1, <1>2, <1>4, <1>5, <1>6 DEF Next

LEMMA ClaimsHold == QueueSpec => []Claims
<1>1. Init => CountsPositive
  BY DEF Init, CountsPositive
<1>2. TypeOK /\ CountsPositive /\ [Next]_vars => CountsPositive'
  BY PositiveStep
<1>3. Spec => []CountsPositive
  BY <1>1, <1>2, TypeCorrect, PTL DEF Spec
<1> QED BY <1>3, UsesTickets, TypeCorrect, HeadNeverPassesTail, PTL DEF Claims

(* The block index.  Capacity[g] is the capacity of the g-th array, and o, *)
(* which the proofs carry along, tells which block each began with.        *)
Doubling(f) ==
  /\ f \in [1..MaxHeaders -> 1..Keys] /\ f[1] = InitialIndexSize
  /\ \A h \in 2..MaxHeaders : f[h] = 2 * f[h - 1]
  /\ \A h \in 1..MaxHeaders : Keys % f[h] = 0
Capacity == CHOOSE f : Doubling(f)

LEMMA CapacityFacts ==
  /\ Capacity[1] = InitialIndexSize /\ 1 \in 1..MaxHeaders /\ MaxHeaders \in Nat
  /\ \A h \in 1..MaxHeaders : /\ Capacity[h] \in Nat /\ Capacity[h] > 0 /\ Keys % Capacity[h] = 0
                              /\ h + 1 \in 1..MaxHeaders => Capacity[h + 1] = 2 * Capacity[h]
<1>1. \E f : Doubling(f)
  BY CapacityAssumption DEF Doubling, Keys
<1>2. Doubling(Capacity)
  BY <1>1 DEF Capacity
<1>3. MaxHeaders \in Nat /\ MaxHeaders > 0
  BY RingAssumption
<1>4. ASSUME NEW h \in 1..MaxHeaders
      PROVE  /\ Capacity[h] \in Nat /\ Capacity[h] > 0 /\ Keys % Capacity[h] = 0
             /\ h + 1 \in 1..MaxHeaders => Capacity[h + 1] = 2 * Capacity[h]
  <2>1. Capacity[h] \in 1..Keys /\ Keys % Capacity[h] = 0
    BY <1>2 DEF Doubling
  <2>2. ASSUME h + 1 \in 1..MaxHeaders PROVE Capacity[h + 1] = 2 * Capacity[h]
    <3>1. h + 1 \in 2..MaxHeaders /\ (h + 1) - 1 = h
      BY <1>3, <2>2
    <3> QED BY <1>2, <3>1 DEF Doubling
  <2> QED BY <2>1, <2>2, Sizes
<1> QED BY <1>2, <1>3, <1>4 DEF Doubling

(***************************************************************************)
(* The invariant of the memory, while an enqueue_bulk fails only before it *)
(* has taken a block.  home[k] is the block of memory in which block k of  *)
(* the queue is or was, lo the oldest one that has not been used again,    *)
(* and dead are the blocks that stay in the ring without use, because the  *)
(* constructor of their first element threw.                               *)
(***************************************************************************)
Newest == Len(headers)
Cur    == BlockNo(tailIndex - 1)

(* The last block in the index, and the last one taken for the queue.      *)
InHand  == ppc \in {"construct", "storeEntry"}
Written == IF InBulk THEN BlockNo(bulk.tail)
           ELSE IF ppc \in {"storeFront", "publish"} THEN Cur + 1 ELSE Cur
Top     == IF InHand THEN Cur + 1 ELSE Written

(* How many entries count, and the block that front stands for.            *)
Window  == IF ppc \in {"requisition", "construct", "storeEntry"} THEN start.used ELSE slotsUsed
AtFront == IF ppc = "storeFront" THEN Written ELSE Written + 1

Filled    == {"constructAll", "storeLastFront", "publishAll"}
Enqueuing == {"requisition", "construct", "storeEntry", "storeFront", "publish"}
Started   == [tail : Block \cup {Null}, used : Nat, front : Nat]
Bulk      == [count : Nat, first : Block \cup {Null}, tail : Int]

ProducerOK ==
  /\ tailIndex \in 0..MaxTail /\ slotsUsed \in Nat /\ front \in Nat
  /\ ppc \in {"idle", "reuse", "allocate"} \cup Enqueuing \cup Filled
  /\ start \in Started /\ bulk \in Bulk
  /\ ~InBulk => bulk = NoBulk
  /\ ppc \in Enqueuing => Slot(Idx(tailIndex)) = 0 /\ tailIndex < MaxTail
  /\ ppc \in {"requisition", "construct", "storeEntry", "storeFront"} => Newest > 0
  /\ ppc = "requisition" => start.tail = tailBlock /\ start.used = slotsUsed /\ HasRoom
  /\ InHand => slotsUsed \in {start.used, start.used + 1}
  /\ InBulk =>
       /\ bulk.count > 0 /\ tailIndex + bulk.count <= MaxTail
       /\ bulk.tail = First(Written) /\ Cur <= Written /\ Written <= LastBlockNo
       /\ start.used <= slotsUsed
       /\ bulk.first = Null <=> Written = Cur
       /\ bulk.first = Null => start.tail = tailBlock /\ start.used = slotsUsed /\ start.front = front
       /\ ppc \in Filled => Written = LastBlockNo
       /\ ppc = "storeLastFront" => bulk.first # Null
  /\ tailIndex > 0 => /\ slotsUsed > 0
                      /\ (ppc # "idle" => start.used > 0)

Arrays == UNION {[0..(n - 1) -> [base : 0..(IndexMod - 1), block : Block \cup {Null}]] : n \in Nat}
Header == [size : Nat, front : Int, entries : Arrays]

HeadersType(o) ==
  /\ headers \in Seq(Header) /\ Newest \in 0..MaxHeaders
  /\ o \in [1..Newest -> Int]
  /\ \A g \in 1..Newest :
       /\ headers[g].size = Capacity[g] /\ headers[g].front \in -1..(Capacity[g] - 1)
       /\ headers[g].entries \in
            [0..(Capacity[g] - 1) -> [base : 0..(IndexMod - 1), block : Block \cup {Null}]]

Entry(o, g, k) == headers[g].entries[Ring(o[g], Capacity[g], k)]
AlignedAt(o, g, p) == \E a \in Int : p = Ring(o[g], Capacity[g], a) /\ headers[g].entries[p].base = Key(a)

IndexOK(o, lo, home) ==
  /\ HeadersType(o)
  /\ Newest = 0 => slotsUsed = 0 /\ front = 0 /\ tailIndex = 0
  /\ Newest > 0 => slotsUsed <= size /\ front = Ring(o[Newest], size, AtFront)
  /\ Written - Window < lo /\ (InHand => Written - slotsUsed + 1 < lo)
  /\ \A k \in Int : Written - Window < k /\ k <= Written => Entry(o, Newest, k).base = Key(k)
  /\ \A k \in Int : lo <= k /\ k <= Written => Entry(o, Newest, k).block = home[k]
  /\ \A g \in 1..Newest : headers[g].front # -1 => AlignedAt(o, g, headers[g].front)
  /\ Newest > 0 /\ headers[Newest].front = -1 => tailIndex = 0 /\ ppc \notin {"publish", "publishAll"}

RingOK(lo, home, dead) ==
  /\ lo \in Int /\ lo <= Cur + 1
  /\ home \in [Int -> Block \cup {Null}]
  /\ \A k \in lo..Top : home[k] \in Owned \ dead
  /\ \A j, k \in lo..Top : home[j] = home[k] => j = k
  /\ \A k \in lo..(Top - 1) : next[home[k]] = home[k + 1]
  /\ dead \subseteq Owned
  /\ IF lo <= Top THEN tailBlock = home[Top] ELSE tailBlock \in dead \cup {Null}
  /\ tailBlock # Null =>
       next[tailBlock] \in dead \/ (lo <= Top /\ next[tailBlock] = home[lo])
  /\ InHand => IF lo <= Cur THEN start.tail = home[Cur]
               ELSE start.tail # Null =>
                      start.tail \in dead \cup {tailBlock} /\ next[start.tail] = tailBlock
  /\ InBulk => (lo <= Cur => start.tail = home[Cur])
               /\ (bulk.first # Null => bulk.first = home[Cur + 1])

(* Where the consumers are.                                                *)
FirstBlock(c) == BlockNo(index[c])
LastBlock(c)  == BlockNo(end[c] - 1)
Labels == {"none", "header", "front", "base", "block", "move", "setEmpty"}

ConsumersOK ==
  /\ at \in [Consumer -> Labels] /\ index \in [Consumer -> Nat] /\ end \in [Consumer -> Nat]
  /\ hdr \in [Consumer -> Nat] /\ ipos \in [Consumer -> Int]
  /\ block \in [Consumer -> Block \cup {Null}]
  /\ thrown \in [Consumer -> BOOLEAN] /\ DOMAIN item = Consumer
  /\ \A c \in Consumer : at[c] # "none" => index[c] < end[c] /\ end[c] <= headIndex
  /\ \A c, d \in Consumer : c # d /\ at[c] # "none" /\ at[d] # "none" =>
                              end[c] <= index[d] \/ end[d] <= index[c]

(* The elements dequeued whose flag is set.                                *)
Uncounted(c, n) == at[c] # "none" /\ index[c] <= n /\ n < end[c]
DoneSet == {n \in Int : n < headIndex /\ \A c \in Consumer : ~Uncounted(c, n)}

FlagsOK(lo, home, dead) ==
  /\ emptyFlags \in [Block -> SUBSET Slots]
  /\ \A n \in Int : n < First(lo) => n \in DoneSet
  /\ \A k \in Int : lo <= k /\ k <= Cur =>
       emptyFlags[home[k]] = {i \in Slots : First(k) + i \in DoneSet}
  /\ \A k \in Int : Cur < k /\ k <= Top =>
       emptyFlags[home[k]] = IF ppc \in {"reuse", "allocate"} THEN Slots ELSE {}
  /\ \A b \in dead : emptyFlags[b] = {}

WalkAt(o, home, c) ==
  /\ at[c] \notin {"none", "header"} =>
       /\ hdr[c] \in 1..Newest
       /\ \A k \in Int : FirstBlock(c) <= k /\ k <= LastBlock(c) => Entry(o, hdr[c], k).block = home[k]
  /\ at[c] = "front" => headers[hdr[c]].front # -1
  /\ at[c] = "base" => AlignedAt(o, hdr[c], ipos[c])
  /\ at[c] \in {"block", "move", "setEmpty"} =>
       ipos[c] = Ring(o[hdr[c]], Capacity[hdr[c]], FirstBlock(c))
  /\ at[c] \in {"move", "setEmpty"} => block[c] = home[FirstBlock(c)]
WalksOK(o, home) == \A c \in Consumer : WalkAt(o, home, c)

MemoryInv(o, lo, home, dead) ==
  /\ PastOK /\ ProducerOK /\ IndexOK(o, lo, home) /\ RingOK(lo, home, dead) /\ ConsumersOK
  /\ FlagsOK(lo, home, dead) /\ WalksOK(o, home)

(* What is in the slots.                                                   *)
Made == tailIndex + (IF ppc \in {"storeEntry", "storeFront", "publish"} THEN 1
                     ELSE IF ppc \in {"storeLastFront", "publishAll"} THEN bulk.count ELSE 0)
Unmoved(c, n) == at[c] # "none" /\ Unfetched(c) <= n /\ n < end[c]
Present == {n \in Nat : n < Made /\ (headIndex <= n \/ \E c \in Consumer : Unmoved(c, n))}
SlotsOK(home) ==
  /\ slots \in [Block -> [Slots -> Nat]]
  /\ \A b \in Block, i \in Slots, n \in Nat :
       slots[b][i] = n + 1 <=> n \in Present /\ home[BlockNo(n)] = b /\ Slot(Idx(n)) = i

-----------------------------------------------------------------------------
(* The end of the queue lies in block Cur or, at a boundary, right after.  *)
LEMMA CurFacts ==
  ASSUME PastOK, tailIndex \in Nat
  PROVE  /\ Cur \in Int /\ Cur >= -1 /\ tailIndex <= First(Cur + 1) /\ First(Cur) < tailIndex
         /\ First(Cur) \in Int /\ First(Cur + 1) \in Int /\ First(Cur + 1) = First(Cur) + BLOCK_SIZE
         /\ Slot(Idx(tailIndex)) \in Slots
         /\ Slot(Idx(tailIndex)) = 0 => tailIndex = First(Cur + 1) /\ BlockNo(tailIndex) = Cur + 1
         /\ Slot(Idx(tailIndex)) # 0 => BlockNo(tailIndex) = Cur /\ tailIndex > 0
         /\ tailIndex > 0 => Cur \in Nat
<1> DEFINE n == tailIndex
<1>1. /\ Cur \in Int /\ First(Cur) <= n - 1 /\ n - 1 < First(Cur) + BLOCK_SIZE
      /\ BlockNo(n) \in Int /\ First(BlockNo(n)) <= n /\ n < First(BlockNo(n)) + BLOCK_SIZE
      /\ n \in Int /\ n - 1 \in Int
  BY BlockNoFacts DEF Cur
<1>2. /\ First(Cur) \in Int /\ First(Cur + 1) = First(Cur) + BLOCK_SIZE /\ First(BlockNo(n)) \in Int
      /\ BLOCK_SIZE \in Nat /\ BLOCK_SIZE > 1 /\ First(0) = 0
  BY <1>1, FirstType, FirstNext, Sizes
<1>3. Cur >= -1
  <2>1. Cur < -1 => First(Cur) + BLOCK_SIZE <= First(-1)
    BY <1>1, FirstOrder
  <2>2. First(-1) + BLOCK_SIZE = 0 /\ First(-1) \in Int
    <3>1. First(-1 + 1) = First(-1) + BLOCK_SIZE
      BY FirstNext
    <3> QED BY <1>2, <3>1, FirstType
  <2>3. n >= 0
    OBVIOUS
  <2> HIDE DEF n
  <2> QED BY <1>1, <1>2, <2>1, <2>2, <2>3
<1>4. Slot(Idx(n)) = n - First(BlockNo(n)) /\ Slot(Idx(n)) \in Slots
  BY <1>1, SlotFacts DEF Slots
<1>5. First(BlockNo(n)) = n => n = First(Cur + 1) /\ BlockNo(n) = Cur + 1
  <2> SUFFICES ASSUME First(BlockNo(n)) = n PROVE BlockNo(n) = Cur + 1
    BY <1>2
  <2>1. First(BlockNo(n) - 1) + BLOCK_SIZE = First(BlockNo(n))
    <3>1. BlockNo(n) - 1 \in Int /\ (BlockNo(n) - 1) + 1 = BlockNo(n)
      BY <1>1
    <3> QED BY <3>1, FirstNext
  <2>2. First(BlockNo(n) - 1) \in Int /\ BlockNo(n) - 1 \in Int
    BY <1>1, FirstType
  <2>3. First(BlockNo(n) - 1) <= n - 1 /\ n - 1 < First(BlockNo(n) - 1) + BLOCK_SIZE
    BY <1>1, <1>2, <2>1, <2>2
  <2>4. BlockNo(n - 1) = BlockNo(n) - 1
    BY <1>1, <2>2, <2>3, BlockNoFacts
  <2> QED BY <1>1, <2>4 DEF Cur
<1>6. First(BlockNo(n)) # n => BlockNo(n) = Cur /\ n > 0
  <2> SUFFICES ASSUME First(BlockNo(n)) # n PROVE BlockNo(n) = Cur /\ n > 0
    OBVIOUS
  <2>1. First(BlockNo(n)) <= n - 1 /\ n - 1 < First(BlockNo(n)) + BLOCK_SIZE
    BY <1>1, <1>2
  <2>2. BlockNo(n - 1) = BlockNo(n)
    BY <1>1, <2>1, BlockNoFacts
  <2>3. n # 0
    <3>1. First(0) <= 0 /\ 0 < First(0) + BLOCK_SIZE
      BY <1>2
    <3>2. BlockNo(0) = 0
      BY <3>1, BlockNoFacts
    <3> QED BY <1>2, <3>2
  <2> QED BY <2>2, <2>3 DEF Cur
<1>7. n > 0 => Cur \in Nat
  BY BlockNoFacts DEF Cur
<1> HIDE DEF n
<1>8. n <= First(Cur) + BLOCK_SIZE /\ First(Cur) < n
  BY <1>1, <1>2
<1>9. Slot(Idx(n)) = 0 <=> First(BlockNo(n)) = n
  BY <1>1, <1>2, <1>4
<1> QED BY <1>1, <1>2, <1>3, <1>4, <1>5, <1>6, <1>7, <1>8, <1>9 DEF n

-----------------------------------------------------------------------------
(* The arrays of the block index.                                          *)
EntryRecord == [base : 0..(IndexMod - 1), block : Block \cup {Null}]

LEMMA SizeFacts ==
  ASSUME NEW o, HeadersType(o)
  PROVE  /\ Newest \in Nat /\ MaxHeaders \in Nat
         /\ \A g \in 1..Newest : /\ Capacity[g] \in Nat /\ Capacity[g] > 0 /\ Keys % Capacity[g] = 0
                                 /\ o[g] \in Int /\ g \in 1..MaxHeaders
         /\ Newest > 0 => /\ size = Capacity[Newest] /\ size \in Nat /\ size > 0 /\ Newest \in 1..Newest
                          /\ headers # <<>> /\ blockIndex = headers[Newest]
         /\ Newest = 0 <=> headers = <<>>
         /\ Newest < MaxHeaders => Capacity[Newest + 1] = 2 * size
         /\ size \in Nat /\ size > 0
<1>1. Newest \in 0..MaxHeaders /\ MaxHeaders \in Nat /\ MaxHeaders > 0
  BY RingAssumption DEF HeadersType
<1>2. \A g \in 1..Newest : /\ Capacity[g] \in Nat /\ Capacity[g] > 0 /\ Keys % Capacity[g] = 0
                           /\ o[g] \in Int /\ g \in 1..MaxHeaders
  BY <1>1, CapacityFacts DEF HeadersType
<1>3. Newest = 0 <=> headers = <<>>
  BY DEF HeadersType, Newest
<1>4. Newest > 0 => /\ size = Capacity[Newest] /\ Newest \in 1..Newest
                    /\ headers # <<>> /\ blockIndex = headers[Newest]
  BY <1>1, <1>3 DEF HeadersType, size, blockIndex, Newest
<1>5. Newest = 0 => size > 0 /\ size \in Nat /\ Capacity[1] = 2 * size
  <2>1. InitialIndexSize \in Nat /\ InitialIndexSize > 0 /\ InitialIndexSize % 2 = 0
    BY RingAssumption
  <2>2. InitialIndexSize \div 2 \in Int /\ InitialIndexSize = 2 * (InitialIndexSize \div 2)
    BY <2>1
  <2>3. Newest = 0 => size = InitialIndexSize \div 2
    BY <1>3 DEF size
  <2> QED BY <2>1, <2>2, <2>3, CapacityFacts
<1>6. ASSUME Newest < MaxHeaders, Newest > 0 PROVE Capacity[Newest + 1] = 2 * size
  <2>1. Newest \in 1..MaxHeaders /\ Newest + 1 \in 1..MaxHeaders
    BY <1>1, <1>6
  <2> QED BY <1>4, <1>6, <2>1, CapacityFacts
<1>7. Newest > 0 => size \in Nat /\ size > 0
  BY <1>1, <1>2, <1>4
<1>8. Newest < MaxHeaders => Capacity[Newest + 1] = 2 * size
  BY <1>1, <1>5, <1>6
<1> QED BY <1>1, <1>2, <1>3, <1>4, <1>5, <1>7, <1>8

(* A header of the right type.                                             *)
HeaderOK(g, h) ==
  /\ h \in Header /\ h.size = Capacity[g] /\ h.front \in -1..(Capacity[g] - 1)
  /\ h.entries \in [0..(Capacity[g] - 1) -> EntryRecord]

LEMMA HeadersAre ==
  ASSUME NEW o
  PROVE  HeadersType(o) <=> /\ headers \in Seq(Header) /\ Newest \in 0..MaxHeaders
                            /\ o \in [1..Newest -> Int]
                            /\ \A g \in 1..Newest : HeaderOK(g, headers[g])
<1>1. headers \in Seq(Header) => \A g \in 1..Newest : headers[g] \in Header
  BY DEF Newest
<1> QED BY <1>1 DEF HeadersType, HeaderOK, EntryRecord

(* The newest header is replaced by h.                                     *)
LEMMA SetHeader ==
  ASSUME NEW o, HeadersType(o), Newest > 0, NEW h, HeaderOK(Newest, h),
         headers' = [headers EXCEPT ![Newest] = h]
  PROVE  /\ HeadersType(o)' /\ Newest' = Newest /\ size' = size /\ headers'[Newest] = h
         /\ \A g \in 1..Newest : g # Newest => headers'[g] = headers[g]
<1>1. headers \in Seq(Header) /\ Newest \in 0..MaxHeaders /\ Newest \in Nat /\ o \in [1..Newest -> Int]
      /\ \A g \in 1..Newest : HeaderOK(g, headers[g])
  BY HeadersAre, SizeFacts
<1>2. h \in Header /\ Newest \in 1..Len(headers)
  BY <1>1 DEF HeaderOK, Newest
<1>3. headers' \in Seq(Header) /\ Len(headers') = Len(headers)
  BY <1>1, <1>2
<1>4. headers'[Newest] = h /\ \A g \in 1..Newest : g # Newest => headers'[g] = headers[g]
  BY <1>1, <1>2 DEF Newest
<1>5. Newest' = Newest
  BY <1>3 DEF Newest
<1>6. \A g \in 1..Newest : HeaderOK(g, headers'[g])
  BY <1>1, <1>4
<1>7. HeadersType(o)'
  <2>1. \A g \in 1..Newest' : HeaderOK(g, headers'[g])
    BY <1>5, <1>6
  <2>2. headers' \in Seq(Header) /\ Newest' \in 0..MaxHeaders /\ o \in [1..Newest' -> Int]
    BY <1>1, <1>3, <1>5
  <2>3. \A g \in 1..Newest' : headers'[g].size = Capacity[g] /\ headers'[g].front \in -1..(Capacity[g] - 1)
                              /\ headers'[g].entries \in [0..(Capacity[g] - 1) -> EntryRecord]
    BY <2>1 DEF HeaderOK
  <2> QED BY <2>2, <2>3 DEF HeadersType, EntryRecord
<1>8. size' = size
  <2>1. headers # <<>> /\ headers' # <<>> /\ blockIndex' = headers'[Newest] /\ blockIndex = headers[Newest]
    BY <1>1, <1>3, <1>5, SizeFacts DEF blockIndex, Newest
  <2>2. headers'[Newest].size = headers[Newest].size
    BY <1>1, <1>4 DEF HeaderOK
  <2> QED BY <2>1, <2>2 DEF size
<1> QED BY <1>4, <1>5, <1>7, <1>8

LEMMA HeaderAt ==
  ASSUME NEW o, HeadersType(o), NEW g \in 1..Newest
  PROVE  /\ headers[g].size = Capacity[g] /\ headers[g].front \in -1..(Capacity[g] - 1)
         /\ headers[g].entries \in [0..(Capacity[g] - 1) -> EntryRecord]
         /\ headers[g] = [size |-> Capacity[g], front |-> headers[g].front, entries |-> headers[g].entries]
         /\ HeaderOK(g, headers[g])
<1>1. HeaderOK(g, headers[g])
  BY HeadersAre
<1>2. headers[g] \in [size : Nat, front : Int, entries : Arrays]
  BY <1>1 DEF HeaderOK, Header
<1> QED BY <1>1, <1>2 DEF HeaderOK

LEMMA HeaderIs ==
  ASSUME NEW o, HeadersType(o), NEW g \in 1..Newest, NEW f \in -1..(Capacity[g] - 1),
         NEW e \in [0..(Capacity[g] - 1) -> EntryRecord]
  PROVE  HeaderOK(g, [size |-> Capacity[g], front |-> f, entries |-> e])
<1>1. Capacity[g] \in Nat
  BY SizeFacts
<1>2. e \in Arrays
  BY <1>1 DEF Arrays, EntryRecord
<1> QED BY <1>1, <1>2 DEF HeaderOK, Header

(* Storing an entry, and storing front.                                    *)
LEMMA SetEntryFacts ==
  ASSUME PastOK, NEW o, HeadersType(o), Newest > 0, front \in 0..(size - 1), NEW n \in Int,
         NEW b \in Block \cup {Null}, SetEntry(n, b)
  PROVE  /\ HeadersType(o)' /\ Newest' = Newest /\ size' = size
         /\ \A g \in 1..Newest : headers'[g].front = headers[g].front
         /\ \A g \in 1..Newest : g # Newest => headers'[g] = headers[g]
         /\ headers'[Newest].entries[front] = [base |-> Idx(n), block |-> b]
         /\ \A p \in 0..(size - 1) : p # front => headers'[Newest].entries[p] = headers[Newest].entries[p]
<1> DEFINE e == [headers[Newest].entries EXCEPT ![front] = [base |-> Idx(n), block |-> b]]
           h == [size |-> Capacity[Newest], front |-> headers[Newest].front, entries |-> e]
<1>1. size = Capacity[Newest] /\ Newest \in 1..Newest
  BY SizeFacts
<1>2. /\ headers[Newest].front \in -1..(Capacity[Newest] - 1)
      /\ headers[Newest].entries \in [0..(Capacity[Newest] - 1) -> EntryRecord]
      /\ headers[Newest] = [size |-> Capacity[Newest], front |-> headers[Newest].front,
                            entries |-> headers[Newest].entries]
  BY <1>1, HeaderAt
<1>3. Idx(n) \in 0..(IndexMod - 1)
  BY SlotFacts
<1>4. e \in [0..(Capacity[Newest] - 1) -> EntryRecord]
  BY <1>1, <1>2, <1>3 DEF EntryRecord
<1>5. HeaderOK(Newest, h)
  BY <1>1, <1>2, <1>4, HeaderIs
<1>6. headers' = [headers EXCEPT ![Newest] = h]
  <2>1. headers \in Seq(Header) /\ Newest \in 1..Len(headers)
    BY <1>1 DEF HeadersType, Newest
  <2>2. headers' = [headers EXCEPT ![Newest] = [headers[Newest] EXCEPT !.entries = e]]
    BY <2>1 DEF SetEntry, Newest
  <2>3. [headers[Newest] EXCEPT !.entries = e] = h
    BY <1>2
  <2> QED BY <2>2, <2>3
<1>7. h.front = headers[Newest].front /\ h.entries = e
  OBVIOUS
<1> HIDE DEF h
<1>8. /\ HeadersType(o)' /\ Newest' = Newest /\ size' = size /\ headers'[Newest] = h
      /\ \A g \in 1..Newest : g # Newest => headers'[g] = headers[g]
  BY <1>5, <1>6, SetHeader
<1>9. /\ e[front] = [base |-> Idx(n), block |-> b]
      /\ \A p \in 0..(size - 1) : p # front => e[p] = headers[Newest].entries[p]
  BY <1>1, <1>2
<1> HIDE DEF e
<1> QED BY <1>7, <1>8, <1>9

LEMMA SetFrontFacts ==
  ASSUME NEW o, HeadersType(o), Newest > 0, NEW f \in 0..(size - 1),
         headers' = [headers EXCEPT ![Len(headers)].front = f]
  PROVE  /\ HeadersType(o)' /\ Newest' = Newest /\ size' = size
         /\ \A g \in 1..Newest : headers'[g].entries = headers[g].entries
         /\ \A g \in 1..Newest : g # Newest => headers'[g] = headers[g]
         /\ headers'[Newest].front = f
<1> DEFINE h == [size |-> Capacity[Newest], front |-> f, entries |-> headers[Newest].entries]
<1>1. size = Capacity[Newest] /\ Newest \in 1..Newest
  BY SizeFacts
<1>2. /\ headers[Newest].entries \in [0..(Capacity[Newest] - 1) -> EntryRecord]
      /\ headers[Newest] = [size |-> Capacity[Newest], front |-> headers[Newest].front,
                            entries |-> headers[Newest].entries]
  BY <1>1, HeaderAt
<1>3. HeaderOK(Newest, h)
  <2>1. f \in -1..(Capacity[Newest] - 1)
    BY <1>1, SizeFacts
  <2> QED BY <1>1, <1>2, <2>1, HeaderIs
<1>4. headers' = [headers EXCEPT ![Newest] = h]
  <2>1. headers \in Seq(Header) /\ Newest \in 1..Len(headers)
    BY <1>1 DEF HeadersType, Newest
  <2>2. headers' = [headers EXCEPT ![Newest] = [headers[Newest] EXCEPT !.front = f]]
    BY <2>1 DEF Newest
  <2>3. [headers[Newest] EXCEPT !.front = f] = h
    BY <1>2
  <2> QED BY <2>2, <2>3
<1>5. h.front = f /\ h.entries = headers[Newest].entries
  OBVIOUS
<1> HIDE DEF h
<1>6. /\ HeadersType(o)' /\ Newest' = Newest /\ size' = size /\ headers'[Newest] = h
      /\ \A g \in 1..Newest : g # Newest => headers'[g] = headers[g]
  BY <1>3, <1>4, SetHeader
<1> QED BY <1>5, <1>6

(* A larger array: block w + 1 - slotsUsed is at its start.                *)
Grown(o, w) == [g \in 1..(Newest + 1) |-> IF g = Newest + 1 THEN w + 1 - slotsUsed ELSE o[g]]

LEMMA GrowFacts ==
  ASSUME NEW o, HeadersType(o), slotsUsed \in Nat, slotsUsed <= size, NEW w \in Int,
         Newest = 0 => slotsUsed = 0, Newest > 0 => front = Ring(o[Newest], size, w + 1),
         NEW x \in 0..slotsUsed, Grow(x), NEW q, q = Grown(o, w)
  PROVE  /\ HeadersType(q)' /\ Newest' = Newest + 1 /\ size' = 2 * size
         /\ headers' # <<>> /\ slotsUsed < size'
         /\ \A g \in 1..Newest : headers'[g] = headers[g] /\ q[g] = o[g]
         /\ headers'[Newest + 1].front = x - 1
         /\ q[Newest + 1] = w + 1 - slotsUsed
         /\ \A k \in Int : w - slotsUsed < k /\ k <= w =>
              /\ Ring(w + 1 - slotsUsed, size', k) = k - (w + 1 - slotsUsed)
              /\ headers'[Newest + 1].entries[k - (w + 1 - slotsUsed)]
                   = headers[Newest].entries[Ring(o[Newest], size, k)]
         /\ front' = Ring(w + 1 - slotsUsed, size', w + 1)
<1> DEFINE e == [i \in 0..(2 * size - 1) |->
                       IF i < slotsUsed THEN blockIndex.entries[(front - slotsUsed + i) % size]
                       ELSE [base |-> 0, block |-> Null]]
           h == [size |-> 2 * size, front |-> x - 1, entries |-> e]
           s == w + 1 - slotsUsed
<1>1. /\ headers' = Append(headers, h) /\ front' = slotsUsed /\ Newest < MaxHeaders
      /\ headers = <<>> \/ slotsUsed >= size
  <2>1. size \in Nat
    BY SizeFacts
  <2> QED BY <2>1 DEF Grow, HasRoom, Newest
<1>2. /\ Newest \in Nat /\ size \in Nat /\ size > 0 /\ MaxHeaders \in Nat
      /\ Newest > 0 => size = Capacity[Newest] /\ blockIndex = headers[Newest] /\ Newest \in 1..Newest
      /\ Capacity[Newest + 1] = 2 * size /\ Newest + 1 \in 1..MaxHeaders
      /\ headers \in Seq(Header) /\ o \in [1..Newest -> Int]
      /\ Newest = 0 <=> headers = <<>>
  <2>1. Newest \in Nat /\ MaxHeaders \in Nat /\ headers \in Seq(Header) /\ o \in [1..Newest -> Int]
    BY SizeFacts DEF HeadersType
  <2>2. Newest + 1 \in 1..MaxHeaders
    BY <1>1, <2>1
  <2> QED BY <1>1, <2>1, <2>2, SizeFacts
<1>3. ASSUME NEW i \in 0..(slotsUsed - 1)
      PROVE  /\ Newest > 0 /\ (front - slotsUsed + i) % size = Ring(o[Newest], size, s + i)
             /\ blockIndex.entries[(front - slotsUsed + i) % size]
                  = headers[Newest].entries[Ring(o[Newest], size, s + i)]
             /\ headers[Newest].entries[Ring(o[Newest], size, s + i)] \in EntryRecord
  <2>1. Newest > 0 /\ o[Newest] \in Int /\ s \in Int /\ s + i \in Int
    BY <1>2
  <2>2. Congruent(size, (w + 1) - o[Newest], front) /\ front \in Int
    <3>1. w + 1 \in Int
      OBVIOUS
    <3>2. /\ Congruent(size, (w + 1) - o[Newest], Ring(o[Newest], size, w + 1))
          /\ Ring(o[Newest], size, w + 1) \in Int
      BY <1>2, <2>1, <3>1, RingType
    <3> QED BY <2>1, <3>2
  <2>3. Congruent(size, front, (w + 1) - o[Newest])
    <3>1. (w + 1) - o[Newest] \in Int
      BY <2>1
    <3> QED BY <1>2, <2>2, <3>1, CongruentSymmetric
  <2>4. Congruent(size, front + (i - slotsUsed), ((w + 1) - o[Newest]) + (i - slotsUsed))
    <3>1. (w + 1) - o[Newest] \in Int /\ i - slotsUsed \in Int
      BY <2>1
    <3> QED BY <1>2, <2>2, <2>3, <3>1, CongruentShift
  <2>5. Congruent(size, front - slotsUsed + i, (s + i) - o[Newest])
    <3>1. front + (i - slotsUsed) = front - slotsUsed + i
      BY <2>2
    <3>2. ((w + 1) - o[Newest]) + (i - slotsUsed) = (s + i) - o[Newest]
      BY <2>1
    <3> QED BY <2>4, <3>1, <3>2
  <2>6. (front - slotsUsed + i) % size = Ring(o[Newest], size, s + i)
    <3>1. front - slotsUsed + i \in Int
      BY <2>2
    <3> HIDE DEF s
    <3> QED BY <1>2, <2>1, <2>5, <3>1, RingIs
  <2>7. Ring(o[Newest], size, s + i) \in 0..(size - 1)
    <3> HIDE DEF s
    <3> QED BY <1>2, <2>1, RingType
  <2>8. headers[Newest].entries \in [0..(size - 1) -> EntryRecord]
    BY <1>2, <2>1, HeaderAt
  <2> HIDE DEF s
  <2> QED BY <1>2, <2>1, <2>6, <2>7, <2>8
<1>4. HeaderOK(Newest + 1, h)
  <2>1. e \in [0..(Capacity[Newest + 1] - 1) -> EntryRecord]
    <3> SUFFICES ASSUME NEW i \in 0..(2 * size - 1) PROVE e[i] \in EntryRecord
      BY <1>2
    <3>1. CASE i < slotsUsed
      BY <1>3, <3>1
    <3>2. CASE ~(i < slotsUsed)
      <4>1. 0 \in 0..(IndexMod - 1)
        BY SizeAssumption
      <4> QED BY <3>2, <4>1 DEF EntryRecord
    <3> QED BY <3>1, <3>2
  <2>2. x - 1 \in -1..(Capacity[Newest + 1] - 1)
    BY <1>2
  <2>3. 2 * size \in Nat /\ e \in Arrays
    <3>1. 2 * size \in Nat
      BY <1>2
    <3>2. e \in [0..(2 * size - 1) -> [base : 0..(IndexMod - 1), block : Block \cup {Null}]]
      BY <1>2, <2>1 DEF EntryRecord
    <3> HIDE DEF e
    <3> QED BY <3>1, <3>2 DEF Arrays
  <2> HIDE DEF e
  <2> QED BY <1>2, <2>1, <2>2, <2>3 DEF HeaderOK, Header
<1>5. /\ headers' \in Seq(Header) /\ Newest' = Newest + 1 /\ headers'[Newest + 1] = h
      /\ \A g \in 1..Newest : headers'[g] = headers[g]
  <2>1. h \in Header
    BY <1>4 DEF HeaderOK
  <2> HIDE DEF h
  <2> QED BY <1>1, <1>2, <2>1 DEF Newest
<1>6. q \in [1..(Newest + 1) -> Int] /\ q[Newest + 1] = s /\ \A g \in 1..Newest : q[g] = o[g]
  BY <1>2 DEF Grown
<1> HIDE DEF e
<1>7. HeadersType(q)'
  <2>1. \A g \in 1..Newest : HeaderOK(g, headers[g])
    BY HeadersAre
  <2>2. \A g \in 1..(Newest + 1) : HeaderOK(g, headers'[g])
    <3> HIDE DEF h
    <3>1. \A g \in 1..(Newest + 1) : g = Newest + 1 \/ g \in 1..Newest
      BY <1>2
    <3> QED BY <1>4, <1>5, <2>1, <3>1
  <2>3. headers' \in Seq(Header) /\ Newest' \in 0..MaxHeaders /\ q \in [1..Newest' -> Int]
    BY <1>2, <1>5, <1>6
  <2>4. \A g \in 1..Newest' : headers'[g].size = Capacity[g] /\ headers'[g].front \in -1..(Capacity[g] - 1)
                              /\ headers'[g].entries \in [0..(Capacity[g] - 1) -> EntryRecord]
    <3> SUFFICES ASSUME NEW g \in 1..Newest'
                 PROVE  headers'[g].size = Capacity[g] /\ headers'[g].front \in -1..(Capacity[g] - 1)
                        /\ headers'[g].entries \in [0..(Capacity[g] - 1) -> EntryRecord]
      OBVIOUS
    <3>1. HeaderOK(g, headers'[g])
      BY <1>5, <2>2
    <3> QED BY <3>1 DEF HeaderOK
  <2> QED BY <2>3, <2>4 DEF HeadersType, EntryRecord
<1>8. size' = 2 * size /\ headers' # <<>>
  <2>1. headers' # <<>> /\ blockIndex' = h
    BY <1>1, <1>2, <1>5 DEF blockIndex, Newest
  <2> QED BY <2>1 DEF size
<1>9. ASSUME NEW k \in Int, w - slotsUsed < k, k <= w
      PROVE  /\ Ring(s, 2 * size, k) = k - s
             /\ h.entries[k - s] = headers[Newest].entries[Ring(o[Newest], size, k)]
  <2>1. k - s \in 0..(slotsUsed - 1) /\ k - s \in 0..(2 * size - 1) /\ s + (k - s) = k /\ s \in Int
        /\ 2 * size \in Nat /\ 2 * size > 0
    BY <1>2, <1>9
  <2>2. Ring(s, 2 * size, s + (k - s)) = k - s
    <3> HIDE DEF s
    <3> QED BY <2>1, RingStart
  <2>3. e[k - s] = blockIndex.entries[(front - slotsUsed + (k - s)) % size]
    BY <2>1 DEF e
  <2>4. blockIndex.entries[(front - slotsUsed + (k - s)) % size]
          = headers[Newest].entries[Ring(o[Newest], size, s + (k - s))]
    <3> HIDE DEF s
    <3> QED BY <1>3, <2>1
  <2> QED BY <2>1, <2>2, <2>3, <2>4
<1>10. Ring(s, 2 * size, w + 1) = slotsUsed
  <2>1. 2 * size \in Nat /\ 2 * size > 0 /\ s \in Int /\ slotsUsed \in 0..(2 * size - 1) /\ s + slotsUsed = w + 1
    BY <1>2
  <2> HIDE DEF s
  <2> QED BY <2>1, RingStart
<1>11. slotsUsed < 2 * size
  BY <1>2
<1>12. h.front = x - 1 /\ h.size = 2 * size
  OBVIOUS
<1> HIDE DEF h
<1> QED BY <1>1, <1>5, <1>6, <1>7, <1>8, <1>9, <1>10, <1>11, <1>12

-----------------------------------------------------------------------------
(* What the producer's locals stand for, action by action.                 *)
LEMMA BulkBlock == \A k \in Int : BlockNo(First(k)) = k
<1> SUFFICES ASSUME NEW k \in Int PROVE BlockNo(First(k)) = k
  OBVIOUS
<1>1. First(k) \in Int /\ First(k) < First(k) + BLOCK_SIZE
  BY FirstType, Sizes
<1> QED BY <1>1, BlockNoFacts

(* Steps that change the place of the producer, at most.                   *)
LEMMA ShapeKept ==
  ASSUME ProducerOK, UNCHANGED <<past, tailIndex, start, bulk, tailBlock, slotsUsed>>,
         front' \in Nat, Newest' = Newest,
         \/ UNCHANGED <<ppc, front, headers>>
         \/ UNCHANGED <<front, headers>> /\ ppc = "construct" /\ ppc' = "storeEntry"
         \/ UNCHANGED front /\ ppc = "storeEntry" /\ ppc' = "storeFront"
         \/ ppc = "storeFront" /\ ppc' = "publish"
         \/ UNCHANGED <<front, headers>> /\ ppc = "reuse" /\ ppc' = "allocate"
         \/ UNCHANGED <<front, headers>> /\ ppc \in {"reuse", "allocate"} /\ ppc' = "constructAll" /\ AllBlocks
         \/ UNCHANGED <<front, headers>> /\ ppc = "constructAll" /\ ppc' = "publishAll" /\ bulk.first = Null
         \/ UNCHANGED <<front, headers>> /\ ppc = "constructAll" /\ ppc' = "storeLastFront" /\ bulk.first # Null
         \/ UNCHANGED front /\ ppc = "storeLastFront" /\ ppc' = "publishAll"
  PROVE  /\ ProducerOK' /\ past' = past /\ Cur' = Cur /\ Top' = Top
         /\ Written' = IF ppc = "storeEntry" /\ ppc' = "storeFront" THEN Cur + 1 ELSE Written
         /\ Window' = IF ppc = "storeEntry" /\ ppc' = "storeFront" THEN slotsUsed ELSE Window
         /\ AtFront' = IF ppc = "storeFront" /\ ppc' = "publish" THEN AtFront + 1 ELSE AtFront
<1>1. Cur' = Cur /\ Slot(Idx(tailIndex))' = Slot(Idx(tailIndex)) /\ LastBlockNo' = LastBlockNo
      /\ (ppc' = ppc /\ headers' = headers => HasRoom' = HasRoom)
  BY DEF Cur, BlockNo, Slot, Idx, LastBlockNo, HasRoom, size, blockIndex
<1>2. Cur \in Int
  BY BlockNoFacts DEF ProducerOK, Cur
<1>3. /\ Top' = Top
      /\ Written' = IF ppc = "storeEntry" /\ ppc' = "storeFront" THEN Cur + 1 ELSE Written
      /\ Window' = IF ppc = "storeEntry" /\ ppc' = "storeFront" THEN slotsUsed ELSE Window
      /\ AtFront' = IF ppc = "storeFront" /\ ppc' = "publish" THEN AtFront + 1 ELSE AtFront
  BY <1>1, <1>2 DEF Top, Written, Window, AtFront, InBulk, InHand, BlockNo
<1>4. ppc' \in {"idle", "reuse", "allocate"} \cup Enqueuing \cup Filled
  BY DEF ProducerOK, Enqueuing, Filled
<1>5. InBulk' = InBulk /\ (InBulk => Written' = Written)
  BY <1>3 DEF InBulk
<1>6. InBulk' => /\ ppc' \in Filled => Written = LastBlockNo
                 /\ ppc' = "storeLastFront" => bulk.first # Null
  BY DEF ProducerOK, Filled, AllBlocks, InBulk, Written
<1>7. bulk.first = Null /\ InBulk' => start.front = front'
  BY DEF ProducerOK, InBulk
<1>8. /\ (ppc' \in Enqueuing <=> ppc \in Enqueuing)
      /\ ppc' \in {"requisition", "construct", "storeEntry", "storeFront"}
           => ppc \in {"requisition", "construct", "storeEntry", "storeFront"}
      /\ (ppc' = "requisition" => ppc = "requisition" /\ HasRoom' = HasRoom)
      /\ (InHand' => InHand) /\ (ppc' # "idle" => ppc # "idle")
  BY <1>1 DEF Enqueuing, InHand
<1>9. ProducerOK'
  BY <1>1, <1>4, <1>5, <1>6, <1>7, <1>8 DEF ProducerOK, Started, Bulk, Enqueuing, Filled
<1> QED BY <1>1, <1>3, <1>9

(* An element goes into the last block.                                    *)
LEMMA ShapeEnqueue ==
  ASSUME PastOK, ProducerOK, EnqueueInBlock
  PROVE  /\ ProducerOK' /\ past' = past /\ Cur' = Cur /\ Top' = Top
         /\ Written' = Written /\ Window' = Window /\ AtFront' = AtFront
         /\ ~InBulk /\ ~InBulk' /\ ~InHand /\ ~InHand' /\ tailIndex > 0
<1>1. /\ ppc = "idle" /\ ppc' = "idle" /\ tailIndex' = tailIndex + 1 /\ tailIndex + 1 <= MaxTail
      /\ UNCHANGED <<past, start, bulk, tailBlock, slotsUsed, front, headers>> /\ tailIndex \in Nat
      /\ Slot(Idx(tailIndex)) # 0
  BY DEF EnqueueInBlock, Enqueue, ring, blockIdx, call, ProducerOK
<1>2. BlockNo(tailIndex) = Cur /\ tailIndex > 0 /\ Cur \in Int
  BY <1>1, CurFacts
<1>3. Cur' = Cur
  <2>1. tailIndex' - 1 = tailIndex
    BY <1>1
  <2> QED BY <1>2, <2>1 DEF Cur
<1>4. /\ Top' = Top /\ Written' = Written /\ Window' = Window /\ AtFront' = AtFront
      /\ ~InBulk /\ ~InBulk' /\ ~InHand /\ ~InHand'
  BY <1>1, <1>3 DEF Top, Written, Window, AtFront, InBulk, InHand
<1>5. ProducerOK'
  <2>1. tailIndex' \in 0..MaxTail
    BY <1>1
  <2>2. ppc' \notin Enqueuing
    BY <1>1 DEF Enqueuing
  <2> QED BY <1>1, <1>2, <1>4, <2>1, <2>2 DEF ProducerOK, Started, Bulk, NoBulk
<1> QED BY <1>1, <1>2, <1>3, <1>4, <1>5

(* An enqueue at a boundary begins.                                        *)
LEMMA ShapeBegin ==
  ASSUME PastOK, ProducerOK, AtBoundary, Begin, ppc' \in {"requisition", "construct"},
         UNCHANGED <<past, tailIndex, slotsUsed, bulk>>, tailBlock \in Block \cup {Null},
         front' \in Nat, front \in Nat, Newest' > 0,
         ppc' = "requisition" => HasRoom' /\ tailBlock' = tailBlock
  PROVE  /\ ProducerOK' /\ past' = past /\ Cur' = Cur
         /\ Top' = (IF ppc' = "construct" THEN Top + 1 ELSE Top) /\ Top = Cur
         /\ Written' = Written /\ Window' = Window /\ AtFront' = AtFront /\ Written = Cur
         /\ ~InBulk /\ ~InBulk' /\ ~InHand /\ (InHand' <=> ppc' = "construct")
<1>1. /\ ppc = "idle" /\ Slot(Idx(tailIndex)) = 0 /\ tailIndex < MaxTail
      /\ start' = [tail |-> tailBlock, used |-> slotsUsed, front |-> front]
  BY DEF AtBoundary, Begin
<1>2. Cur' = Cur /\ Slot(Idx(tailIndex))' = Slot(Idx(tailIndex))
  BY DEF Cur, BlockNo, Slot, Idx
<1>3. start' \in Started /\ start'.tail = tailBlock /\ start'.used = slotsUsed /\ slotsUsed \in Nat
  BY <1>1 DEF Started, ProducerOK
<1>4. Cur \in Int
  BY BlockNoFacts DEF ProducerOK, Cur
<1>5. /\ Top' = (IF ppc' = "construct" THEN Top + 1 ELSE Top) /\ Top = Cur
      /\ Written' = Written /\ Window' = Window /\ AtFront' = AtFront /\ Written = Cur
      /\ ~InBulk /\ ~InBulk' /\ ~InHand /\ (InHand' <=> ppc' = "construct")
  BY <1>1, <1>2, <1>3, <1>4 DEF Top, Written, Window, AtFront, InBulk, InHand
<1>6. ProducerOK'
  BY <1>1, <1>2, <1>3, <1>5 DEF ProducerOK, Started, Bulk, NoBulk, Enqueuing
<1> QED BY <1>2, <1>5, <1>6

(* The producer has a new block in hand.                                   *)
LEMMA ShapeRequisition ==
  ASSUME PastOK, ProducerOK, ppc = "requisition", ppc' = "construct", slotsUsed' = slotsUsed + 1,
         UNCHANGED <<past, tailIndex, start, bulk, front, headers>>
  PROVE  /\ ProducerOK' /\ past' = past /\ Cur' = Cur /\ Top' = Top + 1 /\ Top = Cur
         /\ Written' = Written /\ Window' = Window /\ AtFront' = AtFront /\ Written = Cur
         /\ ~InBulk /\ ~InBulk' /\ ~InHand /\ InHand'
<1>1. Cur' = Cur /\ Slot(Idx(tailIndex))' = Slot(Idx(tailIndex)) /\ Newest' = Newest
  BY DEF Cur, BlockNo, Slot, Idx, Newest
<1>2. Cur \in Int
  BY BlockNoFacts DEF ProducerOK, Cur
<1>3. /\ Top' = Top + 1 /\ Top = Cur
      /\ Written' = Written /\ Window' = Window /\ AtFront' = AtFront /\ Written = Cur
      /\ ~InBulk /\ ~InBulk' /\ ~InHand /\ InHand'
  BY <1>1, <1>2 DEF Top, Written, Window, AtFront, InBulk, InHand
<1>4. ProducerOK'
  BY <1>1, <1>3 DEF ProducerOK, Started, Bulk, NoBulk, Enqueuing
<1> QED BY <1>1, <1>3, <1>4

(* An enqueue has failed, and gives its block back.                        *)
LEMMA ShapeFailed ==
  ASSUME PastOK, ProducerOK, ppc \in {"requisition", "construct"}, Return0, slotsUsed' = start.used,
         UNCHANGED <<past, tailIndex, front, headers>>
  PROVE  /\ ProducerOK' /\ past' = past /\ Cur' = Cur /\ Top' = Cur
         /\ Written' = Written /\ Window' = Window /\ AtFront' = AtFront /\ Written = Cur
         /\ (ppc = "construct" => Top = Cur + 1) /\ (ppc = "requisition" => Top = Cur)
         /\ ~InBulk /\ ~InBulk' /\ ~InHand'
<1>1. /\ Cur' = Cur /\ ppc' = "idle" /\ start' = NoCall /\ bulk' = NoBulk
  BY DEF Cur, BlockNo, Return0, Pgoto
<1>2. Cur \in Int
  BY BlockNoFacts DEF ProducerOK, Cur
<1>3. /\ Top' = Cur
      /\ Written' = Written /\ Window' = Window /\ AtFront' = AtFront /\ Written = Cur
      /\ (ppc = "construct" => Top = Cur + 1) /\ (ppc = "requisition" => Top = Cur)
      /\ ~InBulk /\ ~InBulk' /\ ~InHand'
  BY <1>1, <1>2 DEF Top, Written, Window, AtFront, InBulk, InHand
<1>4. slotsUsed' \in Nat /\ (tailIndex > 0 => slotsUsed' > 0)
  BY DEF ProducerOK, Started
<1>5. ProducerOK'
  BY <1>1, <1>3, <1>4 DEF ProducerOK, Started, Bulk, NoBulk, NoCall, Enqueuing
<1> QED BY <1>1, <1>3, <1>5

(* The element in a new block is published.                                *)
LEMMA ShapePublish ==
  ASSUME PastOK, ProducerOK, Publish, slotsUsed > 0
  PROVE  /\ ProducerOK' /\ past' = past /\ Cur' = Cur + 1 /\ Top' = Top /\ Top = Cur + 1
         /\ Written' = Written /\ Window' = Window /\ AtFront' = AtFront /\ Written = Cur + 1
         /\ ~InBulk /\ ~InBulk' /\ ~InHand /\ ~InHand' /\ tailIndex = First(Cur + 1)
         /\ tailIndex' > 0
<1>1. /\ ppc = "publish" /\ ppc' = "idle" /\ start' = NoCall /\ bulk' = NoBulk
      /\ tailIndex' = tailIndex + 1 /\ tailIndex + 1 <= MaxTail
      /\ UNCHANGED <<past, slotsUsed, front, headers>> /\ tailIndex \in Nat
      /\ Slot(Idx(tailIndex)) = 0
  BY DEF Publish, Return0, Pgoto, Enqueue, ring, blockIdx, ProducerOK, Enqueuing
<1>2. BlockNo(tailIndex) = Cur + 1 /\ Cur \in Int /\ tailIndex = First(Cur + 1)
  BY <1>1, CurFacts
<1>3. Cur' = Cur + 1
  <2>1. tailIndex' - 1 = tailIndex
    BY <1>1
  <2> QED BY <1>2, <2>1 DEF Cur
<1>4. /\ Top' = Top /\ Top = Cur + 1
      /\ Written' = Written /\ Window' = Window /\ AtFront' = AtFront /\ Written = Cur + 1
      /\ ~InBulk /\ ~InBulk' /\ ~InHand /\ ~InHand'
  BY <1>1, <1>2, <1>3 DEF Top, Written, Window, AtFront, InBulk, InHand
<1>5. ProducerOK'
  BY <1>1, <1>4 DEF ProducerOK, Started, Bulk, NoBulk, NoCall, Enqueuing
<1> QED BY <1>1, <1>2, <1>3, <1>4, <1>5

(* A bulk begins.                                                          *)
LEMMA ShapeStartBulk ==
  ASSUME PastOK, ProducerOK, tailBlock \in Block \cup {Null}, NEW n \in 1..MaxBulk, StartBulk(n)
  PROVE  /\ ProducerOK' /\ past' = past /\ Cur' = Cur /\ Top' = Top /\ Top = Cur
         /\ Written' = Written /\ Window' = Window /\ AtFront' = AtFront /\ Written = Cur
         /\ ~InBulk /\ InBulk' /\ ~InHand /\ ~InHand' /\ bulk'.first = Null
<1>1. /\ ppc = "idle" /\ ppc' = "reuse" /\ tailIndex + n <= MaxTail /\ n \in Nat /\ n > 0
      /\ start' = [tail |-> tailBlock, used |-> slotsUsed, front |-> front]
      /\ bulk' = [count |-> n, first |-> Null, tail |-> First(Cur)]
      /\ UNCHANGED <<past, tailIndex, tailBlock, slotsUsed, front, headers>>
  BY RingAssumption DEF StartBulk, Begin, Pgoto, vars, counters, ring, blockIdx, First, Cur
<1>2. /\ bulk'.count = n /\ bulk'.first = Null /\ bulk'.tail = First(Cur)
      /\ start'.tail = tailBlock /\ start'.used = slotsUsed /\ start'.front = front
  BY <1>1
<1>3. Cur \in Int /\ First(Cur) \in Int /\ BlockNo(First(Cur)) = Cur /\ tailIndex \in Nat
  BY BlockNoFacts, BulkBlock, FirstType DEF ProducerOK, Cur
<1>4. Cur' = Cur
  BY <1>1 DEF Cur, BlockNo
<1>5. /\ Top' = Top /\ Top = Cur
      /\ Written' = Written /\ Window' = Window /\ AtFront' = AtFront /\ Written = Cur
      /\ ~InBulk /\ InBulk' /\ ~InHand /\ ~InHand'
  BY <1>1, <1>2, <1>3, <1>4 DEF Top, Written, Window, AtFront, InBulk, InHand, BlockNo
<1>6. Cur <= LastBlockNo'
  <2>1. LastBlockNo' = BlockNo(tailIndex + n - 1)
    BY <1>1, <1>2 DEF LastBlockNo, BlockNo
  <2>2. tailIndex - 1 \in Int /\ tailIndex + n - 1 \in Int /\ tailIndex - 1 <= tailIndex + n - 1
    BY <1>1, <1>3
  <2> QED BY <2>1, <2>2, BlockNoFacts DEF Cur
<1>7. start' \in Started /\ bulk' \in Bulk
  BY <1>1, <1>3 DEF Started, Bulk, ProducerOK
<1>8. ppc' \notin Filled /\ ppc' \notin Enqueuing /\ ppc' \in {"idle", "reuse", "allocate"}
  BY <1>1 DEF Filled, Enqueuing
<1>9. ProducerOK'
  BY <1>1, <1>2, <1>3, <1>4, <1>5, <1>6, <1>7, <1>8 DEF ProducerOK
<1> QED BY <1>1, <1>2, <1>4, <1>5, <1>9

(* A bulk takes a block.                                                   *)
LEMMA ShapeTook ==
  ASSUME PastOK, ProducerOK, ppc \in {"reuse", "allocate"}, ~AllBlocks, NEW b \in Block, Took(b),
         slotsUsed' \in Nat, slotsUsed <= slotsUsed', front' \in Nat,
         UNCHANGED <<past, tailIndex, ppc, start>>
  PROVE  /\ ProducerOK' /\ past' = past /\ Cur' = Cur /\ Top' = Top + 1 /\ Top = Written
         /\ Written' = Written + 1 /\ Window' = slotsUsed' /\ Window = slotsUsed
         /\ AtFront' = AtFront + 1 /\ AtFront = Written + 1
         /\ InBulk /\ InBulk' /\ ~InHand /\ ~InHand' /\ bulk'.first # Null
         /\ bulk'.first = (IF bulk.first = Null THEN b ELSE bulk.first)
         /\ (bulk.first = Null <=> Written = Cur) /\ Cur <= Written
         /\ bulk.tail + BLOCK_SIZE = First(Written + 1) /\ Written \in Int /\ Cur \in Int
<1>1. /\ InBulk /\ bulk \in Bulk /\ bulk.tail = First(Written) /\ Cur <= Written /\ Written <= LastBlockNo
      /\ BlockNo(bulk.tail) # LastBlockNo /\ (bulk.first = Null <=> Written = Cur)
      /\ bulk.count > 0 /\ tailIndex + bulk.count <= MaxTail /\ tailIndex \in Nat
      /\ bulk.first = Null => start.used = slotsUsed
  BY DEF ProducerOK, InBulk, AllBlocks
<1>2. /\ bulk' = [count |-> bulk.count, first |-> IF bulk.first = Null THEN b ELSE bulk.first,
                  tail |-> bulk.tail + BLOCK_SIZE]
      /\ b # Null
  BY <1>1, RingAssumption DEF Took, Bulk
<1>3. /\ bulk'.count = bulk.count /\ bulk'.tail = bulk.tail + BLOCK_SIZE
      /\ bulk'.first = (IF bulk.first = Null THEN b ELSE bulk.first) /\ bulk'.first # Null
  BY <1>2
<1>4. Written = BlockNo(bulk.tail) /\ Written \in Int /\ Cur \in Int /\ LastBlockNo \in Int
  <2>1. bulk.tail \in Int /\ tailIndex + bulk.count - 1 \in Int
    BY <1>1 DEF Bulk
  <2>2. tailIndex - 1 \in Int
    BY <1>1
  <2> QED BY <1>1, <2>1, <2>2, BlockNoFacts DEF Written, LastBlockNo, Cur
<1>5. /\ bulk.tail + BLOCK_SIZE = First(Written + 1) /\ First(Written + 1) \in Int
      /\ BlockNo(First(Written + 1)) = Written + 1
  <2>1. Written + 1 \in Int
    BY <1>4
  <2> QED BY <1>1, <1>4, <2>1, FirstNext, FirstType, BulkBlock
<1>6. Cur' = Cur /\ LastBlockNo' = LastBlockNo /\ InBulk'
  <2>1. bulk'.count = bulk.count
    BY <1>3
  <2> QED BY <1>1, <2>1 DEF Cur, BlockNo, LastBlockNo, InBulk
<1>7. Written' = Written + 1
  <2>1. Written' = BlockNo(bulk'.tail)
    BY <1>6 DEF Written, BlockNo
  <2> QED BY <1>3, <1>5, <2>1
<1>8. /\ Top' = Top + 1 /\ Top = Written /\ Window' = slotsUsed' /\ Window = slotsUsed
      /\ AtFront' = AtFront + 1 /\ AtFront = Written + 1 /\ ~InHand /\ ~InHand'
  BY <1>4, <1>7 DEF Top, Window, AtFront, InHand
<1>9. bulk' \in Bulk
  BY <1>1, <1>2, <1>5 DEF Bulk
<1>10. ProducerOK'
  <2>1. /\ start' \in Started /\ start'.used <= slotsUsed' /\ tailIndex' \in 0..MaxTail
        /\ (tailIndex' > 0 => slotsUsed' > 0 /\ start'.used > 0)
        /\ slotsUsed' \in Nat /\ front' \in Nat
    BY <1>1 DEF ProducerOK, InBulk, Started
  <2>2. ppc' \notin Enqueuing /\ ppc' \notin Filled /\ ~InHand' /\ ppc' \in {"idle", "reuse", "allocate"}
        /\ ppc' \notin {"requisition", "construct", "storeEntry", "storeFront"}
    BY DEF Enqueuing, Filled, InHand
  <2>3. /\ bulk'.count > 0 /\ tailIndex' + bulk'.count <= MaxTail
        /\ bulk'.tail = First(Written') /\ Cur' <= Written' /\ Written' <= LastBlockNo'
        /\ (bulk'.first = Null <=> Written' = Cur') /\ bulk'.first # Null
    BY <1>1, <1>3, <1>4, <1>5, <1>6, <1>7
  <2> QED BY <1>6, <1>9, <2>1, <2>2, <2>3 DEF ProducerOK
<1> QED BY <1>1, <1>3, <1>4, <1>5, <1>6, <1>7, <1>8, <1>10

(* A bulk has a larger index.                                              *)
LEMMA ShapeBulkGrow ==
  ASSUME PastOK, ProducerOK, BulkGrow, front' = slotsUsed
  PROVE  /\ ProducerOK' /\ past' = past /\ Cur' = Cur /\ Top' = Top
         /\ Written' = Written /\ Window' = Window /\ AtFront' = AtFront
         /\ InBulk /\ InBulk' /\ ~InHand /\ ~InHand' /\ Window = slotsUsed /\ AtFront = Written + 1
<1>1. /\ ppc = "allocate" /\ ppc' = "allocate" /\ start' = [start EXCEPT !.front = start.used]
      /\ UNCHANGED <<past, tailIndex, tailBlock, slotsUsed, bulk>>
  BY DEF BulkGrow, vars, counters, ring
<1>2. start' = [tail |-> start.tail, used |-> start.used, front |-> start.used] /\ start \in Started
  BY <1>1 DEF ProducerOK, Started
<1>3. start'.tail = start.tail /\ start'.used = start.used /\ start'.front = start.used
      /\ start' \in Started
  BY <1>2 DEF Started
<1>4. Cur' = Cur /\ LastBlockNo' = LastBlockNo
  BY <1>1 DEF Cur, BlockNo, LastBlockNo
<1>5. /\ Top' = Top /\ Written' = Written /\ Window' = Window /\ AtFront' = AtFront
      /\ InBulk /\ InBulk' /\ ~InHand /\ ~InHand' /\ Window = slotsUsed /\ AtFront = Written + 1
  BY <1>1, <1>4 DEF Top, Written, Window, AtFront, InBulk, InHand, BlockNo
<1>6. ppc' \notin Enqueuing /\ ppc' \notin Filled /\ ppc' \in {"idle", "reuse", "allocate"}
  BY <1>1 DEF Enqueuing, Filled
<1>7. ProducerOK'
  BY <1>1, <1>3, <1>4, <1>5, <1>6 DEF ProducerOK, Bulk
<1> QED BY <1>1, <1>4, <1>5, <1>7

(* A bulk has failed before it took a block: nothing has changed.          *)
LEMMA ShapeUndo ==
  ASSUME PastOK, ProducerOK, BulkUndo, InBulk, bulk.first = Null
  PROVE  /\ ProducerOK' /\ past' = past /\ Cur' = Cur /\ Top' = Top /\ Top = Cur
         /\ Written' = Written /\ Window' = Window /\ AtFront' = AtFront
         /\ ~InBulk' /\ ~InHand /\ ~InHand' /\ UNCHANGED <<front, slotsUsed, tailBlock>>
<1>1. /\ ppc' = "idle" /\ start' = NoCall /\ bulk' = NoBulk /\ start.tail = tailBlock
      /\ start.used = slotsUsed /\ start.front = front /\ Written = Cur
      /\ UNCHANGED <<past, tailIndex, headers, front, slotsUsed, tailBlock>>
  BY DEF BulkUndo, Return0, Pgoto, ProducerOK, vars, counters
<1>2. Cur' = Cur
  BY <1>1 DEF Cur, BlockNo
<1>3. /\ Top' = Top /\ Top = Cur /\ Written' = Written /\ Window' = Window /\ AtFront' = AtFront
      /\ ~InBulk' /\ ~InHand /\ ~InHand'
  BY <1>1, <1>2 DEF Top, Written, Window, AtFront, InBulk, InHand, BlockNo
<1>4. ProducerOK'
  BY <1>1, <1>3 DEF ProducerOK, Started, Bulk, NoBulk, NoCall, Enqueuing
<1> QED BY <1>1, <1>2, <1>3, <1>4

(* A bulk is published.                                                    *)
LEMMA ShapeBulkPublish ==
  ASSUME PastOK, ProducerOK, BulkPublish, slotsUsed > 0
  PROVE  /\ ProducerOK' /\ past' = past /\ Cur' = Written /\ Top' = Top /\ Top = Written
         /\ Written' = Written /\ Window' = Window /\ AtFront' = AtFront
         /\ InBulk /\ ~InBulk' /\ ~InHand /\ ~InHand' /\ Cur <= Cur' /\ Cur \in Int /\ Cur' \in Int
         /\ tailIndex' > 0 /\ tailIndex' = tailIndex + bulk.count
<1>1. /\ ppc = "publishAll" /\ ppc' = "idle" /\ start' = NoCall /\ bulk' = NoBulk
      /\ tailIndex' = tailIndex + bulk.count /\ tailIndex + bulk.count <= MaxTail
      /\ UNCHANGED <<past, slotsUsed, front, headers>> /\ tailIndex \in Nat /\ bulk.count \in Nat
      /\ bulk.count > 0 /\ InBulk /\ Written = LastBlockNo /\ Cur <= Written
  BY DEF BulkPublish, Return0, Pgoto, Enqueue, ring, blockIdx, ProducerOK, Filled, InBulk, Bulk
<1>2. Cur' = Written /\ Cur \in Int /\ Written \in Int
  <2>1. Cur' = BlockNo(tailIndex + bulk.count - 1)
    BY <1>1 DEF Cur, BlockNo
  <2>2. tailIndex - 1 \in Int /\ tailIndex + bulk.count - 1 \in Int
    BY <1>1
  <2> QED BY <1>1, <2>1, <2>2, BlockNoFacts DEF LastBlockNo, Cur
<1>3. /\ Top' = Top /\ Top = Written
      /\ Written' = Written /\ Window' = Window /\ AtFront' = AtFront
      /\ ~InBulk' /\ ~InHand /\ ~InHand'
  BY <1>1, <1>2 DEF Top, Written, Window, AtFront, InBulk, InHand
<1>4. ProducerOK'
  BY <1>1, <1>3 DEF ProducerOK, Started, Bulk, NoBulk, NoCall, Enqueuing
<1> QED BY <1>1, <1>2, <1>3, <1>4

-----------------------------------------------------------------------------
(* The ring of blocks.                                                     *)
LEMMA RingStays ==
  ASSUME NEW lo, NEW home, NEW dead, RingOK(lo, home, dead), UNCHANGED <<next, pool, tailBlock>>,
         Cur \in Int, Cur' \in Int, Cur <= Cur', Top' = Top,
         InHand' => InHand /\ start' = start /\ Cur' = Cur,
         InBulk' => \/ InBulk /\ Cur' = Cur /\ start'.tail = start.tail /\ bulk'.first = bulk.first
                    \/ start'.tail = tailBlock /\ bulk'.first = Null /\ Cur' = Top
  PROVE  RingOK(lo, home, dead)'
<1>1. Owned' = Owned
  BY DEF Owned
<1>2. lo <= Cur' + 1 /\ lo \in Int
  <2>1. lo \in Int /\ lo <= Cur + 1
    BY DEF RingOK
  <2>2. PICK i, j \in Int : i = Cur /\ j = Cur'
    OBVIOUS
  <2>3. lo <= i + 1 /\ i <= j
    BY <2>1, <2>2
  <2>4. lo <= j + 1
    BY <2>1, <2>3
  <2> QED BY <2>1, <2>2, <2>4
<1>3. InHand' => IF lo <= Cur' THEN start'.tail = home[Cur']
                 ELSE start'.tail # Null => start'.tail \in dead \cup {tailBlock} /\ next[start'.tail] = tailBlock
  BY DEF RingOK
<1>4. InBulk' => (lo <= Cur' => start'.tail = home[Cur'])
                 /\ (bulk'.first # Null => bulk'.first = home[Cur' + 1])
  BY DEF RingOK
<1> QED BY <1>1, <1>2, <1>3, <1>4 DEF RingOK

(* The block ahead, if it is to be used again, is the oldest of the queue. *)
LEMMA AheadIsOldest ==
  ASSUME NEW lo, NEW home, NEW dead, RingOK(lo, home, dead), FlagsOK(lo, home, dead), CanReuse,
         Top \in Int
  PROVE  /\ lo <= Top /\ Ahead = home[lo] /\ Ahead = next[tailBlock] /\ Ahead \in Owned \ dead
         /\ Ahead \in Block /\ emptyFlags[Ahead] = Slots
<1>1. emptyFlags[Ahead] = Slots /\ tailBlock # Null /\ Ahead = next[tailBlock]
  BY DEF CanReuse, IsEmpty, Ahead
<1>2. Slots # {}
  BY Sizes DEF Slots
<1>3. Ahead \notin dead
  BY <1>1, <1>2 DEF FlagsOK
<1>4. lo <= Top /\ Ahead = home[lo] /\ lo \in Int
  BY <1>1, <1>3 DEF RingOK
<1>5. home[lo] \in Owned \ dead
  BY <1>4 DEF RingOK
<1> QED BY <1>1, <1>4, <1>5 DEF Owned

(* The oldest block becomes the newest.                                    *)
LEMMA RingReuse ==
  ASSUME NEW lo, NEW home, NEW dead, RingOK(lo, home, dead), tailBlock # Null,
         lo <= Top, next[tailBlock] = home[lo],
         UNCHANGED <<next, pool>>, tailBlock' = home[lo],
         NEW new, new = [home EXCEPT ![Top + 1] = home[lo]],
         Cur \in Int, Top \in Int, Cur' = Cur, Top' = Top + 1, Cur <= Top, lo <= Cur,
         InHand' => start'.tail = tailBlock /\ Cur = Top,
         InBulk' => /\ start'.tail = home[Cur]
                    /\ bulk'.first = (IF Cur = Top THEN home[lo] ELSE home[Cur + 1])
  PROVE  RingOK(lo + 1, new, dead)'
<1>1. Owned' = Owned
  BY DEF Owned
<1>2. /\ lo \in Int /\ home \in [Int -> Block \cup {Null}] /\ tailBlock = home[Top]
      /\ \A k \in lo..Top : home[k] \in Owned \ dead
      /\ \A j, k \in lo..Top : home[j] = home[k] => j = k
      /\ \A k \in lo..(Top - 1) : next[home[k]] = home[k + 1]
      /\ dead \subseteq Owned
  BY DEF RingOK
<1>3. /\ new[Top + 1] = home[lo] /\ \A k \in Int : k # Top + 1 => new[k] = home[k]
      /\ home[lo] \in Owned \ dead /\ lo \in lo..Top
  BY <1>2
<1>4. new \in [Int -> Block \cup {Null}]
  BY <1>2
<1>5. \A k \in (lo + 1)..(Top + 1) : new[k] \in Owned \ dead
  BY <1>2, <1>3
<1>6. ASSUME NEW j \in (lo + 1)..(Top + 1), NEW k \in (lo + 1)..(Top + 1), new[j] = new[k]
      PROVE  j = k
  <2>1. CASE j = Top + 1 /\ k # Top + 1
    <3>1. k \in lo..Top /\ home[k] = home[lo]
      BY <1>2, <1>3, <1>6, <2>1
    <3>2. k = lo
      BY <1>2, <1>3, <3>1
    <3> QED BY <1>2, <3>2
  <2>2. CASE k = Top + 1 /\ j # Top + 1
    <3>1. j \in lo..Top /\ home[j] = home[lo]
      BY <1>2, <1>3, <1>6, <2>2
    <3>2. j = lo
      BY <1>2, <1>3, <3>1
    <3> QED BY <1>2, <3>2
  <2>3. CASE k # Top + 1 /\ j # Top + 1
    BY <1>2, <1>3, <1>6, <2>3
  <2> QED BY <2>1, <2>2, <2>3
<1>7. ASSUME NEW k \in (lo + 1)..Top PROVE next[new[k]] = new[k + 1]
  <2>1. CASE k = Top
    BY <1>2, <1>3, <2>1
  <2>2. CASE k # Top
    BY <1>2, <1>3, <2>2
  <2> QED BY <2>1, <2>2
<1>8. next[home[lo]] = new[lo + 1]
  <2>1. CASE lo = Top
    BY <1>2, <1>3, <2>1
  <2>2. CASE lo # Top
    BY <1>2, <1>3, <2>2
  <2> QED BY <2>1, <2>2
<1>9. new[Cur] = home[Cur] /\ (Cur # Top => new[Cur + 1] = home[Cur + 1])
  BY <1>3
<1>10. InHand' => IF lo + 1 <= Cur THEN start'.tail = new[Cur]
                  ELSE start'.tail # Null =>
                        start'.tail \in dead \cup {tailBlock'} /\ next[start'.tail] = tailBlock'
  BY <1>2, <1>9
<1>11. InBulk' => (lo + 1 <= Cur => start'.tail = new[Cur])
                  /\ (bulk'.first # Null => bulk'.first = new[Cur + 1])
  BY <1>3, <1>9
<1>12. tailBlock' = new[Top + 1] /\ lo + 1 <= Top + 1 /\ lo + 1 <= Cur + 1 /\ (Top + 1) - 1 = Top
       /\ lo + 1 \in Int
  BY <1>2, <1>3
<1> HIDE DEF InHand, InBulk
<1> QED BY <1>1, <1>2, <1>4, <1>5, <1>6, <1>7, <1>8, <1>10, <1>11, <1>12 DEF RingOK

(* A block that comes from the pool.                                       *)
LEMMA RingInsert ==
  ASSUME RingInv, NEW lo, NEW home, NEW dead, RingOK(lo, home, dead),
         NEW b \in pool, NEW flags, Insert(b, flags),
         NEW new, new = [home EXCEPT ![Top + 1] = b],
         Cur \in Int, Top \in Int, Cur' = Cur, Top' = Top + 1, Cur <= Top,
         InHand' => start'.tail = tailBlock /\ Cur = Top,
         InBulk' => /\ lo <= Cur => start'.tail = home[Cur]
                    /\ bulk'.first = (IF Cur = Top THEN b ELSE home[Cur + 1])
  PROVE  RingOK(lo, new, dead)'
<1>1. /\ Owned' = Owned \cup {b} /\ b \notin Owned /\ b \in Block /\ b # Null /\ tailBlock' = b
      /\ tailBlock \in Owned \cup {Null} /\ (tailBlock = Null => Owned = {})
  BY RingAssumption DEF Insert, Owned, RingInv
<1>2. /\ lo \in Int /\ home \in [Int -> Block \cup {Null}] /\ lo <= Top + 1
      /\ \A k \in lo..Top : home[k] \in Owned \ dead
      /\ \A j, k \in lo..Top : home[j] = home[k] => j = k
      /\ \A k \in lo..(Top - 1) : next[home[k]] = home[k + 1]
      /\ dead \subseteq Owned
      /\ IF lo <= Top THEN tailBlock = home[Top] ELSE tailBlock \in dead \cup {Null}
      /\ tailBlock # Null => next[tailBlock] \in dead \/ (lo <= Top /\ next[tailBlock] = home[lo])
  BY DEF RingOK
<1>3. /\ new[Top + 1] = b /\ \A k \in Int : k # Top + 1 => new[k] = home[k]
  BY <1>2
<1>4. new \in [Int -> Block \cup {Null}]
  BY <1>1, <1>2
<1>5. \A k \in lo..(Top + 1) : new[k] \in Owned' \ dead
  BY <1>1, <1>2, <1>3
<1>6. ASSUME NEW j \in lo..(Top + 1), NEW k \in lo..(Top + 1), new[j] = new[k]
      PROVE  j = k
  BY <1>1, <1>2, <1>3, <1>6
<1>7. CASE tailBlock = Null
  <2>1. lo = Top + 1 /\ next'[b] = b
    <3>1. lo > Top
      BY <1>1, <1>2, <1>7
    <3> QED BY <1>1, <1>2, <1>7, <3>1 DEF RingInv, Insert
  <2>2. InHand' => start'.tail = Null /\ ~(lo <= Cur)
    BY <1>7, <2>1
  <2>3. InBulk' => (lo <= Cur => start'.tail = new[Cur])
                   /\ (bulk'.first # Null => bulk'.first = new[Cur + 1])
    BY <1>2, <1>3, <2>1
  <2>4. tailBlock' = new[Top + 1] /\ lo <= Top + 1 /\ lo <= Cur + 1 /\ (Top + 1) - 1 = Top
        /\ next'[tailBlock'] = new[lo]
    BY <1>1, <1>2, <1>3, <2>1 DEF RingOK
  <2>5. \A k \in lo..Top : next'[new[k]] = new[k + 1]
    BY <2>1
  <2>6. dead \subseteq Owned'
    BY <1>1, <1>2
  <2> HIDE DEF InHand, InBulk
  <2> QED BY <1>1, <1>2, <1>4, <1>5, <1>6, <2>1, <2>2, <2>3, <2>4, <2>5, <2>6 DEF RingOK
<1>8. CASE tailBlock # Null
  <2>1. /\ tailBlock \in Owned /\ tailBlock # b
        /\ next'[b] = next[tailBlock] /\ next'[tailBlock] = b
        /\ \A d \in Owned \ {tailBlock} : next'[d] = next[d]
    <3>1. next' = [next EXCEPT ![b] = next[tailBlock], ![tailBlock] = b] /\ tailBlock \in Owned
      BY <1>1, <1>8 DEF Insert, Ahead
    <3> QED BY <1>1, <3>1 DEF RingInv, Owned
  <2>2. ASSUME NEW k \in lo..Top PROVE next'[new[k]] = new[k + 1]
    <3>1. CASE k = Top
      BY <1>2, <1>3, <2>1, <3>1
    <3>2. CASE k # Top
      <4>1. k \in lo..(Top - 1) /\ Top \in lo..Top /\ home[k] \in Owned /\ home[k] # home[Top]
            /\ tailBlock = home[Top] /\ new[k] = home[k] /\ new[k + 1] = home[k + 1]
        BY <1>2, <1>3, <3>2
      <4> QED BY <1>2, <2>1, <4>1
    <3> QED BY <3>1, <3>2
  <2>3. next'[tailBlock'] \in dead \/ (lo <= Top + 1 /\ next'[tailBlock'] = new[lo])
    BY <1>1, <1>2, <1>3, <2>1
  <2>4. InHand' => IF lo <= Cur THEN start'.tail = new[Cur]
                   ELSE start'.tail # Null =>
                        start'.tail \in dead \cup {tailBlock'} /\ next'[start'.tail] = tailBlock'
    BY <1>1, <1>2, <1>3, <2>1
  <2>5. InBulk' => (lo <= Cur => start'.tail = new[Cur])
                   /\ (bulk'.first # Null => bulk'.first = new[Cur + 1])
    BY <1>2, <1>3
  <2>6. tailBlock' = new[Top + 1] /\ lo <= Top + 1 /\ lo <= Cur + 1 /\ (Top + 1) - 1 = Top
        /\ dead \subseteq Owned'
    BY <1>1, <1>2, <1>3 DEF RingOK
  <2> HIDE DEF InHand, InBulk
  <2> QED BY <1>1, <1>2, <1>4, <1>5, <1>6, <2>2, <2>3, <2>4, <2>5, <2>6 DEF RingOK
<1> QED BY <1>7, <1>8

(* A block is left in the ring: the constructor has thrown.                *)
LEMMA RingThrow ==
  ASSUME NEW lo, NEW home, NEW dead, RingOK(lo, home, dead), InHand,
         UNCHANGED <<next, pool>>, ~InHand', ~InBulk',
         tailBlock' = IF start.tail = Null THEN tailBlock ELSE start.tail,
         Cur \in Int, Cur' = Cur, Top = Cur + 1, Top' = Cur, NEW new, new = dead \cup {home[Top]}
  PROVE  RingOK(lo, home, new)'
<1>1. Owned' = Owned
  BY DEF Owned
<1>2. /\ lo \in Int /\ lo <= Top /\ home \in [Int -> Block \cup {Null}]
      /\ \A k \in lo..Top : home[k] \in Owned \ dead
      /\ \A j, k \in lo..Top : home[j] = home[k] => j = k
      /\ \A k \in lo..(Top - 1) : next[home[k]] = home[k + 1]
      /\ dead \subseteq Owned /\ tailBlock = home[Top] /\ tailBlock \in Owned
  <2>1. lo <= Top /\ lo \in Int /\ Top \in lo..Top
    BY DEF RingOK
  <2> QED BY <2>1 DEF RingOK
<1>3. tailBlock # Null /\ Null \notin Owned
  BY <1>2, RingAssumption DEF Owned
<1>4. next[tailBlock] \in dead \/ next[tailBlock] = home[lo]
  BY <1>3 DEF RingOK
<1>5. \A k \in lo..Cur : home[k] \in Owned \ new /\ home[k] # home[Top]
  <2> SUFFICES ASSUME NEW k \in lo..Cur PROVE home[k] \in Owned \ new /\ home[k] # home[Top]
    OBVIOUS
  <2>1. k \in lo..Top /\ Top \in lo..Top /\ k # Top
    BY <1>2
  <2> QED BY <1>2, <2>1
<1>6. CASE lo <= Cur
  <2>1. start.tail = home[Cur] /\ Cur \in lo..Cur /\ Cur \in lo..(Top - 1)
    BY <1>2, <1>6 DEF RingOK
  <2>2. tailBlock' = home[Cur] /\ next[tailBlock'] = home[Top]
    BY <1>2, <1>3, <1>5, <2>1
  <2> QED BY <1>1, <1>2, <1>5, <1>6, <2>2 DEF RingOK
<1>7. CASE ~(lo <= Cur)
  <2>1. start.tail # Null => start.tail \in dead \cup {tailBlock} /\ next[start.tail] = tailBlock
    BY <1>7 DEF RingOK
  <2>2. lo = Top
    BY <1>2, <1>7
  <2>3. tailBlock' \in new /\ next[tailBlock'] \in new
    BY <1>2, <1>4, <2>1, <2>2
  <2> QED BY <1>1, <1>2, <1>7, <2>2, <2>3 DEF RingOK
<1> QED BY <1>6, <1>7

-----------------------------------------------------------------------------
(* The flags.                                                              *)
HeadOK == tailIndex \in Nat /\ headIndex \in Nat /\ headIndex <= tailIndex
DoneFrame == UNCHANGED <<headIndex, at, index, end>>
Unset == ppc \in {"reuse", "allocate"}

LEMMA DoneSame == ASSUME DoneFrame PROVE DoneSet' = DoneSet
BY DEF DoneSet, Uncounted, DoneFrame

LEMMA NoneDone ==
  ASSUME PastOK, HeadOK, NEW k \in Int, Cur < k
  PROVE  {i \in Slots : First(k) + i \in DoneSet} = {}
<1>1. tailIndex <= First(Cur + 1) /\ First(Cur + 1) \in Int /\ First(k) \in Int /\ Cur \in Int
  BY CurFacts, FirstType DEF HeadOK
<1>2. First(Cur + 1) <= First(k)
  <2>1. Cur + 1 < k => First(Cur + 1) + BLOCK_SIZE <= First(k)
    BY <1>1, FirstOrder
  <2>2. Cur + 1 < k \/ Cur + 1 = k
    BY <1>1
  <2> QED BY <1>1, <2>1, <2>2, Sizes
<1>3. \A i \in Slots : i >= 0
  BY Sizes DEF Slots
<1>4. \A i \in Slots : ~(First(k) + i < headIndex)
  BY <1>1, <1>2, <1>3, Sizes DEF HeadOK, Slots
<1> QED BY <1>4 DEF DoneSet

LEMMA FlagsStay ==
  ASSUME PastOK, HeadOK, NEW lo, NEW home, NEW dead, FlagsOK(lo, home, dead), lo \in Int,
         UNCHANGED emptyFlags, DoneFrame,
         Cur \in Int, Cur' \in Int, Top \in Int, Cur <= Cur', Top' = Top,
         Cur' # Cur => ~Unset /\ Cur' <= Top,
         Top > Cur' => (Unset' <=> Unset)
  PROVE  FlagsOK(lo, home, dead)'
<1>1. DoneSet' = DoneSet
  BY DoneSame
<1>2. /\ emptyFlags \in [Block -> SUBSET Slots]
      /\ \A n \in Int : n < First(lo) => n \in DoneSet
      /\ \A k \in Int : lo <= k /\ k <= Cur =>
            emptyFlags[home[k]] = {i \in Slots : First(k) + i \in DoneSet}
      /\ \A k \in Int : Cur < k /\ k <= Top => emptyFlags[home[k]] = IF Unset THEN Slots ELSE {}
      /\ \A b \in dead : emptyFlags[b] = {}
  BY DEF FlagsOK, Unset
<1>3. ASSUME NEW k \in Int, lo <= k, k <= Cur'
      PROVE  emptyFlags[home[k]] = {i \in Slots : First(k) + i \in DoneSet}
  <2>1. CASE k <= Cur
    BY <1>2, <1>3, <2>1
  <2>2. CASE Cur < k
    <3>1. emptyFlags[home[k]] = {}
      BY <1>2, <1>3, <2>2
    <3> QED BY <2>2, <3>1, NoneDone
  <2> QED BY <2>1, <2>2
<1>4. \A k \in Int : Cur' < k /\ k <= Top => emptyFlags[home[k]] = IF Unset' THEN Slots ELSE {}
  BY <1>2
<1> QED BY <1>1, <1>2, <1>3, <1>4 DEF FlagsOK, Unset

(* Block b becomes the newest.                                             *)
LEMMA FlagsTake ==
  ASSUME NEW lo, NEW home, NEW dead, FlagsOK(lo, home, dead), lo \in Int, DoneFrame,
         home \in [Int -> Block \cup {Null}],
         NEW low \in Int, lo <= low, \A n \in Int : n < First(low) => n \in DoneSet,
         NEW b \in Block, b \notin dead, \A k \in low..Top : home[k] # b, low <= Cur + 1,
         emptyFlags' \in [Block -> SUBSET Slots],
         \A d \in Block : d # b => emptyFlags'[d] = emptyFlags[d],
         emptyFlags'[b] = IF Unset' THEN Slots ELSE {},
         NEW new, new = [home EXCEPT ![Top + 1] = b], dead \subseteq Block,
         \A k \in low..Top : home[k] \in Block,
         Cur \in Int, Cur' = Cur, Top \in Int, Cur <= Top, Top' = Top + 1,
         Top > Cur => (Unset' <=> Unset)
  PROVE  FlagsOK(low, new, dead)'
<1>1. DoneSet' = DoneSet
  BY DoneSame
<1>2. /\ \A k \in Int : lo <= k /\ k <= Cur =>
            emptyFlags[home[k]] = {i \in Slots : First(k) + i \in DoneSet}
      /\ \A k \in Int : Cur < k /\ k <= Top => emptyFlags[home[k]] = IF Unset THEN Slots ELSE {}
      /\ \A d \in dead : emptyFlags[d] = {}
  BY DEF FlagsOK, Unset
<1>3. new[Top + 1] = b /\ \A k \in Int : k # Top + 1 => new[k] = home[k]
  OBVIOUS
<1>4. \A k \in low..Top : emptyFlags'[home[k]] = emptyFlags[home[k]]
  OBVIOUS
<1>5. ASSUME NEW k \in Int, low <= k, k <= Cur
      PROVE  emptyFlags'[new[k]] = {i \in Slots : First(k) + i \in DoneSet}
  <2>1. k \in low..Top /\ lo <= k /\ new[k] = home[k]
    BY <1>3, <1>5
  <2> QED BY <1>2, <1>4, <1>5, <2>1
<1>6. ASSUME NEW k \in Int, Cur < k, k <= Top + 1
      PROVE  emptyFlags'[new[k]] = IF Unset' THEN Slots ELSE {}
  <2>1. CASE k = Top + 1
    BY <1>3, <2>1
  <2>2. CASE k # Top + 1
    <3>1. k \in low..Top /\ k <= Top /\ Cur < Top /\ new[k] = home[k]
      BY <1>3, <1>6, <2>2
    <3> QED BY <1>2, <1>4, <1>6, <3>1
  <2> QED BY <2>1, <2>2
<1>7. \A d \in dead : emptyFlags'[d] = {}
  BY <1>2
<1> QED BY <1>1, <1>5, <1>6, <1>7 DEF FlagsOK, Unset

LEMMA FlagsThrow ==
  ASSUME NEW lo, NEW home, NEW dead, FlagsOK(lo, home, dead), DoneFrame, UNCHANGED emptyFlags,
         Cur \in Int, Cur' = Cur, Top = Cur + 1, Top' = Cur, ~Unset,
         NEW new, new = dead \cup {home[Top]}
  PROVE  FlagsOK(lo, home, new)'
<1>1. DoneSet' = DoneSet
  BY DoneSame
<1>2. emptyFlags[home[Top]] = {}
  BY DEF FlagsOK, Unset
<1> QED BY <1>1, <1>2 DEF FlagsOK

-----------------------------------------------------------------------------
(* The new blocks of a bulk follow firstAllocatedBlock in the ring.        *)
LEMMA BulkBlocks ==
  ASSUME NEW lo, NEW home, NEW dead, RingOK(lo, home, dead), InBulk, bulk.first # Null,
         Cur \in Int, Written \in Int, Top = Written, Cur < Written
  PROVE  \A k \in (Cur + 1)..Written : After(bulk.first, k - Cur - 1) = home[k]
<1> DEFINE N == Written - Cur - 1
           S == {n \in 0..N : After(bulk.first, n) = home[Cur + 1 + n]}
<1>1. /\ lo <= Cur + 1 /\ lo \in Int /\ bulk.first = home[Cur + 1]
      /\ \A k \in lo..Written : home[k] \in Block
      /\ \A j, k \in lo..Written : home[j] = home[k] => j = k
      /\ \A k \in lo..(Written - 1) : next[home[k]] = home[k + 1]
  BY DEF RingOK, Owned
<1>2. N \in Nat /\ Cardinality(Block) \in Nat /\ IsFiniteSet(Block)
  BY FS_CardinalityType, RingAssumption
<1>3. N < Cardinality(Block)
  <2> SUFFICES ASSUME ~(N < Cardinality(Block)) PROVE FALSE
    OBVIOUS
  <2> DEFINE D == (Cur + 1)..Written
             f == [k \in D |-> home[k]]
  <2>1. Cur + 1 \in Int /\ Written \in Int /\ ~(Cur + 1 > Written)
    OBVIOUS
  <2>2. IsFiniteSet((Cur + 1)..Written)
        /\ Cardinality((Cur + 1)..Written) = IF Cur + 1 > Written THEN 0 ELSE Written - (Cur + 1) + 1
    BY ONLY <2>1, FS_Interval
  <2>3. Cardinality(Block) < Cardinality(D)
    BY <1>2, <2>1, <2>2
  <2>4. f \in [D -> Block]
    BY <1>1
  <2>5. \A x, y \in D : f[x] = f[y] => x = y
    BY <1>1
  <2> HIDE DEF f, D
  <2>6. IsFiniteSet(D)
    BY <2>2 DEF D
  <2>7. \E x, y \in D : x # y /\ f[x] = f[y]
    BY ONLY <1>2, <2>3, <2>4, <2>6, FS_PigeonHole
  <2> QED BY <2>5, <2>7
<1>4. 0 \in S
  <2>1. After(bulk.first, 0) = bulk.first
    BY AfterSteps
  <2> QED BY <1>1, <1>2, <2>1
<1>5. ASSUME NEW n \in 0..(N - 1), n \in S PROVE n + 1 \in S
  <2>1. n + 1 \in 1..Cardinality(Block) /\ (n + 1) - 1 = n
    BY <1>2, <1>3
  <2>2. After(bulk.first, n + 1) = next[After(bulk.first, n)]
    <3>1. After(bulk.first, n + 1) = next[After(bulk.first, (n + 1) - 1)]
      BY <2>1, AfterSteps
    <3> QED BY <2>1, <3>1
  <2>3. Cur + 1 + n \in lo..(Written - 1) /\ (Cur + 1 + n) + 1 = Cur + 1 + (n + 1)
    BY <1>1, <1>2
  <2>4. next[home[Cur + 1 + n]] = home[Cur + 1 + (n + 1)]
    <3>1. next[home[Cur + 1 + n]] = home[(Cur + 1 + n) + 1]
      BY <1>1, <2>3
    <3> QED BY <2>3, <3>1
  <2>5. After(bulk.first, n) = home[Cur + 1 + n]
    BY <1>5
  <2>6. n + 1 \in 0..N
    BY <1>2
  <2> QED BY <2>2, <2>4, <2>5, <2>6
<1>6. ASSUME NEW k \in (Cur + 1)..Written PROVE After(bulk.first, k - Cur - 1) = home[k]
  <2>1. k - Cur - 1 \in 0..N /\ k - Cur - 1 \in Nat /\ Cur + 1 + (k - Cur - 1) = k
    BY <1>2
  <2>2. \A n \in 0..((k - Cur - 1) - 1) : n \in S => n + 1 \in S
    <3> SUFFICES ASSUME NEW n \in 0..((k - Cur - 1) - 1), n \in S PROVE n + 1 \in S
      OBVIOUS
    <3>1. n \in 0..(N - 1)
      BY <1>2, <2>1
    <3> HIDE DEF S, N
    <3> QED BY <1>5, <3>1
  <2>3. k - Cur - 1 \in S
    <3> HIDE DEF S, N
    <3> QED BY <1>4, <2>1, <2>2, UpTo
  <2> QED BY <2>1, <2>3
<1> QED BY <1>6

LEMMA NewBlocksAre ==
  ASSUME NEW lo, NEW home, NEW dead, RingOK(lo, home, dead), PastOK, ProducerOK, InBulk, AllBlocks
  PROVE  NewBlocks = {home[k] : k \in (Cur + 1)..Written}
<1>1. /\ Written = LastBlockNo /\ Cur <= Written /\ (bulk.first = Null <=> Written = Cur)
      /\ Written \in Int /\ Cur \in Int /\ Cur = BlockNo(tailIndex - 1)
  <2>1. bulk.tail \in Int /\ tailIndex - 1 \in Int
    BY DEF ProducerOK, Bulk
  <2> QED BY <2>1, BlockNoFacts DEF ProducerOK, AllBlocks, Written, Cur
<1>2. CASE bulk.first = Null
  <2>1. (Cur + 1)..Written = {}
    BY <1>1, <1>2
  <2> QED BY <1>2, <2>1 DEF NewBlocks
<1>3. CASE bulk.first # Null
  <2>1. Cur < Written /\ Top = Written
    BY <1>1, <1>3 DEF Top, InHand, InBulk
  <2>2. \A k \in (Cur + 1)..Written : After(bulk.first, k - Cur - 1) = home[k]
    BY <1>1, <1>3, <2>1, BulkBlocks
  <2>3. NewBlocks = {After(bulk.first, j) : j \in 0..(Written - Cur - 1)}
    BY <1>1, <1>3 DEF NewBlocks
  <2>4. \A k \in (Cur + 1)..Written : k - Cur - 1 \in 0..(Written - Cur - 1)
    BY <1>1
  <2>5. \A j \in 0..(Written - Cur - 1) : Cur + 1 + j \in (Cur + 1)..Written /\ (Cur + 1 + j) - Cur - 1 = j
    BY <1>1
  <2>6. \A j \in 0..(Written - Cur - 1) : After(bulk.first, j) = home[Cur + 1 + j]
    <3> SUFFICES ASSUME NEW j \in 0..(Written - Cur - 1)
                 PROVE  After(bulk.first, j) = home[Cur + 1 + j]
      OBVIOUS
    <3>1. After(bulk.first, (Cur + 1 + j) - Cur - 1) = home[Cur + 1 + j]
      BY <2>2, <2>5
    <3> QED BY <2>5, <3>1
  <2> QED BY <2>2, <2>3, <2>4, <2>5, <2>6
<1> QED BY <1>2, <1>3

(* The elements of a bulk are in blocks that are the producer's.           *)
LEMMA BulkElements ==
  ASSUME NEW lo, NEW home, NEW dead, RingOK(lo, home, dead), FlagsOK(lo, home, dead), PastOK,
         HeadOK, ProducerOK, InBulk, AllBlocks
  PROVE  \A n \in Elements : /\ n \in Nat /\ tailIndex <= n /\ n < tailIndex + bulk.count
                             /\ BlockNo(n) \in lo..Written /\ Cur <= BlockNo(n)
                             /\ BlockOf(n) = home[BlockNo(n)]
<1> SUFFICES ASSUME NEW n \in Elements
             PROVE  /\ n \in Nat /\ tailIndex <= n /\ n < tailIndex + bulk.count
                    /\ BlockNo(n) \in lo..Written /\ Cur <= BlockNo(n)
                    /\ BlockOf(n) = home[BlockNo(n)]
  OBVIOUS
<1>1. /\ Written = LastBlockNo /\ Cur <= Written /\ (bulk.first = Null <=> Written = Cur)
      /\ Written \in Int /\ Cur \in Int /\ Cur = BlockNo(tailIndex - 1)
      /\ tailIndex \in Nat /\ bulk.count \in Nat
  <2>1. bulk.tail \in Int /\ tailIndex - 1 \in Int
    BY DEF ProducerOK, Bulk
  <2> QED BY <2>1, BlockNoFacts DEF ProducerOK, AllBlocks, Written, Cur, Bulk
<1>2. n \in Nat /\ tailIndex <= n /\ n < tailIndex + bulk.count
  BY <1>1 DEF Elements
<1>3. BlockNo(n) \in Int /\ Cur <= BlockNo(n) /\ BlockNo(n) <= Written
  <2>1. /\ tailIndex - 1 \in Int /\ n \in Int /\ tailIndex + bulk.count - 1 \in Int
        /\ tailIndex - 1 <= n /\ n <= tailIndex + bulk.count - 1
    BY <1>1, <1>2
  <2> QED BY <1>1, <2>1, BlockNoFacts DEF LastBlockNo
<1>4. lo \in Int /\ lo <= Cur + 1
  BY DEF RingOK
<1>5. lo <= BlockNo(n)
  <2>1. n < First(lo) => n \in DoneSet
    BY <1>2 DEF FlagsOK
  <2>2. ~(n < First(lo))
    BY <1>2, <2>1 DEF DoneSet, HeadOK
  <2>3. n < First(BlockNo(n)) + BLOCK_SIZE /\ First(BlockNo(n)) \in Int /\ First(lo) \in Int
    BY <1>2, <1>3, <1>4, BlockNoFacts, FirstType
  <2>4. BlockNo(n) < lo => First(BlockNo(n)) + BLOCK_SIZE <= First(lo)
    BY <1>3, <1>4, FirstOrder
  <2> QED BY <1>2, <1>3, <1>4, <2>2, <2>3, <2>4, Sizes
<1>6. BlockOf(n) = home[BlockNo(n)]
  <2>1. CASE BlockNo(n) = Cur
    <3>1. start.tail = home[Cur]
      BY <1>5, <2>1 DEF RingOK
    <3>2. BlockNo(n) - Cur = 0
      BY <1>3, <2>1
    <3> QED BY <1>1, <2>1, <3>1, <3>2 DEF BlockOf
  <2>2. CASE BlockNo(n) # Cur
    <3>1. BlockNo(n) \in (Cur + 1)..Written /\ Cur < Written /\ BlockNo(n) - Cur # 0
      BY <1>1, <1>3, <2>2
    <3>2. bulk.first # Null /\ Top = Written
      BY <1>1, <3>1 DEF Top, InHand, InBulk
    <3>3. After(bulk.first, BlockNo(n) - Cur - 1) = home[BlockNo(n)]
      BY <1>1, <3>1, <3>2, BulkBlocks
    <3> QED BY <1>1, <3>1, <3>3 DEF BlockOf
  <2> QED BY <2>1, <2>2
<1> QED BY <1>1, <1>2, <1>3, <1>4, <1>5, <1>6

LEMMA FlagsReset ==
  ASSUME NEW lo, NEW home, NEW dead, RingOK(lo, home, dead), FlagsOK(lo, home, dead), PastOK,
         ProducerOK, BulkReset, Cur' = Cur, Top' = Top
  PROVE  FlagsOK(lo, home, dead)'
<1>1. DoneSet' = DoneSet
  BY DoneSame DEF BulkReset, locals, vars, counters, DoneFrame
<1>2. /\ InBulk /\ AllBlocks /\ ppc' = "constructAll"
      /\ emptyFlags' = [b \in Block |-> IF b \in NewBlocks THEN {} ELSE emptyFlags[b]]
  BY DEF BulkReset, InBulk, Pgoto
<1>3. NewBlocks = {home[k] : k \in (Cur + 1)..Written} /\ Top = Written
  BY <1>2, NewBlocksAre DEF Top, InHand, InBulk
<1>4. Cur \in Int /\ Written \in Int /\ Cur <= Written
  <2>1. bulk.tail \in Int /\ tailIndex - 1 \in Int
    BY DEF ProducerOK, Bulk
  <2> QED BY <1>2, <2>1, BlockNoFacts DEF ProducerOK, Written, Cur
<1>5. /\ lo \in Int /\ lo <= Cur + 1
      /\ \A k \in lo..Written : home[k] \in Block /\ home[k] \notin dead
      /\ \A j, k \in lo..Written : home[j] = home[k] => j = k
      /\ dead \subseteq Block
  BY <1>3 DEF RingOK, Owned
<1>6. ASSUME NEW k \in Int, lo <= k, k <= Cur PROVE emptyFlags'[home[k]] = emptyFlags[home[k]]
  <2>1. k \in lo..Written /\ home[k] \in Block
    BY <1>4, <1>5, <1>6
  <2>2. home[k] \notin NewBlocks
    <3> SUFFICES ASSUME NEW j \in (Cur + 1)..Written, home[j] = home[k] PROVE FALSE
      BY <1>3
    <3>1. j \in lo..Written /\ j # k
      BY <1>4, <1>5, <1>6
    <3> QED BY <1>5, <2>1, <3>1
  <2> QED BY <1>2, <2>1, <2>2
<1>7. ASSUME NEW k \in Int, Cur < k, k <= Written PROVE emptyFlags'[home[k]] = {}
  <2>1. k \in lo..Written /\ home[k] \in Block /\ home[k] \in NewBlocks
    BY <1>3, <1>4, <1>5, <1>7
  <2> QED BY <1>2, <2>1
<1>8. \A b \in dead : emptyFlags'[b] = {}
  BY <1>2, <1>5 DEF FlagsOK
<1>9. emptyFlags' \in [Block -> SUBSET Slots]
  BY <1>2 DEF FlagsOK
<1>10. \A k \in Int : lo <= k /\ k <= Cur =>
            emptyFlags[home[k]] = {i \in Slots : First(k) + i \in DoneSet}
  BY DEF FlagsOK
<1>11. \A n \in Int : n < First(lo) => n \in DoneSet
  BY DEF FlagsOK
<1>12. ~(ppc' \in {"reuse", "allocate"})
  BY <1>2
<1> QED BY <1>1, <1>3, <1>6, <1>7, <1>8, <1>9, <1>10, <1>11, <1>12 DEF FlagsOK

-----------------------------------------------------------------------------
(* The block index.                                                        *)
LEMMA IndexFacts ==
  ASSUME NEW o, NEW lo, NEW home, IndexOK(o, lo, home)
  PROVE  /\ HeadersType(o)
         /\ Newest = 0 => slotsUsed = 0 /\ front = 0 /\ tailIndex = 0
         /\ Newest > 0 => slotsUsed <= size /\ front = Ring(o[Newest], size, AtFront)
         /\ Newest > 0 => size = Capacity[Newest] /\ Newest \in 1..Newest /\ o[Newest] \in Int
                          /\ blockIndex = headers[Newest]
         /\ Newest \in Nat /\ size \in Nat /\ size > 0
         /\ Written - Window < lo /\ (InHand => Written - slotsUsed + 1 < lo)
         /\ \A k \in Int : Written - Window < k /\ k <= Written =>
                             headers[Newest].entries[Ring(o[Newest], Capacity[Newest], k)].base = Key(k)
         /\ \A k \in Int : lo <= k /\ k <= Written =>
                             headers[Newest].entries[Ring(o[Newest], Capacity[Newest], k)].block = home[k]
         /\ \A g \in 1..Newest : headers[g].front # -1 => AlignedAt(o, g, headers[g].front)
         /\ Newest > 0 /\ headers[Newest].front = -1 => tailIndex = 0 /\ ppc \notin {"publish", "publishAll"}
<1>1. HeadersType(o)
  BY DEF IndexOK
<1>2. Newest > 0 => size = Capacity[Newest] /\ Newest \in 1..Newest /\ o[Newest] \in Int
                    /\ blockIndex = headers[Newest]
  BY <1>1, SizeFacts
<1> QED BY <1>1, <1>2, SizeFacts DEF IndexOK, Entry

(* The index, and what it holds for the consumers, does not change.        *)
Frozen(o, lo) ==
  /\ Newest <= Newest'
  /\ \A g \in 1..Newest : headers[g].front # -1 => headers'[g].front # -1
  /\ \A g \in 1..Newest : \A p \in Int : AlignedAt(o, g, p) => AlignedAt(o, g, p)'
  /\ \A g \in 1..Newest : \A k \in Int : lo <= k /\ k <= Written =>
        headers'[g].entries[Ring(o[g], Capacity[g], k)].block
          = headers[g].entries[Ring(o[g], Capacity[g], k)].block

LEMMA FrozenIf ==
  ASSUME NEW o, NEW lo, HeadersType(o), UNCHANGED <<headers, past>>
  PROVE  Frozen(o, lo)
<1>1. Newest' = Newest /\ Newest <= Newest'
  BY SizeFacts DEF Newest
<1>2. \A g \in 1..Newest : \A p \in Int : AlignedAt(o, g, p) => AlignedAt(o, g, p)'
  BY DEF AlignedAt, Key
<1> QED BY <1>1, <1>2 DEF Frozen

LEMMA IndexStays ==
  ASSUME NEW o, NEW lo, NEW home, IndexOK(o, lo, home), UNCHANGED <<headers, front, past>>,
         Written \in Int, Window \in Int, Window' \in Int, Written' = Written, AtFront' = AtFront,
         NEW low \in Int, lo <= low, lo \in Int, Window' <= Window, Written - Window' < low,
         InHand' => Written - slotsUsed' + 1 < low,
         Newest > 0 => slotsUsed' <= size, Newest = 0 => slotsUsed' = 0 /\ tailIndex' = 0,
         NEW new, \A k \in low..Written : new[k] = home[k],
         Newest > 0 /\ headers[Newest].front = -1 => tailIndex' = 0 /\ ppc' \notin {"publish", "publishAll"}
  PROVE  IndexOK(o, low, new)' /\ Frozen(o, low)
<1>1. Newest' = Newest /\ size' = size /\ HeadersType(o)'
  BY IndexFacts DEF Newest, size, blockIndex, HeadersType
<1>2. /\ HeadersType(o)
      /\ Newest = 0 => front = 0
      /\ Newest > 0 => front = Ring(o[Newest], size, AtFront)
      /\ \A k \in Int : Written - Window < k /\ k <= Written =>
              headers[Newest].entries[Ring(o[Newest], Capacity[Newest], k)].base = Key(k)
      /\ \A k \in Int : lo <= k /\ k <= Written =>
              headers[Newest].entries[Ring(o[Newest], Capacity[Newest], k)].block = home[k]
      /\ \A g \in 1..Newest : headers[g].front # -1 => AlignedAt(o, g, headers[g].front)
  BY IndexFacts
<1>3. Frozen(o, low)
  BY <1>2, FrozenIf
<1>4. \A k \in Int : Key(k)' = Key(k)
  BY DEF Key
<1>5. \A k \in Int : Written - Window' < k /\ k <= Written =>
              headers[Newest].entries[Ring(o[Newest], Capacity[Newest], k)].base = Key(k)
  <2> SUFFICES ASSUME NEW k \in Int, Written - Window' < k, k <= Written
               PROVE  headers[Newest].entries[Ring(o[Newest], Capacity[Newest], k)].base = Key(k)
    OBVIOUS
  <2>1. Written - Window < k
    <3>1. \A w, x, y, z \in Int : y <= x /\ w - y < z => w - x < z
      OBVIOUS
    <3> QED BY <3>1
  <2> QED BY <1>2, <2>1
<1>6. \A k \in Int : low <= k /\ k <= Written =>
              headers[Newest].entries[Ring(o[Newest], Capacity[Newest], k)].block = new[k]
  BY <1>2
<1>7. \A g \in 1..Newest : headers[g].front # -1 => AlignedAt(o, g, headers[g].front)'
  BY <1>2 DEF AlignedAt, Key
<1>8. IndexOK(o, low, new)'
  BY <1>1, <1>2, <1>4, <1>5, <1>6, <1>7 DEF IndexOK, Entry
<1> QED BY <1>3, <1>8

(* An entry is stored.                                                     *)
LEMMA IndexSet ==
  ASSUME PastOK, past' = past, NEW o, NEW lo, NEW home, IndexOK(o, lo, home), Newest > 0,
         NEW b \in Block, SetEntry(First(Written + 1), b),
         AtFront = Written + 1, Written \in Int, Window \in Int, slotsUsed' \in Int, slotsUsed' <= size,
         Written' = Written + 1, Window' = slotsUsed', slotsUsed' <= Window + 1, lo \in Int,
         NEW low \in Int, lo <= low, Written + 1 - slotsUsed' < low, ~InHand',
         NEW new, new[Written + 1] = b, \A k \in low..Written : new[k] = home[k],
         \/ front' = front /\ AtFront' = AtFront
         \/ front' = NextFront /\ AtFront' = AtFront + 1,
         tailIndex' = tailIndex, ppc' \notin {"publish", "publishAll"}
  PROVE  IndexOK(o, low, new)' /\ Frozen(o, low)
<1> DEFINE w == Written + 1
           R(k) == Ring(o[Newest], Capacity[Newest], k)
<1>1. /\ HeadersType(o) /\ size = Capacity[Newest] /\ Newest \in 1..Newest /\ o[Newest] \in Int
      /\ size \in Nat /\ size > 0 /\ front = Ring(o[Newest], size, w)
      /\ \A k \in Int : Written - Window < k /\ k <= Written => headers[Newest].entries[R(k)].base = Key(k)
      /\ \A k \in Int : lo <= k /\ k <= Written => headers[Newest].entries[R(k)].block = home[k]
      /\ \A g \in 1..Newest : headers[g].front # -1 => AlignedAt(o, g, headers[g].front)
      /\ headers[Newest].front = -1 => tailIndex = 0
  BY IndexFacts
<1>2. /\ front \in 0..(size - 1) /\ front = R(w) /\ w \in Int /\ First(w) \in Int /\ Idx(First(w)) = Key(w)
      /\ \A k \in Int : R(k) \in 0..(size - 1)
  <2>1. w \in Int
    OBVIOUS
  <2> HIDE DEF w
  <2> QED BY <1>1, <2>1, RingType, FirstType, KeyFacts
<1>3. /\ HeadersType(o)' /\ Newest' = Newest /\ size' = size
      /\ \A g \in 1..Newest : headers'[g].front = headers[g].front
      /\ \A g \in 1..Newest : g # Newest => headers'[g] = headers[g]
      /\ headers'[Newest].entries[front] = [base |-> Key(w), block |-> b]
      /\ \A p \in 0..(size - 1) : p # front => headers'[Newest].entries[p] = headers[Newest].entries[p]
  <2>1. SetEntry(First(w), b) /\ b \in Block \cup {Null}
    OBVIOUS
  <2> HIDE DEF w
  <2> QED BY <1>1, <1>2, <2>1, SetEntryFacts
<1>4. \A k \in Int : Key(k)' = Key(k)
  BY DEF Key
<1> HIDE DEF R
<1>5. ASSUME NEW k \in Int, Written + 1 - slotsUsed' < k, k <= Written
      PROVE  R(k) # front
  <2>1. w - size < k /\ k <= (w - size) + size /\ w - size < w /\ w <= (w - size) + size /\ k # w
        /\ w - size \in Int
    BY <1>1, <1>2, <1>5
  <2> SUFFICES ASSUME R(k) = front PROVE FALSE
    OBVIOUS
  <2>2. Ring(o[Newest], size, k) = Ring(o[Newest], size, w)
    BY <1>1 DEF R
  <2>3. k = w
    <3> HIDE DEF w
    <3> QED BY <1>1, <1>2, <2>1, <2>2, RingOnce
  <2> QED BY <2>1, <2>3
<1>6. headers'[Newest].entries[R(w)].base = Key(w) /\ headers'[Newest].entries[R(w)].block = b
  BY <1>2, <1>3
<1>7. ASSUME NEW k \in Int, w - slotsUsed' < k, k <= w
      PROVE  headers'[Newest].entries[R(k)].base = Key(k)
  <2>1. CASE k = w
    BY <1>6, <2>1
  <2>2. CASE k # w
    <3>1. k <= Written /\ Written - Window < k /\ R(k) # front
      BY <1>5, <1>7, <2>2
    <3> HIDE DEF w
    <3> QED BY <1>1, <1>2, <1>3, <3>1
  <2> QED BY <2>1, <2>2
<1>8. ASSUME NEW k \in Int, low <= k, k <= Written
      PROVE  headers'[Newest].entries[R(k)] = headers[Newest].entries[R(k)]
  <2>1. R(k) # front
    BY <1>5, <1>8
  <2> QED BY <1>2, <1>3, <2>1
<1>9. ASSUME NEW k \in Int, low <= k, k <= w
      PROVE  headers'[Newest].entries[R(k)].block = new[k]
  <2>1. CASE k = w
    BY <1>6, <2>1
  <2>2. CASE k # w
    <3>1. k <= Written /\ lo <= k /\ k \in low..Written
      BY <1>9, <2>2
    <3> HIDE DEF w
    <3> QED BY <1>1, <1>8, <1>9, <3>1
  <2> QED BY <2>1, <2>2
<1>10. ASSUME NEW g \in 1..Newest, NEW p \in Int, AlignedAt(o, g, p) PROVE AlignedAt(o, g, p)'
  <2>1. CASE g # Newest
    BY <1>3, <1>4, <1>10, <2>1 DEF AlignedAt
  <2>2. CASE g = Newest
    <3>1. CASE p = front
      BY <1>2, <1>4, <1>6, <2>2, <3>1 DEF AlignedAt, R
    <3>2. CASE p # front
      <4>1. PICK a \in Int : p = R(a) /\ headers[Newest].entries[p].base = Key(a)
        BY <1>10, <2>2 DEF AlignedAt, R
      <4>2. headers'[Newest].entries[p] = headers[Newest].entries[p]
        BY <1>2, <1>3, <3>2, <4>1
      <4> QED BY <1>4, <2>2, <4>1, <4>2 DEF AlignedAt, R
    <3> QED BY <3>1, <3>2
  <2> QED BY <2>1, <2>2
<1>11. Frozen(o, low)
  <2>1. Newest <= Newest'
    BY <1>3, IndexFacts
  <2>2. \A g \in 1..Newest : headers[g].front # -1 => headers'[g].front # -1
    BY <1>3
  <2>3. ASSUME NEW g \in 1..Newest, NEW k \in Int, low <= k, k <= Written
        PROVE  headers'[g].entries[Ring(o[g], Capacity[g], k)].block
                 = headers[g].entries[Ring(o[g], Capacity[g], k)].block
    <3>1. CASE g = Newest
      BY <1>8, <2>3, <3>1 DEF R
    <3>2. CASE g # Newest
      BY <1>3, <3>2
    <3> QED BY <3>1, <3>2
  <2> QED BY <1>10, <2>1, <2>2, <2>3 DEF Frozen
<1>12. front' = Ring(o[Newest], size, AtFront')
  <2>1. CASE front' = front /\ AtFront' = AtFront
    BY <1>1, <2>1
  <2>2. CASE front' = NextFront /\ AtFront' = AtFront + 1
    <3>1. (Ring(o[Newest], size, w) + 1) % size = Ring(o[Newest], size, w + 1)
      <4> HIDE DEF w
      <4> QED BY <1>1, <1>2, RingStep
    <3> QED BY <1>1, <2>2, <3>1 DEF NextFront
  <2> QED BY <2>1, <2>2
<1>13. \A g \in 1..Newest : headers'[g].front # -1 => AlignedAt(o, g, headers[g].front)'
  <2> SUFFICES ASSUME NEW g \in 1..Newest, headers'[g].front # -1
               PROVE  AlignedAt(o, g, headers[g].front)'
    OBVIOUS
  <2>1. headers'[g].front = headers[g].front /\ headers[g].front \in Int
    <3>1. headers[g].front \in -1..(Capacity[g] - 1)
      BY <1>1, HeaderAt
    <3> QED BY <1>3, <3>1
  <2>2. AlignedAt(o, g, headers[g].front)
    BY <1>1, <2>1
  <2>3. PICK p \in Int : p = headers[g].front /\ AlignedAt(o, g, p)
    BY <2>1, <2>2
  <2>4. AlignedAt(o, g, p)'
    BY <1>10, <2>3
  <2> QED BY <2>1, <2>3, <2>4 DEF AlignedAt
<1>14. IndexOK(o, low, new)'
  <2>1. w - slotsUsed' < low /\ Written' = w
    OBVIOUS
  <2> HIDE DEF w, InHand
  <2>2. /\ HeadersType(o)' /\ Newest' = Newest /\ Newest > 0 /\ size' = size
        /\ slotsUsed' <= size' /\ front' = Ring(o[Newest], size', AtFront')
    BY <1>1, <1>3, <1>12
  <2>3. Written' - Window' < low /\ ~InHand'
    BY <2>1
  <2>4. \A k \in Int : Written' - Window' < k /\ k <= Written' =>
           headers'[Newest].entries[Ring(o[Newest], Capacity[Newest], k)].base = Key(k)'
    BY <1>4, <1>7, <2>1 DEF R
  <2>5. \A k \in Int : low <= k /\ k <= Written' =>
           headers'[Newest].entries[Ring(o[Newest], Capacity[Newest], k)].block = new[k]
    BY <1>9, <2>1 DEF R
  <2>6. \A g \in 1..Newest' : headers'[g].front # -1 => AlignedAt(o, g, headers[g].front)'
    BY <1>3, <1>13
  <2>7. headers'[Newest].front = -1 => tailIndex' = 0 /\ ppc' \notin {"publish", "publishAll"}
    BY <1>1, <1>3
  <2>8. /\ \A k \in Int : Written' - Window' < k /\ k <= Written' => Entry(o, Newest, k)'.base = Key(k)'
        /\ \A k \in Int : low <= k /\ k <= Written' => Entry(o, Newest, k)'.block = new[k]
    BY <2>2, <2>4, <2>5 DEF Entry
  <2> HIDE DEF Entry, AlignedAt, HeadersType
  <2>9. /\ Newest' = 0 => slotsUsed' = 0 /\ front' = 0 /\ tailIndex' = 0
        /\ Newest' > 0 => slotsUsed' <= size' /\ front' = Ring(o[Newest'], size', AtFront')
        /\ Newest' > 0 /\ headers'[Newest'].front = -1 => tailIndex' = 0 /\ ppc' \notin {"publish", "publishAll"}
    BY <2>2, <2>7
  <2> QED BY <2>2, <2>3, <2>6, <2>8, <2>9 DEF IndexOK
<1> QED BY <1>11, <1>14

(* The newest block becomes the front.                                     *)
LEMMA IndexFront ==
  ASSUME PastOK, past' = past, NEW o, NEW lo, NEW home, IndexOK(o, lo, home), Newest > 0, lo \in Int,
         NEW f, f = Ring(o[Newest], size, Written),
         headers' = [headers EXCEPT ![Len(headers)].front = f],
         Written \in Int, Window \in Nat, Window > 0, Window' = Window, Written' = Written,
         \/ front' = front /\ AtFront' = AtFront
         \/ front' = NextFront /\ AtFront' = AtFront + 1,
         AtFront \in Int, UNCHANGED slotsUsed, ~InHand'
  PROVE  IndexOK(o, lo, home)' /\ Frozen(o, lo)
<1> DEFINE R(k) == Ring(o[Newest], Capacity[Newest], k)
<1>1. /\ HeadersType(o) /\ size = Capacity[Newest] /\ Newest \in 1..Newest /\ o[Newest] \in Int
      /\ size \in Nat /\ size > 0 /\ slotsUsed <= size /\ front = Ring(o[Newest], size, AtFront)
      /\ Newest \in Nat
      /\ \A k \in Int : Written - Window < k /\ k <= Written => headers[Newest].entries[R(k)].base = Key(k)
      /\ \A k \in Int : lo <= k /\ k <= Written => headers[Newest].entries[R(k)].block = home[k]
      /\ \A g \in 1..Newest : headers[g].front # -1 => AlignedAt(o, g, headers[g].front)
      /\ Written - Window < lo
  BY IndexFacts
<1>2. f \in 0..(size - 1) /\ f = R(Written) /\ f # -1
  <2>1. f \in 0..(size - 1)
    BY <1>1, RingType
  <2> QED BY <1>1, <2>1
<1>3. /\ HeadersType(o)' /\ Newest' = Newest /\ size' = size
      /\ \A g \in 1..Newest : headers'[g].entries = headers[g].entries
      /\ \A g \in 1..Newest : g # Newest => headers'[g] = headers[g]
      /\ headers'[Newest].front = f
  BY <1>1, <1>2, SetFrontFacts
<1>4. \A k \in Int : Key(k)' = Key(k)
  BY DEF Key
<1> HIDE DEF R
<1>5. ASSUME NEW g \in 1..Newest, NEW p, AlignedAt(o, g, p) PROVE AlignedAt(o, g, p)'
  BY <1>3, <1>4, <1>5 DEF AlignedAt
<1>6. Frozen(o, lo)
  <2>1. \A g \in 1..Newest : headers[g].front # -1 => headers'[g].front # -1
    BY <1>2, <1>3
  <2>2. Newest <= Newest'
    BY <1>1, <1>3
  <2> QED BY <1>3, <1>5, <2>1, <2>2 DEF Frozen
<1>7. ASSUME NEW g \in 1..Newest, headers'[g].front # -1
      PROVE  (\E p : p = headers[g].front /\ AlignedAt(o, g, p))'
  <2>1. CASE g = Newest
    <3>1. headers[Newest].entries[f].base = Key(Written) /\ f = R(Written)
      <4>1. Written \in Int /\ Written - Window < Written /\ Written <= Written
        OBVIOUS
      <4>2. headers[Newest].entries[R(Written)].base = Key(Written)
        BY <1>1, <4>1
      <4> QED BY <1>2, <4>2
    <3>2. headers'[Newest].entries[f].base = Key(Written)' /\ f = Ring(o[g], Capacity[g], Written)
      BY <1>1, <1>3, <1>4, <2>1, <3>1 DEF R
    <3>3. AlignedAt(o, g, f)'
      BY <2>1, <3>2 DEF AlignedAt
    <3> QED BY <1>3, <2>1, <3>3
  <2>2. CASE g # Newest
    <3>1. headers'[g] = headers[g] /\ AlignedAt(o, g, headers[g].front)
      BY <1>1, <1>3, <1>7, <2>2
    <3>2. PICK p : p = headers[g].front /\ AlignedAt(o, g, p)
      BY <3>1
    <3>3. AlignedAt(o, g, p)'
      BY <1>5, <3>2
    <3> QED BY <3>1, <3>2, <3>3
  <2> QED BY <2>1, <2>2
<1>8. front' = Ring(o[Newest], size, AtFront')
  <2>1. CASE front' = front /\ AtFront' = AtFront
    BY <1>1, <2>1
  <2>2. CASE front' = NextFront /\ AtFront' = AtFront + 1
    <3>1. (Ring(o[Newest], size, AtFront) + 1) % size = Ring(o[Newest], size, AtFront + 1)
      BY <1>1, RingStep
    <3> QED BY <1>1, <2>2, <3>1 DEF NextFront
  <2> QED BY <2>1, <2>2
<1>9. /\ Newest' = 0 => slotsUsed' = 0 /\ front' = 0 /\ tailIndex' = 0
      /\ Newest' > 0 => slotsUsed' <= size' /\ front' = Ring(o[Newest'], size', AtFront')
      /\ Newest' > 0 /\ headers'[Newest'].front = -1 => tailIndex' = 0 /\ ppc' \notin {"publish", "publishAll"}
      /\ Written' - Window' < lo
  BY <1>1, <1>2, <1>3, <1>8
<1>10. /\ \A k \in Int : Written' - Window' < k /\ k <= Written' => Entry(o, Newest, k)'.base = Key(k)'
       /\ \A k \in Int : lo <= k /\ k <= Written' => Entry(o, Newest, k)'.block = home[k]
  BY <1>1, <1>3, <1>4 DEF Entry, R
<1>11. \A g \in 1..Newest' : headers'[g].front # -1 => AlignedAt(o, g, headers[g].front)'
  <2> SUFFICES ASSUME NEW g \in 1..Newest, headers'[g].front # -1
               PROVE  AlignedAt(o, g, headers[g].front)'
    BY <1>3
  <2> QED BY <1>7
<1>12. IndexOK(o, lo, home)'
  <2> HIDE DEF Entry, AlignedAt, HeadersType, InHand
  <2> QED BY <1>3, <1>9, <1>10, <1>11 DEF IndexOK
<1> QED BY <1>6, <1>12

(* The index grows.                                                        *)
LEMMA IndexGrow ==
  ASSUME PastOK, past' = past, NEW o, NEW lo, NEW home, IndexOK(o, lo, home), lo \in Int,
         slotsUsed \in Nat, Written \in Int, AtFront = Written + 1, Window = slotsUsed,
         NEW x \in 0..slotsUsed, Grow(x), tailIndex > 0 => x > 0, tailIndex \in Nat,
         NEW q, q = Grown(o, Written),
         Written' = Written, Window' = Window, AtFront' = AtFront, UNCHANGED <<slotsUsed, tailIndex>>,
         ~InHand', ppc' \notin {"publish", "publishAll"}
  PROVE  /\ IndexOK(q, lo, home)' /\ Frozen(o, lo) /\ Newest' > 0 /\ HasRoom' /\ front' = slotsUsed
         /\ \A g \in 1..Newest : q[g] = o[g]
<1> DEFINE s == Written + 1 - slotsUsed
<1>1. /\ HeadersType(o) /\ Newest \in Nat /\ size \in Nat /\ size > 0 /\ slotsUsed <= size
      /\ Newest = 0 => slotsUsed = 0
      /\ Newest > 0 => front = Ring(o[Newest], size, Written + 1) /\ size = Capacity[Newest]
      /\ \A k \in Int : Written - slotsUsed < k /\ k <= Written =>
            headers[Newest].entries[Ring(o[Newest], Capacity[Newest], k)].base = Key(k)
      /\ \A k \in Int : lo <= k /\ k <= Written =>
            headers[Newest].entries[Ring(o[Newest], Capacity[Newest], k)].block = home[k]
      /\ \A g \in 1..Newest : headers[g].front # -1 => AlignedAt(o, g, headers[g].front)
      /\ Written - slotsUsed < lo
  BY IndexFacts
<1>2. /\ HeadersType(q)' /\ Newest' = Newest + 1 /\ size' = 2 * size
      /\ headers' # <<>> /\ slotsUsed < size'
      /\ \A g \in 1..Newest : headers'[g] = headers[g] /\ q[g] = o[g]
      /\ headers'[Newest + 1].front = x - 1
      /\ q[Newest + 1] = s
      /\ \A k \in Int : Written - slotsUsed < k /\ k <= Written =>
           /\ Ring(s, size', k) = k - s
           /\ headers'[Newest + 1].entries[k - s] = headers[Newest].entries[Ring(o[Newest], size, k)]
      /\ front' = Ring(s, size', Written + 1)
  <2>1. Newest > 0 => front = Ring(o[Newest], size, Written + 1)
    BY <1>1
  <2>2. HeadersType(o) /\ slotsUsed <= size /\ (Newest = 0 => slotsUsed = 0)
    BY <1>1
  <2> HIDE DEF s
  <2>3. /\ HeadersType(q)' /\ Newest' = Newest + 1 /\ size' = 2 * size
        /\ headers' # <<>> /\ slotsUsed < size'
        /\ \A g \in 1..Newest : headers'[g] = headers[g] /\ q[g] = o[g]
        /\ headers'[Newest + 1].front = x - 1
        /\ q[Newest + 1] = Written + 1 - slotsUsed
        /\ \A k \in Int : Written - slotsUsed < k /\ k <= Written =>
             /\ Ring(Written + 1 - slotsUsed, size', k) = k - (Written + 1 - slotsUsed)
             /\ headers'[Newest + 1].entries[k - (Written + 1 - slotsUsed)]
                  = headers[Newest].entries[Ring(o[Newest], size, k)]
        /\ front' = Ring(Written + 1 - slotsUsed, size', Written + 1)
    <3>1. PICK w \in Int : w = Written
      OBVIOUS
    <3>2. q = Grown(o, w) /\ (Newest > 0 => front = Ring(o[Newest], size, w + 1))
      BY <2>1, <3>1
    <3>3. /\ HeadersType(q)' /\ Newest' = Newest + 1 /\ size' = 2 * size
          /\ headers' # <<>> /\ slotsUsed < size'
          /\ \A g \in 1..Newest : headers'[g] = headers[g] /\ q[g] = o[g]
          /\ headers'[Newest + 1].front = x - 1
          /\ q[Newest + 1] = w + 1 - slotsUsed
          /\ \A k \in Int : w - slotsUsed < k /\ k <= w =>
               /\ Ring(w + 1 - slotsUsed, size', k) = k - (w + 1 - slotsUsed)
               /\ headers'[Newest + 1].entries[k - (w + 1 - slotsUsed)]
                    = headers[Newest].entries[Ring(o[Newest], size, k)]
          /\ front' = Ring(w + 1 - slotsUsed, size', w + 1)
      BY <2>2, <3>2, GrowFacts
    <3> QED BY <3>1, <3>3
  <2> QED BY <2>3 DEF s
<1>3. front' = slotsUsed
  BY DEF Grow
<1>4. Capacity[Newest + 1] = size' /\ Newest < MaxHeaders
  <2>1. Newest < MaxHeaders
    BY DEF Grow, Newest
  <2> QED BY <1>1, <1>2, <2>1, SizeFacts
<1>5. \A k \in Int : Key(k)' = Key(k)
  BY DEF Key
<1>6. ASSUME NEW k \in Int, Written - slotsUsed < k, k <= Written
      PROVE  /\ headers'[Newest + 1].entries[Ring(s, size', k)].base = Key(k)
             /\ Ring(s, size', k) = k - s
             /\ lo <= k => headers'[Newest + 1].entries[Ring(s, size', k)].block = home[k]
  <2>1. Newest > 0 /\ size = Capacity[Newest]
    BY <1>1, <1>6
  <2>2. /\ Ring(s, size', k) = k - s
        /\ headers'[Newest + 1].entries[k - s] = headers[Newest].entries[Ring(o[Newest], size, k)]
    BY <1>2, <1>6
  <2> HIDE DEF s
  <2> QED BY <1>1, <1>6, <2>1, <2>2
<1>7. ASSUME NEW g \in 1..Newest, NEW p, AlignedAt(o, g, p)
      PROVE  AlignedAt(o, g, p)' /\ AlignedAt(q, g, p)'
  BY <1>2, <1>5, <1>7 DEF AlignedAt
<1>8. Frozen(o, lo)
  <2>1. \A g \in 1..Newest : \A p \in Int : AlignedAt(o, g, p) => AlignedAt(o, g, p)'
    BY <1>7
  <2>2. Newest <= Newest' /\ \A g \in 1..Newest : headers'[g] = headers[g]
    BY <1>1, <1>2
  <2> QED BY <2>1, <2>2 DEF Frozen
<1>9. ASSUME NEW g \in 1..(Newest + 1), headers'[g].front # -1
      PROVE  (\E p : p = headers[g].front /\ AlignedAt(q, g, p))'
  <2>1. CASE g = Newest + 1
    <3> DEFINE k == s + (x - 1)
    <3>1. x > 0 /\ k \in Int /\ Written - slotsUsed < k /\ k <= Written /\ k - s = x - 1
      BY <1>2, <1>9, <2>1
    <3>2. headers'[Newest + 1].entries[x - 1].base = Key(k) /\ Ring(s, size', k) = x - 1
      <4> HIDE DEF k, s
      <4> QED BY <1>6, <3>1
    <3>3. AlignedAt(q, g, x - 1)'
      <4> HIDE DEF k, s
      <4> QED BY <1>2, <1>4, <1>5, <2>1, <3>1, <3>2 DEF AlignedAt
    <3> QED BY <1>2, <2>1, <3>3
  <2>2. CASE g # Newest + 1
    <3>1. g \in 1..Newest
      BY <1>1, <2>2
    <3>2. headers'[g] = headers[g] /\ AlignedAt(o, g, headers[g].front)
      BY <1>1, <1>2, <1>9, <3>1
    <3>3. PICK p : p = headers[g].front /\ AlignedAt(o, g, p)
      BY <3>2
    <3>4. AlignedAt(q, g, p)'
      BY <1>7, <3>1, <3>3
    <3> QED BY <3>2, <3>3, <3>4
  <2> QED BY <2>1, <2>2
<1>10. \A g \in 1..Newest' : headers'[g].front # -1 => AlignedAt(q, g, headers[g].front)'
  <2> SUFFICES ASSUME NEW g \in 1..(Newest + 1), headers'[g].front # -1
               PROVE  AlignedAt(q, g, headers[g].front)'
    BY <1>2
  <2> QED BY <1>9
<1>11. /\ Newest' > 0 /\ slotsUsed' <= size' /\ front' = Ring(q[Newest'], size', AtFront')
       /\ Written' - Window' < lo
       /\ headers'[Newest'].front = -1 => tailIndex' = 0 /\ ppc' \notin {"publish", "publishAll"}
  <2>1. headers'[Newest'].front = -1 => x = 0
    BY <1>2
  <2>2. Newest' > 0 /\ slotsUsed <= size'
    <3>1. Newest' = Newest + 1 /\ size' = 2 * size /\ slotsUsed < size'
      BY <1>2
    <3> QED BY <1>1, <3>1
  <2> HIDE DEF s
  <2> QED BY <1>1, <1>2, <2>1, <2>2
<1>12. /\ \A k \in Int : Written' - Window' < k /\ k <= Written' => Entry(q, Newest, k)'.base = Key(k)'
       /\ \A k \in Int : lo <= k /\ k <= Written' => Entry(q, Newest, k)'.block = home[k]
  <2>1. \A k \in Int : Entry(q, Newest, k)' = headers'[Newest + 1].entries[Ring(s, size', k)]
    <3> HIDE DEF s
    <3> QED BY <1>2, <1>4 DEF Entry
  <2>2. \A k \in Int : lo <= k => Written - slotsUsed < k
    BY <1>1
  <2> HIDE DEF s
  <2> QED BY <1>5, <1>6, <2>1, <2>2
<1>13. IndexOK(q, lo, home)'
  <2> HIDE DEF Entry, AlignedAt, HeadersType, InHand
  <2> QED BY <1>2, <1>10, <1>11, <1>12 DEF IndexOK
<1>14. HasRoom'
  BY <1>2 DEF HasRoom
<1> QED BY <1>2, <1>3, <1>8, <1>11, <1>13, <1>14

-----------------------------------------------------------------------------
(* The consumers.  Those that are inside are in blocks of the queue.       *)
LEMMA ActiveBlocks ==
  ASSUME PastOK, HeadOK, ConsumersOK, NEW low \in Int, \A n \in Int : n < First(low) => n \in DoneSet
  PROVE  \A c \in Consumer : at[c] # "none" =>
           /\ FirstBlock(c) \in Int /\ LastBlock(c) \in Int
           /\ low <= FirstBlock(c) /\ FirstBlock(c) <= LastBlock(c) /\ LastBlock(c) <= Cur
           /\ index[c] \in Nat /\ end[c] \in Nat /\ index[c] < end[c] /\ end[c] <= headIndex
           /\ tailIndex > 0
<1> SUFFICES ASSUME NEW c \in Consumer, at[c] # "none"
             PROVE  /\ FirstBlock(c) \in Int /\ LastBlock(c) \in Int
                    /\ low <= FirstBlock(c) /\ FirstBlock(c) <= LastBlock(c) /\ LastBlock(c) <= Cur
                    /\ index[c] \in Nat /\ end[c] \in Nat /\ index[c] < end[c] /\ end[c] <= headIndex
                    /\ tailIndex > 0
  OBVIOUS
<1>1. index[c] \in Nat /\ end[c] \in Nat /\ index[c] < end[c] /\ end[c] <= headIndex
      /\ headIndex <= tailIndex /\ tailIndex \in Nat /\ headIndex \in Nat /\ tailIndex > 0
  BY DEF ConsumersOK, HeadOK
<1>2. /\ index[c] \in Int /\ end[c] - 1 \in Int /\ tailIndex - 1 \in Int
      /\ index[c] <= end[c] - 1 /\ end[c] - 1 <= tailIndex - 1
  BY <1>1
<1>3. /\ FirstBlock(c) \in Int /\ LastBlock(c) \in Int /\ FirstBlock(c) <= LastBlock(c)
      /\ LastBlock(c) <= Cur /\ First(FirstBlock(c)) <= index[c]
      /\ index[c] < First(FirstBlock(c)) + BLOCK_SIZE
  BY <1>2, BlockNoFacts DEF FirstBlock, LastBlock, Cur
<1>4. ~(index[c] < First(low))
  <2>1. index[c] \notin DoneSet
    BY <1>1 DEF DoneSet, Uncounted
  <2> QED BY <1>2, <2>1
<1>5. low <= FirstBlock(c)
  <2>1. First(low) \in Int /\ First(FirstBlock(c)) \in Int
    BY <1>3, FirstType
  <2>2. FirstBlock(c) < low => First(FirstBlock(c)) + BLOCK_SIZE <= First(low)
    BY <1>3, FirstOrder
  <2> QED BY <1>1, <1>3, <1>4, <2>1, <2>2, Sizes
<1> QED BY <1>1, <1>3, <1>5

(* What the producer does to the index and to the blocks ahead of them     *)
(* does not matter to the consumers.                                       *)
LEMMA WalksStay ==
  ASSUME PastOK, past' = past, HeadOK, ConsumersOK, NEW low \in Int, \A n \in Int : n < First(low) => n \in DoneSet,
         NEW o, NEW home, WalksOK(o, home), HeadersType(o), Frozen(o, low),
         NEW q, NEW new, \A g \in 1..Newest : q[g] = o[g],
         \A k \in low..Cur : new[k] = home[k], Cur \in Int, Written \in Int, Cur <= Written,
         DoneFrame, UNCHANGED <<hdr, ipos, block>>, Newest' \in Nat
  PROVE  WalksOK(q, new)'
<1> SUFFICES ASSUME NEW c \in Consumer PROVE WalkAt(q, new, c)'
  BY DEF WalksOK
<1>1. WalkAt(o, home, c)
  BY DEF WalksOK
<1>2. /\ at'[c] = at[c] /\ hdr'[c] = hdr[c] /\ ipos'[c] = ipos[c] /\ block'[c] = block[c]
      /\ FirstBlock(c)' = FirstBlock(c) /\ LastBlock(c)' = LastBlock(c)
  BY DEF DoneFrame, FirstBlock, LastBlock, BlockNo
<1>3. CASE at[c] \in {"none", "header"}
  BY <1>2, <1>3 DEF WalkAt
<1>4. CASE at[c] \notin {"none", "header"}
  <2>1. /\ FirstBlock(c) \in Int /\ LastBlock(c) \in Int
        /\ low <= FirstBlock(c) /\ FirstBlock(c) <= LastBlock(c) /\ LastBlock(c) <= Cur
    BY <1>4, ActiveBlocks
  <2>2. hdr[c] \in 1..Newest /\ hdr[c] \in 1..Newest' /\ q[hdr[c]] = o[hdr[c]]
    <3>1. hdr[c] \in 1..Newest /\ Newest <= Newest' /\ Newest \in Nat
      BY <1>1, <1>4, SizeFacts DEF WalkAt, Frozen
    <3> QED BY <3>1
  <2>3. ASSUME NEW k \in Int, FirstBlock(c) <= k, k <= LastBlock(c)
        PROVE  Entry(q, hdr[c], k)'.block = new[k]
    <3>1. low <= k /\ k <= Written /\ k \in low..Cur
      BY <2>1, <2>3
    <3>2. Entry(o, hdr[c], k).block = home[k]
      BY <1>1, <1>4, <2>3 DEF WalkAt
    <3>3. headers'[hdr[c]].entries[Ring(o[hdr[c]], Capacity[hdr[c]], k)].block
            = headers[hdr[c]].entries[Ring(o[hdr[c]], Capacity[hdr[c]], k)].block
      BY <2>2, <3>1 DEF Frozen
    <3> QED BY <1>2, <2>2, <3>1, <3>2, <3>3 DEF Entry
  <2>4. at[c] = "front" => headers'[hdr[c]].front # -1
    BY <1>1, <2>2 DEF WalkAt, Frozen
  <2>5. at[c] = "base" => AlignedAt(q, hdr[c], ipos[c])'
    <3> SUFFICES ASSUME at[c] = "base" PROVE AlignedAt(q, hdr[c], ipos[c])'
      OBVIOUS
    <3>1. PICK g \in 1..Newest : g = hdr[c]
      BY <2>2
    <3>2. PICK p \in Int : p = ipos[c]
      BY DEF ConsumersOK
    <3>3. AlignedAt(o, g, p)
      BY <1>1, <3>1, <3>2 DEF WalkAt
    <3>4. AlignedAt(o, g, p)'
      BY <3>3 DEF Frozen
    <3>5. q[g] = o[g] /\ hdr'[c] = g /\ ipos'[c] = p
      BY <1>2, <3>1, <3>2
    <3> QED BY <3>4, <3>5 DEF AlignedAt
  <2>6. at[c] \in {"block", "move", "setEmpty"} =>
            ipos[c] = Ring(q[hdr[c]], Capacity[hdr[c]], FirstBlock(c))
    BY <1>1, <2>2 DEF WalkAt
  <2>7. at[c] \in {"move", "setEmpty"} => block[c] = new[FirstBlock(c)]
    BY <1>1, <2>1 DEF WalkAt
  <2>8. \A k \in Int : FirstBlock(c)' <= k /\ k <= LastBlock(c)' => Entry(q, hdr[c], k)'.block = new[k]
    BY <1>2, <2>3
  <2> HIDE DEF Entry, AlignedAt
  <2> QED BY <1>2, <2>2, <2>4, <2>5, <2>6, <2>7, <2>8 DEF WalkAt
<1> QED BY <1>3, <1>4

-----------------------------------------------------------------------------
(* The steps of the producer.                                              *)
LEMMA MemoryFacts ==
  ASSUME NEW o, NEW lo, NEW home, NEW dead, HeadOK, PastOK, ProducerOK, IndexOK(o, lo, home),
         RingOK(lo, home, dead)
  PROVE  /\ Cur \in Int /\ Written \in Int /\ Top \in Int /\ Cur <= Written /\ Written <= Top
         /\ AtFront \in Int /\ Window \in Nat /\ tailIndex \in Nat /\ slotsUsed \in Nat /\ front \in Nat
         /\ lo \in Int /\ lo <= Cur + 1 /\ Newest \in Nat
         /\ slotsUsed > 0 => Newest > 0
         /\ tailIndex > 0 => Newest > 0 /\ headers[Newest].front # -1
         /\ Written > Cur => Window > 0
         /\ InHand => slotsUsed > 0
         /\ lo <= Top => Newest > 0
         /\ home \in [Int -> Block \cup {Null}] /\ dead \subseteq Block
         /\ \A k \in lo..Top : home[k] \in Block \ dead
         /\ tailBlock \in Block \cup {Null}
<1>1. /\ tailIndex \in Nat /\ slotsUsed \in Nat /\ front \in Nat /\ start \in Started /\ bulk \in Bulk
  BY DEF ProducerOK
<1>2. Cur \in Int /\ BlockNo(bulk.tail) \in Int
  <2>1. tailIndex - 1 \in Int /\ bulk.tail \in Int
    BY <1>1 DEF Bulk
  <2> QED BY <2>1, BlockNoFacts DEF Cur
<1>3. Written \in Int /\ Cur <= Written
  BY <1>2 DEF Written, ProducerOK
<1>4. Top \in Int /\ Written <= Top
  <2>1. InHand => ~InBulk /\ Written = Cur
    BY DEF InHand, InBulk, Written
  <2> QED BY <1>2, <1>3, <2>1 DEF Top
<1>5. AtFront \in Int /\ Window \in Nat
  BY <1>1, <1>3 DEF AtFront, Window, Started
<1>6. /\ lo \in Int /\ lo <= Cur + 1 /\ home \in [Int -> Block \cup {Null}] /\ dead \subseteq Owned
      /\ \A k \in lo..Top : home[k] \in Owned \ dead
      /\ IF lo <= Top THEN tailBlock = home[Top] ELSE tailBlock \in dead \cup {Null}
  BY DEF RingOK
<1>7. Newest \in Nat /\ (slotsUsed > 0 => Newest > 0) /\ (Newest = 0 => tailIndex = 0)
      /\ Written - Window < lo /\ (InHand => Written - slotsUsed + 1 < lo)
      /\ (Newest > 0 /\ headers[Newest].front = -1 => tailIndex = 0)
  <2>1. /\ Newest \in Nat /\ (Newest = 0 => slotsUsed = 0 /\ tailIndex = 0)
        /\ Written - Window < lo /\ (InHand => Written - slotsUsed + 1 < lo)
        /\ (Newest > 0 /\ headers[Newest].front = -1 => tailIndex = 0)
    BY IndexFacts
  <2> QED BY <1>1, <2>1
<1>8. Written > Cur => Window > 0
  BY <1>2, <1>3, <1>5, <1>6, <1>7
<1>9. InHand => slotsUsed > 0
  <2>1. InHand => Written = Cur
    BY DEF InHand, InBulk, Written
  <2> QED BY <1>1, <1>2, <1>6, <1>7, <2>1
<1>10. lo <= Top => Newest > 0
  <2> SUFFICES ASSUME lo <= Top, Newest = 0 PROVE FALSE
    BY <1>7
  <2>1. slotsUsed = 0 /\ ~InHand
    BY <1>1, <1>7, <1>9
  <2>2. Window = 0
    BY <1>8, <2>1, <1>5, <1>7 DEF ProducerOK, Window, InHand
  <2>3. Top = Written
    BY <2>1 DEF Top
  <2> QED BY <1>3, <1>6, <1>7, <2>2, <2>3
<1>11. dead \subseteq Block /\ (\A k \in lo..Top : home[k] \in Block \ dead) /\ tailBlock \in Block \cup {Null}
  <2>1. dead \subseteq Block /\ (\A k \in lo..Top : home[k] \in Block \ dead)
    BY <1>6 DEF Owned
  <2>2. tailBlock \in Block \cup {Null}
    <3>1. CASE lo <= Top
      <4>1. Top \in lo..Top
        BY <1>4, <1>6, <3>1
      <4> QED BY <1>6, <2>1, <3>1, <4>1
    <3>2. CASE ~(lo <= Top)
      BY <1>6, <2>1, <3>2
    <3> QED BY <3>1, <3>2
  <2> QED BY <2>1, <2>2
<1> QED BY <1>1, <1>2, <1>3, <1>4, <1>5, <1>6, <1>7, <1>8, <1>9, <1>10, <1>11

(* What a step of the producer leaves to the consumers.                    *)
ProducerFrame == UNCHANGED <<headIndex, at, index, end, hdr, ipos, block, item, thrown>>

LEMMA ProducerDone ==
  ASSUME NEW o, NEW lo, NEW home, NEW dead, HeadOK, MemoryInv(o, lo, home, dead), ProducerFrame,
         ProducerOK', past' = past,
         NEW q, NEW low \in Int, NEW new, NEW gone,
         IndexOK(q, low, new)', RingOK(low, new, gone)', FlagsOK(low, new, gone)', Frozen(o, low),
         \A g \in 1..Newest : q[g] = o[g], \A k \in low..Cur : new[k] = home[k]
  PROVE  MemoryInv(q, low, new, gone)'
<1>1. PastOK /\ ProducerOK /\ IndexOK(o, lo, home) /\ RingOK(lo, home, dead) /\ ConsumersOK
      /\ WalksOK(o, home)
  BY DEF MemoryInv
<1>2. Cur \in Int /\ Written \in Int /\ Cur <= Written /\ HeadersType(o)
  BY <1>1, MemoryFacts DEF IndexOK
<1>3. DoneFrame /\ UNCHANGED <<hdr, ipos, block>>
  BY DEF ProducerFrame, DoneFrame
<1>4. \A n \in Int : n < First(low) => n \in DoneSet
  BY <1>3, DoneSame DEF FlagsOK
<1>5. Newest' \in Nat
  BY DEF IndexOK, HeadersType
<1>6. WalksOK(q, new)'
  BY <1>1, <1>2, <1>3, <1>4, <1>5, WalksStay
<1>7. ConsumersOK'
  BY <1>1 DEF ConsumersOK, ProducerFrame
<1>8. PastOK'
  BY <1>1 DEF PastOK
<1> QED BY <1>6, <1>7, <1>8 DEF MemoryInv

(* Steps that leave the ring, the flags and the index alone.               *)
LEMMA ProducerStays ==
  ASSUME NEW o, NEW lo, NEW home, NEW dead, HeadOK, MemoryInv(o, lo, home, dead), ProducerFrame,
         ProducerOK', past' = past, UNCHANGED <<next, pool, tailBlock, emptyFlags, headers, front, slotsUsed>>,
         Top' = Top, Written' = Written, AtFront' = AtFront, Window' = Window, Cur' \in Int,
         Cur <= Cur', Cur' <= Top,
         InHand' => InHand /\ start' = start /\ Cur' = Cur,
         InBulk' => \/ InBulk /\ Cur' = Cur /\ start'.tail = start.tail /\ bulk'.first = bulk.first
                    \/ start'.tail = tailBlock /\ bulk'.first = Null /\ Cur' = Top,
         Cur' # Cur => ~Unset, Top > Cur' => (Unset' <=> Unset),
         tailIndex' > 0 => Newest > 0, tailIndex' \in Nat,
         Newest > 0 /\ headers[Newest].front = -1 => tailIndex' = 0 /\ ppc' \notin {"publish", "publishAll"}
  PROVE  MemoryInv(o, lo, home, dead)'
<1>1. PastOK /\ ProducerOK /\ IndexOK(o, lo, home) /\ RingOK(lo, home, dead) /\ FlagsOK(lo, home, dead)
  BY DEF MemoryInv
<1>2. /\ Cur \in Int /\ Written \in Int /\ Top \in Int /\ Cur <= Written /\ Written <= Top
      /\ AtFront \in Int /\ Window \in Nat /\ lo \in Int
      /\ Newest \in Nat
      /\ Newest > 0 => slotsUsed <= size
      /\ Newest = 0 => slotsUsed = 0
      /\ Written - Window < lo /\ (InHand => Written - slotsUsed + 1 < lo)
  BY <1>1, MemoryFacts, IndexFacts
<1>3. DoneFrame
  BY DEF ProducerFrame, DoneFrame
<1>4. RingOK(lo, home, dead)'
  BY <1>1, <1>2, RingStays
<1>5. FlagsOK(lo, home, dead)'
  BY <1>1, <1>2, <1>3, FlagsStay
<1>6. IndexOK(o, lo, home)' /\ Frozen(o, lo)
  <2>1. Newest = 0 => tailIndex' = 0
    BY <1>2
  <2>2. Window \in Int /\ Window' \in Int /\ lo <= lo /\ Window' <= Window /\ Written - Window' < lo
        /\ (InHand' => Written - slotsUsed' + 1 < lo)
        /\ (Newest > 0 => slotsUsed' <= size) /\ (Newest = 0 => slotsUsed' = 0 /\ tailIndex' = 0)
    BY <1>2, <2>1
  <2> HIDE DEF InHand
  <2> QED BY <1>1, <1>2, <2>2, IndexStays
<1> QED BY <1>2, <1>4, <1>5, <1>6, ProducerDone

(* A bulk that needs no new block ends in one that has elements.           *)
LEMMA NoNewBlock ==
  ASSUME PastOK, ProducerOK, ppc \in Filled, Written = Cur
  PROVE  tailIndex > 0
<1>1. /\ Written = LastBlockNo /\ bulk.count \in Nat /\ bulk.count > 0 /\ tailIndex \in Nat
  BY DEF ProducerOK, InBulk, Filled, Bulk
<1>2. tailIndex + bulk.count - 1 \in Nat /\ BlockNo(tailIndex + bulk.count - 1) = Cur
  BY <1>1 DEF LastBlockNo
<1>3. First(Cur) < tailIndex /\ Cur \in Nat /\ First(Cur) \in Int
  BY <1>1, <1>2, BlockNoFacts, CurFacts
<1>4. First(0) = 0 /\ (0 < Cur => First(0) + BLOCK_SIZE <= First(Cur))
  BY <1>3, FirstType, FirstOrder
<1> QED BY <1>1, <1>3, <1>4, Sizes

(* The steps that take no block and give none back.                        *)
LEMMA StayingSteps ==
  ASSUME NEW o, NEW lo, NEW home, NEW dead, HeadOK, MemoryInv(o, lo, home, dead),
         PartialBulk = FALSE,
         \/ EnqueueInBlock \/ NeedBlock \/ Publish \/ BulkNoReuse \/ BulkFail \/ BulkThrow
         \/ BulkConstruct \/ BulkPublish
         \/ Requisition /\ Return0 /\ UNCHANGED <<tailBlock, next, emptyFlags, pool, slotsUsed>>
         \/ Construct /\ ppc' = "storeEntry"
         \/ \E n \in 1..MaxBulk : StartBulk(n)
  PROVE  MemoryInv(o, lo, home, dead)'
<1>1. PastOK /\ ProducerOK /\ IndexOK(o, lo, home) /\ RingOK(lo, home, dead)
  BY DEF MemoryInv
<1>2. /\ Cur \in Int /\ Written \in Int /\ Top \in Int /\ Cur <= Written /\ Written <= Top
      /\ tailIndex \in Nat /\ slotsUsed \in Nat /\ front \in Nat /\ lo <= Cur + 1
      /\ slotsUsed > 0 => Newest > 0
      /\ tailIndex > 0 => Newest > 0 /\ headers[Newest].front # -1
      /\ Written > Cur => Window > 0
      /\ tailBlock \in Block \cup {Null}
  BY <1>1, MemoryFacts
<1>3. Newest > 0 /\ headers[Newest].front = -1 => tailIndex = 0 /\ ppc \notin {"publish", "publishAll"}
  BY <1>1, IndexFacts
<1>4. ASSUME EnqueueInBlock PROVE MemoryInv(o, lo, home, dead)'
  <2>1. /\ ProducerOK' /\ past' = past /\ Cur' = Cur /\ Top' = Top
        /\ Written' = Written /\ Window' = Window /\ AtFront' = AtFront
        /\ ~InBulk' /\ ~InHand' /\ tailIndex > 0
    BY <1>1, <1>4, ShapeEnqueue
  <2>2. /\ ProducerFrame /\ UNCHANGED <<next, pool, tailBlock, emptyFlags, headers, front, slotsUsed, ppc>>
        /\ tailIndex' \in Nat
    BY <1>2, <1>4 DEF EnqueueInBlock, Enqueue, ring, blockIdx, call, locals, ProducerFrame
  <2>3. Unset' <=> Unset
    BY <2>2 DEF Unset
  <2> QED BY <1>2, <2>1, <2>2, <2>3, ProducerStays
<1>5. ASSUME NeedBlock PROVE MemoryInv(o, lo, home, dead)'
  <2>1. /\ ProducerFrame /\ UNCHANGED <<next, pool, tailBlock, emptyFlags, headers, front, slotsUsed, past, tailIndex, bulk>>
        /\ AtBoundary /\ Begin /\ ppc' = "requisition" /\ HasRoom /\ ppc = "idle"
    BY <1>5 DEF NeedBlock, vars, counters, ring, blockIdx, locals, ProducerFrame, Pgoto, AtBoundary
  <2>2. HasRoom' /\ Newest' > 0
    <3>1. Newest > 0 /\ Newest' = Newest
      <4>1. headers # <<>> /\ HeadersType(o)
        BY <1>1, <2>1 DEF HasRoom, IndexOK
      <4> QED BY <2>1, <4>1, SizeFacts DEF Newest
    <3> QED BY <2>1, <3>1 DEF HasRoom, size, blockIndex
  <2>3. /\ ProducerOK' /\ past' = past /\ Cur' = Cur
        /\ Top' = (IF ppc' = "construct" THEN Top + 1 ELSE Top)
        /\ Written' = Written /\ Window' = Window /\ AtFront' = AtFront
        /\ ~InBulk' /\ (InHand' <=> ppc' = "construct")
    <3>1. ppc' \in {"requisition", "construct"} /\ front' \in Nat
      BY <1>2, <2>1
    <3> HIDE DEF InHand
    <3> QED BY <1>1, <1>2, <2>1, <2>2, <3>1, ShapeBegin
  <2>4. Unset' <=> Unset
    BY <2>1 DEF Unset
  <2>5. Top' = Top /\ ~InHand' /\ ppc' \notin {"publish", "publishAll"}
    BY <2>1, <2>3
  <2>6. /\ InHand' => InHand /\ start' = start /\ Cur' = Cur
        /\ InBulk' => \/ InBulk /\ Cur' = Cur /\ start'.tail = start.tail /\ bulk'.first = bulk.first
                      \/ start'.tail = tailBlock /\ bulk'.first = Null /\ Cur' = Top
        /\ Cur' # Cur => ~Unset /\ (Top > Cur' => (Unset' <=> Unset))
        /\ Newest > 0 /\ headers[Newest].front = -1 => tailIndex' = 0 /\ ppc' \notin {"publish", "publishAll"}
        /\ tailIndex' > 0 => Newest > 0
        /\ Cur' \in Int /\ Cur <= Cur' /\ Cur' <= Top /\ tailIndex' \in Nat
    BY <1>2, <1>3, <2>1, <2>3, <2>4, <2>5
  <2> HIDE DEF InHand, InBulk
  <2> QED BY <2>1, <2>3, <2>4, <2>5, <2>6, ProducerStays
<1>6. ASSUME Publish PROVE MemoryInv(o, lo, home, dead)'
  <2>1. /\ ProducerFrame /\ UNCHANGED <<next, pool, tailBlock, emptyFlags, headers, front, slotsUsed>>
        /\ ppc = "publish" /\ ppc' = "idle" /\ tailIndex' \in Nat
    BY <1>2, <1>6 DEF Publish, Enqueue, ring, blockIdx, locals, ProducerFrame, Return0, Pgoto
  <2>2. slotsUsed > 0
    <3>1. Window = slotsUsed /\ Written = Cur + 1
      BY <2>1 DEF Window, Written, InBulk
    <3> QED BY <1>2, <3>1
  <2>3. /\ ProducerOK' /\ past' = past /\ Cur' = Cur + 1 /\ Top' = Top /\ Top = Cur + 1
        /\ Written' = Written /\ Window' = Window /\ AtFront' = AtFront
        /\ ~InBulk' /\ ~InHand'
    BY <1>1, <1>6, <2>2, ShapePublish
  <2>4. ~Unset /\ ~Unset'
    BY <2>1 DEF Unset
  <2>5. ~(Newest > 0 /\ headers[Newest].front = -1) /\ Newest > 0
    BY <1>2, <1>3, <2>1, <2>2
  <2>6. Cur' \in Int /\ Cur <= Cur' /\ Cur' <= Top
    BY <1>2, <2>3
  <2> HIDE DEF InHand, InBulk
  <2> QED BY <2>1, <2>3, <2>4, <2>5, <2>6, ProducerStays
<1>7. ASSUME BulkNoReuse \/ BulkConstruct \/ (Construct /\ ppc' = "storeEntry")
      PROVE  MemoryInv(o, lo, home, dead)'
  <2>1. /\ ProducerFrame /\ UNCHANGED <<next, pool, tailBlock, emptyFlags, headers, front, slotsUsed>>
        /\ UNCHANGED <<past, tailIndex, start, bulk>>
        /\ \/ ppc = "construct" /\ ppc' = "storeEntry"
           \/ ppc = "reuse" /\ ppc' = "allocate"
           \/ ppc = "constructAll" /\ ppc' = "publishAll" /\ bulk.first = Null
           \/ ppc = "constructAll" /\ ppc' = "storeLastFront" /\ bulk.first # Null
    <3>1. CASE BulkNoReuse
      BY <3>1 DEF BulkNoReuse, vars, counters, ring, blockIdx, locals, ProducerFrame, Pgoto
    <3>2. CASE BulkConstruct
      BY <3>2 DEF BulkConstruct, vars, counters, ring, blockIdx, locals, ProducerFrame, Pgoto
    <3>3. CASE Construct /\ ppc' = "storeEntry"
      BY <3>3 DEF Construct, vars, counters, locals, ProducerFrame, Pgoto, Return0
    <3> QED BY <1>7, <3>1, <3>2, <3>3
  <2>2. Newest' = Newest /\ front' \in Nat
    BY <1>2, <2>1 DEF Newest
  <2>3. /\ ProducerOK' /\ past' = past /\ Cur' = Cur /\ Top' = Top
        /\ Written' = Written /\ Window' = Window /\ AtFront' = AtFront
    BY <1>1, <2>1, <2>2, ShapeKept
  <2>4. (InHand' => InHand) /\ (InBulk' => InBulk) /\ (Unset' <=> Unset)
    BY <2>1 DEF InHand, InBulk, Unset
  <2>5. ppc' = "publishAll" => Newest > 0 /\ headers[Newest].front # -1
    <3> SUFFICES ASSUME ppc' = "publishAll" PROVE tailIndex > 0
      BY <1>2
    <3>1. ppc \in Filled /\ Written = Cur
      BY <1>1, <2>1 DEF ProducerOK, InBulk, Filled
    <3> QED BY <1>1, <3>1, NoNewBlock
  <2>6. ppc' # "publish"
    BY <2>1
  <2>7. Newest > 0 /\ headers[Newest].front = -1 => tailIndex' = 0 /\ ppc' \notin {"publish", "publishAll"}
    BY <1>3, <2>1, <2>5, <2>6
  <2>8. Cur' \in Int /\ Cur <= Cur' /\ Cur' <= Top /\ (tailIndex' > 0 => Newest > 0) /\ tailIndex' \in Nat
    BY <1>2, <2>1, <2>3
  <2> HIDE DEF InHand, InBulk
  <2> QED BY <2>1, <2>3, <2>4, <2>7, <2>8, ProducerStays
<1>8. ASSUME BulkFail \/ BulkThrow PROVE MemoryInv(o, lo, home, dead)'
  <2>1. BulkUndo /\ InBulk /\ bulk.first = Null
    BY <1>8 DEF BulkFail, BulkThrow, InBulk, BulkUndo
  <2>2. /\ ProducerOK' /\ past' = past /\ Cur' = Cur /\ Top' = Top /\ Top = Cur
        /\ Written' = Written /\ Window' = Window /\ AtFront' = AtFront
        /\ ~InBulk' /\ ~InHand' /\ UNCHANGED <<front, slotsUsed, tailBlock>>
    BY <1>1, <2>1, ShapeUndo
  <2>3. /\ ProducerFrame /\ UNCHANGED <<next, pool, emptyFlags, headers, tailIndex>> /\ ppc' = "idle"
    BY <2>1 DEF BulkUndo, vars, counters, locals, ProducerFrame, Return0, Pgoto
  <2>4. ~(Top > Cur') /\ Cur' \in Int /\ Cur <= Cur' /\ Cur' <= Top
    BY <1>2, <2>2
  <2>5. Newest > 0 /\ headers[Newest].front = -1 => tailIndex' = 0 /\ ppc' \notin {"publish", "publishAll"}
    BY <1>3, <2>3
  <2>6. tailIndex' \in Nat /\ (tailIndex' > 0 => Newest > 0)
    BY <1>2, <2>3
  <2> HIDE DEF InHand, InBulk
  <2> QED BY <2>2, <2>3, <2>4, <2>5, <2>6, ProducerStays
<1>9. ASSUME BulkPublish PROVE MemoryInv(o, lo, home, dead)'
  <2>1. /\ ProducerFrame /\ UNCHANGED <<next, pool, tailBlock, emptyFlags, headers, front, slotsUsed>>
        /\ ppc = "publishAll" /\ ppc' = "idle"
    BY <1>9 DEF BulkPublish, Enqueue, ring, blockIdx, locals, ProducerFrame, Return0, Pgoto
  <2>2. slotsUsed > 0
    <3>1. CASE Written > Cur
      <4>1. Window = slotsUsed
        BY <2>1 DEF Window
      <4> QED BY <1>2, <3>1, <4>1
    <3>2. CASE ~(Written > Cur)
      <4>1. Written = Cur /\ ppc \in Filled
        BY <1>2, <2>1, <3>2 DEF Filled
      <4>2. tailIndex > 0
        BY <1>1, <4>1, NoNewBlock
      <4> QED BY <1>1, <4>2 DEF ProducerOK
    <3> QED BY <3>1, <3>2
  <2>3. Newest > 0 /\ headers[Newest].front # -1
    BY <1>2, <1>3, <2>1, <2>2
  <2>4. /\ ProducerOK' /\ past' = past /\ Cur' = Written /\ Top' = Top /\ Top = Written
        /\ Written' = Written /\ Window' = Window /\ AtFront' = AtFront
        /\ ~InBulk' /\ ~InHand' /\ Cur <= Cur' /\ Cur' \in Int
        /\ tailIndex' = tailIndex + bulk.count
    BY <1>1, <1>9, <2>2, ShapeBulkPublish
  <2>5. ~Unset /\ ~Unset'
    BY <2>1 DEF Unset
  <2>6. Cur' <= Top /\ tailIndex' \in Nat
    BY <1>2, <2>4 DEF ProducerOK
  <2> HIDE DEF InHand, InBulk
  <2> QED BY <2>1, <2>3, <2>4, <2>5, <2>6, ProducerStays
<1>10. ASSUME Requisition, Return0, UNCHANGED <<tailBlock, next, emptyFlags, pool, slotsUsed>>
       PROVE  MemoryInv(o, lo, home, dead)'
  <2>1. /\ ProducerFrame /\ UNCHANGED <<past, headers, front, tailIndex>>
        /\ ppc = "requisition" /\ ppc' = "idle"
    BY <1>10 DEF Requisition, vars, counters, locals, ProducerFrame, Return0, Pgoto
  <2>2. slotsUsed' = start.used
    BY <1>1, <1>10, <2>1 DEF ProducerOK
  <2>3. /\ ProducerOK' /\ past' = past /\ Cur' = Cur /\ Top' = Cur
        /\ Written' = Written /\ Window' = Window /\ AtFront' = AtFront /\ Top = Cur
        /\ ~InBulk' /\ ~InHand'
    BY <1>1, <1>10, <2>1, <2>2, ShapeFailed
  <2>4. ~(Top > Cur') /\ Cur' \in Int /\ Cur <= Cur' /\ Cur' <= Top
    BY <1>2, <2>3
  <2>5. Newest > 0 /\ headers[Newest].front = -1 => tailIndex' = 0 /\ ppc' \notin {"publish", "publishAll"}
    BY <1>3, <2>1
  <2>6. tailIndex' \in Nat /\ (tailIndex' > 0 => Newest > 0) /\ Top' = Top
    BY <1>2, <2>1, <2>3
  <2> HIDE DEF InHand, InBulk
  <2> QED BY <1>10, <2>1, <2>3, <2>4, <2>5, <2>6, ProducerStays
<1>11. ASSUME NEW n \in 1..MaxBulk, StartBulk(n) PROVE MemoryInv(o, lo, home, dead)'
  <2>1. /\ ProducerFrame /\ UNCHANGED <<past, tailIndex, next, pool, tailBlock, emptyFlags, headers, front, slotsUsed>>
        /\ ppc' = "reuse" /\ start' = [tail |-> tailBlock, used |-> slotsUsed, front |-> front]
    BY <1>11 DEF StartBulk, vars, counters, ring, blockIdx, locals, ProducerFrame, Pgoto, Begin
  <2>2. /\ ProducerOK' /\ past' = past /\ Cur' = Cur /\ Top' = Top /\ Top = Cur
        /\ Written' = Written /\ Window' = Window /\ AtFront' = AtFront
        /\ ~InHand' /\ bulk'.first = Null
    BY <1>1, <1>2, <1>11, ShapeStartBulk
  <2>3. start'.tail = tailBlock
    BY <2>1
  <2>4. ~(Top > Cur') /\ Cur' \in Int /\ Cur <= Cur' /\ Cur' <= Top
    BY <1>2, <2>2
  <2>5. Newest > 0 /\ headers[Newest].front = -1 => tailIndex' = 0 /\ ppc' \notin {"publish", "publishAll"}
    BY <1>3, <2>1
  <2>6. tailIndex' \in Nat /\ (tailIndex' > 0 => Newest > 0)
    BY <1>2, <2>1
  <2> HIDE DEF InHand, InBulk
  <2> QED BY <2>1, <2>2, <2>3, <2>4, <2>5, <2>6, ProducerStays
<1> QED BY <1>4, <1>5, <1>6, <1>7, <1>8, <1>9, <1>10, <1>11

(* home goes on as new, for the blocks from low on.                        *)
Follows(lo, home, low, new) ==
  /\ low \in Int /\ lo <= low
  /\ \A k \in Int : low <= k /\ k <= Top => new[k] = home[k]

(* All flags of the oldest block are set: its elements are dequeued.       *)
LEMMA OldestDone ==
  ASSUME NEW lo \in Int, NEW home, NEW dead, FlagsOK(lo, home, dead), lo <= Cur, Cur \in Int,
         emptyFlags[home[lo]] = Slots
  PROVE  \A n \in Int : n < First(lo + 1) => n \in DoneSet
<1> SUFFICES ASSUME NEW n \in Int, n < First(lo + 1) PROVE n \in DoneSet
  OBVIOUS
<1>1. CASE n < First(lo)
  BY <1>1 DEF FlagsOK
<1>2. CASE ~(n < First(lo))
  <2>1. First(lo) \in Int /\ First(lo + 1) = First(lo) + BLOCK_SIZE /\ BLOCK_SIZE \in Nat
    BY FirstType, FirstNext, Sizes
  <2>2. n - First(lo) \in Slots /\ First(lo) + (n - First(lo)) = n
    BY <1>2, <2>1 DEF Slots
  <2>3. emptyFlags[home[lo]] = {i \in Slots : First(lo) + i \in DoneSet}
    BY DEF FlagsOK
  <2>4. First(lo) + (n - First(lo)) \in DoneSet
    BY <2>2, <2>3
  <2> QED BY <2>2, <2>4
<1> QED BY <1>1, <1>2

(* The other blocks of the queue are other blocks.                         *)
LEMMA OnlyOldest ==
  ASSUME NEW lo \in Int, NEW home, NEW dead, RingOK(lo, home, dead), Top \in Int, lo <= Top
  PROVE  \A k \in (lo + 1)..Top : home[k] # home[lo]
<1>1. \A j, k \in lo..Top : home[j] = home[k] => j = k
  BY DEF RingOK
<1>2. \A k \in (lo + 1)..Top : k \in lo..Top /\ k # lo
  OBVIOUS
<1>3. lo \in lo..Top
  OBVIOUS
<1> QED BY <1>1, <1>2, <1>3

LEMMA ReuseBlockStep ==
  ASSUME NEW o, NEW lo, NEW home, NEW dead, HeadOK, MemoryInv(o, lo, home, dead), ReuseBlock
  PROVE  \E low, new : MemoryInv(o, low, new, dead)' /\ Follows(lo, home, low, new)
<1>1. PastOK /\ ProducerOK /\ IndexOK(o, lo, home) /\ RingOK(lo, home, dead) /\ FlagsOK(lo, home, dead)
  BY DEF MemoryInv
<1>2. /\ Cur \in Int /\ Written \in Int /\ Top \in Int /\ Cur <= Written /\ Written <= Top
      /\ AtFront \in Int /\ Window \in Nat /\ tailIndex \in Nat /\ slotsUsed \in Nat /\ front \in Nat
      /\ lo \in Int /\ lo <= Cur + 1 /\ Newest \in Nat
      /\ tailIndex > 0 => Newest > 0 /\ headers[Newest].front # -1
      /\ lo <= Top => Newest > 0
      /\ home \in [Int -> Block \cup {Null}] /\ dead \subseteq Block
      /\ \A k \in lo..Top : home[k] \in Block \ dead
      /\ tailBlock \in Block \cup {Null}
  BY <1>1, MemoryFacts
<1>3. /\ ProducerFrame /\ UNCHANGED <<next, pool, headers, front, slotsUsed, past, tailIndex, bulk>>
      /\ AtBoundary /\ Begin /\ ppc' = "construct" /\ ppc = "idle" /\ CanReuse
      /\ tailBlock' = Ahead /\ emptyFlags' = [emptyFlags EXCEPT ![Ahead] = {}]
      /\ start' = [tail |-> tailBlock, used |-> slotsUsed, front |-> front]
  BY DEF ReuseBlock, vars, counters, ring, blockIdx, locals, ProducerFrame, Pgoto, AtBoundary, Begin
<1>4. /\ lo <= Top /\ Ahead = home[lo] /\ Ahead = next[tailBlock] /\ Ahead \in Block /\ Ahead \notin dead
      /\ emptyFlags[Ahead] = Slots /\ tailBlock # Null
  BY <1>1, <1>2, <1>3, AheadIsOldest DEF CanReuse
<1>5. /\ ProducerOK' /\ Cur' = Cur /\ Top' = Top + 1 /\ Top = Cur
      /\ Written' = Written /\ Window' = Window /\ AtFront' = AtFront /\ Written = Cur
      /\ ~InBulk' /\ ~InHand /\ InHand'
  <2>1. Newest' > 0 /\ ppc' \in {"requisition", "construct"} /\ front' \in Nat
    BY <1>2, <1>3, <1>4 DEF Newest
  <2> QED BY <1>1, <1>2, <1>3, <2>1, ShapeBegin
<1>6. PICK new : new = [home EXCEPT ![Top + 1] = home[lo]]
  OBVIOUS
<1>7. new[Top + 1] = home[lo] /\ \A k \in Int : k <= Top => new[k] = home[k]
  BY <1>2, <1>6
<1>8. start'.tail = tailBlock
  BY <1>3
<1>9. RingOK(lo + 1, new, dead)'
  BY <1>1, <1>2, <1>3, <1>4, <1>5, <1>6, <1>8, RingReuse
<1>10. \A n \in Int : n < First(lo + 1) => n \in DoneSet
  BY <1>1, <1>2, <1>4, <1>5, OldestDone
<1>11. DoneFrame
  BY <1>3 DEF ProducerFrame, DoneFrame
<1>12. \A k \in (lo + 1)..Top : home[k] # Ahead /\ home[k] \in Block
  <2>1. \A k \in (lo + 1)..Top : home[k] # home[lo]
    BY <1>1, <1>2, <1>4, OnlyOldest
  <2>2. \A k \in (lo + 1)..Top : k \in lo..Top
    BY <1>2
  <2> QED BY <1>2, <1>4, <2>1, <2>2
<1>13. FlagsOK(lo + 1, new, dead)'
  <2>1. /\ emptyFlags' \in [Block -> SUBSET Slots] /\ emptyFlags'[Ahead] = {}
        /\ \A d \in Block : d # Ahead => emptyFlags'[d] = emptyFlags[d]
    BY <1>1, <1>3, <1>4 DEF FlagsOK
  <2>2. ~Unset'
    BY <1>3 DEF Unset
  <2>3. new = [home EXCEPT ![Top + 1] = Ahead] /\ lo + 1 \in Int /\ lo <= lo + 1 /\ lo + 1 <= Cur + 1
        /\ ~(Top > Cur)
    <3>1. lo <= Cur /\ Top = Cur /\ lo \in Int /\ Cur \in Int
      BY <1>2, <1>4, <1>5
    <3>2. lo + 1 \in Int /\ lo <= lo + 1 /\ lo + 1 <= Cur + 1
      BY <3>1
    <3>3. ~(Top > Cur)
      BY <3>1
    <3> QED BY <1>4, <1>6, <3>2, <3>3
  <2>4. PICK low \in Int : low = lo + 1
    BY <2>3
  <2>5. PICK b \in Block : b = Ahead
    BY <1>4
  <2>6. FlagsOK(low, new, dead)'
    BY <1>1, <1>2, <1>4, <1>5, <1>10, <1>11, <1>12, <2>1, <2>2, <2>3, <2>4, <2>5, FlagsTake
  <2> QED BY <2>4, <2>6
<1>14. IndexOK(o, lo + 1, new)' /\ Frozen(o, lo + 1)
  <2>1. /\ Written - Window < lo /\ (Newest > 0 => slotsUsed <= size)
        /\ (Newest > 0 /\ headers[Newest].front = -1 => tailIndex = 0)
    BY <1>1, IndexFacts
  <2>2. Window' = slotsUsed
    BY <1>3 DEF Window
  <2>3. /\ lo + 1 \in Int /\ lo <= lo + 1 /\ Window' <= Window /\ Written - Window' < lo + 1
        /\ Written - slotsUsed' + 1 < lo + 1 /\ Window \in Int /\ Window' \in Int
        /\ \A k \in (lo + 1)..Written : new[k] = home[k]
    BY <1>2, <1>3, <1>5, <1>7, <2>1, <2>2
  <2>4. /\ Newest > 0 => slotsUsed' <= size
        /\ Newest = 0 => slotsUsed' = 0 /\ tailIndex' = 0
        /\ Newest > 0 /\ headers[Newest].front = -1 => tailIndex' = 0 /\ ppc' \notin {"publish", "publishAll"}
    BY <1>2, <1>3, <1>4, <2>1
  <2>5. PICK low \in Int : low = lo + 1
    BY <2>3
  <2>6. IndexOK(o, low, new)' /\ Frozen(o, low)
    BY <1>1, <1>2, <1>3, <1>5, <2>3, <2>4, <2>5, IndexStays
  <2> QED BY <2>5, <2>6
<1>15. PICK low \in Int : low = lo + 1
  BY <1>2
<1>16. MemoryInv(o, low, new, dead)'
  <2>1. \A k \in low..Cur : new[k] = home[k]
    BY <1>2, <1>5, <1>7, <1>15
  <2> QED BY <1>3, <1>5, <1>9, <1>13, <1>14, <1>15, <2>1, ProducerDone
<1>17. Follows(lo, home, low, new)
  BY <1>2, <1>7, <1>15 DEF Follows
<1> QED BY <1>16, <1>17

LEMMA BulkReuseStep ==
  ASSUME NEW o, NEW lo, NEW home, NEW dead, HeadOK, MemoryInv(o, lo, home, dead), BulkReuse
  PROVE  \E low, new : MemoryInv(o, low, new, dead)' /\ Follows(lo, home, low, new)
<1>1. PastOK /\ ProducerOK /\ IndexOK(o, lo, home) /\ RingOK(lo, home, dead) /\ FlagsOK(lo, home, dead)
  BY DEF MemoryInv
<1>2. /\ Cur \in Int /\ Written \in Int /\ Top \in Int /\ Cur <= Written /\ Written <= Top
      /\ AtFront \in Int /\ Window \in Nat /\ tailIndex \in Nat /\ slotsUsed \in Nat /\ front \in Nat
      /\ lo \in Int /\ lo <= Cur + 1 /\ Newest \in Nat
      /\ lo <= Top => Newest > 0
      /\ home \in [Int -> Block \cup {Null}] /\ dead \subseteq Block
      /\ \A k \in lo..Top : home[k] \in Block \ dead
  BY <1>1, MemoryFacts
<1>3. /\ ProducerFrame /\ UNCHANGED <<next, pool, emptyFlags, slotsUsed, past, tailIndex, ppc, start>>
      /\ ppc = "reuse" /\ ~AllBlocks /\ CanReuse /\ tailBlock' = Ahead /\ Took(Ahead)
      /\ SetEntry(bulk.tail + BLOCK_SIZE, Ahead) /\ front' = NextFront
  BY DEF BulkReuse, vars, counters, ring, blockIdx, locals, ProducerFrame
<1>4. /\ lo <= Top /\ Ahead = home[lo] /\ Ahead = next[tailBlock] /\ Ahead \in Block /\ Ahead \notin dead
      /\ emptyFlags[Ahead] = Slots /\ tailBlock # Null /\ Newest > 0 /\ Ahead # bulk.first
  BY <1>1, <1>2, <1>3, AheadIsOldest DEF CanReuse
<1>5. PICK b \in Block : b = Ahead
  BY <1>4
<1>6. /\ size \in Nat /\ size > 0 /\ front \in Nat
      /\ NextFront \in Nat
  <2>1. size \in Nat /\ size > 0
    BY <1>1, IndexFacts
  <2>2. (front + 1) % size \in 0..(size - 1)
    BY <1>2, <2>1
  <2> QED BY <1>2, <2>1, <2>2 DEF NextFront
<1>7. /\ ProducerOK' /\ past' = past /\ Cur' = Cur /\ Top' = Top + 1 /\ Top = Written
      /\ Written' = Written + 1 /\ Window' = slotsUsed' /\ Window = slotsUsed
      /\ AtFront' = AtFront + 1 /\ AtFront = Written + 1
      /\ InBulk /\ InBulk' /\ ~InHand /\ ~InHand' /\ bulk'.first # Null
      /\ bulk'.first = (IF bulk.first = Null THEN Ahead ELSE bulk.first)
      /\ (bulk.first = Null <=> Written = Cur) /\ Cur <= Written
      /\ bulk.tail + BLOCK_SIZE = First(Written + 1)
  <2>1. Took(b) /\ ppc \in {"reuse", "allocate"} /\ slotsUsed' \in Nat /\ slotsUsed <= slotsUsed' /\ front' \in Nat
    BY <1>2, <1>3, <1>5, <1>6
  <2> QED BY <1>1, <1>3, <1>5, <2>1, ShapeTook
<1>8. PICK new : new = [home EXCEPT ![Top + 1] = home[lo]]
  OBVIOUS
<1>9. new[Top + 1] = home[lo] /\ \A k \in Int : k <= Top => new[k] = home[k]
  BY <1>2, <1>8
<1>10. bulk.first # Null => bulk.first = home[Cur + 1]
  BY <1>1, <1>7 DEF RingOK
<1>11. lo <= Cur
  <2>1. SUFFICES ASSUME lo = Cur + 1 PROVE FALSE
    BY <1>2
  <2>2. Written # Cur
    BY <1>2, <1>4, <1>7, <2>1
  <2>3. bulk.first # Null
    BY <1>7, <2>2
  <2> QED BY <1>4, <1>10, <2>1, <2>3
<1>12. start'.tail = home[Cur]
  BY <1>1, <1>3, <1>7, <1>11 DEF RingOK
<1>13. RingOK(lo + 1, new, dead)'
  <2>1. bulk'.first = (IF Cur = Top THEN home[lo] ELSE home[Cur + 1])
    BY <1>4, <1>7, <1>10
  <2>2. next[tailBlock] = home[lo] /\ tailBlock' = home[lo] /\ Cur <= Top
    BY <1>3, <1>4, <1>7
  <2> HIDE DEF InHand, InBulk
  <2> QED BY <1>1, <1>2, <1>3, <1>4, <1>7, <1>8, <1>11, <1>12, <2>1, <2>2, RingReuse
<1>14. \A n \in Int : n < First(lo + 1) => n \in DoneSet
  BY <1>1, <1>2, <1>4, <1>11, OldestDone
<1>15. DoneFrame
  BY <1>3 DEF ProducerFrame, DoneFrame
<1>16. \A k \in (lo + 1)..Top : home[k] # Ahead /\ home[k] \in Block
  <2>1. \A k \in (lo + 1)..Top : home[k] # home[lo]
    BY <1>1, <1>2, <1>4, OnlyOldest
  <2>2. \A k \in (lo + 1)..Top : k \in lo..Top
    BY <1>2
  <2> QED BY <1>2, <1>4, <2>1, <2>2
<1>17. PICK low \in Int : low = lo + 1
  BY <1>2
<1>18. FlagsOK(low, new, dead)'
  <2>1. /\ emptyFlags' \in [Block -> SUBSET Slots] /\ emptyFlags'[b] = Slots
        /\ \A d \in Block : d # b => emptyFlags'[d] = emptyFlags[d]
    BY <1>1, <1>3, <1>4, <1>5 DEF FlagsOK
  <2>2. Unset' /\ Unset
    BY <1>3 DEF Unset
  <2>3. new = [home EXCEPT ![Top + 1] = b] /\ lo <= low /\ low <= Cur + 1 /\ Cur <= Top
        /\ b \notin dead
    <3>1. lo <= low /\ low <= Cur + 1 /\ Cur <= Top
      BY <1>2, <1>7, <1>11, <1>17
    <3> QED BY <1>4, <1>5, <1>8, <3>1
  <2> QED BY <1>1, <1>2, <1>5, <1>7, <1>14, <1>15, <1>16, <1>17, <2>1, <2>2, <2>3, FlagsTake
<1>19. IndexOK(o, low, new)' /\ Frozen(o, low)
  <2>1. Written - Window < lo /\ slotsUsed <= size
    BY <1>1, <1>4, IndexFacts
  <2>2. SetEntry(First(Written + 1), b) /\ new[Written + 1] = b /\ \A k \in low..Written : new[k] = home[k]
    <3>1. SetEntry(First(Written + 1), b)
      BY <1>3, <1>5, <1>7
    <3>2. new[Written + 1] = b
      BY <1>4, <1>5, <1>7, <1>9
    <3>3. \A k \in low..Written : k \in Int /\ k <= Top
      BY <1>2, <1>7, <1>17
    <3> QED BY <1>9, <3>1, <3>2, <3>3
  <2>3. /\ slotsUsed' \in Int /\ slotsUsed' <= size /\ slotsUsed' <= Window + 1 /\ Window \in Int
        /\ lo <= low /\ Written + 1 - slotsUsed' < low
        /\ ppc' \notin {"publish", "publishAll"} /\ front' = NextFront
    BY <1>2, <1>3, <1>7, <1>17, <2>1
  <2> HIDE DEF InHand, InBulk
  <2> QED BY <1>1, <1>2, <1>3, <1>4, <1>7, <2>2, <2>3, IndexSet
<1>20. MemoryInv(o, low, new, dead)'
  <2>1. \A k \in low..Cur : new[k] = home[k]
    BY <1>2, <1>7, <1>9, <1>17
  <2>2. RingOK(low, new, dead)'
    BY <1>13, <1>17
  <2> QED BY <1>3, <1>7, <1>18, <1>19, <2>1, <2>2, ProducerDone
<1>21. Follows(lo, home, low, new)
  BY <1>2, <1>9, <1>17 DEF Follows
<1> QED BY <1>20, <1>21

LEMMA RequisitionStep ==
  ASSUME RingInv, NEW o, NEW lo, NEW home, NEW dead, HeadOK, MemoryInv(o, lo, home, dead),
         Requisition, NEW b \in pool, Insert(b, {}), ppc' = "construct", UNCHANGED <<start, bulk>>
  PROVE  \E new : MemoryInv(o, lo, new, dead)' /\ Follows(lo, home, lo, new)
<1>1. PastOK /\ ProducerOK /\ IndexOK(o, lo, home) /\ RingOK(lo, home, dead) /\ FlagsOK(lo, home, dead)
  BY DEF MemoryInv
<1>2. /\ Cur \in Int /\ Written \in Int /\ Top \in Int /\ Cur <= Written /\ Written <= Top
      /\ AtFront \in Int /\ Window \in Nat /\ tailIndex \in Nat /\ slotsUsed \in Nat /\ front \in Nat
      /\ lo \in Int /\ lo <= Cur + 1 /\ Newest \in Nat
      /\ tailIndex > 0 => Newest > 0 /\ headers[Newest].front # -1
      /\ home \in [Int -> Block \cup {Null}] /\ dead \subseteq Block
      /\ \A k \in lo..Top : home[k] \in Block \ dead
  BY <1>1, MemoryFacts
<1>3. /\ ProducerFrame /\ UNCHANGED <<headers, front, past, tailIndex, start, bulk>>
      /\ ppc = "requisition" /\ slotsUsed' = slotsUsed + 1 /\ emptyFlags' = [emptyFlags EXCEPT ![b] = {}]
  BY DEF Requisition, vars, counters, locals, ProducerFrame, Insert
<1>4. /\ ProducerOK' /\ Cur' = Cur /\ Top' = Top + 1 /\ Top = Cur
      /\ Written' = Written /\ Window' = Window /\ AtFront' = AtFront /\ Written = Cur
      /\ ~InBulk' /\ ~InHand /\ InHand'
  BY <1>1, <1>3, ShapeRequisition
<1>5. b \in Block \ Owned /\ b \in Block
  BY DEF RingInv, Owned
<1>6. dead \subseteq Owned /\ (\A k \in lo..Top : home[k] \in Owned)
  BY <1>1 DEF RingOK
<1>7. b \notin dead /\ (\A k \in lo..Top : home[k] # b)
  BY <1>5, <1>6
<1>8. PICK new : new = [home EXCEPT ![Top + 1] = b]
  OBVIOUS
<1>9. new[Top + 1] = b /\ \A k \in Int : k <= Top => new[k] = home[k]
  BY <1>2, <1>8
<1>10. RingOK(lo, new, dead)'
  <2>1. start'.tail = tailBlock
    BY <1>1, <1>3 DEF ProducerOK
  <2> QED BY <1>1, <1>2, <1>3, <1>4, <1>8, <2>1, RingInsert
<1>11. DoneFrame
  BY <1>3 DEF ProducerFrame, DoneFrame
<1>12. FlagsOK(lo, new, dead)'
  <2>1. /\ emptyFlags' \in [Block -> SUBSET Slots] /\ emptyFlags'[b] = {}
        /\ \A d \in Block : d # b => emptyFlags'[d] = emptyFlags[d]
    BY <1>1, <1>3, <1>5 DEF FlagsOK
  <2>2. ~Unset'
    BY DEF Unset
  <2>3. \A n \in Int : n < First(lo) => n \in DoneSet
    BY <1>1 DEF FlagsOK
  <2>4. PICK low \in Int : low = lo
    BY <1>2
  <2>5. \A k \in low..Top : home[k] \in Block /\ home[k] # b
    BY <1>2, <1>7, <2>4
  <2>6. low <= Cur + 1 /\ lo <= low /\ Cur <= Top /\ ~(Top > Cur)
    BY <1>2, <1>4, <2>4
  <2>7. FlagsOK(low, new, dead)'
    BY <1>1, <1>2, <1>4, <1>5, <1>7, <1>8, <1>11, <2>1, <2>2, <2>3, <2>4, <2>5, <2>6, FlagsTake
  <2> QED BY <2>4, <2>7
<1>13. IndexOK(o, lo, new)' /\ Frozen(o, lo)
  <2>1. /\ Written - Window < lo /\ (Newest > 0 => slotsUsed <= size)
        /\ size \in Nat
        /\ (Newest > 0 /\ headers[Newest].front = -1 => tailIndex = 0)
    BY <1>1, IndexFacts
  <2>2. /\ Newest > 0 /\ HasRoom /\ start.used = slotsUsed
    BY <1>1, <1>3 DEF ProducerOK
  <2>3. slotsUsed < size
    BY <2>2 DEF HasRoom
  <2>4. Window = slotsUsed
    BY <1>3, <2>2 DEF Window
  <2>5. \A k \in lo..Written : new[k] = home[k]
    BY <1>2, <1>9
  <2>6. slotsUsed' \in Int /\ slotsUsed' <= size /\ Written - slotsUsed' + 1 < lo /\ Window' <= Window
        /\ Written - Window' < lo /\ Window \in Int /\ Window' \in Int /\ lo <= lo
    BY <1>2, <1>3, <1>4, <2>1, <2>3, <2>4
  <2>7. PICK low \in Int : low = lo
    BY <1>2
  <2>8. IndexOK(o, low, new)' /\ Frozen(o, low)
    BY <1>1, <1>2, <1>3, <1>4, <2>1, <2>2, <2>5, <2>6, <2>7, IndexStays
  <2> QED BY <2>7, <2>8
<1>14. MemoryInv(o, lo, new, dead)'
  <2>1. \A k \in lo..Cur : new[k] = home[k]
    BY <1>2, <1>4, <1>9
  <2>2. PICK low \in Int : low = lo
    BY <1>2
  <2>3. MemoryInv(o, low, new, dead)'
    BY <1>3, <1>4, <1>10, <1>12, <1>13, <2>1, <2>2, ProducerDone
  <2> QED BY <2>2, <2>3
<1>15. Follows(lo, home, lo, new)
  BY <1>2, <1>9 DEF Follows
<1> QED BY <1>14, <1>15

LEMMA BulkRequisitionStep ==
  ASSUME RingInv, NEW o, NEW lo, NEW home, NEW dead, HeadOK, MemoryInv(o, lo, home, dead),
         BulkRequisition
  PROVE  \E new : MemoryInv(o, lo, new, dead)' /\ Follows(lo, home, lo, new)
<1>1. PastOK /\ ProducerOK /\ IndexOK(o, lo, home) /\ RingOK(lo, home, dead) /\ FlagsOK(lo, home, dead)
  BY DEF MemoryInv
<1>2. /\ Cur \in Int /\ Written \in Int /\ Top \in Int /\ Cur <= Written /\ Written <= Top
      /\ AtFront \in Int /\ Window \in Nat /\ tailIndex \in Nat /\ slotsUsed \in Nat /\ front \in Nat
      /\ lo \in Int /\ lo <= Cur + 1 /\ Newest \in Nat
      /\ home \in [Int -> Block \cup {Null}] /\ dead \subseteq Block
      /\ \A k \in lo..Top : home[k] \in Block \ dead
  BY <1>1, MemoryFacts
<1>3. PICK b \in pool : Insert(b, Slots) /\ Took(b) /\ SetEntry(bulk.tail + BLOCK_SIZE, b)
  BY DEF BulkRequisition
<1>4. /\ ProducerFrame /\ UNCHANGED <<past, tailIndex, ppc, start>>
      /\ ppc = "allocate" /\ ~AllBlocks /\ HasRoom /\ front' = NextFront
      /\ slotsUsed' = slotsUsed + 1 /\ emptyFlags' = [emptyFlags EXCEPT ![b] = Slots]
  BY <1>3 DEF BulkRequisition, vars, counters, locals, ProducerFrame, Insert
<1>5. b \in Block \ Owned /\ b \in Block
  BY DEF RingInv, Owned
<1>6. dead \subseteq Owned /\ (\A k \in lo..Top : home[k] \in Owned)
  BY <1>1 DEF RingOK
<1>7. b \notin dead /\ (\A k \in lo..Top : home[k] # b)
  BY <1>5, <1>6
<1>8. size \in Nat /\ size > 0 /\ Newest > 0 /\ NextFront \in Nat /\ slotsUsed < size
  <2>1. size \in Nat /\ size > 0 /\ HeadersType(o)
    BY <1>1, IndexFacts
  <2>2. (front + 1) % size \in 0..(size - 1)
    BY <1>2, <2>1
  <2>3. headers # <<>> /\ slotsUsed < size
    BY <1>4 DEF HasRoom
  <2>4. Newest # 0
    BY <2>1, <2>3, SizeFacts
  <2> QED BY <1>2, <2>1, <2>2, <2>3, <2>4 DEF NextFront
<1>9. /\ ProducerOK' /\ past' = past /\ Cur' = Cur /\ Top' = Top + 1 /\ Top = Written
      /\ Written' = Written + 1 /\ Window' = slotsUsed' /\ Window = slotsUsed
      /\ AtFront' = AtFront + 1 /\ AtFront = Written + 1
      /\ InBulk /\ InBulk' /\ ~InHand /\ ~InHand' /\ bulk'.first # Null
      /\ bulk'.first = (IF bulk.first = Null THEN b ELSE bulk.first)
      /\ (bulk.first = Null <=> Written = Cur) /\ Cur <= Written
      /\ bulk.tail + BLOCK_SIZE = First(Written + 1)
  <2>1. ppc \in {"reuse", "allocate"} /\ slotsUsed' \in Nat /\ slotsUsed <= slotsUsed' /\ front' \in Nat
    BY <1>2, <1>4, <1>8
  <2> QED BY <1>1, <1>3, <1>4, <1>5, <2>1, ShapeTook
<1>10. PICK new : new = [home EXCEPT ![Top + 1] = b]
  OBVIOUS
<1>11. new[Top + 1] = b /\ \A k \in Int : k <= Top => new[k] = home[k]
  BY <1>2, <1>10
<1>12. /\ bulk.first # Null => bulk.first = home[Cur + 1]
       /\ lo <= Cur => start'.tail = home[Cur]
  BY <1>1, <1>4, <1>9 DEF RingOK
<1>13. RingOK(lo, new, dead)'
  <2>1. bulk'.first = (IF Cur = Top THEN b ELSE home[Cur + 1])
    BY <1>9, <1>12
  <2>2. Cur <= Top
    BY <1>9
  <2> HIDE DEF InHand, InBulk
  <2> QED BY <1>1, <1>2, <1>3, <1>9, <1>10, <1>12, <2>1, <2>2, RingInsert
<1>14. DoneFrame
  BY <1>4 DEF ProducerFrame, DoneFrame
<1>15. PICK low \in Int : low = lo
  BY <1>2
<1>16. FlagsOK(low, new, dead)'
  <2>1. /\ emptyFlags' \in [Block -> SUBSET Slots] /\ emptyFlags'[b] = Slots
        /\ \A d \in Block : d # b => emptyFlags'[d] = emptyFlags[d]
    BY <1>1, <1>4, <1>5 DEF FlagsOK
  <2>2. Unset' /\ Unset
    BY <1>4 DEF Unset
  <2>3. \A n \in Int : n < First(low) => n \in DoneSet
    BY <1>1, <1>15 DEF FlagsOK
  <2>4. \A k \in low..Top : home[k] \in Block /\ home[k] # b
    BY <1>2, <1>7, <1>15
  <2>5. low <= Cur + 1 /\ lo <= low /\ Cur <= Top
    BY <1>2, <1>9, <1>15
  <2> HIDE DEF InHand, InBulk
  <2> QED BY <1>1, <1>2, <1>5, <1>7, <1>9, <1>10, <1>14, <1>15, <2>1, <2>2, <2>3, <2>4, <2>5, FlagsTake
<1>17. IndexOK(o, low, new)' /\ Frozen(o, low)
  <2>1. Written - Window < lo
    BY <1>1, IndexFacts
  <2>2. SetEntry(First(Written + 1), b) /\ new[Written + 1] = b /\ \A k \in low..Written : new[k] = home[k]
    <3>1. SetEntry(First(Written + 1), b)
      BY <1>3, <1>9
    <3>2. new[Written + 1] = b
      BY <1>9, <1>11
    <3>3. \A k \in low..Written : k \in Int /\ k <= Top
      BY <1>2, <1>9, <1>15
    <3> QED BY <1>11, <3>1, <3>2, <3>3
  <2>3. /\ slotsUsed' \in Int /\ slotsUsed' <= size /\ slotsUsed' <= Window + 1 /\ Window \in Int
        /\ lo <= low /\ Written + 1 - slotsUsed' < low
        /\ ppc' \notin {"publish", "publishAll"} /\ front' = NextFront
    BY <1>2, <1>4, <1>8, <1>9, <1>15, <2>1
  <2> HIDE DEF InHand, InBulk
  <2> QED BY <1>1, <1>2, <1>4, <1>5, <1>8, <1>9, <2>2, <2>3, IndexSet
<1>18. MemoryInv(o, low, new, dead)'
  <2>1. \A k \in low..Cur : new[k] = home[k]
    BY <1>2, <1>9, <1>11, <1>15
  <2>2. RingOK(low, new, dead)'
    BY <1>13, <1>15
  <2> QED BY <1>4, <1>9, <1>16, <1>17, <2>1, <2>2, ProducerDone
<1>19. Follows(lo, home, low, new)
  BY <1>2, <1>11, <1>15 DEF Follows
<1> QED BY <1>15, <1>18, <1>19

(* The constructor of the element throws.                                  *)
LEMMA ThrowStep ==
  ASSUME NEW o, NEW lo, NEW home, NEW dead, HeadOK, MemoryInv(o, lo, home, dead),
         Construct, ppc' # "storeEntry"
  PROVE  \E gone : MemoryInv(o, lo, home, gone)'
<1>1. PastOK /\ ProducerOK /\ IndexOK(o, lo, home) /\ RingOK(lo, home, dead) /\ FlagsOK(lo, home, dead)
  BY DEF MemoryInv
<1>2. /\ Cur \in Int /\ Written \in Int /\ Top \in Int
      /\ AtFront \in Int /\ Window \in Nat /\ tailIndex \in Nat /\ slotsUsed \in Nat /\ front \in Nat
      /\ lo \in Int /\ lo <= Cur + 1 /\ Newest \in Nat
  BY <1>1, MemoryFacts
<1>3. /\ ppc = "construct" /\ slotsUsed' = start.used /\ Return0
      /\ tailBlock' = IF start.tail = Null THEN tailBlock ELSE start.tail
  BY DEF Construct, Pgoto
<1>4. /\ ProducerFrame /\ UNCHANGED <<past, tailIndex, next, emptyFlags, pool, headers, front>>
  BY DEF Construct, vars, counters, locals, ProducerFrame
<1>5. /\ ProducerOK' /\ past' = past /\ Cur' = Cur /\ Top' = Cur
      /\ Written' = Written /\ Window' = Window /\ AtFront' = AtFront /\ Written = Cur
      /\ Top = Cur + 1 /\ ~InBulk' /\ ~InHand'
  BY <1>1, <1>3, <1>4, ShapeFailed
<1>6. PICK gone : gone = dead \cup {home[Top]}
  OBVIOUS
<1>7. InHand /\ ~Unset
  BY <1>3 DEF InHand, Unset
<1>8. RingOK(lo, home, gone)'
  BY <1>1, <1>2, <1>3, <1>4, <1>5, <1>6, <1>7, RingThrow
<1>9. DoneFrame
  BY <1>4 DEF ProducerFrame, DoneFrame
<1>10. FlagsOK(lo, home, gone)'
  BY <1>1, <1>2, <1>4, <1>5, <1>6, <1>7, <1>9, FlagsThrow
<1>11. PICK low \in Int : low = lo
  BY <1>2
<1>12. IndexOK(o, low, home)' /\ Frozen(o, low)
  <2>1. /\ Written - Window < lo /\ (Newest > 0 => slotsUsed <= size)
        /\ size \in Nat
        /\ (Newest > 0 /\ headers[Newest].front = -1 => tailIndex = 0)
    BY <1>1, IndexFacts
  <2>2. Newest > 0 /\ start.used \in Nat /\ slotsUsed \in {start.used, start.used + 1}
    BY <1>1, <1>3, <1>7 DEF ProducerOK, Started
  <2>3. start.used <= size /\ Newest > 0
    BY <1>2, <2>1, <2>2
  <2>4. ppc' \notin {"publish", "publishAll"}
    BY <1>3 DEF Return0, Pgoto
  <2>5. /\ slotsUsed' \in Int /\ slotsUsed' <= size /\ Window' <= Window
        /\ Written - Window' < low /\ Window \in Int /\ Window' \in Int /\ lo <= low
    BY <1>2, <1>3, <1>5, <1>11, <2>1, <2>2, <2>3
  <2>6. IndexOK(o, low, home)
    BY <1>1, <1>11
  <2>7. \A k \in low..Written : home[k] = home[k]
    OBVIOUS
  <2>8. PICK l \in Int : l = lo
    BY <1>2
  <2>9. IndexOK(o, l, home) /\ l <= low
    BY <1>1, <2>5, <2>8
  <2>10. /\ UNCHANGED <<headers, front, past>> /\ Written' = Written /\ AtFront' = AtFront
         /\ Written \in Int /\ ~InHand' /\ Window \in Int /\ Window' \in Int /\ Window' <= Window
         /\ Written - Window' < low
    BY <1>2, <1>4, <1>5, <2>5
  <2>11. /\ Newest > 0 => slotsUsed' <= size
         /\ Newest = 0 => slotsUsed' = 0 /\ tailIndex' = 0
         /\ Newest > 0 /\ headers[Newest].front = -1 => tailIndex' = 0 /\ ppc' \notin {"publish", "publishAll"}
    <3>1. Newest # 0
      BY <1>2, <2>3
    <3> QED BY <1>4, <2>1, <2>4, <2>5, <3>1
  <2> HIDE DEF IndexOK, Frozen, InHand, Written, Window, AtFront, Newest, size
  <2> QED BY <2>7, <2>8, <2>9, <2>10, <2>11, <1>11, IndexStays
<1> QED BY <1>4, <1>5, <1>8, <1>10, <1>11, <1>12, ProducerDone

(* Steps that change the index only.                                       *)
LEMMA IndexStep ==
  ASSUME NEW o, NEW lo, NEW home, NEW dead, HeadOK, MemoryInv(o, lo, home, dead), ProducerFrame,
         ProducerOK', UNCHANGED <<past, next, pool, tailBlock, emptyFlags>>,
         NEW q, IndexOK(q, lo, home)', Frozen(o, lo), \A g \in 1..Newest : q[g] = o[g],
         Cur' = Cur, Top' = Top, Unset' <=> Unset,
         InHand' => InHand /\ start' = start,
         InBulk' => InBulk /\ start'.tail = start.tail /\ bulk'.first = bulk.first
  PROVE  MemoryInv(q, lo, home, dead)'
<1>1. PastOK /\ ProducerOK /\ IndexOK(o, lo, home) /\ RingOK(lo, home, dead) /\ FlagsOK(lo, home, dead)
  BY DEF MemoryInv
<1>2. Cur \in Int /\ Top \in Int /\ lo \in Int /\ Cur <= Top
  <2>1. Cur \in Int /\ Written \in Int /\ Top \in Int /\ Cur <= Written /\ Written <= Top /\ lo \in Int
    BY <1>1, MemoryFacts
  <2> QED BY <2>1
<1>3. RingOK(lo, home, dead)'
  <2> HIDE DEF InHand, InBulk
  <2>1. Cur <= Cur' /\ Cur' \in Int
    BY <1>2
  <2> QED BY <1>1, <1>2, <2>1, RingStays
<1>4. DoneFrame
  BY DEF ProducerFrame, DoneFrame
<1>5. FlagsOK(lo, home, dead)'
  <2>1. Cur <= Cur' /\ Cur' \in Int
    BY <1>2
  <2> QED BY <1>1, <1>2, <1>4, <2>1, FlagsStay
<1>6. PICK low \in Int : low = lo
  BY <1>2
<1>7. MemoryInv(q, low, home, dead)'
  <2>1. \A k \in low..Cur : home[k] = home[k]
    OBVIOUS
  <2> QED BY <1>3, <1>5, <1>6, <2>1, ProducerDone
<1> QED BY <1>6, <1>7

LEMMA StoreEntryStep ==
  ASSUME NEW o, NEW lo, NEW home, NEW dead, HeadOK, MemoryInv(o, lo, home, dead), StoreEntry
  PROVE  MemoryInv(o, lo, home, dead)'
<1>1. PastOK /\ ProducerOK /\ IndexOK(o, lo, home) /\ RingOK(lo, home, dead)
  BY DEF MemoryInv
<1>2. /\ Cur \in Int /\ Written \in Int /\ Top \in Int /\ Cur <= Written /\ Written <= Top
      /\ AtFront \in Int /\ Window \in Nat /\ tailIndex \in Nat /\ slotsUsed \in Nat /\ front \in Nat
      /\ lo \in Int /\ lo <= Cur + 1 /\ Newest \in Nat
      /\ \A k \in lo..Top : home[k] \in Block \ dead
  BY <1>1, MemoryFacts
<1>3. /\ ProducerFrame /\ UNCHANGED <<past, tailIndex, next, pool, tailBlock, emptyFlags, slotsUsed, front, start, bulk>>
      /\ ppc = "storeEntry" /\ ppc' = "storeFront" /\ SetEntry(tailIndex, tailBlock)
  BY DEF StoreEntry, Pgoto, vars, counters, ring, locals, ProducerFrame
<1>4. InHand /\ ~InHand' /\ ~InBulk /\ ~InBulk' /\ (Unset' <=> Unset)
  BY <1>3 DEF InHand, InBulk, Unset
<1>5. Top = Cur + 1 /\ Written = Cur /\ AtFront = Written + 1 /\ Window = start.used
  BY <1>3, <1>4 DEF Top, Written, AtFront, Window
<1>6. /\ Newest > 0 /\ start.used \in Nat /\ slotsUsed <= start.used + 1 /\ tailIndex = First(Written + 1)
  <2>1. Newest > 0 /\ start.used \in Nat /\ slotsUsed \in {start.used, start.used + 1}
        /\ Slot(Idx(tailIndex)) = 0
    BY <1>1, <1>3, <1>4 DEF ProducerOK, Started, Enqueuing
  <2>2. tailIndex = First(Cur + 1)
    BY <1>1, <1>2, <2>1, CurFacts
  <2> QED BY <1>2, <1>5, <2>1, <2>2
<1>7. PICK b \in Block : b = home[Written + 1] /\ tailBlock = b
  <2>1. lo <= Top /\ Top \in lo..Top
    BY <1>2, <1>5
  <2>2. tailBlock = home[Top] /\ home[Top] \in Block
    BY <1>1, <1>2, <2>1 DEF RingOK
  <2> QED BY <1>5, <2>2
<1>8. SetEntry(First(Written + 1), b)
  BY <1>3, <1>6, <1>7
<1>9. Newest' = Newest
  <2>1. HeadersType(o) /\ size \in Nat /\ size > 0 /\ front = Ring(o[Newest], size, AtFront) /\ o[Newest] \in Int
    BY <1>1, <1>6, IndexFacts
  <2>2. front \in 0..(size - 1)
    BY <1>2, <2>1, RingType
  <2>3. First(Written + 1) \in Int
    BY <1>2, FirstType
  <2> QED BY <1>1, <1>6, <1>8, <2>1, <2>2, <2>3, SetEntryFacts
<1>10. /\ ProducerOK' /\ Cur' = Cur /\ Top' = Top /\ Written' = Cur + 1 /\ Window' = slotsUsed /\ AtFront' = AtFront
  <2>1. front' \in Nat
    BY <1>2, <1>3
  <2> QED BY <1>1, <1>3, <1>9, <2>1, ShapeKept
<1>11. PICK low \in Int : low = lo
  BY <1>2
<1>12. IndexOK(o, low, home)' /\ Frozen(o, low)
  <2>1. slotsUsed <= size /\ Written - slotsUsed + 1 < lo
    BY <1>1, <1>4, <1>6, IndexFacts
  <2>2. /\ slotsUsed' \in Int /\ slotsUsed' <= size /\ slotsUsed' <= Window + 1 /\ Window \in Int
        /\ lo <= low /\ Written + 1 - slotsUsed' < low /\ Window' = slotsUsed' /\ Written' = Written + 1
    BY <1>2, <1>3, <1>5, <1>6, <1>10, <1>11, <2>1
  <2>3. ppc' \notin {"publish", "publishAll"} /\ home[Written + 1] = b
    BY <1>3, <1>7
  <2>4. \A k \in low..Written : home[k] = home[k]
    OBVIOUS
  <2> HIDE DEF InHand
  <2> QED BY <1>1, <1>2, <1>3, <1>4, <1>5, <1>6, <1>8, <1>10, <2>2, <2>3, <2>4, IndexSet
<1>13. IndexOK(o, lo, home)' /\ Frozen(o, lo)
  BY <1>11, <1>12
<1> HIDE DEF InHand, InBulk, Unset
<1> QED BY <1>3, <1>4, <1>10, <1>13, IndexStep

LEMMA StoreFrontStep ==
  ASSUME NEW o, NEW lo, NEW home, NEW dead, HeadOK, MemoryInv(o, lo, home, dead),
         StoreFront \/ BulkStoreFront
  PROVE  MemoryInv(o, lo, home, dead)'
<1>1. PastOK /\ ProducerOK /\ IndexOK(o, lo, home) /\ RingOK(lo, home, dead)
  BY DEF MemoryInv
<1>2. /\ Cur \in Int /\ Written \in Int /\ Top \in Int /\ Cur <= Written /\ Written <= Top
      /\ AtFront \in Int /\ Window \in Nat /\ tailIndex \in Nat /\ slotsUsed \in Nat /\ front \in Nat
      /\ lo \in Int /\ lo <= Cur + 1 /\ Newest \in Nat
      /\ slotsUsed > 0 => Newest > 0
      /\ Written > Cur => Window > 0
  BY <1>1, MemoryFacts
<1>3. /\ ProducerFrame /\ UNCHANGED <<past, tailIndex, next, pool, tailBlock, emptyFlags, slotsUsed, start, bulk>>
  BY DEF StoreFront, BulkStoreFront, vars, counters, ring, locals, ProducerFrame
<1>4. PICK f : /\ headers' = [headers EXCEPT ![Len(headers)].front = f]
               /\ \/ ppc = "storeFront" /\ ppc' = "publish" /\ f = front /\ front' = NextFront
                  \/ ppc = "storeLastFront" /\ ppc' = "publishAll" /\ f = (front - 1) % size /\ front' = front
  <2>1. CASE StoreFront
    BY <2>1 DEF StoreFront, Pgoto
  <2>2. CASE BulkStoreFront
    BY <2>2 DEF BulkStoreFront, Pgoto
  <2> QED BY <2>1, <2>2
<1>5. ~InHand /\ ~InHand' /\ (InBulk' <=> InBulk) /\ (Unset' <=> Unset)
  BY <1>4 DEF InHand, InBulk, Unset
<1>6. Written > Cur
  <2>1. CASE ppc = "storeFront"
    <3>1. Written = Cur + 1
      BY <2>1 DEF Written, InBulk
    <3> QED BY <1>2, <3>1
  <2>2. CASE ppc = "storeLastFront"
    <3>1. InBulk /\ bulk.first # Null /\ (bulk.first = Null <=> Written = Cur)
      BY <1>1, <2>2 DEF ProducerOK, InBulk
    <3> QED BY <1>2, <3>1
  <2> QED BY <1>4, <2>1, <2>2
<1>7. Window > 0 /\ Window = slotsUsed /\ Newest > 0
  <2>1. Window = slotsUsed
    BY <1>4 DEF Window
  <2> QED BY <1>2, <1>6, <2>1
<1>8. HeadersType(o) /\ size \in Nat /\ size > 0 /\ front = Ring(o[Newest], size, AtFront) /\ o[Newest] \in Int
  BY <1>1, <1>7, IndexFacts
<1>9. f = Ring(o[Newest], size, Written)
  <2>1. CASE ppc = "storeFront"
    <3>1. AtFront = Written
      BY <2>1 DEF AtFront
    <3> QED BY <1>4, <1>8, <2>1, <3>1
  <2>2. CASE ppc # "storeFront"
    <3>1. AtFront = Written + 1
      BY <2>2 DEF AtFront
    <3>2. PICK a \in Int : a = AtFront
      BY <1>2
    <3>3. (Ring(o[Newest], size, a) - 1) % size = Ring(o[Newest], size, a - 1)
      BY <1>8, RingStep
    <3>4. a - 1 = Written
      BY <1>2, <3>1, <3>2
    <3> QED BY <1>4, <1>8, <2>2, <3>2, <3>3, <3>4
  <2> QED BY <2>1, <2>2
<1>10. f \in 0..(size - 1) /\ Newest' = Newest /\ front' \in Nat
  <2>1. f \in 0..(size - 1)
    BY <1>2, <1>8, <1>9, RingType
  <2>2. Newest' = Newest
    BY <1>4, <1>7, <1>8, <2>1, SetFrontFacts
  <2>3. (front + 1) % size \in 0..(size - 1)
    BY <1>2, <1>8
  <2> QED BY <1>2, <1>4, <2>1, <2>2, <2>3 DEF NextFront
<1>11. /\ ProducerOK' /\ Cur' = Cur /\ Top' = Top /\ Written' = Written /\ Window' = Window
       /\ \/ front' = front /\ AtFront' = AtFront
          \/ front' = NextFront /\ AtFront' = AtFront + 1
  <2>1. CASE ppc = "storeFront"
    BY <1>1, <1>3, <1>4, <1>10, <2>1, ShapeKept
  <2>2. CASE ppc = "storeLastFront"
    BY <1>1, <1>3, <1>4, <1>10, <2>2, ShapeKept
  <2> QED BY <1>4, <2>1, <2>2
<1>12. IndexOK(o, lo, home)' /\ Frozen(o, lo)
  <2> HIDE DEF InHand
  <2> QED BY <1>1, <1>2, <1>3, <1>4, <1>5, <1>7, <1>9, <1>11, IndexFront
<1> HIDE DEF InHand, InBulk, Unset
<1> QED BY <1>3, <1>5, <1>11, <1>12, IndexStep

LEMMA GrowIndexStep ==
  ASSUME NEW o, NEW lo, NEW home, NEW dead, HeadOK, MemoryInv(o, lo, home, dead),
         GrowIndex \/ BulkGrow
  PROVE  \E q : MemoryInv(q, lo, home, dead)'
<1>1. PastOK /\ ProducerOK /\ IndexOK(o, lo, home) /\ RingOK(lo, home, dead)
  BY DEF MemoryInv
<1>2. /\ Cur \in Int /\ Written \in Int /\ Top \in Int /\ Cur <= Written /\ Written <= Top
      /\ AtFront \in Int /\ Window \in Nat /\ tailIndex \in Nat /\ slotsUsed \in Nat /\ front \in Nat
      /\ lo \in Int /\ lo <= Cur + 1 /\ Newest \in Nat
      /\ tailBlock \in Block \cup {Null}
  BY <1>1, MemoryFacts
<1>3. /\ ProducerFrame /\ UNCHANGED <<past, tailIndex, next, pool, tailBlock, emptyFlags, slotsUsed, bulk>>
  BY DEF GrowIndex, BulkGrow, vars, counters, ring, locals, ProducerFrame
<1>4. PICK x : /\ Grow(x)
               /\ \/ GrowIndex /\ AtBoundary /\ Begin /\ ppc = "idle" /\ ppc' = "requisition" /\ x = slotsUsed
                  \/ /\ BulkGrow /\ ppc = "allocate" /\ ppc' = "allocate" /\ x = start.used
                     /\ start' = [start EXCEPT !.front = start.used]
  <2>1. CASE GrowIndex
    BY <2>1 DEF GrowIndex, Pgoto, AtBoundary
  <2>2. CASE BulkGrow
    BY <2>2 DEF BulkGrow
  <2> QED BY <2>1, <2>2
<1>5. x \in 0..slotsUsed /\ (tailIndex > 0 => x > 0)
  <2>1. CASE x = slotsUsed
    BY <1>1, <1>2, <2>1 DEF ProducerOK
  <2>2. CASE ppc = "allocate" /\ x = start.used
    <3>1. InBulk
      BY <2>2 DEF InBulk
    <3>2. start.used <= slotsUsed /\ start.used \in Nat /\ (tailIndex > 0 => start.used > 0)
      BY <1>1, <2>2, <3>1 DEF ProducerOK, Started
    <3> QED BY <1>2, <2>2, <3>2
  <2> QED BY <1>4, <2>1, <2>2
<1>6. /\ HeadersType(o) /\ (Newest = 0 => slotsUsed = 0 /\ front = 0) /\ (Newest > 0 => slotsUsed <= size)
      /\ (Newest > 0 => front = Ring(o[Newest], size, AtFront)) /\ size \in Nat
  BY <1>1, IndexFacts
<1>7. AtFront = Written + 1 /\ Window = slotsUsed /\ ~InHand /\ ~InHand'
      /\ (Unset' <=> Unset) /\ (InBulk' <=> InBulk) /\ slotsUsed <= size
  <2>1. slotsUsed <= size
    BY <1>2, <1>6
  <2> QED BY <1>4, <2>1 DEF AtFront, Window, InHand, Unset, InBulk
<1>8. PICK w \in Int : w = Written
  BY <1>2
<1>9. PICK q : q = Grown(o, w)
  OBVIOUS
<1>10. Newest' = Newest + 1 /\ headers' # <<>> /\ slotsUsed < size' /\ front' = slotsUsed
  <2>1. Newest > 0 => front = Ring(o[Newest], size, w + 1)
    BY <1>6, <1>7, <1>8
  <2>2. front' = slotsUsed
    BY <1>4 DEF Grow
  <2> QED BY <1>2, <1>4, <1>5, <1>6, <1>7, <1>9, <2>1, <2>2, GrowFacts
<1>11. ProducerOK' /\ Cur' = Cur /\ Top' = Top /\ Written' = Written /\ Window' = Window /\ AtFront' = AtFront
  <2>1. CASE GrowIndex /\ AtBoundary /\ Begin /\ ppc' = "requisition"
    <3>1. HasRoom'
      BY <1>3, <1>10 DEF HasRoom
    <3>2. front' \in Nat /\ Newest' > 0
      BY <1>2, <1>10
    <3> QED BY <1>1, <1>2, <1>3, <2>1, <3>1, <3>2, ShapeBegin
  <2>2. CASE BulkGrow
    BY <1>1, <1>10, <2>2, ShapeBulkGrow
  <2> QED BY <1>4, <2>1, <2>2
<1>12. IndexOK(q, lo, home)' /\ Frozen(o, lo) /\ \A g \in 1..Newest : q[g] = o[g]
  <2>1. ppc' \notin {"publish", "publishAll"} /\ q = Grown(o, Written)
    BY <1>4, <1>8, <1>9
  <2> HIDE DEF InHand
  <2> QED BY <1>1, <1>2, <1>3, <1>4, <1>5, <1>7, <1>11, <2>1, IndexGrow
<1>13. InBulk' => InBulk /\ start'.tail = start.tail /\ bulk'.first = bulk.first
  <2>1. CASE BulkGrow /\ start' = [start EXCEPT !.front = start.used]
    <3>1. start \in Started
      BY <1>1 DEF ProducerOK
    <3> QED BY <1>3, <1>7, <2>1, <3>1 DEF Started
  <2>2. CASE ppc' = "requisition"
    BY <2>2 DEF InBulk
  <2> QED BY <1>4, <2>1, <2>2
<1> HIDE DEF InHand, InBulk, Unset
<1>14. MemoryInv(q, lo, home, dead)'
  BY <1>3, <1>7, <1>11, <1>12, <1>13, IndexStep
<1> QED BY <1>14

LEMMA BulkResetStep ==
  ASSUME NEW o, NEW lo, NEW home, NEW dead, HeadOK, MemoryInv(o, lo, home, dead), BulkReset
  PROVE  MemoryInv(o, lo, home, dead)'
<1>1. PastOK /\ ProducerOK /\ IndexOK(o, lo, home) /\ RingOK(lo, home, dead) /\ FlagsOK(lo, home, dead)
  BY DEF MemoryInv
<1>2. /\ Cur \in Int /\ Written \in Int /\ Top \in Int /\ Cur <= Written /\ Written <= Top
      /\ AtFront \in Int /\ Window \in Nat /\ tailIndex \in Nat /\ slotsUsed \in Nat /\ front \in Nat
      /\ lo \in Int /\ lo <= Cur + 1 /\ Newest \in Nat
  BY <1>1, MemoryFacts
<1>3. /\ ProducerFrame
      /\ UNCHANGED <<past, tailIndex, next, pool, tailBlock, headers, slotsUsed, front, start, bulk>>
      /\ ppc \in {"reuse", "allocate"} /\ ppc' = "constructAll" /\ AllBlocks
  BY DEF BulkReset, Pgoto, vars, counters, blockIdx, locals, ProducerFrame
<1>4. ~InHand /\ ~InHand' /\ InBulk' /\ InBulk /\ Window' = Window
  BY <1>3 DEF InHand, InBulk, Window
<1>5. ProducerOK' /\ Cur' = Cur /\ Top' = Top /\ Written' = Written /\ AtFront' = AtFront
  <2>1. front' \in Nat /\ Newest' = Newest
    BY <1>2, <1>3 DEF Newest
  <2> QED BY <1>1, <1>3, <2>1, ShapeKept
<1>6. FlagsOK(lo, home, dead)'
  BY <1>1, <1>5, FlagsReset
<1>7. RingOK(lo, home, dead)'
  <2>1. Cur <= Cur' /\ Cur' \in Int
    BY <1>2, <1>5
  <2> HIDE DEF InHand, InBulk
  <2> QED BY <1>1, <1>2, <1>3, <1>4, <1>5, <2>1, RingStays
<1>8. PICK l \in Int : l = lo
  BY <1>2
<1>9. IndexOK(o, l, home)' /\ Frozen(o, l)
  <2>1. /\ Written - Window < lo /\ (Newest > 0 => slotsUsed <= size)
        /\ (Newest = 0 => slotsUsed = 0 /\ tailIndex = 0)
        /\ (Newest > 0 /\ headers[Newest].front = -1 => tailIndex = 0)
    BY <1>1, IndexFacts
  <2>2. ppc' \notin {"publish", "publishAll"}
    BY <1>3
  <2>3. /\ Written - Window' < l /\ Window' <= Window /\ Window \in Int /\ Window' \in Int /\ l <= l
    BY <1>2, <1>4, <1>8, <2>1
  <2>4. \A k \in l..Written : home[k] = home[k]
    OBVIOUS
  <2>5. IndexOK(o, l, home)
    BY <1>1, <1>8
  <2> HIDE DEF InHand
  <2> QED BY <1>2, <1>3, <1>4, <1>5, <1>8, <2>1, <2>2, <2>3, <2>4, <2>5, IndexStays
<1>10. MemoryInv(o, l, home, dead)'
  <2>1. \A k \in l..Cur : home[k] = home[k]
    OBVIOUS
  <2>2. RingOK(l, home, dead)' /\ FlagsOK(l, home, dead)'
    BY <1>6, <1>7, <1>8
  <2> QED BY <1>3, <1>5, <1>8, <1>9, <2>1, <2>2, ProducerDone
<1> QED BY <1>8, <1>10

(* Every step of the producer keeps the invariant.                         *)
LEMMA ProducerKeeps ==
  ASSUME RingInv, NEW o, NEW lo, NEW home, NEW dead, HeadOK, MemoryInv(o, lo, home, dead),
         PartialBulk = FALSE, ProducerStep
  PROVE  \E q, low, new, gone : MemoryInv(q, low, new, gone)' /\ Follows(lo, home, low, new)
<1>1. Follows(lo, home, lo, home)
  <2>1. IndexOK(o, lo, home) /\ RingOK(lo, home, dead)
    BY DEF MemoryInv
  <2>2. lo \in Int
    BY <2>1 DEF RingOK
  <2> QED BY <2>2 DEF Follows
<1>2. CASE EnqueueInBlock \/ NeedBlock \/ Publish \/ BulkNoReuse \/ BulkFail \/ BulkThrow
         \/ BulkConstruct \/ BulkPublish \/ \E n \in 1..MaxBulk : StartBulk(n)
  <2>1. MemoryInv(o, lo, home, dead)'
    BY <1>2, StayingSteps
  <2> QED BY <1>1, <2>1
<1>3. CASE ReuseBlock
  BY <1>3, ReuseBlockStep
<1>4. CASE BulkReuse
  BY <1>4, BulkReuseStep
<1>5. CASE Requisition
  <2>1. CASE Return0 /\ UNCHANGED <<tailBlock, next, emptyFlags, pool, slotsUsed>>
    <3>1. MemoryInv(o, lo, home, dead)'
      BY <1>5, <2>1, StayingSteps
    <3> QED BY <1>1, <3>1
  <2>2. ASSUME NEW b \in pool, Insert(b, {}), Pgoto("construct"), UNCHANGED <<start, bulk>>
        PROVE  \E q, low, new, gone : MemoryInv(q, low, new, gone)' /\ Follows(lo, home, low, new)
    <3>1. ppc' = "construct"
      BY <2>2 DEF Pgoto
    <3>2. \E new : MemoryInv(o, lo, new, dead)' /\ Follows(lo, home, lo, new)
      BY <1>5, <2>2, <3>1, RequisitionStep
    <3> QED BY <3>2
  <2> QED BY <1>5, <2>1, <2>2 DEF Requisition
<1>6. CASE BulkRequisition
  <2>1. \E new : MemoryInv(o, lo, new, dead)' /\ Follows(lo, home, lo, new)
    BY <1>6, BulkRequisitionStep
  <2> QED BY <2>1
<1>7. CASE Construct
  <2>1. CASE ppc' = "storeEntry"
    <3>1. MemoryInv(o, lo, home, dead)'
      BY <1>7, <2>1, StayingSteps
    <3> QED BY <1>1, <3>1
  <2>2. CASE ppc' # "storeEntry"
    <3>1. \E gone : MemoryInv(o, lo, home, gone)'
      BY <1>7, <2>2, ThrowStep
    <3> QED BY <1>1, <3>1
  <2> QED BY <2>1, <2>2
<1>8. CASE StoreEntry \/ StoreFront \/ BulkStoreFront \/ BulkReset
  <2>1. MemoryInv(o, lo, home, dead)'
    BY <1>8, StoreEntryStep, StoreFrontStep, BulkResetStep
  <2> QED BY <1>1, <2>1
<1>9. CASE GrowIndex \/ BulkGrow
  <2>1. \E q : MemoryInv(q, lo, home, dead)'
    BY <1>9, GrowIndexStep
  <2> QED BY <1>1, <2>1
<1> QED BY <1>2, <1>3, <1>4, <1>5, <1>6, <1>7, <1>8, <1>9 DEF ProducerStep

-----------------------------------------------------------------------------
(* The steps of the consumers.  They go through the elements they claimed  *)
(* block by block.                                                         *)
LEMMA EndIndexFacts ==
  ASSUME PastOK, NEW c \in Consumer, index[c] \in Nat, end[c] \in Nat, index[c] < end[c]
  PROVE  /\ FirstBlock(c) \in Nat /\ LastBlock(c) \in Nat /\ FirstBlock(c) <= LastBlock(c)
         /\ EndIndex(c) \in Nat /\ index[c] < EndIndex(c) /\ EndIndex(c) <= end[c]
         /\ First(FirstBlock(c)) <= index[c] /\ EndIndex(c) <= First(FirstBlock(c) + 1)
         /\ EndIndex(c) = end[c] => FirstBlock(c) = LastBlock(c)
         /\ EndIndex(c) # end[c] => /\ EndIndex(c) = First(FirstBlock(c) + 1)
                                    /\ BlockNo(EndIndex(c)) = FirstBlock(c) + 1
                                    /\ FirstBlock(c) < LastBlock(c)
<1> DEFINE k == FirstBlock(c)
           i == index[c]
           e == end[c]
<1>1. /\ k \in Nat /\ LastBlock(c) \in Nat /\ k <= LastBlock(c)
      /\ First(k) <= i /\ i < First(k) + BLOCK_SIZE
  <2>1. i \in Nat /\ e - 1 \in Nat /\ i <= e - 1
    OBVIOUS
  <2>2. k \in Nat /\ LastBlock(c) \in Nat
    BY <2>1, BlockNoFacts DEF FirstBlock, LastBlock
  <2>3. k <= LastBlock(c)
    BY <2>1, BlockNoFacts DEF FirstBlock, LastBlock
  <2>4. First(k) <= i /\ i < First(k) + BLOCK_SIZE
    BY <2>1, BlockNoFacts DEF FirstBlock
  <2> QED BY <2>2, <2>3, <2>4
<1>2. /\ First(k) \in Int /\ First(k + 1) \in Int /\ First(k + 1) = First(k) + BLOCK_SIZE
      /\ BLOCK_SIZE \in Nat /\ BLOCK_SIZE > 1
  <2>1. k \in Int /\ k + 1 \in Int
    BY <1>1
  <2>2. First(k) \in Int /\ First(k + 1) \in Int
    BY <2>1, FirstType
  <2>3. First(k + 1) = First(k) + BLOCK_SIZE
    BY <2>1, FirstNext
  <2> QED BY <2>2, <2>3, Sizes
<1>3. EndIndex(c) = IF e < First(k + 1) THEN e ELSE First(k + 1)
  <2>1. Slot(Idx(i)) = i - First(k)
    BY SlotFacts DEF FirstBlock
  <2>2. i - Slot(Idx(i)) + BLOCK_SIZE = First(k + 1)
    BY <1>2, <2>1
  <2> QED BY <2>2 DEF EndIndex
<1>4. /\ EndIndex(c) \in Nat /\ i < EndIndex(c) /\ EndIndex(c) <= e /\ EndIndex(c) <= First(k + 1)
  BY <1>1, <1>2, <1>3
<1>5. ASSUME EndIndex(c) = e PROVE k = LastBlock(c)
  <2>1. First(k) <= e - 1 /\ e - 1 < First(k) + BLOCK_SIZE
    BY <1>1, <1>2, <1>4, <1>5
  <2>2. e - 1 \in Int /\ k \in Int
    BY <1>1
  <2> QED BY <2>1, <2>2, BlockNoFacts DEF LastBlock
<1>6. ASSUME EndIndex(c) # e
      PROVE  EndIndex(c) = First(k + 1) /\ BlockNo(EndIndex(c)) = k + 1 /\ k < LastBlock(c)
  <2>1. EndIndex(c) = First(k + 1) /\ First(k + 1) < e
    BY <1>2, <1>3, <1>6
  <2>2. BlockNo(First(k + 1)) = k + 1
    <3>1. k + 1 \in Int /\ First(k + 1) <= First(k + 1) /\ First(k + 1) < First(k + 1) + BLOCK_SIZE
      BY <1>1, <1>2
    <3> QED BY <1>2, <3>1, BlockNoFacts
  <2>3. k + 1 <= LastBlock(c)
    <3>1. First(k + 1) \in Int /\ e - 1 \in Int /\ First(k + 1) <= e - 1
      BY <1>2, <2>1
    <3> QED BY <2>2, <3>1, BlockNoFacts DEF LastBlock
  <2> QED BY <1>1, <2>1, <2>2, <2>3
<1> QED BY <1>1, <1>4, <1>5, <1>6

(* What a step of a consumer leaves to the producer, and to the others.    *)
ConsumerFrame == UNCHANGED <<past, tailBlock, next, pool, headers, slotsUsed, front, ppc, start, bulk, tailIndex>>
OnlyAt(c) == \A d \in Consumer \ {c} :
               /\ at'[d] = at[d] /\ index'[d] = index[d] /\ end'[d] = end[d]
               /\ hdr'[d] = hdr[d] /\ ipos'[d] = ipos[d] /\ block'[d] = block[d]

LEMMA ConsumerDone ==
  ASSUME NEW o, NEW lo, NEW home, NEW dead, MemoryInv(o, lo, home, dead), ConsumerFrame,
         ConsumersOK', FlagsOK(lo, home, dead)',
         NEW c \in Consumer, OnlyAt(c), WalkAt(o, home, c)'
  PROVE  MemoryInv(o, lo, home, dead)'
<1>1. PastOK' /\ ProducerOK'
  BY DEF MemoryInv, PastOK, ProducerOK, ConsumerFrame, InHand, InBulk, Written, Cur, Newest, HasRoom,
         blockIndex, size, LastBlockNo, AllBlocks, Idx
<1>2. IndexOK(o, lo, home)'
  BY DEF MemoryInv, IndexOK, ConsumerFrame, HeadersType, Entry, AlignedAt, Newest, size, blockIndex,
         AtFront, Written, Window, InHand, InBulk, Cur, Key
<1>3. RingOK(lo, home, dead)'
  BY DEF MemoryInv, RingOK, ConsumerFrame, Cur, Top, Written, InHand, InBulk, Owned
<1>4. ASSUME NEW d \in Consumer PROVE WalkAt(o, home, d)'
  <2>1. CASE d = c
    BY <2>1
  <2>2. CASE d # c
    <3>1. WalkAt(o, home, d)
      BY DEF MemoryInv, WalksOK
    <3>2. /\ at'[d] = at[d] /\ index'[d] = index[d] /\ end'[d] = end[d]
          /\ hdr'[d] = hdr[d] /\ ipos'[d] = ipos[d] /\ block'[d] = block[d]
          /\ headers' = headers /\ past' = past
      BY <2>2 DEF OnlyAt, ConsumerFrame
    <3> QED BY <3>1, <3>2 DEF WalkAt, Newest, Entry, AlignedAt, FirstBlock, LastBlock, Key
  <2> QED BY <2>1, <2>2
<1> QED BY <1>1, <1>2, <1>3, <1>4 DEF MemoryInv, WalksOK

(* Steps on the way to the block.                                          *)
LEMMA FlagsSame ==
  ASSUME NEW lo, NEW home, NEW dead, FlagsOK(lo, home, dead), ConsumerFrame, UNCHANGED emptyFlags,
         DoneSet' = DoneSet
  PROVE  FlagsOK(lo, home, dead)'
BY DEF FlagsOK, ConsumerFrame, Cur, Top, Written, InHand, InBulk

(* The consumer goes on to a place in its claim that it had not reached.   *)
LEMMA ConsumersKept ==
  ASSUME ConsumersOK, NEW c \in Consumer, at[c] # "none", at' \in [Consumer -> Labels],
         UNCHANGED <<headIndex, index, end>>, OnlyAt(c), at'[c] # "none",
         hdr' \in [Consumer -> Nat], ipos' \in [Consumer -> Int], block' \in [Consumer -> Block \cup {Null}],
         thrown' \in [Consumer -> BOOLEAN], DOMAIN item' = Consumer
  PROVE  ConsumersOK' /\ DoneSet' = DoneSet
<1>1. \A d \in Consumer : at'[d] # "none" <=> at[d] # "none"
  BY DEF OnlyAt
<1>2. ConsumersOK'
  BY <1>1 DEF ConsumersOK
<1>3. DoneSet' = DoneSet
  <2>1. \A d \in Consumer : \A n : Uncounted(d, n)' <=> Uncounted(d, n)
    BY <1>1 DEF Uncounted
  <2> QED BY <2>1 DEF DoneSet
<1> QED BY <1>2, <1>3

LEMMA ClaimKeeps ==
  ASSUME NEW o, NEW lo, NEW home, NEW dead, MemoryInv(o, lo, home, dead), NEW c \in Consumer, ClaimStep(c)
  PROVE  MemoryInv(o, lo, home, dead)' /\ headIndex' = headIndex /\ tailIndex' = tailIndex
<1>1. UNCHANGED <<memory, headIndex, tailIndex>>
  BY DEF ClaimStep, Draw, GiveBack
<1>2. ConsumerFrame /\ OnlyAt(c) /\ UNCHANGED <<emptyFlags, index, end, at, hdr, ipos, block, thrown, item>>
  BY <1>1 DEF memory, ring, blockIdx, call, locals, ConsumerFrame, OnlyAt
<1>3. ConsumersOK /\ FlagsOK(lo, home, dead) /\ WalkAt(o, home, c)
  BY DEF MemoryInv, WalksOK
<1>4. ConsumersOK' /\ DoneSet' = DoneSet
  BY <1>1, <1>2, <1>3 DEF ConsumersOK, DoneSet, Uncounted
<1>5. FlagsOK(lo, home, dead)'
  BY <1>2, <1>3, <1>4, FlagsSame
<1>6. WalkAt(o, home, c)'
  BY <1>1, <1>2, <1>3 DEF WalkAt, ConsumerFrame, Newest, Entry, AlignedAt, FirstBlock, LastBlock, Key
<1> QED BY <1>1, <1>2, <1>4, <1>5, <1>6, ConsumerDone

(* The elements that headIndex has passed are those of the consumer.       *)
LEMMA TakeIndexKeeps ==
  ASSUME Claims, NEW o, NEW lo, NEW home, NEW dead, MemoryInv(o, lo, home, dead), NEW c \in Consumer, TakeIndex(c)
  PROVE  MemoryInv(o, lo, home, dead)'
<1>1. ConsumersOK /\ FlagsOK(lo, home, dead) /\ WalkAt(o, home, c)
  BY DEF MemoryInv, WalksOK
<1>2. PICK n \in Nat : n = headIndex + count[c]
  BY DEF Claims, TypeOK
<1>3. headIndex \in Nat /\ count[c] \in Nat /\ headIndex < n
  <2>1. pc[c] # "idle"
    BY DEF TakeIndex, TakeAll, TakeRest
  <2>2. count[c] > 0 /\ count[c] \in Nat /\ headIndex \in Nat
    BY <2>1 DEF Claims, TypeOK, CountsPositive
  <2> QED BY <1>2, <2>2
<1>4. /\ at[c] = "none" /\ headIndex' = n /\ tailIndex' = tailIndex
      /\ index' = [index EXCEPT ![c] = headIndex] /\ end' = [end EXCEPT ![c] = n]
      /\ at' = [at EXCEPT ![c] = "header"]
      /\ UNCHANGED <<producer, slots, hdr, ipos, block, item, thrown>>
  BY <1>2 DEF TakeIndex, TakeAll, TakeRest, Grant, Cgoto
<1>5. ConsumerFrame /\ OnlyAt(c) /\ UNCHANGED emptyFlags
  BY <1>1, <1>4 DEF producer, ring, blockIdx, call, ConsumerFrame, OnlyAt, ConsumersOK
<1>6. /\ at'[c] = "header" /\ index'[c] = headIndex /\ end'[c] = n
      /\ at' \in [Consumer -> Labels] /\ index' \in [Consumer -> Nat] /\ end' \in [Consumer -> Nat]
  BY <1>1, <1>2, <1>3, <1>4 DEF ConsumersOK, Labels
<1>7. ConsumersOK'
  <2>1. \A d \in Consumer : at'[d] # "none" => index'[d] < end'[d] /\ end'[d] <= headIndex'
    <3>1. \A d \in Consumer : end[d] \in Nat
      BY <1>1 DEF ConsumersOK
    <3> QED BY <1>1, <1>3, <1>4, <1>5, <1>6, <3>1 DEF ConsumersOK, OnlyAt
  <2>2. \A d, e \in Consumer : d # e /\ at'[d] # "none" /\ at'[e] # "none" =>
                                 end'[d] <= index'[e] \/ end'[e] <= index'[d]
    <3>1. SUFFICES ASSUME NEW d \in Consumer, NEW e \in Consumer, d # e, at'[d] # "none", at'[e] # "none"
                   PROVE  end'[d] <= index'[e] \/ end'[e] <= index'[d]
      OBVIOUS
    <3>2. CASE d = c
      <4>1. at[e] # "none" /\ end'[e] = end[e]
        BY <1>5, <3>1, <3>2 DEF OnlyAt
      <4> QED BY <1>1, <1>6, <3>2, <4>1 DEF ConsumersOK
    <3>3. CASE e = c
      <4>1. at[d] # "none" /\ end'[d] = end[d]
        BY <1>5, <3>1, <3>3 DEF OnlyAt
      <4> QED BY <1>1, <1>6, <3>3, <4>1 DEF ConsumersOK
    <3>4. CASE d # c /\ e # c
      BY <1>1, <1>5, <3>1, <3>4 DEF ConsumersOK, OnlyAt
    <3> QED BY <3>2, <3>3, <3>4
  <2> QED BY <1>1, <1>4, <1>6, <2>1, <2>2 DEF ConsumersOK
<1>8. DoneSet' = DoneSet
  <2>1. ASSUME NEW m \in Int PROVE m \in DoneSet' <=> m \in DoneSet
    <3>1. \A d \in Consumer : d # c => (Uncounted(d, m)' <=> Uncounted(d, m))
      BY <1>5 DEF Uncounted, OnlyAt
    <3>2. ~Uncounted(c, m)
      BY <1>4 DEF Uncounted
    <3>3. Uncounted(c, m)' <=> headIndex <= m /\ m < n
      BY <1>6 DEF Uncounted
    <3>4. m < n /\ ~(headIndex <= m /\ m < n) <=> m < headIndex
      BY <1>2, <1>3
    <3> QED BY <1>4, <3>1, <3>2, <3>3, <3>4 DEF DoneSet
  <2> QED BY <2>1 DEF DoneSet
<1>9. FlagsOK(lo, home, dead)'
  BY <1>1, <1>5, <1>8, FlagsSame
<1>10. WalkAt(o, home, c)'
  BY <1>6 DEF WalkAt
<1> QED BY <1>5, <1>7, <1>9, <1>10, ConsumerDone

(* The blocks of a claim are in the newest index.                          *)
LEMMA ClaimedFacts ==
  ASSUME HeadOK, NEW o, NEW lo, NEW home, NEW dead, MemoryInv(o, lo, home, dead), NEW c \in Consumer,
         at[c] # "none"
  PROVE  /\ FirstBlock(c) \in Int /\ LastBlock(c) \in Int /\ lo \in Int
         /\ lo <= FirstBlock(c) /\ FirstBlock(c) <= LastBlock(c) /\ LastBlock(c) <= Cur
         /\ index[c] \in Nat /\ end[c] \in Nat /\ index[c] < end[c] /\ end[c] <= headIndex
         /\ Newest \in Nat /\ Newest > 0 /\ headers[Newest].front # -1
         /\ \A k \in Int : FirstBlock(c) <= k /\ k <= LastBlock(c) => Entry(o, Newest, k).block = home[k]
         /\ home[FirstBlock(c)] \in Block /\ Cur \in Int /\ Top \in Int /\ Cur <= Top
<1>1. PastOK /\ ProducerOK /\ IndexOK(o, lo, home) /\ RingOK(lo, home, dead) /\ FlagsOK(lo, home, dead) /\ ConsumersOK
  BY DEF MemoryInv
<1>2. /\ Cur \in Int /\ Written \in Int /\ Top \in Int /\ Cur <= Written /\ Written <= Top
      /\ lo \in Int /\ Newest \in Nat /\ (tailIndex > 0 => Newest > 0 /\ headers[Newest].front # -1)
      /\ \A k \in lo..Top : home[k] \in Block \ dead
  BY <1>1, MemoryFacts
<1>3. \A n \in Int : n < First(lo) => n \in DoneSet
  BY <1>1 DEF FlagsOK
<1>4. /\ FirstBlock(c) \in Int /\ LastBlock(c) \in Int
      /\ lo <= FirstBlock(c) /\ FirstBlock(c) <= LastBlock(c) /\ LastBlock(c) <= Cur
      /\ index[c] \in Nat /\ end[c] \in Nat /\ index[c] < end[c] /\ end[c] <= headIndex
      /\ tailIndex > 0
  BY <1>1, <1>2, <1>3, ActiveBlocks
<1>5. \A k \in Int : lo <= k /\ k <= Written => Entry(o, Newest, k).block = home[k]
  BY <1>1 DEF IndexOK
<1>6. \A k \in Int : FirstBlock(c) <= k /\ k <= LastBlock(c) => Entry(o, Newest, k).block = home[k]
  <2>1. \A k \in Int : FirstBlock(c) <= k /\ k <= LastBlock(c) => lo <= k /\ k <= Written
    BY <1>2, <1>4
  <2> QED BY <1>5, <2>1
<1>7. FirstBlock(c) \in lo..Top /\ Cur <= Top
  BY <1>2, <1>4
<1> QED BY <1>2, <1>4, <1>6, <1>7

LEMMA WalkKeeps ==
  ASSUME HeadOK, NEW o, NEW lo, NEW home, NEW dead, MemoryInv(o, lo, home, dead), NEW c \in Consumer,
         LoadHeader(c) \/ LoadFront(c) \/ LoadBase(c) \/ LoadBlock(c) \/ Move(c)
  PROVE  MemoryInv(o, lo, home, dead)'
<1>1. PastOK /\ IndexOK(o, lo, home) /\ FlagsOK(lo, home, dead) /\ ConsumersOK /\ WalkAt(o, home, c)
  BY DEF MemoryInv, WalksOK
<1>2. /\ at[c] # "none" /\ UNCHANGED <<index, end, headIndex, tailIndex, emptyFlags>> /\ ConsumerFrame
  BY DEF LoadHeader, LoadFront, LoadBase, LoadBlock, Move, vars, counters, producer, ring, blockIdx, call, ConsumerFrame
<1>3. /\ FirstBlock(c) \in Int /\ LastBlock(c) \in Int /\ lo \in Int
      /\ lo <= FirstBlock(c) /\ FirstBlock(c) <= LastBlock(c)
      /\ index[c] \in Nat /\ Newest \in Nat /\ Newest > 0 /\ headers[Newest].front # -1
      /\ \A k \in Int : FirstBlock(c) <= k /\ k <= LastBlock(c) => Entry(o, Newest, k).block = home[k]
      /\ home[FirstBlock(c)] \in Block
  BY <1>2, ClaimedFacts
<1>4. HeadersType(o)
  BY <1>1 DEF IndexOK
<1>5. FirstBlock(c)' = FirstBlock(c) /\ LastBlock(c)' = LastBlock(c) /\ Newest' = Newest /\ headers' = headers
      /\ past' = past
  BY <1>2 DEF FirstBlock, LastBlock, ConsumerFrame, Newest
<1>6. hdr \in [Consumer -> Nat] /\ ipos \in [Consumer -> Int] /\ block \in [Consumer -> Block \cup {Null}]
      /\ thrown \in [Consumer -> BOOLEAN] /\ DOMAIN item = Consumer /\ at \in [Consumer -> Labels]
  BY <1>1 DEF ConsumersOK
<1> DEFINE Ok == /\ OnlyAt(c) /\ at' \in [Consumer -> Labels] /\ at'[c] # "none"
                 /\ hdr' \in [Consumer -> Nat] /\ ipos' \in [Consumer -> Int]
                 /\ block' \in [Consumer -> Block \cup {Null}]
                 /\ thrown' \in [Consumer -> BOOLEAN] /\ DOMAIN item' = Consumer
                 /\ WalkAt(o, home, c)'
<1>7. ASSUME LoadHeader(c) PROVE Ok
  <2>1. /\ at[c] = "header" /\ at' = [at EXCEPT ![c] = "front"] /\ hdr' = [hdr EXCEPT ![c] = Newest]
        /\ UNCHANGED <<ipos, block, item, thrown>>
    BY <1>7 DEF LoadHeader, Cgoto, Newest
  <2>2. hdr'[c] = Newest /\ at'[c] = "front" /\ OnlyAt(c)
    BY <1>2, <1>6, <2>1 DEF OnlyAt
  <2>3. WalkAt(o, home, c)'
    BY <1>3, <1>5, <2>2 DEF WalkAt, Entry
  <2>4. at' \in [Consumer -> Labels] /\ hdr' \in [Consumer -> Nat] /\ ipos' \in [Consumer -> Int]
        /\ block' \in [Consumer -> Block \cup {Null}] /\ thrown' \in [Consumer -> BOOLEAN] /\ DOMAIN item' = Consumer
    BY <1>3, <1>6, <2>1 DEF Labels
  <2> QED BY <2>2, <2>3, <2>4
<1>8. ASSUME LoadFront(c) PROVE Ok
  <2>1. /\ at[c] = "front" /\ at' = [at EXCEPT ![c] = "base"]
        /\ ipos' = [ipos EXCEPT ![c] = headers[hdr[c]].front]
        /\ UNCHANGED <<hdr, block, item, thrown>>
    BY <1>8 DEF LoadFront, Cgoto
  <2>2. PICK g \in 1..Newest : g = hdr[c]
    BY <1>1, <2>1 DEF WalkAt
  <2>3. headers[g].front # -1 /\ headers[g].front \in -1..(Capacity[g] - 1) /\ Capacity[g] \in Nat
    BY <1>1, <1>4, <2>1, <2>2, HeaderAt, SizeFacts DEF WalkAt
  <2>4. AlignedAt(o, g, headers[g].front)
    BY <1>1, <2>3 DEF IndexOK
  <2>5. ipos'[c] = headers[g].front /\ ipos'[c] \in Int /\ at'[c] = "base" /\ OnlyAt(c) /\ hdr'[c] = g
    BY <1>2, <1>6, <2>1, <2>2, <2>3 DEF OnlyAt
  <2>6. AlignedAt(o, hdr[c], ipos[c])'
    BY <1>5, <2>4, <2>5 DEF AlignedAt, Key
  <2>7. WalkAt(o, home, c)'
    BY <1>1, <1>5, <2>1, <2>5, <2>6 DEF WalkAt, Entry
  <2>8. at' \in [Consumer -> Labels] /\ hdr' \in [Consumer -> Nat] /\ ipos' \in [Consumer -> Int]
        /\ block' \in [Consumer -> Block \cup {Null}] /\ thrown' \in [Consumer -> BOOLEAN] /\ DOMAIN item' = Consumer
    BY <1>6, <2>1, <2>3, <2>2 DEF Labels
  <2> QED BY <2>5, <2>7, <2>8
<1>9. ASSUME LoadBase(c) PROVE Ok
  <2>1. /\ at[c] = "base" /\ at' = [at EXCEPT ![c] = "block"]
        /\ ipos' = [ipos EXCEPT ![c] = EntryOf(headers[hdr[c]], ipos[c], index[c])]
        /\ UNCHANGED <<hdr, block, item, thrown>>
    BY <1>9 DEF LoadBase, Cgoto
  <2>2. PICK g \in 1..Newest : g = hdr[c]
    BY <1>1, <2>1 DEF WalkAt
  <2>3. PICK a \in Int : ipos[c] = Ring(o[g], Capacity[g], a) /\ headers[g].entries[ipos[c]].base = Key(a)
    BY <1>1, <2>1, <2>2 DEF WalkAt, AlignedAt
  <2>4. Capacity[g] \in Nat /\ Capacity[g] > 0 /\ Keys % Capacity[g] = 0 /\ o[g] \in Int /\ headers[g].size = Capacity[g]
    BY <1>4, SizeFacts, HeaderAt
  <2>5. EntryOf(headers[g], ipos[c], index[c]) = Ring(o[g], Capacity[g], FirstBlock(c))
    <3>1. BlockBase(Idx(index[c])) = Key(FirstBlock(c))
      <4>1. PICK n \in Int : n = index[c]
        BY <1>3
      <4>2. BlockBase(Idx(n)) = Key(BlockNo(n))
        BY <1>1, KeyFacts
      <4> QED BY <4>1, <4>2 DEF FirstBlock
    <3>2. PICK k \in Int : k = FirstBlock(c)
      BY <1>3
    <3>3. PICK m \in Nat : m = Capacity[g]
      BY <2>4
    <3>4. PICK b \in Int : b = o[g]
      BY <2>4
    <3>5. m > 0 /\ Keys % m = 0
      BY <2>4, <3>3
    <3>6. (Ring(b, m, a) + Offset(Key(k), Key(a))) % m = Ring(b, m, k)
      BY <1>1, <3>5, RingOffset
    <3> QED BY <2>3, <2>4, <3>1, <3>2, <3>3, <3>4, <3>6 DEF EntryOf
  <2>6. Ring(o[g], Capacity[g], FirstBlock(c)) \in Int
    BY <1>3, <2>4, RingType
  <2>7. /\ ipos'[c] = Ring(o[g], Capacity[g], FirstBlock(c)) /\ ipos'[c] \in Int /\ at'[c] = "block"
        /\ OnlyAt(c) /\ hdr'[c] = g
    BY <1>2, <1>6, <2>1, <2>2, <2>5, <2>6 DEF OnlyAt
  <2>8. WalkAt(o, home, c)'
    BY <1>1, <1>5, <2>1, <2>7 DEF WalkAt, Entry
  <2>9. at' \in [Consumer -> Labels] /\ hdr' \in [Consumer -> Nat] /\ ipos' \in [Consumer -> Int]
        /\ block' \in [Consumer -> Block \cup {Null}] /\ thrown' \in [Consumer -> BOOLEAN] /\ DOMAIN item' = Consumer
    BY <1>6, <2>1, <2>2, <2>5, <2>6 DEF Labels
  <2> QED BY <2>7, <2>8, <2>9
<1>10. ASSUME LoadBlock(c) PROVE Ok
  <2>1. /\ at[c] = "block" /\ at' = [at EXCEPT ![c] = "move"]
        /\ block' = [block EXCEPT ![c] = headers[hdr[c]].entries[ipos[c]].block]
        /\ UNCHANGED <<hdr, ipos, item, thrown>>
    BY <1>10 DEF LoadBlock, Cgoto
  <2>2. ipos[c] = Ring(o[hdr[c]], Capacity[hdr[c]], FirstBlock(c))
        /\ Entry(o, hdr[c], FirstBlock(c)).block = home[FirstBlock(c)]
    BY <1>1, <1>3, <2>1 DEF WalkAt
  <2>3. headers[hdr[c]].entries[ipos[c]].block = home[FirstBlock(c)]
    BY <2>2 DEF Entry
  <2>4. block'[c] = home[FirstBlock(c)] /\ at'[c] = "move" /\ OnlyAt(c)
    BY <1>2, <1>6, <2>1, <2>3 DEF OnlyAt
  <2>5. WalkAt(o, home, c)'
    BY <1>1, <1>5, <2>1, <2>4 DEF WalkAt, Entry
  <2>6. at' \in [Consumer -> Labels] /\ hdr' \in [Consumer -> Nat] /\ ipos' \in [Consumer -> Int]
        /\ block' \in [Consumer -> Block \cup {Null}] /\ thrown' \in [Consumer -> BOOLEAN] /\ DOMAIN item' = Consumer
    BY <1>3, <1>6, <2>1, <2>3 DEF Labels
  <2> QED BY <2>4, <2>5, <2>6
<1>11. ASSUME Move(c) PROVE Ok
  <2>1. /\ at[c] = "move" /\ at' = [at EXCEPT ![c] = "setEmpty"] /\ UNCHANGED <<hdr, ipos, block>>
    BY <1>11 DEF Move, Cgoto
  <2>2. DOMAIN item' = Consumer /\ thrown' \in [Consumer -> BOOLEAN]
    BY <1>6, <1>11 DEF Move
  <2>3. at'[c] = "setEmpty" /\ OnlyAt(c)
    BY <1>2, <1>6, <2>1 DEF OnlyAt
  <2>4. WalkAt(o, home, c)'
    BY <1>1, <1>5, <2>1, <2>3 DEF WalkAt, Entry
  <2>5. at' \in [Consumer -> Labels] /\ hdr' \in [Consumer -> Nat] /\ ipos' \in [Consumer -> Int]
        /\ block' \in [Consumer -> Block \cup {Null}] /\ thrown' \in [Consumer -> BOOLEAN] /\ DOMAIN item' = Consumer
    BY <1>6, <2>1, <2>2 DEF Labels
  <2> QED BY <2>3, <2>4, <2>5
<1>12. Ok
  BY <1>7, <1>8, <1>9, <1>10, <1>11
<1>13. ConsumersOK' /\ DoneSet' = DoneSet
  BY <1>1, <1>2, <1>12, ConsumersKept
<1>14. FlagsOK(lo, home, dead)'
  BY <1>1, <1>2, <1>13, FlagsSame
<1> QED BY <1>2, <1>12, <1>13, <1>14, ConsumerDone

(* What the consumer has been through are elements dequeued.               *)
LEMMA WentOn ==
  ASSUME ConsumersOK, headIndex \in Nat, NEW c \in Consumer, at[c] # "none", NEW m \in Nat,
         index[c] < m, m <= end[c],
         headIndex' = headIndex, OnlyAt(c), at' \in [Consumer -> Labels],
         index' \in [Consumer -> Nat], end' \in [Consumer -> Nat],
         hdr' \in [Consumer -> Nat], ipos' \in [Consumer -> Int], block' \in [Consumer -> Block \cup {Null}],
         thrown' \in [Consumer -> BOOLEAN], DOMAIN item' = Consumer,
         at'[c] = "none" => m = end[c],
         at'[c] # "none" => m < end[c] /\ index'[c] = m /\ end'[c] = end[c]
  PROVE  ConsumersOK' /\ DoneSet' = DoneSet \cup (index[c]..(m - 1))
<1>1. /\ \A d \in Consumer : at[d] # "none" => index[d] < end[d] /\ end[d] <= headIndex
      /\ \A d, e \in Consumer : d # e /\ at[d] # "none" /\ at[e] # "none" =>
                                 end[d] <= index[e] \/ end[e] <= index[d]
      /\ \A d \in Consumer : index[d] \in Nat /\ end[d] \in Nat
  BY DEF ConsumersOK
<1>2. \A d \in Consumer : d # c => at'[d] = at[d] /\ index'[d] = index[d] /\ end'[d] = end[d]
  BY DEF OnlyAt
<1>3. \A d \in Consumer : at'[d] # "none" => /\ at[d] # "none" /\ index[d] <= index'[d] /\ index'[d] < end'[d]
                                             /\ end'[d] = end[d]
  BY <1>1, <1>2
<1>4. ConsumersOK'
  <2>1. \A d \in Consumer : at'[d] # "none" => index'[d] < end'[d] /\ end'[d] <= headIndex'
    BY <1>1, <1>3
  <2>2. \A d, e \in Consumer : d # e /\ at'[d] # "none" /\ at'[e] # "none" =>
                                 end'[d] <= index'[e] \/ end'[e] <= index'[d]
    <3>1. SUFFICES ASSUME NEW d \in Consumer, NEW e \in Consumer, d # e, at'[d] # "none", at'[e] # "none"
                   PROVE  end'[d] <= index'[e] \/ end'[e] <= index'[d]
      OBVIOUS
    <3>2. /\ end'[d] = end[d] /\ end'[e] = end[e] /\ index[d] <= index'[d] /\ index[e] <= index'[e]
          /\ (end[d] <= index[e] \/ end[e] <= index[d])
      BY <1>1, <1>3, <3>1
    <3>3. /\ index'[d] \in Nat /\ index'[e] \in Nat
      OBVIOUS
    <3> QED BY <1>1, <3>2, <3>3
  <2> QED BY <2>1, <2>2 DEF ConsumersOK
<1>5. DoneSet' = DoneSet \cup (index[c]..(m - 1))
  <2>1. ASSUME NEW n \in Int PROVE n \in DoneSet' <=> n \in DoneSet \/ (index[c] <= n /\ n < m)
    <3>1. \A d \in Consumer : d # c => (Uncounted(d, n)' <=> Uncounted(d, n))
      BY <1>2 DEF Uncounted
    <3>2. Uncounted(c, n) <=> index[c] <= n /\ n < end[c]
      BY DEF Uncounted
    <3>3. Uncounted(c, n)' <=> m <= n /\ n < end[c]
      <4>1. CASE at'[c] = "none"
        BY <1>1, <4>1 DEF Uncounted
      <4>2. CASE at'[c] # "none"
        BY <4>2 DEF Uncounted
      <4> QED BY <4>1, <4>2
    <3>4. ASSUME index[c] <= n, n < m PROVE n < headIndex /\ ~Uncounted(c, n)' /\ \A d \in Consumer : d # c => ~Uncounted(d, n)
      <4>1. n < end[c] /\ end[c] <= headIndex
        BY <1>1, <3>4
      <4>2. \A d \in Consumer : d # c => ~Uncounted(d, n)
        BY <1>1, <3>4, <4>1 DEF Uncounted
      <4> QED BY <1>1, <3>3, <3>4, <4>1, <4>2
    <3>5. ASSUME ~(index[c] <= n /\ n < m) PROVE Uncounted(c, n)' <=> Uncounted(c, n)
      BY <1>1, <3>2, <3>3, <3>5
    <3>6. CASE index[c] <= n /\ n < m
      BY <3>1, <3>4, <3>6 DEF DoneSet
    <3>7. CASE ~(index[c] <= n /\ n < m)
      BY <3>1, <3>5, <3>7 DEF DoneSet
    <3> QED BY <3>6, <3>7
  <2>2. DoneSet \subseteq Int /\ DoneSet' \subseteq Int
    BY DEF DoneSet
  <2>3. \A n \in Int : n \in index[c]..(m - 1) <=> index[c] <= n /\ n < m
    BY <1>1
  <2>4. index[c]..(m - 1) \subseteq Int
    OBVIOUS
  <2> HIDE DEF DoneSet
  <2> QED BY <2>1, <2>2, <2>3, <2>4
<1> QED BY <1>4, <1>5

(* The slots of the elements in the first block of the claim.              *)
LEMMA SlotsHereAre ==
  ASSUME PastOK, NEW c \in Consumer, index[c] \in Nat, end[c] \in Nat, index[c] < end[c]
  PROVE  SlotsHere(c) = {i \in Slots : First(FirstBlock(c)) + i \in index[c]..(EndIndex(c) - 1)}
<1>1. /\ FirstBlock(c) \in Nat /\ EndIndex(c) \in Nat /\ index[c] < EndIndex(c)
      /\ First(FirstBlock(c)) <= index[c] /\ EndIndex(c) <= First(FirstBlock(c) + 1)
  BY EndIndexFacts
<1>2. PICK k \in Int : k = FirstBlock(c)
  BY <1>1
<1>3. First(k) \in Int /\ First(k + 1) = First(k) + BLOCK_SIZE /\ BLOCK_SIZE \in Nat
  BY FirstType, FirstNext, Sizes
<1>4. \A n \in index[c]..(EndIndex(c) - 1) : n \in Int /\ Slot(Idx(n)) = n - First(k) /\ n - First(k) \in Slots
  <2>1. SUFFICES ASSUME NEW n \in index[c]..(EndIndex(c) - 1)
                 PROVE  n \in Int /\ Slot(Idx(n)) = n - First(k) /\ n - First(k) \in Slots
    OBVIOUS
  <2>2. n \in Int /\ First(k) <= n /\ n < First(k) + BLOCK_SIZE
    BY <1>1, <1>2, <1>3
  <2>3. BlockNo(n) = k
    BY <2>2, BlockNoFacts
  <2>4. Slot(Idx(n)) = n - First(BlockNo(n))
    BY <2>2, SlotFacts
  <2>5. n - First(k) \in 0..(BLOCK_SIZE - 1)
    BY <1>3, <2>2
  <2> QED BY <2>2, <2>3, <2>4, <2>5 DEF Slots
<1>5. \A i \in Slots : i \in Int /\ First(k) + i - First(k) = i
  BY <1>3 DEF Slots
<1>6. \A n \in Int : First(k) + (n - First(k)) = n
  BY <1>3
<1>7. \A i : i \in SlotsHere(c) <=> i \in Slots /\ First(k) + i \in index[c]..(EndIndex(c) - 1)
  <2>1. ASSUME NEW n \in index[c]..(EndIndex(c) - 1)
        PROVE  Slot(Idx(n)) \in Slots /\ First(k) + Slot(Idx(n)) \in index[c]..(EndIndex(c) - 1)
    BY <1>4, <1>6
  <2>2. ASSUME NEW i \in Slots, First(k) + i \in index[c]..(EndIndex(c) - 1)
        PROVE  i \in SlotsHere(c)
    <3>1. PICK n \in index[c]..(EndIndex(c) - 1) : n = First(k) + i
      BY <2>2
    <3>2. Slot(Idx(n)) = n - First(k)
      BY <1>4
    <3>3. Slot(Idx(n)) = i
      BY <1>3, <1>5, <3>1, <3>2
    <3> QED BY <3>3 DEF SlotsHere
  <2> QED BY <2>1, <2>2 DEF SlotsHere
<1> QED BY <1>2, <1>7

LEMMA SetEmptyKeeps ==
  ASSUME HeadOK, NEW o, NEW lo, NEW home, NEW dead, MemoryInv(o, lo, home, dead), NEW c \in Consumer, SetEmpty(c)
  PROVE  MemoryInv(o, lo, home, dead)'
<1>1. PastOK /\ IndexOK(o, lo, home) /\ RingOK(lo, home, dead) /\ FlagsOK(lo, home, dead) /\ ConsumersOK /\ WalkAt(o, home, c)
  BY DEF MemoryInv, WalksOK
<1>2. /\ at[c] = "setEmpty" /\ UNCHANGED <<headIndex, tailIndex>> /\ ConsumerFrame
      /\ emptyFlags' = [emptyFlags EXCEPT ![block[c]] = @ \cup SlotsHere(c)]
      /\ block' = [block EXCEPT ![c] = Null]
  BY DEF SetEmpty, vars, counters, blockIdx, call, ConsumerFrame
<1>3. /\ FirstBlock(c) \in Int /\ LastBlock(c) \in Int /\ lo \in Int
      /\ lo <= FirstBlock(c) /\ FirstBlock(c) <= LastBlock(c) /\ LastBlock(c) <= Cur
      /\ index[c] \in Nat /\ end[c] \in Nat /\ index[c] < end[c] /\ end[c] <= headIndex
      /\ Newest \in Nat
      /\ home[FirstBlock(c)] \in Block /\ Cur \in Int /\ Top \in Int /\ Cur <= Top
  BY <1>2, ClaimedFacts
<1>4. PICK k \in Int : k = FirstBlock(c)
  BY <1>3
<1>5. PICK m \in Nat : m = EndIndex(c)
  BY <1>1, <1>3, EndIndexFacts
<1>6. /\ index[c] < m /\ m <= end[c] /\ First(k) <= index[c] /\ m <= First(k + 1)
      /\ m # end[c] => m = First(k + 1) /\ BlockNo(m) = k + 1 /\ k < LastBlock(c)
  BY <1>1, <1>3, <1>4, <1>5, EndIndexFacts
<1>7. PICK g \in 1..Newest : g = hdr[c]
  BY <1>1, <1>2 DEF WalkAt
<1>8. /\ Capacity[g] \in Nat /\ Capacity[g] > 0 /\ o[g] \in Int /\ headers[g].size = Capacity[g]
  <2>1. HeadersType(o)
    BY <1>1 DEF IndexOK
  <2> QED BY <2>1, SizeFacts, HeaderAt
<1>9. /\ ipos[c] = Ring(o[g], Capacity[g], k) /\ block[c] = home[k] /\ home[k] \in Block
      /\ \A j \in Int : k <= j /\ j <= LastBlock(c) => Entry(o, g, j).block = home[j]
  BY <1>1, <1>2, <1>3, <1>4, <1>7 DEF WalkAt
<1>10. NextEntry(c) = Ring(o[g], Capacity[g], k + 1) /\ NextEntry(c) \in Int
  <2>1. PICK p \in Nat : p = Capacity[g]
    BY <1>8
  <2>2. PICK b \in Int : b = o[g]
    BY <1>8
  <2>3. (Ring(b, p, k) + 1) % p = Ring(b, p, k + 1) /\ Ring(b, p, k + 1) \in Int
    <3>1. p > 0 /\ k + 1 \in Int
      BY <1>8, <2>1
    <3> QED BY <3>1, RingStep, RingType
  <2> QED BY <1>7, <1>8, <1>9, <2>1, <2>2, <2>3 DEF NextEntry
<1>11. \/ m = end[c] /\ at' = [at EXCEPT ![c] = "none"]
          /\ index' = [index EXCEPT ![c] = 0] /\ end' = [end EXCEPT ![c] = 0]
          /\ hdr' = [hdr EXCEPT ![c] = 1] /\ ipos' = [ipos EXCEPT ![c] = 0]
          /\ item' = [item EXCEPT ![c] = <<>>] /\ thrown' = [thrown EXCEPT ![c] = FALSE]
       \/ m # end[c] /\ at' = [at EXCEPT ![c] = "block"]
          /\ index' = [index EXCEPT ![c] = m] /\ ipos' = [ipos EXCEPT ![c] = NextEntry(c)]
          /\ UNCHANGED <<end, hdr, item, thrown>>
  BY <1>5 DEF SetEmpty, Cgoto
<1>12. /\ at \in [Consumer -> Labels] /\ index \in [Consumer -> Nat] /\ end \in [Consumer -> Nat]
       /\ hdr \in [Consumer -> Nat] /\ ipos \in [Consumer -> Int] /\ block \in [Consumer -> Block \cup {Null}]
       /\ thrown \in [Consumer -> BOOLEAN] /\ DOMAIN item = Consumer
  BY <1>1 DEF ConsumersOK
<1>13. /\ OnlyAt(c) /\ at' \in [Consumer -> Labels]
       /\ index' \in [Consumer -> Nat] /\ end' \in [Consumer -> Nat]
       /\ hdr' \in [Consumer -> Nat] /\ ipos' \in [Consumer -> Int] /\ block' \in [Consumer -> Block \cup {Null}]
       /\ thrown' \in [Consumer -> BOOLEAN] /\ DOMAIN item' = Consumer
       /\ at'[c] = "none" => m = end[c]
       /\ at'[c] # "none" => /\ m < end[c] /\ index'[c] = m /\ end'[c] = end[c] /\ at'[c] = "block"
                             /\ hdr'[c] = hdr[c] /\ ipos'[c] = NextEntry(c)
  <2>1. block' \in [Consumer -> Block \cup {Null}]
    BY <1>2, <1>12
  <2>2. CASE m = end[c]
    <3>1. /\ at' = [at EXCEPT ![c] = "none"]
          /\ index' = [index EXCEPT ![c] = 0] /\ end' = [end EXCEPT ![c] = 0]
          /\ hdr' = [hdr EXCEPT ![c] = 1] /\ ipos' = [ipos EXCEPT ![c] = 0]
          /\ item' = [item EXCEPT ![c] = <<>>] /\ thrown' = [thrown EXCEPT ![c] = FALSE]
      BY <1>11, <2>2
    <3>2. OnlyAt(c)
      BY <1>2, <1>12, <3>1 DEF OnlyAt
    <3>3. /\ at' \in [Consumer -> Labels] /\ at'[c] = "none"
          /\ index' \in [Consumer -> Nat] /\ end' \in [Consumer -> Nat]
      BY <1>12, <3>1 DEF Labels
    <3>4. /\ hdr' \in [Consumer -> Nat] /\ ipos' \in [Consumer -> Int]
          /\ thrown' \in [Consumer -> BOOLEAN] /\ DOMAIN item' = Consumer
      BY <1>12, <3>1
    <3> QED BY <2>1, <2>2, <3>2, <3>3, <3>4
  <2>3. CASE m # end[c]
    <3>1. PICK e \in Int : e = NextEntry(c)
      BY <1>10
    <3>2. /\ at' = [at EXCEPT ![c] = "block"] /\ index' = [index EXCEPT ![c] = m]
          /\ ipos' = [ipos EXCEPT ![c] = e] /\ UNCHANGED <<end, hdr, item, thrown>>
      BY <1>11, <2>3, <3>1
    <3>3. OnlyAt(c)
      BY <1>2, <1>12, <3>2 DEF OnlyAt
    <3>4. /\ at' \in [Consumer -> Labels] /\ at'[c] = "block" /\ index' \in [Consumer -> Nat]
          /\ index'[c] = m /\ ipos' \in [Consumer -> Int] /\ ipos'[c] = e
      BY <1>12, <3>2 DEF Labels
    <3>5. m < end[c]
      BY <1>3, <1>6, <2>3
    <3> QED BY <1>12, <2>1, <3>1, <3>2, <3>3, <3>4, <3>5
  <2> QED BY <2>2, <2>3
<1>14. ConsumersOK' /\ DoneSet' = DoneSet \cup (index[c]..(m - 1))
  <2>1. headIndex \in Nat /\ at[c] # "none"
    BY <1>2 DEF HeadOK
  <2> QED BY <1>1, <1>2, <1>6, <1>13, <2>1, WentOn
<1>15. WalkAt(o, home, c)'
  <2>1. CASE at'[c] = "none"
    BY <2>1 DEF WalkAt
  <2>2. CASE at'[c] # "none"
    <3>1. /\ at'[c] = "block" /\ hdr'[c] = g /\ ipos'[c] = Ring(o[g], Capacity[g], k + 1)
          /\ headers' = headers /\ past' = past /\ m # end[c]
      BY <1>2, <1>7, <1>10, <1>13, <2>2 DEF ConsumerFrame
    <3>2. FirstBlock(c)' = k + 1 /\ LastBlock(c)' = LastBlock(c) /\ Newest' = Newest
      BY <1>6, <1>13, <2>2, <3>1 DEF FirstBlock, LastBlock, Newest
    <3>3. \A j \in Int : k + 1 <= j /\ j <= LastBlock(c) => Entry(o, g, j).block = home[j]
      BY <1>9
    <3> QED BY <3>1, <3>2, <3>3 DEF WalkAt, Entry
  <2> QED BY <2>1, <2>2
<1>16. FlagsOK(lo, home, dead)'
  <2>1. Cur' = Cur /\ Top' = Top /\ ppc' = ppc
    BY <1>2 DEF ConsumerFrame, Cur, Top, Written, InHand, InBulk
  <2>2. SlotsHere(c) = {i \in Slots : First(k) + i \in index[c]..(m - 1)} /\ SlotsHere(c) \subseteq Slots
    <3>1. SlotsHere(c) = {i \in Slots : First(k) + i \in index[c]..(m - 1)}
      BY <1>1, <1>3, <1>4, <1>5, SlotsHereAre
    <3> QED BY <3>1
  <2>3. /\ emptyFlags \in [Block -> SUBSET Slots]
        /\ \A n \in Int : n < First(lo) => n \in DoneSet
        /\ \A j \in Int : lo <= j /\ j <= Cur => emptyFlags[home[j]] = {i \in Slots : First(j) + i \in DoneSet}
        /\ \A j \in Int : Cur < j /\ j <= Top => emptyFlags[home[j]] = IF ppc \in {"reuse", "allocate"} THEN Slots ELSE {}
        /\ \A b \in dead : emptyFlags[b] = {}
    BY <1>1 DEF FlagsOK
  <2>4. /\ emptyFlags' \in [Block -> SUBSET Slots] /\ emptyFlags'[home[k]] = emptyFlags[home[k]] \cup SlotsHere(c)
        /\ \A b \in Block : b # home[k] => emptyFlags'[b] = emptyFlags[b]
    BY <1>2, <1>9, <2>2, <2>3
  <2>5. /\ \A j \in lo..Top : home[j] \in Block \ dead
        /\ \A j \in lo..Top : j # k => home[j] # home[k]
        /\ home[k] \notin dead /\ dead \subseteq Block
    <3>1. k \in lo..Top
      BY <1>3, <1>4
    <3> QED BY <1>1, <3>1 DEF RingOK, Owned
  <2>6. \A n \in Int : n < First(lo) => n \in DoneSet'
    BY <1>14, <2>3
  <2>7. ASSUME NEW j \in Int, lo <= j, j <= Cur
        PROVE  emptyFlags'[home[j]] = {i \in Slots : First(j) + i \in DoneSet'}
    <3>1. emptyFlags[home[j]] = {i \in Slots : First(j) + i \in DoneSet}
      BY <2>3, <2>7
    <3>2. CASE j = k
      <4>1. emptyFlags'[home[j]] = {i \in Slots : First(j) + i \in DoneSet} \cup {i \in Slots : First(j) + i \in index[c]..(m - 1)}
        BY <2>2, <2>4, <3>1, <3>2
      <4> QED BY <1>14, <4>1
    <3>3. CASE j # k
      <4>1. home[j] \in Block /\ home[j] # home[k]
        BY <1>3, <2>5, <2>7, <3>3
      <4>2. emptyFlags'[home[j]] = emptyFlags[home[j]]
        BY <2>4, <4>1
      <4>3. \A i \in Slots : First(j) + i \notin index[c]..(m - 1)
        <5>1. SUFFICES ASSUME NEW i \in Slots, First(j) + i \in index[c]..(m - 1) PROVE FALSE
          OBVIOUS
        <5>2. First(j) \in Int /\ First(k) \in Int /\ First(k + 1) = First(k) + BLOCK_SIZE /\ BLOCK_SIZE \in Nat
          BY FirstType, FirstNext, Sizes
        <5>3. First(j) <= First(j) + i /\ First(j) + i < First(j) + BLOCK_SIZE /\ First(j) + i \in Int
          BY <5>2 DEF Slots
        <5>4. First(k) <= First(j) + i /\ First(j) + i < First(k) + BLOCK_SIZE
          BY <1>3, <1>6, <5>1, <5>2
        <5>5. BlockNo(First(j) + i) = j /\ BlockNo(First(j) + i) = k
          BY <5>3, <5>4, BlockNoFacts
        <5> QED BY <3>3, <5>5
      <4> QED BY <1>14, <3>1, <4>2, <4>3
    <3> QED BY <3>2, <3>3
  <2>8. ASSUME NEW j \in Int, Cur < j, j <= Top
        PROVE  emptyFlags'[home[j]] = IF ppc \in {"reuse", "allocate"} THEN Slots ELSE {}
    <3>1. home[j] \in Block /\ home[j] # home[k]
      <4>1. j \in lo..Top /\ j # k
        BY <1>3, <1>4, <2>8
      <4> QED BY <2>5, <4>1
    <3>2. emptyFlags'[home[j]] = emptyFlags[home[j]]
      BY <2>4, <3>1
    <3> QED BY <2>3, <2>8, <3>2
  <2>9. \A b \in dead : emptyFlags'[b] = {}
    BY <2>3, <2>4, <2>5
  <2> HIDE DEF Cur, Top, DoneSet
  <2> QED BY <2>1, <2>4, <2>6, <2>7, <2>8, <2>9 DEF FlagsOK
<1> QED BY <1>2, <1>13, <1>14, <1>15, <1>16, ConsumerDone

(* Every step of a consumer keeps the invariant.                           *)
LEMMA ConsumerKeeps ==
  ASSUME Claims, HeadOK, NEW o, NEW lo, NEW home, NEW dead, MemoryInv(o, lo, home, dead),
         NEW c \in Consumer, ConsumerStep(c)
  PROVE  MemoryInv(o, lo, home, dead)'
BY ClaimKeeps, TakeIndexKeeps, WalkKeeps, SetEmptyKeeps DEF ConsumerStep

-----------------------------------------------------------------------------
(* The initial states.                                                     *)
LEMMA LastUseFacts ==
  ASSUME PastOK
  PROVE  /\ \A i \in 0..(InitialIndexSize - 1) : LastUse(i) \in Int
         /\ LastUse((Used - 1) % InitialIndexSize) = Used - 1
<1> DEFINE I == InitialIndexSize
<1>1. I \in Nat /\ I > 0 /\ Used \in Nat
  BY RingAssumption, Sizes
<1>2. \A i \in 0..(I - 1) : LastUse(i) \in (Used - I)..(Used - 1) /\ LastUse(i) % I = i
  <2> SUFFICES ASSUME NEW i \in 0..(I - 1)
               PROVE  LastUse(i) \in (Used - I)..(Used - 1) /\ LastUse(i) % I = i
    OBVIOUS
  <2>1. \E k \in (Used - I)..(Used - 1) : k % I = i
    <3>1. 0 \in Int /\ Used - I - 1 \in Int /\ i \in 0..(I - 1)
      BY <1>1
    <3> HIDE DEF I
    <3>2. \E k \in Int : Used - I - 1 < k /\ k <= (Used - I - 1) + I /\ Ring(0, I, k) = i
      BY ONLY <1>1, <3>1, RingSome, ZenonT(30)
    <3>3. PICK k \in Int : Used - I - 1 < k /\ k <= (Used - I - 1) + I /\ Ring(0, I, k) = i
      BY <3>2
    <3>4. k \in (Used - I)..(Used - 1) /\ k - 0 = k
      BY <1>1, <3>3
    <3> QED BY <3>3, <3>4 DEF Ring
  <2> QED BY <2>1 DEF LastUse
<1>3. (Used - 1) % I \in 0..(I - 1)
  BY <1>1
<1>4. LastUse((Used - 1) % I) = Used - 1
  <2>1. PICK j \in (Used - I)..(Used - 1) : j = LastUse((Used - 1) % I)
    BY <1>2, <1>3
  <2>2. j % I = (Used - 1) % I
    BY <1>2, <1>3, <2>1
  <2>3. PICK k \in Int : k = Used - 1
    BY <1>1
  <2>4. Ring(0, I, j) = Ring(0, I, k)
    <3>1. j - 0 = j /\ k - 0 = k
      BY <1>1, <2>3
    <3> QED BY <2>2, <2>3, <3>1 DEF Ring
  <2>5. PICK low \in Int : low = Used - I - 1
    BY <1>1
  <2>6. low < j /\ j <= low + I /\ low < k /\ k <= low + I /\ j \in Int /\ 0 \in Int
    BY <1>1, <2>3, <2>5
  <2> HIDE DEF I
  <2>7. j = k
    BY ONLY <1>1, <2>4, <2>6, RingOnce
  <2> QED BY <2>1, <2>3, <2>7
<1> QED BY <1>1, <1>2, <1>4

LEMMA InitFacts ==
  ASSUME QueueInit
  PROVE  /\ PastOK /\ tailIndex = 0 /\ headIndex = 0 /\ ppc = "idle" /\ start = NoCall /\ bulk = NoBulk
         /\ slotsUsed \in {0, 1} /\ front \in Nat
         /\ Cur = -1 /\ Top = -1 /\ Written = -1 /\ Window = slotsUsed /\ AtFront = 0
         /\ ~InHand /\ ~InBulk /\ ProducerOK /\ ConsumersOK
         /\ DoneSet = {n \in Int : n < 0} /\ (\A c \in Consumer : at[c] = "none")
<1>1. PastOK
  BY RingAssumption DEF QueueInit, MemoryInit, PastOK
<1>2. /\ tailIndex = 0 /\ headIndex = 0 /\ ppc = "idle" /\ start = NoCall /\ bulk = NoBulk
      /\ ~InHand /\ ~InBulk /\ slotsUsed \in {0, 1}
  BY DEF QueueInit, Init, MemoryInit, Fresh, Passed, InHand, InBulk
<1>3. front \in Nat
  <2>1. InitialIndexSize \in Nat /\ InitialIndexSize > 0 /\ Used \in Nat
    BY <1>1, RingAssumption, Sizes
  <2>2. Used % InitialIndexSize \in 0..(InitialIndexSize - 1)
    BY <2>1
  <2> QED BY <2>2 DEF QueueInit, MemoryInit, Fresh, Passed
<1>4. Cur = -1 /\ Top = -1 /\ Written = -1 /\ Window = slotsUsed /\ AtFront = 0
  <2>1. BlockNo(-1) = -1
    <3>1. First(-1) <= -1 /\ -1 < First(-1) + BLOCK_SIZE
      BY Sizes DEF First
    <3> QED BY <3>1, BlockNoFacts
  <2>2. Cur = -1
    BY <1>2, <2>1 DEF Cur
  <2> QED BY <1>2, <2>2 DEF Top, Written, Window, AtFront
<1>5. ProducerOK
  BY <1>2, <1>3, <1>4, BoundAssumption DEF ProducerOK, NoCall, NoBulk, Started, Bulk, Enqueuing
<1>6. \A c \in Consumer : at[c] = "none"
  BY DEF QueueInit, MemoryInit
<1>7. ConsumersOK
  BY DEF QueueInit, MemoryInit, ConsumersOK, Labels
<1>8. DoneSet = {n \in Int : n < 0}
  BY <1>2, <1>6 DEF DoneSet, Uncounted
<1> QED BY <1>1, <1>2, <1>3, <1>4, <1>5, <1>6, <1>7, <1>8

LEMMA FreshMemory ==
  ASSUME QueueInit, Fresh
  PROVE  \E o, lo, home, dead : MemoryInv(o, lo, home, dead) /\ SlotsOK(home)
<1>1. /\ PastOK /\ tailIndex = 0 /\ headIndex = 0 /\ ppc = "idle" /\ start = NoCall /\ bulk = NoBulk
      /\ Cur = -1 /\ Top = -1 /\ Written = -1 /\ Window = slotsUsed /\ AtFront = 0
      /\ ~InHand /\ ~InBulk /\ ProducerOK /\ ConsumersOK
      /\ DoneSet = {n \in Int : n < 0} /\ (\A c \in Consumer : at[c] = "none")
  BY InitFacts
<1> DEFINE I == InitialIndexSize
           home == [k \in Int |-> Null]
           o == IF headers = <<>> THEN <<>> ELSE <<0>>
           h == [size |-> I, front |-> -1, entries |-> [i \in 0..(I - 1) |-> [base |-> 0, block |-> Null]]]
<1>2. /\ tailBlock = Null /\ next = [b \in Block |-> Null] /\ pool = Block
      /\ emptyFlags = [b \in Block |-> {}] /\ slotsUsed = 0 /\ front = 0
      /\ headers = <<>> \/ headers = <<h>>
  BY DEF Fresh
<1>3. I \in Nat /\ I > 0 /\ Capacity[1] = I /\ MaxHeaders \in Nat /\ 1 \in 1..MaxHeaders
  BY RingAssumption, CapacityFacts
<1>4. h.entries \in [0..(I - 1) -> [base : 0..(IndexMod - 1), block : Block \cup {Null}]]
      /\ h \in Header /\ h.size = I /\ h.front = -1
  <2>1. 0 \in 0..(IndexMod - 1)
    BY Sizes
  <2>2. h.entries \in [0..(I - 1) -> [base : 0..(IndexMod - 1), block : Block \cup {Null}]]
    BY <2>1
  <2>3. h.entries \in Arrays
    BY <1>3, <2>2 DEF Arrays
  <2> QED BY <1>3, <2>2, <2>3 DEF Header
<1> HIDE DEF h
<1>5. Newest \in {0, 1} /\ (Newest = 1 => headers[1] = h /\ size = I /\ headers = <<h>> /\ o = <<0>>)
      /\ (Newest = 0 => headers = <<>> /\ o = <<>>)
  BY <1>2, <1>4 DEF Newest, size, blockIndex
<1>6. HeadersType(o)
  <2>1. CASE Newest = 0
    BY <1>3, <1>5, <2>1 DEF HeadersType
  <2>2. CASE Newest = 1
    <3>1. headers \in Seq(Header) /\ 1..Newest = {1} /\ o \in [1..Newest -> Int]
      <4>1. headers = <<h>> /\ o = <<0>> /\ h \in Header
        BY <1>4, <1>5, <2>2
      <4> HIDE DEF o
      <4>2. headers \in Seq(Header) /\ 1..Newest = {1}
        BY <2>2, <4>1
      <4>3. <<0>> \in [1..1 -> Int]
        OBVIOUS
      <4> QED BY <2>2, <4>1, <4>2, <4>3
    <3>2. \A g \in 1..Newest :
            /\ headers[g].size = Capacity[g] /\ headers[g].front \in -1..(Capacity[g] - 1)
            /\ headers[g].entries \in
                 [0..(Capacity[g] - 1) -> [base : 0..(IndexMod - 1), block : Block \cup {Null}]]
      BY <1>3, <1>4, <1>5, <2>2, <3>1
    <3> QED BY <1>3, <2>2, <3>1, <3>2 DEF HeadersType
  <2> QED BY <1>5, <2>1, <2>2
<1>7. IndexOK(o, 0, home)
  <2>1. Newest > 0 => slotsUsed <= size /\ front = Ring(o[Newest], size, AtFront)
    <3>1. 0 % I = 0 /\ 0 - 0 = 0
      BY <1>3
    <3> HIDE DEF I
    <3>2. ASSUME Newest = 1 PROVE slotsUsed <= size /\ front = Ring(o[Newest], size, AtFront)
      <4>1. o[Newest] = 0 /\ size = I
        BY <1>5, <3>2
      <4> HIDE DEF o
      <4> QED BY <1>1, <1>2, <1>3, <3>1, <4>1 DEF Ring
    <3> QED BY <1>5, <3>2
  <2>2. Written - Window < 0 /\ (\A k \in Int : ~(Written - Window < k /\ k <= Written))
        /\ (\A k \in Int : ~(0 <= k /\ k <= Written))
    BY <1>1, <1>2
  <2>3. \A g \in 1..Newest : headers[g].front = -1
    BY <1>4, <1>5
  <2> HIDE DEF o, home
  <2> QED BY <1>1, <1>2, <1>6, <2>1, <2>2, <2>3 DEF IndexOK
<1>8. RingOK(0, home, {})
  BY <1>1, <1>2 DEF RingOK, Owned
<1>9. FlagsOK(0, home, {})
  <2>1. First(0) = 0
    BY FirstType
  <2> QED BY <1>1, <1>2, <2>1 DEF FlagsOK
<1>10. WalksOK(o, home)
  BY <1>1 DEF WalksOK, WalkAt
<1>11. SlotsOK(home)
  <2>1. Present = {}
    BY <1>1 DEF Present, Made, Unmoved
  <2> QED BY <2>1 DEF SlotsOK, QueueInit, MemoryInit
<1> HIDE DEF o, home
<1> QED BY <1>1, <1>7, <1>8, <1>9, <1>10, <1>11 DEF MemoryInv

LEMMA PassedMemory ==
  ASSUME QueueInit, Passed
  PROVE  \E o, lo, home, dead : MemoryInv(o, lo, home, dead) /\ SlotsOK(home)
<1>1. /\ PastOK /\ tailIndex = 0 /\ headIndex = 0 /\ ppc = "idle" /\ start = NoCall /\ bulk = NoBulk
      /\ Cur = -1 /\ Top = -1 /\ Written = -1 /\ Window = slotsUsed /\ AtFront = 0
      /\ ~InHand /\ ~InBulk /\ ProducerOK /\ ConsumersOK
      /\ DoneSet = {n \in Int : n < 0} /\ (\A c \in Consumer : at[c] = "none")
  BY InitFacts
<1> DEFINE I == InitialIndexSize
<1>2. PICK b \in Block :
        /\ tailBlock = b /\ next = [d \in Block |-> IF d = b THEN b ELSE Null] /\ pool = Block \ {b}
        /\ emptyFlags = [d \in Block |-> IF d = b THEN Slots ELSE {}]
        /\ headers = <<[size |-> I, front |-> (Used - 1) % I,
                        entries |-> [i \in 0..(I - 1) |-> [base |-> Wrap(LastUse(i) * BLOCK_SIZE), block |-> b]]]>>
        /\ slotsUsed = 1 /\ front = Used % I
  BY DEF Passed
<1>3. PICK u \in Nat : u = Used
  BY <1>1, Sizes
<1>4. PICK e : e = [i \in 0..(I - 1) |-> [base |-> Wrap(LastUse(i) * BLOCK_SIZE), block |-> b]]
  OBVIOUS
<1>5. PICK p : p = (u - 1) % I
  OBVIOUS
<1> DEFINE home == [k \in Int |-> IF k = -1 THEN b ELSE Null]
           o == <<-u>>
           h == [size |-> I, front |-> p, entries |-> e]
<1>6. I \in Nat /\ I > 0 /\ Capacity[1] = I /\ MaxHeaders \in Nat /\ 1 \in 1..MaxHeaders
  BY RingAssumption, CapacityFacts
<1>7. p \in 0..(I - 1) /\ p # -1
  <2>1. p \in 0..(I - 1)
    BY <1>5, <1>6
  <2> QED BY <1>6, <2>1
<1>8. e \in [0..(I - 1) -> [base : 0..(IndexMod - 1), block : Block \cup {Null}]]
  <2>1. \A i \in 0..(I - 1) : Wrap(LastUse(i) * BLOCK_SIZE) \in 0..(IndexMod - 1)
    <3> SUFFICES ASSUME NEW i \in 0..(I - 1) PROVE Wrap(LastUse(i) * BLOCK_SIZE) \in 0..(IndexMod - 1)
      OBVIOUS
    <3>1. LastUse(i) \in Int
      BY <1>1, LastUseFacts
    <3>2. LastUse(i) * BLOCK_SIZE \in Int
      BY <3>1, Sizes
    <3>3. \A n \in Int : n % IndexMod \in 0..(IndexMod - 1)
      BY Sizes
    <3> QED BY <3>2, <3>3 DEF Wrap
  <2> QED BY <1>4, <2>1
<1>9. headers = <<h>> /\ Newest = 1 /\ headers[1] = h /\ size = I /\ 1..Newest = {1}
  BY <1>2, <1>3, <1>4, <1>5 DEF Newest, size, blockIndex
<1>10. e[p] = [base |-> Key(-1), block |-> b]
  <2>1. LastUse(p) = u - 1
    BY <1>1, <1>3, <1>5, LastUseFacts
  <2>2. (u - 1) * BLOCK_SIZE = past + First(-1)
    <3>1. past = BLOCK_SIZE * u /\ BLOCK_SIZE \in Nat
      BY <1>1, <1>3, Sizes
    <3>2. \A s, t \in Nat : (t - 1) * s = s * t + s * (-1)
      OBVIOUS
    <3> QED BY <3>1, <3>2 DEF First
  <2>3. Wrap(LastUse(p) * BLOCK_SIZE) = Key(-1)
    BY <2>1, <2>2 DEF Key
  <2>4. e[p] = [base |-> Wrap(LastUse(p) * BLOCK_SIZE), block |-> b]
    BY <1>4, <1>7
  <2> QED BY <2>3, <2>4
<1>11. Ring(-u, I, -1) = p /\ Ring(-u, I, 0) = u % I
  <2>1. -1 - (-u) = u - 1 /\ 0 - (-u) = u
    OBVIOUS
  <2> QED BY <1>5, <2>1 DEF Ring
<1>12. HeadersType(o)
  <2>1. e \in Arrays
    BY <1>6, <1>8 DEF Arrays
  <2>2. h \in Header
    BY <1>6, <1>7, <2>1 DEF Header
  <2>3. h.size = I /\ h.front = p /\ h.entries = e
    OBVIOUS
  <2> HIDE DEF h
  <2>4. headers \in Seq(Header) /\ o \in [1..Newest -> Int]
    BY <1>9, <2>2
  <2>5. \A g \in 1..Newest :
            /\ headers[g].size = Capacity[g] /\ headers[g].front \in -1..(Capacity[g] - 1)
            /\ headers[g].entries \in
                 [0..(Capacity[g] - 1) -> [base : 0..(IndexMod - 1), block : Block \cup {Null}]]
    BY <1>6, <1>7, <1>8, <1>9, <2>3
  <2> QED BY <1>6, <1>9, <2>4, <2>5 DEF HeadersType
<1>13. IndexOK(o, -1, home)
  <2>1. o[1] = -u /\ h.entries = e /\ h.front = p /\ home[-1] = b
    OBVIOUS
  <2> HIDE DEF o, home, h, I
  <2>2. Newest > 0 /\ slotsUsed <= size /\ front = Ring(o[Newest], size, AtFront)
    BY <1>1, <1>2, <1>3, <1>6, <1>9, <1>11, <2>1
  <2>3. Written - Window < -1 /\ (\A k \in Int : Written - Window < k /\ k <= Written => k = -1)
        /\ (\A k \in Int : -1 <= k /\ k <= Written => k = -1)
    BY <1>1, <1>2
  <2>4. Entry(o, Newest, -1) = [base |-> Key(-1), block |-> b]
    BY <1>6, <1>9, <1>10, <1>11, <2>1 DEF Entry
  <2>5. AlignedAt(o, 1, p)
    <3>1. p = Ring(o[1], Capacity[1], -1) /\ headers[1].entries[p].base = Key(-1)
      BY <1>6, <1>9, <1>10, <1>11, <2>1
    <3> QED BY <3>1 DEF AlignedAt
  <2>6. \A g \in 1..Newest : g = 1 /\ headers[g].front = p
    BY <1>9, <2>1
  <2>7. \A g \in 1..Newest : headers[g].front # -1 => AlignedAt(o, g, headers[g].front)
    BY <2>5, <2>6
  <2>8. \A k \in Int : Written - Window < k /\ k <= Written => Entry(o, Newest, k).base = Key(k)
    BY <2>3, <2>4
  <2>9. \A k \in Int : -1 <= k /\ k <= Written => Entry(o, Newest, k).block = home[k]
    BY <2>1, <2>3, <2>4
  <2> HIDE DEF Entry, AlignedAt
  <2> QED BY <1>1, <1>12, <2>2, <2>3, <2>7, <2>8, <2>9 DEF IndexOK
<1>14. RingOK(-1, home, {})
  <2>1. home \in [Int -> Block \cup {Null}] /\ home[-1] = b
    OBVIOUS
  <2>2. \A k \in (-1)..Top : k = -1
    BY <1>1
  <2>3. Owned = {b} /\ next[b] = b /\ tailBlock = b /\ tailBlock = home[Top] /\ next[tailBlock] = home[-1]
    BY <1>1, <1>2, <2>1 DEF Owned
  <2>4. (-1)..(Top - 1) = {}
    BY <1>1
  <2> HIDE DEF home
  <2>5. /\ \A k \in (-1)..Top : home[k] \in Owned \ {}
        /\ \A j, k \in (-1)..Top : home[j] = home[k] => j = k
        /\ \A k \in (-1)..(Top - 1) : next[home[k]] = home[k + 1]
    BY <2>1, <2>2, <2>3, <2>4
  <2>6. -1 \in Int /\ -1 <= Cur + 1 /\ -1 <= Top
    BY <1>1
  <2> QED BY <1>1, <2>1, <2>3, <2>5, <2>6 DEF RingOK
<1>15. FlagsOK(-1, home, {})
  <2>1. First(-1) + BLOCK_SIZE = 0 /\ First(-1) \in Int /\ BLOCK_SIZE \in Nat
    BY Sizes DEF First
  <2>2. \A i \in Slots : First(-1) + i \in DoneSet
    BY <1>1, <2>1 DEF Slots
  <2>3. \A n \in Int : n < First(-1) => n \in DoneSet
    BY <1>1, <2>1, Sizes
  <2>4. home[-1] = b /\ emptyFlags[b] = Slots /\ emptyFlags \in [Block -> SUBSET Slots]
    BY <1>2
  <2>5. (\A k \in Int : -1 <= k /\ k <= Cur => k = -1) /\ (\A k \in Int : ~(Cur < k /\ k <= Top))
    BY <1>1
  <2> HIDE DEF home
  <2>6. \A k \in Int : -1 <= k /\ k <= Cur => emptyFlags[home[k]] = {i \in Slots : First(k) + i \in DoneSet}
    BY <2>2, <2>4, <2>5
  <2> QED BY <2>3, <2>4, <2>5, <2>6 DEF FlagsOK
<1>16. WalksOK(o, home)
  BY <1>1 DEF WalksOK, WalkAt
<1>17. SlotsOK(home)
  <2>1. Present = {}
    BY <1>1 DEF Present, Made, Unmoved
  <2> QED BY <2>1 DEF SlotsOK, QueueInit, MemoryInit
<1> HIDE DEF o, home
<1> QED BY <1>1, <1>13, <1>14, <1>15, <1>16, <1>17 DEF MemoryInv

-----------------------------------------------------------------------------
(* What is in the slots.  In one block, a slot stands for one element.     *)
LEMMA SlotOnce ==
  ASSUME PastOK, NEW m \in Int, NEW n \in Int, BlockNo(m) = BlockNo(n), Slot(Idx(m)) = Slot(Idx(n))
  PROVE  m = n
<1>1. Slot(Idx(m)) = m - First(BlockNo(m)) /\ Slot(Idx(n)) = n - First(BlockNo(n))
  BY SlotFacts
<1>2. BlockNo(n) \in Int
  BY BlockNoFacts
<1>3. First(BlockNo(n)) \in Int
  BY <1>2, FirstType
<1>4. m - First(BlockNo(n)) = n - First(BlockNo(n))
  BY <1>1
<1> QED BY ONLY <1>3, <1>4, m \in Int, n \in Int

(* Blocks of the queue are different blocks.                               *)
LEMMA LiveOnce ==
  ASSUME NEW lo, NEW home, NEW dead, RingOK(lo, home, dead), PastOK,
         NEW m \in Int, NEW n \in Int, BlockNo(m) \in lo..Top, BlockNo(n) \in lo..Top,
         home[BlockNo(m)] = home[BlockNo(n)], Slot(Idx(m)) = Slot(Idx(n))
  PROVE  m = n
<1>1. BlockNo(m) = BlockNo(n)
  BY DEF RingOK
<1> QED BY <1>1, SlotOnce

(* How far the producer has constructed elements.                          *)
LEMMA MadeFacts ==
  ASSUME NEW o, NEW lo, NEW home, NEW dead, HeadOK, MemoryInv(o, lo, home, dead)
  PROVE  /\ Made \in Nat /\ tailIndex <= Made /\ Made <= MaxTail
         /\ \A n \in Nat : n < Made => BlockNo(n) <= Top
         /\ Top \in Int /\ lo \in Int /\ Cur \in Int
<1>1. PastOK /\ ProducerOK /\ IndexOK(o, lo, home) /\ RingOK(lo, home, dead)
  BY DEF MemoryInv
<1>2. /\ Cur \in Int /\ Written \in Int /\ Top \in Int /\ Cur <= Written /\ Written <= Top
      /\ lo \in Int /\ tailIndex \in Nat
  BY <1>1, MemoryFacts
<1>3. tailIndex <= MaxTail /\ MaxTail \in Nat
  BY <1>1, BoundAssumption DEF ProducerOK
<1>4. CASE ppc \in {"storeEntry", "storeFront", "publish"}
  <2>1. Slot(Idx(tailIndex)) = 0 /\ tailIndex < MaxTail
    BY <1>1, <1>4 DEF ProducerOK, Enqueuing
  <2>2. Made = tailIndex + 1
    BY <1>4 DEF Made
  <2>3. Top = Cur + 1
    BY <1>4 DEF Top, Written, InHand, InBulk
  <2>4. BlockNo(tailIndex) = Cur + 1
    BY <1>1, <1>2, <2>1, CurFacts
  <2>5. \A n \in Nat : n < Made => BlockNo(n) <= Top
    <3> SUFFICES ASSUME NEW n \in Nat, n < Made PROVE BlockNo(n) <= Top
      OBVIOUS
    <3>1. n <= tailIndex /\ n \in Int /\ tailIndex \in Int
      BY <1>2, <2>2
    <3> QED BY <2>3, <2>4, <3>1, BlockNoFacts
  <2> QED BY <1>2, <1>3, <2>1, <2>2, <2>5
<1>5. CASE ppc \in {"storeLastFront", "publishAll"}
  <2>1. /\ bulk.count > 0 /\ tailIndex + bulk.count <= MaxTail /\ bulk.count \in Nat /\ Written = LastBlockNo
    BY <1>1, <1>5 DEF ProducerOK, InBulk, Filled, Bulk
  <2>2. Made = tailIndex + bulk.count
    BY <1>5 DEF Made
  <2>3. \A n \in Nat : n < Made => BlockNo(n) <= Top
    <3> SUFFICES ASSUME NEW n \in Nat, n < Made PROVE BlockNo(n) <= Top
      OBVIOUS
    <3>1. PICK m \in Int : m = tailIndex + bulk.count - 1
      BY <1>2, <2>1
    <3>2. n <= m /\ n \in Int /\ BlockNo(m) = Written
      BY <1>2, <2>1, <2>2, <3>1 DEF LastBlockNo
    <3>3. BlockNo(n) <= BlockNo(m) /\ BlockNo(n) \in Int
      BY <3>2, BlockNoFacts
    <3> QED BY <1>2, <3>2, <3>3
  <2> QED BY <1>2, <1>3, <2>1, <2>2, <2>3
<1>6. CASE ppc \notin {"storeEntry", "storeFront", "publish", "storeLastFront", "publishAll"}
  <2>1. Made = tailIndex
    BY <1>2, <1>6 DEF Made
  <2>2. \A n \in Nat : n < Made => BlockNo(n) <= Top
    <3> SUFFICES ASSUME NEW n \in Nat, n < Made PROVE BlockNo(n) <= Top
      OBVIOUS
    <3>1. n <= tailIndex - 1 /\ n \in Int /\ tailIndex - 1 \in Int
      BY <1>2, <2>1
    <3>2. BlockNo(n) <= BlockNo(tailIndex - 1) /\ BlockNo(n) \in Int
      BY <3>1, BlockNoFacts
    <3> QED BY <1>2, <3>2 DEF Cur
  <2> QED BY <1>2, <1>3, <2>1, <2>2
<1> QED BY <1>4, <1>5, <1>6

(* Elements that are not dequeued, or dequeued but not moved, are in blocks*)
(* that have not been used again.                                          *)
LEMMA NotDone ==
  ASSUME NEW lo \in Int, \A m \in Int : m < First(lo) => m \in DoneSet, NEW n \in Int, n \notin DoneSet
  PROVE  lo <= BlockNo(n)
<1>1. /\ BlockNo(n) \in Int /\ First(BlockNo(n)) \in Int /\ n < First(BlockNo(n)) + BLOCK_SIZE
      /\ First(lo) \in Int
  BY BlockNoFacts, FirstType
<1>2. SUFFICES ASSUME BlockNo(n) < lo PROVE FALSE
  BY <1>1
<1>3. First(BlockNo(n)) + BLOCK_SIZE <= First(lo) /\ BLOCK_SIZE \in Nat
  BY <1>1, <1>2, FirstOrder, Sizes
<1>4. n < First(lo)
  BY <1>1, <1>3
<1> QED BY <1>4

LEMMA UnmovedFacts ==
  ASSUME PastOK, ConsumersOK, NEW c \in Consumer, NEW n \in Nat, Unmoved(c, n)
  PROVE  Uncounted(c, n) /\ index[c] \in Nat /\ end[c] \in Nat /\ index[c] <= n /\ n < end[c] /\ end[c] <= headIndex
<1>1. at[c] # "none" /\ index[c] \in Nat /\ end[c] \in Nat /\ index[c] < end[c] /\ end[c] <= headIndex
  BY DEF ConsumersOK, Unmoved
<1>2. index[c] < EndIndex(c) /\ EndIndex(c) \in Nat
  BY <1>1, EndIndexFacts
<1>3. index[c] <= Unfetched(c) /\ Unfetched(c) \in Nat
  BY <1>1, <1>2 DEF Unfetched
<1>4. Unfetched(c) <= n /\ n < end[c]
  BY DEF Unmoved
<1>5. index[c] <= n
  BY <1>1, <1>3, <1>4
<1> QED BY <1>1, <1>4, <1>5 DEF Uncounted

LEMMA PresentLive ==
  ASSUME NEW o, NEW lo, NEW home, NEW dead, HeadOK, MemoryInv(o, lo, home, dead), NEW n \in Present
  PROVE  n \in Nat /\ n < Made /\ n \notin DoneSet /\ BlockNo(n) \in lo..Top /\ home[BlockNo(n)] \in Block
<1>1. PastOK /\ RingOK(lo, home, dead) /\ FlagsOK(lo, home, dead) /\ ConsumersOK
  BY DEF MemoryInv
<1>2. n \in Nat /\ n < Made /\ (headIndex <= n \/ \E c \in Consumer : Unmoved(c, n))
  BY DEF Present
<1>3. n \notin DoneSet
  <2>1. CASE headIndex <= n
    BY <1>2, <2>1 DEF DoneSet, HeadOK
  <2>2. CASE \E c \in Consumer : Unmoved(c, n)
    <3>1. PICK c \in Consumer : Uncounted(c, n)
      BY <1>1, <1>2, <2>2, UnmovedFacts
    <3> QED BY <3>1 DEF DoneSet
  <2> QED BY <1>2, <2>1, <2>2
<1>4. lo \in Int /\ Top \in Int /\ BlockNo(n) <= Top
  BY <1>2, MadeFacts
<1>5. lo <= BlockNo(n) /\ BlockNo(n) \in Int
  <2>1. n \in Int /\ \A m \in Int : m < First(lo) => m \in DoneSet
    BY <1>1, <1>2 DEF FlagsOK
  <2> QED BY <1>3, <1>4, <2>1, NotDone, BlockNoFacts
<1>6. BlockNo(n) \in lo..Top
  BY <1>4, <1>5
<1> QED BY <1>1, <1>2, <1>3, <1>6 DEF RingOK, Owned

(* Elements are constructed.                                               *)
LEMMA SlotsFilled ==
  ASSUME NEW home, SlotsOK(home), past' = past, NEW N \in SUBSET Nat, Present' = Present \cup N,
         slots' \in [Block -> [Slots -> Nat]],
         \A n \in N : home[BlockNo(n)] \in Block => slots'[home[BlockNo(n)]][Slot(Idx(n))] = n + 1,
         \A b \in Block, i \in Slots :
            (\A n \in N : ~(home[BlockNo(n)] = b /\ Slot(Idx(n)) = i)) => slots'[b][i] = slots[b][i],
         \A m, n \in Present \cup N : home[BlockNo(m)] = home[BlockNo(n)] /\ Slot(Idx(m)) = Slot(Idx(n)) => m = n
  PROVE  SlotsOK(home)'
<1>1. \A n : Idx(n)' = Idx(n)
  BY DEF Idx
<1>2. ASSUME NEW b \in Block, NEW i \in Slots, NEW m \in Nat
      PROVE  slots'[b][i] = m + 1 <=> m \in Present \cup N /\ home[BlockNo(m)] = b /\ Slot(Idx(m)) = i
  <2>1. slots[b][i] = m + 1 <=> m \in Present /\ home[BlockNo(m)] = b /\ Slot(Idx(m)) = i
    BY DEF SlotsOK
  <2>2. CASE \E n \in N : home[BlockNo(n)] = b /\ Slot(Idx(n)) = i
    <3>1. PICK n \in N : home[BlockNo(n)] = b /\ Slot(Idx(n)) = i
      BY <2>2
    <3>2. slots'[b][i] = n + 1 /\ n \in Nat
      BY <3>1
    <3>3. m \in Present \cup N /\ home[BlockNo(m)] = b /\ Slot(Idx(m)) = i <=> m = n
      BY <3>1
    <3>4. slots'[b][i] = m + 1 <=> m = n
      <4>1. \A x, y \in Nat : x + 1 = y + 1 <=> x = y
        OBVIOUS
      <4> QED BY <3>2, <4>1
    <3> QED BY <3>3, <3>4
  <2>3. CASE \A n \in N : ~(home[BlockNo(n)] = b /\ Slot(Idx(n)) = i)
    BY <2>1, <2>3
  <2> QED BY <2>2, <2>3
<1> QED BY <1>1, <1>2 DEF SlotsOK

(* The producer does something else.                                       *)
LEMMA PresentKept ==
  ASSUME UNCHANGED <<headIndex, at, index, end, past>>, Made' = Made
  PROVE  Present' = Present
BY DEF Present, Unmoved, Unfetched, EndIndex, Idx

(* The blocks of elements that are not done stay where they are.           *)
LEMMA HomeFollows ==
  ASSUME PastOK, DoneFrame, NEW q, NEW lo, NEW home, NEW low, NEW new, NEW gone,
         MemoryInv(q, low, new, gone)', Follows(lo, home, low, new), Top \in Int,
         NEW n \in Int, n \notin DoneSet, BlockNo(n) <= Top
  PROVE  new[BlockNo(n)] = home[BlockNo(n)]
<1>1. low \in Int /\ \A k \in Int : low <= k /\ k <= Top => new[k] = home[k]
  BY DEF Follows
<1>2. \A m \in Int : m < First(low) => m \in DoneSet
  <2>1. FlagsOK(low, new, gone)'
    BY DEF MemoryInv
  <2>2. \A m \in Int : m < First(low)' => m \in DoneSet'
    BY <2>1 DEF FlagsOK
  <2>3. First(low)' = First(low) /\ DoneSet' = DoneSet
    BY DoneSame DEF First
  <2> QED BY <2>2, <2>3
<1>3. low <= BlockNo(n)
  BY <1>1, <1>2, NotDone
<1>4. BlockNo(n) \in Int
  BY BlockNoFacts
<1> QED BY <1>1, <1>3, <1>4

(* The producer constructs elements, or none.                              *)
LEMMA SlotsMade ==
  ASSUME NEW o, NEW lo, NEW home, NEW dead, HeadOK, MemoryInv(o, lo, home, dead), SlotsOK(home),
         NEW q, NEW low, NEW new, NEW gone, MemoryInv(q, low, new, gone)', Follows(lo, home, low, new),
         UNCHANGED <<headIndex, at, index, end, past>>,
         NEW N \in SUBSET Nat, Present' = Present \cup N,
         \A n \in N : tailIndex <= n /\ BlockNo(n) <= Top,
         slots' \in [Block -> [Slots -> Nat]],
         \A n \in N : home[BlockNo(n)] \in Block => slots'[home[BlockNo(n)]][Slot(Idx(n))] = n + 1,
         \A b \in Block, i \in Slots :
            (\A n \in N : ~(home[BlockNo(n)] = b /\ Slot(Idx(n)) = i)) => slots'[b][i] = slots[b][i]
  PROVE  SlotsOK(new)'
<1>1. PastOK /\ RingOK(lo, home, dead) /\ FlagsOK(lo, home, dead)
  BY DEF MemoryInv
<1>2. lo \in Int /\ Top \in Int
  BY MadeFacts
<1>3. ASSUME NEW n \in Present \cup N
      PROVE  n \in Nat /\ n \notin DoneSet /\ BlockNo(n) \in lo..Top
  <2>1. CASE n \in Present
    BY <2>1, PresentLive
  <2>2. CASE n \in N
    <3>1. n \in Nat /\ tailIndex <= n /\ BlockNo(n) <= Top
      BY <2>2
    <3>2. n \notin DoneSet
      BY <3>1 DEF DoneSet, HeadOK
    <3>3. lo <= BlockNo(n) /\ BlockNo(n) \in Int
      <4>1. \A m \in Int : m < First(lo) => m \in DoneSet
        BY <1>1 DEF FlagsOK
      <4> QED BY <1>2, <3>1, <3>2, <4>1, NotDone, BlockNoFacts
    <3> QED BY <1>2, <3>1, <3>2, <3>3
  <2> QED BY <1>3, <2>1, <2>2
<1>4. \A m, n \in Present \cup N : home[BlockNo(m)] = home[BlockNo(n)] /\ Slot(Idx(m)) = Slot(Idx(n)) => m = n
  BY <1>1, <1>3, LiveOnce
<1>5. SlotsOK(home)'
  BY <1>4, SlotsFilled
<1>6. ASSUME NEW n \in Present' PROVE new[BlockNo(n)] = home[BlockNo(n)]
  <2>1. n \in Int /\ n \notin DoneSet /\ BlockNo(n) <= Top
    <3>1. n \in Present \cup N
      BY <1>6
    <3>2. n \in Nat /\ n \notin DoneSet /\ BlockNo(n) \in lo..Top
      BY <1>3, <3>1
    <3> QED BY <1>2, <3>2
  <2>2. DoneFrame
    BY DEF DoneFrame
  <2> QED BY <1>1, <1>2, <2>1, <2>2, HomeFollows
<1>7. ASSUME NEW b \in Block, NEW i \in Slots, NEW n \in Nat
      PROVE  slots'[b][i] = n + 1 <=> n \in Present' /\ new[BlockNo(n)] = b /\ Slot(Idx(n)') = i
  <2>1. slots'[b][i] = n + 1 <=> n \in Present' /\ home[BlockNo(n)] = b /\ Slot(Idx(n)') = i
    BY <1>5 DEF SlotsOK
  <2> QED BY <1>6, <2>1
<1> QED BY <1>7 DEF SlotsOK

LEMMA SlotsKept ==
  ASSUME NEW o, NEW lo, NEW home, NEW dead, HeadOK, MemoryInv(o, lo, home, dead), SlotsOK(home),
         NEW q, NEW low, NEW new, NEW gone, MemoryInv(q, low, new, gone)', Follows(lo, home, low, new),
         UNCHANGED <<headIndex, at, index, end, past, slots>>, Made' = Made
  PROVE  SlotsOK(new)'
<1>1. PICK N \in SUBSET Nat : N = {}
  OBVIOUS
<1>2. Present' = Present \cup N
  BY <1>1, PresentKept
<1>3. slots' \in [Block -> [Slots -> Nat]]
  BY DEF SlotsOK
<1> QED BY <1>1, <1>2, <1>3, SlotsMade

(* The elements that are made, once there are more.                        *)
LEMMA PresentMore ==
  ASSUME HeadOK, UNCHANGED <<headIndex, at, index, end, past>>, Made \in Nat, headIndex <= Made,
         NEW k \in Nat, Made' = Made + k
  PROVE  Present' = Present \cup (Made..(Made + k - 1))
<1>1. \A c : EndIndex(c)' = EndIndex(c) /\ Unfetched(c)' = Unfetched(c)
  BY DEF EndIndex, Idx, Unfetched
<1>2. \A c, n : Unmoved(c, n)' <=> Unmoved(c, n)
  BY <1>1 DEF Unmoved
<1> QED
  BY <1>2 DEF Present, HeadOK

(* One element is constructed in the last block.                           *)
LEMMA OneMade ==
  ASSUME NEW o, NEW lo, NEW home, NEW dead, HeadOK, MemoryInv(o, lo, home, dead), SlotsOK(home),
         NEW q, NEW low, NEW new, NEW gone, MemoryInv(q, low, new, gone)', Follows(lo, home, low, new),
         UNCHANGED <<headIndex, at, index, end, past>>,
         Made = tailIndex, Made' = tailIndex + 1,
         BlockNo(tailIndex) <= Top, tailBlock = home[BlockNo(tailIndex)],
         slots' = [slots EXCEPT ![tailBlock][Slot(Idx(tailIndex))] = tailIndex + 1]
  PROVE  SlotsOK(new)'
<1>1. tailIndex \in Nat /\ headIndex <= tailIndex
  BY DEF HeadOK
<1>2. Present' = Present \cup {tailIndex}
  <2>1. Present' = Present \cup (tailIndex..(tailIndex + 1 - 1))
    BY <1>1, PresentMore
  <2> QED BY <1>1, <2>1
<1>3. slots \in [Block -> [Slots -> Nat]] /\ tailIndex + 1 \in Nat
  BY <1>1 DEF SlotsOK
<1>4. PICK i : i = Slot(Idx(tailIndex))
  OBVIOUS
<1>5. i \in Slots
  BY <1>1, <1>4, SlotFacts DEF MemoryInv, Slots
<1>6. /\ slots' \in [Block -> [Slots -> Nat]]
      /\ tailBlock \in Block => slots'[tailBlock][i] = tailIndex + 1
      /\ \A b \in Block, j \in Slots : ~(tailBlock = b /\ i = j) => slots'[b][j] = slots[b][j]
  BY <1>3, <1>4, <1>5
<1>7. PICK N \in SUBSET Nat : N = {tailIndex}
  BY <1>1
<1>8. \A n \in N : n = tailIndex
  BY <1>7
<1>9. /\ \A n \in N : tailIndex <= n /\ BlockNo(n) <= Top
      /\ \A n \in N : home[BlockNo(n)] \in Block => slots'[home[BlockNo(n)]][Slot(Idx(n))] = n + 1
  BY <1>1, <1>4, <1>6, <1>8
<1>10. \A b \in Block, j \in Slots :
          (\A n \in N : ~(home[BlockNo(n)] = b /\ Slot(Idx(n)) = j)) => slots'[b][j] = slots[b][j]
  BY <1>4, <1>6, <1>7
<1>11. Present' = Present \cup N
  BY <1>2, <1>7
<1> QED BY <1>6, <1>9, <1>10, <1>11, SlotsMade

LEMMA EnqueueSlots ==
  ASSUME NEW o, NEW lo, NEW home, NEW dead, HeadOK, MemoryInv(o, lo, home, dead), SlotsOK(home),
         NEW q, NEW low, NEW new, NEW gone, MemoryInv(q, low, new, gone)', Follows(lo, home, low, new),
         EnqueueInBlock
  PROVE  SlotsOK(new)'
<1>1. PastOK /\ ProducerOK /\ RingOK(lo, home, dead) /\ FlagsOK(lo, home, dead)
  BY DEF MemoryInv
<1>2. /\ ppc = "idle" /\ Slot(Idx(tailIndex)) # 0 /\ tailIndex' = tailIndex + 1 /\ UNCHANGED ppc
      /\ slots' = [slots EXCEPT ![tailBlock][Slot(Idx(tailIndex))] = tailIndex + 1]
      /\ UNCHANGED <<headIndex, at, index, end, past>>
  BY DEF EnqueueInBlock, Enqueue, claim, ring, call, locals
<1>3. Made = tailIndex /\ Made' = tailIndex + 1
  <2>1. tailIndex \in Nat
    BY DEF HeadOK
  <2> QED BY <1>2, <2>1 DEF Made
<1>4. Top = Cur
  BY <1>2 DEF Top, Written, InHand, InBulk
<1>5. BlockNo(tailIndex) = Cur /\ Cur \in Int
  BY <1>1, <1>2, CurFacts DEF HeadOK
<1>6. lo <= Cur
  <2>1. tailIndex \in Int /\ tailIndex \notin DoneSet /\ \A m \in Int : m < First(lo) => m \in DoneSet
    BY <1>1 DEF HeadOK, DoneSet, FlagsOK
  <2> QED BY <1>5, <2>1, NotDone, MadeFacts
<1>7. tailBlock = home[BlockNo(tailIndex)]
  BY <1>1, <1>4, <1>5, <1>6 DEF RingOK
<1> QED BY <1>2, <1>3, <1>4, <1>5, <1>7, OneMade

LEMMA ConstructSlots ==
  ASSUME NEW o, NEW lo, NEW home, NEW dead, HeadOK, MemoryInv(o, lo, home, dead), SlotsOK(home),
         NEW q, NEW low, NEW new, NEW gone, MemoryInv(q, low, new, gone)', Follows(lo, home, low, new),
         Construct, ppc' = "storeEntry"
  PROVE  SlotsOK(new)'
<1>1. PastOK /\ ProducerOK /\ RingOK(lo, home, dead)
  BY DEF MemoryInv
<1>2. /\ ppc = "construct" /\ tailIndex' = tailIndex
      /\ slots' = [slots EXCEPT ![tailBlock][Slot(Idx(tailIndex))] = tailIndex + 1]
      /\ UNCHANGED <<headIndex, at, index, end, past>>
  <2>1. ppc = "construct" /\ UNCHANGED <<vars, past, locals>>
    BY DEF Construct
  <2>2. UNCHANGED <<headIndex, tailIndex, at, index, end, past>>
    BY <2>1 DEF vars, counters, claim, locals
  <2>3. slots' = [slots EXCEPT ![tailBlock][Slot(Idx(tailIndex))] = tailIndex + 1]
    BY DEF Construct, Return0, Pgoto
  <2> QED BY <2>1, <2>2, <2>3
<1>3. Made = tailIndex /\ Made' = tailIndex + 1
  <2>1. tailIndex \in Nat
    BY DEF HeadOK
  <2> QED BY <1>2, <2>1 DEF Made
<1>4. Top = Cur + 1
  BY <1>2 DEF Top, InHand
<1>5. Slot(Idx(tailIndex)) = 0
  BY <1>1, <1>2 DEF ProducerOK, Enqueuing
<1>6. BlockNo(tailIndex) = Cur + 1 /\ Cur \in Int
  BY <1>1, <1>5, CurFacts DEF HeadOK
<1>7. tailBlock = home[BlockNo(tailIndex)]
  BY <1>1, <1>4, <1>6 DEF RingOK
<1> QED BY <1>2, <1>3, <1>4, <1>6, <1>7, OneMade

(* A bulk is constructed: each of its elements has a slot of its own.      *)
LEMMA BulkSlots ==
  ASSUME NEW o, NEW lo, NEW home, NEW dead, HeadOK, MemoryInv(o, lo, home, dead), SlotsOK(home),
         NEW q, NEW low, NEW new, NEW gone, MemoryInv(q, low, new, gone)', Follows(lo, home, low, new),
         BulkConstruct
  PROVE  SlotsOK(new)'
<1>1. PastOK /\ ProducerOK /\ RingOK(lo, home, dead) /\ FlagsOK(lo, home, dead)
  BY DEF MemoryInv
<1>2. /\ ppc = "constructAll" /\ ppc' \in {"publishAll", "storeLastFront"}
      /\ UNCHANGED <<headIndex, at, index, end, past, tailIndex, bulk>>
  <2>1. ppc = "constructAll" /\ UNCHANGED <<vars, ring, bulk, locals>>
    BY DEF BulkConstruct
  <2>2. UNCHANGED <<headIndex, at, index, end, past, tailIndex, bulk>>
    BY <2>1 DEF vars, counters, claim, ring, locals
  <2>3. ppc' \in {"publishAll", "storeLastFront"}
    BY DEF BulkConstruct, Pgoto
  <2> QED BY <2>1, <2>2, <2>3
<1>3. InBulk /\ Written = LastBlockNo /\ bulk.count \in Nat
  BY <1>1, <1>2 DEF ProducerOK, InBulk, Filled, Bulk
<1>4. AllBlocks
  BY <1>1, <1>3, BulkBlock DEF AllBlocks, Written
<1>5. \A n \in Elements : /\ n \in Nat /\ tailIndex <= n /\ n < tailIndex + bulk.count
                          /\ BlockNo(n) \in lo..Written /\ BlockOf(n) = home[BlockNo(n)]
  BY <1>1, <1>3, <1>4, BulkElements
<1>6. Top = Written /\ Made = tailIndex /\ Made' = tailIndex + bulk.count /\ tailIndex \in Nat
  <2>1. tailIndex \in Nat
    BY DEF HeadOK
  <2> QED BY <1>2, <2>1 DEF Top, InHand, Made
<1>7. lo \in Int /\ Top \in Int
  BY MadeFacts
<1>8. Elements \in SUBSET Nat /\ Present' = Present \cup Elements
  <2>1. Present' = Present \cup (tailIndex..(tailIndex + bulk.count - 1))
    BY <1>2, <1>3, <1>6, PresentMore DEF HeadOK
  <2> QED BY <1>5, <2>1 DEF Elements
<1>9. \A n \in Elements : tailIndex <= n /\ BlockNo(n) \in lo..Top
  BY <1>5, <1>6
<1>10. ASSUME NEW m \in Elements, NEW n \in Elements,
              BlockOf(m) = BlockOf(n), Slot(Idx(m)) = Slot(Idx(n))
       PROVE  m = n
  <2>1. home[BlockNo(m)] = home[BlockNo(n)] /\ m \in Int /\ n \in Int
    BY <1>5, <1>10
  <2> QED BY <1>1, <1>9, <1>10, <2>1, LiveOnce
<1> DEFINE There(b, i, n) == BlockOf(n) = b /\ Slot(Idx(n)) = i
<1>11. \A b \in Block, i \in Slots :
          slots'[b][i] = IF \E n \in Elements : There(b, i, n)
                         THEN 1 + CHOOSE n \in Elements : There(b, i, n) ELSE slots[b][i]
  BY DEF BulkConstruct
<1>12. /\ DOMAIN slots' = Block /\ slots' = [b \in Block |-> slots'[b]]
       /\ \A b \in Block : DOMAIN slots'[b] = Slots /\ slots'[b] = [i \in Slots |-> slots'[b][i]]
  BY DEF BulkConstruct
<1>13. ASSUME NEW b \in Block, NEW i \in Slots, NEW n \in Elements, There(b, i, n)
       PROVE  slots'[b][i] = n + 1
  <2>1. PICK m : m = CHOOSE x \in Elements : There(b, i, x)
    OBVIOUS
  <2>2. m \in Elements /\ There(b, i, m)
    BY <1>13, <2>1
  <2>3. m = n
    BY <1>10, <1>13, <2>2
  <2>4. slots'[b][i] = 1 + m
    BY <1>11, <1>13, <2>1
  <2> QED BY <1>5, <2>3, <2>4
<1>14. ASSUME NEW b \in Block, NEW i \in Slots, \A n \in Elements : ~There(b, i, n)
       PROVE  slots'[b][i] = slots[b][i]
  BY <1>11, <1>14
<1>15. \A n \in Elements : home[BlockNo(n)] \in Block => slots'[home[BlockNo(n)]][Slot(Idx(n))] = n + 1
  <2> SUFFICES ASSUME NEW n \in Elements, home[BlockNo(n)] \in Block
               PROVE  slots'[home[BlockNo(n)]][Slot(Idx(n))] = n + 1
    OBVIOUS
  <2>1. Slot(Idx(n)) \in Slots
    BY <1>1, <1>5, SlotFacts DEF Slots
  <2>2. There(home[BlockNo(n)], Slot(Idx(n)), n)
    BY <1>5
  <2> QED BY <1>13, <2>1, <2>2
<1>16. \A b \in Block, i \in Slots :
          (\A n \in Elements : ~(home[BlockNo(n)] = b /\ Slot(Idx(n)) = i)) => slots'[b][i] = slots[b][i]
  BY <1>5, <1>14
<1>17. slots' \in [Block -> [Slots -> Nat]]
  <2>1. ASSUME NEW b \in Block, NEW i \in Slots PROVE slots'[b][i] \in Nat
    <3>1. CASE \E n \in Elements : There(b, i, n)
      <4>1. PICK n \in Elements : There(b, i, n)
        BY <3>1
      <4> QED BY <1>5, <1>13, <4>1
    <3>2. CASE \A n \in Elements : ~There(b, i, n)
      BY <1>14, <3>2 DEF SlotsOK
    <3> QED BY <3>1, <3>2
  <2>2. ASSUME NEW b \in Block PROVE slots'[b] \in [Slots -> Nat]
    BY <1>12, <2>1
  <2> QED BY <1>12, <2>2
<1>18. \A n \in Elements : tailIndex <= n /\ BlockNo(n) <= Top
  BY <1>7, <1>9
<1> HIDE DEF There
<1>19. UNCHANGED <<headIndex, at, index, end, past>>
  BY <1>2
<1>20. PICK N \in SUBSET Nat : N = Elements
  BY <1>8
<1>21. Present' = Present \cup N
  BY <1>8, <1>20
<1> QED BY <1>15, <1>16, <1>17, <1>18, <1>19, <1>20, <1>21, SlotsMade

(* Steps of the producer that construct nothing.                           *)
LEMMA MadeSame ==
  ASSUME PastOK, ProducerOK, tailIndex \in Nat,
         \/ ReuseBlock \/ NeedBlock \/ GrowIndex \/ Requisition \/ (Construct /\ ppc' # "storeEntry")
         \/ StoreEntry \/ StoreFront \/ Publish
         \/ \E n \in 1..MaxBulk : StartBulk(n)
         \/ BulkReuse \/ BulkNoReuse \/ BulkGrow \/ BulkRequisition \/ BulkFail \/ BulkReset
         \/ BulkThrow \/ BulkStoreFront \/ BulkPublish
  PROVE  Made' = Made /\ UNCHANGED <<headIndex, at, index, end, past, slots>>
<1> DEFINE Quick == {"storeEntry", "storeFront", "publish"}
           Slow  == {"storeLastFront", "publishAll"}
<1>1. ASSUME UNCHANGED vars PROVE UNCHANGED <<headIndex, tailIndex>>
  BY <1>1 DEF vars, counters
<1>2. ASSUME UNCHANGED locals PROVE UNCHANGED <<at, index, end>>
  BY <1>2 DEF locals
<1>3. ASSUME UNCHANGED ring PROVE UNCHANGED past
  BY <1>3 DEF ring
<1>4. ASSUME ppc \notin Quick \cup Slow, ppc' \notin Quick \cup Slow, tailIndex' = tailIndex
      PROVE  Made' = Made
  BY <1>4 DEF Made
<1>5. CASE ReuseBlock
  BY <1>1, <1>2, <1>4, <1>5 DEF ReuseBlock, AtBoundary, Pgoto
<1>6. CASE NeedBlock
  BY <1>1, <1>2, <1>3, <1>4, <1>6 DEF NeedBlock, AtBoundary, Pgoto
<1>7. CASE GrowIndex
  BY <1>1, <1>2, <1>3, <1>4, <1>7 DEF GrowIndex, AtBoundary, Pgoto
<1>8. CASE Requisition
  BY <1>1, <1>2, <1>4, <1>8 DEF Requisition, Return0, Pgoto
<1>9. CASE Construct /\ ppc' # "storeEntry"
  BY <1>1, <1>2, <1>4, <1>9 DEF Construct, Return0, Pgoto
<1>10. CASE StoreEntry
  <2>1. ppc = "storeEntry" /\ ppc' = "storeFront" /\ UNCHANGED <<vars, ring, slots, locals>>
    BY <1>10 DEF StoreEntry, Pgoto
  <2> QED BY <1>1, <1>2, <1>3, <2>1 DEF Made
<1>11. CASE StoreFront
  <2>1. ppc = "storeFront" /\ ppc' = "publish" /\ UNCHANGED <<vars, ring, slots, locals>>
    BY <1>11 DEF StoreFront, Pgoto
  <2> QED BY <1>1, <1>2, <1>3, <2>1 DEF Made
<1>12. CASE Publish
  <2>1. /\ ppc = "publish" /\ ppc' = "idle" /\ UNCHANGED <<ring, slots, locals>>
        /\ tailIndex' = tailIndex + 1 /\ headIndex' = headIndex
    BY <1>12 DEF Publish, Return0, Pgoto, Enqueue
  <2>2. Made = tailIndex + 1 /\ Made' = tailIndex' + 0
    BY <2>1 DEF Made
  <2> QED BY <1>2, <1>3, <2>1, <2>2
<1>13. CASE \E n \in 1..MaxBulk : StartBulk(n)
  BY <1>1, <1>2, <1>3, <1>4, <1>13 DEF StartBulk, Pgoto
<1>14. CASE BulkReuse
  BY <1>1, <1>2, <1>4, <1>14 DEF BulkReuse
<1>15. CASE BulkNoReuse
  BY <1>1, <1>2, <1>3, <1>4, <1>15 DEF BulkNoReuse, Pgoto
<1>16. CASE BulkGrow
  BY <1>1, <1>2, <1>3, <1>4, <1>16 DEF BulkGrow
<1>17. CASE BulkRequisition
  BY <1>1, <1>2, <1>4, <1>17 DEF BulkRequisition
<1>18. CASE BulkFail
  BY <1>1, <1>2, <1>4, <1>18 DEF BulkFail, BulkUndo, Return0, Pgoto
<1>19. CASE BulkThrow
  BY <1>1, <1>2, <1>4, <1>19 DEF BulkThrow, BulkUndo, Return0, Pgoto
<1>20. CASE BulkReset
  BY <1>1, <1>2, <1>4, <1>20 DEF BulkReset, Pgoto
<1>21. CASE BulkStoreFront
  <2>1. ppc = "storeLastFront" /\ ppc' = "publishAll" /\ UNCHANGED <<vars, ring, slots, bulk, locals>>
    BY <1>21 DEF BulkStoreFront, Pgoto
  <2> QED BY <1>1, <1>2, <1>3, <2>1 DEF Made
<1>22. CASE BulkPublish
  <2>1. /\ ppc = "publishAll" /\ ppc' = "idle" /\ UNCHANGED <<ring, slots, locals>>
        /\ tailIndex' = tailIndex + bulk.count /\ headIndex' = headIndex
    BY <1>22 DEF BulkPublish, Return0, Pgoto, Enqueue
  <2>2. bulk.count \in Nat
    BY DEF ProducerOK, Bulk
  <2>3. Made = tailIndex + bulk.count /\ Made' = tailIndex' + 0
    BY <2>1 DEF Made
  <2> QED BY <1>2, <1>3, <2>1, <2>2, <2>3
<1> QED BY <1>5, <1>6, <1>7, <1>8, <1>9, <1>10, <1>11, <1>12, <1>13, <1>14, <1>15, <1>16, <1>17,
           <1>18, <1>19, <1>20, <1>21, <1>22

(* Every step of the producer keeps the slots right.                       *)
LEMMA ProducerSlots ==
  ASSUME NEW o, NEW lo, NEW home, NEW dead, HeadOK, MemoryInv(o, lo, home, dead), SlotsOK(home),
         NEW q, NEW low, NEW new, NEW gone, MemoryInv(q, low, new, gone)', Follows(lo, home, low, new),
         ProducerStep
  PROVE  SlotsOK(new)'
<1>1. PastOK /\ ProducerOK /\ tailIndex \in Nat
  BY DEF MemoryInv, HeadOK
<1>2. CASE EnqueueInBlock
  BY <1>2, EnqueueSlots
<1>3. CASE Construct /\ ppc' = "storeEntry"
  BY <1>3, ConstructSlots
<1>4. CASE BulkConstruct
  BY <1>4, BulkSlots
<1>5. CASE \/ ReuseBlock \/ NeedBlock \/ GrowIndex \/ Requisition \/ (Construct /\ ppc' # "storeEntry")
           \/ StoreEntry \/ StoreFront \/ Publish
           \/ \E n \in 1..MaxBulk : StartBulk(n)
           \/ BulkReuse \/ BulkNoReuse \/ BulkGrow \/ BulkRequisition \/ BulkFail \/ BulkReset
           \/ BulkThrow \/ BulkStoreFront \/ BulkPublish
  <2>1. Made' = Made /\ UNCHANGED <<headIndex, at, index, end, past, slots>>
    BY <1>1, <1>5, MadeSame
  <2> QED BY <2>1, SlotsKept
<1> QED BY <1>2, <1>3, <1>4, <1>5 DEF ProducerStep

(* What the steps of a consumer do, as far as elements are concerned.      *)
Kept == UNCHANGED <<tailIndex, past, ppc, bulk>>

LEMMA OthersSame ==
  ASSUME NEW c \in Consumer, OnlyAt(c), past' = past
  PROVE  \A d \in Consumer : d # c => /\ Unfetched(d)' = Unfetched(d) /\ end'[d] = end[d]
                                      /\ \A n : Unmoved(d, n)' <=> Unmoved(d, n)
<1>1. ASSUME NEW d \in Consumer, d # c PROVE at'[d] = at[d] /\ index'[d] = index[d] /\ end'[d] = end[d]
  BY <1>1 DEF OnlyAt
<1>2. \A n : Idx(n)' = Idx(n)
  BY DEF Idx
<1>3. ASSUME NEW d \in Consumer, d # c PROVE EndIndex(d)' = EndIndex(d)
  BY <1>1, <1>2, <1>3 DEF EndIndex
<1>4. ASSUME NEW d \in Consumer, d # c PROVE Unfetched(d)' = Unfetched(d)
  BY <1>1, <1>3, <1>4 DEF Unfetched
<1> QED BY <1>1, <1>4 DEF Unmoved

LEMMA TakeIndexEffect ==
  ASSUME Claims, ConsumersOK, NEW c \in Consumer, TakeIndex(c)
  PROVE  /\ Kept /\ OnlyAt(c) /\ at[c] = "none" /\ at'[c] = "header"
         /\ Unfetched(c)' = headIndex /\ end'[c] = headIndex' /\ headIndex' = headIndex + count[c]
         /\ count[c] \in Nat /\ count[c] > 0
         /\ UNCHANGED <<slots, item, thrown, emptyFlags>>
<1>1. count[c] > 0 /\ count[c] \in Nat /\ headIndex \in Nat
  BY DEF TakeIndex, TakeAll, TakeRest, Claims, TypeOK, CountsPositive
<1>2. /\ at[c] = "none" /\ headIndex' = headIndex + count[c] /\ tailIndex' = tailIndex
      /\ index' = [index EXCEPT ![c] = headIndex] /\ end' = [end EXCEPT ![c] = headIndex + count[c]]
      /\ at' = [at EXCEPT ![c] = "header"]
      /\ UNCHANGED <<producer, slots, hdr, ipos, block, item, thrown>>
  BY DEF TakeIndex, TakeAll, TakeRest, Grant, Cgoto
<1>3. /\ OnlyAt(c) /\ at'[c] = "header" /\ index'[c] = headIndex /\ end'[c] = headIndex + count[c]
  BY <1>2 DEF OnlyAt, ConsumersOK
<1>4. Kept /\ UNCHANGED emptyFlags
  BY <1>2 DEF Kept, producer, ring, call
<1>5. Unfetched(c)' = headIndex
  BY <1>3 DEF Unfetched
<1> QED BY <1>1, <1>2, <1>3, <1>4, <1>5

Loads(c) == LoadHeader(c) \/ LoadFront(c) \/ LoadBase(c) \/ LoadBlock(c)

LEMMA LoadEffect ==
  ASSUME ConsumersOK, NEW c \in Consumer, Loads(c)
  PROVE  /\ Kept /\ OnlyAt(c) /\ at[c] \notin {"none", "setEmpty"} /\ at'[c] \notin {"none", "setEmpty"}
         /\ Unfetched(c)' = Unfetched(c)
         /\ UNCHANGED <<headIndex, index, end, slots, item, thrown, emptyFlags>>
<1>1. /\ at[c] \in {"header", "front", "base", "block"}
      /\ UNCHANGED <<vars, producer, slots, index, end, item, thrown>>
      /\ \E l \in {"front", "base", "block", "move"} : at' = [at EXCEPT ![c] = l]
      /\ \A d \in Consumer : d # c => hdr'[d] = hdr[d] /\ ipos'[d] = ipos[d] /\ block'[d] = block[d]
  BY DEF Loads, LoadHeader, LoadFront, LoadBase, LoadBlock, Cgoto, ConsumersOK
<1>2. at'[c] \in {"front", "base", "block", "move"} /\ OnlyAt(c)
  BY <1>1 DEF OnlyAt, ConsumersOK
<1>3. Kept /\ UNCHANGED <<headIndex, emptyFlags>>
  BY <1>1 DEF Kept, producer, ring, call, vars, counters
<1>4. Unfetched(c)' = Unfetched(c)
  BY <1>1, <1>2 DEF Unfetched
<1> QED BY <1>1, <1>2, <1>3, <1>4

LEMMA MoveEffect ==
  ASSUME ConsumersOK, NEW c \in Consumer, Move(c)
  PROVE  /\ Kept /\ OnlyAt(c) /\ at[c] = "move" /\ at'[c] = "setEmpty"
         /\ Unfetched(c) = index[c] /\ Unfetched(c)' = EndIndex(c)
         /\ UNCHANGED <<headIndex, index, end, block, emptyFlags>>
         /\ slots' = [slots EXCEPT ![block[c]] = [i \in Slots |-> IF i \in SlotsHere(c) THEN 0 ELSE @[i]]]
<1>1. /\ at[c] = "move" /\ at' = [at EXCEPT ![c] = "setEmpty"]
      /\ UNCHANGED <<vars, producer, index, end, hdr, ipos, block>>
      /\ slots' = [slots EXCEPT ![block[c]] = [i \in Slots |-> IF i \in SlotsHere(c) THEN 0 ELSE @[i]]]
  BY DEF Move, Cgoto
<1>2. at'[c] = "setEmpty" /\ OnlyAt(c)
  BY <1>1 DEF OnlyAt, ConsumersOK
<1>3. Kept /\ UNCHANGED <<headIndex, emptyFlags>>
  BY <1>1 DEF Kept, producer, ring, call, vars, counters
<1>4. EndIndex(c)' = EndIndex(c)
  BY <1>1, <1>3 DEF EndIndex, Idx, Kept
<1>5. Unfetched(c) = index[c] /\ Unfetched(c)' = EndIndex(c)
  BY <1>1, <1>2, <1>4 DEF Unfetched
<1> QED BY <1>1, <1>2, <1>3, <1>5

LEMMA SetEmptyEffect ==
  ASSUME ConsumersOK, NEW c \in Consumer, SetEmpty(c)
  PROVE  /\ Kept /\ OnlyAt(c) /\ at[c] = "setEmpty" /\ UNCHANGED <<headIndex, slots>>
         /\ Unfetched(c) = EndIndex(c)
         /\ \/ /\ EndIndex(c) = end[c] /\ at'[c] = "none" /\ index'[c] = 0 /\ end'[c] = 0
               /\ item' = [item EXCEPT ![c] = <<>>] /\ thrown' = [thrown EXCEPT ![c] = FALSE]
            \/ /\ EndIndex(c) # end[c] /\ at'[c] = "block" /\ index'[c] = EndIndex(c) /\ end'[c] = end[c]
               /\ UNCHANGED <<item, thrown>>
<1>1. /\ at[c] = "setEmpty" /\ UNCHANGED <<vars, past, tailBlock, next, pool, slots, blockIdx, call>>
      /\ block' = [block EXCEPT ![c] = Null]
  BY DEF SetEmpty
<1>2. Kept /\ UNCHANGED headIndex
  BY <1>1 DEF Kept, call, vars, counters
<1>3. Unfetched(c) = EndIndex(c)
  BY <1>1 DEF Unfetched
<1>4. CASE EndIndex(c) = end[c]
  <2>1. /\ at' = [at EXCEPT ![c] = "none"]
        /\ index' = [index EXCEPT ![c] = 0] /\ end' = [end EXCEPT ![c] = 0]
        /\ hdr' = [hdr EXCEPT ![c] = 1] /\ ipos' = [ipos EXCEPT ![c] = 0]
        /\ item' = [item EXCEPT ![c] = <<>>] /\ thrown' = [thrown EXCEPT ![c] = FALSE]
    BY <1>4 DEF SetEmpty, Cgoto
  <2>2. OnlyAt(c)
    BY <1>1, <2>1 DEF OnlyAt, ConsumersOK
  <2>3. at'[c] = "none" /\ index'[c] = 0 /\ end'[c] = 0
    BY <2>1 DEF ConsumersOK
  <2> QED BY <1>1, <1>2, <1>3, <1>4, <2>1, <2>2, <2>3
<1>5. CASE EndIndex(c) # end[c]
  <2>1. PICK m, p : m = EndIndex(c) /\ p = NextEntry(c)
    OBVIOUS
  <2>2. /\ at' = [at EXCEPT ![c] = "block"]
        /\ index' = [index EXCEPT ![c] = m] /\ ipos' = [ipos EXCEPT ![c] = p]
        /\ UNCHANGED <<end, hdr, item, thrown>>
    BY <1>5, <2>1 DEF SetEmpty, Cgoto
  <2>3. OnlyAt(c)
    BY <1>1, <2>2 DEF OnlyAt, ConsumersOK
  <2>4. at'[c] = "block" /\ index'[c] = m /\ end'[c] = end[c]
    BY <2>2 DEF ConsumersOK
  <2> QED BY <1>1, <1>2, <1>3, <1>5, <2>1, <2>2, <2>3, <2>4
<1> QED BY <1>4, <1>5

(* The elements that are in their slots, as far as one consumer matters.   *)
Awaited(c, n) == headIndex <= n \/ Unmoved(c, n)

LEMMA PresentOf ==
  ASSUME NEW c \in Consumer
  PROVE  Present = {n \in Nat : n < Made /\ (Awaited(c, n) \/ \E d \in Consumer \ {c} : Unmoved(d, n))}
BY DEF Present, Awaited

LEMMA MadeKept == ASSUME Kept PROVE Made' = Made
BY DEF Kept, Made

LEMMA PresentStep ==
  ASSUME NEW c \in Consumer, OnlyAt(c), Kept, \A n \in Nat : Awaited(c, n)' <=> Awaited(c, n)
  PROVE  Present' = Present
<1>1. Made' = Made /\ past' = past
  BY MadeKept DEF Kept
<1>2. \A d \in Consumer \ {c} : \A n : Unmoved(d, n)' <=> Unmoved(d, n)
  BY <1>1, OthersSame
<1>3. Present' = {n \in Nat : n < Made' /\ (Awaited(c, n)' \/ \E d \in Consumer \ {c} : Unmoved(d, n)')}
  BY DEF Present, Awaited
<1>4. Present' = {n \in Nat : n < Made /\ (Awaited(c, n) \/ \E d \in Consumer \ {c} : Unmoved(d, n))}
  BY <1>1, <1>2, <1>3
<1> QED BY <1>4, PresentOf

LEMMA SlotsUnchanged ==
  ASSUME NEW home, SlotsOK(home), UNCHANGED <<slots, past>>, Present' = Present
  PROVE  SlotsOK(home)'
BY DEF SlotsOK, Idx

LEMMA ClaimSlots ==
  ASSUME NEW home, SlotsOK(home), NEW c \in Consumer, ClaimStep(c)
  PROVE  SlotsOK(home)'
<1>1. UNCHANGED <<headIndex, tailIndex, at, index, end, past, slots, ppc, bulk>>
  BY DEF ClaimStep, Draw, GiveBack, Return, Goto, memory, ring, call, locals
<1>2. Made' = Made
  BY <1>1 DEF Made
<1> QED BY <1>1, <1>2, PresentKept, SlotsUnchanged

LEMMA TakeIndexSlots ==
  ASSUME Claims, ConsumersOK, NEW home, SlotsOK(home), NEW c \in Consumer, TakeIndex(c)
  PROVE  SlotsOK(home)'
<1>1. /\ Kept /\ OnlyAt(c) /\ at[c] = "none" /\ at'[c] = "header"
      /\ Unfetched(c)' = headIndex /\ end'[c] = headIndex' /\ headIndex' = headIndex + count[c]
      /\ count[c] \in Nat /\ UNCHANGED slots
  BY TakeIndexEffect
<1>2. headIndex \in Nat
  BY DEF Claims, TypeOK
<1>3. ASSUME NEW n \in Nat PROVE Awaited(c, n)' <=> Awaited(c, n)
  <2>1. ~Unmoved(c, n) /\ (Unmoved(c, n)' <=> headIndex <= n /\ n < headIndex')
    BY <1>1 DEF Unmoved
  <2> QED BY <1>1, <1>2, <2>1 DEF Awaited
<1>4. Present' = Present
  BY <1>1, <1>3, PresentStep
<1> QED BY <1>1, <1>4, SlotsUnchanged DEF Kept

LEMMA LoadSlots ==
  ASSUME ConsumersOK, NEW home, SlotsOK(home), NEW c \in Consumer, Loads(c)
  PROVE  SlotsOK(home)'
<1>1. /\ Kept /\ OnlyAt(c) /\ at[c] # "none" /\ at'[c] # "none"
      /\ Unfetched(c)' = Unfetched(c) /\ UNCHANGED <<headIndex, end, slots>>
  BY LoadEffect
<1>2. \A n : Awaited(c, n)' <=> Awaited(c, n)
  BY <1>1 DEF Awaited, Unmoved
<1>3. Present' = Present
  BY <1>1, <1>2, PresentStep
<1> QED BY <1>1, <1>3, SlotsUnchanged DEF Kept

LEMMA SetEmptySlots ==
  ASSUME ConsumersOK, PastOK, NEW home, SlotsOK(home), NEW c \in Consumer, SetEmpty(c)
  PROVE  SlotsOK(home)'
<1>1. /\ Kept /\ OnlyAt(c) /\ at[c] = "setEmpty" /\ UNCHANGED <<headIndex, slots>>
      /\ Unfetched(c) = EndIndex(c)
      /\ \/ EndIndex(c) = end[c] /\ at'[c] = "none"
         \/ EndIndex(c) # end[c] /\ at'[c] = "block" /\ index'[c] = EndIndex(c) /\ end'[c] = end[c]
  BY SetEmptyEffect
<1>2. end[c] \in Nat
  BY DEF ConsumersOK
<1>3. ASSUME NEW n \in Nat PROVE Awaited(c, n)' <=> Awaited(c, n)
  <2>1. CASE at'[c] = "none"
    <3>1. ~Unmoved(c, n)'
      BY <2>1 DEF Unmoved
    <3>2. ~Unmoved(c, n)
      BY <1>1, <1>2, <2>1 DEF Unmoved
    <3> QED BY <1>1, <3>1, <3>2 DEF Awaited
  <2>2. CASE at'[c] # "none"
    <3>1. Unfetched(c)' = Unfetched(c) /\ end'[c] = end[c]
      BY <1>1, <2>2 DEF Unfetched
    <3> QED BY <1>1, <2>2, <3>1 DEF Awaited, Unmoved
  <2> QED BY <2>1, <2>2
<1>4. Present' = Present
  BY <1>1, <1>3, PresentStep
<1> QED BY <1>1, <1>4, SlotsUnchanged DEF Kept

(* The elements that a consumer has before it are in one block.            *)
LEMMA HereFacts ==
  ASSUME HeadOK, NEW o, NEW lo, NEW home, NEW dead, MemoryInv(o, lo, home, dead), NEW c \in Consumer,
         at[c] # "none"
  PROVE  /\ index[c] \in Nat /\ EndIndex(c) \in Nat /\ end[c] \in Nat
         /\ index[c] < EndIndex(c) /\ EndIndex(c) <= end[c] /\ end[c] <= headIndex
         /\ \A n \in index[c]..(EndIndex(c) - 1) :
              n \in Nat /\ n < headIndex /\ BlockNo(n) = FirstBlock(c)
         /\ FirstBlock(c) \in lo..Top /\ home[FirstBlock(c)] \in Block
<1>1. PastOK
  BY DEF MemoryInv
<1>2. /\ FirstBlock(c) \in Int /\ LastBlock(c) \in Int /\ lo \in Int
      /\ lo <= FirstBlock(c) /\ FirstBlock(c) <= LastBlock(c) /\ LastBlock(c) <= Cur
      /\ index[c] \in Nat /\ end[c] \in Nat /\ index[c] < end[c] /\ end[c] <= headIndex
      /\ home[FirstBlock(c)] \in Block /\ Cur \in Int /\ Top \in Int /\ Cur <= Top
  BY ClaimedFacts
<1>3. /\ EndIndex(c) \in Nat /\ index[c] < EndIndex(c) /\ EndIndex(c) <= end[c]
      /\ First(FirstBlock(c)) <= index[c] /\ EndIndex(c) <= First(FirstBlock(c) + 1)
  BY <1>1, <1>2, EndIndexFacts
<1>4. /\ First(FirstBlock(c)) \in Int /\ First(FirstBlock(c) + 1) = First(FirstBlock(c)) + BLOCK_SIZE
      /\ BLOCK_SIZE \in Nat /\ headIndex \in Nat
  BY <1>2, FirstType, FirstNext, Sizes DEF HeadOK
<1>5. ASSUME NEW n \in index[c]..(EndIndex(c) - 1)
      PROVE  n \in Nat /\ n < headIndex /\ BlockNo(n) = FirstBlock(c)
  <2>1. n \in Int /\ index[c] <= n /\ n < EndIndex(c)
    BY <1>2, <1>3
  <2>2. First(FirstBlock(c)) <= n /\ n < First(FirstBlock(c)) + BLOCK_SIZE
    BY <1>2, <1>3, <1>4, <2>1
  <2>3. BlockNo(n) = FirstBlock(c)
    BY <1>2, <2>1, <2>2, BlockNoFacts
  <2> QED BY <1>2, <1>3, <1>4, <2>1, <2>3
<1>6. FirstBlock(c) \in lo..Top
  BY <1>2
<1> QED BY <1>2, <1>3, <1>5, <1>6

LEMMA MovePresent ==
  ASSUME HeadOK, NEW o, NEW lo, NEW home, NEW dead, MemoryInv(o, lo, home, dead),
         NEW c \in Consumer, Move(c)
  PROVE  /\ Present' = Present \ (index[c]..(EndIndex(c) - 1))
         /\ \A n \in index[c]..(EndIndex(c) - 1) :
              n \in Present /\ n \in Nat /\ home[BlockNo(n)] = block[c]
         /\ block[c] \in Block
<1>1. ConsumersOK /\ WalkAt(o, home, c)
  BY DEF MemoryInv, WalksOK
<1>2. /\ Kept /\ OnlyAt(c) /\ at[c] = "move" /\ at'[c] = "setEmpty"
      /\ Unfetched(c) = index[c] /\ Unfetched(c)' = EndIndex(c) /\ UNCHANGED <<headIndex, index, end>>
  BY <1>1, MoveEffect
<1>3. /\ index[c] \in Nat /\ EndIndex(c) \in Nat /\ end[c] \in Nat
      /\ index[c] < EndIndex(c) /\ EndIndex(c) <= end[c] /\ end[c] <= headIndex
      /\ \A n \in index[c]..(EndIndex(c) - 1) :
              n \in Nat /\ n < headIndex /\ BlockNo(n) = FirstBlock(c)
      /\ home[FirstBlock(c)] \in Block
  BY <1>2, HereFacts
<1>4. block[c] = home[FirstBlock(c)]
  BY <1>1, <1>2 DEF WalkAt
<1>5. Made' = Made /\ past' = past /\ Made \in Nat /\ tailIndex <= Made /\ headIndex <= tailIndex
      /\ headIndex \in Nat /\ tailIndex \in Nat
  BY <1>2, MadeKept, MadeFacts DEF Kept, HeadOK
<1>6. /\ \A n \in Nat : Unmoved(c, n) <=> index[c] <= n /\ n < end[c]
      /\ \A n \in Nat : Unmoved(c, n)' <=> EndIndex(c) <= n /\ n < end[c]
  BY <1>2 DEF Unmoved
<1>7. ASSUME NEW n \in index[c]..(EndIndex(c) - 1)
      PROVE  n \in Present /\ n \in Nat /\ home[BlockNo(n)] = block[c]
  <2>1. n \in Nat /\ index[c] <= n /\ n < end[c] /\ n < Made /\ BlockNo(n) = FirstBlock(c)
    BY <1>3, <1>5
  <2> QED BY <1>4, <1>6, <2>1 DEF Present
<1>8. ASSUME NEW n \in Nat
      PROVE  n \in Present' <=> n \in Present /\ n \notin index[c]..(EndIndex(c) - 1)
  <2>1. \A d \in Consumer : d # c => (Unmoved(d, n)' <=> Unmoved(d, n))
    BY <1>2, <1>5, OthersSame
  <2>2. CASE n \in index[c]..(EndIndex(c) - 1)
    <3>1. index[c] <= n /\ n < EndIndex(c) /\ n < headIndex /\ ~Unmoved(c, n)'
      BY <1>3, <1>5, <1>6, <2>2
    <3>2. ASSUME NEW d \in Consumer, d # c PROVE ~Unmoved(d, n)
      <4> SUFFICES ASSUME Unmoved(d, n) PROVE FALSE
        OBVIOUS
      <4>1. index[d] <= n /\ n < end[d] /\ at[d] # "none" /\ index[d] \in Nat /\ end[d] \in Nat
        <5>1. PastOK
          BY DEF MemoryInv
        <5> QED BY <1>1, <5>1, UnmovedFacts DEF Unmoved
      <4>2. end[d] <= index[c] \/ end[c] <= index[d]
        BY <1>1, <1>2, <3>2, <4>1 DEF ConsumersOK
      <4> QED BY <1>3, <3>1, <4>1, <4>2
    <3>3. ~(headIndex' <= n)
      BY <1>2, <1>5, <3>1
    <3> QED BY <2>1, <2>2, <3>1, <3>2, <3>3 DEF Present
  <2>3. CASE n \notin index[c]..(EndIndex(c) - 1)
    <3>1. Unmoved(c, n)' <=> Unmoved(c, n)
      BY <1>3, <1>6, <2>3
    <3> QED BY <1>2, <1>5, <2>1, <2>3, <3>1 DEF Present
  <2> QED BY <2>2, <2>3
<1>9. Present' = Present \ (index[c]..(EndIndex(c) - 1))
  BY <1>8 DEF Present
<1> QED BY <1>3, <1>4, <1>7, <1>9

LEMMA MoveSlots ==
  ASSUME HeadOK, NEW o, NEW lo, NEW home, NEW dead, MemoryInv(o, lo, home, dead), SlotsOK(home),
         NEW c \in Consumer, Move(c)
  PROVE  SlotsOK(home)'
<1>0. PICK N, b : N = index[c]..(EndIndex(c) - 1) /\ b = block[c]
  OBVIOUS
<1>1. /\ Present' = Present \ N /\ b \in Block
      /\ \A n \in N : n \in Present /\ n \in Nat /\ home[BlockNo(n)] = b
  BY <1>0, MovePresent
<1>2. slots' = [slots EXCEPT ![b] = [i \in Slots |->
                  IF \E n \in N : Slot(Idx(n)) = i THEN 0 ELSE slots[b][i]]]
  <2>1. PICK S : S = SlotsHere(c)
    OBVIOUS
  <2>2. \A i \in Slots : i \in S <=> \E n \in N : Slot(Idx(n)) = i
    BY <1>0, <2>1 DEF SlotsHere
  <2>3. slots' = [slots EXCEPT ![b] = [i \in Slots |-> IF i \in S THEN 0 ELSE slots[b][i]]]
    BY <1>0, <2>1 DEF Move
  <2> QED BY <2>2, <2>3
<1>3. past' = past /\ \A n : Idx(n)' = Idx(n)
  <2>1. ConsumersOK
    BY DEF MemoryInv
  <2> QED BY <2>1, MoveEffect DEF Kept, Idx
<1> DEFINE Lies(n, d, i) == n \in Present /\ home[BlockNo(n)] = d /\ Slot(Idx(n)) = i
<1>4. ASSUME NEW d \in Block, NEW i \in Slots, NEW n \in Nat
      PROVE  slots[d][i] = n + 1 <=> Lies(n, d, i)
  BY DEF SlotsOK
<1>5. slots \in [Block -> [Slots -> Nat]]
  BY DEF SlotsOK
<1>6. slots' \in [Block -> [Slots -> Nat]]
  BY <1>1, <1>2, <1>5
<1>7. ASSUME NEW d \in Block, NEW i \in Slots, NEW n \in Nat
      PROVE  slots'[d][i] = n + 1 <=> Lies(n, d, i) /\ n \notin N
  <2>1. CASE d = b /\ \E m \in N : Slot(Idx(m)) = i
    <3>1. slots'[d][i] = 0
      BY <1>2, <1>5, <2>1
    <3>2. PICK m \in N : Slot(Idx(m)) = i
      BY <2>1
    <3>3. m \in Nat /\ Lies(m, d, i)
      BY <1>1, <2>1, <3>2
    <3>4. Lies(n, d, i) => n = m
      <4>1. slots[d][i] = m + 1
        BY <1>4, <3>3
      <4>2. \A x, y \in Nat : x + 1 = y + 1 => x = y
        OBVIOUS
      <4> QED BY <1>4, <3>3, <4>1, <4>2
    <3> QED BY <3>1, <3>2, <3>4
  <2>2. CASE ~(d = b /\ \E m \in N : Slot(Idx(m)) = i)
    <3>1. slots'[d][i] = slots[d][i]
      BY <1>2, <1>5, <2>2
    <3>2. Lies(n, d, i) => n \notin N
      BY <1>1, <2>2
    <3> QED BY <1>4, <3>1, <3>2
  <2> QED BY <2>1, <2>2
<1>8. \A d \in Block, i \in Slots, n \in Nat :
        slots'[d][i] = n + 1 <=> n \in Present' /\ home[BlockNo(n)] = d /\ Slot(Idx(n)') = i
  BY <1>1, <1>3, <1>7
<1> QED BY <1>6, <1>8 DEF SlotsOK

(* Every step of a consumer keeps the slots right.                         *)
LEMMA ConsumerSlots ==
  ASSUME Claims, HeadOK, NEW o, NEW lo, NEW home, NEW dead, MemoryInv(o, lo, home, dead), SlotsOK(home),
         NEW c \in Consumer, ConsumerStep(c)
  PROVE  SlotsOK(home)'
<1>1. ConsumersOK /\ PastOK
  BY DEF MemoryInv
<1> QED BY <1>1, ClaimSlots, TakeIndexSlots, LoadSlots, MoveSlots, SetEmptySlots DEF ConsumerStep, Loads

-----------------------------------------------------------------------------
(* The invariant of the memory.                                            *)
MInv == \E o, lo, home, dead : MemoryInv(o, lo, home, dead) /\ SlotsOK(home)

LEMMA ClaimsHead == ASSUME Claims PROVE HeadOK
BY DEF Claims, TypeOK, HeadWithinTail, HeadOK

LEMMA MemoryInit1 == QueueInit => MInv
BY FreshMemory, PassedMemory DEF MInv, QueueInit, MemoryInit

LEMMA ProducerInv ==
  ASSUME MInv, RingInv, Claims, PartialBulk = FALSE, ProducerStep PROVE MInv'
<1>1. PICK o, lo, home, dead : MemoryInv(o, lo, home, dead) /\ SlotsOK(home)
  BY DEF MInv
<1>2. HeadOK
  BY ClaimsHead
<1>3. PICK q, low, new, gone : MemoryInv(q, low, new, gone)' /\ Follows(lo, home, low, new)
  BY <1>1, <1>2, ProducerKeeps
<1>4. SlotsOK(new)'
  BY <1>1, <1>2, <1>3, ProducerSlots
<1> QED BY <1>3, <1>4 DEF MInv

LEMMA ConsumerInv ==
  ASSUME MInv, Claims, NEW c \in Consumer, ConsumerStep(c) PROVE MInv'
<1>1. PICK o, lo, home, dead : MemoryInv(o, lo, home, dead) /\ SlotsOK(home)
  BY DEF MInv
<1>2. HeadOK
  BY ClaimsHead
<1>3. MemoryInv(o, lo, home, dead)' /\ SlotsOK(home)'
  BY <1>1, <1>2, ConsumerKeeps, ConsumerSlots
<1> QED BY <1>3 DEF MInv

LEMMA StutterInv == ASSUME MInv, Claims, UNCHANGED allVars PROVE MInv'
<1>1. PICK o, lo, home, dead : MemoryInv(o, lo, home, dead) /\ SlotsOK(home)
  BY DEF MInv
<1>2. UNCHANGED memory /\ headIndex' = headIndex /\ tailIndex' = tailIndex
  BY DEF allVars, vars, counters
<1>3. /\ UNCHANGED <<past, tailBlock, next, emptyFlags, pool, slots, headers, slotsUsed, front>>
      /\ UNCHANGED <<ppc, start, bulk, at, index, end, hdr, ipos, block, item, thrown>>
  BY <1>2 DEF memory, ring, blockIdx, call, locals
<1>4. HeadOK /\ PastOK /\ ProducerOK /\ IndexOK(o, lo, home) /\ RingOK(lo, home, dead)
  BY <1>1, ClaimsHead DEF MemoryInv
<1>5. /\ Cur \in Int /\ Written \in Int /\ Top \in Int /\ Cur <= Written /\ Written <= Top
      /\ tailIndex \in Nat /\ front \in Nat
      /\ tailIndex > 0 => Newest > 0
      /\ Newest > 0 /\ headers[Newest].front = -1 => tailIndex = 0 /\ ppc \notin {"publish", "publishAll"}
  BY <1>4, MemoryFacts, IndexFacts
<1>6. ProducerOK' /\ past' = past /\ Cur' = Cur /\ Top' = Top
      /\ Written' = Written /\ Window' = Window /\ AtFront' = AtFront
  <2>1. front' \in Nat /\ Newest' = Newest /\ UNCHANGED <<ppc, front, headers>>
        /\ UNCHANGED <<past, tailIndex, start, bulk, tailBlock, slotsUsed>>
    BY <1>2, <1>3, <1>5 DEF Newest
  <2>2. ~(ppc = "storeEntry" /\ ppc' = "storeFront") /\ ~(ppc = "storeFront" /\ ppc' = "publish")
    BY <1>3
  <2> QED BY <1>4, <2>1, <2>2, ShapeKept
<1>7. (InHand' <=> InHand) /\ (InBulk' <=> InBulk) /\ (Unset' <=> Unset)
  BY <1>3 DEF InHand, InBulk, Unset
<1>8. ProducerFrame /\ UNCHANGED <<next, pool, tailBlock, emptyFlags, headers, front, slotsUsed, start, bulk>>
  BY <1>2, <1>3 DEF ProducerFrame
<1>9. MemoryInv(o, lo, home, dead)'
  <2>1. /\ InHand' => InHand /\ start' = start /\ Cur' = Cur
        /\ InBulk' => InBulk /\ Cur' = Cur /\ start'.tail = start.tail /\ bulk'.first = bulk.first
    BY <1>6, <1>7, <1>8
  <2>2. Cur' \in Int /\ Cur <= Cur' /\ Cur' <= Top /\ ~(Cur' # Cur) /\ tailIndex' \in Nat
        /\ (tailIndex' > 0 => Newest > 0)
        /\ (Newest > 0 /\ headers[Newest].front = -1 => tailIndex' = 0 /\ ppc' \notin {"publish", "publishAll"})
    BY <1>2, <1>3, <1>5, <1>6
  <2> QED BY <1>1, <1>4, <1>6, <1>7, <1>8, <2>1, <2>2, ProducerStays
<1>10. SlotsOK(home)'
  <2>1. Made' = Made
    BY <1>2, <1>3 DEF Made
  <2>2. Present' = Present
    BY <1>2, <1>3, <2>1, PresentKept
  <2> QED BY <1>1, <1>3, <2>2, SlotsUnchanged
<1> QED BY <1>9, <1>10 DEF MInv

(* The invariant holds in every state, if an enqueue_bulk fails only before*)
(* it has taken a block.                                                   *)
LEMMA MemoryHolds == QueueSpec /\ PartialBulk = FALSE => [](MInv /\ Claims)
<1>1. QueueSpec => []Claims
  BY ClaimsHold
<1>2. QueueInit => MInv
  BY MemoryInit1
<1>3. MInv /\ RingInv /\ Claims /\ PartialBulk = FALSE /\ [QueueNext]_allVars => MInv'
  <2> SUFFICES ASSUME MInv, RingInv, Claims, PartialBulk = FALSE, [QueueNext]_allVars PROVE MInv'
    OBVIOUS
  <2>1. CASE ProducerStep
    BY <2>1, ProducerInv
  <2>2. ASSUME NEW c \in Consumer, ConsumerStep(c) PROVE MInv'
    BY <2>2, ConsumerInv
  <2>3. CASE UNCHANGED allVars
    BY <2>3, StutterInv
  <2> QED BY <2>1, <2>2, <2>3 DEF QueueNext
<1>4. QueueSpec => []RingInv
  BY RingHolds
<1>5. PartialBulk = FALSE => [](PartialBulk = FALSE)
  <2>1. (PartialBulk = FALSE)' <=> PartialBulk = FALSE
    OBVIOUS
  <2> QED BY <2>1, PTL
<1> QED BY <1>1, <1>2, <1>3, <1>4, <1>5, PTL DEF QueueSpec

-----------------------------------------------------------------------------
(* The slot of an element that is not there yet.                           *)
LEMMA FreeSlot ==
  ASSUME HeadOK, NEW o, NEW lo, NEW home, NEW dead, MemoryInv(o, lo, home, dead), SlotsOK(home),
         NEW n \in Nat, tailIndex <= n, n >= Made, BlockNo(n) \in lo..Top
  PROVE  Fill(home[BlockNo(n)], Slot(Idx(n)))
<1>1. PastOK /\ RingOK(lo, home, dead) /\ ConsumersOK /\ WalksOK(o, home) /\ n \in Int /\ Made \in Nat
  BY MadeFacts DEF MemoryInv
<1>2. PICK b, i : b = home[BlockNo(n)] /\ i = Slot(Idx(n))
  OBVIOUS
<1>3. b \in Block /\ i \in Slots
  BY <1>1, <1>2, SlotFacts DEF RingOK, Owned, Slots
<1>4. slots[b][i] = 0
  <2>1. slots[b][i] \in Nat
    BY <1>3 DEF SlotsOK
  <2>2. SUFFICES ASSUME NEW m \in Nat, slots[b][i] = m + 1 PROVE FALSE
    <3>1. \A x \in Nat : x = 0 \/ \E m \in Nat : x = m + 1
      <4> SUFFICES ASSUME NEW x \in Nat, x # 0 PROVE \E m \in Nat : x = m + 1
        OBVIOUS
      <4>1. x - 1 \in Nat /\ x = (x - 1) + 1
        OBVIOUS
      <4> QED BY <4>1
    <3> QED BY <2>1, <3>1
  <2>3. m \in Present /\ home[BlockNo(m)] = b /\ Slot(Idx(m)) = i
    BY <1>3, <2>2 DEF SlotsOK
  <2>4. m < Made /\ BlockNo(m) \in lo..Top /\ m \in Int
    BY <2>3, PresentLive
  <2>5. m = n
    BY <1>1, <1>2, <2>3, <2>4, LiveOnce
  <2> QED BY <1>1, <2>4, <2>5
<1>5. ASSUME NEW c \in Consumer, Using(c, b), i \in SlotsHere(c) PROVE FALSE
  <2>1. at[c] \in {"move", "setEmpty"} /\ block[c] = b
    BY <1>5 DEF Using
  <2>2. block[c] = home[FirstBlock(c)]
    BY <1>1, <2>1 DEF WalksOK, WalkAt
  <2>3. PICK m \in index[c]..(EndIndex(c) - 1) : Slot(Idx(m)) = i
    BY <1>5 DEF SlotsHere
  <2>4. m \in Nat /\ m < headIndex /\ BlockNo(m) = FirstBlock(c) /\ FirstBlock(c) \in lo..Top
    BY <2>1, <2>3, HereFacts
  <2>5. home[BlockNo(m)] = home[BlockNo(n)] /\ BlockNo(m) \in lo..Top /\ m \in Int
        /\ Slot(Idx(m)) = Slot(Idx(n))
    BY <1>2, <2>1, <2>2, <2>3, <2>4
  <2>6. m = n
    BY <1>1, <2>5, LiveOnce
  <2> QED BY <2>4, <2>6 DEF HeadOK
<1> QED BY <1>2, <1>4, <1>5 DEF Fill

(* No object is constructed where there is one, or in a slot that a        *)
(* consumer that was overtaken still has to deal with, and the assertion at*)
(* concurrentqueue.h:1517 does not fail: no flag is set twice.             *)
THEOREM NothingOverwritten == QueueSpec /\ PartialBulk = FALSE => []NoOverwrite
<1>1. ASSUME MInv, Claims PROVE NoOverwrite
  <2>1. PICK o, lo, home, dead : MemoryInv(o, lo, home, dead) /\ SlotsOK(home)
    BY <1>1 DEF MInv
  <2>2. HeadOK /\ tailIndex \in Nat
    BY <1>1, ClaimsHead DEF HeadOK
  <2>3. /\ PastOK /\ ProducerOK /\ IndexOK(o, lo, home) /\ RingOK(lo, home, dead) /\ ConsumersOK
        /\ FlagsOK(lo, home, dead) /\ WalksOK(o, home)
    BY <2>1 DEF MemoryInv
  <2>4. lo \in Int /\ Cur \in Int /\ Top \in Int /\ lo <= Cur + 1
    BY <2>2, <2>3, MemoryFacts
  <2>5. ASSUME ppc = "construct" PROVE Fill(tailBlock, Slot(Idx(tailIndex)))
    <3>1. Made = tailIndex /\ Top = Cur + 1 /\ Slot(Idx(tailIndex)) = 0
      BY <2>2, <2>3, <2>5 DEF Made, Top, InHand, ProducerOK, Enqueuing
    <3>2. BlockNo(tailIndex) = Cur + 1
      BY <2>2, <2>3, <3>1, CurFacts
    <3>3. BlockNo(tailIndex) \in lo..Top /\ tailBlock = home[BlockNo(tailIndex)]
      BY <2>3, <2>4, <3>1, <3>2 DEF RingOK
    <3> QED BY <2>1, <2>2, <3>1, <3>3, FreeSlot
  <2>6. ASSUME ppc = "constructAll" PROVE \A n \in Elements : Fill(BlockOf(n), Slot(Idx(n)))
    <3>1. InBulk /\ Written = LastBlockNo
      BY <2>3, <2>6 DEF ProducerOK, InBulk, Filled
    <3>2. AllBlocks
      BY <2>3, <3>1, BulkBlock DEF AllBlocks, Written
    <3>3. \A n \in Elements : /\ n \in Nat /\ tailIndex <= n
                              /\ BlockNo(n) \in lo..Written /\ BlockOf(n) = home[BlockNo(n)]
      BY <2>2, <2>3, <3>1, <3>2, BulkElements
    <3>4. Top = Written /\ Made = tailIndex
      BY <2>2, <2>6 DEF Top, InHand, Made
    <3>5. ASSUME NEW n \in Elements PROVE Fill(BlockOf(n), Slot(Idx(n)))
      <4>1. n \in Nat /\ tailIndex <= n /\ n >= Made /\ BlockNo(n) \in lo..Top
        BY <2>2, <3>3, <3>4
      <4>2. Fill(home[BlockNo(n)], Slot(Idx(n)))
        BY <2>1, <2>2, <4>1, FreeSlot
      <4> QED BY <3>3, <4>2
    <3> QED BY <3>5
  <2>7. ASSUME NEW c \in Consumer, at[c] = "setEmpty" PROVE SlotsHere(c) \cap emptyFlags[block[c]] = {}
    <3> SUFFICES ASSUME NEW i \in SlotsHere(c), i \in emptyFlags[block[c]] PROVE FALSE
      OBVIOUS
    <3>1. /\ FirstBlock(c) \in Int /\ lo <= FirstBlock(c) /\ FirstBlock(c) <= LastBlock(c) /\ LastBlock(c) <= Cur
          /\ LastBlock(c) \in Int
      BY <2>1, <2>2, <2>7, ClaimedFacts
    <3>2. block[c] = home[FirstBlock(c)]
      BY <2>3, <2>7 DEF WalksOK, WalkAt
    <3>3. FirstBlock(c) <= Cur
      BY <2>4, <3>1
    <3>4. emptyFlags[block[c]] = {j \in Slots : First(FirstBlock(c)) + j \in DoneSet}
      BY <2>3, <3>1, <3>2, <3>3 DEF FlagsOK
    <3>5. PICK m \in index[c]..(EndIndex(c) - 1) : Slot(Idx(m)) = i
      BY DEF SlotsHere
    <3>6. /\ m \in Nat /\ BlockNo(m) = FirstBlock(c) /\ index[c] <= m /\ m < EndIndex(c)
          /\ EndIndex(c) <= end[c] /\ index[c] \in Nat /\ EndIndex(c) \in Nat /\ end[c] \in Nat
      <4>1. /\ index[c] \in Nat /\ EndIndex(c) \in Nat /\ end[c] \in Nat /\ EndIndex(c) <= end[c]
            /\ m \in Nat /\ BlockNo(m) = FirstBlock(c)
        BY <2>1, <2>2, <2>7, <3>5, HereFacts
      <4> QED BY <3>5, <4>1
    <3>7. m < end[c]
      BY <3>6
    <3>8. m \notin DoneSet
      BY <2>7, <3>6, <3>7 DEF DoneSet, Uncounted
    <3>9. i = m - First(FirstBlock(c)) /\ First(FirstBlock(c)) \in Int
      BY <2>3, <3>1, <3>5, <3>6, SlotFacts, FirstType
    <3>10. First(FirstBlock(c)) + i = m
      BY <3>6, <3>9
    <3> QED BY <3>4, <3>8, <3>10
  <2> QED BY <2>5, <2>6, <2>7 DEF NoOverwrite
<1> QED BY <1>1, MemoryHolds, PTL

-----------------------------------------------------------------------------
LEMMA NumbersFacts ==
  ASSUME NEW a \in Nat, NEW b \in Nat, a <= b
  PROVE  /\ Numbers(a, b) \in Seq(Nat) /\ Len(Numbers(a, b)) = b - a
         /\ \A i \in 1..(b - a) : Numbers(a, b)[i] = a + i
         /\ \A top \in Nat : b <= top => Numbers(a, b) \in Seq(1..top)
<1>1. PICK n \in Nat : n = b - a
  OBVIOUS
<1>2. Numbers(a, b) = [i \in 1..n |-> a + i]
  BY <1>1 DEF Numbers
<1>3. Numbers(a, b) \in Seq(Nat) /\ Len(Numbers(a, b)) = n /\ \A i \in 1..n : Numbers(a, b)[i] = a + i
  BY <1>2
<1>4. ASSUME NEW top \in Nat, b <= top PROVE Numbers(a, b) \in Seq(1..top)
  <2>1. \A i \in 1..n : a + i \in 1..top
    BY <1>1, <1>4
  <2> QED BY <1>2, <2>1
<1> QED BY <1>1, <1>3, <1>4

LEMMA NumbersSub ==
  ASSUME NEW a \in Nat, NEW b \in Nat, a <= b, NEW m \in 0..(b - a)
  PROVE  /\ SubSeq(Numbers(a, b), 1, m) = Numbers(a, a + m)
         /\ SubSeq(Numbers(a, b), m + 1, b - a) = Numbers(a + m, b)
<1>1. /\ a + m \in Nat /\ a <= a + m /\ a + m <= b /\ m \in Nat /\ m \in Int /\ b - a \in Int
  OBVIOUS
<1>2. \A i \in 1..(b - a) : Numbers(a, b)[i] = a + i
  BY NumbersFacts
<1>3. \A i \in 1..(b - a) : Numbers(a, b)[i] \in Nat
  BY <1>2
<1>4. SubSeq(Numbers(a, b), 1, m) = Numbers(a, a + m)
  <2>1. \A i \in 1..m : Numbers(a, b)[i] \in Nat
    BY <1>1, <1>3
  <2>2. /\ SubSeq(Numbers(a, b), 1, m) \in Seq(Nat) /\ Len(SubSeq(Numbers(a, b), 1, m)) = m
        /\ \A i \in 1..m : SubSeq(Numbers(a, b), 1, m)[i] = a + i
    <3>1. /\ SubSeq(Numbers(a, b), 1, m) \in Seq(Nat)
          /\ Len(SubSeq(Numbers(a, b), 1, m)) = IF 1 <= m THEN m - 1 + 1 ELSE 0
          /\ \A i \in 1..(m - 1 + 1) : SubSeq(Numbers(a, b), 1, m)[i] = Numbers(a, b)[1 + i - 1]
      BY <1>1, <2>1, SubSeqProperties
    <3>2. \A i \in 1..m : SubSeq(Numbers(a, b), 1, m)[i] = a + i
      BY <1>1, <1>2, <3>1
    <3> QED BY <1>1, <3>1, <3>2
  <2>3. /\ Numbers(a, a + m) \in Seq(Nat) /\ Len(Numbers(a, a + m)) = m
        /\ \A i \in 1..m : Numbers(a, a + m)[i] = a + i
    <3>1. (a + m) - a = m
      BY <1>1
    <3> QED BY <1>1, <3>1, NumbersFacts
  <2> QED BY <2>2, <2>3, SeqEqual
<1>5. SubSeq(Numbers(a, b), m + 1, b - a) = Numbers(a + m, b)
  <2> DEFINE s == SubSeq(Numbers(a, b), m + 1, b - a)
  <2>0. PICK n \in Nat : n = b - (a + m)
    BY <1>1
  <2>1. \A i \in (m + 1)..(b - a) : Numbers(a, b)[i] \in Nat
    BY <1>1, <1>3
  <2>2. s \in Seq(Nat) /\ Len(s) = n /\ \A i \in 1..n : s[i] = a + m + i
    <3>1. m + 1 \in Int
      BY <1>1
    <3>2. /\ s \in Seq(Nat)
          /\ Len(s) = IF m + 1 <= b - a THEN b - a - (m + 1) + 1 ELSE 0
          /\ \A i \in 1..(b - a - (m + 1) + 1) : s[i] = Numbers(a, b)[m + 1 + i - 1]
      BY <1>1, <2>1, <3>1, SubSeqProperties
    <3>3. Len(s) = n
      BY <1>1, <2>0, <3>2
    <3>4. ASSUME NEW i \in 1..n PROVE s[i] = a + m + i
      <4>1. i \in 1..(b - a - (m + 1) + 1) /\ m + 1 + i - 1 = m + i /\ m + i \in 1..(b - a)
        BY <1>1, <2>0
      <4>2. s[i] = Numbers(a, b)[m + i]
        BY <3>2, <4>1
      <4> QED BY <1>1, <1>2, <4>1, <4>2
    <3> QED BY <3>2, <3>3, <3>4
  <2>3. /\ Numbers(a + m, b) \in Seq(Nat) /\ Len(Numbers(a + m, b)) = n
        /\ \A i \in 1..n : Numbers(a + m, b)[i] = a + m + i
    BY <1>1, <2>0, NumbersFacts
  <2> HIDE DEF s
  <2>4. s = Numbers(a + m, b)
    BY <2>2, <2>3, SeqEqual
  <2> QED BY <2>4 DEF s
<1> QED BY <1>4, <1>5

LEMMA NumbersNone == ASSUME NEW a \in Nat PROVE Numbers(a, a) = <<>>
<1>1. a - a = 0
  OBVIOUS
<1> QED BY <1>1 DEF Numbers

(* A consumer that is not in a call has nothing, and what a call has moved *)
(* out is numbers of elements.                                             *)
RestOK ==
  /\ item \in [Consumer -> Seq(1..MaxTail)] /\ thrown \in [Consumer -> BOOLEAN]
  /\ \A c \in Consumer : at[c] = "none" =>
       index[c] = 0 /\ end[c] = 0 /\ item[c] = <<>> /\ thrown[c] = FALSE

(* What Fifo's variables are for the sub-queue.                            *)
Waiting == Numbers(headIndex, tailIndex)
Claimed == [c \in Consumer |-> Numbers(Unfetched(c), end[c])]
FifoSame == Waiting' = Waiting /\ Claimed' = Claimed /\ item' = item /\ thrown' = thrown

LEMMA FifoSameStutters == ASSUME FifoSame PROVE UNCHANGED F!vars
BY DEF FifoSame, Waiting, Claimed, F!vars

LEMMA NumbersGrow ==
  ASSUME NEW a \in Nat, NEW b \in Nat, NEW c \in Nat, NEW top \in Nat, a <= b, b < c, c <= top
  PROVE  F!IsStrictPrefix(Numbers(a, b), Numbers(a, c)) /\ Numbers(a, c) \in Seq(1..top)
<1>1. PICK m \in Nat : m = b - a
  OBVIOUS
<1>2. PICK n \in Nat : n = c - a
  OBVIOUS
<1>3. m < n /\ a + m = b /\ m \in 0..(c - a) /\ a <= c
  BY <1>1, <1>2
<1>4. Numbers(a, b) \in Seq(Nat) /\ Len(Numbers(a, b)) = m
  BY <1>1, NumbersFacts
<1>5. Len(Numbers(a, c)) = n /\ Numbers(a, c) \in Seq(1..top)
  BY <1>2, <1>3, NumbersFacts
<1>6. SubSeq(Numbers(a, c), 1, m) = Numbers(a, b)
  BY <1>3, NumbersSub
<1>7. SubSeq(Numbers(a, b), 1, m) = Numbers(a, b)
  BY <1>4, SubSeqFull
<1> QED BY <1>3, <1>4, <1>5, <1>6, <1>7 DEF F!IsStrictPrefix, F!IsPrefix

(* A step of a consumer changes what that consumer has.                    *)
LEMMA ClaimedAlone ==
  ASSUME NEW c \in Consumer, OnlyAt(c), past' = past, NEW s, s = Numbers(Unfetched(c), end[c])'
  PROVE  Claimed' = [Claimed EXCEPT ![c] = s]
<1>1. ASSUME NEW d \in Consumer, d # c
      PROVE  Numbers(Unfetched(d), end[d])' = Numbers(Unfetched(d), end[d])
  <2>1. Unfetched(d)' = Unfetched(d) /\ end'[d] = end[d]
    BY <1>1, OthersSame
  <2> QED BY <2>1 DEF Numbers
<1> QED BY <1>1 DEF Claimed

(* The producer puts elements, or does nothing.                            *)
LEMMA ProducerCounts ==
  ASSUME ProducerOK, ProducerOK', ProducerStep
  PROVE  /\ UNCHANGED <<headIndex, at, index, end, past, item, thrown>>
         /\ tailIndex \in Nat /\ tailIndex' \in Nat /\ tailIndex' <= MaxTail /\ tailIndex <= tailIndex'
<1>1. /\ tailIndex \in Nat /\ MaxTail \in Nat /\ tailIndex' \in 0..MaxTail /\ bulk.count \in Nat
  BY BoundAssumption DEF ProducerOK, Bulk
<1>2. ASSUME UNCHANGED vars PROVE tailIndex' = tailIndex /\ headIndex' = headIndex
  BY <1>2 DEF vars, counters
<1>3. tailIndex <= tailIndex' /\ headIndex' = headIndex /\ UNCHANGED locals
  <2>1. CASE EnqueueInBlock \/ Publish
    BY <1>1, <2>1 DEF EnqueueInBlock, Publish, Enqueue
  <2>2. CASE BulkPublish
    BY <1>1, <2>2 DEF BulkPublish, Enqueue
  <2>3. CASE ReuseBlock \/ NeedBlock \/ GrowIndex \/ Requisition \/ Construct \/ StoreEntry \/ StoreFront
             \/ \E n \in 1..MaxBulk : StartBulk(n)
    <3>1. UNCHANGED <<vars, locals>>
      BY <2>3 DEF ReuseBlock, NeedBlock, GrowIndex, Requisition, Construct, StoreEntry, StoreFront, StartBulk
    <3> QED BY <1>1, <1>2, <3>1
  <2>4. CASE \/ BulkReuse \/ BulkNoReuse \/ BulkGrow \/ BulkRequisition \/ BulkFail \/ BulkReset
             \/ BulkConstruct \/ BulkThrow \/ BulkStoreFront
    <3>1. UNCHANGED <<vars, locals>>
      BY <2>4 DEF BulkReuse, BulkNoReuse, BulkGrow, BulkRequisition, BulkFail, BulkReset,
                  BulkConstruct, BulkThrow, BulkStoreFront, BulkUndo
    <3> QED BY <1>1, <1>2, <3>1
  <2> QED BY <2>1, <2>2, <2>3, <2>4 DEF ProducerStep
<1>4. past' = past
  BY DEF ProducerStep, EnqueueInBlock, Publish, BulkPublish, ReuseBlock, NeedBlock, GrowIndex, Requisition,
         Construct, StoreEntry, StoreFront, StartBulk, BulkReuse, BulkNoReuse, BulkGrow, BulkRequisition,
         BulkFail, BulkReset, BulkConstruct, BulkThrow, BulkStoreFront, BulkUndo, ring
<1> QED BY <1>1, <1>3, <1>4 DEF locals

LEMMA ProducerPuts ==
  ASSUME ProducerOK, ProducerOK', HeadOK, RestOK, ProducerStep
  PROVE  RestOK' /\ (F!Put \/ UNCHANGED F!vars)
<1>1. /\ headIndex \in Nat /\ tailIndex \in Nat /\ headIndex <= tailIndex /\ MaxTail \in Nat
  BY BoundAssumption DEF HeadOK
<1>2. /\ UNCHANGED <<headIndex, at, index, end, past, item, thrown>>
      /\ tailIndex' \in Nat /\ tailIndex' <= MaxTail /\ tailIndex <= tailIndex'
  BY ProducerCounts
<1>3. RestOK'
  BY <1>2 DEF RestOK
<1>4. Claimed' = Claimed
  BY <1>2 DEF Claimed, Unfetched, EndIndex, Idx
<1>5. CASE tailIndex' = tailIndex
  BY <1>2, <1>3, <1>4, <1>5, FifoSameStutters DEF FifoSame, Waiting
<1>6. CASE tailIndex' # tailIndex
  <2>1. tailIndex < tailIndex'
    BY <1>1, <1>2, <1>6
  <2>2. /\ F!IsStrictPrefix(Numbers(headIndex, tailIndex), Numbers(headIndex, tailIndex'))
        /\ Numbers(headIndex, tailIndex') \in Seq(1..MaxTail)
    BY <1>1, <1>2, <2>1, NumbersGrow
  <2>3. F!Put
    BY <1>2, <1>4, <2>2 DEF F!Put, Claimed
  <2> QED BY <1>3, <2>3
<1> QED BY <1>5, <1>6

LEMMA FifoInit == ASSUME QueueInit PROVE RestOK /\ F!Init
<1>1. /\ headIndex = 0 /\ tailIndex = 0 /\ at = [c \in Consumer |-> "none"]
      /\ index = [c \in Consumer |-> 0] /\ end = [c \in Consumer |-> 0]
      /\ item = [c \in Consumer |-> <<>>] /\ thrown = [c \in Consumer |-> FALSE]
  BY DEF QueueInit, Init, MemoryInit
<1>2. RestOK
  <2>1. <<>> \in Seq(1..MaxTail)
    OBVIOUS
  <2> QED BY <1>1, <2>1 DEF RestOK
<1>3. Numbers(0, 0) = <<>>
  BY NumbersNone
<1>4. Waiting = <<>> /\ Claimed = [c \in Consumer |-> <<>>]
  BY <1>1, <1>3 DEF Waiting, Claimed, Unfetched
<1>5. F!Init
  BY <1>1, <1>4 DEF F!Init, Waiting, Claimed
<1> QED BY <1>2, <1>5

(* Move takes the numbers of the elements it moves out of their slots.     *)
LEMMA MoveValues ==
  ASSUME HeadOK, NEW o, NEW lo, NEW home, NEW dead, MemoryInv(o, lo, home, dead), SlotsOK(home),
         NEW c \in Consumer, Move(c)
  PROVE  \E k \in 0..(EndIndex(c) - index[c]) :
           /\ thrown[c] => k = 0
           /\ item' = [item EXCEPT ![c] = @ \o Numbers(index[c], index[c] + k)]
           /\ thrown' = [thrown EXCEPT ![c] = @ \/ k < EndIndex(c) - index[c]]
<1>1. at[c] = "move" /\ PastOK
  BY DEF Move, MemoryInv
<1>2. index[c] \in Nat /\ EndIndex(c) \in Nat /\ index[c] < EndIndex(c)
  BY <1>1, HereFacts
<1>3. /\ block[c] \in Block
      /\ \A n \in index[c]..(EndIndex(c) - 1) : n \in Present /\ n \in Nat /\ home[BlockNo(n)] = block[c]
  BY MovePresent
<1>4. ASSUME NEW n \in index[c]..(EndIndex(c) - 1) PROVE slots[block[c]][Slot(Idx(n))] = n + 1
  <2>1. n \in Nat /\ n \in Int /\ n \in Present /\ home[BlockNo(n)] = block[c]
    BY <1>3
  <2>2. Slot(Idx(n)) \in Slots
    BY <1>1, <2>1, SlotFacts DEF Slots
  <2> QED BY <1>3, <2>1, <2>2 DEF SlotsOK
<1>5. PICK k \in 0..(EndIndex(c) - index[c]) :
        /\ thrown[c] => k = 0
        /\ item' = [item EXCEPT ![c] =
             @ \o [i \in 1..k |-> slots[block[c]][Slot(Idx(index[c] + i - 1))]]]
        /\ thrown' = [thrown EXCEPT ![c] = @ \/ k < EndIndex(c) - index[c]]
  BY DEF Move
<1>6. k \in Nat /\ index[c] + k <= EndIndex(c)
  BY <1>2, <1>5
<1>7. ASSUME NEW i \in 1..k PROVE slots[block[c]][Slot(Idx(index[c] + i - 1))] = index[c] + i
  <2>1. PICK n \in index[c]..(EndIndex(c) - 1) : n = index[c] + i - 1
    BY <1>2, <1>6
  <2>2. n + 1 = index[c] + i
    BY <1>2, <2>1
  <2> QED BY <1>4, <2>1, <2>2
<1>8. [i \in 1..k |-> slots[block[c]][Slot(Idx(index[c] + i - 1))]] = [i \in 1..k |-> index[c] + i]
  BY <1>7
<1>9. Numbers(index[c], index[c] + k) = [i \in 1..k |-> index[c] + i]
  <2>1. (index[c] + k) - index[c] = k
    BY <1>2, <1>6
  <2> QED BY <2>1 DEF Numbers
<1> QED BY <1>5, <1>8, <1>9

(* The claim: the first elements waiting become the consumer's.            *)
LEMMA TakeIndexClaims ==
  ASSUME ConsumersOK, Claims, Claims', RestOK, NEW c \in Consumer, TakeIndex(c)
  PROVE  RestOK' /\ F!Claim(c)
<1>1. headIndex \in Nat /\ tailIndex \in Nat /\ headIndex <= tailIndex
  BY ClaimsHead DEF HeadOK
<1>2. /\ Kept /\ OnlyAt(c) /\ at[c] = "none" /\ at'[c] = "header"
      /\ Unfetched(c)' = headIndex /\ end'[c] = headIndex' /\ headIndex' = headIndex + count[c]
      /\ count[c] \in Nat /\ count[c] > 0 /\ UNCHANGED <<item, thrown>>
  BY TakeIndexEffect
<1>3. PICK n \in Nat : n = count[c]
  BY <1>2
<1>4. n > 0 /\ headIndex + n <= tailIndex
  BY <1>2, <1>3 DEF Claims, HeadWithinTail, Kept
<1>5. RestOK'
  BY <1>2 DEF RestOK, OnlyAt
<1>6. Numbers(Unfetched(c), end[c])' = Numbers(headIndex, headIndex + n)
  BY <1>2, <1>3 DEF Numbers
<1>7. Claimed' = [Claimed EXCEPT ![c] = Numbers(headIndex, headIndex + n)]
  BY <1>2, <1>6, ClaimedAlone DEF Kept
<1>8. PICK m \in Nat : m = tailIndex - headIndex
  BY <1>1
<1>9. n \in 1..m /\ n \in 0..m
  BY <1>1, <1>4, <1>8
<1>10. /\ Len(Waiting) = m /\ SubSeq(Waiting, 1, n) = Numbers(headIndex, headIndex + n)
       /\ SubSeq(Waiting, n + 1, m) = Numbers(headIndex + n, tailIndex)
  BY <1>1, <1>8, <1>9, NumbersFacts, NumbersSub, ZenonT(30) DEF Waiting
<1>11. Waiting' = Numbers(headIndex + n, tailIndex)
  BY <1>2, <1>3 DEF Waiting, Kept
<1>12. Claimed[c] = <<>> /\ item[c] = <<>> /\ ~thrown[c]
  <2>1. Unfetched(c) = 0 /\ end[c] = 0 /\ item[c] = <<>> /\ ~thrown[c]
    BY <1>2 DEF RestOK, Unfetched
  <2> QED BY <2>1, NumbersNone DEF Claimed
<1>13. \E j \in 1..Len(Waiting) : /\ Claimed' = [Claimed EXCEPT ![c] = SubSeq(Waiting, 1, j)]
                                  /\ Waiting' = SubSeq(Waiting, j + 1, Len(Waiting))
  BY <1>7, <1>9, <1>10, <1>11
<1>14. F!Claim(c)
  BY <1>2, <1>12, <1>13 DEF F!Claim, Waiting, Claimed
<1> QED BY <1>5, <1>14

(* Moving elements out of a block is receiving the next of those claimed.  *)
LEMMA MoveReceives ==
  ASSUME HeadOK, NEW o, NEW lo, NEW home, NEW dead, MemoryInv(o, lo, home, dead), SlotsOK(home), RestOK,
         NEW c \in Consumer, Move(c)
  PROVE  RestOK' /\ F!Receive(c)
<1>1. /\ ConsumersOK /\ headIndex \in Nat /\ tailIndex \in Nat /\ headIndex <= tailIndex
      /\ tailIndex <= MaxTail /\ MaxTail \in Nat
  BY BoundAssumption DEF MemoryInv, ProducerOK, HeadOK
<1>2. /\ Kept /\ OnlyAt(c) /\ at[c] = "move" /\ at'[c] = "setEmpty"
      /\ Unfetched(c) = index[c] /\ Unfetched(c)' = EndIndex(c) /\ UNCHANGED <<headIndex, index, end>>
  BY <1>1, MoveEffect
<1>3. PICK a \in Nat, b \in Nat, e \in Nat : a = index[c] /\ b = end[c] /\ e = EndIndex(c)
  BY <1>2, HereFacts
<1>4. a < e /\ e <= b /\ b <= headIndex
  BY <1>2, <1>3, HereFacts
<1>5. PICK n \in Nat : n = e - a
  BY <1>4
<1>6. e = a + n /\ n \in 1..(b - a) /\ n \in 0..(b - a) /\ a <= b
  BY <1>4, <1>5
<1>7. PICK k \in 0..n :
           /\ thrown[c] => k = 0
           /\ item' = [item EXCEPT ![c] = @ \o Numbers(a, a + k)]
           /\ thrown' = [thrown EXCEPT ![c] = @ \/ k < n]
  BY <1>3, <1>5, MoveValues
<1>8. k \in Nat /\ k \in 0..(b - a) /\ a <= a + k /\ a + k <= MaxTail
  BY <1>1, <1>4, <1>6
<1>9. RestOK'
  <2>1. Numbers(a, a + k) \in Seq(1..MaxTail)
    <3>1. a + k \in Nat
      BY <1>8
    <3> QED BY <1>1, <1>8, <3>1, NumbersFacts
  <2>2. item[c] \o Numbers(a, a + k) \in Seq(1..MaxTail)
    BY <2>1, ConcatProperties DEF RestOK
  <2>3. item' \in [Consumer -> Seq(1..MaxTail)]
    BY <1>7, <2>2 DEF RestOK
  <2>4. thrown' \in [Consumer -> BOOLEAN]
    <3>1. (thrown[c] \/ k < n) \in BOOLEAN
      OBVIOUS
    <3> QED BY <1>7, <3>1 DEF RestOK
  <2>5. ASSUME NEW d \in Consumer, at'[d] = "none"
        PROVE  index'[d] = 0 /\ end'[d] = 0 /\ item'[d] = <<>> /\ thrown'[d] = FALSE
    <3>1. d # c /\ at[d] = "none"
      BY <1>2, <2>5 DEF OnlyAt
    <3> QED BY <1>2, <1>7, <3>1 DEF RestOK
  <2> QED BY <2>3, <2>4, <2>5 DEF RestOK
<1>10. Claimed[c] = Numbers(a, b)
  BY <1>2, <1>3 DEF Claimed
<1>11. Claimed' = [Claimed EXCEPT ![c] = Numbers(e, b)]
  <2>1. Numbers(Unfetched(c), end[c])' = Numbers(e, b)
    BY <1>2, <1>3 DEF Numbers
  <2> QED BY <1>2, <2>1, ClaimedAlone DEF Kept
<1>12. Len(Numbers(a, b)) = b - a
  BY <1>6, NumbersFacts
<1>13. /\ SubSeq(Numbers(a, b), 1, k) = Numbers(a, a + k)
       /\ SubSeq(Numbers(a, b), n + 1, b - a) = Numbers(e, b)
  <2>1. SubSeq(Numbers(a, b), 1, k) = Numbers(a, a + k)
    BY <1>6, <1>8, NumbersSub, ZenonT(30)
  <2>2. SubSeq(Numbers(a, b), n + 1, b - a) = Numbers(a + n, b)
    BY <1>6, NumbersSub, ZenonT(30)
  <2> QED BY <1>6, <2>1, <2>2
<1>14. Waiting' = Waiting
  BY <1>2 DEF Waiting, Kept
<1>15. \E m \in 1..Len(Claimed[c]), j \in 0..Len(Claimed[c]) :
         /\ j <= m /\ (thrown[c] => j = 0)
         /\ item' = [item EXCEPT ![c] = @ \o SubSeq(Claimed[c], 1, j)]
         /\ Claimed' = [Claimed EXCEPT ![c] = SubSeq(@, m + 1, Len(@))]
         /\ thrown' = [thrown EXCEPT ![c] = @ \/ j < m]
  <2>1. n \in 1..Len(Claimed[c]) /\ k \in 0..Len(Claimed[c]) /\ k <= n
    BY <1>6, <1>8, <1>10, <1>12
  <2>2. item' = [item EXCEPT ![c] = @ \o SubSeq(Claimed[c], 1, k)]
    BY <1>7, <1>10, <1>13
  <2>3. Claimed' = [Claimed EXCEPT ![c] = SubSeq(@, n + 1, Len(@))]
    BY <1>10, <1>11, <1>12, <1>13
  <2> QED BY <1>7, <2>1, <2>2, <2>3
<1>16. F!Receive(c)
  BY <1>14, <1>15 DEF F!Receive, Claimed, Waiting
<1> QED BY <1>9, <1>16

(* Finding the elements in memory changes nothing that Fifo speaks of.     *)
LEMMA WalkFifo ==
  ASSUME ConsumersOK, RestOK, NEW c \in Consumer, ClaimStep(c) \/ Loads(c)
  PROVE  RestOK' /\ FifoSame
<1>1. CASE ClaimStep(c)
  <2>1. UNCHANGED <<headIndex, tailIndex, at, index, end, past, item, thrown>>
    BY <1>1 DEF ClaimStep, Draw, GiveBack, memory, ring, locals
  <2>2. RestOK'
    BY <2>1 DEF RestOK
  <2>3. Claimed' = Claimed
    BY <2>1 DEF Claimed, Unfetched, EndIndex, Idx
  <2> QED BY <2>1, <2>2, <2>3 DEF FifoSame, Waiting
<1>2. CASE Loads(c)
  <2>1. /\ Kept /\ OnlyAt(c) /\ at[c] # "none" /\ at'[c] # "none"
        /\ Unfetched(c)' = Unfetched(c) /\ UNCHANGED <<headIndex, index, end, item, thrown>>
    BY <1>2, LoadEffect
  <2>2. RestOK'
    BY <2>1 DEF RestOK, OnlyAt
  <2>3. \A d \in Consumer : Unfetched(d)' = Unfetched(d)
    BY <2>1, OthersSame DEF Kept
  <2>4. Claimed' = Claimed
    BY <2>1, <2>3 DEF Claimed
  <2> QED BY <2>1, <2>2, <2>4 DEF FifoSame, Waiting, Kept
<1> QED BY <1>1, <1>2

(* Done with a block, the consumer goes on with the rest of its claim, or  *)
(* returns what it has received.                                           *)
LEMMA GoOnFifo ==
  ASSUME HeadOK, NEW o, NEW lo, NEW home, NEW dead, MemoryInv(o, lo, home, dead), RestOK,
         NEW c \in Consumer, SetEmpty(c)
  PROVE  RestOK' /\ (F!Return(c) \/ FifoSame)
<1>1. ConsumersOK /\ at[c] = "setEmpty"
  BY DEF MemoryInv, SetEmpty
<1>2. /\ Kept /\ OnlyAt(c) /\ headIndex' = headIndex /\ past' = past
      /\ Unfetched(c) = EndIndex(c)
      /\ \/ /\ EndIndex(c) = end[c] /\ at'[c] = "none" /\ index'[c] = 0 /\ end'[c] = 0
            /\ item' = [item EXCEPT ![c] = <<>>] /\ thrown' = [thrown EXCEPT ![c] = FALSE]
         \/ /\ EndIndex(c) # end[c] /\ at'[c] = "block" /\ index'[c] = EndIndex(c) /\ end'[c] = end[c]
            /\ UNCHANGED <<item, thrown>>
  BY <1>1, SetEmptyEffect DEF Kept
<1>3. PICK e \in Nat, b \in Nat : e = EndIndex(c) /\ b = end[c]
  BY <1>1, HereFacts
<1>4. Claimed[c] = Numbers(e, b) /\ Waiting' = Waiting
  BY <1>2, <1>3 DEF Claimed, Waiting, Kept
<1>5. CASE e # b
  <2>1. at'[c] = "block" /\ index'[c] = e /\ end'[c] = b /\ item' = item /\ thrown' = thrown
    BY <1>2, <1>3, <1>5
  <2>2. RestOK'
    BY <1>2, <2>1 DEF RestOK, OnlyAt
  <2>3. Numbers(Unfetched(c), end[c])' = Numbers(e, b)
    BY <2>1 DEF Unfetched, Numbers
  <2>4. Claimed' = [Claimed EXCEPT ![c] = Numbers(e, b)]
    BY <1>2, <2>3, ClaimedAlone
  <2>5. Claimed' = Claimed
    BY <1>4, <2>4 DEF Claimed
  <2> QED BY <1>4, <2>1, <2>2, <2>5 DEF FifoSame
<1>6. CASE e = b
  <2>1. /\ at'[c] = "none" /\ index'[c] = 0 /\ end'[c] = 0
        /\ item' = [item EXCEPT ![c] = <<>>] /\ thrown' = [thrown EXCEPT ![c] = FALSE]
    BY <1>2, <1>3, <1>6
  <2>2. RestOK'
    <3>1. /\ item' \in [Consumer -> Seq(1..MaxTail)] /\ item'[c] = <<>> /\ thrown'[c] = FALSE
          /\ thrown' \in [Consumer -> BOOLEAN]
      BY <2>1 DEF RestOK
    <3>2. ASSUME NEW d \in Consumer, d # c, at'[d] = "none"
          PROVE  index'[d] = 0 /\ end'[d] = 0 /\ item'[d] = <<>> /\ thrown'[d] = FALSE
      <4>1. at[d] = "none" /\ index'[d] = index[d] /\ end'[d] = end[d]
        BY <1>2, <3>2 DEF OnlyAt
      <4>2. item'[d] = item[d] /\ thrown'[d] = thrown[d]
        BY <2>1, <3>2 DEF RestOK
      <4> QED BY <4>1, <4>2 DEF RestOK
    <3> QED BY <2>1, <3>1, <3>2 DEF RestOK
  <2>3. Numbers(Unfetched(c), end[c])' = <<>>
    <3>1. Unfetched(c)' = 0
      BY <2>1 DEF Unfetched
    <3>2. Numbers(Unfetched(c), end[c])' = Numbers(0, 0)
      BY <2>1, <3>1 DEF Numbers
    <3> QED BY <3>2, NumbersNone
  <2>4. Claimed[c] = <<>>
    BY <1>4, <1>6, NumbersNone
  <2>5. Claimed' = [Claimed EXCEPT ![c] = <<>>]
    BY <1>2, <2>3, ClaimedAlone
  <2>6. Claimed' = Claimed
    BY <2>4, <2>5 DEF Claimed
  <2>7. F!Return(c)
    BY <1>4, <2>1, <2>4, <2>6 DEF F!Return, Claimed, Waiting
  <2> QED BY <2>2, <2>7
<1> QED BY <1>5, <1>6

(* Every step of the sub-queue is a step of Fifo or none of its business.  *)
LEMMA FifoStep ==
  ASSUME MInv, MInv', Claims, Claims', RestOK, [QueueNext]_allVars
  PROVE  RestOK' /\ [F!Next]_(F!vars)
<1> PICK o, lo, home, dead : MemoryInv(o, lo, home, dead) /\ SlotsOK(home)
  BY DEF MInv
<1>1. HeadOK /\ ConsumersOK /\ ProducerOK
  BY ClaimsHead DEF MemoryInv
<1>2. CASE ProducerStep
  <2>1. ProducerOK'
    BY DEF MInv, MemoryInv
  <2>2. RestOK' /\ (F!Put \/ UNCHANGED F!vars)
    BY <1>1, <1>2, <2>1, ProducerPuts
  <2> QED BY <2>2 DEF F!Next
<1>3. ASSUME NEW c \in Consumer, ConsumerStep(c) PROVE RestOK' /\ [F!Next]_(F!vars)
  <2>1. CASE TakeIndex(c)
    <3>1. RestOK' /\ F!Claim(c)
      BY <1>1, <2>1, TakeIndexClaims
    <3> QED BY <3>1 DEF F!Next
  <2>2. CASE Move(c)
    <3>1. RestOK' /\ F!Receive(c)
      BY <1>1, <2>2, MoveReceives
    <3> QED BY <3>1 DEF F!Next
  <2>3. CASE SetEmpty(c)
    <3>1. RestOK' /\ (F!Return(c) \/ FifoSame)
      BY <1>1, <2>3, GoOnFifo
    <3> QED BY <3>1, FifoSameStutters DEF F!Next
  <2>4. CASE ClaimStep(c) \/ Loads(c)
    <3>1. RestOK' /\ FifoSame
      BY <1>1, <2>4, WalkFifo
    <3> QED BY <3>1, FifoSameStutters
  <2> QED BY <1>3, <2>1, <2>2, <2>3, <2>4 DEF ConsumerStep, Loads
<1>4. CASE UNCHANGED allVars
  <2>1. /\ at' = at /\ index' = index /\ end' = end /\ item' = item /\ thrown' = thrown
        /\ headIndex' = headIndex /\ tailIndex' = tailIndex /\ past' = past
    BY <1>4 DEF allVars, vars, counters, memory, locals, ring
  <2>2. RestOK'
    BY <2>1 DEF RestOK
  <2>3. Claimed' = Claimed
    BY <2>1 DEF Claimed, Unfetched, EndIndex, Idx
  <2> QED BY <2>1, <2>2, <2>3, FifoSameStutters DEF FifoSame, Waiting
<1> QED BY <1>2, <1>3, <1>4 DEF QueueNext

LEMMA RestHolds == QueueSpec /\ PartialBulk = FALSE => []RestOK
<1>1. QueueInit => RestOK
  BY FifoInit
<1>2. MInv /\ MInv' /\ Claims /\ Claims' /\ RestOK /\ [QueueNext]_allVars => RestOK'
  BY FifoStep
<1> QED BY <1>1, <1>2, MemoryHolds, PTL DEF QueueSpec

(* The sub-queue of a token, with its ring of blocks, its block index that *)
(* is circular and grows, and its consumers that look for their elements   *)
(* at their own pace, is a first-in first-out queue: each element is       *)
(* claimed once and in order, what is moved out of memory is that very     *)
(* element, and the elements of an enqueue_bulk appear together.           *)
THEOREM IsFifo == QueueSpec /\ PartialBulk = FALSE => ImplementsFifo
<1>1. QueueInit => F!Init
  BY FifoInit
<1>2. MInv /\ MInv' /\ Claims /\ Claims' /\ RestOK /\ [QueueNext]_allVars => [F!Next]_(F!vars)
  BY FifoStep
<1> QED BY <1>1, <1>2, MemoryHolds, RestHolds, PTL DEF QueueSpec, ImplementsFifo, F!Spec

-----------------------------------------------------------------------------
(* Where a consumer that starts now finds a published element.             *)
LEMMA FindsHome ==
  ASSUME HeadOK, NEW o, NEW lo, NEW home, NEW dead, MemoryInv(o, lo, home, dead),
         NEW n \in Nat, n < tailIndex, lo <= BlockNo(n)
  PROVE  Finds(n) = home[BlockNo(n)]
<1>1. /\ PastOK /\ ProducerOK /\ IndexOK(o, lo, home) /\ RingOK(lo, home, dead) /\ HeadersType(o)
  BY DEF MemoryInv, IndexOK
<1>2. /\ Cur \in Int /\ Written \in Int /\ Cur <= Written /\ tailIndex \in Nat /\ Newest \in Nat
      /\ (tailIndex > 0 => Newest > 0 /\ headers[Newest].front # -1)
  BY <1>1, MemoryFacts
<1>3. Newest > 0 /\ headers[Newest].front # -1
  BY <1>2
<1>4. PICK g \in 1..Newest : g = Newest
  BY <1>2, <1>3
<1>5. blockIndex = headers[g] /\ headers[g].size = Capacity[g] /\ Capacity[g] \in Nat /\ Capacity[g] > 0
      /\ Keys % Capacity[g] = 0 /\ o[g] \in Int
  BY <1>1, <1>3, <1>4, SizeFacts, HeaderAt
<1>6. PICK f : f = headers[g].front
  OBVIOUS
<1>7. AlignedAt(o, g, f)
  BY <1>1, <1>3, <1>4, <1>6 DEF IndexOK
<1>8. PICK k \in Int : k = BlockNo(n)
  BY BlockNoFacts
<1>9. lo <= k /\ k <= Written
  <2>1. n <= tailIndex - 1 /\ n \in Int /\ tailIndex - 1 \in Int
    BY <1>2
  <2>2. k <= Cur
    BY <1>8, <2>1, BlockNoFacts DEF Cur
  <2> QED BY <1>2, <1>8, <2>2
<1>10. EntryOf(headers[g], f, n) = Ring(o[g], Capacity[g], k)
  <2>1. PICK a \in Int : f = Ring(o[g], Capacity[g], a) /\ headers[g].entries[f].base = Key(a)
    BY <1>7 DEF AlignedAt
  <2>2. BlockBase(Idx(n)) = Key(k)
    BY <1>1, <1>8, KeyFacts
  <2>3. PICK m \in Nat : m = Capacity[g]
    BY <1>5
  <2>4. PICK b \in Int : b = o[g]
    BY <1>5
  <2>5. m > 0 /\ Keys % m = 0
    BY <1>5, <2>3
  <2>6. (Ring(b, m, a) + Offset(Key(k), Key(a))) % m = Ring(b, m, k)
    BY <1>1, <2>5, RingOffset
  <2> QED BY <1>5, <2>1, <2>2, <2>3, <2>4, <2>6 DEF EntryOf
<1>11. Entry(o, g, k).block = home[k]
  BY <1>1, <1>4, <1>9 DEF IndexOK
<1>12. Finds(n) = headers[g].entries[EntryOf(headers[g], f, n)].block
  BY <1>5, <1>6 DEF Finds
<1> QED BY <1>8, <1>10, <1>11, <1>12 DEF Entry

(* Whatever blocks are used again and whichever index has been replaced,   *)
(* the element that a consumer has claimed or may claim is found, in the   *)
(* index that is the newest now, and is in its slot: "conceptually removing*)
(* the last block" at concurrentqueue.h:1796 removes none that is needed.  *)
THEOREM EachFound == QueueSpec /\ PartialBulk = FALSE => []EachIsFound
<1>1. ASSUME MInv, Claims, RestOK PROVE EachIsFound
  <2>1. PICK o, lo, home, dead : MemoryInv(o, lo, home, dead) /\ SlotsOK(home)
    BY <1>1 DEF MInv
  <2>2. HeadOK /\ headIndex \in Nat /\ tailIndex \in Nat /\ headIndex <= tailIndex
    BY <1>1, ClaimsHead DEF HeadOK
  <2>3. PastOK /\ tailIndex <= Made /\ Made \in Nat
    BY <2>1, <2>2, MadeFacts DEF MemoryInv
  <2>4. ASSUME NEW n \in headIndex..(tailIndex - 1) PROVE n \in Present /\ n < tailIndex
    <3>1. n \in Nat /\ n < Made /\ headIndex <= n /\ n < tailIndex
      BY <2>2, <2>3
    <3> QED BY <3>1 DEF Present
  <2>5. ASSUME NEW c \in Consumer, NEW n \in Unfetched(c)..(end[c] - 1) PROVE n \in Present /\ n < tailIndex
    <3>1. at[c] # "none"
      <4> SUFFICES ASSUME at[c] = "none" PROVE FALSE
        OBVIOUS
      <4>1. index[c] = 0 /\ end[c] = 0
        BY <1>1 DEF RestOK
      <4>2. Unfetched(c) = 0
        BY <4>1 DEF Unfetched
      <4> QED BY <4>1, <4>2
    <3>2. /\ index[c] \in Nat /\ EndIndex(c) \in Nat /\ end[c] \in Nat /\ end[c] <= headIndex
      BY <2>1, <2>2, <3>1, HereFacts
    <3>3. Unfetched(c) \in Nat
      BY <3>2 DEF Unfetched
    <3>4. n \in Nat /\ Unfetched(c) <= n /\ n < end[c] /\ n < headIndex
      <4>1. PICK u \in Nat, e \in Nat : u = Unfetched(c) /\ e = end[c]
        BY <3>2, <3>3
      <4>2. n \in u..(e - 1) /\ e <= headIndex
        BY <2>5, <3>2, <4>1
      <4>3. n \in Nat /\ u <= n /\ n < e /\ n < headIndex
        BY <2>2, <4>2
      <4> QED BY <4>1, <4>3
    <3>5. n < Made /\ n < tailIndex
      BY <2>2, <2>3, <3>4
    <3>6. Unmoved(c, n)
      BY <3>1, <3>4 DEF Unmoved
    <3> QED BY <3>4, <3>5, <3>6 DEF Present
  <2>6. ASSUME NEW n, n \in Present, n < tailIndex
        PROVE  Finds(n) # Null /\ slots[Finds(n)][Slot(Idx(n))] = n + 1
    <3>1. n \in Nat /\ BlockNo(n) \in lo..Top /\ home[BlockNo(n)] \in Block
      BY <2>1, <2>2, <2>6, PresentLive
    <3>2. lo <= BlockNo(n)
      BY <3>1
    <3>3. Finds(n) = home[BlockNo(n)]
      BY <2>1, <2>2, <2>6, <3>1, <3>2, FindsHome
    <3>4. Finds(n) # Null
      BY <3>1, <3>3, RingAssumption
    <3>5. Slot(Idx(n)) \in Slots
      BY <2>3, <3>1, SlotFacts DEF Slots
    <3>6. slots[home[BlockNo(n)]][Slot(Idx(n))] = n + 1
      BY <2>1, <2>6, <3>1, <3>5 DEF SlotsOK
    <3> QED BY <3>3, <3>4, <3>6
  <2>7. ASSUME NEW n \in headIndex..(tailIndex - 1)
                       \cup UNION {Unfetched(c)..(end[c] - 1) : c \in Consumer}
        PROVE  Finds(n) # Null /\ slots[Finds(n)][Slot(Idx(n))] = n + 1
    <3>1. n \in Present /\ n < tailIndex
      BY <2>4, <2>5
    <3> QED BY <2>6, <3>1
  <2> QED BY <2>7 DEF EachIsFound
<1> QED BY <1>1, MemoryHolds, RestHolds, PTL

LEMMA PastStays == QueueSpec => [](past \in Pasts)
<1>1. QueueInit => past \in Pasts
  BY DEF QueueInit, MemoryInit
<1>2. past \in Pasts /\ [QueueNext]_allVars => (past \in Pasts)'
  <2> SUFFICES ASSUME past \in Pasts, [QueueNext]_allVars PROVE past' = past
    OBVIOUS
  <2>1. CASE ProducerStep
    BY <2>1 DEF ProducerStep, EnqueueInBlock, Publish, BulkPublish, ReuseBlock, NeedBlock, GrowIndex, Requisition,
           Construct, StoreEntry, StoreFront, StartBulk, BulkReuse, BulkNoReuse, BulkGrow, BulkRequisition,
           BulkFail, BulkReset, BulkConstruct, BulkThrow, BulkStoreFront, BulkUndo, ring
  <2>2. ASSUME NEW c \in Consumer, ConsumerStep(c) PROVE past' = past
    BY <2>2 DEF ConsumerStep, ClaimStep, TakeIndex, LoadHeader, LoadFront, LoadBase, LoadBlock, Move, SetEmpty,
           memory, producer, ring
  <2>3. CASE UNCHANGED allVars
    BY <2>3 DEF allVars, memory, ring
  <2> QED BY <2>1, <2>2, <2>3 DEF QueueNext
<1> QED BY <1>1, <1>2, PTL DEF QueueSpec

(* Every variable of the sub-queue of a token has its type: no counter,    *)
(* slot or place in the circular index is ever outside its range.          *)
THEOREM QueueTypeCorrect == QueueSpec /\ PartialBulk = FALSE => []QueueTypeOK
<1>1. ASSUME MInv, Claims, RestOK, RingInv, past \in Pasts PROVE QueueTypeOK
  <2>1. PICK o, lo, home, dead : MemoryInv(o, lo, home, dead) /\ SlotsOK(home)
    BY <1>1 DEF MInv
  <2>2. HeadOK /\ headIndex \in Nat /\ tailIndex \in Nat /\ headIndex <= tailIndex /\ TypeOK
    BY <1>1, ClaimsHead DEF HeadOK, Claims
  <2>3. /\ ProducerOK /\ IndexOK(o, lo, home) /\ HeadersType(o) /\ ConsumersOK
        /\ emptyFlags \in [Block -> SUBSET Slots]
    BY <2>1 DEF MemoryInv, IndexOK, FlagsOK
  <2>4. MaxTail \in Nat /\ tailIndex <= MaxTail /\ Made \in Nat /\ Made <= MaxTail
    BY <2>1, <2>2, <2>3, MadeFacts, BoundAssumption DEF ProducerOK
  <2>5. slots \in [Block -> [Slots -> 0..MaxTail]]
    <3>1. slots \in [Block -> [Slots -> Nat]]
      BY <2>1 DEF SlotsOK
    <3>2. ASSUME NEW b \in Block, NEW i \in Slots PROVE slots[b][i] \in 0..MaxTail
      <4>1. PICK v \in Nat : v = slots[b][i]
        BY <3>1
      <4>2. ASSUME v # 0 PROVE v <= MaxTail
        <5>1. PICK m \in Nat : v = m + 1
          <6>1. v - 1 \in Nat /\ v = (v - 1) + 1
            BY <4>2
          <6> QED BY <6>1
        <5>2. m \in Present
          <6>1. slots[b][i] = m + 1
            BY <4>1, <5>1
          <6>2. slots[b][i] = m + 1 => m \in Present
            BY <2>1 DEF SlotsOK
          <6> QED BY <6>1, <6>2
        <5>3. m < Made
          BY <5>2 DEF Present
        <5> QED BY <2>4, <5>1, <5>3
      <4> QED BY <2>4, <4>1, <4>2
    <3>3. \A b \in Block : slots[b] \in [Slots -> 0..MaxTail]
      BY <3>1, <3>2
    <3> QED BY <3>1, <3>3
  <2>6. ASSUME NEW h \in ToSet(headers)
        PROVE  /\ h.front \in -1..(h.size - 1)
               /\ h.entries \in [0..(h.size - 1) -> [base : 0..(IndexMod - 1), block : Block \cup {Null}]]
    <3>1. PICK g \in 1..Newest : h = headers[g]
      BY <2>3 DEF ToSet, HeadersType, Newest
    <3> QED BY <2>3, <3>1 DEF HeadersType
  <2>7. slotsUsed \in 0..size /\ front \in 0..size
    <3>1. /\ Newest = 0 => slotsUsed = 0 /\ front = 0
          /\ Newest > 0 => slotsUsed <= size /\ front = Ring(o[Newest], size, AtFront) /\ o[Newest] \in Int
          /\ size \in Nat /\ size > 0 /\ Newest \in Nat
      BY <2>3, IndexFacts
    <3>2. slotsUsed \in Nat /\ AtFront \in Int
      BY <2>1, <2>2, <2>3, MemoryFacts DEF MemoryInv
    <3>3. CASE Newest = 0
      BY <3>1, <3>3
    <3>4. CASE Newest > 0
      <4>1. PICK m \in Nat : m = size
        BY <3>1
      <4>2. PICK b \in Int : b = o[Newest]
        BY <3>1, <3>4
      <4>3. front \in 0..(m - 1)
        BY <3>1, <3>2, <3>4, <4>1, <4>2, RingType
      <4> QED BY <3>1, <3>2, <3>4, <4>1, <4>3
    <3> QED BY <3>1, <3>3, <3>4
  <2>8. ASSUME NEW c \in Consumer PROVE index[c] \in 0..MaxTail /\ end[c] \in 0..MaxTail
    <3>1. CASE at[c] = "none"
      BY <1>1, <2>4, <3>1 DEF RestOK
    <3>2. CASE at[c] # "none"
      <4>1. index[c] \in Nat /\ end[c] \in Nat /\ index[c] < end[c] /\ end[c] <= headIndex
        BY <2>3, <3>2 DEF ConsumersOK
      <4> QED BY <2>2, <2>4, <4>1
    <3> QED BY <3>1, <3>2
  <2>9. index \in [Consumer -> 0..MaxTail] /\ end \in [Consumer -> 0..MaxTail]
    BY <2>3, <2>8 DEF ConsumersOK
  <2>10. ASSUME NEW c \in Consumer PROVE item[c] \in Seq(0..MaxTail)
    <3>1. item[c] \in Seq(1..MaxTail)
      BY <1>1 DEF RestOK
    <3>2. 1..MaxTail \subseteq 0..MaxTail
      BY <2>4
    <3> QED BY <3>1, <3>2, SeqMonotonic
  <2>11. /\ at \in [Consumer -> {"none", "header", "front", "base", "block", "move", "setEmpty"}]
         /\ block \in [Consumer -> Block \cup {Null}] /\ thrown \in [Consumer -> BOOLEAN]
    BY <2>3 DEF ConsumersOK, Labels
  <2>12. /\ tailBlock \in Block \cup {Null} /\ pool \subseteq Block
         /\ next \in [Block -> Block \cup {Null}]
    BY <1>1 DEF RingInv, Owned
  <2> QED BY <1>1, <2>2, <2>3, <2>5, <2>6, <2>7, <2>9, <2>10, <2>11, <2>12 DEF QueueTypeOK
<1> QED BY <1>1, MemoryHolds, RestHolds, RingHolds, PastStays, PTL
=============================================================================
