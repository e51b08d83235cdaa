------------------------------ MODULE FreeList ------------------------------
(***************************************************************************)
(* Where blocks come from, requisition_block of concurrentqueue.h: first   *)
(* the initial pool, an array whose blocks are handed out once, in order;  *)
(* then the lock-free FreeList<Block>, a stack whose nodes carry a         *)
(* reference count and, in the top bit of the same word, the flag          *)
(* SHOULD_BE_ON_FREELIST.                                                  *)
(*                                                                         *)
(* Any thread returns blocks it emptied (add) and takes blocks it needs    *)
(* (requisition_block, try_get).  One action is one atomic access, but for *)
(* attempts at the pool that failed: its index never decreases, so they    *)
(* are one with the access that follows.  Accesses are sequentially        *)
(* consistent.                                                             *)
(***************************************************************************)
EXTENDS Integers, FiniteSets, Sequences, SequencesExt

CONSTANTS Thread,
          Node,          \* the blocks
          InitialPool,   \* initialBlockPool: the blocks, in the order of the array
          Null,          \* nullptr
          SHOULD_BE_ON_FREELIST    \* the flag's bit: 2^31, or any power of two that
                                   \* the counts stay below
ASSUME NullAssumption == Null \notin Node \cup Thread
ASSUME PoolAssumption == /\ InitialPool \in Seq(Node)
                         /\ IsInjective(InitialPool) /\ ToSet(InitialPool) = Node
ASSUME FlagAssumption == /\ IsFiniteSet(Thread) /\ SHOULD_BE_ON_FREELIST \in Nat
                         /\ SHOULD_BE_ON_FREELIST > Cardinality(Thread) + 1

VARIABLES
  poolIndex,       \* initialBlockPoolIndex
  freeListHead,
  freeListRefs,    \* freeListRefs[n]: count, plus the flag
  freeListNext,
  owner,           \* owner[n]: the thread that has the block, or Null when it is free
  pc,              \* where each thread is
  head,            \* head[t]: the local of try_get; Null inside add
  node,            \* node[t]: prevHead, or the node being added
  refs,            \* refs[t]: the local of try_get
  next             \* next[t]: the local of try_get, or head of add_knowing_...

shared == <<freeListHead, freeListRefs, freeListNext, owner>>
locals == <<head, node, refs, next>>
vars   == <<poolIndex, shared, pc, locals>>

Init ==
  /\ poolIndex = 0 /\ freeListHead = Null
  /\ freeListRefs = [n \in Node |-> 0]
  /\ freeListNext = [n \in Node |-> Null]
  /\ owner = [n \in Node |-> Null]
  /\ pc = [t \in Thread |-> "idle"]
  /\ head = [t \in Thread |-> Null] /\ node = [t \in Thread |-> Null]
  /\ refs = [t \in Thread |-> 0]    /\ next = [t \in Thread |-> Null]

Wrap(x)   == x % (2 * SHOULD_BE_ON_FREELIST)                \* uint32_t
FetchAdd(n, x) == freeListRefs' = [freeListRefs EXCEPT ![n] = Wrap(@ + x)]

Goto(t, l) == pc' = [pc EXCEPT ![t] = l]

(* The loop condition of try_get with h as its head.  After a call from    *)
(* add there is no loop to go back to: h is Null, and the call returns.    *)
Loop(t, h) ==
  /\ head' = [head EXCEPT ![t] = h]
  /\ Goto(t, IF h = Null THEN "idle" ELSE "refs")
  /\ node' = [node EXCEPT ![t] = Null]
  /\ refs' = [refs EXCEPT ![t] = 0]
  /\ next' = [next EXCEPT ![t] = Null]

-----------------------------------------------------------------------------
(* requisition_block: try_get_block_from_initial_pool, *)
TryPool(t) ==
  /\ pc[t] = "idle" /\ poolIndex < Len(InitialPool)
  /\ Goto(t, "pool")
  /\ UNCHANGED <<poolIndex, shared, locals>>

TakeFromPool_NotAtomic(t) ==          \* mutant: takes the index that was tested, maybe old
  /\ pc[t] = "pool"
  /\ \E i \in 1..Len(InitialPool) :
       /\ i <= poolIndex + 1
       /\ poolIndex' = i
       /\ owner' = [owner EXCEPT ![InitialPool[i]] = t]
  /\ Goto(t, "idle")
  /\ UNCHANGED <<freeListHead, freeListRefs, freeListNext, locals>>

(* Others may have taken the last block since.  How far the index runs     *)
(* past the end makes no difference, and is not told apart.                *)
TakeFromPool(t) ==
  /\ pc[t] = "pool"
  /\ IF poolIndex < Len(InitialPool)
     THEN /\ poolIndex' = poolIndex + 1
          /\ owner' = [owner EXCEPT ![InitialPool[poolIndex + 1]] = t]
          /\ Goto(t, "idle")
          /\ UNCHANGED <<freeListHead, freeListRefs, freeListNext, locals>>
     ELSE Loop(t, freeListHead) /\ UNCHANGED <<poolIndex, shared>>

(* then try_get.  (When that finds nothing a block may be allocated.)      *)
TryGet(t) ==
  /\ pc[t] = "idle" /\ poolIndex >= Len(InitialPool)
  /\ Loop(t, freeListHead)
  /\ UNCHANGED <<poolIndex, shared>>

LoadRefs(t) ==
  /\ pc[t] = "refs"
  /\ refs' = [refs EXCEPT ![t] = freeListRefs[head[t]]]
  /\ Goto(t, "ref")
  /\ UNCHANGED <<poolIndex, shared, head, node, next>>

TakeRef_NoZeroTest(t) ==              \* mutant: a count of zero is not refused
  /\ pc[t] = "ref"
  /\ IF freeListRefs[head[t]] # refs[t]
     THEN Loop(t, freeListHead) /\ UNCHANGED shared
     ELSE /\ FetchAdd(head[t], 1)
          /\ Goto(t, "next")
          /\ UNCHANGED <<freeListHead, freeListNext, owner, locals>>
  /\ UNCHANGED poolIndex

(* A reference count of zero, or one that changed: start again.            *)
TakeRef(t) ==
  /\ pc[t] = "ref"
  /\ IF refs[t] % SHOULD_BE_ON_FREELIST = 0 \/ freeListRefs[head[t]] # refs[t]
     THEN Loop(t, freeListHead) /\ UNCHANGED shared
     ELSE /\ FetchAdd(head[t], 1)
          /\ Goto(t, "next")
          /\ UNCHANGED <<freeListHead, freeListNext, owner, locals>>
  /\ UNCHANGED poolIndex

LoadNext(t) ==
  /\ pc[t] = "next"
  /\ next' = [next EXCEPT ![t] = freeListNext[head[t]]]
  /\ Goto(t, "pop")
  /\ UNCHANGED <<poolIndex, shared, head, node, refs>>

(* The compare-and-swap on the list's head; a failed one loads it.         *)
Pop(t) ==
  /\ pc[t] = "pop"
  /\ node' = [node EXCEPT ![t] = head[t]]
  /\ IF freeListHead = head[t]
     THEN /\ freeListHead' = next[t]
          /\ Goto(t, "won")
          /\ UNCHANGED head
     ELSE /\ head' = [head EXCEPT ![t] = freeListHead]
          /\ Goto(t, "unref")
          /\ UNCHANGED freeListHead
  /\ UNCHANGED <<poolIndex, freeListRefs, freeListNext, owner, refs, next>>

(* Drop our reference and the list's, and return the node.                 *)
Won(t) ==
  /\ pc[t] = "won"
  /\ FetchAdd(node[t], -2)
  /\ owner' = [owner EXCEPT ![node[t]] = t]
  /\ Loop(t, Null)
  /\ UNCHANGED <<poolIndex, freeListHead, freeListNext>>

Unref_NeverAdds(t) ==                 \* mutant: the last reference is just dropped
  /\ pc[t] = "unref"
  /\ FetchAdd(node[t], -1)
  /\ Loop(t, head[t])
  /\ UNCHANGED <<poolIndex, freeListHead, freeListNext, owner>>

(* Drop the reference; the last one to do so adds a node that should be on *)
(* the list.                                                               *)
Unref(t) ==
  /\ pc[t] = "unref"
  /\ FetchAdd(node[t], -1)
  /\ IF freeListRefs[node[t]] = SHOULD_BE_ON_FREELIST + 1
     THEN Goto(t, "addHead") /\ UNCHANGED locals
     ELSE Loop(t, head[t])
  /\ UNCHANGED <<poolIndex, freeListHead, freeListNext, owner>>

-----------------------------------------------------------------------------
(* add, by the thread that has the block *)
Add(t, n) ==
  /\ pc[t] = "idle" /\ owner[n] = t
  /\ owner' = [owner EXCEPT ![n] = Null]
  /\ FetchAdd(n, SHOULD_BE_ON_FREELIST)
  /\ IF freeListRefs[n] = 0
     THEN Goto(t, "addHead") /\ node' = [node EXCEPT ![t] = n]
     ELSE UNCHANGED <<pc, node>>
  /\ UNCHANGED <<poolIndex, freeListHead, freeListNext, head, refs, next>>

(* add_knowing_refcount_is_zero *)
AddLoadHead(t) ==
  /\ pc[t] = "addHead"
  /\ next' = [next EXCEPT ![t] = freeListHead]
  /\ Goto(t, "addNext")
  /\ UNCHANGED <<poolIndex, shared, head, node, refs>>

AddStoreNext(t) ==
  /\ pc[t] = "addNext"
  /\ freeListNext' = [freeListNext EXCEPT ![node[t]] = next[t]]
  /\ Goto(t, "addRefs")
  /\ UNCHANGED <<poolIndex, freeListHead, freeListRefs, owner, locals>>

AddStoreRefs(t) ==
  /\ pc[t] = "addRefs"
  /\ freeListRefs' = [freeListRefs EXCEPT ![node[t]] = 1]
  /\ Goto(t, "push")
  /\ UNCHANGED <<poolIndex, freeListHead, freeListNext, owner, locals>>

Push_HeadNotReloaded(t) ==            \* mutant: a failed exchange leaves head alone
  /\ pc[t] = "push"
  /\ IF freeListHead = next[t]
     THEN /\ freeListHead' = node[t]
          /\ Loop(t, head[t])
     ELSE /\ Goto(t, "addFailed")
          /\ UNCHANGED <<freeListHead, locals>>
  /\ UNCHANGED <<poolIndex, freeListRefs, freeListNext, owner>>

Push(t) ==
  /\ pc[t] = "push"
  /\ IF freeListHead = next[t]
     THEN /\ freeListHead' = node[t]
          /\ Loop(t, head[t])
     ELSE /\ next' = [next EXCEPT ![t] = freeListHead]
          /\ Goto(t, "addFailed")
          /\ UNCHANGED <<freeListHead, head, node, refs>>
  /\ UNCHANGED <<poolIndex, freeListRefs, freeListNext, owner>>

AddFailed_AlwaysRetries(t) ==         \* mutant: as if nobody else could hold a reference
  /\ pc[t] = "addFailed"
  /\ FetchAdd(node[t], SHOULD_BE_ON_FREELIST - 1)
  /\ Goto(t, "addNext")
  /\ UNCHANGED <<poolIndex, freeListHead, freeListNext, owner, locals>>

(* The push failed: set the flag again and give up the list's reference.   *)
(* With no other reference left, try again; else leave it to the last.     *)
AddFailed(t) ==
  /\ pc[t] = "addFailed"
  /\ FetchAdd(node[t], SHOULD_BE_ON_FREELIST - 1)
  /\ IF freeListRefs[node[t]] = 1
     THEN Goto(t, "addNext") /\ UNCHANGED locals
     ELSE Loop(t, head[t])
  /\ UNCHANGED <<poolIndex, freeListHead, freeListNext, owner>>

-----------------------------------------------------------------------------
Step(t) == \/ TryPool(t) \/ TakeFromPool(t)
           \/ TryGet(t) \/ LoadRefs(t) \/ TakeRef(t) \/ LoadNext(t) \/ Pop(t) \/ Won(t)
           \/ Unref(t) \/ \E n \in Node : Add(t, n)
           \/ AddLoadHead(t) \/ AddStoreNext(t) \/ AddStoreRefs(t) \/ Push(t) \/ AddFailed(t)

Next == \E t \in Thread : Step(t)

Spec == Init /\ [][Next]_vars

-----------------------------------------------------------------------------
(* The count in the low bits stays below the flag: there is a reference    *)
(* for the list and at most one for each thread.                           *)
TypeOK ==
  /\ poolIndex \in 0..Len(InitialPool)
  /\ freeListHead \in Node \cup {Null}
  /\ freeListRefs \in [Node -> 0..(2 * SHOULD_BE_ON_FREELIST - 1)]
  /\ \A n \in Node : freeListRefs[n] % SHOULD_BE_ON_FREELIST <= Cardinality(Thread) + 1
  /\ freeListNext \in [Node -> Node \cup {Null}]
  /\ owner \in [Node -> Thread \cup {Null}]
  /\ pc \in [Thread -> {"idle", "pool", "refs", "ref", "next", "pop", "won", "unref", "addHead",
                        "addNext", "addRefs", "push", "addFailed"}]
  /\ head \in [Thread -> Node \cup {Null}] /\ node \in [Thread -> Node \cup {Null}]
  /\ refs \in [Thread -> 0..(2 * SHOULD_BE_ON_FREELIST - 1)]
  /\ next \in [Thread -> Node \cup {Null}]

(* The nodes that can be reached from the list's head: those that are in   *)
(* every set that has the head and, with a node, the node's next.          *)
IsClosed(S) == /\ freeListHead \in Node => freeListHead \in S
               /\ \A n \in S : freeListNext[n] \in Node => freeListNext[n] \in S
OnList == {n \in Node : \A S \in SUBSET Node : IsClosed(S) => n \in S}

(* concurrentqueue.h:1403: with a reference held, the next pointer read is *)
(* still the node's when the compare-and-swap succeeds (no ABA).           *)
NextStable ==
  \A t \in Thread : pc[t] = "pop" /\ freeListHead = head[t] => next[t] = freeListNext[head[t]]

(* A block is in use, in what is left of the initial pool, on the list, or *)
(* on its way: never in two places.                                        *)
InPool == {InitialPool[i] : i \in (poolIndex + 1)..Len(InitialPool)}
Exclusive ==
  /\ \A n \in Node : owner[n] # Null => n \notin OnList \cup InPool
  /\ \A t, u \in Thread :
       pc[t] = "won" => /\ node[t] \notin OnList /\ owner[node[t]] = Null
                        /\ (u # t /\ pc[u] = "won" => node[u] # node[t])

(* When nobody is inside the free list, no block has been mislaid, and a   *)
(* block on the list has exactly the list's reference, any other none.     *)
NoneLost ==
  (\A t \in Thread : pc[t] = "idle") =>
     \A n \in Node : IF owner[n] # Null \/ n \in InPool THEN freeListRefs[n] = 0
                     ELSE n \in OnList /\ freeListRefs[n] = 1

(* concurrentqueue.h:1362: the list is lock-free.  However the steps of    *)
(* the threads are interleaved, and wherever some of them stop for good,   *)
(* endless steps finish endlessly many calls.                              *)
Completes == \E t \in Thread : (pc[t] # "idle" /\ pc'[t] = "idle")
                             \/ \E n \in Node : Add(t, n)
LockFree == []<><<Next>>_vars => []<><<Completes>>_vars

(* Initial pool and free list together implement the pool of free blocks.  *)
FP == INSTANCE FreePool WITH Pool <- Null, holder <- owner
Implements == FP!Spec
=============================================================================
