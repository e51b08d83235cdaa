-------------------------- MODULE FreeListProofs ---------------------------
(***************************************************************************)
(* Proofs about FreeList: the count of every node is exact, so that no     *)
(* block is in two places or lost, and the list together with the initial  *)
(* pool implements the pool of free blocks.                                *)
(***************************************************************************)
EXTENDS FreeList, FiniteSetTheorems, TLAPS

(* A thread that handles a node alone: it took the node off the list, or   *)
(* is putting it there.                                                    *)
Adding    == {"addHead", "addNext", "addRefs"}
Handling  == Adding \cup {"push", "addFailed", "won"}

(* The threads that hold a reference to n.                                 *)
Holds(t, n) == \/ pc[t] \in {"next", "pop"} /\ head[t] = n
               \/ pc[t] \in {"unref", "won"} /\ node[t] = n
Holders(n)  == {t \in Thread : Holds(t, n)}
Count(n)    == Cardinality(Holders(n))

HasNode ==
  \A t \in Thread : /\ pc[t] \in {"refs", "ref", "next", "pop"} => head[t] \in Node
                    /\ pc[t] \in Handling \cup {"unref"} => node[t] \in Node

(* Where a node may be: with its owner, in the pool, with the one thread   *)
(* that handles it, on the list.                                           *)
Places ==
  /\ \A n \in Node : owner[n] # Null => n \notin OnList \cup InPool
  /\ InPool \cap OnList = {}
  /\ \A t \in Thread : pc[t] \in Handling =>
       /\ owner[node[t]] = Null /\ node[t] \notin OnList \cup InPool
       /\ \A u \in Thread \ {t} : pc[u] \in Handling => node[u] # node[t]

(* The reference count of each node, place by place; a free node that is   *)
(* nowhere has the flag, and somebody has a reference.                     *)
Handled(n, L) == \E t \in Thread : pc[t] \in L /\ node[t] = n
RefExact(n) ==
  /\ owner[n] # Null => freeListRefs[n] = Count(n)
  /\ n \in InPool => freeListRefs[n] = 0 /\ Count(n) = 0
  /\ Handled(n, Adding) => freeListRefs[n] = SHOULD_BE_ON_FREELIST /\ Count(n) = 0
  /\ n \in OnList \/ Handled(n, Handling \ Adding) => freeListRefs[n] = 1 + Count(n)
  /\ (owner[n] = Null /\ n \notin InPool \cup OnList /\ ~Handled(n, Handling)) =>
       freeListRefs[n] = SHOULD_BE_ON_FREELIST + Count(n) /\ Count(n) # 0
RefsExact == \A n \in Node : RefExact(n)

(* The list has no cycle: nothing on it precedes the head, and no two      *)
(* nodes of it have the same next.                                         *)
Acyclic ==
  \A m \in OnList : freeListNext[m] # Null =>
    /\ freeListNext[m] # freeListHead
    /\ \A n \in OnList : freeListNext[n] = freeListNext[m] => n = m

(* What a thread has read of a next pointer, or stored in it, stays true   *)
(* while it holds a reference, or handles the node.                        *)
NextKept ==
  \A t \in Thread : /\ pc[t] = "pop" => next[t] = freeListNext[head[t]]
                    /\ pc[t] \in {"addRefs", "push"} => next[t] = freeListNext[node[t]]

LocalTypes ==
  /\ pc \in [Thread -> {"idle", "pool", "refs", "ref", "next", "pop", "won", "unref", "addHead",
                        "addNext", "addRefs", "push", "addFailed"}]
  /\ head \in [Thread -> Node \cup {Null}] /\ node \in [Thread -> Node \cup {Null}]
  /\ refs \in [Thread -> 0..(2 * SHOULD_BE_ON_FREELIST - 1)]
  /\ next \in [Thread -> Node \cup {Null}]

Types ==
  /\ poolIndex \in 0..Len(InitialPool)
  /\ freeListHead \in Node \cup {Null}
  /\ freeListRefs \in [Node -> 0..(2 * SHOULD_BE_ON_FREELIST - 1)]
  /\ freeListNext \in [Node -> Node \cup {Null}]
  /\ owner \in [Node -> Thread \cup {Null}]
  /\ LocalTypes

IInv == Types /\ HasNode /\ Places /\ RefsExact /\ Acyclic /\ NextKept

-----------------------------------------------------------------------------
(* The 32-bit count does not wrap, and the flag's bit does not touch it.   *)
LEMMA ModFacts ==
  /\ SHOULD_BE_ON_FREELIST \in Nat /\ SHOULD_BE_ON_FREELIST > 1
  /\ IsFiniteSet(Thread) /\ Cardinality(Thread) \in Nat
  /\ Cardinality(Thread) + 1 < SHOULD_BE_ON_FREELIST
  /\ \A x \in 0..(2 * SHOULD_BE_ON_FREELIST - 1) : Wrap(x) = x
  /\ \A x \in 0..(SHOULD_BE_ON_FREELIST - 1) :
       /\ x % SHOULD_BE_ON_FREELIST = x
       /\ (SHOULD_BE_ON_FREELIST + x) % SHOULD_BE_ON_FREELIST = x
<1> DEFINE F == SHOULD_BE_ON_FREELIST
<1>1. /\ F \in Nat /\ F > 1 /\ IsFiniteSet(Thread) /\ Cardinality(Thread) \in Nat
      /\ Cardinality(Thread) + 1 < F
  BY FlagAssumption, FS_CardinalityType
<1> HIDE DEF F
<1>2. ASSUME NEW m \in Nat, m > 0, NEW x \in 0..(m - 1)
      PROVE  x % m = x
  BY <1>2
<1>3. ASSUME NEW x \in 0..(F - 1)
      PROVE  (F + x) % F = x
  BY <1>1, <1>3
<1>4. ASSUME NEW x \in 0..(2 * F - 1)
      PROVE  Wrap(x) = x
  BY <1>1, <1>2, <1>4 DEF Wrap, F
<1>5. QED
  BY <1>1, <1>2, <1>3, <1>4 DEF F

(* The list is a closed set, the smallest one, before a step and after it. *)
OnListIsSmallest ==
  /\ OnList \in SUBSET Node /\ IsClosed(OnList)
  /\ \A S \in SUBSET Node : IsClosed(S) => OnList \subseteq S

LEMMA ListIsSmallest == OnListIsSmallest /\ OnListIsSmallest'
<1>1. OnListIsSmallest
  BY DEF OnListIsSmallest, OnList, IsClosed
<1>2. OnListIsSmallest'
  BY DEF OnListIsSmallest, OnList, IsClosed
<1>3. QED
  BY <1>1, <1>2

(* The next pointer of a node that is not on the list does not matter.     *)
LEMMA ListStore ==
  ASSUME Types, Acyclic, freeListHead' = freeListHead,
         NEW n \in Node \ OnList, NEW x \in Node \cup {Null},
         freeListNext' = [freeListNext EXCEPT ![n] = x]
  PROVE  OnList' = OnList /\ Acyclic'
<1>1. freeListNext \in [Node -> Node \cup {Null}] /\ OnListIsSmallest /\ OnListIsSmallest'
  BY ListIsSmallest DEF Types
<1>2. \A m \in OnList : freeListNext'[m] = freeListNext[m]
  BY <1>1 DEF OnListIsSmallest
<1>3. PICK S \in SUBSET Node : S = OnList
  BY <1>1 DEF OnListIsSmallest
<1>4. PICK T \in SUBSET Node : T = OnList'
  BY <1>1 DEF OnListIsSmallest
<1>5. T \subseteq S
  <2>1. IsClosed(S)'
    BY <1>1, <1>2, <1>3 DEF OnListIsSmallest, IsClosed
  <2>2. QED
    BY <1>1, <1>4, <2>1 DEF OnListIsSmallest
<1>6. S \subseteq T
  <2>1. IsClosed(T)
    BY <1>1, <1>2, <1>3, <1>4, <1>5 DEF OnListIsSmallest, IsClosed
  <2>2. QED
    BY <1>1, <1>3, <2>1 DEF OnListIsSmallest
<1>7. OnList' = OnList
  BY <1>3, <1>4, <1>5, <1>6
<1>8. QED
  BY <1>2, <1>7 DEF Acyclic

(* Taking the first node off leaves the others on the list.                *)
LEMMA ListPop ==
  ASSUME Types, Acyclic, freeListHead \in Node,
         freeListHead' = freeListNext[freeListHead], freeListNext' = freeListNext
  PROVE  OnList' = OnList \ {freeListHead} /\ freeListHead \in OnList /\ Acyclic'
<1>1. /\ freeListNext \in [Node -> Node \cup {Null}] /\ OnListIsSmallest /\ OnListIsSmallest'
      /\ Null \notin Node
  BY ListIsSmallest, NullAssumption DEF Types
<1>2. freeListHead \in OnList
  BY <1>1 DEF OnListIsSmallest, IsClosed
<1>3. PICK S \in SUBSET Node : S = OnList \ {freeListHead}
  BY <1>1 DEF OnListIsSmallest
<1>4. PICK T \in SUBSET Node : T = OnList'
  BY <1>1 DEF OnListIsSmallest
<1>5. T \subseteq S
  <2>1. IsClosed(S)'
    BY <1>1, <1>2, <1>3 DEF OnListIsSmallest, IsClosed, Acyclic
  <2>2. QED
    BY <1>1, <1>4, <2>1 DEF OnListIsSmallest
<1>6. S \subseteq T
  <2>1. IsClosed(T \cup {freeListHead})
    BY <1>1, <1>4 DEF OnListIsSmallest, IsClosed
  <2>2. QED
    BY <1>1, <1>3, <2>1 DEF OnListIsSmallest
<1>7. OnList' = OnList \ {freeListHead}
  BY <1>3, <1>4, <1>5, <1>6
<1>8. Acyclic'
  BY <1>1, <1>2, <1>7 DEF Acyclic
<1>9. QED
  BY <1>2, <1>7, <1>8

(* A node whose next is the head can become the head.                      *)
LEMMA ListPush ==
  ASSUME Types, Acyclic, NEW n \in Node \ OnList, freeListNext[n] = freeListHead,
         freeListHead' = n, freeListNext' = freeListNext
  PROVE  OnList' = OnList \cup {n} /\ Acyclic'
<1>1. /\ freeListNext \in [Node -> Node \cup {Null}] /\ OnListIsSmallest /\ OnListIsSmallest'
      /\ Null \notin Node
  BY ListIsSmallest, NullAssumption DEF Types
<1>2. PICK S \in SUBSET Node : S = OnList \cup {n}
  BY <1>1 DEF OnListIsSmallest
<1>3. PICK T \in SUBSET Node : T = OnList'
  BY <1>1 DEF OnListIsSmallest
<1>4. T \subseteq S
  <2>1. IsClosed(S)'
    BY <1>1, <1>2 DEF OnListIsSmallest, IsClosed
  <2>2. QED
    BY <1>1, <1>3, <2>1 DEF OnListIsSmallest
<1>5. S \subseteq T
  <2>1. n \in T /\ IsClosed(T)
    BY <1>1, <1>3 DEF OnListIsSmallest, IsClosed
  <2>2. QED
    BY <1>1, <1>2, <2>1 DEF OnListIsSmallest
<1>6. OnList' = OnList \cup {n}
  BY <1>2, <1>3, <1>4, <1>5
<1>7. Acyclic'
  BY <1>1, <1>6 DEF Acyclic, OnListIsSmallest, IsClosed
<1>8. QED
  BY <1>6, <1>7

(* The pool is a sequence without repetitions.                             *)
LEMMA PoolIsSeq ==
  /\ Len(InitialPool) \in Nat
  /\ \A i \in 1..Len(InitialPool) : InitialPool[i] \in Node
  /\ \A i, j \in 1..Len(InitialPool) : InitialPool[i] = InitialPool[j] => i = j
BY PoolAssumption DEF IsInjective, ToSet

-----------------------------------------------------------------------------
(* A step of t changes only the locals of t ...                            *)
Others(t) == \A u \in Thread \ {t} : pc'[u] = pc[u] /\ head'[u] = head[u]
                                    /\ node'[u] = node[u] /\ next'[u] = next[u]
LEMMA StepOthers ==
  ASSUME Types, NEW t \in Thread, Step(t)
  PROVE  Others(t)
<1>1. ASSUME Types PROVE /\ pc = [u \in Thread |-> pc[u]] /\ head = [u \in Thread |-> head[u]]
                         /\ node = [u \in Thread |-> node[u]] /\ next = [u \in Thread |-> next[u]]
  BY <1>1 DEF Types, LocalTypes
<1>2. QED
  BY <1>1 DEF Step, Others, TryPool, TakeFromPool, TryGet, LoadRefs, TakeRef, LoadNext, Pop, Won,
              Unref, Add, AddLoadHead, AddStoreNext, AddStoreRefs, Push, AddFailed, Loop, Goto,
              locals, FetchAdd

(* ... and so every count by what t holds before and after.                *)
One(b) == IF b THEN 1 ELSE 0
LEMMA CountChange ==
  ASSUME NEW t \in Thread, Others(t), NEW n
  PROVE  /\ Count(n) \in 0..Cardinality(Thread) /\ Count(n)' \in 0..Cardinality(Thread)
         /\ Count(n)' = Count(n) + One(Holds(t, n)') - One(Holds(t, n))
         /\ Holds(t, n) => Count(n) # 0
<1>1. /\ Holders(n) \subseteq Thread /\ Holders(n)' \subseteq Thread
      /\ Holders(n) \ {t} = Holders(n)' \ {t}
      /\ t \in Holders(n) <=> Holds(t, n)
      /\ t \in Holders(n)' <=> Holds(t, n)'
  BY DEF Holders, Holds, Others
<1>2. /\ IsFiniteSet(Holders(n)) /\ IsFiniteSet(Holders(n)')
      /\ Cardinality(Holders(n)) \in 0..Cardinality(Thread)
      /\ Cardinality(Holders(n)') \in 0..Cardinality(Thread)
  BY <1>1, ModFacts, FS_Subset, FS_CardinalityType
<1>3. ASSUME NEW S, IsFiniteSet(S)
      PROVE  Cardinality(S) = Cardinality(S \ {t}) + (IF t \in S THEN 1 ELSE 0)
  <2>1. Cardinality(S) \in Nat
    BY ONLY <1>3, FS_CardinalityType
  <2>2. Cardinality(S \ {t}) = IF t \in S THEN Cardinality(S) - 1 ELSE Cardinality(S)
    BY ONLY <1>3, FS_RemoveElement
  <2>3. QED
    BY <2>1, <2>2
<1>4. Holds(t, n) => Cardinality(Holders(n)) # 0
  BY <1>1, <1>2, FS_EmptySet
<1>5. /\ Cardinality(Holders(n)) = Cardinality(Holders(n) \ {t}) + One(Holds(t, n))
      /\ Cardinality(Holders(n)') = Cardinality(Holders(n) \ {t}) + One(Holds(t, n)')
  BY <1>1, <1>2, <1>3 DEF One
<1>6. Cardinality(Holders(n) \ {t}) \in Nat
  BY <1>2, FS_RemoveElement, FS_CardinalityType
<1>7. QED
  BY <1>1, <1>2, <1>4, <1>5, <1>6 DEF Count, One

LEMMA CountBound == \A n : Count(n) \in 0..Cardinality(Thread)
<1> SUFFICES ASSUME NEW n PROVE Count(n) \in 0..Cardinality(Thread)
  OBVIOUS
<1>1. Holders(n) \subseteq Thread
  BY DEF Holders
<1>2. QED
  BY <1>1, ModFacts, FS_Subset, FS_CardinalityType DEF Count

LEMMA HolderCounts ==
  ASSUME NEW t \in Thread, NEW n, Holds(t, n)
  PROVE  Count(n) # 0
<1>1. IsFiniteSet(Holders(n)) /\ t \in Holders(n)
  BY ModFacts, FS_Subset DEF Holders
<1>2. QED
  BY <1>1, FS_EmptySet DEF Count

(* What RefExact looks at in a node that a step does not touch.            *)
LEMMA RefExactSame ==
  ASSUME NEW n, RefExact(n), owner'[n] = owner[n], freeListRefs'[n] = freeListRefs[n],
         Count(n)' = Count(n), (n \in InPool)' <=> n \in InPool, (n \in OnList)' <=> n \in OnList,
         Handled(n, Adding)' <=> Handled(n, Adding),
         Handled(n, Handling \ Adding)' <=> Handled(n, Handling \ Adding)
  PROVE  RefExact(n)'
<1>1. /\ Handled(n, Handling)  <=> Handled(n, Adding)  \/ Handled(n, Handling \ Adding)
      /\ Handled(n, Handling)' <=> Handled(n, Adding)' \/ Handled(n, Handling \ Adding)'
  BY DEF Handled, Handling, Adding
<1>2. QED
  BY <1>1 DEF RefExact

(* The node a thread handles is handled in one way only.                   *)
LEMMA HandledOnce ==
  ASSUME Places, NEW t \in Thread, pc[t] \in Handling
  PROVE  /\ Handled(node[t], Adding) <=> pc[t] \in Adding
         /\ Handled(node[t], Handling \ Adding) <=> pc[t] \notin Adding
BY DEF Places, Handled, Handling, Adding

-----------------------------------------------------------------------------
LEMMA WrapType == \A x \in Int : Wrap(x) \in 0..(2 * SHOULD_BE_ON_FREELIST - 1)
<1>1. ASSUME NEW m \in Nat, m > 0, NEW x \in Int
      PROVE  x % m \in 0..(m - 1)
  BY <1>1
<1>2. 2 * SHOULD_BE_ON_FREELIST \in Nat /\ 2 * SHOULD_BE_ON_FREELIST > 0
  BY ModFacts
<1>3. QED
  BY <1>1, <1>2 DEF Wrap

LEMMA FetchAddType ==
  ASSUME Types, NEW n \in Node, NEW x \in Int, FetchAdd(n, x)
  PROVE  freeListRefs' \in [Node -> 0..(2 * SHOULD_BE_ON_FREELIST - 1)]
<1>1. freeListRefs \in [Node -> 0..(2 * SHOULD_BE_ON_FREELIST - 1)]
  BY DEF Types
<1>2. freeListRefs[n] \in Int
  BY <1>1, ModFacts
<1>3. Wrap(freeListRefs[n] + x) \in 0..(2 * SHOULD_BE_ON_FREELIST - 1)
  BY <1>2, WrapType
<1>4. QED
  BY <1>1, <1>3 DEF FetchAdd

LEMMA LoopTypes ==
  ASSUME LocalTypes, HasNode, NEW t \in Thread, NEW h \in Node \cup {Null}, Loop(t, h)
  PROVE  LocalTypes' /\ HasNode'
<1>1. 0 \in 0..(2 * SHOULD_BE_ON_FREELIST - 1)
  BY ModFacts
<1>2. LocalTypes'
  BY <1>1 DEF LocalTypes, Loop, Goto
<1>3. /\ pc'[t] = (IF h = Null THEN "idle" ELSE "refs") /\ head'[t] = h
      /\ \A u \in Thread \ {t} : pc'[u] = pc[u] /\ head'[u] = head[u] /\ node'[u] = node[u]
  BY DEF LocalTypes, Loop, Goto
<1>4. HasNode'
  BY <1>3 DEF HasNode, Handling, Adding
<1>5. QED
  BY <1>2, <1>4

LEMMA TypesStep ==
  ASSUME IInv, NEW t \in Thread, Step(t)
  PROVE  Types' /\ HasNode'
<1> USE DEF Types, LocalTypes, Goto
<1>0. Types /\ HasNode
  BY DEF IInv
<1>1. /\ 1 \in 0..(2 * SHOULD_BE_ON_FREELIST - 1) /\ SHOULD_BE_ON_FREELIST \in Int
      /\ 1 \in Int /\ -1 \in Int /\ -2 \in Int /\ SHOULD_BE_ON_FREELIST - 1 \in Int
  BY ModFacts
<1>2. /\ Len(InitialPool) \in Nat
      /\ \A i \in 1..Len(InitialPool) : InitialPool[i] \in Node
  BY PoolIsSeq
<1>3. CASE TryPool(t)
  BY <1>0, <1>3 DEF TryPool, HasNode, shared, locals, Handling, Adding
<1>4. CASE TakeFromPool(t)
  <2>1. CASE poolIndex < Len(InitialPool)
    <3>1. InitialPool[poolIndex + 1] \in Node /\ poolIndex + 1 \in 0..Len(InitialPool)
      BY <1>0, <1>2, <2>1
    <3>2. LocalTypes'
      BY <1>0, <1>4, <2>1 DEF TakeFromPool, locals
    <3>3. HasNode'
      BY <1>0, <1>4, <2>1 DEF TakeFromPool, HasNode, locals, Handling, Adding
    <3>4. QED
      BY <1>0, <1>4, <2>1, <3>1, <3>2, <3>3, ZenonT(60) DEF TakeFromPool
  <2>2. CASE ~(poolIndex < Len(InitialPool))
    BY <1>0, <1>4, <2>2, LoopTypes DEF TakeFromPool, shared
  <2>3. QED
    BY <2>1, <2>2
<1>5. CASE TryGet(t)
  BY <1>0, <1>5, LoopTypes DEF TryGet, shared
<1>6. CASE LoadRefs(t)
  BY <1>0, <1>6 DEF LoadRefs, HasNode, shared, Handling, Adding
<1>7. CASE TakeRef(t)
  <2>1. CASE Loop(t, freeListHead) /\ UNCHANGED shared
    BY <1>0, <1>7, <2>1, LoopTypes DEF TakeRef, shared
  <2>2. CASE ~(Loop(t, freeListHead) /\ UNCHANGED shared)
    <3>1. head[t] \in Node
      BY <1>0, <1>7 DEF TakeRef, HasNode
    <3>2. freeListRefs' \in [Node -> 0..(2 * SHOULD_BE_ON_FREELIST - 1)]
      BY <1>0, <1>1, <1>7, <2>2, <3>1, FetchAddType DEF TakeRef
    <3>3. QED
      BY <1>0, <1>7, <2>2, <3>1, <3>2 DEF TakeRef, HasNode, locals, Handling, Adding
  <2>3. QED
    BY <2>1, <2>2
<1>8. CASE LoadNext(t)
  BY <1>0, <1>8 DEF LoadNext, HasNode, shared, Handling, Adding
<1>9. CASE Pop(t)
  <2>1. Types'
    BY <1>0, <1>9 DEF Pop, HasNode
  <2>2. HasNode'
    BY <1>0, <1>9 DEF Pop, HasNode, Handling, Adding
  <2>3. QED
    BY <2>1, <2>2
<1>10. CASE Won(t)
  <2>1. LocalTypes' /\ HasNode'
    BY <1>0, <1>10, LoopTypes DEF Won
  <2>2. node[t] \in Node
    BY <1>0, <1>10 DEF Won, HasNode, Handling
  <2>3. freeListRefs' \in [Node -> 0..(2 * SHOULD_BE_ON_FREELIST - 1)]
    BY <1>0, <1>1, <1>10, <2>2, FetchAddType DEF Won
  <2>4. QED
    BY <1>0, <1>10, <2>1, <2>2, <2>3 DEF Won
<1>11. CASE Unref(t)
  <2>1. head[t] \in Node \cup {Null} /\ node[t] \in Node
    BY <1>0, <1>11 DEF Unref, HasNode
  <2>2. LocalTypes' /\ HasNode'
    <3>1. CASE Loop(t, head[t])
      BY <1>0, <2>1, <3>1, LoopTypes
    <3>2. CASE ~Loop(t, head[t])
      BY <1>0, <1>11, <2>1, <3>2 DEF Unref, HasNode, locals, Handling, Adding
    <3>3. QED
      BY <3>1, <3>2
  <2>3. QED
    BY <1>0, <1>1, <1>11, <2>1, <2>2, FetchAddType DEF Unref
<1>12. ASSUME NEW n \in Node, Add(t, n) PROVE Types' /\ HasNode'
  <2>1. freeListRefs' \in [Node -> 0..(2 * SHOULD_BE_ON_FREELIST - 1)]
    BY <1>0, <1>1, <1>12, FetchAddType DEF Add
  <2>2. LocalTypes'
    BY <1>0, <1>12, ZenonT(60) DEF Add
  <2>3. HasNode'
    <3>1. CASE pc' = [pc EXCEPT ![t] = "addHead"] /\ node' = [node EXCEPT ![t] = n]
      BY <1>0, <1>12, <3>1 DEF Add, HasNode, Handling, Adding
    <3>2. CASE UNCHANGED <<pc, node>>
      BY <1>0, <1>12, <3>2 DEF Add, HasNode, Handling, Adding
    <3>3. QED
      BY <1>12, <3>1, <3>2 DEF Add
  <2>4. QED
    BY <1>0, <1>12, <2>1, <2>2, <2>3 DEF Add
<1>13. CASE AddLoadHead(t)
  BY <1>0, <1>13 DEF AddLoadHead, HasNode, shared, Handling, Adding
<1>14. CASE AddStoreNext(t)
  BY <1>0, <1>14 DEF AddStoreNext, HasNode, locals, Handling, Adding
<1>15. CASE AddStoreRefs(t)
  BY <1>0, <1>1, <1>15 DEF AddStoreRefs, HasNode, locals, Handling, Adding
<1>16. CASE Push(t)
  <2>1. CASE Loop(t, head[t])
    <3>1. LocalTypes' /\ HasNode'
      BY <1>0, <2>1, LoopTypes
    <3>2. node[t] \in Node
      BY <1>0, <1>16 DEF Push, HasNode, Handling
    <3>3. QED
      BY <1>0, <1>16, <3>1, <3>2 DEF Push
  <2>2. CASE ~Loop(t, head[t])
    BY <1>0, <1>16, <2>2 DEF Push, HasNode, Handling, Adding
  <2>3. QED
    BY <2>1, <2>2
<1>17. CASE AddFailed(t)
  <2>1. head[t] \in Node \cup {Null} /\ node[t] \in Node
    BY <1>0, <1>17 DEF AddFailed, HasNode, Handling
  <2>2. LocalTypes' /\ HasNode'
    <3>1. CASE Loop(t, head[t])
      BY <1>0, <2>1, <3>1, LoopTypes
    <3>2. CASE ~Loop(t, head[t])
      BY <1>0, <1>17, <2>1, <3>2 DEF AddFailed, HasNode, locals, Handling, Adding
    <3>3. QED
      BY <3>1, <3>2
  <2>3. QED
    BY <1>0, <1>1, <1>17, <2>1, <2>2, FetchAddType DEF AddFailed
<1>18. QED
  BY <1>3, <1>4, <1>5, <1>6, <1>7, <1>8, <1>9, <1>10, <1>11, <1>12, <1>13, <1>14, <1>15, <1>16,
     <1>17 DEF Step

-----------------------------------------------------------------------------
Rest == Places /\ RefsExact /\ Acyclic /\ NextKept
Busy == Handling \cup {"next", "pop", "unref"}

(* A step between two places where t has neither a reference nor a node.   *)
LEMMA QuietKeeps ==
  ASSUME IInv, NEW t \in Thread, Others(t), UNCHANGED <<poolIndex, shared>>,
         pc[t] \notin Busy, pc'[t] \notin Busy
  PROVE  Rest'
<1>1. OnList' = OnList /\ InPool' = InPool
  BY DEF OnList, IsClosed, InPool, shared
<1>2. Places'
  BY <1>1 DEF IInv, Places, Others, shared, Busy
<1>3. RefsExact'
  <2> SUFFICES ASSUME NEW n \in Node PROVE RefExact(n)'
    BY DEF RefsExact
  <2>1. RefExact(n)
    BY DEF IInv, RefsExact
  <2>2. Count(n)' = Count(n)
    BY CountChange DEF Holds, One, Busy, Handling
  <2>3. /\ Handled(n, Adding)' <=> Handled(n, Adding)
        /\ Handled(n, Handling \ Adding)' <=> Handled(n, Handling \ Adding)
    BY DEF Handled, Others, Busy, Handling
  <2>4. QED
    BY <1>1, <2>1, <2>2, <2>3, RefExactSame DEF shared
<1>4. Acyclic'
  BY <1>1 DEF IInv, Acyclic, shared
<1>5. NextKept'
  BY DEF IInv, NextKept, Others, shared, Busy, Handling, Adding
<1>6. QED
  BY <1>2, <1>3, <1>4, <1>5 DEF Rest

(* The four steps that may go back to the loop without having a node.      *)
LEMMA LoopKeeps ==
  ASSUME IInv, NEW t \in Thread, Others(t), UNCHANGED <<poolIndex, shared>>,
         pc[t] \notin Busy, NEW h, Loop(t, h)
  PROVE  Rest'
<1>1. pc'[t] \notin Busy
  BY DEF Loop, Goto, IInv, Types, LocalTypes, Busy, Handling, Adding
<1>2. QED
  BY <1>1, QuietKeeps

LEMMA TryPoolKeeps ==
  ASSUME IInv, NEW t \in Thread, Others(t), TryPool(t)
  PROVE  Rest'
<1>1. pc[t] \notin Busy /\ pc'[t] \notin Busy
  BY DEF TryPool, Goto, IInv, Types, LocalTypes, Busy, Handling, Adding
<1>2. QED
  BY <1>1, QuietKeeps DEF TryPool

LEMMA TryGetKeeps ==
  ASSUME IInv, NEW t \in Thread, Others(t), TryGet(t)
  PROVE  Rest'
<1>1. pc[t] \notin Busy
  BY DEF TryGet, Busy, Handling, Adding
<1>2. QED
  BY <1>1, LoopKeeps DEF TryGet

LEMMA LoadRefsKeeps ==
  ASSUME IInv, NEW t \in Thread, Others(t), LoadRefs(t)
  PROVE  Rest'
<1>1. pc[t] \notin Busy /\ pc'[t] \notin Busy
  BY DEF LoadRefs, Goto, IInv, Types, LocalTypes, Busy, Handling, Adding
<1>2. QED
  BY <1>1, QuietKeeps DEF LoadRefs

(* A block of the pool is nobody's and has no count, until it is taken.    *)
LEMMA TakeFromPoolKeeps ==
  ASSUME IInv, NEW t \in Thread, Others(t), TakeFromPool(t)
  PROVE  Rest'
<1>1. pc[t] \notin Busy
  BY DEF TakeFromPool, Busy, Handling, Adding
<1>2. CASE ~(poolIndex < Len(InitialPool))
  BY <1>1, <1>2, LoopKeeps DEF TakeFromPool
<1>3. CASE poolIndex < Len(InitialPool)
  <2>0. PICK b \in Node : b = InitialPool[poolIndex + 1]
    BY <1>3, PoolIsSeq DEF IInv, Types
  <2>1. /\ b \in Node /\ b \in InPool /\ InPool' = InPool \ {b}
    <3>1. poolIndex \in Nat /\ poolIndex' = poolIndex + 1 /\ Len(InitialPool) \in Nat
      BY <1>3, PoolIsSeq DEF TakeFromPool, IInv, Types
    <3>2. b \in Node /\ b \in InPool
      BY <1>3, <2>0, <3>1, PoolIsSeq DEF InPool
    <3>3. b \notin InPool'
      BY <1>3, <2>0, <3>1, PoolIsSeq DEF InPool
    <3>4. InPool' \subseteq InPool
      BY <1>3, <3>1, PoolIsSeq DEF InPool
    <3>5. ASSUME NEW m \in InPool, m # b PROVE m \in InPool'
      <4>1. PICK i \in (poolIndex + 1)..Len(InitialPool) : InitialPool[i] = m
        BY DEF InPool
      <4>2. i \in (poolIndex' + 1)..Len(InitialPool)
        BY <2>0, <3>1, <3>5, <4>1
      <4>3. QED
        BY <4>1, <4>2 DEF InPool
    <3>6. QED
      BY <3>2, <3>3, <3>4, <3>5
  <2>2. /\ owner \in [Node -> Thread \cup {Null}] /\ owner' = [owner EXCEPT ![b] = t]
        /\ UNCHANGED <<freeListHead, freeListRefs, freeListNext, locals>> /\ pc'[t] = "idle"
    BY <1>3, <2>0 DEF TakeFromPool, IInv, Types, LocalTypes, Goto
  <2>3. OnList' = OnList
    BY <2>2 DEF OnList, IsClosed
  <2>4. Places /\ RefsExact /\ Acyclic /\ NextKept
    BY DEF IInv
  <2>5. ASSUME NEW u \in Thread, pc'[u] \in Handling
        PROVE  pc[u] \in Handling /\ u # t /\ node[u] # b /\ node'[u] = node[u]
    BY <2>1, <2>2, <2>4, <2>5 DEF Places, Others, Handling, Adding
  <2>6. Places'
    BY <2>1, <2>2, <2>3, <2>4, <2>5, NullAssumption DEF Places
  <2>7. RefsExact'
    <3> SUFFICES ASSUME NEW n \in Node PROVE RefExact(n)'
      BY DEF RefsExact
    <3>1. Count(n)' = Count(n)
      BY <1>1, <2>2, CountChange DEF Holds, One, Busy, Handling
    <3>2. /\ Handled(n, Adding)' <=> Handled(n, Adding)
          /\ Handled(n, Handling \ Adding)' <=> Handled(n, Handling \ Adding)
      BY <1>1, <2>2 DEF Handled, Others, Busy, Handling, Adding
    <3>3. CASE n # b
      BY <2>1, <2>2, <2>3, <2>4, <3>1, <3>2, <3>3, RefExactSame DEF RefsExact
    <3>4. CASE n = b
      <4>1. /\ owner'[b] = t /\ t # Null /\ b \notin InPool' /\ b \notin OnList'
            /\ freeListRefs'[b] = 0 /\ Count(b)' = 0
        BY <2>1, <2>2, <2>3, <2>4, <3>1, <3>4, NullAssumption DEF RefsExact, RefExact, Places
      <4>2. ~Handled(b, Adding)' /\ ~Handled(b, Handling \ Adding)'
        BY <2>5 DEF Handled, Handling
      <4>3. QED
        BY <3>4, <4>1, <4>2, NullAssumption DEF RefExact
    <3>5. QED
      BY <3>3, <3>4
  <2>8. Acyclic'
    BY <2>2, <2>3, <2>4 DEF Acyclic
  <2>9. NextKept'
    BY <1>1, <2>2, <2>4 DEF NextKept, Others, Busy, Handling, Adding
  <2>10. QED
    BY <2>6, <2>7, <2>8, <2>9 DEF Rest
<1>4. QED
  BY <1>2, <1>3

-----------------------------------------------------------------------------
(* A count that stays in range is what the addition makes it.              *)
LEMMA FetchAddIs ==
  ASSUME Types, NEW n \in Node, NEW x \in Int, FetchAdd(n, x),
         freeListRefs[n] + x \in 0..(2 * SHOULD_BE_ON_FREELIST - 1)
  PROVE  /\ freeListRefs'[n] = freeListRefs[n] + x
         /\ \A m \in Node \ {n} : freeListRefs'[m] = freeListRefs[m]
<1>1. Wrap(freeListRefs[n] + x) = freeListRefs[n] + x
  BY ModFacts
<1>2. QED
  BY <1>1 DEF FetchAdd, Types

LEMMA RefsBound ==
  ASSUME NEW t \in Thread, Others(t), NEW n \in Node, IInv
  PROVE  /\ freeListRefs[n] \in 0..(SHOULD_BE_ON_FREELIST + Cardinality(Thread))
         /\ Count(n) \in 0..Cardinality(Thread)
         /\ SHOULD_BE_ON_FREELIST \in Nat /\ Cardinality(Thread) \in Nat
         /\ Cardinality(Thread) + 1 < SHOULD_BE_ON_FREELIST
         /\ 0 % SHOULD_BE_ON_FREELIST = 0
         /\ SHOULD_BE_ON_FREELIST % SHOULD_BE_ON_FREELIST = 0
<1>1. /\ SHOULD_BE_ON_FREELIST \in Nat /\ Cardinality(Thread) \in Nat
      /\ Cardinality(Thread) + 1 < SHOULD_BE_ON_FREELIST
  BY ModFacts
<1>2. 0 % SHOULD_BE_ON_FREELIST = 0 /\ SHOULD_BE_ON_FREELIST % SHOULD_BE_ON_FREELIST = 0
  <2>1. 0 \in 0..(SHOULD_BE_ON_FREELIST - 1) /\ SHOULD_BE_ON_FREELIST + 0 = SHOULD_BE_ON_FREELIST
    BY <1>1
  <2>2. /\ 0 % SHOULD_BE_ON_FREELIST = 0
        /\ (SHOULD_BE_ON_FREELIST + 0) % SHOULD_BE_ON_FREELIST = 0
    BY <2>1, ModFacts
  <2>3. QED
    BY <2>1, <2>2
<1>3. Count(n) \in 0..Cardinality(Thread)
  BY CountChange
<1>4. RefExact(n) /\ (Handled(n, Handling) <=> Handled(n, Adding) \/ Handled(n, Handling \ Adding))
  BY DEF IInv, RefsExact, Handled, Handling
<1>5. QED
  BY <1>1, <1>2, <1>3, <1>4 DEF RefExact

(* A reference is only taken of a node that has one already, and the flag  *)
(* alone is none: never of a node in the pool, or being added.             *)
LEMMA TakeRefKeeps ==
  ASSUME IInv, NEW t \in Thread, Others(t), TakeRef(t)
  PROVE  Rest'
<1>1. pc[t] \notin Busy /\ pc[t] = "ref"
  BY DEF TakeRef, Busy, Handling, Adding
<1>2. CASE Loop(t, freeListHead) /\ UNCHANGED shared
  BY <1>1, <1>2, LoopKeeps DEF TakeRef
<1>3. CASE ~(Loop(t, freeListHead) /\ UNCHANGED shared)
  <2>0. Types /\ Places /\ RefsExact /\ Acyclic /\ NextKept
    BY DEF IInv
  <2>1. PICK n \in Node : n = head[t]
    BY <1>1 DEF IInv, HasNode
  <2>2. /\ freeListRefs[n] % SHOULD_BE_ON_FREELIST # 0 /\ FetchAdd(n, 1)
        /\ UNCHANGED <<poolIndex, freeListHead, freeListNext, owner, head, node, next>>
        /\ pc'[t] = "next"
    BY <1>3, <2>0, <2>1 DEF TakeRef, locals, Types, LocalTypes, Goto
  <2>3. OnList' = OnList /\ InPool' = InPool
    BY <2>2 DEF OnList, IsClosed, InPool
  <2>4. Places'
    BY <1>1, <2>0, <2>2, <2>3 DEF Places, Others, Handling, Adding
  <2>5. RefsExact'
    <3> SUFFICES ASSUME NEW m \in Node PROVE RefExact(m)'
      BY DEF RefsExact
    <3>1. Count(m)' = Count(m) + (IF m = n THEN 1 ELSE 0) /\ Count(m) \in Nat
      <4>1. ~Holds(t, m) /\ (Holds(t, m)' <=> m = n)
        BY <1>1, <2>1, <2>2 DEF Holds
      <4>2. QED
        BY <4>1, CountChange, ModFacts DEF One
    <3>2. /\ Handled(m, Adding)' <=> Handled(m, Adding)
          /\ Handled(m, Handling \ Adding)' <=> Handled(m, Handling \ Adding)
      BY <1>1, <2>2 DEF Handled, Others, Busy, Handling, Adding
    <3>3. /\ freeListRefs'[n] = freeListRefs[n] + 1
          /\ \A k \in Node \ {n} : freeListRefs'[k] = freeListRefs[k]
      <4>1. freeListRefs[n] + 1 \in 0..(2 * SHOULD_BE_ON_FREELIST - 1)
        BY RefsBound
      <4>2. QED
        BY <2>0, <2>2, <4>1, FetchAddIs
    <3>4. CASE m # n
      <4>1. RefExact(m) /\ Count(m)' = Count(m) /\ freeListRefs'[m] = freeListRefs[m]
        BY <2>0, <3>1, <3>3, <3>4 DEF RefsExact
      <4>2. QED
        BY <2>2, <2>3, <3>2, <4>1, RefExactSame
    <3>5. CASE m = n
      <4>1. RefExact(n) /\ n \notin InPool /\ ~Handled(n, Adding)
        BY <2>0, <2>2, RefsBound DEF RefsExact, RefExact
      <4>2. Handled(n, Handling)' <=> Handled(n, Handling)
        BY <3>2, <3>5 DEF Handled, Handling
      <4>3. freeListRefs[n] \in Nat /\ SHOULD_BE_ON_FREELIST \in Nat
        BY RefsBound
      <4>4. QED
        BY <2>2, <2>3, <3>1, <3>2, <3>3, <3>5, <4>1, <4>2, <4>3 DEF RefExact
    <3>6. QED
      BY <3>4, <3>5
  <2>6. Acyclic'
    BY <2>0, <2>2, <2>3 DEF Acyclic
  <2>7. NextKept'
    BY <1>1, <2>0, <2>2 DEF NextKept, Others
  <2>8. QED
    BY <2>4, <2>5, <2>6, <2>7 DEF Rest
<1>4. QED
  BY <1>2, <1>3

LEMMA LoadNextKeeps ==
  ASSUME IInv, NEW t \in Thread, Others(t), LoadNext(t)
  PROVE  Rest'
<1>0. Types /\ Places /\ RefsExact /\ Acyclic /\ NextKept
  BY DEF IInv
<1>1. /\ pc[t] = "next" /\ pc'[t] = "pop" /\ next'[t] = freeListNext[head[t]]
      /\ UNCHANGED <<poolIndex, shared, head, node>>
  BY <1>0 DEF LoadNext, Goto, Types, LocalTypes
<1>2. OnList' = OnList /\ InPool' = InPool
  BY <1>1 DEF OnList, IsClosed, InPool, shared
<1>3. Places'
  BY <1>0, <1>1, <1>2 DEF Places, Others, Handling, Adding, shared
<1>4. RefsExact'
  <2> SUFFICES ASSUME NEW m \in Node PROVE RefExact(m)'
    BY DEF RefsExact
  <2>1. Count(m)' = Count(m)
    BY <1>1, CountChange, ModFacts DEF Holds, One
  <2>2. /\ Handled(m, Adding)' <=> Handled(m, Adding)
        /\ Handled(m, Handling \ Adding)' <=> Handled(m, Handling \ Adding)
    BY <1>1 DEF Handled, Others, Handling, Adding
  <2>3. QED
    BY <1>0, <1>1, <1>2, <2>1, <2>2, RefExactSame DEF RefsExact, shared
<1>5. Acyclic'
  BY <1>0, <1>1, <1>2 DEF Acyclic, shared
<1>6. NextKept'
  BY <1>0, <1>1 DEF NextKept, Others, shared
<1>7. QED
  BY <1>3, <1>4, <1>5, <1>6 DEF Rest

(* The exchange that takes the head off puts nothing else in its place     *)
(* than what follows it: next is the one that was read, and still is.      *)
LEMMA PopKeeps ==
  ASSUME IInv, NEW t \in Thread, Others(t), Pop(t)
  PROVE  Rest'
<1>0. Types /\ Places /\ RefsExact /\ Acyclic /\ NextKept /\ Null \notin Node
  BY NullAssumption DEF IInv
<1>1. PICK n \in Node : n = head[t]
  BY DEF IInv, HasNode, Pop
<1>2. /\ pc[t] = "pop" /\ next[t] = freeListNext[n] /\ node'[t] = n
      /\ UNCHANGED <<poolIndex, freeListRefs, freeListNext, owner, next>>
  BY <1>0, <1>1 DEF Pop, NextKept, Types, LocalTypes
<1>3. InPool' = InPool
  BY <1>2 DEF InPool
<1>4. ASSUME pc'[t] \in {"won", "unref"}, NEW m \in Node PROVE Count(m)' = Count(m)
  <2>1. Holds(t, m)' <=> Holds(t, m)
    BY <1>1, <1>2, <1>4 DEF Holds
  <2>2. QED
    BY <2>1, CountChange, ModFacts DEF One
<1>5. CASE freeListHead = n
  <2>1. freeListHead' = freeListNext[freeListHead] /\ pc'[t] = "won"
    BY <1>0, <1>1, <1>2, <1>5 DEF Pop, Goto, Types, LocalTypes
  <2>2. OnList' = OnList \ {n} /\ n \in OnList /\ Acyclic'
    BY <1>0, <1>2, <1>5, <2>1, ListPop
  <2>3. Places'
    BY <1>0, <1>2, <1>3, <2>1, <2>2 DEF Places, Others
  <2>4. RefsExact'
    <3> SUFFICES ASSUME NEW m \in Node PROVE RefExact(m)'
      BY DEF RefsExact
    <3>1. RefExact(m) /\ Count(m)' = Count(m)
      BY <1>0, <1>4, <2>1 DEF RefsExact
    <3>2. CASE m # n
      <4>1. /\ Handled(m, Adding)' <=> Handled(m, Adding)
            /\ Handled(m, Handling \ Adding)' <=> Handled(m, Handling \ Adding)
        BY <1>2, <2>1, <3>2 DEF Handled, Others, Handling, Adding
      <4>2. QED
        BY <1>2, <1>3, <2>2, <3>1, <3>2, <4>1, RefExactSame
    <3>3. CASE m = n
      <4>1. Handled(n, Handling \ Adding)' /\ Handled(n, Handling)' /\ ~Handled(n, Adding)'
        <5>1. pc'[t] \in Handling \ Adding
          BY <2>1 DEF Handling, Adding
        <5>2. \A u \in Thread \ {t} : pc'[u] \in Handling => node'[u] # n
          BY <1>0, <2>2 DEF Places, Others
        <5>3. QED
          BY <1>2, <5>1, <5>2 DEF Handled, Handling
      <4>2. owner[n] = Null /\ n \notin InPool
        BY <1>0, <2>2 DEF Places
      <4>3. QED
        BY <1>2, <1>3, <2>2, <3>1, <3>3, <4>1, <4>2 DEF RefExact
    <3>4. QED
      BY <3>2, <3>3
  <2>5. NextKept'
    BY <1>0, <1>2, <2>1 DEF NextKept, Others
  <2>6. QED
    BY <2>2, <2>3, <2>4, <2>5 DEF Rest
<1>6. CASE freeListHead # n
  <2>1. freeListHead' = freeListHead /\ pc'[t] = "unref"
    BY <1>0, <1>1, <1>6 DEF Pop, Goto, Types, LocalTypes
  <2>2. OnList' = OnList
    BY <1>2, <2>1 DEF OnList, IsClosed
  <2>3. Places'
    BY <1>0, <1>2, <1>3, <2>1, <2>2 DEF Places, Others, Handling, Adding
  <2>4. RefsExact'
    <3> SUFFICES ASSUME NEW m \in Node PROVE RefExact(m)'
      BY DEF RefsExact
    <3>1. RefExact(m) /\ Count(m)' = Count(m)
      BY <1>0, <1>4, <2>1 DEF RefsExact
    <3>2. /\ Handled(m, Adding)' <=> Handled(m, Adding)
          /\ Handled(m, Handling \ Adding)' <=> Handled(m, Handling \ Adding)
      BY <1>2, <2>1 DEF Handled, Others, Handling, Adding
    <3>3. QED
      BY <1>2, <1>3, <2>2, <3>1, <3>2, RefExactSame
  <2>5. Acyclic'
    BY <1>0, <1>2, <2>1, <2>2 DEF Acyclic
  <2>6. NextKept'
    BY <1>0, <1>2, <2>1 DEF NextKept, Others
  <2>7. QED
    BY <2>3, <2>4, <2>5, <2>6 DEF Rest
<1>7. QED
  BY <1>5, <1>6

(* The node goes from the thread that took it off to being owned by it.    *)
LEMMA WonKeeps ==
  ASSUME IInv, NEW t \in Thread, Others(t), Won(t)
  PROVE  Rest'
<1>0. Types /\ Places /\ RefsExact /\ Acyclic /\ NextKept /\ t # Null
  BY NullAssumption DEF IInv
<1>1. PICK n \in Node : n = node[t]
  BY DEF IInv, HasNode, Won, Handling
<1>2. /\ pc[t] = "won" /\ pc[t] \in Handling \ Adding /\ pc'[t] = "idle" /\ FetchAdd(n, -2)
      /\ owner'[n] = t /\ \A m \in Node \ {n} : owner'[m] = owner[m]
      /\ UNCHANGED <<poolIndex, freeListHead, freeListNext>>
  BY <1>0, <1>1 DEF Won, Loop, Goto, Types, LocalTypes, Handling, Adding
<1>3. OnList' = OnList /\ InPool' = InPool
  BY <1>2 DEF OnList, IsClosed, InPool
<1>4. /\ n \notin OnList \cup InPool /\ owner[n] = Null
      /\ \A u \in Thread \ {t} : pc[u] \in Handling => node[u] # n
  BY <1>0, <1>1, <1>2 DEF Places
<1>5. Places'
  <2>1. ASSUME NEW u \in Thread, pc'[u] \in Handling
        PROVE  pc[u] \in Handling /\ u # t /\ node'[u] = node[u] /\ node[u] \in Node \ {n}
    BY <1>2, <1>4, <2>1 DEF IInv, HasNode, Others, Handling, Adding
  <2>2. QED
    BY <1>0, <1>2, <1>3, <1>4, <2>1 DEF Places
<1>6. RefsExact'
  <2> SUFFICES ASSUME NEW m \in Node PROVE RefExact(m)'
    BY DEF RefsExact
  <2>1. /\ Count(m)' = Count(m) - (IF m = n THEN 1 ELSE 0) /\ Count(m) \in Nat
        /\ m = n => Count(m) # 0
    <3>1. (Holds(t, m) <=> m = n) /\ ~Holds(t, m)'
      BY <1>1, <1>2 DEF Holds
    <3>2. QED
      BY <3>1, CountChange, ModFacts DEF One
  <2>2. /\ freeListRefs[n] = 1 + Count(n) /\ freeListRefs'[n] = freeListRefs[n] - 2
        /\ \A k \in Node \ {n} : freeListRefs'[k] = freeListRefs[k]
    <3>1. freeListRefs[n] = 1 + Count(n)
      BY <1>0, <1>1, <1>2 DEF RefsExact, RefExact, Handled
    <3>2. Count(n) \in Nat /\ Count(n) # 0
      <4>1. Holds(t, n)
        BY <1>1, <1>2 DEF Holds
      <4>2. QED
        BY <4>1, CountChange, ModFacts
    <3>3. freeListRefs[n] + (-2) \in 0..(2 * SHOULD_BE_ON_FREELIST - 1)
      BY <3>1, <3>2, RefsBound
    <3>4. /\ freeListRefs'[n] = freeListRefs[n] + (-2)
          /\ \A k \in Node \ {n} : freeListRefs'[k] = freeListRefs[k]
      BY <1>0, <1>2, <3>3, FetchAddIs
    <3>5. QED
      BY <3>1, <3>2, <3>4
  <2>3. CASE m # n
    <3>1. RefExact(m) /\ Count(m)' = Count(m) /\ freeListRefs'[m] = freeListRefs[m]
      BY <1>0, <2>1, <2>2, <2>3 DEF RefsExact
    <3>2. /\ Handled(m, Adding)' <=> Handled(m, Adding)
          /\ Handled(m, Handling \ Adding)' <=> Handled(m, Handling \ Adding)
      BY <1>1, <1>2, <2>3 DEF Handled, Others, Handling, Adding
    <3>3. QED
      BY <1>2, <1>3, <2>3, <3>1, <3>2, RefExactSame
  <2>4. CASE m = n
    <3>1. ~Handled(n, Handling)' /\ ~Handled(n, Adding)' /\ ~Handled(n, Handling \ Adding)'
      BY <1>2, <1>4 DEF Handled, Others, Handling, Adding
    <3>2. QED
      BY <1>0, <1>2, <1>3, <1>4, <2>1, <2>2, <2>4, <3>1 DEF RefExact
  <2>5. QED
    BY <2>3, <2>4
<1>7. Acyclic'
  BY <1>0, <1>2, <1>3 DEF Acyclic
<1>8. NextKept'
  BY <1>0, <1>2 DEF NextKept, Others
<1>9. QED
  BY <1>5, <1>6, <1>7, <1>8 DEF Rest

(* Giving back the last reference of a node that nobody has puts it on its *)
(* way to the list; any other leaves the node where it is.                 *)
LEMMA UnrefKeeps ==
  ASSUME IInv, NEW t \in Thread, Others(t), Unref(t)
  PROVE  Rest'
<1>0. Types /\ HasNode /\ Places /\ RefsExact /\ Acyclic /\ NextKept
  BY DEF IInv
<1>1. PICK n \in Node : n = node[t]
  BY DEF IInv, HasNode, Unref
<1>2. /\ pc[t] = "unref" /\ FetchAdd(n, -1)
      /\ UNCHANGED <<poolIndex, freeListHead, freeListNext, owner>>
  BY <1>1 DEF Unref
<1>3. OnList' = OnList /\ InPool' = InPool
  BY <1>2 DEF OnList, IsClosed, InPool
<1>4. Count(n) \in Nat /\ Count(n) # 0
  <2>1. Holds(t, n)
    BY <1>1, <1>2 DEF Holds
  <2>2. QED
    BY <2>1, CountChange, ModFacts
<1>5. /\ RefExact(n) /\ n \notin InPool /\ ~Handled(n, Adding)
      /\ freeListRefs[n] \in Nat /\ SHOULD_BE_ON_FREELIST \in Nat
      /\ Handled(n, Handling) <=> Handled(n, Handling \ Adding)
  BY <1>0, <1>4, RefsBound DEF RefsExact, RefExact, Handled, Handling
<1>6. /\ freeListRefs'[n] = freeListRefs[n] - 1
      /\ \A k \in Node \ {n} : freeListRefs'[k] = freeListRefs[k]
  <2>1. freeListRefs[n] + (-1) \in 0..(2 * SHOULD_BE_ON_FREELIST - 1)
    BY <1>4, <1>5, RefsBound DEF RefExact
  <2>2. /\ freeListRefs'[n] = freeListRefs[n] + (-1)
        /\ \A k \in Node \ {n} : freeListRefs'[k] = freeListRefs[k]
    BY <1>0, <1>2, <2>1, FetchAddIs
  <2>3. QED
    BY <1>5, <2>2
<1>7. ASSUME pc'[t] \in {"addHead", "refs", "idle"}, NEW m \in Node
      PROVE  Count(m)' = Count(m) - (IF m = n THEN 1 ELSE 0) /\ Count(m) \in Nat
  <2>1. (Holds(t, m) <=> m = n) /\ ~Holds(t, m)'
    BY <1>1, <1>2, <1>7 DEF Holds
  <2>2. QED
    BY <2>1, CountChange, ModFacts DEF One
<1>8. CASE freeListRefs[n] = SHOULD_BE_ON_FREELIST + 1
  <2>1. pc'[t] = "addHead" /\ node'[t] = n
    BY <1>0, <1>1, <1>8 DEF Unref, Goto, locals, Types, LocalTypes
  <2>2. owner[n] = Null /\ n \notin OnList /\ ~Handled(n, Handling)
    BY <1>5, <1>8, RefsBound DEF RefExact
  <2>3. Count(n) = 1
    BY <1>4, <1>5, <1>8, <2>2 DEF RefExact
  <2>4. Places'
    BY <1>0, <1>2, <1>3, <1>5, <2>1, <2>2 DEF Places, Others, Handled
  <2>5. RefsExact'
    <3> SUFFICES ASSUME NEW m \in Node PROVE RefExact(m)'
      BY DEF RefsExact
    <3>1. CASE m # n
      <4>1. RefExact(m) /\ Count(m)' = Count(m) /\ freeListRefs'[m] = freeListRefs[m]
        BY <1>0, <1>6, <1>7, <2>1, <3>1 DEF RefsExact
      <4>2. /\ Handled(m, Adding)' <=> Handled(m, Adding)
            /\ Handled(m, Handling \ Adding)' <=> Handled(m, Handling \ Adding)
        BY <1>1, <1>2, <2>1, <3>1 DEF Handled, Others, Handling, Adding
      <4>3. QED
        BY <1>2, <1>3, <4>1, <4>2, RefExactSame
    <3>2. CASE m = n
      <4>1. Count(n)' = 0 /\ freeListRefs'[n] = SHOULD_BE_ON_FREELIST
        BY <1>5, <1>6, <1>7, <1>8, <2>1, <2>3
      <4>2. Handled(n, Handling)' /\ ~Handled(n, Handling \ Adding)'
        BY <2>1, <2>2 DEF Handled, Others, Handling, Adding
      <4>3. QED
        BY <1>2, <1>3, <1>5, <2>2, <3>2, <4>1, <4>2 DEF RefExact
    <3>3. QED
      BY <3>1, <3>2
  <2>6. NextKept'
    BY <1>0, <1>2, <2>1 DEF NextKept, Others
  <2>7. QED
    BY <1>0, <1>2, <1>3, <2>4, <2>5, <2>6 DEF Rest, Acyclic
<1>9. CASE freeListRefs[n] # SHOULD_BE_ON_FREELIST + 1
  <2>1. pc'[t] \in {"refs", "idle"}
    BY <1>0, <1>1, <1>9 DEF Unref, Loop, Goto, Types, LocalTypes
  <2>2. pc[t] \notin Handling /\ pc'[t] \notin Handling
    BY <1>2, <2>1 DEF Handling, Adding
  <2>3. Places'
    BY <1>0, <1>2, <1>3, <2>2 DEF Places, Others
  <2>4. RefsExact'
    <3> SUFFICES ASSUME NEW m \in Node PROVE RefExact(m)'
      BY DEF RefsExact
    <3>1. /\ Handled(m, Adding)' <=> Handled(m, Adding)
          /\ Handled(m, Handling \ Adding)' <=> Handled(m, Handling \ Adding)
          /\ Handled(m, Handling)' <=> Handled(m, Handling)
      BY <2>2 DEF Handled, Others, Handling
    <3>2. CASE m # n
      <4>1. RefExact(m) /\ Count(m)' = Count(m) /\ freeListRefs'[m] = freeListRefs[m]
        BY <1>0, <1>6, <1>7, <2>1, <3>2 DEF RefsExact
      <4>2. QED
        BY <1>2, <1>3, <3>1, <4>1, RefExactSame
    <3>3. CASE m = n
      <4>1. Count(n)' = Count(n) - 1
        BY <1>7, <2>1
      <4>2. QED
        BY <1>2, <1>3, <1>4, <1>5, <1>6, <1>9, <3>1, <3>3, <4>1 DEF RefExact
    <3>4. QED
      BY <3>2, <3>3
  <2>5. NextKept'
    BY <1>0, <1>2, <2>1 DEF NextKept, Others
  <2>6. QED
    BY <1>0, <1>2, <1>3, <2>3, <2>4, <2>5 DEF Rest, Acyclic
<1>10. QED
  BY <1>8, <1>9

-----------------------------------------------------------------------------
(* A node given back that has no reference left is added by its owner; one *)
(* that has is left, with the flag, to the last that gives up a reference. *)
LEMMA AddKeeps ==
  ASSUME IInv, NEW t \in Thread, Others(t), NEW n \in Node, Add(t, n)
  PROVE  Rest'
<1>0. Types /\ HasNode /\ Places /\ RefsExact /\ Acyclic /\ NextKept /\ t # Null
  BY NullAssumption DEF IInv
<1>1. /\ pc[t] = "idle" /\ owner[n] = t /\ FetchAdd(n, SHOULD_BE_ON_FREELIST)
      /\ owner'[n] = Null /\ \A m \in Node \ {n} : owner'[m] = owner[m]
      /\ UNCHANGED <<poolIndex, freeListHead, freeListNext, head, next>>
  BY <1>0 DEF Add, Types
<1>2. OnList' = OnList /\ InPool' = InPool
  BY <1>1 DEF OnList, IsClosed, InPool
<1>3. /\ n \notin OnList \cup InPool /\ ~Handled(n, Handling)
      /\ \A u \in Thread : pc[u] \in Handling => node[u] # n
  BY <1>0, <1>1 DEF Places, Handled
<1>4. freeListRefs[n] = Count(n) /\ Count(n) \in Nat /\ SHOULD_BE_ON_FREELIST \in Nat
  BY <1>0, <1>1, RefsBound DEF RefsExact, RefExact
<1>5. /\ freeListRefs'[n] = freeListRefs[n] + SHOULD_BE_ON_FREELIST
      /\ \A k \in Node \ {n} : freeListRefs'[k] = freeListRefs[k]
  <2>1. freeListRefs[n] + SHOULD_BE_ON_FREELIST \in 0..(2 * SHOULD_BE_ON_FREELIST - 1)
    BY <1>4, RefsBound
  <2>2. QED
    BY <1>0, <1>1, <1>4, <2>1, FetchAddIs
<1>6. ASSUME pc'[t] \in {"idle", "addHead"}, NEW m \in Node PROVE Count(m)' = Count(m)
  <2>1. ~Holds(t, m) /\ ~Holds(t, m)'
    BY <1>1, <1>6 DEF Holds
  <2>2. QED
    BY <2>1, CountChange, ModFacts DEF One
<1>7. ASSUME NEW u \in Thread \ {t}, pc'[u] \in Handling
      PROVE  pc[u] \in Handling /\ node'[u] = node[u] /\ node[u] \in Node \ {n}
  BY <1>0, <1>3, <1>7 DEF HasNode, Others
<1>8. CASE freeListRefs[n] = 0
  <2>1. pc'[t] = "addHead" /\ node'[t] = n
    BY <1>0, <1>8 DEF Add, Goto, Types, LocalTypes
  <2>2. Places'
    BY <1>0, <1>1, <1>2, <1>3, <1>7, <2>1 DEF Places
  <2>3. RefsExact'
    <3> SUFFICES ASSUME NEW m \in Node PROVE RefExact(m)'
      BY DEF RefsExact
    <3>1. CASE m # n
      <4>1. RefExact(m) /\ Count(m)' = Count(m) /\ freeListRefs'[m] = freeListRefs[m]
        BY <1>0, <1>5, <1>6, <2>1, <3>1 DEF RefsExact
      <4>2. /\ Handled(m, Adding)' <=> Handled(m, Adding)
            /\ Handled(m, Handling \ Adding)' <=> Handled(m, Handling \ Adding)
        BY <1>1, <2>1, <3>1 DEF Handled, Others, Handling, Adding
      <4>3. QED
        BY <1>1, <1>2, <3>1, <4>1, <4>2, RefExactSame
    <3>2. CASE m = n
      <4>1. Count(n)' = 0 /\ freeListRefs'[n] = SHOULD_BE_ON_FREELIST
        <5>1. Count(n)' = Count(n)
          BY <1>6, <2>1
        <5>2. Count(n) = 0 /\ freeListRefs'[n] = 0 + SHOULD_BE_ON_FREELIST
          BY <1>4, <1>5, <1>8
        <5>3. QED
          BY <1>4, <5>1, <5>2
      <4>2. Handled(n, Handling)' /\ ~Handled(n, Handling \ Adding)'
        BY <1>3, <1>7, <2>1 DEF Handled, Handling, Adding
      <4>3. QED
        BY <1>1, <1>2, <1>3, <3>2, <4>1, <4>2 DEF RefExact
    <3>3. QED
      BY <3>1, <3>2
  <2>4. NextKept'
    BY <1>0, <1>1, <2>1 DEF NextKept, Others
  <2>5. QED
    BY <1>0, <1>1, <1>2, <2>2, <2>3, <2>4 DEF Rest, Acyclic
<1>9. CASE freeListRefs[n] # 0
  <2>1. pc'[t] = "idle"
    BY <1>1, <1>9 DEF Add
  <2>2. pc[t] \notin Handling /\ pc'[t] \notin Handling
    BY <1>1, <2>1 DEF Handling, Adding
  <2>3. Places'
    BY <1>0, <1>1, <1>2, <1>3, <1>7, <2>2 DEF Places
  <2>4. RefsExact'
    <3> SUFFICES ASSUME NEW m \in Node PROVE RefExact(m)'
      BY DEF RefsExact
    <3>1. /\ Handled(m, Adding)' <=> Handled(m, Adding)
          /\ Handled(m, Handling \ Adding)' <=> Handled(m, Handling \ Adding)
          /\ Handled(m, Handling)' <=> Handled(m, Handling)
      BY <2>2 DEF Handled, Others, Handling
    <3>2. CASE m # n
      <4>1. RefExact(m) /\ Count(m)' = Count(m) /\ freeListRefs'[m] = freeListRefs[m]
        BY <1>0, <1>5, <1>6, <2>1, <3>2 DEF RefsExact
      <4>2. QED
        BY <1>1, <1>2, <3>1, <3>2, <4>1, RefExactSame
    <3>3. CASE m = n
      <4>1. Count(n)' = Count(n)
        BY <1>6, <2>1
      <4>2. ~Handled(n, Handling)' /\ ~Handled(n, Adding)' /\ ~Handled(n, Handling \ Adding)'
        BY <1>3, <3>1, <3>3 DEF Handled, Handling
      <4>3. QED
        BY <1>1, <1>2, <1>3, <1>4, <1>5, <1>9, <3>3, <4>1, <4>2 DEF RefExact
    <3>4. QED
      BY <3>2, <3>3
  <2>5. NextKept'
    BY <1>0, <1>1, <2>1 DEF NextKept, Others
  <2>6. QED
    BY <1>0, <1>1, <1>2, <2>3, <2>4, <2>5 DEF Rest, Acyclic
<1>10. QED
  BY <1>8, <1>9

LEMMA AddLoadHeadKeeps ==
  ASSUME IInv, NEW t \in Thread, Others(t), AddLoadHead(t)
  PROVE  Rest'
<1>0. Types /\ Places /\ RefsExact /\ Acyclic /\ NextKept
  BY DEF IInv
<1>1. /\ pc[t] = "addHead" /\ pc'[t] = "addNext" /\ UNCHANGED <<poolIndex, shared, head, node>>
      /\ pc[t] \in Adding /\ pc'[t] \in Adding
  BY <1>0 DEF AddLoadHead, Goto, Types, LocalTypes, Adding
<1>2. OnList' = OnList /\ InPool' = InPool
  BY <1>1 DEF OnList, IsClosed, InPool, shared
<1>3. Places'
  BY <1>0, <1>1, <1>2 DEF Places, Others, Handling, shared
<1>4. RefsExact'
  <2> SUFFICES ASSUME NEW m \in Node PROVE RefExact(m)'
    BY DEF RefsExact
  <2>1. Count(m)' = Count(m)
    BY <1>1, CountChange, ModFacts DEF Holds, One
  <2>2. /\ Handled(m, Adding)' <=> Handled(m, Adding)
        /\ Handled(m, Handling \ Adding)' <=> Handled(m, Handling \ Adding)
    BY <1>1 DEF Handled, Others
  <2>3. QED
    BY <1>0, <1>1, <1>2, <2>1, <2>2, RefExactSame DEF RefsExact, shared
<1>5. NextKept'
  BY <1>0, <1>1 DEF NextKept, Others, shared
<1>6. QED
  BY <1>0, <1>1, <1>2, <1>3, <1>4, <1>5 DEF Rest, Acyclic, shared

(* The next pointer is stored while nobody has a reference to the node.    *)
LEMMA AddStoreNextKeeps ==
  ASSUME IInv, NEW t \in Thread, Others(t), AddStoreNext(t)
  PROVE  Rest'
<1>0. Types /\ HasNode /\ Places /\ RefsExact /\ Acyclic /\ NextKept
  BY DEF IInv
<1>1. PICK n \in Node : n = node[t]
  BY DEF IInv, HasNode, AddStoreNext, Handling, Adding
<1>2. PICK x \in Node \cup {Null} : x = next[t]
  BY DEF IInv, Types, LocalTypes
<1>3. /\ pc[t] = "addNext" /\ pc'[t] = "addRefs" /\ pc[t] \in Adding /\ pc'[t] \in Adding
      /\ freeListNext' = [freeListNext EXCEPT ![n] = x]
      /\ UNCHANGED <<poolIndex, freeListHead, freeListRefs, owner, head, node, next>>
  BY <1>0, <1>1, <1>2 DEF AddStoreNext, Goto, Types, LocalTypes, Adding, locals
<1>4. /\ n \notin OnList /\ \A u \in Thread \ {t} : pc[u] \in Handling => node[u] # n
  BY <1>0, <1>1, <1>3 DEF Places, Handling
<1>5. OnList' = OnList /\ InPool' = InPool /\ Acyclic'
  BY <1>0, <1>3, <1>4, ListStore DEF InPool
<1>6. Places'
  BY <1>0, <1>3, <1>5 DEF Places, Others, Handling
<1>7. RefsExact'
  <2> SUFFICES ASSUME NEW m \in Node PROVE RefExact(m)'
    BY DEF RefsExact
  <2>1. ~Holds(t, m) /\ ~Holds(t, m)'
    BY <1>3 DEF Holds
  <2>2. Count(m)' = Count(m)
    BY <2>1, CountChange, ModFacts DEF One
  <2>3. /\ Handled(m, Adding)' <=> Handled(m, Adding)
        /\ Handled(m, Handling \ Adding)' <=> Handled(m, Handling \ Adding)
    BY <1>3 DEF Handled, Others
  <2>4. QED
    BY <1>0, <1>3, <1>5, <2>2, <2>3, RefExactSame DEF RefsExact
<1>8. NextKept'
  <2>1. ASSUME NEW u \in Thread, pc[u] = "pop" PROVE head[u] \in Node /\ head[u] # n
    <3>1. Count(n) = 0
      BY <1>0, <1>1, <1>3 DEF RefsExact, RefExact, Handled
    <3>2. Holds(u, n) => Count(n) # 0
      BY HolderCounts
    <3>3. QED
      BY <1>0, <2>1, <3>1, <3>2 DEF Holds, HasNode
  <2>2. ASSUME NEW u \in Thread \ {t}, pc[u] \in {"addRefs", "push"}
        PROVE  node[u] \in Node /\ node[u] # n
    BY <1>0, <1>4, <2>2 DEF HasNode, Handling, Adding
  <2>3. /\ freeListNext'[n] = x /\ \A m \in Node \ {n} : freeListNext'[m] = freeListNext[m]
    BY <1>0, <1>3 DEF Types
  <2>4. QED
    BY <1>0, <1>1, <1>2, <1>3, <2>1, <2>2, <2>3 DEF NextKept, Others
<1>9. QED
  BY <1>5, <1>6, <1>7, <1>8 DEF Rest

(* The count is set to the list's reference, which nobody could add to.    *)
LEMMA AddStoreRefsKeeps ==
  ASSUME IInv, NEW t \in Thread, Others(t), AddStoreRefs(t)
  PROVE  Rest'
<1>0. Types /\ HasNode /\ Places /\ RefsExact /\ Acyclic /\ NextKept
  BY DEF IInv
<1>1. PICK n \in Node : n = node[t]
  BY DEF IInv, HasNode, AddStoreRefs, Handling, Adding
<1>2. /\ pc[t] = "addRefs" /\ pc'[t] = "push" /\ pc[t] \in Adding /\ pc'[t] \in Handling \ Adding
      /\ freeListRefs'[n] = 1 /\ \A k \in Node \ {n} : freeListRefs'[k] = freeListRefs[k]
      /\ UNCHANGED <<poolIndex, freeListHead, freeListNext, owner, head, node, next>>
  BY <1>0, <1>1 DEF AddStoreRefs, Goto, Types, LocalTypes, Handling, Adding, locals
<1>3. OnList' = OnList /\ InPool' = InPool
  BY <1>2 DEF OnList, IsClosed, InPool
<1>4. /\ owner[n] = Null /\ n \notin OnList \cup InPool
      /\ \A u \in Thread \ {t} : pc[u] \in Handling => node[u] # n
  BY <1>0, <1>1, <1>2 DEF Places, Handling
<1>5. Places'
  BY <1>0, <1>2, <1>3 DEF Places, Others, Handling
<1>6. RefsExact'
  <2> SUFFICES ASSUME NEW m \in Node PROVE RefExact(m)'
    BY DEF RefsExact
  <2>1. Count(m)' = Count(m)
    <3>1. ~Holds(t, m) /\ ~Holds(t, m)'
      BY <1>2 DEF Holds
    <3>2. QED
      BY <3>1, CountChange, ModFacts DEF One
  <2>2. CASE m # n
    <3>1. RefExact(m) /\ freeListRefs'[m] = freeListRefs[m]
      BY <1>0, <1>2, <2>2 DEF RefsExact
    <3>2. /\ Handled(m, Adding)' <=> Handled(m, Adding)
          /\ Handled(m, Handling \ Adding)' <=> Handled(m, Handling \ Adding)
      BY <1>1, <1>2, <2>2 DEF Handled, Others
    <3>3. QED
      BY <1>2, <1>3, <2>1, <3>1, <3>2, RefExactSame
  <2>3. CASE m = n
    <3>1. Count(n) = 0
      BY <1>0, <1>1, <1>2 DEF RefsExact, RefExact, Handled
    <3>2. Handled(n, Handling)' /\ ~Handled(n, Adding)'
      BY <1>1, <1>2, <1>4 DEF Handled, Others, Handling
    <3>3. QED
      BY <1>2, <1>3, <1>4, <2>1, <2>3, <3>1, <3>2 DEF RefExact
  <2>4. QED
    BY <2>2, <2>3
<1>7. NextKept'
  BY <1>0, <1>2 DEF NextKept, Others
<1>8. QED
  BY <1>0, <1>2, <1>3, <1>5, <1>6, <1>7 DEF Rest, Acyclic

(* The exchange that puts a node on the list: its next is the old head.    *)
LEMMA PushKeeps ==
  ASSUME IInv, NEW t \in Thread, Others(t), Push(t)
  PROVE  Rest'
<1>0. Types /\ HasNode /\ Places /\ RefsExact /\ Acyclic /\ NextKept
  BY DEF IInv
<1>1. PICK n \in Node : n = node[t]
  BY DEF IInv, HasNode, Push, Handling
<1>2. /\ pc[t] = "push" /\ pc[t] \in Handling \ Adding /\ next[t] = freeListNext[n]
      /\ UNCHANGED <<poolIndex, freeListRefs, freeListNext, owner>>
  BY <1>0, <1>1 DEF Push, NextKept, Handling, Adding
<1>3. InPool' = InPool
  BY <1>2 DEF InPool
<1>4. /\ owner[n] = Null /\ n \notin OnList \cup InPool
      /\ \A u \in Thread \ {t} : pc[u] \in Handling => node[u] # n
  BY <1>0, <1>1, <1>2 DEF Places
<1>5. ASSUME pc'[t] \in {"refs", "idle", "addFailed"}, NEW m \in Node PROVE Count(m)' = Count(m)
  <2>1. ~Holds(t, m) /\ ~Holds(t, m)'
    BY <1>2, <1>5 DEF Holds
  <2>2. QED
    BY <2>1, CountChange, ModFacts DEF One
<1>6. CASE freeListHead = next[t]
  <2>1. freeListHead' = n /\ pc'[t] \in {"refs", "idle"}
    BY <1>0, <1>1, <1>6 DEF Push, Loop, Goto, Types, LocalTypes
  <2>2. OnList' = OnList \cup {n} /\ Acyclic'
    BY <1>0, <1>2, <1>4, <1>6, <2>1, ListPush
  <2>3. pc'[t] \notin Handling
    BY <2>1 DEF Handling, Adding
  <2>4. Places'
    <3>1. ASSUME NEW u \in Thread, pc'[u] \in Handling
          PROVE  pc[u] \in Handling /\ node'[u] = node[u] /\ node[u] # n
      BY <1>4, <2>3, <3>1 DEF Others
    <3>2. QED
      BY <1>0, <1>2, <1>3, <1>4, <2>2, <3>1 DEF Places
  <2>5. RefsExact'
    <3> SUFFICES ASSUME NEW m \in Node PROVE RefExact(m)'
      BY DEF RefsExact
    <3>1. RefExact(m) /\ Count(m)' = Count(m)
      BY <1>0, <1>5, <2>1 DEF RefsExact
    <3>2. CASE m # n
      <4>1. /\ Handled(m, Adding)' <=> Handled(m, Adding)
            /\ Handled(m, Handling \ Adding)' <=> Handled(m, Handling \ Adding)
        BY <1>1, <2>3, <3>2 DEF Handled, Others, Handling
      <4>2. QED
        BY <1>2, <1>3, <2>2, <3>1, <3>2, <4>1, RefExactSame
    <3>3. CASE m = n
      <4>1. freeListRefs[n] = 1 + Count(n)
        BY <1>1, <1>2, <3>1, <3>3 DEF RefExact, Handled
      <4>2. ~Handled(n, Adding)'
        BY <1>4, <2>3 DEF Handled, Others, Handling
      <4>3. QED
        BY <1>2, <1>3, <1>4, <2>2, <3>1, <3>3, <4>1, <4>2 DEF RefExact
    <3>4. QED
      BY <3>2, <3>3
  <2>6. NextKept'
    BY <1>0, <1>2, <2>1 DEF NextKept, Others
  <2>7. QED
    BY <2>2, <2>4, <2>5, <2>6 DEF Rest
<1>7. CASE freeListHead # next[t]
  <2>1. /\ pc'[t] = "addFailed" /\ pc'[t] \in Handling \ Adding
        /\ UNCHANGED <<freeListHead, head, node>>
    BY <1>0, <1>7 DEF Push, Goto, Types, LocalTypes, Handling, Adding
  <2>2. OnList' = OnList
    BY <1>2, <2>1 DEF OnList, IsClosed
  <2>3. Places'
    BY <1>0, <1>2, <1>3, <2>1, <2>2 DEF Places, Others
  <2>4. RefsExact'
    <3> SUFFICES ASSUME NEW m \in Node PROVE RefExact(m)'
      BY DEF RefsExact
    <3>1. RefExact(m) /\ Count(m)' = Count(m)
      BY <1>0, <1>5, <2>1 DEF RefsExact
    <3>2. /\ Handled(m, Adding)' <=> Handled(m, Adding)
          /\ Handled(m, Handling \ Adding)' <=> Handled(m, Handling \ Adding)
      BY <1>2, <2>1 DEF Handled, Others
    <3>3. QED
      BY <1>2, <1>3, <2>2, <3>1, <3>2, RefExactSame
  <2>5. NextKept'
    BY <1>0, <1>2, <2>1 DEF NextKept, Others
  <2>6. QED
    BY <1>0, <1>2, <2>1, <2>2, <2>3, <2>4, <2>5 DEF Rest, Acyclic
<1>8. QED
  BY <1>6, <1>7

(* A node that could not be put on the list: added again when nobody has a *)
(* reference, else left, with the flag, to the last that gives up one.     *)
LEMMA AddFailedKeeps ==
  ASSUME IInv, NEW t \in Thread, Others(t), AddFailed(t)
  PROVE  Rest'
<1>0. Types /\ HasNode /\ Places /\ RefsExact /\ Acyclic /\ NextKept
  BY DEF IInv
<1>1. PICK n \in Node : n = node[t]
  BY DEF IInv, HasNode, AddFailed, Handling
<1>2. /\ pc[t] = "addFailed" /\ pc[t] \in Handling \ Adding
      /\ FetchAdd(n, SHOULD_BE_ON_FREELIST - 1)
      /\ UNCHANGED <<poolIndex, freeListHead, freeListNext, owner>>
  BY <1>1 DEF AddFailed, Handling, Adding
<1>3. OnList' = OnList /\ InPool' = InPool
  BY <1>2 DEF OnList, IsClosed, InPool
<1>4. /\ owner[n] = Null /\ n \notin OnList \cup InPool
      /\ \A u \in Thread \ {t} : pc[u] \in Handling => node[u] # n
  BY <1>0, <1>1, <1>2 DEF Places
<1>5. /\ freeListRefs[n] = 1 + Count(n) /\ Count(n) \in Nat /\ SHOULD_BE_ON_FREELIST \in Nat
  BY <1>0, <1>1, <1>2, RefsBound DEF RefsExact, RefExact, Handled
<1>6. /\ freeListRefs'[n] = SHOULD_BE_ON_FREELIST + Count(n)
      /\ \A k \in Node \ {n} : freeListRefs'[k] = freeListRefs[k]
  <2>1. /\ freeListRefs[n] + (SHOULD_BE_ON_FREELIST - 1) \in 0..(2 * SHOULD_BE_ON_FREELIST - 1)
        /\ freeListRefs[n] + (SHOULD_BE_ON_FREELIST - 1) = SHOULD_BE_ON_FREELIST + Count(n)
        /\ SHOULD_BE_ON_FREELIST - 1 \in Int
    BY <1>5, RefsBound
  <2>2. QED
    BY <1>0, <1>2, <2>1, FetchAddIs
<1>7. ASSUME pc'[t] \in {"refs", "idle", "addNext"}, NEW m \in Node PROVE Count(m)' = Count(m)
  <2>1. ~Holds(t, m) /\ ~Holds(t, m)'
    BY <1>2, <1>7 DEF Holds
  <2>2. QED
    BY <2>1, CountChange, ModFacts DEF One
<1>8. CASE freeListRefs[n] = 1
  <2>1. /\ pc'[t] = "addNext" /\ pc'[t] \in Adding /\ UNCHANGED <<head, node, next>>
    BY <1>0, <1>1, <1>8 DEF AddFailed, Goto, Types, LocalTypes, Adding, locals
  <2>2. Places'
    BY <1>0, <1>2, <1>3, <2>1 DEF Places, Others, Handling
  <2>3. RefsExact'
    <3> SUFFICES ASSUME NEW m \in Node PROVE RefExact(m)'
      BY DEF RefsExact
    <3>1. RefExact(m) /\ Count(m)' = Count(m)
      BY <1>0, <1>7, <2>1 DEF RefsExact
    <3>2. CASE m # n
      <4>1. /\ Handled(m, Adding)' <=> Handled(m, Adding)
            /\ Handled(m, Handling \ Adding)' <=> Handled(m, Handling \ Adding)
        BY <1>1, <1>2, <2>1, <3>2 DEF Handled, Others
      <4>2. QED
        BY <1>2, <1>3, <1>6, <3>1, <3>2, <4>1, RefExactSame
    <3>3. CASE m = n
      <4>1. Count(n) = 0
        BY <1>5, <1>8
      <4>2. Handled(n, Handling)' /\ ~Handled(n, Handling \ Adding)'
        BY <1>1, <1>4, <2>1 DEF Handled, Others, Handling
      <4>3. QED
        BY <1>2, <1>3, <1>4, <1>5, <1>6, <3>1, <3>3, <4>1, <4>2 DEF RefExact
    <3>4. QED
      BY <3>2, <3>3
  <2>4. NextKept'
    BY <1>0, <1>2, <2>1 DEF NextKept, Others
  <2>5. QED
    BY <1>0, <1>2, <1>3, <2>2, <2>3, <2>4 DEF Rest, Acyclic
<1>9. CASE freeListRefs[n] # 1
  <2>1. pc'[t] \in {"refs", "idle"}
    BY <1>0, <1>1, <1>9 DEF AddFailed, Loop, Goto, Types, LocalTypes
  <2>2. pc'[t] \notin Handling
    BY <2>1 DEF Handling, Adding
  <2>3. Places'
    BY <1>0, <1>2, <1>3, <2>2 DEF Places, Others
  <2>4. RefsExact'
    <3> SUFFICES ASSUME NEW m \in Node PROVE RefExact(m)'
      BY DEF RefsExact
    <3>1. RefExact(m) /\ Count(m)' = Count(m)
      BY <1>0, <1>7, <2>1 DEF RefsExact
    <3>2. CASE m # n
      <4>1. /\ Handled(m, Adding)' <=> Handled(m, Adding)
            /\ Handled(m, Handling \ Adding)' <=> Handled(m, Handling \ Adding)
        BY <1>1, <2>2, <3>2 DEF Handled, Others, Handling
      <4>2. QED
        BY <1>2, <1>3, <1>6, <3>1, <3>2, <4>1, RefExactSame
    <3>3. CASE m = n
      <4>1. ~Handled(n, Handling)' /\ ~Handled(n, Adding)' /\ ~Handled(n, Handling \ Adding)'
        BY <1>4, <2>2 DEF Handled, Others, Handling
      <4>2. QED
        BY <1>2, <1>3, <1>4, <1>5, <1>6, <1>9, <3>1, <3>3, <4>1 DEF RefExact
    <3>4. QED
      BY <3>2, <3>3
  <2>5. NextKept'
    BY <1>0, <1>2, <2>1 DEF NextKept, Others
  <2>6. QED
    BY <1>0, <1>2, <1>3, <2>3, <2>4, <2>5 DEF Rest, Acyclic
<1>10. QED
  BY <1>8, <1>9

-----------------------------------------------------------------------------
LEMMA InitInvariant == Init => IInv
<1> SUFFICES ASSUME Init PROVE IInv
  OBVIOUS
<1> USE DEF Init
<1>1. Types /\ HasNode
  BY ModFacts, PoolIsSeq DEF Types, LocalTypes, HasNode, Handling, Adding
<1>2. OnList = {}
  <2>1. IsClosed({}) /\ {} \in SUBSET Node
    BY NullAssumption DEF IsClosed
  <2>2. QED
    BY <2>1, ListIsSmallest DEF OnListIsSmallest
<1>3. InPool = Node
  BY PoolAssumption DEF InPool, ToSet
<1>4. Places /\ Acyclic /\ NextKept
  BY <1>2 DEF Places, Acyclic, NextKept, Handling, Adding
<1>5. ASSUME NEW n \in Node PROVE RefExact(n)
  <2>1. Holders(n) = {}
    BY DEF Holders, Holds
  <2>2. Count(n) = 0
    BY <2>1, FS_EmptySet DEF Count
  <2>3. ~Handled(n, Handling) /\ ~Handled(n, Adding) /\ ~Handled(n, Handling \ Adding)
    BY DEF Handled, Handling, Adding
  <2>4. QED
    BY <1>2, <1>3, <2>2, <2>3 DEF RefExact
<1>6. QED
  BY <1>1, <1>4, <1>5 DEF IInv, RefsExact

LEMMA StepInvariant == IInv /\ [Next]_vars => IInv'
<1> SUFFICES ASSUME IInv, [Next]_vars PROVE IInv'
  OBVIOUS
<1>1. ASSUME NEW t \in Thread, Step(t) PROVE IInv'
  <2>1. Types' /\ HasNode' /\ Others(t)
    BY <1>1, TypesStep, StepOthers DEF IInv
  <2>2. Rest'
    BY <1>1, <2>1, TryPoolKeeps, TakeFromPoolKeeps, TryGetKeeps, LoadRefsKeeps, TakeRefKeeps,
       LoadNextKeeps, PopKeeps, WonKeeps, UnrefKeeps, AddKeeps, AddLoadHeadKeeps,
       AddStoreNextKeeps, AddStoreRefsKeeps, PushKeeps, AddFailedKeeps DEF Step
  <2>3. QED
    BY <2>1, <2>2 DEF IInv, Rest
<1>2. CASE UNCHANGED vars
  <2>1. OnList' = OnList /\ InPool' = InPool
    BY <1>2 DEF OnList, IsClosed, InPool, vars, shared
  <2>2. \A n : Count(n)' = Count(n)
    BY <1>2 DEF Count, Holders, Holds, vars, locals
  <2>3. QED
    BY <1>2, <2>1, <2>2 DEF IInv, Types, LocalTypes, HasNode, Places, RefsExact, RefExact, Handled,
       Acyclic, NextKept, vars, shared, locals
<1>3. QED
  BY <1>1, <1>2 DEF Next

(* The invariant of pool and list holds however threads interleave and in  *)
(* whatever order blocks are taken and returned (concurrentqueue.h:1383,   *)
(* 1397, 1425): every reference count is the number of those who hold one, *)
(* every block is in one place, the list has no cycle.                     *)
THEOREM Invariance == Spec => []IInv
BY InitInvariant, StepInvariant, PTL DEF Spec

(* With any number of threads and blocks the 32-bit word of a node stays   *)
(* well formed: the count never reaches the flag's bit.                    *)
THEOREM TypeCorrect == Spec => []TypeOK
<1>1. IInv => TypeOK
  <2> SUFFICES ASSUME IInv PROVE TypeOK
    OBVIOUS
  <2>1. ASSUME NEW n \in Node
        PROVE  freeListRefs[n] % SHOULD_BE_ON_FREELIST <= Cardinality(Thread) + 1
    <3> DEFINE F == SHOULD_BE_ON_FREELIST
    <3>1. /\ F \in Nat /\ Cardinality(Thread) \in Nat /\ Cardinality(Thread) + 1 < F
          /\ Count(n) \in 0..Cardinality(Thread)
      BY ModFacts, CountBound
    <3>2. \/ freeListRefs[n] \in 0..(Cardinality(Thread) + 1)
          \/ \E k \in 0..Cardinality(Thread) : freeListRefs[n] = F + k
      <4>1. /\ RefExact(n)
            /\ Handled(n, Handling) <=> Handled(n, Adding) \/ Handled(n, Handling \ Adding)
        BY DEF IInv, RefsExact, Handled, Handling
      <4>2. 0 \in 0..Cardinality(Thread) /\ F = F + 0
        BY <3>1
      <4>3. \/ freeListRefs[n] \in {0, Count(n), 1 + Count(n)}
            \/ freeListRefs[n] \in {F + 0, F + Count(n)}
        BY <4>1, <4>2 DEF RefExact
      <4>4. QED
        BY <3>1, <4>2, <4>3
    <3>3. CASE freeListRefs[n] \in 0..(Cardinality(Thread) + 1)
      BY <3>1, <3>3, ModFacts
    <3>4. CASE \E k \in 0..Cardinality(Thread) : freeListRefs[n] = F + k
      BY <3>1, <3>4, ModFacts
    <3>5. QED
      BY <3>2, <3>3, <3>4
  <2>2. QED
    BY <2>1 DEF IInv, Types, LocalTypes, TypeOK
<1>2. QED
  BY <1>1, Invariance, PTL

(* concurrentqueue.h:1403: the compare-and-swap of try_get that succeeds   *)
(* installs the next pointer the node has now; there is no ABA problem.    *)
THEOREM NextIsStable == Spec => []NextStable
<1>1. IInv => NextStable
  BY DEF IInv, NextKept, NextStable
<1>2. QED
  BY <1>1, Invariance, PTL

(* No block is in two places, however many threads take and return blocks. *)
THEOREM BlocksExclusive == Spec => []Exclusive
<1>1. IInv => Exclusive
  BY DEF IInv, Places, Handling, Exclusive
<1>2. QED
  BY <1>1, Invariance, PTL

(* When no thread is inside, every free block that was ever used is on the *)
(* list, with the list's reference and no other.                           *)
THEOREM NoBlockLost == Spec => []NoneLost
<1>1. IInv => NoneLost
  <2> SUFFICES ASSUME IInv, \A t \in Thread : pc[t] = "idle", NEW n \in Node
               PROVE  IF owner[n] # Null \/ n \in InPool THEN freeListRefs[n] = 0
                      ELSE n \in OnList /\ freeListRefs[n] = 1
    BY DEF NoneLost
  <2>1. Holders(n) = {}
    BY DEF Holders, Holds
  <2>2. Count(n) = 0
    BY <2>1, FS_EmptySet DEF Count
  <2>3. ~Handled(n, Handling)
    BY DEF Handled, Handling, Adding
  <2>4. QED
    BY <2>2, <2>3 DEF IInv, RefsExact, RefExact
<1>2. QED
  BY <1>1, Invariance, PTL

(* Initial pool and list implement the pool of free blocks: a thread gives *)
(* back what it has, and gets only what nobody has.                        *)
THEOREM ImplementsPool == Spec => Implements
<1>1. Init => FP!Init
  BY DEF Init, FP!Init
<1>2. IInv /\ [Next]_vars => [FP!Next]_owner
  <2> SUFFICES ASSUME IInv, [Next]_vars, UNCHANGED owner => FALSE
               PROVE  FP!Next
    BY DEF FP!Next
  <2>1. PICK t \in Thread : Step(t)
    BY DEF Next, vars, shared
  <2>2. CASE TakeFromPool(t)
    <3>1. poolIndex < Len(InitialPool)
      BY <2>2 DEF TakeFromPool, shared
    <3>2. PICK n \in InPool : n = InitialPool[poolIndex + 1]
      BY <3>1, PoolIsSeq DEF IInv, Types, InPool
    <3>3. n \in Node /\ owner[n] = Null
      BY <3>1, <3>2, PoolIsSeq DEF IInv, Types, Places
    <3>4. FP!Acquire(t, n)
      BY <2>2, <3>1, <3>2, <3>3 DEF TakeFromPool, FP!Acquire
    <3>5. QED
      BY <3>3, <3>4 DEF FP!Next
  <2>3. CASE Won(t)
    <3>1. node[t] \in Node /\ owner[node[t]] = Null
      BY <2>3 DEF Won, IInv, HasNode, Places, Handling
    <3>2. FP!Acquire(t, node[t])
      BY <2>3, <3>1 DEF Won, FP!Acquire
    <3>3. QED
      BY <3>1, <3>2 DEF FP!Next
  <2>4. ASSUME NEW n \in Node, Add(t, n) PROVE FP!Next
    BY <2>4 DEF Add, FP!Next, FP!Release
  <2>5. QED
    BY <2>1, <2>2, <2>3, <2>4 DEF Step, TryPool, TryGet, LoadRefs, TakeRef, LoadNext, Pop, Unref,
       AddLoadHead, AddStoreNext, AddStoreRefs, Push, AddFailed, shared
<1>3. QED
  BY <1>1, <1>2, Invariance, PTL DEF Spec, Implements, FP!Spec
=============================================================================
