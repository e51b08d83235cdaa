---------------------------- MODULE ProducerList ----------------------------
(***************************************************************************)
(* The list of a queue's producers and the tokens that own explicit ones:  *)
(* recycle_or_create_producer, add_producer, ProducerToken, and what the   *)
(* destructor of the queue does to tokens.  Producers are pushed on a      *)
(* lock-free list and stay there; a token that is destroyed leaves its     *)
(* producer inactive, for another token to take over.                      *)
(*                                                                         *)
(* One action is one access to shared memory; a token is used by one       *)
(* thread at a time.  Accesses are sequentially consistent.                *)
(***************************************************************************)
EXTENDS Integers, FiniteSets

CONSTANTS
  Token,            \* ProducerToken objects
  Implicit,         \* threads that get an implicit producer of their own
  Null,             \* nullptr
  MaxProducers      \* bound: producers ever created

ASSUME CallerAssumption == Token \cap Implicit = {} /\ Null \notin Token \cup Implicit
ASSUME BoundAssumption == MaxProducers \in Nat /\ Null \notin 0..MaxProducers

Caller == Token \cup Implicit
ProducerBase == 1..MaxProducers

VARIABLES
  producerListTail,
  producerCount,
  created,       \* producers allocated so far: 1..created
  next, isExplicit, inactive, token,       \* fields of the producers
  destroyed,     \* the queue is gone
  pc,            \* where each caller is
  ptr,           \* ptr[t]: the local of recycle_or_create_producer, then what it returns
  prevTail,      \* prevTail[t]: the local of add_producer
  producer       \* producer[t]: the token's field

list   == <<producerListTail, next>>
fields == <<isExplicit, inactive, token>>
vars   == <<list, producerCount, created, fields, destroyed, pc, ptr, prevTail, producer>>

Init ==
  /\ producerListTail = Null /\ producerCount = 0 /\ created = 0
  /\ next = [p \in ProducerBase |-> Null]
  /\ isExplicit = [p \in ProducerBase |-> FALSE] /\ inactive = [p \in ProducerBase |-> FALSE]
  /\ token = [p \in ProducerBase |-> Null]
  /\ destroyed = FALSE
  /\ pc = [t \in Caller |-> "none"]
  /\ ptr = [t \in Caller |-> Null] /\ prevTail = [t \in Caller |-> Null]
  /\ producer = [t \in Token |-> Null]

(* The producers that are on the list: the smallest set that contains the  *)
(* tail and, with a producer, its next one.                                *)
IsClosed(S) == /\ producerListTail \in ProducerBase => producerListTail \in S
               /\ \A p \in S : next[p] \in ProducerBase => next[p] \in S
Listed == {p \in ProducerBase : \A S \in SUBSET ProducerBase : IsClosed(S) => p \in S}

Goto(t, l)    == pc' = [pc EXCEPT ![t] = l]
PointTo(t, p) == ptr' = [ptr EXCEPT ![t] = p]

-----------------------------------------------------------------------------
(* recycle_or_create_producer: first look for an inactive producer.        *)
Recycle(t) ==
  /\ pc[t] = "none" /\ ~destroyed
  /\ PointTo(t, producerListTail)
  /\ Goto(t, "scan")
  /\ UNCHANGED <<list, producerCount, created, fields, destroyed, prevTail, producer>>

Suits(t, p) == inactive[p] /\ isExplicit[p] = (t \in Token)

Scan(t) ==
  /\ pc[t] = "scan" /\ ptr[t] # Null
  /\ IF Suits(t, ptr[t]) THEN Goto(t, "catch") /\ UNCHANGED ptr
                         ELSE PointTo(t, next[ptr[t]]) /\ UNCHANGED pc
  /\ UNCHANGED <<list, producerCount, created, fields, destroyed, prevTail, producer>>

Catch_NoExchange(t) ==                \* mutant: inactive.store(false)
  /\ pc[t] = "catch"
  /\ inactive' = [inactive EXCEPT ![ptr[t]] = FALSE]
  /\ Goto(t, "own")
  /\ UNCHANGED <<list, producerCount, created, isExplicit, token, destroyed, ptr, prevTail,
                 producer>>

Catch(t) ==
  /\ pc[t] = "catch"
  /\ IF inactive[ptr[t]]
     THEN /\ inactive' = [inactive EXCEPT ![ptr[t]] = FALSE]
          /\ Goto(t, "own")
          /\ UNCHANGED ptr
     ELSE /\ PointTo(t, next[ptr[t]])
          /\ Goto(t, "scan")
          /\ UNCHANGED inactive
  /\ UNCHANGED <<list, producerCount, created, isExplicit, token, destroyed, prevTail, producer>>

Create_NoNullCheck(t) ==              \* mutant: add_producer takes whatever create returned
  /\ pc[t] = "scan" /\ ptr[t] = Null
  /\ \/ /\ created < MaxProducers
        /\ created' = created + 1
        /\ PointTo(t, created + 1)
        /\ isExplicit' = [isExplicit EXCEPT ![created + 1] = (t \in Token)]
     \/ UNCHANGED <<created, ptr, isExplicit>>
  /\ Goto(t, "count")
  /\ UNCHANGED <<list, producerCount, inactive, token, destroyed, prevTail, producer>>

(* None found: create one, or fail for lack of memory (the token is then   *)
(* invalid, the thread without a producer).                                *)
Create(t) ==
  /\ pc[t] = "scan" /\ ptr[t] = Null
  /\ \/ /\ created < MaxProducers
        /\ created' = created + 1
        /\ PointTo(t, created + 1)
        /\ isExplicit' = [isExplicit EXCEPT ![created + 1] = (t \in Token)]
        /\ Goto(t, "count")
     \/ /\ Goto(t, IF t \in Token THEN "constructed" ELSE "none")
        /\ UNCHANGED <<created, ptr, isExplicit>>
  /\ UNCHANGED <<list, producerCount, inactive, token, destroyed, prevTail, producer>>

-----------------------------------------------------------------------------
(* add_producer *)
Count(t) ==
  /\ pc[t] = "count"
  /\ producerCount' = producerCount + 1
  /\ Goto(t, "load")
  /\ UNCHANGED <<list, created, fields, destroyed, ptr, prevTail, producer>>

LoadTail(t) ==
  /\ pc[t] = "load"
  /\ prevTail' = [prevTail EXCEPT ![t] = producerListTail]
  /\ Goto(t, "link")
  /\ UNCHANGED <<list, producerCount, created, fields, destroyed, ptr, producer>>

Link(t) ==
  /\ pc[t] = "link"
  /\ next' = [next EXCEPT ![ptr[t]] = prevTail[t]]
  /\ Goto(t, "push")
  /\ UNCHANGED <<producerListTail, producerCount, created, fields, destroyed, ptr, prevTail,
                 producer>>

Push_NoRelink(t) ==                   \* mutant: next is set before the loop only
  /\ pc[t] = "push"
  /\ \/ /\ producerListTail = prevTail[t]
        /\ producerListTail' = ptr[t]
        /\ Goto(t, "own")
        /\ UNCHANGED prevTail
     \/ /\ prevTail' = [prevTail EXCEPT ![t] = producerListTail]
        /\ UNCHANGED <<producerListTail, pc>>
  /\ UNCHANGED <<next, producerCount, created, fields, destroyed, ptr, producer>>

(* compare_exchange_weak, which may fail for no reason.                    *)
Push(t) ==
  /\ pc[t] = "push"
  /\ \/ /\ producerListTail = prevTail[t]
        /\ producerListTail' = ptr[t]
        /\ Goto(t, "own")
        /\ UNCHANGED prevTail
     \/ /\ prevTail' = [prevTail EXCEPT ![t] = producerListTail]
        /\ Goto(t, "link")
        /\ UNCHANGED producerListTail
  /\ UNCHANGED <<next, producerCount, created, fields, destroyed, ptr, producer>>

-----------------------------------------------------------------------------
(* ProducerToken.  An implicit producer is its thread's for good.          *)
Own(t) ==
  /\ pc[t] = "own"
  /\ Goto(t, "constructed")
  /\ IF t \in Token
     THEN /\ producer' = [producer EXCEPT ![t] = ptr[t]]
          /\ token' = [token EXCEPT ![ptr[t]] = t]
     ELSE UNCHANGED <<producer, token>>
  /\ PointTo(t, Null) /\ prevTail' = [prevTail EXCEPT ![t] = Null]
  /\ UNCHANGED <<list, producerCount, created, isExplicit, inactive, destroyed>>

Swap_KeepsBackPointers(t, u) ==       \* mutant: only the pointers are swapped
  /\ t # u /\ {t, u} \subseteq Token /\ pc[t] = "constructed" /\ pc[u] = "constructed"
  /\ producer' = [producer EXCEPT ![t] = producer[u], ![u] = producer[t]]
  /\ UNCHANGED <<list, producerCount, created, fields, destroyed, pc, ptr, prevTail>>

(* Move assignment and swap; the thread that does it owns both tokens.     *)
Swap(t, u) ==
  /\ t # u /\ {t, u} \subseteq Token /\ pc[t] = "constructed" /\ pc[u] = "constructed"
  /\ producer' = [producer EXCEPT ![t] = producer[u], ![u] = producer[t]]
  /\ token' = [p \in ProducerBase |-> IF p = producer[u] THEN t
                                      ELSE IF p = producer[t] THEN u ELSE token[p]]
  /\ UNCHANGED <<list, producerCount, created, isExplicit, inactive, destroyed, pc, ptr, prevTail>>

(* Move construction: u takes over what t has.                             *)
MoveConstruct(t, u) ==
  /\ {t, u} \subseteq Token /\ pc[t] = "constructed" /\ pc[u] = "none"
  /\ producer' = [producer EXCEPT ![t] = Null, ![u] = producer[t]]
  /\ token' = IF producer[t] # Null THEN [token EXCEPT ![producer[t]] = u] ELSE token
  /\ Goto(u, "constructed")
  /\ UNCHANGED <<list, producerCount, created, isExplicit, inactive, destroyed, ptr, prevTail>>

(* ~ProducerToken *)
DropToken(t) ==
  /\ t \in Token /\ pc[t] = "constructed"
  /\ IF producer[t] = Null
     THEN Goto(t, "none") /\ UNCHANGED token
     ELSE Goto(t, "release") /\ token' = [token EXCEPT ![producer[t]] = Null]
  /\ UNCHANGED <<list, producerCount, created, isExplicit, inactive, destroyed, ptr, prevTail,
                 producer>>

Release(t) ==
  /\ t \in Token /\ pc[t] = "release"
  /\ inactive' = [inactive EXCEPT ![producer[t]] = TRUE]
  /\ producer' = [producer EXCEPT ![t] = Null]
  /\ Goto(t, "none")
  /\ UNCHANGED <<list, producerCount, created, isExplicit, token, destroyed, ptr, prevTail>>

(* ~ConcurrentQueue, when nobody is inside the queue: the tokens that are  *)
(* left lose their producer.                                               *)
DestroyQueue ==
  /\ ~destroyed /\ \A t \in Caller : pc[t] \in {"none", "constructed"}
  /\ destroyed' = TRUE
  /\ producer' = [t \in Token |-> IF \E p \in Listed : token[p] = t
                                  THEN Null ELSE producer[t]]
  /\ UNCHANGED <<list, producerCount, created, fields, pc, ptr, prevTail>>

-----------------------------------------------------------------------------
Next ==
  \/ \E t \in Caller : \/ Recycle(t) \/ Scan(t) \/ Catch(t) \/ Create(t) \/ Count(t)
                       \/ LoadTail(t) \/ Link(t) \/ Push(t) \/ Own(t)
                       \/ DropToken(t) \/ Release(t)
                       \/ \E u \in Token : Swap(t, u) \/ MoveConstruct(t, u)
  \/ DestroyQueue

Spec == Init /\ [][Next]_vars

-----------------------------------------------------------------------------
TypeOK ==
  /\ producerListTail \in ProducerBase \cup {Null}
  /\ producerCount \in 0..MaxProducers /\ created \in 0..MaxProducers
  /\ next \in [ProducerBase -> ProducerBase \cup {Null}]
  /\ isExplicit \in [ProducerBase -> BOOLEAN] /\ inactive \in [ProducerBase -> BOOLEAN]
  /\ token \in [ProducerBase -> Token \cup {Null}]
  /\ destroyed \in BOOLEAN
  /\ pc \in [Caller -> {"none", "scan", "catch", "count", "load", "link", "push", "own",
                        "constructed", "release"}]
  /\ ptr \in [Caller -> ProducerBase \cup {Null}]
  /\ prevTail \in [Caller -> ProducerBase \cup {Null}]
  /\ producer \in [Token -> ProducerBase \cup {Null}]

(* The producer a caller has, or has been promised.                        *)
Has(t, p) == \/ pc[t] \in {"count", "load", "link", "push", "own"} /\ ptr[t] = p
             \/ t \in Token /\ pc[t] \in {"constructed", "release"} /\ producer[t] = p

(* Nobody else may enqueue to a token's producer, since enqueue is not     *)
(* thread-safe on one sub-queue: a producer is one caller's, or inactive   *)
(* (concurrentqueue.h:3146-3152).                                          *)
OneOwner ==
  ~destroyed => \A p \in ProducerBase, t \in Caller :
    Has(t, p) => /\ ~inactive[p]
                 /\ \A u \in Caller \ {t} : ~Has(u, p)

(* A token is invalid once its queue is destroyed (concurrentqueue.h:605), *)
(* however it was moved, swapped or given a recycled producer before.      *)
NoDangling == destroyed => \A t \in Token : pc[t] = "constructed" => producer[t] = Null

(* Consumers walk the list without a lock while it grows: only a producer  *)
(* that is not on it yet is added, in front, and what they have seen of it *)
(* never changes, so no sub-queue ever drops out of their sight            *)
(* (concurrentqueue.h:3170-3173).  Nor does a non-empty list go with a     *)
(* producerCount of zero, by which consumer tokens divide (1321).          *)
ListOnlyGrows ==
  [][/\ \A p \in Listed : next'[p] = next[p]
     /\ \/ UNCHANGED producerListTail
        \/ /\ producerListTail' \in ProducerBase \ Listed
           /\ next'[producerListTail'] = producerListTail
     /\ Cardinality(Listed') <= producerCount']_vars
=============================================================================
