------------------------- MODULE ProducerListProofs -------------------------
(***************************************************************************)
(* For any number of tokens, threads and producers: the state keeps its    *)
(* type, a producer has one owner at a time, the list of producers only    *)
(* grows in front, and no token outlives its queue with a producer.        *)
(***************************************************************************)
EXTENDS ProducerList, FiniteSetTheorems, TLAPS

USE CallerAssumption, BoundAssumption

Given   == {"count", "load", "link", "push", "own"}
Created == 1..created

(* Every pointer leads to a producer that was created, a caller that is    *)
(* about to use one has one, and a token without a caller's call has none. *)
Known ==
  /\ producerListTail \in Created \cup {Null}
  /\ \A p \in ProducerBase : next[p] \in Created \cup {Null}
  /\ \A p \in ProducerBase : inactive[p] => p \in Created
  /\ \A t \in Caller : ptr[t] \in Created \cup {Null} /\ prevTail[t] \in Created \cup {Null}
  /\ \A t \in Caller : pc[t] \in Given \cup {"catch"} => ptr[t] # Null
  /\ \A t \in Token : producer[t] \in Created \cup {Null}
  /\ \A t \in Token : pc[t] = "release" => producer[t] # Null
  /\ \A t \in Token : pc[t] \notin {"constructed", "release"} => producer[t] = Null

(* add_producer counts a producer once: a created one is counted, or its   *)
(* creator is about to do it.                                              *)
Counting == {t \in Caller : pc[t] = "count"}
Counted  == IsFiniteSet(Counting) /\ created = producerCount + Cardinality(Counting)

(* The callers at the count change by at most the one that moves.          *)
LEMMA CountingChange ==
  ASSUME TypeOK, Counted, NEW t \in Caller, NEW l, Goto(t, l)
  PROVE  /\ IsFiniteSet(Counting')
         /\ pc[t] # "count" /\ l = "count" =>
              Cardinality(Counting') = Cardinality(Counting) + 1
         /\ pc[t] = "count" /\ l # "count" =>
              /\ Cardinality(Counting') = Cardinality(Counting) - 1
              /\ Cardinality(Counting) >= 1
         /\ (pc[t] = "count" <=> l = "count") => Counting' = Counting
<1>1. IsFiniteSet(Counting) /\ Cardinality(Counting) \in Nat
  BY FS_CardinalityType DEF Counted
<1>2. CASE l = "count"
  <2>1. Counting' = Counting \cup {t}
    BY <1>2 DEF Counting, Goto, TypeOK
  <2>2. t \in Counting <=> pc[t] = "count"
    BY DEF Counting
  <2> QED
    BY <1>1, <1>2, <2>1, <2>2, FS_AddElement
<1>3. CASE l # "count"
  <2>1. Counting' = Counting \ {t}
    BY <1>3 DEF Counting, Goto, TypeOK
  <2>2. t \in Counting <=> pc[t] = "count"
    BY DEF Counting
  <2>3. t \in Counting => Cardinality(Counting) >= 1
    BY <1>1, FS_EmptySet
  <2> QED
    BY <1>1, <1>3, <2>1, <2>2, <2>3, FS_RemoveElement
<1> QED
  BY <1>2, <1>3

Sound == TypeOK /\ Known /\ Counted

LEMMA SoundInit == Init => Sound
<1> SUFFICES ASSUME Init PROVE Sound
  OBVIOUS
<1>1. TypeOK
  <2>1. 0 \in 0..MaxProducers
    OBVIOUS
  <2> QED
    BY <2>1 DEF Init, TypeOK
<1>2. Known
  BY DEF Init, Known, Given, Caller
<1>3. Counting = {}
  BY DEF Init, Counting
<1>4. Counted
  BY <1>3, FS_EmptySet DEF Init, Counted
<1> QED
  BY <1>1, <1>2, <1>4 DEF Sound

(* No step leads out of Sound.                                             *)
LEMMA SoundStep == ASSUME Sound, Next PROVE Sound'
<1> USE DEF Sound
<1>0. created \in Nat /\ producerCount \in Nat /\ Cardinality(Counting) \in Nat
  BY FS_CardinalityType DEF TypeOK, Counted
<1>1. ASSUME NEW t \in Caller, Recycle(t) PROVE Sound'
  <2>1. TypeOK' /\ Known'
    BY <1>1 DEF Recycle, TypeOK, Known, Goto, PointTo, list, fields, Given, Created
  <2>2. Counted'
    BY <1>1, CountingChange DEF Recycle, Counted
  <2> QED
    BY <2>1, <2>2
<1>2. ASSUME NEW t \in Caller, Scan(t) PROVE Sound'
  <2>1. Counted'
    <3>1. CASE Goto(t, "catch")
      BY <1>2, <3>1, CountingChange DEF Scan, Counted
    <3>2. CASE pc' = pc
      BY <1>2, <3>2 DEF Scan, Counted, Counting
    <3> QED
      BY <1>2, <3>1, <3>2 DEF Scan
  <2>2. CASE Suits(t, ptr[t])
    <3>1. pc' = [pc EXCEPT ![t] = "catch"] /\ ptr' = ptr
      BY <1>2, <2>2 DEF Scan, Goto
    <3>2. TypeOK'
      BY <1>2, <2>2, <3>1 DEF Scan, TypeOK, Known, list, fields, Given, Created
    <3>3. Known'
      BY <1>2, <2>2, <3>1, <3>2 DEF Scan, TypeOK, Known, list, fields, Given, Created
    <3> QED
      BY <2>1, <3>2, <3>3
  <2>3. CASE ~Suits(t, ptr[t])
    <3>1. pc' = pc /\ ptr' = [ptr EXCEPT ![t] = next[ptr[t]]]
      BY <1>2, <2>3 DEF Scan, Goto, PointTo
    <3>2. TypeOK'
      BY <1>2, <2>3, <3>1 DEF Scan, TypeOK, Known, list, fields, Given, Created
    <3>3. Known'
      BY <1>2, <2>3, <3>1, <3>2 DEF Scan, TypeOK, Known, list, fields, Given, Created
    <3> QED
      BY <2>1, <3>2, <3>3
  <2> QED
    BY <2>2, <2>3
<1>3. ASSUME NEW t \in Caller, Catch(t) PROVE Sound'
  <2>1. Counted'
    BY <1>3, CountingChange DEF Catch, Counted
  <2>2. CASE inactive[ptr[t]]
    <3>1. /\ pc' = [pc EXCEPT ![t] = "own"] /\ ptr' = ptr
          /\ inactive' = [inactive EXCEPT ![ptr[t]] = FALSE]
      BY <1>3, <2>2 DEF Catch, Goto
    <3>2. TypeOK'
      BY <1>3, <2>2, <3>1 DEF Catch, TypeOK, Known, list, fields, Given, Created
    <3>3. Known'
      BY <1>3, <2>2, <3>1, <3>2 DEF Catch, TypeOK, Known, list, fields, Given, Created
    <3> QED
      BY <2>1, <3>2, <3>3
  <2>3. CASE ~inactive[ptr[t]]
    <3>1. /\ pc' = [pc EXCEPT ![t] = "scan"] /\ inactive' = inactive
          /\ ptr' = [ptr EXCEPT ![t] = next[ptr[t]]]
      BY <1>3, <2>3 DEF Catch, Goto, PointTo
    <3>2. TypeOK'
      BY <1>3, <2>3, <3>1 DEF Catch, TypeOK, Known, list, fields, Given, Created
    <3>3. Known'
      BY <1>3, <2>3, <3>1, <3>2 DEF Catch, TypeOK, Known, list, fields, Given, Created
    <3> QED
      BY <2>1, <3>2, <3>3
  <2> QED
    BY <2>2, <2>3
<1>4. ASSUME NEW t \in Caller, Create(t) PROVE Sound'
  <2>1. CASE created < MaxProducers /\ created' = created + 1 /\ Goto(t, "count")
                /\ PointTo(t, created + 1)
                /\ isExplicit' = [isExplicit EXCEPT ![created + 1] = (t \in Token)]
    <3>1. TypeOK' /\ Known'
      BY <1>4, <2>1, <1>0, SMTT(30) DEF Create, TypeOK, Known, Goto, PointTo, list, Given, Created,
                              ProducerBase
    <3>2. Counted'
      BY <1>4, <2>1, <1>0, CountingChange DEF Create, Counted
    <3> QED
      BY <3>1, <3>2
  <2>2. CASE /\ Goto(t, IF t \in Token THEN "constructed" ELSE "none")
             /\ UNCHANGED <<created, ptr, isExplicit>>
    <3>1. TypeOK' /\ Known'
      BY <1>4, <2>2 DEF Create, TypeOK, Known, Goto, list, Given, Created
    <3>2. Counted'
      BY <1>4, <2>2, CountingChange DEF Create, Counted
    <3> QED
      BY <3>1, <3>2
  <2> QED
    BY <1>4, <2>1, <2>2 DEF Create
<1>5. ASSUME NEW t \in Caller, Count(t) PROVE Sound'
  <2>1. Counted' /\ producerCount' = producerCount + 1 /\ producerCount + 1 <= created
    BY <1>5, <1>0, CountingChange DEF Count, Counted
  <2>2. TypeOK' /\ Known'
    BY <1>5, <2>1, <1>0 DEF Count, TypeOK, Known, Goto, list, fields, Given, Created
  <2> QED
    BY <2>1, <2>2
<1>6. ASSUME NEW t \in Caller, LoadTail(t) PROVE Sound'
  <2>1. TypeOK' /\ Known'
    BY <1>6 DEF LoadTail, TypeOK, Known, Goto, list, fields, Given, Created
  <2>2. Counted'
    BY <1>6, CountingChange DEF LoadTail, Counted
  <2> QED
    BY <2>1, <2>2
<1>7. ASSUME NEW t \in Caller, Link(t) PROVE Sound'
  <2>1. TypeOK' /\ Known'
    BY <1>7 DEF Link, TypeOK, Known, Goto, fields, Given, Created
  <2>2. Counted'
    BY <1>7, CountingChange DEF Link, Counted
  <2> QED
    BY <2>1, <2>2
<1>8. ASSUME NEW t \in Caller, Push(t) PROVE Sound'
  <2>1. Counted'
    BY <1>8, CountingChange DEF Push, Counted
  <2>2. CASE Goto(t, "own")
    <3>1. /\ pc' = [pc EXCEPT ![t] = "own"]
          /\ producerListTail' \in {producerListTail, ptr[t]}
          /\ prevTail' \in {prevTail, [prevTail EXCEPT ![t] = producerListTail]}
      BY <1>8, <2>2 DEF Push, Goto
    <3>2. TypeOK'
      BY <1>8, <2>2, <3>1 DEF Push, TypeOK, Known, list, fields, Given, Created
    <3>3. Known'
      BY <1>8, <2>2, <3>1, <3>2 DEF Push, TypeOK, Known, list, fields, Given, Created
    <3> QED
      BY <2>1, <3>2, <3>3
  <2>3. CASE Goto(t, "link")
    <3>1. /\ pc' = [pc EXCEPT ![t] = "link"]
          /\ producerListTail' \in {producerListTail, ptr[t]}
          /\ prevTail' \in {prevTail, [prevTail EXCEPT ![t] = producerListTail]}
      BY <1>8, <2>3 DEF Push, Goto
    <3>2. TypeOK'
      BY <1>8, <2>3, <3>1 DEF Push, TypeOK, Known, list, fields, Given, Created
    <3>3. Known'
      BY <1>8, <2>3, <3>1, <3>2 DEF Push, TypeOK, Known, list, fields, Given, Created
    <3> QED
      BY <2>1, <3>2, <3>3
  <2> QED
    BY <2>2, <2>3, <1>8 DEF Push
<1>9. ASSUME NEW t \in Caller, Own(t) PROVE Sound'
  <2>1. TypeOK' /\ Known'
    BY <1>9 DEF Own, TypeOK, Known, Goto, PointTo, list, Given, Created
  <2>2. Counted'
    BY <1>9, CountingChange DEF Own, Counted
  <2> QED
    BY <2>1, <2>2
<1>10. ASSUME NEW t \in Caller, DropToken(t) PROVE Sound'
  <2>1. Counted'
    BY <1>10, CountingChange DEF DropToken, Counted
  <2>2. CASE producer[t] = Null
    <3>1. pc' = [pc EXCEPT ![t] = "none"] /\ token' = token
      BY <1>10, <2>2 DEF DropToken, Goto
    <3>2. TypeOK'
      BY <1>10, <2>2, <3>1 DEF DropToken, TypeOK, Known, list, fields, Given, Created
    <3>3. Known'
      BY <1>10, <2>2, <3>1, <3>2 DEF DropToken, TypeOK, Known, list, fields, Given, Created
    <3> QED
      BY <2>1, <3>2, <3>3
  <2>3. CASE producer[t] # Null
    <3>1. pc' = [pc EXCEPT ![t] = "release"] /\ token' = [token EXCEPT ![producer[t]] = Null]
      BY <1>10, <2>3 DEF DropToken, Goto
    <3>2. TypeOK'
      BY <1>10, <2>3, <3>1 DEF DropToken, TypeOK, Known, list, fields, Given, Created
    <3>3. Known'
      BY <1>10, <2>3, <3>1, <3>2 DEF DropToken, TypeOK, Known, list, fields, Given, Created
    <3> QED
      BY <2>1, <3>2, <3>3
  <2> QED
    BY <2>2, <2>3
<1>11. ASSUME NEW t \in Caller, Release(t) PROVE Sound'
  <2>1. TypeOK'
    BY <1>11 DEF Release, TypeOK, Known, Goto, list, Given, Created
  <2>2. Known'
    BY <1>11, <2>1 DEF Release, TypeOK, Known, Goto, list, Given, Created
  <2>3. Counted'
    BY <1>11, CountingChange DEF Release, Counted
  <2> QED
    BY <2>1, <2>2, <2>3
<1>12. ASSUME NEW t \in Caller, NEW u \in Token, Swap(t, u) PROVE Sound'
  <2>1. TypeOK' /\ Known'
    BY <1>12 DEF Swap, TypeOK, Known, list, Given, Created
  <2>2. Counted'
    BY <1>12 DEF Swap, Counted, Counting
  <2> QED
    BY <2>1, <2>2
<1>13. ASSUME NEW t \in Caller, NEW u \in Token, MoveConstruct(t, u) PROVE Sound'
  <2>1. TypeOK'
    BY <1>13 DEF MoveConstruct, TypeOK, Known, Goto, list, Given, Created
  <2>2. Known'
    BY <1>13, <2>1 DEF MoveConstruct, TypeOK, Known, Goto, list, Given, Created
  <2>3. Counted'
    BY <1>13, CountingChange DEF MoveConstruct, Counted, Caller
  <2> QED
    BY <2>1, <2>2, <2>3
<1>14. ASSUME DestroyQueue PROVE Sound'
  <2>1. TypeOK'
    BY <1>14 DEF DestroyQueue, TypeOK, Known, list, fields, Given, Created
  <2>2. \A t \in Token : producer'[t] \in {producer[t], Null} /\ pc[t] # "release"
    BY <1>14 DEF DestroyQueue, Caller, TypeOK
  <2>4. Known'
    BY <1>14, <2>1, <2>2 DEF DestroyQueue, TypeOK, Known, list, fields, Given, Created
  <2>3. Counted'
    BY <1>14 DEF DestroyQueue, Counted, Counting
  <2> QED
    BY <2>1, <2>3, <2>4
<1> QED
  BY <1>1, <1>2, <1>3, <1>4, <1>5, <1>6, <1>7, <1>8, <1>9, <1>10, <1>11, <1>12, <1>13, <1>14
  DEF Next

LEMMA SoundAlways == Spec => []Sound
<1>1. Sound /\ UNCHANGED vars => Sound'
  BY DEF Sound, vars, TypeOK, Known, Counted, Counting, list, fields, Given, Created
<1>2. Sound /\ [Next]_vars => Sound'
  BY <1>1, SoundStep
<1> QED
  BY SoundInit, <1>2, PTL DEF Spec

(* The state keeps its type: in particular add_producer counts a producer  *)
(* that exists, and counts it once (concurrentqueue.h:3163-3167).          *)
THEOREM TypeCorrect == Spec => []TypeOK
<1>1. Sound => TypeOK
  BY DEF Sound
<1> QED
  BY SoundAlways, <1>1, PTL

-----------------------------------------------------------------------------
(* A caller's place in the code and its pointers tell what it has.  A step *)
(* that gives nobody anything, and makes no producer active, keeps         *)
(* OneOwner.                                                               *)
LEMMA NothingGiven ==
  ASSUME OneOwner, destroyed' = destroyed,
         \A p \in ProducerBase : inactive'[p] => inactive[p],
         \A p \in ProducerBase, t \in Caller : Has(t, p)' => Has(t, p)
  PROVE  OneOwner'
BY DEF OneOwner

(* A step that gives producer q to t alone keeps OneOwner if q was nobody's*)
(* before.                                                                 *)
LEMMA OneGiven ==
  ASSUME OneOwner, destroyed' = destroyed,
         NEW q \in ProducerBase, NEW t \in Caller,
         \A u \in Caller : ~Has(u, q),
         ~inactive'[q],
         \A p \in ProducerBase : inactive'[p] => inactive[p],
         \A p \in ProducerBase, u \in Caller :
           Has(u, p)' => Has(u, p) \/ (u = t /\ p = q)
  PROVE  OneOwner'
BY DEF OneOwner

LEMMA OneOwnerStep == ASSUME Sound, OneOwner, Next PROVE OneOwner'
<1> USE DEF Sound
<1>1. ASSUME NEW t \in Caller, \/ Recycle(t) \/ Scan(t) \/ Count(t) \/ LoadTail(t)
                               \/ Link(t) \/ Push(t) \/ Own(t) \/ DropToken(t)
      PROVE  OneOwner'
  <2>1. destroyed' = destroyed /\ inactive' = inactive
    BY <1>1 DEF Recycle, Scan, Count, LoadTail, Link, Push, Own, DropToken, fields
  <2>2. ASSUME NEW p \in ProducerBase, NEW u \in Caller, Has(u, p)' PROVE Has(u, p)
    <3>1. CASE Recycle(t) \/ Scan(t)
      BY <2>2, <3>1 DEF Recycle, Scan, Has, Goto, PointTo, TypeOK
    <3>2. CASE Count(t) \/ LoadTail(t) \/ Link(t) \/ Push(t)
      BY <2>2, <3>2 DEF Count, LoadTail, Link, Push, Has, Goto, TypeOK
    <3>3. CASE Own(t)
      BY <2>2, <3>3 DEF Own, Has, Goto, PointTo, TypeOK
    <3>4. CASE DropToken(t)
      BY <2>2, <3>4 DEF DropToken, Has, Goto, TypeOK
    <3> QED
      BY <1>1, <3>1, <3>2, <3>3, <3>4
  <2> QED
    BY <2>1, <2>2, NothingGiven
<1>2. ASSUME NEW t \in Caller, Catch(t) PROVE OneOwner'
  <2>1. ptr[t] \in ProducerBase
    BY <1>2 DEF Catch, Known, Created, TypeOK, ProducerBase
  <2>2. CASE inactive[ptr[t]]
    <3>1. destroyed' = destroyed /\ ~inactive'[ptr[t]]
          /\ \A p \in ProducerBase : inactive'[p] => inactive[p]
      BY <1>2, <2>1, <2>2 DEF Catch, TypeOK
    <3>2. ASSUME ~destroyed PROVE \A u \in Caller : ~Has(u, ptr[t])
      BY <2>1, <2>2, <3>2 DEF OneOwner
    <3>3. ASSUME NEW p \in ProducerBase, NEW u \in Caller, Has(u, p)'
          PROVE  Has(u, p) \/ (u = t /\ p = ptr[t])
      BY <1>2, <2>2, <3>3 DEF Catch, Has, Goto, TypeOK
    <3>4. CASE destroyed
      BY <3>1, <3>4 DEF OneOwner
    <3> QED
      BY <2>1, <3>1, <3>2, <3>3, <3>4, OneGiven
  <2>3. CASE ~inactive[ptr[t]]
    <3>1. destroyed' = destroyed /\ inactive' = inactive
      BY <1>2, <2>3 DEF Catch
    <3>2. ASSUME NEW p \in ProducerBase, NEW u \in Caller, Has(u, p)' PROVE Has(u, p)
      BY <1>2, <2>3, <3>2 DEF Catch, Has, Goto, PointTo, TypeOK
    <3> QED
      BY <3>1, <3>2, NothingGiven
  <2> QED
    BY <2>2, <2>3
<1>3. ASSUME NEW t \in Caller, Create(t) PROVE OneOwner'
  <2>1. destroyed' = destroyed /\ inactive' = inactive
    BY <1>3 DEF Create
  <2>2. CASE created < MaxProducers /\ created' = created + 1 /\ Goto(t, "count")
             /\ PointTo(t, created + 1)
    <3>1. created + 1 \in ProducerBase /\ created + 1 \notin Created /\ created + 1 # Null
      BY <2>2 DEF TypeOK, ProducerBase, Created
    <3>2. /\ ~inactive'[created + 1]
          /\ \A u \in Caller : ~Has(u, created + 1)
      BY <2>1, <3>1 DEF Known, Has
    <3>3. ASSUME NEW p \in ProducerBase, NEW u \in Caller, Has(u, p)'
          PROVE  Has(u, p) \/ (u = t /\ p = created + 1)
      BY <1>3, <2>2, <3>3 DEF Create, Has, Goto, PointTo, TypeOK
    <3> QED
      BY <2>1, <3>1, <3>2, <3>3, OneGiven
  <2>3. CASE /\ Goto(t, IF t \in Token THEN "constructed" ELSE "none")
             /\ UNCHANGED <<created, ptr, isExplicit>>
    <3>1. ASSUME NEW p \in ProducerBase, NEW u \in Caller, Has(u, p)' PROVE Has(u, p)
      BY <1>3, <2>3, <3>1 DEF Create, Has, Goto, TypeOK, Known, ProducerBase
    <3> QED
      BY <2>1, <3>1, NothingGiven
  <2> QED
    BY <1>3, <2>2, <2>3 DEF Create
<1>4. ASSUME NEW t \in Caller, Release(t) PROVE OneOwner'
  <2> DEFINE q == producer[t]
  <2>1. /\ t \in Token /\ pc[t] = "release" /\ q \in ProducerBase
        /\ destroyed' = destroyed /\ ptr' = ptr
        /\ pc'[t] = "none" /\ \A u \in Caller \ {t} : pc'[u] = pc[u]
        /\ \A u \in Token \ {t} : producer'[u] = producer[u]
        /\ \A p \in ProducerBase \ {q} : inactive'[p] = inactive[p]
    BY <1>4 DEF Release, Goto, TypeOK, Known
  <2>2. Has(t, q)
    BY <2>1 DEF Has
  <2>3. \A p \in ProducerBase : ~Has(t, p)' /\ \A u \in Caller \ {t} : Has(u, p)' <=> Has(u, p)
    BY <2>1 DEF Has, Caller
  <2> QED
    BY <2>1, <2>2, <2>3 DEF OneOwner
<1>5. ASSUME NEW t \in Caller, NEW u \in Token, Swap(t, u) PROVE OneOwner'
  <2>1. /\ t \in Token /\ {t, u} \subseteq Caller
        /\ pc[t] = "constructed" /\ pc[u] = "constructed" /\ pc' = pc /\ ptr' = ptr
        /\ destroyed' = destroyed /\ inactive' = inactive
        /\ producer'[t] = producer[u] /\ producer'[u] = producer[t]
        /\ \A v \in Token \ {t, u} : producer'[v] = producer[v]
    BY <1>5 DEF Swap, TypeOK, Caller
  <2>2. ASSUME NEW p \in ProducerBase
        PROVE  /\ Has(t, p)' <=> Has(u, p)
               /\ Has(u, p)' <=> Has(t, p)
               /\ \A v \in Caller \ {t, u} : Has(v, p)' <=> Has(v, p)
    BY <2>1 DEF Has, Caller
  <2> QED
    BY <2>1, <2>2 DEF OneOwner
<1>6. ASSUME NEW t \in Caller, NEW u \in Token, MoveConstruct(t, u) PROVE OneOwner'
  <2>1. /\ t \in Token /\ t # u /\ {t, u} \subseteq Caller
        /\ pc[t] = "constructed" /\ pc[u] = "none" /\ pc'[u] = "constructed"
        /\ \A v \in Caller \ {u} : pc'[v] = pc[v]
        /\ ptr' = ptr /\ destroyed' = destroyed /\ inactive' = inactive
        /\ producer'[t] = Null /\ producer'[u] = producer[t]
        /\ \A v \in Token \ {t, u} : producer'[v] = producer[v]
    BY <1>6 DEF MoveConstruct, TypeOK, Caller, Goto
  <2>2. ASSUME NEW p \in ProducerBase
        PROVE  /\ ~Has(t, p)'
               /\ Has(u, p)' <=> Has(t, p)
               /\ \A v \in Caller \ {t, u} : Has(v, p)' <=> Has(v, p)
    BY <2>1 DEF Has, Caller, ProducerBase
  <2> QED
    BY <2>1, <2>2 DEF OneOwner
<1>7. ASSUME DestroyQueue PROVE OneOwner'
  BY <1>7 DEF DestroyQueue, OneOwner
<1> QED
  BY <1>1, <1>2, <1>3, <1>4, <1>5, <1>6, <1>7 DEF Next

(* Nobody else may enqueue to a token's producer, since enqueue is not     *)
(* thread-safe on one sub-queue: a producer is one caller's, or inactive,  *)
(* however many tokens look for one at once (concurrentqueue.h:3146-3152). *)
THEOREM ProducersHaveOneOwner == Spec => []OneOwner
<1>1. Init => OneOwner
  BY DEF Init, OneOwner, Has
<1>2. Sound /\ OneOwner /\ [Next]_vars => OneOwner'
  <2>1. ASSUME OneOwner, UNCHANGED vars PROVE OneOwner'
    BY <2>1 DEF vars, fields, OneOwner, Has
  <2> QED
    BY <2>1, OneOwnerStep
<1> QED
  BY SoundAlways, <1>1, <1>2, PTL DEF Spec
-----------------------------------------------------------------------------
(* The list.  A producer that is being added is not on it yet and is its   *)
(* creator's alone, so linking it disturbs nobody; whoever looks for a     *)
(* producer, or has one, points to the list; and producerCount counts the  *)
(* producers on the list and those about to be pushed.                     *)
New      == {"count", "load", "link", "push"}
InFlight == {t \in Caller : pc[t] \in {"load", "link", "push"}}
Linked ==
  /\ \A t \in Caller : pc[t] \in New => ptr[t] \notin Listed
  /\ \A t, u \in Caller : t # u /\ pc[t] \in New /\ pc[u] \in New => ptr[t] # ptr[u]
  /\ \A t \in Caller : pc[t] = "push" => next[ptr[t]] = prevTail[t]
  /\ \A t \in Caller : pc[t] \in {"scan", "catch", "own"} => ptr[t] \in Listed \cup {Null}
  /\ \A t \in Token : producer[t] \in Listed \cup {Null}
Numbered == IsFiniteSet(InFlight) /\ producerCount = Cardinality(Listed) + Cardinality(InFlight)

LEMMA ListIsSmallest ==
  /\ Listed \subseteq ProducerBase /\ IsClosed(Listed)
  /\ \A S \in SUBSET ProducerBase : IsClosed(S) => Listed \subseteq S
BY DEF Listed, IsClosed

LEMMA ListIsSmallestNext ==
  /\ Listed' \subseteq ProducerBase /\ IsClosed(Listed)'
  /\ \A S \in SUBSET ProducerBase : IsClosed(S)' => Listed' \subseteq S
BY DEF Listed, IsClosed

LEMMA ListIsCreated == ASSUME Sound PROVE Listed \subseteq Created
<1>1. Created \subseteq ProducerBase
  BY DEF Sound, TypeOK, Created, ProducerBase
<1>2. IsClosed(Created)
  BY <1>1 DEF Sound, Known, IsClosed, ProducerBase
<1> QED
  BY <1>1, <1>2, ListIsSmallest

LEMMA ListIsFinite == IsFiniteSet(Listed) /\ IsFiniteSet(Listed')
<1>1. IsFiniteSet(ProducerBase)
  BY FS_Interval DEF ProducerBase
<1> QED
  BY <1>1, ListIsSmallest, ListIsSmallestNext, FS_Subset

(* The next pointer of a producer that is not on the list does not matter. *)
LEMMA ListStore ==
  ASSUME TypeOK, producerListTail' = producerListTail, NEW q \in ProducerBase \ Listed,
         NEW x, next' = [next EXCEPT ![q] = x]
  PROVE  Listed' = Listed
<1>1. \A p \in Listed : next'[p] = next[p]
  BY ListIsSmallest DEF TypeOK
<1>2. PICK S \in SUBSET ProducerBase : S = Listed
  BY ListIsSmallest
<1>3. PICK T \in SUBSET ProducerBase : T = Listed'
  BY ListIsSmallestNext
<1>4. T \subseteq S
  <2>1. IsClosed(S)'
    BY <1>1, <1>2, ListIsSmallest DEF IsClosed
  <2> QED
    BY <1>3, <2>1, ListIsSmallestNext
<1>5. S \subseteq T
  <2>1. IsClosed(T)
    BY <1>1, <1>2, <1>3, <1>4, ListIsSmallestNext DEF IsClosed
  <2> QED
    BY <1>2, <2>1, ListIsSmallest
<1> QED
  BY <1>2, <1>3, <1>4, <1>5

(* A push puts a producer in front.                                        *)
LEMMA ListPush ==
  ASSUME NEW q \in ProducerBase, next[q] = producerListTail, producerListTail' = q, next' = next
  PROVE  Listed' = Listed \cup {q}
<1>1. PICK S \in SUBSET ProducerBase : S = Listed \cup {q}
  BY ListIsSmallest
<1>2. PICK T \in SUBSET ProducerBase : T = Listed'
  BY ListIsSmallestNext
<1>3. T \subseteq S
  <2>1. IsClosed(S)'
    BY <1>1, ListIsSmallest DEF IsClosed
  <2> QED
    BY <1>2, <2>1, ListIsSmallestNext
<1>4. S \subseteq T
  <2>1. q \in T /\ IsClosed(T)
    BY <1>2, ListIsSmallestNext DEF IsClosed
  <2> QED
    BY <1>1, <2>1, ListIsSmallest
<1> QED
  BY <1>1, <1>2, <1>3, <1>4

LEMMA ListKept == ASSUME UNCHANGED list PROVE Listed' = Listed
BY DEF list, Listed, IsClosed

(* A step that leaves the list alone, makes no producer and gives no       *)
(* caller a pointer that does not lead to the list.                        *)
LEMMA LinkedKept ==
  ASSUME Linked, UNCHANGED <<list, prevTail>>,
         \A t \in Caller : pc'[t] \in New => pc[t] \in New /\ ptr'[t] = ptr[t],
         \A t \in Caller : pc'[t] = "push" => pc[t] = "push",
         \A t \in Caller : pc'[t] \in {"scan", "catch", "own"} => ptr'[t] \in Listed \cup {Null},
         \A t \in Token : producer'[t] \in Listed \cup {Null}
  PROVE  Linked'
<1>1. Listed' = Listed /\ next' = next /\ prevTail' = prevTail
  BY ListKept DEF list
<1>2. \A t \in Caller : pc'[t] \in New => pc[t] \in New /\ ptr'[t] = ptr[t] /\ ptr[t] \notin Listed
  BY DEF Linked
<1>3. \A t, u \in Caller : t # u /\ pc'[t] \in New /\ pc'[u] \in New => ptr'[t] # ptr'[u]
  BY <1>2 DEF Linked
<1>4. \A t \in Caller : pc'[t] = "push" => next[ptr'[t]] = prevTail[t]
  BY <1>2 DEF Linked, New
<1> QED
  BY <1>1, <1>2, <1>3, <1>4 DEF Linked

LEMMA NumberedKept ==
  ASSUME Numbered, UNCHANGED <<list, producerCount>>,
         \A t \in Caller : pc'[t] \in {"load", "link", "push"} <=> pc[t] \in {"load", "link", "push"}
  PROVE  Numbered'
<1>1. InFlight' = InFlight
  BY DEF InFlight
<1> QED
  BY <1>1, ListKept DEF Numbered
LEMMA LinkedStep == ASSUME Sound, Linked, Next PROVE Linked'
<1> USE DEF Sound
<1>0. /\ Listed \subseteq Created /\ Listed \subseteq ProducerBase
      /\ producerListTail \in Listed \cup {Null}
      /\ \A p \in Listed : next[p] \in Listed \cup {Null}
  BY ListIsCreated, ListIsSmallest DEF TypeOK, IsClosed
<1>1. ASSUME NEW t \in Caller, \/ Recycle(t) \/ Scan(t) \/ Catch(t) \/ Count(t) \/ Own(t)
                               \/ DropToken(t) \/ Release(t)
      PROVE  Linked'
  <2>1. UNCHANGED list
    BY <1>1 DEF Recycle, Scan, Catch, Count, Own, DropToken, Release
  <2>2. /\ \A u \in Caller : pc'[u] \in New => pc[u] \in New /\ ptr'[u] = ptr[u]
        /\ \A u \in Caller : pc'[u] = "push" => pc[u] = "push" /\ prevTail'[u] = prevTail[u]
    BY <1>1 DEF Recycle, Scan, Catch, Count, Own, DropToken, Release, TypeOK, Goto, PointTo, New
  <2>3. ASSUME NEW u \in Caller, pc'[u] \in {"scan", "catch", "own"}
        PROVE  ptr'[u] \in Listed \cup {Null}
    <3>1. u # t => pc'[u] = pc[u] /\ ptr'[u] = ptr[u]
      BY <1>1 DEF Recycle, Scan, Catch, Count, Own, DropToken, Release, TypeOK, Goto, PointTo
    <3>2. CASE u = t /\ (Recycle(t) \/ Count(t) \/ Own(t) \/ DropToken(t) \/ Release(t))
      BY <1>0, <2>3, <3>2 DEF Recycle, Count, Own, DropToken, Release, TypeOK, Goto, PointTo
    <3>3. CASE u = t /\ (Scan(t) \/ Catch(t))
      <4>1. ptr[t] \in Listed
        BY <3>3 DEF Scan, Catch, Linked, Known
      <4>2. ptr'[t] \in {ptr[t], next[ptr[t]]}
        BY <3>3 DEF Scan, Catch, PointTo, TypeOK
      <4> QED
        BY <1>0, <3>3, <4>1, <4>2
    <3> QED
      BY <1>1, <2>3, <3>1, <3>2, <3>3 DEF Linked
  <2>4. \A u \in Token : producer'[u] \in Listed \cup {Null}
    BY <1>1 DEF Recycle, Scan, Catch, Count, Own, DropToken, Release, TypeOK, Linked
  <2>5. CASE ~Own(t)
    <3>1. prevTail' = prevTail
      BY <1>1, <2>5 DEF Recycle, Scan, Catch, Count, DropToken, Release
    <3> QED
      BY <2>1, <2>2, <2>3, <2>4, <3>1, LinkedKept
  <2>6. CASE Own(t)
    <3>1. Listed' = Listed /\ next' = next
      BY <2>1, ListKept DEF list
    <3>2. \A u \in Caller : pc'[u] = "push" => next[ptr'[u]] = prevTail'[u]
      BY <2>2 DEF Linked, New
    <3>3. \A u, v \in Caller : u # v /\ pc'[u] \in New /\ pc'[v] \in New => ptr'[u] # ptr'[v]
      BY <2>2 DEF Linked
    <3>4. \A u \in Caller : pc'[u] \in New => ptr'[u] \notin Listed
      BY <2>2 DEF Linked
    <3> QED
      BY <2>3, <2>4, <3>1, <3>2, <3>3, <3>4 DEF Linked
  <2> QED
    BY <2>5, <2>6
<1>2. ASSUME NEW t \in Caller, Create(t) PROVE Linked'
  <2>1. CASE /\ created < MaxProducers /\ created' = created + 1 /\ Goto(t, "count")
             /\ PointTo(t, created + 1)
    <3>1. created + 1 \notin Created
      BY DEF TypeOK, Created
    <3>2. \A u \in Caller : ptr[u] # created + 1
      BY <2>1, <3>1 DEF Known, TypeOK, ProducerBase
    <3>3. /\ ptr'[t] = created + 1 /\ \A u \in Caller \ {t} : ptr'[u] = ptr[u]
          /\ pc'[t] = "count" /\ \A u \in Caller \ {t} : pc'[u] = pc[u]
          /\ UNCHANGED <<list, prevTail, producer>>
      BY <1>2, <2>1 DEF Create, Goto, PointTo, TypeOK
    <3>4. Listed' = Listed /\ next' = next
      BY <3>3, ListKept DEF list
    <3>5. \A u \in Caller : pc'[u] \in New => ptr'[u] \notin Listed
      BY <1>0, <3>1, <3>3 DEF Linked
    <3>6. \A u, v \in Caller : u # v /\ pc'[u] \in New /\ pc'[v] \in New => ptr'[u] # ptr'[v]
      BY <3>2, <3>3 DEF Linked
    <3> QED
      BY <3>3, <3>4, <3>5, <3>6 DEF Linked
  <2>2. CASE /\ Goto(t, IF t \in Token THEN "constructed" ELSE "none")
             /\ UNCHANGED <<created, ptr, isExplicit>>
    <3>1. /\ \A u \in Caller : pc'[u] \in {pc[u], "constructed", "none"}
          /\ UNCHANGED <<list, ptr, prevTail, producer>>
      BY <1>2, <2>2 DEF Create, Goto, TypeOK
    <3> QED
      BY <3>1, LinkedKept DEF Linked, New
  <2> QED
    BY <1>2, <2>1, <2>2 DEF Create
<1>3. ASSUME NEW t \in Caller, LoadTail(t) PROVE Linked'
  <2>1. /\ pc[t] = "load" /\ pc'[t] = "link" /\ \A u \in Caller \ {t} : pc'[u] = pc[u]
        /\ \A u \in Caller \ {t} : prevTail'[u] = prevTail[u]
        /\ UNCHANGED <<list, ptr, producer>>
    BY <1>3 DEF LoadTail, Goto, TypeOK
  <2>2. Listed' = Listed /\ next' = next
    BY <2>1, ListKept DEF list
  <2> QED
    BY <2>1, <2>2 DEF Linked, New
<1>4. ASSUME NEW t \in Caller, Link(t) PROVE Linked'
  <2>1. /\ pc[t] = "link" /\ pc'[t] = "push" /\ \A u \in Caller \ {t} : pc'[u] = pc[u]
        /\ next' = [next EXCEPT ![ptr[t]] = prevTail[t]]
        /\ UNCHANGED <<producerListTail, ptr, prevTail, producer>>
    BY <1>4 DEF Link, Goto, TypeOK
  <2>2. ptr[t] \in ProducerBase \ Listed
    BY <2>1 DEF Linked, New, Known, Given, TypeOK
  <2>3. Listed' = Listed
    BY <2>1, <2>2, ListStore
  <2>4. \A u \in Caller : pc'[u] = "push" => next'[ptr[u]] = prevTail[u]
    BY <2>1, <2>2 DEF Linked, New, TypeOK
  <2> QED
    BY <2>1, <2>3, <2>4 DEF Linked, New
<1>5. ASSUME NEW t \in Caller, Push(t) PROVE Linked'
  <2>1. pc[t] = "push" /\ UNCHANGED <<next, ptr, producer>>
    BY <1>5 DEF Push
  <2>2. ptr[t] \in ProducerBase \ Listed /\ next[ptr[t]] = prevTail[t]
    BY <2>1 DEF Linked, New, Known, Given, TypeOK
  <2>3. CASE producerListTail = prevTail[t] /\ producerListTail' = ptr[t] /\ Goto(t, "own")
             /\ UNCHANGED prevTail
    <3>1. Listed' = Listed \cup {ptr[t]}
      BY <2>1, <2>2, <2>3, ListPush
    <3>2. pc'[t] = "own" /\ \A u \in Caller \ {t} : pc'[u] = pc[u]
      BY <2>3 DEF Goto, TypeOK
    <3>3. \A u \in Caller : pc'[u] \in New => ptr[u] \notin Listed'
      BY <2>1, <3>1, <3>2 DEF Linked, New
    <3> QED
      BY <2>1, <2>3, <3>1, <3>2, <3>3 DEF Linked, New
  <2>4. CASE prevTail' = [prevTail EXCEPT ![t] = producerListTail] /\ Goto(t, "link")
             /\ UNCHANGED producerListTail
    <3>1. /\ pc'[t] = "link" /\ \A u \in Caller \ {t} : pc'[u] = pc[u]
          /\ \A u \in Caller \ {t} : prevTail'[u] = prevTail[u]
      BY <2>4 DEF Goto, TypeOK
    <3>2. Listed' = Listed
      BY <2>1, <2>4, ListKept DEF list
    <3> QED
      BY <2>1, <3>1, <3>2 DEF Linked, New
  <2> QED
    BY <1>5, <2>3, <2>4 DEF Push
<1>6. ASSUME NEW t \in Caller, NEW u \in Token, Swap(t, u) \/ MoveConstruct(t, u) PROVE Linked'
  <2>1. /\ UNCHANGED <<list, ptr, prevTail>> /\ \A v \in Caller : pc'[v] \in {pc[v], "constructed"}
        /\ \A v \in Token : \/ producer'[v] = Null
                            \/ \E w \in Token : producer'[v] = producer[w]
    BY <1>6 DEF Swap, MoveConstruct, Goto, TypeOK
  <2> QED
    BY <2>1, LinkedKept DEF Linked, New
<1>7. ASSUME DestroyQueue PROVE Linked'
  <2>1. /\ UNCHANGED <<list, ptr, prevTail, pc>>
        /\ \A v \in Token : producer'[v] \in {Null, producer[v]}
    BY <1>7 DEF DestroyQueue
  <2> QED
    BY <2>1, LinkedKept DEF Linked, New
<1> QED
  BY <1>1, <1>2, <1>3, <1>4, <1>5, <1>6, <1>7 DEF Next

LEMMA NumberedStep == ASSUME Sound, Linked, Numbered, Next PROVE Numbered'
<1> USE DEF Sound
<1>1. ASSUME NEW t \in Caller, \/ Recycle(t) \/ Scan(t) \/ Catch(t) \/ Create(t) \/ LoadTail(t)
                               \/ Own(t) \/ DropToken(t) \/ Release(t)
      PROVE  Numbered'
  <2>1. UNCHANGED <<list, producerCount>>
    BY <1>1 DEF Recycle, Scan, Catch, Create, LoadTail, Own, DropToken, Release
  <2>2. \A u \in Caller : pc'[u] \in {"load", "link", "push"} <=> pc[u] \in {"load", "link", "push"}
    BY <1>1 DEF Recycle, Scan, Catch, Create, LoadTail, Own, DropToken, Release, TypeOK, Goto
  <2> QED
    BY <2>1, <2>2, NumberedKept
<1>2. /\ Cardinality(Listed) \in Nat /\ Cardinality(InFlight) \in Nat /\ IsFiniteSet(Listed)
      /\ IsFiniteSet(InFlight)
  BY ListIsFinite, FS_CardinalityType DEF Numbered
<1>3. ASSUME NEW t \in Caller, Count(t) PROVE Numbered'
  <2>1. InFlight' = InFlight \cup {t} /\ t \notin InFlight
    BY <1>3 DEF Count, Goto, TypeOK, InFlight
  <2>2. IsFiniteSet(InFlight') /\ Cardinality(InFlight') = Cardinality(InFlight) + 1
    BY <1>2, <2>1, FS_AddElement
  <2>3. Listed' = Listed /\ producerCount' = producerCount + 1
    BY <1>3, ListKept DEF Count
  <2> QED
    BY <1>2, <2>2, <2>3 DEF Numbered
<1>4. ASSUME NEW t \in Caller, Link(t) PROVE Numbered'
  <2>1. ptr[t] \in ProducerBase \ Listed
    BY <1>4 DEF Link, Linked, New, Known, Given, TypeOK
  <2>2. Listed' = Listed /\ producerCount' = producerCount
    BY <1>4, <2>1, ListStore DEF Link
  <2>3. InFlight' = InFlight
    BY <1>4 DEF Link, Goto, TypeOK, InFlight
  <2> QED
    BY <2>2, <2>3 DEF Numbered
<1>5. ASSUME NEW t \in Caller, Push(t) PROVE Numbered'
  <2>1. pc[t] = "push" /\ UNCHANGED <<next, producerCount>>
    BY <1>5 DEF Push
  <2>2. ptr[t] \in ProducerBase \ Listed /\ next[ptr[t]] = prevTail[t]
    BY <2>1 DEF Linked, New, Known, Given, TypeOK
  <2>3. CASE producerListTail = prevTail[t] /\ producerListTail' = ptr[t] /\ Goto(t, "own")
    <3>1. Listed' = Listed \cup {ptr[t]}
      BY <2>1, <2>2, <2>3, ListPush
    <3>2. Cardinality(Listed') = Cardinality(Listed) + 1
      BY <1>2, <2>2, <3>1, FS_AddElement
    <3>3. InFlight' = InFlight \ {t} /\ t \in InFlight
      BY <2>1, <2>3 DEF Goto, TypeOK, InFlight
    <3>4. IsFiniteSet(InFlight') /\ Cardinality(InFlight') = Cardinality(InFlight) - 1
      BY <1>2, <3>3, FS_RemoveElement
    <3> QED
      BY <1>2, <2>1, <3>2, <3>4 DEF Numbered
  <2>4. CASE Goto(t, "link") /\ UNCHANGED producerListTail
    <3>1. \A u \in Caller : pc'[u] \in {"load", "link", "push"} <=> pc[u] \in {"load", "link", "push"}
      BY <2>1, <2>4 DEF Goto, TypeOK
    <3> QED
      BY <2>1, <2>4, <3>1, NumberedKept DEF list
  <2> QED
    BY <1>5, <2>3, <2>4 DEF Push
<1>6. ASSUME NEW t \in Caller, NEW u \in Token, Swap(t, u) \/ MoveConstruct(t, u) PROVE Numbered'
  <2>1. /\ UNCHANGED <<list, producerCount>>
        /\ \A v \in Caller : pc'[v] = pc[v] \/ (pc[v] = "none" /\ pc'[v] = "constructed")
    BY <1>6 DEF Swap, MoveConstruct, Goto, TypeOK
  <2> QED
    BY <2>1, NumberedKept
<1>7. ASSUME DestroyQueue PROVE Numbered'
  BY <1>7, NumberedKept DEF DestroyQueue
<1> QED
  BY <1>1, <1>3, <1>4, <1>5, <1>6, <1>7 DEF Next
ListSound == Sound /\ Linked /\ Numbered

LEMMA ListSoundAlways == Spec => []ListSound
<1>1. Init => ListSound
  <2> SUFFICES ASSUME Init PROVE Linked /\ Numbered
    BY SoundInit DEF ListSound
  <2>1. Linked
    BY DEF Init, Linked, New, Caller
  <2>2. InFlight = {}
    BY DEF Init, InFlight
  <2>3. Listed = {}
    <3>1. IsClosed({})
      BY DEF Init, IsClosed, ProducerBase
    <3> QED
      BY <3>1, ListIsSmallest
  <2>4. Numbered
    BY <2>2, <2>3, FS_EmptySet DEF Numbered, Init
  <2> QED
    BY <2>1, <2>4
<1>2. ASSUME ListSound, UNCHANGED vars PROVE Linked' /\ Numbered'
  <2>1. UNCHANGED <<list, producerCount, pc, ptr, prevTail, producer>>
    BY <1>2 DEF vars
  <2>2. Numbered'
    BY <1>2, <2>1, NumberedKept DEF ListSound
  <2>3. Linked'
    BY <1>2, <2>1, LinkedKept DEF ListSound, Linked
  <2> QED
    BY <2>2, <2>3
<1>3. ListSound /\ Sound' /\ [Next]_vars => ListSound'
  BY <1>2, LinkedStep, NumberedStep DEF ListSound
<1> QED
  BY <1>1, <1>3, SoundAlways, PTL DEF Spec

(* Consumers may walk the list without a lock: it only grows, in front,    *)
(* and is never longer than producerCount (concurrentqueue.h:3170-3173,    *)
(* 1321).                                                                  *)
THEOREM ListGrowsInFront == Spec => ListOnlyGrows
<1> DEFINE Grows == /\ \A p \in Listed : next'[p] = next[p]
                    /\ \/ UNCHANGED producerListTail
                       \/ /\ producerListTail' \in ProducerBase \ Listed
                          /\ next'[producerListTail'] = producerListTail
<1>1. ASSUME ListSound, Next PROVE Grows
  <2>1. ASSUME NEW t \in Caller, Link(t) PROVE Grows
    <3>1. ptr[t] \in ProducerBase \ Listed
      BY <1>1, <2>1 DEF ListSound, Sound, Link, Linked, New, Known, Given, TypeOK
    <3> QED
      BY <1>1, <2>1, <3>1, ListIsSmallest DEF ListSound, Sound, Link, TypeOK
  <2>2. ASSUME NEW t \in Caller, Push(t) PROVE Grows
    <3>1. ptr[t] \in ProducerBase \ Listed /\ next[ptr[t]] = prevTail[t]
      BY <1>1, <2>2 DEF ListSound, Sound, Push, Linked, New, Known, Given, TypeOK
    <3> QED
      BY <2>2, <3>1 DEF Push
  <2>3. ASSUME UNCHANGED list PROVE Grows
    BY <2>3 DEF list
  <2>4. \A t \in Caller : \/ Recycle(t) \/ Scan(t) \/ Catch(t) \/ Create(t) \/ Count(t)
                          \/ LoadTail(t) \/ Own(t) \/ DropToken(t) \/ Release(t)
                          \/ \E u \in Token : Swap(t, u) \/ MoveConstruct(t, u)
                          => UNCHANGED list
    BY DEF Recycle, Scan, Catch, Create, Count, LoadTail, Own, DropToken, Release, Swap,
           MoveConstruct
  <2>5. DestroyQueue => UNCHANGED list
    BY DEF DestroyQueue
  <2> HIDE DEF Grows
  <2> QED
    BY <1>1, <2>1, <2>2, <2>3, <2>4, <2>5 DEF Next
<1>2. ASSUME ListSound' PROVE Cardinality(Listed') <= producerCount'
  <2>1. Cardinality(Listed') \in Nat /\ Cardinality(InFlight') \in Nat
    BY <1>2, ListIsFinite, FS_CardinalityType DEF ListSound, Numbered
  <2> QED
    BY <1>2, <2>1 DEF ListSound, Numbered
<1>3. ListSound /\ ListSound' /\ [Next]_vars
        => [/\ \A p \in Listed : next'[p] = next[p]
            /\ \/ UNCHANGED producerListTail
               \/ /\ producerListTail' \in ProducerBase \ Listed
                  /\ next'[producerListTail'] = producerListTail
            /\ Cardinality(Listed') <= producerCount']_vars
  BY <1>1, <1>2
<1> QED
  BY <1>3, ListSoundAlways, PTL DEF Spec, ListOnlyGrows

-----------------------------------------------------------------------------
(* The back pointers.  As long as the queue lives, a token's producer      *)
(* points back to it, so that the queue's destructor finds every token.    *)
BackPointers ==
  /\ ~destroyed => \A t \in Token :
       pc[t] = "constructed" /\ producer[t] # Null => token[producer[t]] = t
  /\ destroyed => \A t \in Caller :
       pc[t] \in {"none", "constructed"} /\ (t \in Token => producer[t] = Null)

LEMMA BackPointersStep ==
  ASSUME ListSound, OneOwner, BackPointers, Next
  PROVE  BackPointers'
<1> USE DEF ListSound, Sound
<1>1. ASSUME NEW t \in Caller, \/ Recycle(t) \/ Scan(t) \/ Catch(t) \/ Create(t) \/ Count(t)
                               \/ LoadTail(t) \/ Link(t) \/ Push(t)
      PROVE  BackPointers'
  <2>1. UNCHANGED <<producer, token, destroyed>> /\ ~destroyed
    BY <1>1 DEF Recycle, Scan, Catch, Create, Count, LoadTail, Link, Push, fields, BackPointers
  <2>2. \A u \in Token : pc'[u] = "constructed" => pc[u] = "constructed" \/ producer[u] = Null
    <3>1. \A u \in Caller \ {t} : pc'[u] = pc[u]
      BY <1>1 DEF Recycle, Scan, Catch, Create, Count, LoadTail, Link, Push, Goto, TypeOK
    <3>2. CASE Create(t)
      <4>1. pc[t] = "scan"
        BY <3>2 DEF Create
      <4>2. t \in Token => producer[t] = Null
        BY <4>1 DEF Known, Caller
      <4> QED
        BY <3>1, <4>2 DEF Caller
    <3>3. CASE ~Create(t)
      <4>1. pc'[t] # "constructed"
        BY <1>1, <3>3 DEF Recycle, Scan, Catch, Count, LoadTail, Link, Push, Goto, TypeOK
      <4> QED
        BY <3>1, <4>1 DEF Caller
    <3> QED
      BY <3>2, <3>3
  <2> QED
    BY <2>1, <2>2 DEF BackPointers
<1>2. ASSUME NEW t \in Caller, Own(t) PROVE BackPointers'
  <2>1. pc[t] = "own" /\ ~destroyed /\ destroyed' = destroyed /\ ptr[t] \in ProducerBase
    BY <1>2 DEF Own, BackPointers, Known, Given, TypeOK
  <2>2. \A u \in Caller \ {t} : pc'[u] = pc[u]
    BY <1>2 DEF Own, Goto, TypeOK
  <2>3. CASE t \notin Token
    BY <1>2, <2>1, <2>2, <2>3 DEF Own, BackPointers, Caller
  <2>4. CASE t \in Token
    <3>1. /\ producer'[t] = ptr[t] /\ token'[ptr[t]] = t
          /\ \A u \in Token \ {t} : producer'[u] = producer[u]
          /\ \A p \in ProducerBase \ {ptr[t]} : token'[p] = token[p]
      BY <1>2, <2>1, <2>4 DEF Own, TypeOK
    <3>2. \A u \in Token \ {t} : pc[u] = "constructed" => producer[u] # ptr[t]
      BY <2>1 DEF OneOwner, Has, Caller
    <3> QED
      BY <2>1, <2>2, <3>1, <3>2 DEF BackPointers, TypeOK, Caller
  <2> QED
    BY <2>3, <2>4
<1>3. ASSUME NEW t \in Caller, NEW u \in Token, Swap(t, u) PROVE BackPointers'
  <2>1. /\ t \in Token /\ t # u /\ pc[t] = "constructed" /\ pc[u] = "constructed"
        /\ UNCHANGED <<pc, destroyed>>
        /\ producer'[t] = producer[u] /\ producer'[u] = producer[t]
        /\ \A v \in Token \ {t, u} : producer'[v] = producer[v]
        /\ \A p \in ProducerBase : token'[p] = IF p = producer[u] THEN t
                                               ELSE IF p = producer[t] THEN u ELSE token[p]
    BY <1>3 DEF Swap, TypeOK
  <2>2. CASE destroyed
    BY <2>1, <2>2 DEF BackPointers, Caller
  <2>3. CASE ~destroyed
    <3>1. \A v \in Token : producer[v] \in ProducerBase \cup {Null}
      BY DEF TypeOK
    <3>2. \A v, w \in Token : /\ v # w /\ pc[v] = "constructed" /\ pc[w] = "constructed"
                              /\ producer[v] # Null
                              => producer[v] # producer[w]
      BY <2>3, <3>1 DEF OneOwner, Has, Caller
    <3> QED
      BY <2>1, <2>3, <3>1, <3>2 DEF BackPointers
  <2> QED
    BY <2>2, <2>3
<1>4. ASSUME NEW t \in Caller, NEW u \in Token, MoveConstruct(t, u) PROVE BackPointers'
  <2>1. /\ t \in Token /\ t # u /\ pc[t] = "constructed" /\ pc'[u] = "constructed"
        /\ \A v \in Caller \ {u} : pc'[v] = pc[v]
        /\ destroyed' = destroyed
        /\ producer'[t] = Null /\ producer'[u] = producer[t]
        /\ \A v \in Token \ {t, u} : producer'[v] = producer[v]
        /\ producer[t] # Null => token' = [token EXCEPT ![producer[t]] = u]
        /\ producer[t] = Null => token' = token
    BY <1>4 DEF MoveConstruct, Goto, TypeOK, Caller
  <2>2. CASE destroyed
    BY <2>1, <2>2 DEF BackPointers, Caller
  <2>3. CASE ~destroyed /\ producer[t] = Null
    BY <2>1, <2>3 DEF BackPointers, Caller
  <2>4. CASE ~destroyed /\ producer[t] # Null
    <3>1. producer[t] \in ProducerBase
      BY <2>1, <2>4 DEF TypeOK
    <3>2. /\ token'[producer[t]] = u
          /\ \A p \in ProducerBase \ {producer[t]} : token'[p] = token[p]
      BY <2>1, <2>4, <3>1 DEF TypeOK
    <3>3. \A v \in Token \ {t} : pc[v] = "constructed" => producer[v] # producer[t]
      BY <2>1, <2>4, <3>1 DEF OneOwner, Has, Caller
    <3> QED
      BY <2>1, <2>4, <3>2, <3>3 DEF BackPointers, TypeOK, Caller
  <2> QED
    BY <2>2, <2>3, <2>4
<1>5. ASSUME NEW t \in Caller, DropToken(t) PROVE BackPointers'
  <2>1. t \in Token /\ pc[t] = "constructed" /\ UNCHANGED <<producer, destroyed>>
        /\ \A v \in Caller \ {t} : pc'[v] = pc[v]
    BY <1>5 DEF DropToken, Goto, TypeOK
  <2>2. CASE producer[t] = Null
    <3>1. pc'[t] = "none" /\ token' = token
      BY <1>5, <2>1, <2>2 DEF DropToken, Goto, TypeOK
    <3> QED
      BY <2>1, <2>2, <3>1 DEF BackPointers, Caller
  <2>3. CASE producer[t] # Null
    <3>1. pc'[t] = "release" /\ token' = [token EXCEPT ![producer[t]] = Null] /\ ~destroyed
          /\ producer[t] \in ProducerBase
      BY <1>5, <2>1, <2>3 DEF DropToken, Goto, TypeOK, BackPointers
    <3>2. \A v \in Token \ {t} : pc[v] = "constructed" => producer[v] # producer[t]
      BY <2>1, <2>3, <3>1 DEF OneOwner, Has, Caller
    <3> QED
      BY <2>1, <3>1, <3>2 DEF BackPointers, TypeOK, Caller
  <2> QED
    BY <2>2, <2>3
<1>6. ASSUME NEW t \in Caller, Release(t) PROVE BackPointers'
  <2>1. ~destroyed
    BY <1>6 DEF Release, BackPointers
  <2>2. /\ pc'[t] = "none"
        /\ \A u \in Caller \ {t} : pc'[u] = pc[u]
        /\ \A u \in Token \ {t} : producer'[u] = producer[u]
        /\ UNCHANGED <<token, destroyed>>
    BY <1>6 DEF Release, Goto, TypeOK
  <2> QED
    BY <2>1, <2>2 DEF BackPointers, Caller
<1>7. ASSUME DestroyQueue PROVE BackPointers'
  <2>1. /\ ~destroyed /\ destroyed' /\ pc' = pc
        /\ \A t \in Caller : pc[t] \in {"none", "constructed"}
        /\ \A t \in Token : producer'[t] = IF \E p \in Listed : token[p] = t THEN Null
                                           ELSE producer[t]
    BY <1>7 DEF DestroyQueue
  <2>2. ASSUME NEW t \in Token PROVE producer'[t] = Null
    <3>1. CASE producer[t] = Null
      BY <2>1, <3>1
    <3>2. CASE producer[t] # Null
      <4>1. pc[t] = "constructed" /\ producer[t] \in Listed
        BY <2>1, <3>2 DEF Known, Linked, Caller
      <4>2. token[producer[t]] = t
        BY <2>1, <3>2, <4>1 DEF BackPointers
      <4> QED
        BY <2>1, <4>1, <4>2
    <3> QED
      BY <3>1, <3>2
  <2> QED
    BY <2>1, <2>2 DEF BackPointers
<1> QED
  BY <1>1, <1>2, <1>3, <1>4, <1>5, <1>6, <1>7 DEF Next

(* A token is invalid once its queue is destroyed, however it was moved,   *)
(* swapped or given a recycled producer before (concurrentqueue.h:605).    *)
THEOREM NoTokenDangles == Spec => []NoDangling
<1>1. Init => BackPointers
  BY DEF Init, BackPointers
<1>2. ListSound /\ OneOwner /\ BackPointers /\ [Next]_vars => BackPointers'
  <2>1. ASSUME BackPointers, UNCHANGED vars PROVE BackPointers'
    BY <2>1 DEF vars, fields, BackPointers
  <2> QED
    BY <2>1, BackPointersStep
<1>3. BackPointers => NoDangling
  BY DEF BackPointers, NoDangling, Caller
<1> QED
  BY <1>1, <1>2, <1>3, ListSoundAlways, ProducersHaveOneOwner, PTL DEF Spec
=============================================================================
