------------------------ MODULE ProducerHashProofs -------------------------
(***************************************************************************)
(* Proofs about ProducerHash, for any number of threads, any hash values   *)
(* and any size of the first table: a thread has one producer for good, no *)
(* table fills up, and the count of producers is exact.                    *)
(*                                                                         *)
(* The argument.  A thread's entry is always found, because no slot is     *)
(* ever emptied and only the thread itself writes its entries.  And no     *)
(* table fills up, because at most m threads ever wait or are entered with *)
(* a newCount of at most m: a thread that counts itself in as the n-th has *)
(* at most n - 1 others before it, whoever left in between.                *)
(***************************************************************************)
EXTENDS ProducerHash, FiniteSetTheorems, TLAPS

Counted   == {"resize", "grow", "double", "unlock", "giveUp", "room", "noMemory"}
Holding   == {"grow", "double", "unlock", "giveUp", "giveUpUnlock"}
Slots(h)  == 0..(Cap(h) - 1)
Room(h)   == Half(h) + Cap(h) \div 4

InTable(t, h) == \E i \in Slots(h) : tables[h].key[i] = t
Entered(h)    == {t \in Thread : \E g \in 1..h : InTable(t, g)}
Waiting(m)    == {t \in Thread : pc[t] \in Counted \cup {"insert"} /\ newCount[t] <= m}
Live          == {t \in Thread : mine[t] # NoProducer \/ pc[t] \in Counted}

(* Probing for t in table h can come to slot i past slots none of which    *)
(* has a key in X.                                                         *)
Path(t, h, i, X) ==
  \E k \in Nat : /\ i = (Hash[t] + k) % Cap(h)
                 /\ \A j \in 0..(k - 1) : tables[h].key[(Hash[t] + j) % Cap(h)] \notin X

Table == UNION {[capacity : {c}, key : [0..(c - 1) -> Thread \cup {Empty}],
                 value : [0..(c - 1) -> 0..MaxProducers]] : c \in Nat \ {0}}

Types ==
  /\ tables \in Seq(Table) /\ Len(tables) # 0
  /\ count \in Nat /\ resizing \in BOOLEAN /\ created \in 0..MaxProducers
  /\ pc \in [Thread -> {"idle", "probe", "move", "count", "resize", "grow", "double", "unlock",
                        "giveUp", "giveUpUnlock", "room", "noMemory", "insert"}]
  /\ mainHash \in [Thread -> 1..Len(tables)] /\ hash \in [Thread -> 1..Len(tables)]
  /\ newCount \in [Thread -> Nat] /\ newCapacity \in [Thread -> Nat] /\ index \in [Thread -> Nat]
  /\ result \in [Thread -> 0..MaxProducers] /\ mine \in [Thread -> 0..MaxProducers]

(* An entry is where probing finds it, once in a table, with the thread's  *)
(* own producer.                                                           *)
Entries ==
  \A h \in 1..Len(tables), t \in Thread : \A i \in Slots(h) : tables[h].key[i] = t =>
    /\ tables[h].value[i] = mine[t] /\ mine[t] # NoProducer
    /\ Path(t, h, i, {Empty})
    /\ \A j \in Slots(h) : tables[h].key[j] = t => j = i

(* What a thread knows about its entries, from its place in the call.      *)
HasEntry(t) == \E h \in 1..Len(tables) : InTable(t, h)
PlaceOk(t) ==
  /\ pc[t] \in Counted \cup {"count", "giveUpUnlock"} => mine[t] = NoProducer
  /\ mine[t] # NoProducer /\ pc[t] # "insert" => HasEntry(t)
  /\ pc[t] = "probe" => /\ hash[t] <= mainHash[t]
                        /\ \A g \in (hash[t] + 1)..Len(tables) : ~InTable(t, g)
                        /\ Path(t, hash[t], index[t], {Empty, t})
  /\ pc[t] = "move" => /\ hash[t] < mainHash[t] /\ InTable(t, hash[t])
                       /\ ~InTable(t, mainHash[t]) /\ result[t] = mine[t]
                       /\ Path(t, mainHash[t], index[t], {Empty})
  /\ pc[t] = "insert" => /\ mine[t] # NoProducer /\ ~HasEntry(t)
                         /\ newCount[t] < Room(mainHash[t])
                         /\ Path(t, mainHash[t], index[t], {Empty})
Places == \A t \in Thread : PlaceOk(t)

(* The tables grow, under the lock.                                        *)
Locked ==
  /\ \A g, h \in 1..Len(tables) : g <= h => Cap(g) <= Cap(h)
  /\ \A t \in Thread : pc[t] \in Holding =>
       /\ resizing /\ \A u \in Thread \ {t} : pc[u] \notin Holding
       /\ pc[t] \in {"grow", "double"} => mainHash[t] = Len(tables)
       /\ pc[t] = "double" => newCapacity[t] >= Cap(Len(tables))

(* Each thread in the call has been counted, and where m threads or more   *)
(* fit into table h and all older ones, no more come than m.               *)
Exact   == count = Cardinality(Live)
Bounded ==
  \A h \in 1..Len(tables), m \in Nat :
    Room(h) <= m + 1 => Cardinality(Entered(h) \cup Waiting(m)) <= m

IInv == Types /\ Entries /\ Places /\ Locked /\ Exact /\ Bounded

-----------------------------------------------------------------------------
LEMMA TableFacts ==
  ASSUME NEW r \in Table
  PROVE  /\ r.capacity \in Nat \ {0}
         /\ r.key \in [0..(r.capacity - 1) -> Thread \cup {Empty}]
         /\ r.value \in [0..(r.capacity - 1) -> 0..MaxProducers]
BY DEF Table

LEMMA TablesFacts ==
  ASSUME Types
  PROVE  /\ Len(tables) \in Nat \ {0} /\ DOMAIN tables = 1..Len(tables)
         /\ \A h \in 1..Len(tables) :
              /\ tables[h] \in Table /\ Cap(h) \in Nat \ {0}
              /\ tables[h].key \in [Slots(h) -> Thread \cup {Empty}]
              /\ tables[h].value \in [Slots(h) -> 0..MaxProducers]
<1>1. tables \in Seq(Table) /\ Len(tables) # 0
  BY DEF Types
<1>2. \A h \in 1..Len(tables) : tables[h] \in Table
  BY <1>1
<1>3. QED
  BY <1>1, <1>2, TableFacts DEF Cap, Slots

LEMMA NewTableFacts ==
  ASSUME NEW c \in Nat \ {0}
  PROVE  /\ NewTable(c) \in Table /\ NewTable(c).capacity = c
         /\ \A i \in 0..(c - 1) : NewTable(c).key[i] = Empty
<1>1. MaxProducers \in Nat
  BY SizeAssumption
<1>2. NewTable(c) \in [capacity : {c}, key : [0..(c - 1) -> Thread \cup {Empty}],
                      value : [0..(c - 1) -> 0..MaxProducers]]
  BY <1>1 DEF NewTable, NoProducer
<1>3. QED
  BY <1>2 DEF Table, NewTable

(* Dividing with a remainder; and so one slot after another.               *)
LEMMA Division ==
  ASSUME NEW c \in Nat, c > 0, NEW x \in Nat
  PROVE  x % c \in 0..(c - 1) /\ \E q \in Int : x = c * q + (x % c)
OBVIOUS

LEMMA Remainder ==
  ASSUME NEW c \in Nat, c > 0, NEW q \in Int, NEW r \in 0..(c - 1)
  PROVE  (c * q + r) % c = r
OBVIOUS

LEMMA NextIsSlot ==
  ASSUME NEW c \in Nat, c > 0, NEW x \in Nat
  PROVE  x % c \in 0..(c - 1) /\ ((x % c) + 1) % c = (x + 1) % c
<1>1. PICK q \in Int : x = c * q + (x % c)
  BY Division
<1>2. PICK r \in 0..(c - 1) : r = x % c
  BY Division
<1>3. CASE r + 1 < c
  <2>1. r + 1 \in 0..(c - 1) /\ x + 1 = c * q + (r + 1)
    BY <1>1, <1>2, <1>3
  <2>2. (x + 1) % c = r + 1
    BY <2>1, Remainder
  <2>3. (r + 1) % c = r + 1
    BY <2>1
  <2>4. QED
    BY <1>2, <2>2, <2>3
<1>4. CASE r + 1 = c
  <2>1. /\ x + 1 = c * (q + 1) + 0 /\ c = c * 1 + 0
        /\ 0 \in 0..(c - 1) /\ q + 1 \in Int /\ 1 \in Int
    BY <1>1, <1>2, <1>4
  <2>2. (x + 1) % c = 0
    BY <2>1, Remainder
  <2>3. (r + 1) % c = 0
    BY <1>4, <2>1, Remainder
  <2>4. QED
    BY <1>2, <2>2, <2>3
<1>5. QED
  BY <1>2, <1>3, <1>4

(* What is written to a slot by the thread that claims it.                 *)
LEMMA ClaimFacts ==
  ASSUME Types, NEW t \in Thread, index[t] \in Slots(mainHash[t]), NEW p \in 0..MaxProducers,
         Claim(t, p)
  PROVE  /\ tables' \in Seq(Table) /\ Len(tables') = Len(tables)
         /\ \A h \in 1..Len(tables) : Cap(h)' = Cap(h)
         /\ \A h \in 1..Len(tables) : \A i \in Slots(h) :
              /\ tables'[h].key[i] = IF h = mainHash[t] /\ i = index[t] THEN t
                                     ELSE tables[h].key[i]
              /\ tables'[h].value[i] = IF h = mainHash[t] /\ i = index[t] THEN p
                                       ELSE tables[h].value[i]
<1> DEFINE m == mainHash[t]
           r == [tables[m] EXCEPT !.key[index[t]] = t, !.value[index[t]] = p]
<1>1. m \in 1..Len(tables) /\ tables \in Seq(Table)
  BY DEF Types
<1>2. tables[m] \in Table /\ index[t] \in 0..(tables[m].capacity - 1)
  BY <1>1 DEF Slots, Cap
<1>3. /\ r \in Table /\ r.capacity = tables[m].capacity
      /\ r.key = [tables[m].key EXCEPT ![index[t]] = t]
      /\ r.value = [tables[m].value EXCEPT ![index[t]] = p]
  <2>1. PICK c \in Nat \ {0} :
          tables[m] \in [capacity : {c}, key : [0..(c - 1) -> Thread \cup {Empty}],
                        value : [0..(c - 1) -> 0..MaxProducers]]
    BY <1>2 DEF Table
  <2>2. index[t] \in 0..(c - 1)
    BY <1>2, <2>1
  <2>3. r \in [capacity : {c}, key : [0..(c - 1) -> Thread \cup {Empty}],
               value : [0..(c - 1) -> 0..MaxProducers]]
    BY <2>1, <2>2
  <2>4. r \in Table
    BY <2>3 DEF Table
  <2>5. QED
    BY <2>1, <2>4
<1>4. tables' = [tables EXCEPT ![m] = r]
  BY <1>1, <1>2 DEF Claim
<1>5. tables' \in Seq(Table) /\ Len(tables') = Len(tables)
  BY <1>1, <1>3, <1>4
<1>6. \A h \in 1..Len(tables) : tables'[h] = IF h = m THEN r ELSE tables[h]
  BY <1>1, <1>4
<1>7. \A h \in 1..Len(tables) : Cap(h)' = Cap(h)
  BY <1>3, <1>6 DEF Cap
<1>8. ASSUME NEW h \in 1..Len(tables), NEW i \in Slots(h)
      PROVE  /\ tables'[h].key[i] = IF h = m /\ i = index[t] THEN t ELSE tables[h].key[i]
             /\ tables'[h].value[i] = IF h = m /\ i = index[t] THEN p ELSE tables[h].value[i]
  <2>1. CASE h # m
    BY <1>6, <2>1
  <2>2. CASE h = m
    <3>1. /\ tables'[h].key = [tables[h].key EXCEPT ![index[t]] = t]
          /\ tables'[h].value = [tables[h].value EXCEPT ![index[t]] = p]
      BY <1>3, <1>6, <2>2
    <3>2. /\ tables[h].key \in [Slots(h) -> Thread \cup {Empty}]
          /\ tables[h].value \in [Slots(h) -> 0..MaxProducers]
      BY TablesFacts
    <3>3. QED
      BY <2>2, <3>1, <3>2
  <2>3. QED
    BY <2>1, <2>2
<1>9. QED
  BY <1>5, <1>7, <1>8

LEMMA AppendFacts ==
  ASSUME Types, NEW c \in Nat \ {0}, tables' = Append(tables, NewTable(c))
  PROVE  /\ tables' \in Seq(Table) /\ Len(tables') = Len(tables) + 1
         /\ \A h \in 1..Len(tables) : tables'[h] = tables[h] /\ Cap(h)' = Cap(h)
         /\ tables'[Len(tables) + 1].capacity = c
         /\ \A i \in 0..(c - 1) : tables'[Len(tables) + 1].key[i] = Empty
<1>1. /\ tables \in Seq(Table) /\ Len(tables) \in Nat /\ NewTable(c) \in Table
      /\ NewTable(c).capacity = c /\ \A i \in 0..(c - 1) : NewTable(c).key[i] = Empty
  BY NewTableFacts, TablesFacts DEF Types
<1>2. /\ tables' \in Seq(Table) /\ Len(tables') = Len(tables) + 1
      /\ \A h \in 1..Len(tables) : tables'[h] = tables[h]
      /\ tables'[Len(tables) + 1] = NewTable(c)
  BY <1>1
<1>3. \A h \in 1..Len(tables) : Cap(h)' = Cap(h)
  BY <1>2 DEF Cap
<1>4. QED
  BY <1>1, <1>2, <1>3

(* Where a path starts, ends and goes on.                                  *)
LEMMA PathFacts ==
  ASSUME Types, NEW t \in Thread, NEW h \in 1..Len(tables), NEW X
  PROVE  /\ Start(t, h) \in Slots(h) /\ Path(t, h, Start(t, h), X)
         /\ \A i : Path(t, h, i, X) =>
              /\ i \in Slots(h)
              /\ tables[h].key[i] \notin X => Path(t, h, (i + 1) % Cap(h), X)
<1>1. Cap(h) \in Nat /\ Cap(h) > 0 /\ Hash[t] \in Nat
  BY TablesFacts, HashAssumption
<1>2. Start(t, h) \in Slots(h)
  BY <1>1, NextIsSlot DEF Start, Slots
<1>3. Path(t, h, Start(t, h), X)
  <2>1. Start(t, h) = (Hash[t] + 0) % Cap(h) /\ 0 \in Nat /\ 0..(0 - 1) = {}
    BY <1>1 DEF Start
  <2>2. QED
    BY <2>1 DEF Path
<1>4. ASSUME NEW i, Path(t, h, i, X)
      PROVE  /\ i \in Slots(h)
             /\ tables[h].key[i] \notin X => Path(t, h, (i + 1) % Cap(h), X)
  <2>1. PICK k \in Nat : /\ i = (Hash[t] + k) % Cap(h)
                         /\ \A j \in 0..(k - 1) : tables[h].key[(Hash[t] + j) % Cap(h)] \notin X
    BY <1>4 DEF Path
  <2>2. /\ Hash[t] + k \in Nat /\ k + 1 \in Nat
        /\ 0..((k + 1) - 1) = 0..(k - 1) \cup {k}
        /\ (Hash[t] + k) + 1 = Hash[t] + (k + 1)
    BY <1>1
  <2>3. i \in Slots(h) /\ (i + 1) % Cap(h) = (Hash[t] + (k + 1)) % Cap(h)
    BY <1>1, <2>1, <2>2, NextIsSlot DEF Slots
  <2>4. ASSUME tables[h].key[i] \notin X PROVE Path(t, h, (i + 1) % Cap(h), X)
    BY <2>1, <2>2, <2>3, <2>4 DEF Path
  <2>5. QED
    BY <2>3, <2>4
<1>5. QED
  BY <1>2, <1>3, <1>4

(* Probing for t does not pass an empty slot before t's entry.             *)
LEMMA NotPassed ==
  ASSUME Types, Entries, NEW t \in Thread, NEW h \in 1..Len(tables), NEW i,
         Path(t, h, i, {Empty, t}), tables[h].key[i] = Empty
  PROVE  ~InTable(t, h)
<1> SUFFICES ASSUME NEW e \in Slots(h), tables[h].key[e] = t PROVE FALSE
  BY DEF InTable
<1>1. Path(t, h, e, {Empty}) /\ t # Empty
  BY HashAssumption DEF Entries
<1>2. PICK k \in Nat : /\ i = (Hash[t] + k) % Cap(h)
                       /\ \A j \in 0..(k - 1) :
                            tables[h].key[(Hash[t] + j) % Cap(h)] \notin {Empty, t}
  BY DEF Path
<1>3. PICK m \in Nat : /\ e = (Hash[t] + m) % Cap(h)
                       /\ \A j \in 0..(m - 1) :
                            tables[h].key[(Hash[t] + j) % Cap(h)] \notin {Empty}
  BY <1>1 DEF Path
<1>4. CASE k < m
  <2>1. k \in 0..(m - 1)
    BY <1>4
  <2>2. QED
    BY <1>2, <1>3, <2>1
<1>5. CASE k = m
  BY <1>1, <1>2, <1>3, <1>5
<1>6. CASE m < k
  <2>1. m \in 0..(k - 1)
    BY <1>6
  <2>2. QED
    BY <1>2, <1>3, <2>1
<1>7. QED
  BY <1>4, <1>5, <1>6

-----------------------------------------------------------------------------
(* A step of t changes no other thread's locals.                           *)
Shaped(t) ==
  /\ pc' = [pc EXCEPT ![t] = pc'[t]] /\ mainHash' = [mainHash EXCEPT ![t] = mainHash'[t]]
  /\ hash' = [hash EXCEPT ![t] = hash'[t]] /\ index' = [index EXCEPT ![t] = index'[t]]
  /\ newCount' = [newCount EXCEPT ![t] = newCount'[t]]
  /\ newCapacity' = [newCapacity EXCEPT ![t] = newCapacity'[t]]
  /\ result' = [result EXCEPT ![t] = result'[t]] /\ mine' = [mine EXCEPT ![t] = mine'[t]]

LEMMA StepShaped ==
  ASSUME Types, NEW t \in Thread, Call(t) \/ Working(t)
  PROVE  Shaped(t)
<1>1. /\ pc = [pc EXCEPT ![t] = pc[t]] /\ mainHash = [mainHash EXCEPT ![t] = mainHash[t]]
      /\ hash = [hash EXCEPT ![t] = hash[t]] /\ index = [index EXCEPT ![t] = index[t]]
      /\ newCount = [newCount EXCEPT ![t] = newCount[t]]
      /\ newCapacity = [newCapacity EXCEPT ![t] = newCapacity[t]]
      /\ result = [result EXCEPT ![t] = result[t]] /\ mine = [mine EXCEPT ![t] = mine[t]]
      /\ DOMAIN pc = Thread /\ DOMAIN mainHash = Thread /\ DOMAIN hash = Thread
      /\ DOMAIN index = Thread /\ DOMAIN newCount = Thread /\ DOMAIN newCapacity = Thread
      /\ DOMAIN result = Thread /\ DOMAIN mine = Thread
  BY DEF Types
<1>2. CASE Call(t) \/ Found(t) \/ NotInTable(t) \/ ProbeNext(t)
  BY <1>1, <1>2 DEF Shaped, Call, Found, NotInTable, ProbeNext, Return, Goto, NextSlot, shared
<1>3. CASE MoveUp(t) \/ CountIn(t) \/ TryResize(t) \/ Grow(t) \/ DoubleAgain(t)
  BY <1>1, <1>3 DEF Shaped, MoveUp, CountIn, TryResize, Grow, DoubleAgain, Return, Goto, NextSlot,
     shared
<1>4. CASE AddTable(t) \/ Unlock(t) \/ GiveUp(t) \/ GiveUpUnlock(t) \/ CreateProducer(t)
  BY <1>1, <1>4 DEF Shaped, AddTable, Unlock, GiveUp, GiveUpUnlock, CreateProducer, Return, Goto,
     shared, locals
<1>5. CASE NoMemory(t) \/ Insert(t) \/ WaitForTable(t)
  BY <1>1, <1>5 DEF Shaped, NoMemory, Insert, WaitForTable, Return, Goto, NextSlot, shared
<1>6. QED
  BY <1>2, <1>3, <1>4, <1>5 DEF Working

Others(t) ==
  \A u \in Thread \ {t} :
    /\ pc'[u] = pc[u] /\ mainHash'[u] = mainHash[u] /\ hash'[u] = hash[u] /\ index'[u] = index[u]
    /\ newCount'[u] = newCount[u] /\ newCapacity'[u] = newCapacity[u]
    /\ result'[u] = result[u] /\ mine'[u] = mine[u]

LEMMA StepOthers ==
  ASSUME Types, NEW t \in Thread, Shaped(t)
  PROVE  Others(t)
BY DEF Types, Shaped, Others

(* So its own locals decide the types after it.                            *)
LEMMA TypesKept ==
  ASSUME Types, NEW t \in Thread, Shaped(t), tables' \in Seq(Table), Len(tables') >= Len(tables),
         count' \in Nat, resizing' \in BOOLEAN, created' \in 0..MaxProducers,
         pc'[t] \in {"idle", "probe", "move", "count", "resize", "grow", "double", "unlock",
                     "giveUp", "giveUpUnlock", "room", "noMemory", "insert"},
         mainHash'[t] \in 1..Len(tables'), hash'[t] \in 1..Len(tables'),
         newCount'[t] \in Nat, newCapacity'[t] \in Nat, index'[t] \in Nat,
         result'[t] \in 0..MaxProducers, mine'[t] \in 0..MaxProducers
  PROVE  Types'
<1>1. Len(tables) \in Nat \ {0} /\ Len(tables') \in Nat
  BY TablesFacts
<1>2. 1..Len(tables) \subseteq 1..Len(tables') /\ Len(tables') # 0
  BY <1>1
<1>3. mainHash' \in [Thread -> 1..Len(tables')] /\ hash' \in [Thread -> 1..Len(tables')]
  BY <1>2 DEF Types, Shaped
<1>4. /\ newCount' \in [Thread -> Nat] /\ newCapacity' \in [Thread -> Nat]
      /\ index' \in [Thread -> Nat]
  BY DEF Types, Shaped
<1>5. result' \in [Thread -> 0..MaxProducers] /\ mine' \in [Thread -> 0..MaxProducers]
  BY DEF Types, Shaped
<1>6. pc' \in [Thread -> {"idle", "probe", "move", "count", "resize", "grow", "double", "unlock",
                          "giveUp", "giveUpUnlock", "room", "noMemory", "insert"}]
  BY DEF Types, Shaped
<1>7. QED
  BY <1>2, <1>3, <1>4, <1>5, <1>6 DEF Types

(* Where the tables stay as they are, so does what they say of a thread.   *)
LEMMA SameTables ==
  ASSUME tables' = tables
  PROVE  /\ \A h : Cap(h)' = Cap(h) /\ Half(h)' = Half(h) /\ Room(h)' = Room(h)
         /\ \A h : Slots(h)' = Slots(h) /\ Entered(h)' = Entered(h)
         /\ \A t : HasEntry(t)' <=> HasEntry(t)
         /\ \A t, h : Start(t, h)' = Start(t, h) /\ (InTable(t, h)' <=> InTable(t, h))
         /\ \A t, h, i, X : Path(t, h, i, X)' <=> Path(t, h, i, X)
BY DEF Cap, Half, Room, Slots, Entered, Start, HasEntry, InTable, Path

(* A step that changes nothing that is shared.                             *)
LEMMA QuietTypes ==
  ASSUME Types, NEW t \in Thread, Shaped(t), UNCHANGED shared,
         pc'[t] \in {"idle", "probe", "move", "count", "resize", "grow", "double", "unlock",
                     "giveUp", "giveUpUnlock", "room", "noMemory", "insert"},
         mainHash'[t] \in 1..Len(tables), hash'[t] \in 1..Len(tables),
         newCount'[t] \in Nat, newCapacity'[t] \in Nat, index'[t] \in Nat,
         result'[t] \in 0..MaxProducers
  PROVE  Types'
<1>1. /\ tables' = tables /\ count' = count /\ resizing' = resizing /\ created' = created
      /\ mine'[t] = mine[t]
  BY DEF shared
<1>2. /\ tables \in Seq(Table) /\ count \in Nat /\ resizing \in BOOLEAN
      /\ created \in 0..MaxProducers /\ mine[t] \in 0..MaxProducers /\ Len(tables) \in Nat
  BY TablesFacts DEF Types
<1>3. Len(tables') >= Len(tables)
  BY <1>1, <1>2
<1>4. QED
  BY <1>1, <1>2, <1>3, TypesKept

(* The sets whose sizes are compared are finite, and without doubles.      *)
LEMMA FiniteSets ==
  /\ IsFiniteSet(Live) /\ IsFiniteSet(Live')
  /\ \A h, m : IsFiniteSet(Entered(h) \cup Waiting(m)) /\ IsFiniteSet((Entered(h) \cup Waiting(m))')
<1>1. \A S \in SUBSET Thread : IsFiniteSet(S)
  BY HashAssumption, FS_Subset
<1>2. /\ Live \in SUBSET Thread /\ Live' \in SUBSET Thread
      /\ \A h, m : /\ Entered(h) \cup Waiting(m) \in SUBSET Thread
                   /\ (Entered(h) \cup Waiting(m))' \in SUBSET Thread
  BY DEF Live, Entered, Waiting
<1>3. QED
  BY <1>1, <1>2

(* Smaller sets have fewer members.                                        *)
LEMMA Fewer ==
  ASSUME NEW S, IsFiniteSet(S), NEW T \in SUBSET S, NEW m \in Nat, Cardinality(S) <= m
  PROVE  Cardinality(T) <= m
<1>1. IsFiniteSet(T) /\ Cardinality(T) <= Cardinality(S)
  BY FS_Subset
<1>2. Cardinality(T) \in Nat /\ Cardinality(S) \in Nat
  BY <1>1, FS_CardinalityType
<1>3. QED
  BY <1>1, <1>2

(* What a step keeps that does not write to the tables.                    *)
LEMMA EntriesKept ==
  ASSUME Entries, UNCHANGED <<tables, mine>>
  PROVE  Entries'
BY SMTT(30) DEF Entries, Slots, Cap, Path

LEMMA PlacesKept ==
  ASSUME Places, NEW t \in Thread, Others(t), UNCHANGED tables, PlaceOk(t)'
  PROVE  Places'
<1>1. ASSUME NEW u \in Thread \ {t} PROVE PlaceOk(u)'
  <2>1. PlaceOk(u)
    BY DEF Places
  <2>2. /\ pc'[u] = pc[u] /\ mainHash'[u] = mainHash[u] /\ hash'[u] = hash[u]
        /\ index'[u] = index[u] /\ newCount'[u] = newCount[u] /\ result'[u] = result[u]
        /\ mine'[u] = mine[u]
    BY DEF Others
  <2>3. QED
    BY <2>1, <2>2 DEF PlaceOk, HasEntry, InTable, Path, Room, Half, Slots, Cap
<1>2. QED
  BY <1>1 DEF Places

LEMMA BoundedKept ==
  ASSUME Bounded, NEW t \in Thread, Others(t), UNCHANGED tables,
         \A m \in Nat : (t \in Waiting(m))' => t \in Waiting(m)
  PROVE  Bounded'
<1>1. ASSUME NEW h \in 1..Len(tables), NEW m \in Nat, Room(h)' <= m + 1
      PROVE  Cardinality(Entered(h) \cup Waiting(m))' <= m
  <2>1. (Entered(h) \cup Waiting(m))' \subseteq Entered(h) \cup Waiting(m)
    BY SameTables DEF Waiting, Others
  <2>2. Cardinality(Entered(h) \cup Waiting(m)) <= m
    BY <1>1, SameTables DEF Bounded
  <2>3. QED
    BY <2>1, <2>2, FiniteSets, Fewer
<1>2. QED
  BY <1>1 DEF Bounded

(* A step that neither writes to the tables nor counts.                    *)
LEMMA QuietKeeps ==
  ASSUME IInv, NEW t \in Thread, Others(t), UNCHANGED <<tables, mine, count>>,
         Types', PlaceOk(t)', Locked', (t \in Live)' <=> t \in Live,
         \A m \in Nat : (t \in Waiting(m))' => t \in Waiting(m)
  PROVE  IInv'
<1>1. Entries'
  BY EntriesKept DEF IInv
<1>2. Places' /\ Bounded'
  BY PlacesKept, BoundedKept DEF IInv
<1>3. Live' = Live
  BY DEF Live, Others
<1>4. QED
  BY <1>1, <1>2, <1>3 DEF IInv, Exact

(* A thread that neither takes nor has the lock.                           *)
LEMMA UnlockedKeeps ==
  ASSUME Locked, NEW t \in Thread, Others(t), UNCHANGED <<tables, resizing>>,
         pc[t] \notin Holding, pc'[t] \notin Holding
  PROVE  Locked'
<1>1. ASSUME NEW u \in Thread, pc'[u] \in Holding
      PROVE  /\ u # t /\ pc[u] = pc'[u] /\ mainHash'[u] = mainHash[u]
             /\ newCapacity'[u] = newCapacity[u]
  BY <1>1 DEF Others
<1>2. \A u \in Thread : pc'[u] \in Holding => pc[u] \in Holding
  BY <1>1
<1>3. QED
  BY <1>1, <1>2 DEF Locked, Cap

LEMMA CallKeeps ==
  ASSUME IInv, NEW t \in Thread, Others(t), Shaped(t), Call(t)
  PROVE  IInv'
<1>0. Types /\ Places /\ Locked
  BY DEF IInv
<1>1. /\ pc[t] = "idle" /\ pc'[t] = "probe" /\ hash'[t] = Current /\ mainHash'[t] = Current
      /\ index'[t] = Start(t, Current) /\ UNCHANGED <<shared, newCount, result>>
  BY <1>0 DEF Call, Goto, Types
<1>2. Current \in 1..Len(tables) /\ Len(tables) \in Nat
  BY <1>0, TablesFacts DEF Current
<1>3. Start(t, Current) \in Slots(Current) /\ Path(t, Current, Start(t, Current), {Empty, t})
  BY <1>0, <1>2, PathFacts
<1>4. Start(t, Current) \in Nat
  BY <1>3 DEF Slots
<1>5. Types'
  <2>1. newCapacity' = newCapacity
    BY DEF Call
  <2>2. QED
    BY <1>0, <1>1, <1>2, <1>4, <2>1, QuietTypes DEF Types, shared
<1>6. PlaceOk(t)'
  <2>1. Path(t, hash[t], index[t], {Empty, t})'
    BY <1>1, <1>3 DEF Path, Cap, shared
  <2>2. mine'[t] # NoProducer => HasEntry(t)'
    BY <1>0, <1>1, SameTables DEF Places, PlaceOk, shared
  <2>3. (hash'[t] + 1)..Len(tables') = {} /\ hash'[t] <= mainHash'[t]
    BY <1>1, <1>2 DEF Current, shared
  <2>4. QED
    BY <1>1, <2>1, <2>2, <2>3 DEF PlaceOk, Counted
<1>7. Locked'
  BY <1>0, <1>1, UnlockedKeeps DEF Holding, shared
<1>8. (t \in Live)' <=> t \in Live
  BY <1>1 DEF Live, Counted, shared
<1>9. \A m \in Nat : (t \in Waiting(m))' => t \in Waiting(m)
  BY <1>1 DEF Waiting, Counted
<1>10. QED
  BY <1>1, <1>5, <1>6, <1>7, <1>8, <1>9, QuietKeeps DEF shared

(* What Return leaves of the locals.                                       *)
LEMMA ReturnFacts ==
  ASSUME Types, NEW t \in Thread, NEW p, Return(t, p)
  PROVE  /\ pc'[t] = "idle" /\ result'[t] = p /\ newCapacity' = newCapacity
         /\ mainHash'[t] = 1 /\ hash'[t] = 1 /\ index'[t] = 0 /\ newCount'[t] = 0
BY DEF Return, Goto, Types

(* After a call has returned the types are right if those of what all      *)
(* threads share are.                                                      *)
LEMMA ReturnTypes ==
  ASSUME Types, NEW t \in Thread, Shaped(t), NEW p \in 0..MaxProducers, Return(t, p),
         tables' \in Seq(Table), Len(tables') = Len(tables), count' \in Nat, mine' = mine,
         resizing' \in BOOLEAN, created' = created
  PROVE  Types'
<1>1. Len(tables) \in Nat \ {0}
  BY TablesFacts
<1>2. 1 \in 1..Len(tables') /\ 0 \in Nat /\ Len(tables') >= Len(tables)
  BY <1>1
<1>3. /\ newCapacity[t] \in Nat /\ mine[t] \in 0..MaxProducers /\ created \in 0..MaxProducers
  BY DEF Types
<1>4. QED
  BY <1>2, <1>3, ReturnFacts, TypesKept

(* Outside the three loops over slots little has to be known of a thread.  *)
LEMMA PlainPlace ==
  ASSUME NEW t \in Thread, PlaceOk(t), UNCHANGED <<tables, mine>>, pc[t] # "insert",
         pc'[t] \notin {"probe", "move", "insert"},
         pc'[t] \in Counted \cup {"count", "giveUpUnlock"} => mine[t] = NoProducer
  PROVE  PlaceOk(t)'
<1>1. mine'[t] # NoProducer => HasEntry(t)'
  BY SameTables DEF PlaceOk
<1>2. QED
  BY <1>1 DEF PlaceOk

LEMMA FoundKeeps ==
  ASSUME IInv, NEW t \in Thread, Others(t), Shaped(t), Found(t)
  PROVE  IInv'
<1>0. Types /\ Entries /\ PlaceOk(t) /\ Locked
  BY DEF IInv, Places
<1>1. pc[t] = "probe" /\ tables[hash[t]].key[index[t]] = t /\ UNCHANGED shared
  BY DEF Found, Key
<1>2. hash[t] \in 1..Len(tables) /\ mainHash[t] \in 1..Len(tables) /\ Len(tables) \in Nat
  BY <1>0, TablesFacts DEF Types
<1>3. index[t] \in Slots(hash[t])
  BY <1>0, <1>1, <1>2, PathFacts DEF PlaceOk
<1>4. tables[hash[t]].value[index[t]] = mine[t] /\ mine[t] \in 0..MaxProducers
      /\ InTable(t, hash[t])
  BY <1>0, <1>1, <1>2, <1>3 DEF Entries, InTable, Types
<1>5. CASE hash[t] = mainHash[t]
  <2>1. Return(t, mine[t])
    BY <1>4, <1>5 DEF Found
  <2>2. pc'[t] = "idle" /\ Types'
    <3>1. /\ tables' = tables /\ mine' = mine /\ created' = created
          /\ count' = count /\ resizing' = resizing
      BY <1>1 DEF shared
    <3>2. tables \in Seq(Table) /\ count \in Nat /\ resizing \in BOOLEAN
      BY <1>0 DEF Types
    <3>3. QED
      BY <1>0, <1>4, <2>1, <3>1, <3>2, ReturnFacts, ReturnTypes
  <2>3. PlaceOk(t)'
    BY <1>0, <1>1, <2>2, PlainPlace DEF shared, Counted
  <2>4. Locked'
    BY <1>0, <1>1, <2>2, UnlockedKeeps DEF Holding, shared
  <2>5. ((t \in Live)' <=> t \in Live) /\ \A m \in Nat : (t \in Waiting(m))' => t \in Waiting(m)
    BY <1>1, <2>2 DEF Live, Waiting, Counted, shared
  <2>6. QED
    BY <1>1, <2>2, <2>3, <2>4, <2>5, QuietKeeps DEF shared
<1>6. CASE hash[t] # mainHash[t]
  <2>1. /\ pc'[t] = "move" /\ result'[t] = mine[t] /\ index'[t] = Start(t, mainHash[t])
        /\ UNCHANGED <<mainHash, hash, newCount, newCapacity>>
    BY <1>0, <1>4, <1>6 DEF Found, Goto, Types
  <2>2. /\ Start(t, mainHash[t]) \in Slots(mainHash[t])
        /\ Path(t, mainHash[t], Start(t, mainHash[t]), {Empty})
    BY <1>0, <1>2, PathFacts
  <2>3. Start(t, mainHash[t]) \in Nat
    BY <2>2 DEF Slots
  <2>4. Types'
    BY <1>0, <1>1, <1>4, <2>1, <2>3, QuietTypes DEF Types, shared
  <2>5. PlaceOk(t)'
    <3>1. Path(t, mainHash[t], index[t], {Empty})'
      BY <1>1, <2>1, <2>2 DEF Path, Cap, shared
    <3>2. hash[t] < mainHash[t] /\ ~InTable(t, mainHash[t])
      BY <1>0, <1>1, <1>2, <1>6 DEF PlaceOk
    <3>3. hash'[t] < mainHash'[t] /\ InTable(t, hash[t])' /\ ~InTable(t, mainHash[t])'
      BY <1>1, <1>4, <2>1, <3>2 DEF InTable, Slots, Cap, shared
    <3>4. HasEntry(t)'
      BY <1>1, <1>2, <1>4, SameTables DEF HasEntry, shared
    <3>5. QED
      BY <1>1, <2>1, <3>1, <3>3, <3>4 DEF PlaceOk, Counted, shared
  <2>6. Locked'
    BY <1>0, <1>1, <2>1, UnlockedKeeps DEF Holding, shared
  <2>7. ((t \in Live)' <=> t \in Live) /\ \A m \in Nat : (t \in Waiting(m))' => t \in Waiting(m)
    BY <1>1, <2>1 DEF Live, Waiting, Counted, shared
  <2>8. QED
    BY <1>1, <2>4, <2>5, <2>6, <2>7, QuietKeeps DEF shared
<1>7. QED
  BY <1>5, <1>6

(* When the oldest table has been searched in vain there is no entry.      *)
LEMMA NotInTableKeeps ==
  ASSUME IInv, NEW t \in Thread, Others(t), Shaped(t), NotInTable(t)
  PROVE  IInv'
<1>0. Types /\ Entries /\ PlaceOk(t) /\ Locked
  BY DEF IInv, Places
<1>1. /\ pc[t] = "probe" /\ tables[hash[t]].key[index[t]] = Empty
      /\ UNCHANGED <<shared, mainHash, newCount, newCapacity, result>>
  BY DEF NotInTable, Key
<1>2. hash[t] \in 1..Len(tables) /\ mainHash[t] \in 1..Len(tables) /\ Len(tables) \in Nat
  BY <1>0, TablesFacts DEF Types
<1>3. \A g \in hash[t]..Len(tables) : ~InTable(t, g)
  <2>1. ~InTable(t, hash[t])
    BY <1>0, <1>1, <1>2, NotPassed DEF PlaceOk
  <2>2. \A g \in hash[t]..Len(tables) : g = hash[t] \/ g \in (hash[t] + 1)..Len(tables)
    BY <1>2
  <2>3. QED
    BY <1>0, <1>1, <2>1, <2>2 DEF PlaceOk
<1>4. CASE hash[t] = 1
  <2>1. pc'[t] = "count" /\ hash' = hash /\ index' = index /\ pc' = [pc EXCEPT ![t] = "count"]
    BY <1>0, <1>4 DEF NotInTable, Goto, Types
  <2>2. Types'
    BY <1>0, <1>1, <2>1 DEF Types, shared
  <2>3. mine[t] = NoProducer
    BY <1>0, <1>1, <1>3, <1>4 DEF PlaceOk, HasEntry
  <2>4. PlaceOk(t)'
    BY <1>0, <1>1, <2>1, <2>3, PlainPlace DEF shared
  <2>5. Locked'
    BY <1>0, <1>1, <2>1, UnlockedKeeps DEF Holding, shared
  <2>6. ((t \in Live)' <=> t \in Live) /\ \A m \in Nat : (t \in Waiting(m))' => t \in Waiting(m)
    BY <1>1, <2>1 DEF Live, Waiting, Counted, shared
  <2>7. QED
    BY <1>1, <2>2, <2>4, <2>5, <2>6, QuietKeeps DEF shared
<1>5. CASE hash[t] # 1
  <2>1. /\ hash[t] - 1 \in 1..Len(tables) /\ hash'[t] = hash[t] - 1 /\ pc' = pc
        /\ index'[t] = Start(t, hash[t] - 1)
    BY <1>0, <1>2, <1>5 DEF NotInTable, Types
  <2>2. /\ Start(t, hash[t] - 1) \in Slots(hash[t] - 1)
        /\ Path(t, hash[t] - 1, Start(t, hash[t] - 1), {Empty, t})
    BY <1>0, <2>1, PathFacts
  <2>3. Start(t, hash[t] - 1) \in Nat
    BY <2>2 DEF Slots
  <2>4. Types'
    BY <1>0, <1>1, <2>1, <2>3, QuietTypes DEF Types, shared
  <2>5. PlaceOk(t)'
    <3>1. Path(t, hash[t], index[t], {Empty, t})'
      BY <1>1, <2>1, <2>2 DEF Path, Cap, shared
    <3>2. \A g \in (hash'[t] + 1)..Len(tables') : ~InTable(t, g)'
      BY <1>1, <1>2, <1>3, <2>1 DEF InTable, Slots, Cap, shared
    <3>3. hash'[t] <= mainHash'[t]
      BY <1>0, <1>1, <1>2, <2>1 DEF PlaceOk
    <3>4. mine'[t] # NoProducer => HasEntry(t)'
      BY <1>0, <1>1, SameTables DEF PlaceOk, shared
    <3>5. QED
      BY <1>1, <2>1, <3>1, <3>2, <3>3, <3>4 DEF PlaceOk, Counted
  <2>6. Locked'
    BY <1>0, <1>1, <2>1, UnlockedKeeps DEF Holding, shared
  <2>7. ((t \in Live)' <=> t \in Live) /\ \A m \in Nat : (t \in Waiting(m))' => t \in Waiting(m)
    BY <1>1, <2>1 DEF Live, Waiting, Counted, shared
  <2>8. QED
    BY <1>1, <2>4, <2>5, <2>6, <2>7, QuietKeeps DEF shared
<1>6. QED
  BY <1>4, <1>5
LEMMA ProbeNextKeeps ==
  ASSUME IInv, NEW t \in Thread, Others(t), Shaped(t), ProbeNext(t)
  PROVE  IInv'
<1>0. Types /\ PlaceOk(t) /\ Locked
  BY DEF IInv, Places
<1>1. /\ pc[t] = "probe" /\ tables[hash[t]].key[index[t]] \notin {t, Empty}
      /\ UNCHANGED <<shared, pc, mainHash, hash, newCount, newCapacity, result>>
      /\ index'[t] = (index[t] + 1) % Cap(hash[t])
  BY <1>0 DEF ProbeNext, Key, NextSlot, Types
<1>2. hash[t] \in 1..Len(tables) /\ mainHash[t] \in 1..Len(tables)
  BY <1>0 DEF Types
<1>3. Path(t, hash[t], index[t], {Empty, t})
  BY <1>0, <1>1 DEF PlaceOk
<1>4. Path(t, hash[t], index'[t], {Empty, t})
  BY <1>0, <1>1, <1>2, <1>3, PathFacts
<1>5. index'[t] \in Slots(hash[t])
  BY <1>0, <1>2, <1>4, PathFacts
<1>6. index'[t] \in Nat
  BY <1>5 DEF Slots
<1>7. Types'
  BY <1>0, <1>1, <1>2, <1>6, QuietTypes DEF Types
<1>8. PlaceOk(t)'
  <2>1. Path(t, hash[t], index[t], {Empty, t})'
    BY <1>1, <1>4 DEF Path, Cap, shared
  <2>2. \A g \in (hash'[t] + 1)..Len(tables') : ~InTable(t, g)'
    BY <1>0, <1>1 DEF PlaceOk, InTable, Slots, Cap, shared
  <2>3. mine'[t] # NoProducer => HasEntry(t)'
    BY <1>0, <1>1, SameTables DEF PlaceOk, shared
  <2>4. QED
    BY <1>0, <1>1, <2>1, <2>2, <2>3 DEF PlaceOk, Counted
<1>9. Locked'
  BY <1>0, <1>1, UnlockedKeeps DEF Holding, shared
<1>10. ((t \in Live)' <=> t \in Live) /\ \A m \in Nat : (t \in Waiting(m))' => t \in Waiting(m)
  BY <1>1 DEF Live, Waiting, shared
<1>11. QED
  BY <1>1, <1>7, <1>8, <1>9, <1>10, QuietKeeps DEF shared

(* MoveUp and Insert, where the slot is taken.                             *)
LEMMA PassedKeeps ==
  ASSUME IInv, NEW t \in Thread, Others(t), Shaped(t), pc[t] \in {"move", "insert"},
         Key(t, mainHash[t]) # Empty, NextSlot(t, mainHash[t]),
         UNCHANGED <<shared, pc, mainHash, hash, newCount, newCapacity, result>>
  PROVE  IInv'
<1>0. Types /\ PlaceOk(t) /\ Locked
  BY DEF IInv, Places
<1>1. /\ tables[mainHash[t]].key[index[t]] \notin {Empty}
      /\ index'[t] = (index[t] + 1) % Cap(mainHash[t])
  BY <1>0 DEF Key, NextSlot, Types
<1>2. hash[t] \in 1..Len(tables) /\ mainHash[t] \in 1..Len(tables)
  BY <1>0 DEF Types
<1>3. Path(t, mainHash[t], index[t], {Empty})
  BY <1>0 DEF PlaceOk
<1>4. Path(t, mainHash[t], index'[t], {Empty})
  BY <1>0, <1>1, <1>2, <1>3, PathFacts
<1>5. index'[t] \in Slots(mainHash[t])
  BY <1>0, <1>2, <1>4, PathFacts
<1>6. index'[t] \in Nat
  BY <1>5 DEF Slots
<1>7. Types'
  BY <1>0, <1>2, <1>6, QuietTypes DEF Types
<1>8. PlaceOk(t)'
  <2>1. Path(t, mainHash[t], index[t], {Empty})'
    BY <1>4 DEF Path, Cap, shared
  <2>2. QED
    BY <1>0, <2>1, SameTables DEF PlaceOk, shared, Counted
<1>9. Locked'
  BY <1>0, UnlockedKeeps DEF Holding, shared
<1>10. ((t \in Live)' <=> t \in Live) /\ \A m \in Nat : (t \in Waiting(m))' => t \in Waiting(m)
  BY DEF Live, Waiting, shared
<1>11. QED
  BY <1>7, <1>8, <1>9, <1>10, QuietKeeps DEF shared

-----------------------------------------------------------------------------
(* The steps of a new thread that are about the lock.                      *)
LEMMA TryResizeKeeps ==
  ASSUME IInv, NEW t \in Thread, Others(t), Shaped(t), TryResize(t)
  PROVE  IInv'
<1>0. Types /\ PlaceOk(t) /\ Locked
  BY DEF IInv, Places
<1>1. /\ pc[t] = "resize"
      /\ UNCHANGED <<tables, count, created, mine, hash, index, newCount, newCapacity, result>>
      /\ pc'[t] \in {"grow", "room"} /\ mainHash'[t] \in {mainHash[t], Current}
      /\ resizing' \in BOOLEAN
  BY <1>0 DEF TryResize, Goto, Types
<1>2. Current \in 1..Len(tables) /\ Len(tables) \in Nat
  BY <1>0, TablesFacts DEF Current
<1>3. Types'
  <2>1. /\ tables' \in Seq(Table) /\ Len(tables') >= Len(tables)
        /\ count' \in Nat /\ created' \in 0..MaxProducers /\ hash[t] \in 1..Len(tables')
        /\ mainHash'[t] \in 1..Len(tables')
    BY <1>0, <1>1, <1>2 DEF Types
  <2>2. /\ index'[t] \in Nat /\ newCount'[t] \in Nat /\ newCapacity'[t] \in Nat
        /\ result'[t] \in 0..MaxProducers /\ mine'[t] \in 0..MaxProducers
    BY <1>0, <1>1 DEF Types
  <2>3. QED
    BY <1>0, <1>1, <2>1, <2>2, TypesKept
<1>4. PlaceOk(t)'
  BY <1>0, <1>1, PlainPlace DEF PlaceOk, Counted
<1>5. Locked'
  <2>1. CASE newCount[t] >= Half(mainHash[t]) /\ ~resizing
    <3>1. resizing' = TRUE /\ mainHash'[t] = Current /\ pc'[t] = "grow"
      BY <1>0, <2>1 DEF TryResize, Goto, Types
    <3>2. \A u \in Thread \ {t} : pc'[u] \notin Holding
      BY <1>0, <2>1 DEF Locked, Others
    <3>3. QED
      BY <1>0, <1>1, <3>1, <3>2 DEF Locked, Cap, Current
  <2>2. CASE ~(newCount[t] >= Half(mainHash[t]) /\ ~resizing)
    <3>1. resizing' = resizing /\ pc'[t] = "room"
      BY <1>0, <2>2 DEF TryResize, Goto, Types
    <3>2. QED
      BY <1>0, <1>1, <3>1, UnlockedKeeps DEF Holding
  <2>3. QED
    BY <2>1, <2>2
<1>6. ((t \in Live)' <=> t \in Live) /\ \A m \in Nat : (t \in Waiting(m))' => t \in Waiting(m)
  BY <1>1 DEF Live, Waiting, Counted
<1>7. QED
  BY <1>1, <1>3, <1>4, <1>5, <1>6, QuietKeeps

(* Nobody else holds the lock with t, and what t knows is so.              *)
LEMMA HoldingKeeps ==
  ASSUME Locked, NEW t \in Thread, Others(t), UNCHANGED <<tables, resizing>>, pc[t] \in Holding,
         pc'[t] \in {"grow", "double"} => mainHash'[t] = Len(tables),
         pc'[t] = "double" => newCapacity'[t] >= Cap(Len(tables))
  PROVE  Locked'
<1>1. resizing' /\ \A u \in Thread \ {t} : pc'[u] \notin Holding
  BY DEF Locked, Others
<1>2. QED
  BY <1>1 DEF Locked, Cap

LEMMA ReleasingKeeps ==
  ASSUME Locked, NEW t \in Thread, Others(t), UNCHANGED tables, pc[t] \in Holding,
         pc'[t] \notin Holding
  PROVE  Locked'
<1>1. \A u \in Thread : pc'[u] \notin Holding
  BY DEF Locked, Others
<1>2. QED
  BY <1>1 DEF Locked, Cap

LEMMA GrowKeeps ==
  ASSUME IInv, NEW t \in Thread, Others(t), Shaped(t), Grow(t)
  PROVE  IInv'
<1>0. Types /\ PlaceOk(t) /\ Locked
  BY DEF IInv, Places
<1>1. /\ pc[t] = "grow" /\ pc'[t] \in {"double", "unlock"}
      /\ UNCHANGED <<shared, mainHash, hash, index, newCount, result>>
      /\ pc'[t] = "double" => newCapacity'[t] = 2 * Cap(mainHash[t])
      /\ newCapacity'[t] \in {newCapacity[t], 2 * Cap(mainHash[t])}
  BY <1>0 DEF Grow, Goto, Types
<1>2. /\ mainHash[t] = Len(tables) /\ mainHash[t] \in 1..Len(tables) /\ hash[t] \in 1..Len(tables)
      /\ Cap(mainHash[t]) \in Nat
  BY <1>0, <1>1, TablesFacts DEF Locked, Holding, Types
<1>3. newCapacity'[t] \in Nat
  BY <1>0, <1>1, <1>2 DEF Types
<1>4. Types'
  BY <1>0, <1>1, <1>2, <1>3, QuietTypes DEF Types
<1>5. PlaceOk(t)'
  BY <1>0, <1>1, PlainPlace DEF PlaceOk, Counted, shared
<1>6. Locked'
  BY <1>0, <1>1, <1>2, HoldingKeeps DEF Holding, shared
<1>7. ((t \in Live)' <=> t \in Live) /\ \A m \in Nat : (t \in Waiting(m))' => t \in Waiting(m)
  BY <1>1 DEF Live, Waiting, Counted, shared
<1>8. QED
  BY <1>1, <1>4, <1>5, <1>6, <1>7, QuietKeeps DEF shared

LEMMA DoubleAgainKeeps ==
  ASSUME IInv, NEW t \in Thread, Others(t), Shaped(t), DoubleAgain(t)
  PROVE  IInv'
<1>0. Types /\ PlaceOk(t) /\ Locked
  BY DEF IInv, Places
<1>1. /\ pc[t] = "double" /\ newCapacity'[t] = 2 * newCapacity[t]
      /\ UNCHANGED <<shared, pc, mainHash, hash, index, newCount, result>>
  BY <1>0 DEF DoubleAgain, Types
<1>2. /\ mainHash[t] = Len(tables) /\ mainHash[t] \in 1..Len(tables) /\ hash[t] \in 1..Len(tables)
      /\ newCapacity[t] \in Nat /\ newCapacity[t] >= Cap(Len(tables))
      /\ Cap(mainHash[t]) \in Nat
  BY <1>0, <1>1, TablesFacts DEF Locked, Holding, Types
<1>3. newCapacity'[t] \in Nat /\ newCapacity'[t] >= Cap(Len(tables))
  BY <1>1, <1>2
<1>4. Types'
  BY <1>0, <1>1, <1>2, <1>3, QuietTypes DEF Types
<1>5. PlaceOk(t)'
  BY <1>0, <1>1, PlainPlace DEF PlaceOk, Counted, shared
<1>6. Locked'
  BY <1>0, <1>1, <1>2, <1>3, HoldingKeeps DEF Holding, shared
<1>7. ((t \in Live)' <=> t \in Live) /\ \A m \in Nat : (t \in Waiting(m))' => t \in Waiting(m)
  BY <1>1 DEF Live, Waiting, Counted, shared
<1>8. QED
  BY <1>1, <1>4, <1>5, <1>6, <1>7, QuietKeeps DEF shared

LEMMA UnlockKeeps ==
  ASSUME IInv, NEW t \in Thread, Others(t), Shaped(t), Unlock(t)
  PROVE  IInv'
<1>0. Types /\ PlaceOk(t) /\ Locked
  BY DEF IInv, Places
<1>1. /\ pc[t] = "unlock" /\ pc'[t] = "room" /\ resizing' = FALSE
      /\ UNCHANGED <<tables, count, created, mine, locals, result>>
  BY <1>0 DEF Unlock, Goto, Types
<1>2. Types'
  BY <1>0, <1>1, Zenon DEF Types, Shaped, Unlock, Goto, locals
<1>3. PlaceOk(t)'
  BY <1>0, <1>1, PlainPlace DEF PlaceOk, Counted
<1>4. Locked'
  BY <1>0, <1>1, ReleasingKeeps DEF Holding
<1>5. ((t \in Live)' <=> t \in Live) /\ \A m \in Nat : (t \in Waiting(m))' => t \in Waiting(m)
  BY <1>1 DEF Live, Waiting, Counted, locals
<1>6. QED
  BY <1>1, <1>2, <1>3, <1>4, <1>5, QuietKeeps

LEMMA GiveUpUnlockKeeps ==
  ASSUME IInv, NEW t \in Thread, Others(t), Shaped(t), GiveUpUnlock(t)
  PROVE  IInv'
<1>0. Types /\ PlaceOk(t) /\ Locked
  BY DEF IInv, Places
<1>1. /\ pc[t] = "giveUpUnlock" /\ resizing' = FALSE /\ Return(t, NoProducer)
      /\ UNCHANGED <<tables, count, created, mine>>
  BY DEF GiveUpUnlock
<1>2. pc'[t] = "idle" /\ newCount'[t] = 0
  BY <1>0, <1>1, ReturnFacts
<1>3. Types'
  <2>1. NoProducer \in 0..MaxProducers
    BY SizeAssumption DEF NoProducer
  <2>2. /\ tables' \in Seq(Table) /\ Len(tables') = Len(tables)
        /\ count' \in Nat /\ resizing' \in BOOLEAN
    BY <1>0, <1>1 DEF Types
  <2>3. QED
    BY <1>0, <1>1, <2>1, <2>2, ReturnTypes
<1>4. PlaceOk(t)'
  BY <1>0, <1>1, <1>2, PlainPlace DEF Counted
<1>5. Locked'
  BY <1>0, <1>1, <1>2, ReleasingKeeps DEF Holding
<1>6. ((t \in Live)' <=> t \in Live) /\ \A m \in Nat : (t \in Waiting(m))' => t \in Waiting(m)
  BY <1>1, <1>2 DEF Live, Waiting, Counted
<1>7. QED
  BY <1>1, <1>3, <1>4, <1>5, <1>6, QuietKeeps

LEMMA WaitForTableKeeps ==
  ASSUME IInv, NEW t \in Thread, Others(t), Shaped(t), WaitForTable(t)
  PROVE  IInv'
<1>0. Types /\ PlaceOk(t) /\ Locked
  BY DEF IInv, Places
<1>1. /\ pc[t] = "room" /\ pc'[t] = "resize" /\ mainHash'[t] = Current
      /\ UNCHANGED <<shared, hash, index, newCount, newCapacity, result>>
  BY <1>0 DEF WaitForTable, Goto, Types
<1>2. Current \in 1..Len(tables)
  BY <1>0, TablesFacts DEF Current
<1>3. Types'
  BY <1>0, <1>1, <1>2, QuietTypes DEF Types
<1>4. PlaceOk(t)'
  BY <1>0, <1>1, PlainPlace DEF PlaceOk, Counted, shared
<1>5. Locked'
  BY <1>0, <1>1, UnlockedKeeps DEF Holding, shared
<1>6. ((t \in Live)' <=> t \in Live) /\ \A m \in Nat : (t \in Waiting(m))' => t \in Waiting(m)
  BY <1>1 DEF Live, Waiting, Counted, shared
<1>7. QED
  BY <1>1, <1>3, <1>4, <1>5, <1>6, QuietKeeps DEF shared
-----------------------------------------------------------------------------
(* The steps that change the count.                                        *)
LEMMA CountInKeeps ==
  ASSUME IInv, NEW t \in Thread, Others(t), Shaped(t), CountIn(t)
  PROVE  IInv'
<1>0. Types /\ Entries /\ Places /\ PlaceOk(t) /\ Locked /\ Exact /\ Bounded
  BY DEF IInv, Places
<1>1. /\ pc[t] = "count" /\ pc'[t] = "resize" /\ count' = count + 1 /\ newCount'[t] = count + 1
      /\ UNCHANGED <<tables, resizing, created, mine, mainHash, hash, index, newCapacity, result>>
  BY <1>0 DEF CountIn, Goto, Types
<1>2. count' \in Nat /\ count \in Nat
  BY <1>0, <1>1 DEF Types
<1>3. Types'
  <2>1. /\ tables' \in Seq(Table) /\ Len(tables') >= Len(tables) /\ resizing' \in BOOLEAN
        /\ created' \in 0..MaxProducers /\ hash'[t] \in 1..Len(tables')
        /\ mainHash'[t] \in 1..Len(tables')
    BY <1>0, <1>1, TablesFacts DEF Types
  <2>2. /\ index'[t] \in Nat /\ newCount'[t] \in Nat /\ newCapacity'[t] \in Nat
        /\ result'[t] \in 0..MaxProducers /\ mine'[t] \in 0..MaxProducers
    BY <1>0, <1>1, <1>2 DEF Types
  <2>3. QED
    BY <1>0, <1>1, <1>2, <2>1, <2>2, TypesKept
<1>4. Entries'
  BY <1>0, <1>1, EntriesKept
<1>5. PlaceOk(t)'
  BY <1>0, <1>1, PlainPlace DEF PlaceOk, Counted
<1>6. Places'
  BY <1>0, <1>1, <1>5, PlacesKept
<1>7. Locked'
  BY <1>0, <1>1, UnlockedKeeps DEF Holding
<1>8. t \notin Live /\ Live' = Live \cup {t}
  BY <1>0, <1>1 DEF Live, Others, PlaceOk, Counted
<1>9. Exact' /\ Cardinality(Live') = count + 1
  BY <1>0, <1>1, <1>8, FiniteSets, FS_AddElement DEF Exact
<1>10. ASSUME NEW h \in 1..Len(tables), NEW m \in Nat, Room(h)' <= m + 1
       PROVE  Cardinality(Entered(h) \cup Waiting(m))' <= m
  <2>1. CASE count + 1 <= m
    <3>1. Entered(h)' \subseteq Live'
      BY <1>0, <1>1, SameTables DEF Entered, InTable, Entries, Live
    <3>2. Waiting(m)' \subseteq Live'
      BY <1>6 DEF Waiting, Live, Places, PlaceOk
    <3>3. QED
      BY <1>9, <2>1, <3>1, <3>2, FiniteSets, Fewer
  <2>2. CASE ~(count + 1 <= m)
    <3>1. (Entered(h) \cup Waiting(m))' \subseteq Entered(h) \cup Waiting(m)
      BY <1>1, <2>2, SameTables DEF Waiting, Others
    <3>2. Cardinality(Entered(h) \cup Waiting(m)) <= m
      BY <1>0, <1>1, <1>10, SameTables DEF Bounded
    <3>3. QED
      BY <3>1, <3>2, FiniteSets, Fewer
  <2>3. QED
    BY <2>1, <2>2
<1>11. Bounded'
  BY <1>1, <1>10 DEF Bounded
<1>12. QED
  BY <1>3, <1>4, <1>6, <1>7, <1>9, <1>11 DEF IInv

(* A thread that is counted out again.                                     *)
LEMMA CountedOut ==
  ASSUME Exact, NEW t \in Live, Types
  PROVE  count - 1 \in Nat /\ Cardinality(Live \ {t}) = count - 1
<1>1. IsFiniteSet(Live \ {t}) /\ Cardinality(Live \ {t}) = Cardinality(Live) - 1
  BY FiniteSets, FS_RemoveElement
<1>2. Cardinality(Live \ {t}) \in Nat
  BY <1>1, FS_CardinalityType
<1>3. QED
  BY <1>1, <1>2 DEF Exact

LEMMA CountOutKeeps ==
  ASSUME IInv, NEW t \in Thread, Others(t), UNCHANGED <<tables, mine>>, count' = count - 1,
         Types', PlaceOk(t)', Locked', t \in Live, (t \notin Live)',
         \A m \in Nat : (t \in Waiting(m))' => t \in Waiting(m)
  PROVE  IInv'
<1>1. Entries'
  BY EntriesKept DEF IInv
<1>2. Places' /\ Bounded'
  BY PlacesKept, BoundedKept DEF IInv
<1>3. Live' = Live \ {t}
  BY DEF Live, Others
<1>4. Exact'
  BY <1>3, CountedOut DEF IInv, Exact
<1>5. QED
  BY <1>1, <1>2, <1>4 DEF IInv

LEMMA GiveUpKeeps ==
  ASSUME IInv, NEW t \in Thread, Others(t), Shaped(t), GiveUp(t)
  PROVE  IInv'
<1>0. Types /\ PlaceOk(t) /\ Locked /\ Exact
  BY DEF IInv, Places
<1>1. /\ pc[t] = "giveUp" /\ pc'[t] = "giveUpUnlock" /\ count' = count - 1
      /\ UNCHANGED <<tables, resizing, created, mine, locals, result>>
  BY <1>0 DEF GiveUp, Goto, Types
<1>2. t \in Live /\ mine[t] = NoProducer
  BY <1>0, <1>1 DEF Live, Counted, PlaceOk
<1>3. Types'
  <2>1. count' \in Nat
    BY <1>0, <1>1, <1>2, CountedOut
  <2>2. /\ tables' \in Seq(Table) /\ Len(tables') >= Len(tables)
        /\ resizing' \in BOOLEAN /\ created' \in 0..MaxProducers
    BY <1>0, <1>1, TablesFacts DEF Types
  <2>3. /\ hash'[t] \in 1..Len(tables') /\ mainHash'[t] \in 1..Len(tables')
        /\ index'[t] \in Nat /\ newCount'[t] \in Nat /\ newCapacity'[t] \in Nat
        /\ result'[t] \in 0..MaxProducers /\ mine'[t] \in 0..MaxProducers
    BY <1>0, <1>1 DEF Types, locals
  <2>4. QED
    BY <1>0, <1>1, <2>1, <2>2, <2>3, TypesKept
<1>4. PlaceOk(t)'
  BY <1>0, <1>1, <1>2, PlainPlace DEF Counted
<1>5. Locked'
  BY <1>0, <1>1, HoldingKeeps DEF Holding
<1>6. (t \notin Live)' /\ \A m \in Nat : (t \in Waiting(m))' => t \in Waiting(m)
  BY <1>1, <1>2 DEF Live, Waiting, Counted
<1>7. QED
  BY <1>1, <1>2, <1>3, <1>4, <1>5, <1>6, CountOutKeeps

LEMMA NoMemoryKeeps ==
  ASSUME IInv, NEW t \in Thread, Others(t), Shaped(t), NoMemory(t)
  PROVE  IInv'
<1>0. Types /\ PlaceOk(t) /\ Locked /\ Exact
  BY DEF IInv, Places
<1>1. /\ pc[t] = "noMemory" /\ count' = count - 1 /\ Return(t, NoProducer)
      /\ UNCHANGED <<tables, resizing, created, mine>>
  BY DEF NoMemory
<1>2. t \in Live /\ mine[t] = NoProducer
  BY <1>0, <1>1 DEF Live, Counted, PlaceOk
<1>3. pc'[t] = "idle"
  BY <1>0, <1>1, ReturnFacts
<1>4. Types'
  <2>1. NoProducer \in 0..MaxProducers
    BY SizeAssumption DEF NoProducer
  <2>2. /\ tables' \in Seq(Table) /\ Len(tables') = Len(tables)
        /\ count' \in Nat /\ resizing' \in BOOLEAN
    BY <1>0, <1>1, <1>2, CountedOut DEF Types
  <2>3. QED
    BY <1>0, <1>1, <2>1, <2>2, ReturnTypes
<1>5. PlaceOk(t)'
  BY <1>0, <1>1, <1>2, <1>3, PlainPlace DEF Counted
<1>6. Locked'
  BY <1>0, <1>1, <1>3, UnlockedKeeps DEF Holding
<1>7. (t \notin Live)' /\ \A m \in Nat : (t \in Waiting(m))' => t \in Waiting(m)
  BY <1>1, <1>2, <1>3 DEF Live, Waiting, Counted
<1>8. QED
  BY <1>1, <1>2, <1>4, <1>5, <1>6, <1>7, CountOutKeeps
-----------------------------------------------------------------------------
(* The steps that write to the tables.                                     *)
LEMMA RoomGrows ==
  ASSUME Types, Locked, NEW g \in 1..Len(tables), NEW h \in 1..Len(tables), g <= h
  PROVE  Room(g) \in Nat /\ Room(h) \in Nat /\ Room(g) <= Room(h) /\ Room(h) <= Cap(h)
<1>1. Cap(g) \in Nat /\ Cap(h) \in Nat /\ Cap(g) <= Cap(h)
  BY TablesFacts DEF Locked
<1>2. QED
  BY <1>1, SMTT(30) DEF Room, Half

(* No slot is emptied, so no way to an entry is cut.                       *)
LEMMA ClaimPaths ==
  ASSUME Types, NEW t \in Thread, index[t] \in Slots(mainHash[t]), NEW p \in 0..MaxProducers,
         Claim(t, p), NEW h \in 1..Len(tables), NEW X, t \notin X,
         NEW u \in Thread, NEW i, Path(u, h, i, X)
  PROVE  Path(u, h, i, X)'
<1>1. PICK k \in Nat : /\ i = (Hash[u] + k) % Cap(h)
                       /\ \A j \in 0..(k - 1) : tables[h].key[(Hash[u] + j) % Cap(h)] \notin X
  BY DEF Path
<1>2. Cap(h)' = Cap(h) /\ Cap(h) \in Nat /\ Cap(h) > 0 /\ Hash[u] \in Nat
  BY ClaimFacts, TablesFacts, HashAssumption
<1>3. ASSUME NEW j \in 0..(k - 1)
      PROVE  tables'[h].key[(Hash[u] + j) % Cap(h)] \notin X
  <2>1. (Hash[u] + j) % Cap(h) \in Slots(h)
    <3>1. Hash[u] + j \in Nat
      BY <1>2
    <3>2. QED
      BY <1>2, <3>1, NextIsSlot DEF Slots
  <2>2. tables'[h].key[(Hash[u] + j) % Cap(h)] \in {t, tables[h].key[(Hash[u] + j) % Cap(h)]}
    BY <2>1, ClaimFacts
  <2>3. QED
    BY <1>1, <2>2
<1>4. QED
  BY <1>1, <1>2, <1>3 DEF Path

(* What Entries says of one entry.                                         *)
LEMMA EntryFacts ==
  ASSUME Entries, NEW h \in 1..Len(tables), NEW u \in Thread, NEW i \in Slots(h),
         tables[h].key[i] = u
  PROVE  /\ tables[h].value[i] = mine[u] /\ mine[u] # NoProducer
         /\ Path(u, h, i, {Empty})
         /\ \A j \in Slots(h) : tables[h].key[j] = u => j = i
<1>1. tables[h].value[i] = mine[u] /\ mine[u] # NoProducer
  BY DEF Entries
<1>2. Path(u, h, i, {Empty})
  BY DEF Entries
<1>3. \A j \in Slots(h) : tables[h].key[j] = u => j = i
  BY DEF Entries
<1>4. QED
  BY <1>1, <1>2, <1>3

(* MoveUp and Insert, where the slot is empty.                             *)
LEMMA ClaimKeeps ==
  ASSUME IInv, NEW t \in Thread, Others(t), Shaped(t), pc[t] \in {"move", "insert"},
         Key(t, mainHash[t]) = Empty, Claim(t, mine[t]), Return(t, mine[t]),
         UNCHANGED <<count, resizing, created, mine>>
  PROVE  IInv'
<1> DEFINE m == mainHash[t]
<1>0. Types /\ Entries /\ Places /\ PlaceOk(t) /\ Locked /\ Exact /\ Bounded
  BY DEF IInv, Places
<1>1. /\ m \in 1..Len(tables) /\ hash[t] \in 1..Len(tables) /\ mine[t] \in 0..MaxProducers
      /\ Len(tables) \in Nat /\ newCount[t] \in Nat /\ t # Empty
  BY <1>0, TablesFacts, HashAssumption DEF Types
<1>2. Path(t, m, index[t], {Empty}) /\ tables[m].key[index[t]] = Empty /\ ~InTable(t, m)
  BY <1>0, <1>1 DEF PlaceOk, HasEntry, Key
<1>3. index[t] \in Slots(m)
  BY <1>0, <1>1, <1>2, PathFacts
<1>4. mine[t] # NoProducer
  BY <1>0, <1>1 DEF PlaceOk, InTable, Entries
<1>5. pc'[t] = "idle"
  BY <1>0, ReturnFacts
<1>6. /\ tables' \in Seq(Table) /\ Len(tables') = Len(tables)
      /\ \A h \in 1..Len(tables) : Cap(h)' = Cap(h)
      /\ \A h \in 1..Len(tables) : \A i \in Slots(h) :
           /\ tables'[h].key[i] = IF h = m /\ i = index[t] THEN t ELSE tables[h].key[i]
           /\ tables'[h].value[i] = IF h = m /\ i = index[t] THEN mine[t] ELSE tables[h].value[i]
  BY <1>0, <1>1, <1>3, ClaimFacts
<1>7. \A h \in 1..Len(tables) : Slots(h)' = Slots(h) /\ Room(h)' = Room(h)
  BY <1>6 DEF Slots, Room, Half
<1>8. Types'
  <2>1. count' \in Nat /\ resizing' \in BOOLEAN
    BY <1>0 DEF Types
  <2>2. QED
    BY <1>0, <1>1, <1>6, <2>1, ReturnTypes
<1>9. \A u \in Thread, h \in 1..Len(tables) : InTable(u, h)' <=> InTable(u, h) \/ (u = t /\ h = m)
  <2>1. ASSUME NEW u \in Thread, NEW h \in 1..Len(tables), InTable(u, h)'
        PROVE  InTable(u, h) \/ (u = t /\ h = m)
    BY <1>6, <1>7, <2>1 DEF InTable
  <2>2. ASSUME NEW u \in Thread, NEW h \in 1..Len(tables), InTable(u, h)
        PROVE  InTable(u, h)'
    <3>1. PICK i \in Slots(h) : tables[h].key[i] = u
      BY <2>2 DEF InTable
    <3>2. u # Empty
      BY HashAssumption
    <3>3. tables'[h].key[i] = u /\ i \in Slots(h)'
      BY <1>2, <1>6, <1>7, <3>1, <3>2
    <3>4. QED
      BY <3>3 DEF InTable
  <2>3. ASSUME NEW h \in 1..Len(tables), h = m PROVE InTable(t, h)'
    <3>1. index[t] \in Slots(h)' /\ tables'[h].key[index[t]] = t
      BY <1>3, <1>6, <1>7, <2>3
    <3>2. QED
      BY <3>1 DEF InTable
  <2>4. QED
    BY <2>1, <2>2, <2>3
<1>10. \A u \in Thread, h \in 1..Len(tables) : \A i :
         Path(u, h, i, {Empty}) => Path(u, h, i, {Empty})'
  BY <1>0, <1>1, <1>3, ClaimPaths
<1>11. Entries'
  <2> SUFFICES ASSUME NEW h \in (1..Len(tables))', NEW u \in Thread, NEW i \in Slots(h)',
                      tables'[h].key[i] = u
               PROVE  /\ tables'[h].value[i] = mine'[u] /\ mine'[u] # NoProducer
                      /\ Path(u, h, i, {Empty})'
                      /\ \A j \in Slots(h)' : tables'[h].key[j] = u => j = i
    BY DEF Entries
  <2>0. h \in 1..Len(tables) /\ i \in Slots(h) /\ Slots(h)' = Slots(h) /\ mine' = mine
    BY <1>6, <1>7
  <2>1. CASE h = m /\ i = index[t]
    <3>1. u = t /\ tables'[h].value[i] = mine[t]
      BY <2>0, <1>6, <2>1
    <3>2. Path(u, h, i, {Empty})'
      BY <2>0, <1>2, <1>10, <2>1, <3>1
    <3>3. \A j \in Slots(h) : tables'[h].key[j] = t => j = index[t]
      BY <2>0, <1>2, <1>6, <2>1 DEF InTable
    <3>4. QED
      BY <2>0, <1>4, <2>1, <3>1, <3>2, <3>3
  <2>2. CASE ~(h = m /\ i = index[t])
    <3>1. tables[h].key[i] = u /\ tables'[h].value[i] = tables[h].value[i]
      BY <2>0, <1>6, <2>2
    <3>2. ~(u = t /\ h = m)
      BY <2>0, <1>2, <3>1 DEF InTable
    <3>3. \A j \in Slots(h) : tables'[h].key[j] = u => tables[h].key[j] = u
      BY <2>0, <1>6, <3>2
    <3>4. /\ tables[h].value[i] = mine[u] /\ mine[u] # NoProducer
          /\ \A j \in Slots(h) : tables[h].key[j] = u => j = i
      BY <2>0, <1>0, <3>1, EntryFacts
    <3>5. Path(u, h, i, {Empty})
      BY <2>0, <1>0, <3>1, EntryFacts
    <3>6. Path(u, h, i, {Empty})'
      BY <2>0, <1>10, <3>5
    <3>7. QED
      BY <2>0, <3>1, <3>3, <3>4, <3>6
  <2>3. QED
    BY <2>0, <2>1, <2>2
<1>12. Places'
  <2>1. PlaceOk(t)'
    <3>1. HasEntry(t)'
      BY <1>1, <1>6, <1>9 DEF HasEntry
    <3>2. QED
      BY <1>5, <3>1 DEF PlaceOk, Counted
  <2>2. ASSUME NEW u \in Thread \ {t} PROVE PlaceOk(u)'
    <3>1. PlaceOk(u) /\ hash[u] \in 1..Len(tables) /\ mainHash[u] \in 1..Len(tables) /\ u # t
      BY <1>0 DEF Places, Types
    <3>2. /\ pc'[u] = pc[u] /\ mainHash'[u] = mainHash[u] /\ hash'[u] = hash[u]
          /\ index'[u] = index[u] /\ newCount'[u] = newCount[u] /\ result'[u] = result[u]
          /\ mine'[u] = mine[u]
      BY DEF Others
    <3>3. /\ \A h \in 1..Len(tables) : InTable(u, h)' <=> InTable(u, h)
          /\ HasEntry(u)' <=> HasEntry(u)
      BY <1>6, <1>9, <3>1 DEF HasEntry
    <3>4. /\ Path(u, hash[u], index[u], {Empty, u}) => Path(u, hash[u], index[u], {Empty, u})'
          /\ Path(u, mainHash[u], index[u], {Empty}) => Path(u, mainHash[u], index[u], {Empty})'
      <4>1. t \notin {Empty, u} /\ t \notin {Empty}
        BY <1>1, <3>1
      <4>2. QED
        BY <1>0, <1>1, <1>3, <3>1, <3>2, <4>1, ClaimPaths
    <3>5. QED
      BY <1>1, <1>6, <1>7, <3>1, <3>2, <3>3, <3>4 DEF PlaceOk
  <2>3. QED
    BY <2>1, <2>2 DEF Places
<1>13. Locked'
  <2>1. \A u \in Thread : pc'[u] \in Holding =>
          u # t /\ pc'[u] = pc[u] /\ mainHash'[u] = mainHash[u] /\ newCapacity'[u] = newCapacity[u]
    BY <1>5 DEF Others, Holding
  <2>2. Cap(Len(tables))' = Cap(Len(tables))
    BY <1>1, <1>6
  <2>3. QED
    BY <1>0, <1>6, <2>1, <2>2 DEF Locked
<1>14. Exact'
  <2>1. Live' = Live
    BY <1>4 DEF Live, Others
  <2>2. QED
    BY <1>0, <2>1 DEF Exact
<1>15. ASSUME NEW h \in 1..Len(tables), NEW n \in Nat, Room(h) <= n + 1
       PROVE  Cardinality(Entered(h) \cup Waiting(n))' <= n
  <2>1. ASSUME NEW u \in Thread \ {t}, u \in Entered(h)' \cup Waiting(n)'
        PROVE  u \in Entered(h) \cup Waiting(n)
    BY <1>1, <1>9, <2>1 DEF Entered, Waiting, Others
  <2>2. ASSUME t \in Entered(h)' \cup Waiting(n)' PROVE t \in Entered(h) \cup Waiting(n)
    <3>1. PICK g \in 1..h : InTable(t, g) \/ g = m
      BY <1>1, <1>5, <1>9, <2>2 DEF Entered, Waiting, Counted
    <3>2. CASE InTable(t, g)
      BY <3>2 DEF Entered
    <3>3. CASE g = m /\ pc[t] = "move"
      <4>1. hash[t] \in 1..h /\ InTable(t, hash[t])
        BY <1>0, <1>1, <3>3 DEF PlaceOk
      <4>2. QED
        BY <4>1 DEF Entered
    <3>4. CASE g = m /\ pc[t] = "insert"
      <4>1. newCount[t] < Room(m)
        BY <1>0, <3>4 DEF PlaceOk
      <4>2. Room(m) \in Nat /\ Room(h) \in Nat /\ Room(m) <= Room(h)
        BY <1>0, <1>1, <3>4, RoomGrows
      <4>3. newCount[t] <= n
        BY <1>1, <1>15, <4>1, <4>2
      <4>4. QED
        BY <3>4, <4>3 DEF Waiting
    <3>5. QED
      BY <3>1, <3>2, <3>3, <3>4
  <2>3. (Entered(h) \cup Waiting(n))' \subseteq Entered(h) \cup Waiting(n)
    BY <2>1, <2>2 DEF Entered, Waiting
  <2>4. Cardinality(Entered(h) \cup Waiting(n)) <= n
    BY <1>0, <1>15 DEF Bounded
  <2>5. QED
    BY <2>3, <2>4, FiniteSets, Fewer
<1>16. Bounded'
  BY <1>6, <1>7, <1>15 DEF Bounded
<1>17. QED
  BY <1>8, <1>11, <1>12, <1>13, <1>14, <1>16 DEF IInv
LEMMA MoveUpKeeps ==
  ASSUME IInv, NEW t \in Thread, Others(t), Shaped(t), MoveUp(t)
  PROVE  IInv'
<1>1. result[t] = mine[t]
  BY DEF IInv, Places, PlaceOk, MoveUp
<1>2. CASE Key(t, mainHash[t]) = Empty
  BY <1>1, <1>2, ClaimKeeps DEF MoveUp
<1>3. CASE Key(t, mainHash[t]) # Empty
  BY <1>3, PassedKeeps DEF MoveUp, shared
<1>4. QED
  BY <1>2, <1>3

LEMMA InsertKeeps ==
  ASSUME IInv, NEW t \in Thread, Others(t), Shaped(t), Insert(t)
  PROVE  IInv'
<1>1. CASE Key(t, mainHash[t]) = Empty
  BY <1>1, ClaimKeeps DEF Insert
<1>2. CASE Key(t, mainHash[t]) # Empty
  BY <1>2, PassedKeeps DEF Insert, shared
<1>3. QED
  BY <1>1, <1>2

(* The new table is empty and no smaller than the ones before it.          *)
LEMMA AppendKeeps ==
  ASSUME IInv, NEW t \in Thread, Others(t), Shaped(t), pc[t] = "double", pc'[t] = "unlock",
         tables' = Append(tables, NewTable(newCapacity[t])), mainHash'[t] = Current + 1,
         newCapacity'[t] = 0, UNCHANGED <<count, resizing, created, mine, hash, index, newCount, result>>
  PROVE  IInv'
<1>0. Types /\ Entries /\ Places /\ PlaceOk(t) /\ Locked /\ Exact /\ Bounded
  BY DEF IInv, Places
<1>1. PICK n \in Nat : n = Len(tables) + 1 /\ Len(tables) \in Nat \ {0}
  BY <1>0, TablesFacts
<1>2. PICK c \in Nat \ {0} : c = newCapacity[t] /\ c >= Cap(Len(tables))
  <2>1. newCapacity[t] \in Nat /\ newCapacity[t] >= Cap(Len(tables))
    BY <1>0 DEF Types, Locked, Holding
  <2>2. Cap(Len(tables)) \in Nat \ {0}
    BY <1>0, <1>1, TablesFacts
  <2>3. QED
    BY <2>1, <2>2
<1>3. /\ tables' \in Seq(Table) /\ Len(tables') = n
      /\ \A h \in 1..Len(tables) : tables'[h] = tables[h] /\ Cap(h)' = Cap(h)
      /\ tables'[n].capacity = c /\ \A i \in 0..(c - 1) : tables'[n].key[i] = Empty
  BY <1>0, <1>1, <1>2, AppendFacts
<1>4. Cap(n)' = c /\ Slots(n)' = 0..(c - 1) /\ Room(n)' = c \div 2 + c \div 4
  BY <1>3 DEF Cap, Slots, Room, Half
<1>5. \A h \in 1..Len(tables) : Slots(h)' = Slots(h) /\ Room(h)' = Room(h)
  BY <1>3 DEF Slots, Room, Half
<1>6. \A h \in 1..n : h = n \/ h \in 1..Len(tables)
  BY <1>1
<1>7. /\ \A u \in Thread, h \in 1..Len(tables) : InTable(u, h)' <=> InTable(u, h)
      /\ \A u \in Thread : ~InTable(u, n)'
  BY <1>3, <1>4, <1>5, HashAssumption DEF InTable
<1>8. ASSUME NEW u, NEW h \in 1..Len(tables), NEW i, NEW X, Path(u, h, i, X)
      PROVE  Path(u, h, i, X)'
  BY <1>3, <1>8 DEF Path
<1>9. Types'
  <2>1. /\ count' \in Nat /\ resizing' \in BOOLEAN /\ created' \in 0..MaxProducers
        /\ Len(tables') >= Len(tables) /\ 1..Len(tables) \subseteq 1..Len(tables')
        /\ mainHash'[t] \in 1..Len(tables')
    BY <1>0, <1>1, <1>3 DEF Types, Current
  <2>2. /\ hash'[t] \in 1..Len(tables') /\ index'[t] \in Nat /\ newCount'[t] \in Nat
        /\ newCapacity'[t] \in Nat /\ result'[t] \in 0..MaxProducers
        /\ mine'[t] \in 0..MaxProducers
    BY <1>0, <2>1 DEF Types
  <2>3. QED
    BY <1>0, <1>3, <2>1, <2>2, TypesKept
<1>10. Entries'
  <2> SUFFICES ASSUME NEW h \in (1..Len(tables))', NEW u \in Thread, NEW i \in Slots(h)',
                      tables'[h].key[i] = u
               PROVE  /\ tables'[h].value[i] = mine'[u] /\ mine'[u] # NoProducer
                      /\ Path(u, h, i, {Empty})'
                      /\ \A j \in Slots(h)' : tables'[h].key[j] = u => j = i
    BY DEF Entries
  <2>1. InTable(u, h)'
    BY DEF InTable
  <2>2. h \in 1..Len(tables)
    BY <1>3, <1>6, <1>7, <2>1
  <2>3. tables'[h] = tables[h] /\ Slots(h)' = Slots(h) /\ i \in Slots(h) /\ tables[h].key[i] = u
    BY <1>3, <1>5, <2>2
  <2>4. /\ tables[h].value[i] = mine[u] /\ mine[u] # NoProducer
        /\ \A j \in Slots(h) : tables[h].key[j] = u => j = i
    BY <1>0, <2>2, <2>3, EntryFacts
  <2>5. Path(u, h, i, {Empty})
    BY <1>0, <2>2, <2>3, EntryFacts
  <2>6. Path(u, h, i, {Empty})'
    BY <1>8, <2>2, <2>5
  <2>7. QED
    BY <2>3, <2>4, <2>6
<1>11. \A u \in Thread : HasEntry(u)' <=> HasEntry(u)
  <2>1. ASSUME NEW u \in Thread, HasEntry(u) PROVE HasEntry(u)'
    BY <1>1, <1>3, <1>7, <2>1 DEF HasEntry
  <2>2. ASSUME NEW u \in Thread, HasEntry(u)' PROVE HasEntry(u)
    BY <1>3, <1>6, <1>7, <2>2 DEF HasEntry
  <2>3. QED
    BY <2>1, <2>2
<1>12. Places'
  <2>1. PlaceOk(t)'
    BY <1>0, <1>11 DEF PlaceOk, Counted
  <2>2. ASSUME NEW u \in Thread \ {t} PROVE PlaceOk(u)'
    <3>1. PlaceOk(u) /\ hash[u] \in 1..Len(tables) /\ mainHash[u] \in 1..Len(tables)
      BY <1>0 DEF Places, Types
    <3>2. /\ pc'[u] = pc[u] /\ mainHash'[u] = mainHash[u] /\ hash'[u] = hash[u]
          /\ index'[u] = index[u] /\ newCount'[u] = newCount[u] /\ result'[u] = result[u]
          /\ mine'[u] = mine[u]
      BY DEF Others
    <3>3. /\ Path(u, hash[u], index[u], {Empty, u}) => Path(u, hash[u], index[u], {Empty, u})'
          /\ Path(u, mainHash[u], index[u], {Empty}) => Path(u, mainHash[u], index[u], {Empty})'
      BY <1>8, <3>1, <3>2
    <3>4. ASSUME pc[u] = "probe" PROVE \A g \in (hash[u] + 1)..n : ~InTable(u, g)'
      <4>1. \A g \in (hash[u] + 1)..n : g = n \/ (g \in (hash[u] + 1)..Len(tables) /\ g \in 1..Len(tables))
        BY <1>1, <3>1
      <4>2. \A g \in (hash[u] + 1)..Len(tables) : ~InTable(u, g)
        BY <3>1, <3>4 DEF PlaceOk
      <4>3. QED
        BY <1>7, <4>1, <4>2
    <3>5. QED
      BY <1>3, <1>5, <1>7, <1>11, <3>1, <3>2, <3>3, <3>4 DEF PlaceOk
  <2>3. QED
    BY <2>1, <2>2 DEF Places
<1>13. Locked'
  <2>1. \A g, h \in 1..Len(tables') : g <= h => Cap(g)' <= Cap(h)'
    <3>1. \A g \in 1..Len(tables) : Cap(g)' <= c
      <4>1. ASSUME NEW g \in 1..Len(tables) PROVE Cap(g) <= c
        <5>1. Cap(g) <= Cap(Len(tables)) /\ Cap(g) \in Nat /\ Cap(Len(tables)) \in Nat
          BY <1>0, <1>1, TablesFacts DEF Locked
        <5>2. QED
          BY <1>2, <5>1
      <4>2. QED
        BY <1>3, <4>1
    <3>2. QED
      BY <1>0, <1>1, <1>2, <1>3, <1>4, <1>6, <3>1, SMTT(30) DEF Locked
  <2>2. resizing' /\ \A u \in Thread \ {t} : pc'[u] \notin Holding
    BY <1>0 DEF Locked, Others, Holding
  <2>3. QED
    BY <2>1, <2>2 DEF Locked
<1>14. Exact'
  <2>1. Live' = Live
    BY DEF Live, Others, Counted
  <2>2. QED
    BY <1>0, <2>1 DEF Exact
<1>15. ASSUME NEW h \in 1..n, NEW m \in Nat, Room(h)' <= m + 1
       PROVE  Cardinality((Entered(h) \cup Waiting(m))') <= m
  <2>1. PICK g \in 1..Len(tables) : Room(g) <= m + 1 /\ Entered(h)' \subseteq Entered(g)
    <3>1. CASE h \in 1..Len(tables)
      <4>1. Entered(h)' \subseteq Entered(h)
        BY <1>1, <1>7, <3>1 DEF Entered
      <4>2. QED
        BY <1>5, <1>15, <3>1, <4>1
    <3>2. CASE h = n
      <4>1. Entered(h)' \subseteq Entered(Len(tables))
        BY <1>1, <1>6, <1>7, <3>2 DEF Entered
      <4>2. Cap(Len(tables)) \in Nat /\ Room(Len(tables)) <= c \div 2 + c \div 4
        BY <1>0, <1>1, <1>2, TablesFacts DEF Room, Half
      <4>3. Room(Len(tables)) \in Nat
        BY <4>2 DEF Room, Half
      <4>4. Room(Len(tables)) <= m + 1
        BY <1>4, <1>15, <3>2, <4>2, <4>3
      <4>5. QED
        BY <1>1, <4>1, <4>4
    <3>3. QED
      BY <1>6, <3>1, <3>2
  <2>2. (Entered(h) \cup Waiting(m))' \subseteq Entered(g) \cup Waiting(m)
    BY <2>1 DEF Waiting, Others, Counted
  <2>3. Cardinality(Entered(g) \cup Waiting(m)) <= m
    BY <1>0, <2>1 DEF Bounded
  <2>4. QED
    BY <2>2, <2>3, FiniteSets, Fewer
<1>16. Bounded'
  BY <1>3, <1>15 DEF Bounded
<1>17. QED
  BY <1>9, <1>10, <1>12, <1>13, <1>14, <1>16 DEF IInv

LEMMA AddTableKeeps ==
  ASSUME IInv, NEW t \in Thread, Others(t), Shaped(t), AddTable(t)
  PROVE  IInv'
<1>0. Types /\ PlaceOk(t) /\ Locked
  BY DEF IInv, Places
<1>1. /\ pc[t] = "double" /\ newCapacity'[t] = 0
      /\ UNCHANGED <<count, resizing, created, mine, hash, index, newCount, result>>
  BY <1>0 DEF AddTable, Types
<1>2. CASE tables' = Append(tables, NewTable(newCapacity[t])) /\ Goto(t, "unlock")
           /\ mainHash' = [mainHash EXCEPT ![t] = Current + 1]
  <2>1. pc'[t] = "unlock" /\ mainHash'[t] = Current + 1
    BY <1>0, <1>2 DEF Goto, Types
  <2>2. QED
    BY <1>1, <1>2, <2>1, AppendKeeps
<1>3. CASE Goto(t, "giveUp") /\ UNCHANGED <<tables, mainHash>>
  <2>1. pc'[t] = "giveUp" /\ UNCHANGED <<tables, mainHash>>
    BY <1>0, <1>3 DEF Goto, Types
  <2>2. Types'
    <3>1. UNCHANGED shared
      BY <1>1, <2>1 DEF shared
    <3>2. 0 \in Nat
      OBVIOUS
    <3>3. QED
      BY <1>0, <1>1, <2>1, <3>1, <3>2, QuietTypes DEF Types
  <2>3. PlaceOk(t)'
    BY <1>0, <1>1, <2>1, PlainPlace DEF PlaceOk, Counted
  <2>4. Locked'
    BY <1>0, <1>1, <2>1, HoldingKeeps DEF Holding
  <2>5. ((t \in Live)' <=> t \in Live) /\ \A m \in Nat : (t \in Waiting(m))' => t \in Waiting(m)
    BY <1>1, <2>1 DEF Live, Waiting, Counted
  <2>6. QED
    BY <1>1, <2>1, <2>2, <2>3, <2>4, <2>5, QuietKeeps
<1>4. QED
  BY <1>2, <1>3 DEF AddTable
(* The new producer is the thread's first.                                 *)
LEMMA MadeKeeps ==
  ASSUME IInv, NEW t \in Thread, Others(t), Shaped(t), pc[t] = "room", pc'[t] = "insert",
         HasRoom(t), created < MaxProducers, created' = created + 1, mine'[t] = created + 1,
         index'[t] = Start(t, mainHash[t]),
         UNCHANGED <<tables, count, resizing, mainHash, hash, newCount, newCapacity, result>>
  PROVE  IInv'
<1>0. Types /\ Entries /\ Places /\ PlaceOk(t) /\ Locked /\ Exact /\ Bounded
  BY DEF IInv, Places
<1>1. mine[t] = NoProducer /\ created' \in 0..MaxProducers /\ mine'[t] \in 0..MaxProducers
      /\ mine'[t] # NoProducer
  BY <1>0, SizeAssumption DEF PlaceOk, Counted, Types, NoProducer
<1>2. mainHash[t] \in 1..Len(tables)
  BY <1>0 DEF Types
<1>3. \A h \in 1..Len(tables) : \A i \in Slots(h) : tables[h].key[i] # t
  BY <1>0, <1>1, EntryFacts
<1>4. ~HasEntry(t)
  BY <1>3 DEF HasEntry, InTable
<1>5. /\ Start(t, mainHash[t]) \in Slots(mainHash[t])
      /\ Path(t, mainHash[t], Start(t, mainHash[t]), {Empty})
  BY <1>0, <1>2, PathFacts
<1>6. Types'
  <2>1. Start(t, mainHash[t]) \in Nat
    BY <1>5 DEF Slots
  <2>2. /\ tables' \in Seq(Table) /\ Len(tables') >= Len(tables) /\ count' \in Nat
        /\ resizing' \in BOOLEAN /\ mainHash'[t] \in 1..Len(tables') /\ hash'[t] \in 1..Len(tables')
    BY <1>0, TablesFacts DEF Types
  <2>3. /\ index'[t] \in Nat /\ newCount'[t] \in Nat /\ newCapacity'[t] \in Nat
        /\ result'[t] \in 0..MaxProducers
    BY <1>0, <2>1 DEF Types
  <2>4. QED
    BY <1>0, <1>1, <2>2, <2>3, TypesKept
<1>7. Entries'
  <2> SUFFICES ASSUME NEW h \in (1..Len(tables))', NEW u \in Thread, NEW i \in Slots(h)',
                      tables'[h].key[i] = u
               PROVE  /\ tables'[h].value[i] = mine'[u] /\ mine'[u] # NoProducer
                      /\ Path(u, h, i, {Empty})'
                      /\ \A j \in Slots(h)' : tables'[h].key[j] = u => j = i
    BY DEF Entries
  <2>1. /\ h \in 1..Len(tables) /\ Slots(h)' = Slots(h) /\ i \in Slots(h) /\ tables' = tables
        /\ tables[h].key[i] = u
    BY SameTables
  <2>2. u # t /\ mine'[u] = mine[u]
    BY <1>3, <2>1 DEF Others
  <2>3. /\ tables[h].value[i] = mine[u] /\ mine[u] # NoProducer
        /\ \A j \in Slots(h) : tables[h].key[j] = u => j = i
    BY <1>0, <2>1, EntryFacts
  <2>4. Path(u, h, i, {Empty})
    BY <1>0, <2>1, EntryFacts
  <2>5. Path(u, h, i, {Empty})'
    BY <2>1, <2>4 DEF Path, Cap
  <2>6. QED
    BY <2>1, <2>2, <2>3, <2>5
<1>8. PlaceOk(t)'
  <2>1. newCount'[t] < Room(mainHash[t])'
    BY SMTT(30) DEF HasRoom, Room, Half, Cap
  <2>2. Path(t, mainHash[t], index[t], {Empty})'
    BY <1>5 DEF Path, Cap
  <2>3. ~HasEntry(t)'
    BY <1>4, SameTables
  <2>4. QED
    BY <1>1, <2>1, <2>2, <2>3 DEF PlaceOk, Counted
<1>9. Places'
  BY <1>0, <1>8, PlacesKept
<1>10. Locked'
  BY <1>0, UnlockedKeeps DEF Holding
<1>11. Exact'
  <2>1. Live' = Live
    BY <1>1 DEF Live, Others, Counted
  <2>2. QED
    BY <1>0, <2>1 DEF Exact
<1>12. Bounded'
  <2>1. \A m \in Nat : (t \in Waiting(m))' => t \in Waiting(m)
    BY DEF Waiting, Counted
  <2>2. QED
    BY <1>0, <2>1, BoundedKept
<1>13. QED
  BY <1>6, <1>7, <1>9, <1>10, <1>11, <1>12 DEF IInv

LEMMA CreateProducerKeeps ==
  ASSUME IInv, NEW t \in Thread, Others(t), Shaped(t), CreateProducer(t)
  PROVE  IInv'
<1>0. Types /\ PlaceOk(t) /\ Locked
  BY DEF IInv, Places
<1>1. /\ pc[t] = "room" /\ HasRoom(t)
      /\ UNCHANGED <<tables, count, resizing, mainHash, hash, newCount, newCapacity, result>>
  BY DEF CreateProducer
<1>2. CASE /\ created < MaxProducers /\ created' = created + 1
           /\ mine' = [mine EXCEPT ![t] = created + 1]
           /\ index' = [index EXCEPT ![t] = Start(t, mainHash[t])] /\ Goto(t, "insert")
  <2>1. /\ mine'[t] = created + 1 /\ index'[t] = Start(t, mainHash[t]) /\ pc'[t] = "insert"
    BY <1>0, <1>2 DEF Goto, Types
  <2>2. QED
    BY <1>1, <1>2, <2>1, MadeKeeps
<1>3. CASE Goto(t, "noMemory") /\ UNCHANGED <<created, mine, index>>
  <2>1. pc'[t] = "noMemory" /\ UNCHANGED shared
    BY <1>0, <1>1, <1>3 DEF Goto, Types, shared
  <2>2. Types'
    BY <1>0, <1>1, <1>3, <2>1, QuietTypes DEF Types
  <2>3. PlaceOk(t)'
    BY <1>0, <1>1, <1>3, <2>1, PlainPlace DEF PlaceOk, Counted
  <2>4. Locked'
    BY <1>0, <1>1, <2>1, UnlockedKeeps DEF Holding
  <2>5. ((t \in Live)' <=> t \in Live) /\ \A m \in Nat : (t \in Waiting(m))' => t \in Waiting(m)
    BY <1>1, <1>3, <2>1 DEF Live, Waiting, Counted
  <2>6. QED
    BY <1>1, <1>3, <2>2, <2>3, <2>4, <2>5, QuietKeeps
<1>4. QED
  BY <1>2, <1>3 DEF CreateProducer

-----------------------------------------------------------------------------
LEMMA InitInvariant ==
  ASSUME Init
  PROVE  IInv
<1>1. InitialSize \in Nat \ {0} /\ MaxProducers \in Nat /\ NoProducer \in 0..MaxProducers
  BY SizeAssumption DEF NoProducer
<1>2. /\ NewTable(InitialSize) \in Table /\ NewTable(InitialSize).capacity = InitialSize
      /\ \A i \in 0..(InitialSize - 1) : NewTable(InitialSize).key[i] = Empty
  BY <1>1, NewTableFacts
<1>3. /\ tables \in Seq(Table) /\ Len(tables) = 1 /\ tables[1] = NewTable(InitialSize)
      /\ 1..Len(tables) = {1}
  BY <1>2 DEF Init
<1>4. \A t \in Thread, h \in 1..Len(tables) : ~InTable(t, h)
  BY <1>2, <1>3, HashAssumption DEF InTable, Slots, Cap
<1>5. \A t \in Thread : pc[t] = "idle" /\ mine[t] = NoProducer
  BY DEF Init
<1>6. Types
  <2>1. 1 \in 1..Len(tables) /\ 0 \in Nat /\ 0 \in 0..MaxProducers
    BY <1>1, <1>3
  <2>2. pc \in [Thread -> {"idle", "probe", "move", "count", "resize", "grow", "double", "unlock",
                           "giveUp", "giveUpUnlock", "room", "noMemory", "insert"}]
    BY DEF Init
  <2>3. /\ mainHash \in [Thread -> 1..Len(tables)] /\ hash \in [Thread -> 1..Len(tables)]
        /\ newCount \in [Thread -> Nat] /\ newCapacity \in [Thread -> Nat]
        /\ index \in [Thread -> Nat]
    BY <2>1 DEF Init
  <2>4. result \in [Thread -> 0..MaxProducers] /\ mine \in [Thread -> 0..MaxProducers]
    BY <1>1 DEF Init
  <2>5. count \in Nat /\ resizing \in BOOLEAN /\ created \in 0..MaxProducers
    BY <2>1 DEF Init
  <2>6. QED
    BY <1>3, <2>2, <2>3, <2>4, <2>5 DEF Types
<1>7. Entries
  BY <1>4 DEF Entries, InTable
<1>8. Places
  BY <1>5 DEF Places, PlaceOk, Counted
<1>9. Locked
  <2>1. Cap(1) \in Nat
    BY <1>1, <1>2, <1>3 DEF Cap
  <2>2. QED
    BY <1>3, <1>5, <2>1 DEF Locked, Holding
<1>10. Exact
  <2>1. Live = {}
    BY <1>5 DEF Live, Counted
  <2>2. QED
    BY <2>1, FS_EmptySet DEF Exact, Init
<1>11. Bounded
  <2>1. ASSUME NEW h \in 1..Len(tables), NEW m \in Nat
        PROVE  Cardinality(Entered(h) \cup Waiting(m)) <= m
    <3>1. Entered(h) \cup Waiting(m) = {}
      BY <1>3, <1>4, <1>5 DEF Entered, Waiting, Counted
    <3>2. Cardinality(Entered(h) \cup Waiting(m)) = 0
      BY <3>1, FS_EmptySet
    <3>3. 0 <= m
      OBVIOUS
    <3>4. QED
      BY <3>2, <3>3
  <2>2. QED
    BY <2>1 DEF Bounded
<1>12. QED
  BY <1>6, <1>7, <1>8, <1>9, <1>10, <1>11 DEF IInv

LEMMA StepInvariant ==
  ASSUME IInv, [Next]_vars
  PROVE  IInv'
<1>1. CASE Next
  <2>1. PICK t \in Thread : Call(t) \/ Working(t)
    BY <1>1 DEF Next
  <2>2. Shaped(t) /\ Others(t)
    BY <2>1, StepShaped, StepOthers DEF IInv
  <2>3. QED
    BY <2>1, <2>2, CallKeeps, FoundKeeps, NotInTableKeeps, ProbeNextKeeps, MoveUpKeeps,
       CountInKeeps, TryResizeKeeps, GrowKeeps, DoubleAgainKeeps, AddTableKeeps, UnlockKeeps,
       GiveUpKeeps, GiveUpUnlockKeeps, CreateProducerKeeps, NoMemoryKeeps, InsertKeeps,
       WaitForTableKeeps DEF Working
<1>2. CASE UNCHANGED vars
  <2>1. /\ tables' = tables /\ count' = count /\ resizing' = resizing /\ created' = created
        /\ mine' = mine /\ pc' = pc /\ mainHash' = mainHash /\ hash' = hash /\ index' = index
        /\ newCount' = newCount /\ newCapacity' = newCapacity /\ result' = result
    BY <1>2 DEF vars, shared, locals
  <2>2. Types' /\ Entries'
    BY <2>1, EntriesKept, SMTT(30) DEF IInv, Types
  <2>3. Places'
    BY <2>1 DEF IInv, Places, PlaceOk, HasEntry, InTable, Path, Room, Half, Slots, Cap
  <2>4. Locked' /\ Exact'
    BY <2>1 DEF IInv, Locked, Exact, Live, Cap
  <2>5. Bounded'
    BY <2>1 DEF IInv, Bounded, Room, Half, Cap, Entered, Waiting, InTable, Slots
  <2>6. QED
    BY <2>2, <2>3, <2>4, <2>5 DEF IInv
<1>3. QED
  BY <1>1, <1>2

(* The tables, the flag and the count agree in every reachable state,      *)
(* whichever calls grow, wait or fail (concurrentqueue.h:3302-3444).       *)
THEOREM Invariance == Spec => []IInv
<1>1. IInv /\ [Next]_vars => IInv'
  BY StepInvariant
<1>2. QED
  BY <1>1, InitInvariant, PTL DEF Spec
-----------------------------------------------------------------------------
(* Every variable has its type, and the count never exceeds the number of  *)
(* threads.                                                                *)
THEOREM TypeCorrect == Spec => []TypeOK
<1>1. ASSUME IInv PROVE TypeOK
  <2>1. Types /\ Exact
    BY <1>1 DEF IInv
  <2>2. count \in 0..Cardinality(Thread)
    <3>1. Live \in SUBSET Thread
      BY DEF Live
    <3>2. /\ Cardinality(Live) <= Cardinality(Thread) /\ Cardinality(Live) \in Nat
          /\ Cardinality(Thread) \in Nat
      <4>1. IsFiniteSet(Thread) /\ IsFiniteSet(Live)
        BY FiniteSets, HashAssumption
      <4>2. Cardinality(Live) <= Cardinality(Thread)
        BY <3>1, <4>1, FS_Subset
      <4>3. Cardinality(Live) \in Nat /\ Cardinality(Thread) \in Nat
        BY <4>1, FS_CardinalityType
      <4>4. QED
        BY <4>2, <4>3
    <3>3. QED
      BY <2>1, <3>2 DEF Exact
  <2>3. \A h \in 1..Len(tables) :
          /\ tables[h].key \in [0..(Cap(h) - 1) -> Thread \cup {Empty}]
          /\ tables[h].value \in [0..(Cap(h) - 1) -> 0..MaxProducers]
    BY <2>1, TablesFacts DEF Slots
  <2>4. QED
    BY <2>1, <2>2, <2>3 DEF Types, TypeOK
<1>2. QED
  BY <1>1, Invariance, PTL

(* The count is exact between calls: failed calls have taken back what     *)
(* they added.                                                             *)
THEOREM CountIsExact == Spec => []CountExact
<1>1. ASSUME IInv, \A t \in Thread : pc[t] = "idle"
      PROVE  count = Cardinality({t \in Thread : mine[t] # NoProducer})
  <2>1. Live = {t \in Thread : mine[t] # NoProducer}
    BY <1>1 DEF Live, Counted
  <2>2. QED
    BY <1>1, <2>1 DEF IInv, Exact
<1>2. IInv => CountExact
  BY <1>1 DEF CountExact
<1>3. QED
  BY <1>2, Invariance, PTL

(* An injection cannot lead into a smaller set.                            *)
LEMMA NotInto ==
  ASSUME NEW c \in Nat, NEW S, IsFiniteSet(S), Cardinality(S) < c,
         NEW f, \A i \in 0..(c - 1) : f[i] \in S,
         \A i, j \in 0..(c - 1) : f[i] = f[j] => i = j
  PROVE  FALSE
<1> DEFINE g == [i \in 0..(c - 1) |-> f[i]]
<1>1. IsFiniteSet(0..(c - 1)) /\ Cardinality(0..(c - 1)) = c
  <2>1. 0 \in Int /\ c - 1 \in Int
    OBVIOUS
  <2>2. /\ IsFiniteSet(0..(c - 1))
        /\ Cardinality(0..(c - 1)) = IF 0 > c - 1 THEN 0 ELSE (c - 1) - 0 + 1
    BY ONLY <2>1, FS_Interval
  <2>3. QED
    BY <2>2
<1>2. g \in Injection(0..(c - 1), S)
  BY DEF Injection, IsInjective
<1>3. Cardinality(0..(c - 1)) <= Cardinality(S)
  BY <1>1, <1>2, FS_Injection
<1>4. Cardinality(S) \in Nat
  BY FS_CardinalityType
<1>5. QED
  BY <1>1, <1>3, <1>4

(* Every table keeps a free slot, whatever sizes the tables have and       *)
(* however many threads enqueue, so probing for an absent thread ends.     *)
THEOREM SlotIsFree == Spec => []SlotFree
<1>1. ASSUME IInv, NEW h \in 1..Len(tables) PROVE \E i \in 0..(Cap(h) - 1) : tables[h].key[i] = Empty
  <2> SUFFICES ASSUME \A i \in Slots(h) : tables[h].key[i] # Empty PROVE FALSE
    BY DEF Slots
  <2>0. Types /\ Entries /\ Locked /\ Bounded
    BY <1>1 DEF IInv
  <2>1. Cap(h) \in Nat \ {0} /\ \A i \in Slots(h) : tables[h].key[i] \in Thread
    BY <2>0, TablesFacts
  <2>2. PICK m \in Nat : Room(h) <= m + 1 /\ m < Cap(h)
    <3>1. /\ Room(h) <= (Cap(h) - 1) + 1 /\ Cap(h) - 1 \in Nat /\ Cap(h) - 1 < Cap(h)
      BY <2>1 DEF Room, Half
    <3>2. QED
      BY <3>1
  <2>3. Cardinality(Entered(h) \cup Waiting(m)) < Cap(h) /\ IsFiniteSet(Entered(h) \cup Waiting(m))
    <3>1. Cardinality(Entered(h) \cup Waiting(m)) <= m
      BY <2>0, <2>2 DEF Bounded
    <3>2. IsFiniteSet(Entered(h) \cup Waiting(m))
      BY FiniteSets
    <3>3. Cardinality(Entered(h) \cup Waiting(m)) \in Nat
      BY <3>2, FS_CardinalityType
    <3>4. QED
      BY <2>1, <2>2, <3>1, <3>2, <3>3
  <2>4. \A i \in Slots(h) : tables[h].key[i] \in Entered(h) \cup Waiting(m)
    BY <2>1 DEF Entered, InTable
  <2>5. \A i, j \in Slots(h) : tables[h].key[i] = tables[h].key[j] => i = j
    BY <2>0, <2>1, EntryFacts
  <2>6. QED
    BY <2>1, <2>3, <2>4, <2>5, NotInto DEF Slots
<1>2. IInv => SlotFree
  BY <1>1 DEF SlotFree
<1>3. QED
  BY <1>2, Invariance, PTL

(* A thread has one producer for good: no second one is made for it, and   *)
(* every call from then on returns the first.                              *)
THEOREM OneProducer == Spec => OneProducerEach
<1> DEFINE Same(u) == mine[u] # NoProducer => /\ mine'[u] = mine[u]
                                              /\ result'[u] \in {result[u], mine[u]}
<1>1. ASSUME IInv, NEW t \in Thread, Call(t) \/ Working(t), mine[t] # NoProducer
      PROVE  mine'[t] = mine[t] /\ result'[t] \in {result[t], mine[t]}
  <2>0. Types /\ Entries /\ PlaceOk(t)
    BY <1>1 DEF IInv, Places
  <2>1. pc[t] \notin Counted \cup {"count", "giveUpUnlock"}
    BY <1>1, <2>0 DEF PlaceOk
  <2>2. CASE Call(t) \/ NotInTable(t) \/ ProbeNext(t)
    BY <2>2 DEF Call, NotInTable, ProbeNext, shared
  <2>3. CASE Found(t)
    <3>1. pc[t] = "probe" /\ tables[hash[t]].key[index[t]] = t /\ hash[t] \in 1..Len(tables)
      BY <2>0, <2>3 DEF Found, Key, Types
    <3>2. index[t] \in Slots(hash[t])
      BY <2>0, <3>1, PathFacts DEF PlaceOk
    <3>3. tables[hash[t]].value[index[t]] = mine[t]
      BY <2>0, <3>1, <3>2, EntryFacts
    <3>4. result'[t] = mine[t] /\ mine' = mine
      BY <2>0, <2>3, <3>3 DEF Found, Return, Types, shared
    <3>5. QED
      BY <3>4
  <2>4. CASE MoveUp(t)
    <3>1. result[t] = mine[t] /\ mine' = mine
      BY <2>0, <2>4 DEF PlaceOk, MoveUp
    <3>2. result'[t] \in {result[t], mine[t]}
      BY <2>0, <2>4, <3>1 DEF MoveUp, Return, Types
    <3>3. QED
      BY <3>1, <3>2
  <2>5. CASE Insert(t)
    BY <2>0, <2>5 DEF Insert, Return, Types
  <2>6. CASE CountIn(t) \/ TryResize(t) \/ Grow(t) \/ DoubleAgain(t) \/ AddTable(t) \/ Unlock(t)
    BY <2>1, <2>6 DEF CountIn, TryResize, Grow, DoubleAgain, AddTable, Unlock, Counted
  <2>7. CASE \/ GiveUp(t) \/ GiveUpUnlock(t) \/ CreateProducer(t) \/ NoMemory(t)
             \/ WaitForTable(t)
    BY <2>1, <2>7 DEF GiveUp, GiveUpUnlock, CreateProducer, NoMemory, WaitForTable, Counted
  <2>8. QED
    BY <1>1, <2>2, <2>3, <2>4, <2>5, <2>6, <2>7 DEF Working
<1>2. ASSUME IInv, [Next]_vars, NEW u \in Thread PROVE Same(u)
  <2>1. CASE Next
    <3>1. PICK t \in Thread : Call(t) \/ Working(t)
      BY <2>1 DEF Next
    <3>2. CASE u = t
      BY <1>1, <1>2, <3>1, <3>2
    <3>3. CASE u # t
      <4>1. Others(t)
        BY <1>2, <3>1, StepShaped, StepOthers DEF IInv
      <4>2. QED
        BY <3>3, <4>1 DEF Others
    <3>4. QED
      BY <3>2, <3>3
  <2>2. CASE UNCHANGED vars
    BY <2>2 DEF vars, shared
  <2>3. QED
    BY <1>2, <2>1, <2>2
<1>3. IInv /\ [Next]_vars
        => [\A t \in Thread : mine[t] # NoProducer => /\ mine'[t] = mine[t]
                                                      /\ result'[t] \in {result[t], mine[t]}]_vars
  BY <1>2
<1>4. QED
  BY <1>3, Invariance, PTL DEF Spec, OneProducerEach
=============================================================================
