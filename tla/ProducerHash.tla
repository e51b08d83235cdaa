---------------------------- MODULE ProducerHash ----------------------------
(***************************************************************************)
(* How a thread that enqueues without a token finds its own producer:      *)
(* get_or_add_implicit_producer and its chain of open-addressing hash      *)
(* tables.  A thread looks itself up in the current and in all older       *)
(* tables; when it is new it counts itself, makes the table bigger if it   *)
(* is half full and nobody else is at it, and inserts its new producer.    *)
(*                                                                         *)
(* An entry's value is only used by the thread that is its key, so key and *)
(* value are written in one action.  A load of a slot and the exchange     *)
(* that claims it are one action too: either way a slot that is lost to    *)
(* another thread is passed over.                                          *)
(***************************************************************************)
EXTENDS Integers, Sequences, FiniteSets

CONSTANTS
  Thread,
  Hash,             \* Hash[t]: hash_thread_id of the thread's id
  Empty,            \* invalid_thread_id
  InitialSize,      \* INITIAL_IMPLICIT_PRODUCER_HASH_SIZE
  MaxProducers      \* bound: producers ever created

ASSUME HashAssumption == Hash \in [Thread -> Nat] /\ Empty \notin Thread /\ IsFiniteSet(Thread)
ASSUME SizeAssumption == InitialSize \in Nat \ {0} /\ MaxProducers \in Nat

NoProducer == 0     \* nullptr

VARIABLES
  tables,       \* the hash tables, oldest first: [capacity, key, value]; prev is the one before
  count,        \* implicitProducerHashCount
  resizing,     \* implicitProducerHashResizeInProgress
  created,      \* producers created so far: 1..created
  pc,           \* where each thread is in the call
  mainHash,     \* the locals of get_or_add_implicit_producer (tables by number)
  hash,
  index,
  newCount,
  newCapacity,
  result,       \* result[t]: what its last call returned
  mine          \* history: mine[t], the producer made for t

shared == <<tables, count, resizing, created, mine>>
locals == <<mainHash, hash, index, newCount, newCapacity>>
vars   == <<shared, pc, locals, result>>

NewTable(c) == [capacity |-> c, key |-> [i \in 0..(c - 1) |-> Empty],
                value |-> [i \in 0..(c - 1) |-> NoProducer]]
Current     == Len(tables)                     \* implicitProducerHash
Cap(h)      == tables[h].capacity
Half(h)     == Cap(h) \div 2
Start(t, h) == Hash[t] % Cap(h)
Key(t, h)   == tables[h].key[index[t]]

Init ==
  /\ tables = <<NewTable(InitialSize)>>
  /\ count = 0 /\ resizing = FALSE /\ created = 0
  /\ mine = [t \in Thread |-> NoProducer]
  /\ pc = [t \in Thread |-> "idle"]
  /\ mainHash = [t \in Thread |-> 1] /\ hash = [t \in Thread |-> 1]
  /\ index = [t \in Thread |-> 0]    /\ newCount = [t \in Thread |-> 0]
  /\ newCapacity = [t \in Thread |-> 0]
  /\ result = [t \in Thread |-> NoProducer]

Goto(t, l) == pc' = [pc EXCEPT ![t] = l]

(* The call returns p.                                                     *)
Return(t, p) ==
  /\ Goto(t, "idle")
  /\ result' = [result EXCEPT ![t] = p]
  /\ mainHash' = [mainHash EXCEPT ![t] = 1] /\ hash' = [hash EXCEPT ![t] = 1]
  /\ index' = [index EXCEPT ![t] = 0] /\ newCount' = [newCount EXCEPT ![t] = 0]
  /\ UNCHANGED newCapacity

NextSlot(t, h) == index' = [index EXCEPT ![t] = (@ + 1) % Cap(h)]

-----------------------------------------------------------------------------
(* Look the thread up, in the newest table first. *)
Call(t) ==
  /\ pc[t] = "idle"
  /\ mainHash' = [mainHash EXCEPT ![t] = Current]
  /\ hash' = [hash EXCEPT ![t] = Current]
  /\ index' = [index EXCEPT ![t] = Start(t, Current)]
  /\ Goto(t, "probe")
  /\ UNCHANGED <<shared, newCount, newCapacity, result>>

Found(t) ==
  /\ pc[t] = "probe" /\ Key(t, hash[t]) = t
  /\ IF hash[t] = mainHash[t]
     THEN Return(t, tables[hash[t]].value[index[t]])
     ELSE /\ Goto(t, "move")
          /\ result' = [result EXCEPT ![t] = tables[hash[t]].value[index[t]]]
          /\ index' = [index EXCEPT ![t] = Start(t, mainHash[t])]
          /\ UNCHANGED <<mainHash, hash, newCount, newCapacity>>
  /\ UNCHANGED shared

NotInTable_OnlyNewest(t) ==              \* mutant: the older tables are not searched
  /\ pc[t] = "probe" /\ Key(t, hash[t]) = Empty
  /\ Goto(t, "count")
  /\ UNCHANGED <<shared, locals, result>>

NotInTable(t) ==
  /\ pc[t] = "probe" /\ Key(t, hash[t]) = Empty
  /\ IF hash[t] = 1
     THEN Goto(t, "count") /\ UNCHANGED <<hash, index>>
     ELSE /\ hash' = [hash EXCEPT ![t] = @ - 1]
          /\ index' = [index EXCEPT ![t] = Start(t, hash[t] - 1)]
          /\ UNCHANGED pc
  /\ UNCHANGED <<shared, mainHash, newCount, newCapacity, result>>

ProbeNext(t) ==
  /\ pc[t] = "probe" /\ Key(t, hash[t]) \notin {t, Empty}
  /\ NextSlot(t, hash[t])
  /\ UNCHANGED <<shared, pc, mainHash, hash, newCount, newCapacity, result>>

Claim(t, p) ==
  tables' = [tables EXCEPT ![mainHash[t]].key[index[t]] = t,
                           ![mainHash[t]].value[index[t]] = p]

(* It was in an older table: copy the entry to the newest one.             *)
MoveUp(t) ==
  /\ pc[t] = "move"
  /\ IF Key(t, mainHash[t]) = Empty
     THEN Claim(t, result[t]) /\ Return(t, result[t])
     ELSE /\ NextSlot(t, mainHash[t])
          /\ UNCHANGED <<tables, pc, mainHash, hash, newCount, newCapacity, result>>
  /\ UNCHANGED <<count, resizing, created, mine>>

-----------------------------------------------------------------------------
(* A new thread. *)
CountIn(t) ==
  /\ pc[t] = "count"
  /\ count' = count + 1
  /\ newCount' = [newCount EXCEPT ![t] = count + 1]
  /\ Goto(t, "resize")
  /\ UNCHANGED <<tables, resizing, created, mine, mainHash, hash, index, newCapacity, result>>

TryResize(t) ==
  /\ pc[t] = "resize"
  /\ IF newCount[t] >= Half(mainHash[t]) /\ ~resizing
     THEN /\ resizing' = TRUE
          /\ mainHash' = [mainHash EXCEPT ![t] = Current]
          /\ Goto(t, "grow")
     ELSE Goto(t, "room") /\ UNCHANGED <<resizing, mainHash>>
  /\ UNCHANGED <<tables, count, created, mine, hash, index, newCount, newCapacity, result>>

(* The table is still too small: its capacity is doubled, and again until  *)
(* half of it exceeds newCount.                                            *)
Grow(t) ==
  /\ pc[t] = "grow"
  /\ IF newCount[t] >= Half(mainHash[t])
     THEN newCapacity' = [newCapacity EXCEPT ![t] = 2 * Cap(mainHash[t])] /\ Goto(t, "double")
     ELSE Goto(t, "unlock") /\ UNCHANGED newCapacity
  /\ UNCHANGED <<shared, mainHash, hash, index, newCount, result>>

DoubleAgain(t) ==
  /\ pc[t] = "double" /\ newCount[t] >= newCapacity[t] \div 2
  /\ newCapacity' = [newCapacity EXCEPT ![t] = 2 * @]
  /\ UNCHANGED <<shared, pc, mainHash, hash, index, newCount, result>>

AddTable(t) ==
  /\ pc[t] = "double" /\ newCount[t] < newCapacity[t] \div 2
  /\ \/ /\ tables' = Append(tables, NewTable(newCapacity[t]))
        /\ mainHash' = [mainHash EXCEPT ![t] = Current + 1]
        /\ Goto(t, "unlock")
     \/ /\ Goto(t, "giveUp")                                 \* out of memory
        /\ UNCHANGED <<tables, mainHash>>
  /\ newCapacity' = [newCapacity EXCEPT ![t] = 0]
  /\ UNCHANGED <<count, resizing, created, mine, hash, index, newCount, result>>

Unlock(t) ==
  /\ pc[t] = "unlock"
  /\ resizing' = FALSE
  /\ Goto(t, "room")
  /\ UNCHANGED <<tables, count, created, mine, locals, result>>

GiveUp_StaysLocked(t) ==                 \* mutant: the flag is not cleared on failure
  /\ pc[t] = "giveUp"
  /\ count' = count - 1
  /\ Return(t, NoProducer)
  /\ UNCHANGED <<tables, resizing, created, mine>>

GiveUp(t) ==
  /\ pc[t] = "giveUp"
  /\ count' = count - 1
  /\ Goto(t, "giveUpUnlock")
  /\ UNCHANGED <<tables, resizing, created, mine, locals, result>>

GiveUpUnlock(t) ==
  /\ pc[t] = "giveUpUnlock"
  /\ resizing' = FALSE
  /\ Return(t, NoProducer)
  /\ UNCHANGED <<tables, count, created, mine>>

HasRoom_Full(t) == newCount[t] <= Cap(mainHash[t])                       \* mutant
HasRoom(t) == newCount[t] < Half(mainHash[t]) + Cap(mainHash[t]) \div 4

(* Less than three quarters full: create the producer.  No implicit        *)
(* producer is ever inactive in this build, so none is recycled.           *)
CreateProducer(t) ==
  /\ pc[t] = "room" /\ HasRoom(t)
  /\ \/ /\ created < MaxProducers
        /\ created' = created + 1
        /\ mine' = [mine EXCEPT ![t] = created + 1]
        /\ index' = [index EXCEPT ![t] = Start(t, mainHash[t])]
        /\ Goto(t, "insert")
     \/ /\ Goto(t, "noMemory")
        /\ UNCHANGED <<created, mine, index>>
  /\ UNCHANGED <<tables, count, resizing, mainHash, hash, newCount, newCapacity, result>>

NoMemory_NotCountedOut(t) ==             \* mutant: the count stays raised
  /\ pc[t] = "noMemory"
  /\ Return(t, NoProducer)
  /\ UNCHANGED shared

NoMemory(t) ==
  /\ pc[t] = "noMemory"
  /\ count' = count - 1
  /\ Return(t, NoProducer)
  /\ UNCHANGED <<tables, resizing, created, mine>>

Insert(t) ==
  /\ pc[t] = "insert"
  /\ IF Key(t, mainHash[t]) = Empty
     THEN Claim(t, mine[t]) /\ Return(t, mine[t])
     ELSE /\ NextSlot(t, mainHash[t])
          /\ UNCHANGED <<tables, pc, mainHash, hash, newCount, newCapacity, result>>
  /\ UNCHANGED <<count, resizing, created, mine>>

(* Too full, and somebody else is growing it: look again.                  *)
WaitForTable(t) ==
  /\ pc[t] = "room" /\ ~HasRoom(t)
  /\ mainHash' = [mainHash EXCEPT ![t] = Current]
  /\ Goto(t, "resize")
  /\ UNCHANGED <<shared, hash, index, newCount, newCapacity, result>>

-----------------------------------------------------------------------------
Working(t) ==
  \/ Found(t) \/ NotInTable(t) \/ ProbeNext(t) \/ MoveUp(t) \/ CountIn(t) \/ TryResize(t)
  \/ Grow(t) \/ DoubleAgain(t) \/ AddTable(t) \/ Unlock(t) \/ GiveUp(t) \/ GiveUpUnlock(t)
  \/ CreateProducer(t) \/ NoMemory(t) \/ Insert(t) \/ WaitForTable(t)

Next == \E t \in Thread : Call(t) \/ Working(t)

Spec == Init /\ [][Next]_vars

(* A thread inside a call is scheduled again and again.                    *)
FairSpec == Spec /\ \A t \in Thread : WF_vars(Working(t))

-----------------------------------------------------------------------------
TypeOK ==
  /\ \A h \in 1..Len(tables) :
       /\ tables[h].key \in [0..(Cap(h) - 1) -> Thread \cup {Empty}]
       /\ tables[h].value \in [0..(Cap(h) - 1) -> 0..MaxProducers]
  /\ count \in 0..Cardinality(Thread) /\ resizing \in BOOLEAN /\ created \in 0..MaxProducers
  /\ pc \in [Thread -> {"idle", "probe", "move", "count", "resize", "grow", "double", "unlock",
                        "giveUp", "giveUpUnlock", "room", "noMemory", "insert"}]
  /\ mainHash \in [Thread -> 1..Len(tables)] /\ hash \in [Thread -> 1..Len(tables)]
  /\ newCount \in [Thread -> Nat] /\ newCapacity \in [Thread -> Nat] /\ index \in [Thread -> Nat]
  /\ result \in [Thread -> 0..MaxProducers] /\ mine \in [Thread -> 0..MaxProducers]

(* A thread has one producer for good, so that its elements stay in order: *)
(* once it has been made for the thread no second one is, and every later  *)
(* call returns it, whatever tables were added or failed to be added since *)
(* (concurrentqueue.h:3302-3304).                                          *)
OneProducerEach ==
  [][\A t \in Thread : mine[t] # NoProducer => /\ mine'[t] = mine[t]
                                               /\ result'[t] \in {result[t], mine[t]}]_vars

(* concurrentqueue.h:3319: probing ends, since every table keeps at least  *)
(* one slot free, the copies of entries of older tables included (3326).   *)
SlotFree == \A h \in 1..Len(tables) : \E i \in 0..(Cap(h) - 1) : tables[h].key[i] = Empty

(* When no call is under way the count is the number of threads that have  *)
(* an entry: what failed calls added is taken back (3376, 3405).           *)
CountExact ==
  (\A t \in Thread : pc[t] = "idle")
     => count = Cardinality({t \in Thread : mine[t] # NoProducer})

(* concurrentqueue.h:3439-3441: unless allocations fail for ever, every    *)
(* call returns, that of a thread which waits for another to finish the    *)
(* new table included.  (While they do fail, a waiting thread may find the *)
(* lock taken by one failing caller after another.)                        *)
CallReturns ==
  <>[](\A t \in Thread : pc[t] # "giveUp")
     => \A t \in Thread : pc[t] # "idle" ~> pc[t] = "idle"
=============================================================================
