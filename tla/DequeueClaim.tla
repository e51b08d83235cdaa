---------------------------- MODULE DequeueClaim ----------------------------
(***************************************************************************)
(* How consumers of one producer's sub-queue agree, without a lock, on who *)
(* takes which elements: the four counters of ProducerBase and the control *)
(* of ImplicitProducer::dequeue_bulk.  ExplicitProducer::dequeue_bulk is   *)
(* the same, and dequeue is the case of a single element.                  *)
(*                                                                         *)
(* A consumer draws tickets from dequeueOptimisticCount, decides from      *)
(* tailIndex and dequeueOvercommit for how many of them an element is      *)
(* left, counts the others as overcommitted and advances headIndex.        *)
(*                                                                         *)
(* The loads the code makes before the fetch_add are relaxed: each may     *)
(* return any earlier value of its counter.  Since a value read earlier is *)
(* such a value too, the loads and the fetch_add are one action.  The      *)
(* acquire load of tailIndex is given the same freedom, and is one action  *)
(* with the fetch_add that follows it.  Counters do not wrap here: they    *)
(* are naturals (the 64-bit indices in use at a time differ by far less    *)
(* than 2^63, so circular_less_than is <).                                 *)
(***************************************************************************)
EXTENDS Integers, FiniteSets

CONSTANTS Consumer,      \* threads that call try_dequeue
          MaxTail,       \* bound: elements enqueued
          MaxTickets,    \* bound: tickets drawn
          MaxAtOnce      \* bound: elements asked for in one call

ASSUME BoundAssumption == MaxTail \in Nat /\ MaxTickets \in Nat /\ MaxAtOnce \in Nat

VARIABLES
  tailIndex, headIndex, dequeueOptimisticCount, dequeueOvercommit,
  pc,          \* pc[c]: idle, check, take
  overcommit,  \* overcommit[c]: the local of that name
  myCount,     \* myCount[c]: myDequeueCount, the first ticket
  count,       \* count[c]: desiredCount, then actualCount
  taken,       \* history: tickets that advanced headIndex
  failed       \* history: tickets counted in dequeueOvercommit

counters == <<tailIndex, headIndex, dequeueOptimisticCount, dequeueOvercommit>>
claim    == <<pc, overcommit, myCount, count>>
vars     == <<counters, claim, taken, failed>>

Init ==
  /\ tailIndex = 0 /\ headIndex = 0
  /\ dequeueOptimisticCount = 0 /\ dequeueOvercommit = 0
  /\ pc = [c \in Consumer |-> "idle"]
  /\ overcommit = [c \in Consumer |-> 0]
  /\ myCount = [c \in Consumer |-> 0]
  /\ count = [c \in Consumer |-> 0]
  /\ taken = {} /\ failed = {}

Goto(c, l) == pc' = [pc EXCEPT ![c] = l]

(* The claim is over: its locals are gone.                                 *)
Return(c) ==
  /\ Goto(c, "idle")
  /\ overcommit' = [overcommit EXCEPT ![c] = 0]
  /\ myCount' = [myCount EXCEPT ![c] = 0]
  /\ count' = [count EXCEPT ![c] = 0]

(* The producer publishes n more elements.                                 *)
Enqueue(n) ==
  /\ tailIndex + n <= MaxTail
  /\ tailIndex' = tailIndex + n
  /\ UNCHANGED <<headIndex, dequeueOptimisticCount, dequeueOvercommit, claim, taken, failed>>

(* With what it loaded the consumer sees elements to dequeue, and draws a  *)
(* ticket for as many of them as it was asked for.  (When it sees none,    *)
(* the call returns and nothing has changed.)                              *)
Seen(over) ==
  {tail - (optimistic - over) : tail \in 0..tailIndex, optimistic \in 0..dequeueOptimisticCount}

Draw(c) ==
  /\ pc[c] = "idle"
  /\ \E over \in 0..dequeueOvercommit :
     \E n \in {m \in 1..MaxAtOnce : \E desired \in Seen(over) : m <= desired} :
       /\ dequeueOptimisticCount + n <= MaxTickets
       /\ dequeueOptimisticCount' = dequeueOptimisticCount + n
       /\ overcommit' = [overcommit EXCEPT ![c] = over]
       /\ count' = [count EXCEPT ![c] = n]
  /\ myCount' = [myCount EXCEPT ![c] = dequeueOptimisticCount]
  /\ Goto(c, "check")
  /\ UNCHANGED <<tailIndex, headIndex, dequeueOvercommit, taken, failed>>

(* What the consumer then believes was left for it, when tail is what it   *)
(* loads of tailIndex.                                                     *)
LeftFor(c, tail) == tail - (myCount[c] - overcommit[c])
Positive(n) == IF n > 0 THEN n ELSE 0
Tickets(c, from) == (myCount[c] + from)..(myCount[c] + count[c] - 1)

(* The next count[c] elements from headIndex are this consumer's.          *)
Grant(c) ==
  /\ headIndex' = headIndex + count[c]
  /\ taken' = taken \cup Tickets(c, 0)
  /\ Return(c)
  /\ UNCHANGED <<tailIndex, dequeueOptimisticCount, dequeueOvercommit, failed>>

TakeAll_TrustsHint(c) == pc[c] = "check" /\ Grant(c)    \* mutant: tail is not tested again

TakeAll(c) ==
  /\ pc[c] = "check"
  /\ \E tail \in 0..tailIndex : count[c] <= LeftFor(c, tail)
  /\ Grant(c)

(* There is less: the tickets beyond actual are given back.                *)
GiveBack_Forgotten(c) ==                    \* mutant: no else branch
  /\ pc[c] = "check"
  /\ \E tail \in 0..tailIndex : LeftFor(c, tail) <= 0
  /\ Return(c)
  /\ UNCHANGED <<counters, taken, failed>>

GiveBack_ReloadsOvercommit(c) ==            \* mutant: overcommit read after the ticket
  /\ pc[c] = "check"
  /\ \E tail \in 0..tailIndex, over \in 0..dequeueOvercommit :
     LET actual == Positive(tail - (myCount[c] - over))
     IN  /\ actual < count[c]
         /\ dequeueOvercommit' = dequeueOvercommit + (count[c] - actual)
         /\ failed' = failed \cup Tickets(c, actual)
         /\ IF actual = 0 THEN Return(c)
            ELSE /\ Goto(c, "take")
                 /\ count' = [count EXCEPT ![c] = actual]
                 /\ overcommit' = [overcommit EXCEPT ![c] = over]
                 /\ UNCHANGED myCount
  /\ UNCHANGED <<tailIndex, headIndex, dequeueOptimisticCount, taken>>

GiveBack(c) ==
  /\ pc[c] = "check"
  /\ \E actual \in {Positive(LeftFor(c, tail)) : tail \in 0..tailIndex} :
       /\ actual < count[c]
       /\ dequeueOvercommit' = dequeueOvercommit + (count[c] - actual)
       /\ failed' = failed \cup Tickets(c, actual)
       /\ IF actual = 0 THEN Return(c)
          ELSE /\ Goto(c, "take")
               /\ count' = [count EXCEPT ![c] = actual]
               /\ UNCHANGED <<overcommit, myCount>>
  /\ UNCHANGED <<tailIndex, headIndex, dequeueOptimisticCount, taken>>

TakeRest(c) == pc[c] = "take" /\ Grant(c)

Next ==
  \/ \E n \in 1..MaxTail : Enqueue(n)
  \/ \E c \in Consumer : Draw(c) \/ TakeAll(c) \/ GiveBack(c) \/ TakeRest(c)

Spec == Init /\ [][Next]_vars

-----------------------------------------------------------------------------
TypeOK ==
  /\ tailIndex \in Nat /\ headIndex \in Nat
  /\ dequeueOptimisticCount \in Nat /\ dequeueOvercommit \in Nat
  /\ pc \in [Consumer -> {"idle", "check", "take"}]
  /\ overcommit \in [Consumer -> Nat] /\ myCount \in [Consumer -> Nat]
  /\ count \in [Consumer -> Nat]
  /\ taken \in SUBSET Nat /\ failed \in SUBSET Nat

(* "Since there's guaranteed to be at least actualCount elements, this     *)
(* will never exceed tail" (concurrentqueue.h:2716, 2190): every index a   *)
(* consumer gets from headIndex is that of a published element,            *)
(* however late it reads tailIndex and dequeueOvercommit.                  *)
HeadWithinTail == headIndex <= tailIndex

(* The assertion at concurrentqueue.h:2706 (and 1916, 2180, 2483).         *)
OvercommitAssertion == \A c \in Consumer : pc[c] # "idle" => overcommit[c] <= myCount[c]

(* When no dequeue is under way the failed tickets have all been given     *)
(* back: the next consumer sees exactly the elements that are left, so     *)
(* none is out of reach (concurrentqueue.h:2700, 2713).                    *)
NoneStranded ==
  (\A c \in Consumer : pc[c] = "idle") => dequeueOptimisticCount - dequeueOvercommit = headIndex

-----------------------------------------------------------------------------
(* The inductive invariant.                                                *)
Below(t) == {f \in failed : f < t}
Hand(c)  == IF pc[c] = "idle" THEN {} ELSE Tickets(c, 0)

(* Tickets that have an element: taken, or about to be.                    *)
Approved ==
  {t \in 0..(dequeueOptimisticCount - 1) :
     t \in taken \/ \E c \in Consumer : pc[c] = "take" /\ t \in Hand(c)}

(* Every ticket drawn is taken, failed or in one consumer's hands.         *)
TicketsOK ==
  /\ taken \cup failed \subseteq 0..(dequeueOptimisticCount - 1)
  /\ taken \cap failed = {}
  /\ \A c \in Consumer : /\ Hand(c) \subseteq 0..(dequeueOptimisticCount - 1)
                         /\ Hand(c) \cap (taken \cup failed) = {}
  /\ \A c, d \in Consumer : c # d => Hand(c) \cap Hand(d) = {}
  /\ \A t \in 0..(dequeueOptimisticCount - 1) :
       t \in taken \cup failed \/ \E c \in Consumer : t \in Hand(c)

CountsOK ==
  /\ headIndex = Cardinality(taken)
  /\ dequeueOvercommit = Cardinality(failed)

(* An approved ticket has, but for the failed ones before it, an element.  *)
ApprovedOK == \A t \in Approved : t - Cardinality(Below(t)) < tailIndex

(* What a consumer believes of dequeueOvercommit are failures of tickets   *)
(* before its own.                                                         *)
BeliefOK ==
  \A c \in Consumer : pc[c] # "idle" => overcommit[c] <= Cardinality(Below(myCount[c]))

IInv == TypeOK /\ TicketsOK /\ CountsOK /\ ApprovedOK /\ BeliefOK
=============================================================================
