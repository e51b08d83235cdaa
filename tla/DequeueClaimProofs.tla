------------------------- MODULE DequeueClaimProofs -------------------------
(***************************************************************************)
(* For any set of consumers and any bounds: headIndex never passes         *)
(* tailIndex, the assertion on overcommit holds, and tickets that found    *)
(* nothing are given back.                                                 *)
(*                                                                         *)
(* The argument.  Let m be the largest approved ticket.  The approved      *)
(* tickets and the failed ones below m are disjoint subsets of 0..m, so    *)
(* there are at most m + 1 - |Below(m)| approved tickets; and when m was   *)
(* approved, m - |Below(m)| < tailIndex held, since what its consumer had  *)
(* read of dequeueOvercommit only counted failures below its first ticket. *)
(*                                                                         *)
(* The arithmetic at the end is for the modules that extend this one with  *)
(* the memory of a sub-queue.                                              *)
(***************************************************************************)
EXTENDS DequeueClaim, FiniteSetTheorems, WellFoundedInduction, TLAPS

(* A finite, nonempty set of naturals has a largest element: one for which *)
(* the set of larger elements is minimal.                                  *)
LEMMA MaxExists ==
  ASSUME NEW S \in SUBSET Nat, S # {}, IsFiniteSet(S)
  PROVE  \E m \in S : \A s \in S : s <= m
<1> DEFINE Above(s) == {x \in S : s < x}
           Aboves == {Above(s) : s \in S}
<1>1. Aboves \subseteq FiniteSubsetsOf(S)
  BY FS_Subset DEF FiniteSubsetsOf
<1>2. PICK U \in Aboves : \A V \in Aboves : <<V, U>> \notin StrictSubsetOrdering(S)
  <2>1. Aboves # {}
    OBVIOUS
  <2>2. IsWellFoundedOn(StrictSubsetOrdering(S), FiniteSubsetsOf(S))
    BY FS_StrictSubsetOrderingWellFounded
  <2> HIDE DEF Aboves
  <2>3. \E U \in Aboves : \A V \in Aboves : ~(<<V, U>> \in StrictSubsetOrdering(S))
    BY <1>1, <2>1, <2>2, WFMin
  <2> QED BY <2>3
<1>3. PICK m \in S : U = Above(m)
  BY <1>2
<1>4. ASSUME NEW x \in Above(m) PROVE FALSE
  <2>0. x \in S /\ m < x /\ x \in Nat /\ m \in Nat /\ \A y \in S : y \in Nat
    BY <1>4
  <2>1. Above(x) \subseteq Above(m) /\ x \notin Above(x) /\ x \in Above(m)
    <3>1. ASSUME NEW y \in Above(x) PROVE y \in Above(m)
      <4>1. y \in S /\ x < y /\ y \in Nat
        BY <3>1, <2>0
      <4> QED BY <4>1, <2>0
    <3>2. x \notin Above(x)
      BY <2>0
    <3> QED BY <3>1, <3>2, <1>4
  <2>2. <<Above(x), U>> \in StrictSubsetOrdering(S)
    BY <1>3, <2>1 DEF StrictSubsetOrdering
  <2> QED BY <1>2, <1>4, <2>2
<1> QED BY <1>3, <1>4

-----------------------------------------------------------------------------
(* There are n tickets from a on.                                          *)
LEMMA RangeSize ==
  ASSUME NEW a \in Nat, NEW n \in Nat
  PROVE  IsFiniteSet(a..(a + n - 1)) /\ Cardinality(a..(a + n - 1)) = n
<1>1. a \in Int /\ a + n - 1 \in Int
  OBVIOUS
<1>2. /\ IsFiniteSet(a..(a + n - 1))
      /\ Cardinality(a..(a + n - 1)) =
           IF a > a + n - 1 THEN 0 ELSE (a + n - 1) - a + 1
  BY <1>1, FS_Interval
<1> QED BY <1>2

(* n new tickets add n to the size of a set of tickets.                    *)
LEMMA AddRange ==
  ASSUME NEW S, IsFiniteSet(S), NEW a \in Nat, NEW n \in Nat, S \cap (a..(a + n - 1)) = {}
  PROVE  /\ IsFiniteSet(S \cup (a..(a + n - 1)))
         /\ Cardinality(S \cup (a..(a + n - 1))) = Cardinality(S) + n
<1> DEFINE R == a..(a + n - 1)
<1>1. IsFiniteSet(R) /\ Cardinality(R) = n
  BY RangeSize
<1>2. Cardinality(S \cap R) = 0
  BY FS_EmptySet
<1> HIDE DEF R
<1>3. /\ IsFiniteSet(S \cup R)
      /\ Cardinality(S \cup R) = Cardinality(S) + Cardinality(R) - Cardinality(S \cap R)
  BY <1>1, FS_Union
<1>4. Cardinality(S) \in Nat
  BY FS_CardinalityType
<1>5. IsFiniteSet(S \cup R) /\ Cardinality(S \cup R) = Cardinality(S) + n
  BY <1>1, <1>2, <1>3, <1>4
<1> QED BY <1>5 DEF R

(* The history sets are finite: there are finitely many tickets.           *)
LEMMA FiniteTickets ==
  ASSUME TypeOK, TicketsOK
  PROVE  IsFiniteSet(Approved) /\ IsFiniteSet(taken) /\ IsFiniteSet(failed)
<1>1. IsFiniteSet(0..(dequeueOptimisticCount - 1))
  BY FS_Interval DEF TypeOK
<1>2. /\ Approved \subseteq 0..(dequeueOptimisticCount - 1)
      /\ taken \subseteq 0..(dequeueOptimisticCount - 1)
      /\ failed \subseteq 0..(dequeueOptimisticCount - 1)
  BY DEF TicketsOK, Approved
<1> QED BY <1>1, <1>2, FS_Subset

(* Below(t) is a finite set of failed tickets, and grows with t.           *)
LEMMA BelowType ==
  ASSUME IsFiniteSet(failed), NEW t
  PROVE  IsFiniteSet(Below(t)) /\ Cardinality(Below(t)) \in Nat
<1>1. Below(t) \subseteq failed
  BY DEF Below
<1> QED BY <1>1, FS_Subset, FS_CardinalityType

LEMMA BelowMonotone ==
  ASSUME TypeOK, IsFiniteSet(failed), NEW s \in Nat, NEW t \in Nat, s <= t
  PROVE  Cardinality(Below(s)) <= Cardinality(Below(t))
<1>1. ASSUME NEW f \in failed, f < s PROVE f < t
  <2>1. f \in Nat
    BY DEF TypeOK
  <2> QED BY <1>1, <2>1
<1>2. Below(s) \subseteq Below(t)
  BY <1>1 DEF Below
<1> QED BY <1>2, BelowType, FS_Subset

(* There is a published element for every approved ticket.                 *)
LEMMA Counting ==
  ASSUME IInv
  PROVE  Cardinality(Approved) <= tailIndex
<1> USE DEF IInv
<1>0. IsFiniteSet(Approved) /\ IsFiniteSet(failed)
  BY FiniteTickets
<1>1. CASE Approved = {}
  BY <1>1, FS_EmptySet DEF TypeOK
<1>2. CASE Approved # {}
  <2>1. Approved \in SUBSET Nat
    BY DEF TypeOK, Approved
  <2>2. PICK m \in Approved : \A s \in Approved : s <= m
    BY <1>0, <1>2, <2>1, MaxExists
  <2>3. m \in Nat
    BY <2>1
  <2>4. Approved \cup Below(m) \subseteq 0..m
    <3>1. \A s \in Approved : s \in 0..m
      BY <2>1, <2>2, <2>3
    <3>2. \A f \in Below(m) : f \in 0..m
      BY <2>3 DEF Below, TypeOK
    <3> QED BY <3>1, <3>2
  <2>5. Approved \cap Below(m) = {}
    BY DEF Below, TicketsOK, Approved
  <2>6. IsFiniteSet(Below(m)) /\ Cardinality(Below(m)) \in Nat /\ Cardinality(Approved) \in Nat
    BY <1>0, BelowType, FS_CardinalityType
  <2>7. Cardinality(Approved \cup Below(m)) = Cardinality(Approved) + Cardinality(Below(m))
    <3>1. Cardinality(Approved \cup Below(m)) =
            Cardinality(Approved) + Cardinality(Below(m)) - Cardinality(Approved \cap Below(m))
      BY <1>0, <2>6, FS_Union
    <3>2. Cardinality(Approved \cap Below(m)) = 0
      BY <2>5, FS_EmptySet
    <3> QED BY <2>6, <3>1, <3>2
  <2>8. Cardinality(Approved \cup Below(m)) <= m + 1
    <3>1. IsFiniteSet(0..m) /\ Cardinality(0..m) = m + 1
      BY <2>3, FS_Interval
    <3>2. Cardinality(Approved \cup Below(m)) <= Cardinality(0..m)
      BY <2>4, <3>1, FS_Subset
    <3> QED BY <3>1, <3>2
  <2>9. m - Cardinality(Below(m)) < tailIndex
    BY DEF ApprovedOK
  <2> QED BY <2>3, <2>6, <2>7, <2>8, <2>9 DEF TypeOK
<1> QED BY <1>1, <1>2

-----------------------------------------------------------------------------
(* The invariant holds initially.                                          *)
LEMMA InitIInv == Init => IInv
<1> SUFFICES ASSUME Init PROVE IInv
  OBVIOUS
<1> USE DEF Init
<1>1. TypeOK
  BY DEF TypeOK
<1>2. TicketsOK
  BY DEF TicketsOK, Hand
<1>3. CountsOK
  BY FS_EmptySet DEF CountsOK
<1>4. ApprovedOK
  BY DEF ApprovedOK, Approved
<1>5. BeliefOK
  BY DEF BeliefOK
<1> QED BY <1>1, <1>2, <1>3, <1>4, <1>5 DEF IInv

(* Enqueue only moves tailIndex up.                                        *)
LEMMA EnqueueStep == ASSUME IInv, NEW n \in Nat, Enqueue(n) PROVE IInv'
<1> USE DEF IInv, Enqueue, claim
<1>1. TypeOK'
  BY DEF TypeOK
<1>2. TicketsOK'
  BY DEF TicketsOK, Hand, Tickets
<1>3. CountsOK'
  BY DEF CountsOK
<1>4. ApprovedOK'
  <2> SUFFICES ASSUME NEW t \in Approved PROVE t - Cardinality(Below(t)) < tailIndex + n
    BY DEF ApprovedOK, Approved, Below, Hand, Tickets
  <2>1. t \in Nat /\ Cardinality(Below(t)) \in Nat /\ tailIndex \in Nat
    BY FiniteTickets, BelowType DEF TypeOK, Approved
  <2> QED BY <2>1 DEF ApprovedOK
<1>5. BeliefOK'
  BY DEF BeliefOK, Below
<1> QED BY <1>1, <1>2, <1>3, <1>4, <1>5

-----------------------------------------------------------------------------
(* A step of c leaves the hands of the others alone.                       *)
Others(c) ==
  \A d \in Consumer \ {c} : /\ pc'[d] = pc[d] /\ Hand(d)' = Hand(d)
                            /\ overcommit'[d] = overcommit[d] /\ myCount'[d] = myCount[d]

(* What a consumer read of dequeueOvercommit is at most its value, and new *)
(* tickets are larger than every failed one.                               *)
LEMMA DrawStep == ASSUME IInv, NEW c \in Consumer, Draw(c) PROVE IInv'
<1> USE DEF IInv
<1>0. PICK n \in 1..MaxAtOnce, over \in 0..dequeueOvercommit :
        /\ dequeueOptimisticCount' = dequeueOptimisticCount + n
        /\ overcommit' = [overcommit EXCEPT ![c] = over]
        /\ count' = [count EXCEPT ![c] = n]
  BY DEF Draw
<1>1. n \in Nat /\ dequeueOptimisticCount \in Nat /\ over \in Nat /\ over <= dequeueOvercommit
  BY BoundAssumption DEF TypeOK
<1>2. /\ pc[c] = "idle" /\ pc' = [pc EXCEPT ![c] = "check"]
      /\ myCount' = [myCount EXCEPT ![c] = dequeueOptimisticCount]
      /\ UNCHANGED <<tailIndex, headIndex, dequeueOvercommit, taken, failed>>
  BY DEF Draw, Goto
<1>3. TypeOK'
  BY <1>0, <1>1, <1>2 DEF TypeOK
<1>4. Others(c)
  BY <1>0, <1>2 DEF Others, Hand, Tickets, TypeOK
<1>5. Hand(c) = {} /\ Hand(c)' = dequeueOptimisticCount..(dequeueOptimisticCount + n - 1)
  BY <1>0, <1>1, <1>2 DEF Hand, Tickets, TypeOK
<1>6. TicketsOK'
  <2>1. \A t \in taken \cup failed : t \in 0..(dequeueOptimisticCount - 1)
    BY DEF TicketsOK
  <2>2. (taken \cup failed \subseteq 0..(dequeueOptimisticCount - 1))' /\ (taken \cap failed = {})'
    BY <1>0, <1>1, <1>2, <2>1 DEF TicketsOK
  <2>3. \A d \in Consumer : /\ Hand(d)' \subseteq 0..(dequeueOptimisticCount + n - 1)
                            /\ Hand(d)' \cap (taken \cup failed) = {}
    <3> SUFFICES ASSUME NEW d \in Consumer
                 PROVE  /\ Hand(d)' \subseteq 0..(dequeueOptimisticCount + n - 1)
                        /\ Hand(d)' \cap (taken \cup failed) = {}
      OBVIOUS
    <3>1. CASE d = c
      BY <1>1, <1>5, <2>1, <3>1
    <3>2. CASE d # c
      <4>1. /\ Hand(d)' = Hand(d) /\ Hand(d) \subseteq 0..(dequeueOptimisticCount - 1)
            /\ Hand(d) \cap (taken \cup failed) = {}
        BY <1>4, <3>2 DEF Others, TicketsOK
      <4>2. 0..(dequeueOptimisticCount - 1) \subseteq 0..(dequeueOptimisticCount + n - 1)
        BY <1>1
      <4> QED BY <4>1, <4>2
    <3> QED BY <3>1, <3>2
  <2>4. \A d \in Consumer \ {c} : Hand(d) \cap Hand(c)' = {}
    <3>1. \A d \in Consumer : Hand(d) \subseteq 0..(dequeueOptimisticCount - 1)
      BY DEF TicketsOK
    <3> QED BY <1>1, <1>5, <3>1
  <2>5. \A d, e \in Consumer : d # e => Hand(d)' \cap Hand(e)' = {}
    BY <1>4, <2>4 DEF Others, TicketsOK
  <2>6. ASSUME NEW t \in 0..(dequeueOptimisticCount + n - 1)
        PROVE  t \in taken \cup failed \/ \E d \in Consumer : t \in Hand(d)'
    <3>1. CASE t \in 0..(dequeueOptimisticCount - 1)
      BY <1>4, <1>5, <3>1 DEF Others, TicketsOK
    <3>2. CASE t \notin 0..(dequeueOptimisticCount - 1)
      <4>1. t \in Hand(c)'
        BY <1>1, <1>5, <3>2
      <4> QED BY <4>1
    <3> QED BY <3>1, <3>2
  <2>7. /\ UNCHANGED <<taken, failed>>
        /\ (0..(dequeueOptimisticCount - 1))' = 0..(dequeueOptimisticCount + n - 1)
    BY <1>0, <1>1, <1>2
  <2> QED BY <2>2, <2>3, <2>5, <2>6, <2>7 DEF TicketsOK
<1>7. CountsOK'
  BY <1>2 DEF CountsOK
<1>8. ApprovedOK'
  <2> SUFFICES ASSUME NEW t \in Approved' PROVE t - Cardinality(Below(t)) < tailIndex
    BY <1>2 DEF ApprovedOK, Below
  <2>1. t \in taken \/ \E d \in Consumer \ {c} : pc[d] = "take" /\ t \in Hand(d)
    BY <1>2, <1>4 DEF Approved, Others, TypeOK
  <2>2. t \in Approved
    BY <2>1 DEF Approved, TicketsOK
  <2> QED BY <2>2 DEF ApprovedOK
<1>9. BeliefOK'
  <2>1. \A f \in failed : f < dequeueOptimisticCount
    BY DEF TicketsOK, TypeOK
  <2>2. Below(dequeueOptimisticCount) = failed
    BY <2>1 DEF Below
  <2>3. over <= Cardinality(Below(dequeueOptimisticCount))
    BY <1>1, <2>2 DEF CountsOK
  <2> QED BY <1>0, <1>2, <1>4, <2>3 DEF BeliefOK, Below, Others, TypeOK
<1> QED BY <1>3, <1>6, <1>7, <1>8, <1>9

(* When the claim is over, the hand is empty.                              *)
LEMMA ReturnLocals ==
  ASSUME TypeOK, NEW c \in Consumer, Return(c)
  PROVE  /\ pc' \in [Consumer -> {"idle", "check", "take"}]
         /\ overcommit' \in [Consumer -> Nat] /\ myCount' \in [Consumer -> Nat]
         /\ count' \in [Consumer -> Nat]
         /\ pc'[c] = "idle" /\ Hand(c)' = {} /\ Others(c)
  BY DEF Return, Goto, TypeOK, Hand, Tickets, Others

(* As many tickets as the consumer found elements for have an element.     *)
LEMMA Enough ==
  ASSUME IInv, NEW c \in Consumer, pc[c] # "idle",
         NEW tail \in 0..tailIndex, NEW n \in Nat, n <= LeftFor(c, tail),
         NEW t \in myCount[c]..(myCount[c] + n - 1)
  PROVE  t - Cardinality(Below(t)) < tailIndex
<1>1. /\ myCount[c] \in Nat /\ overcommit[c] \in Nat /\ tailIndex \in Nat
      /\ IsFiniteSet(failed)
  BY FiniteTickets DEF IInv, TypeOK
<1>2. t \in Nat /\ myCount[c] <= t /\ t <= myCount[c] + n - 1
  BY <1>1
<1>3. overcommit[c] <= Cardinality(Below(myCount[c]))
  BY DEF IInv, BeliefOK
<1>4. Cardinality(Below(myCount[c])) <= Cardinality(Below(t))
  BY <1>1, <1>2, BelowMonotone DEF IInv
<1>5. Cardinality(Below(myCount[c])) \in Nat /\ Cardinality(Below(t)) \in Nat
  BY <1>1, BelowType
<1> QED BY <1>1, <1>2, <1>3, <1>4, <1>5 DEF LeftFor

(* Tickets that have an element are counted in headIndex once.             *)
LEMMA GrantStep ==
  ASSUME IInv, NEW c \in Consumer, pc[c] # "idle", Grant(c),
         \A t \in Hand(c) : t - Cardinality(Below(t)) < tailIndex
  PROVE  IInv'
<1> USE DEF IInv
<1>0. /\ Hand(c) = myCount[c]..(myCount[c] + count[c] - 1) /\ taken' = taken \cup Hand(c)
      /\ headIndex' = headIndex + count[c] /\ myCount[c] \in Nat /\ count[c] \in Nat
  BY DEF Grant, Hand, Tickets, TypeOK
<1>1. UNCHANGED <<tailIndex, dequeueOptimisticCount, dequeueOvercommit, failed>>
  BY DEF Grant
<1>2. pc'[c] = "idle" /\ Hand(c)' = {} /\ Others(c)
  BY ReturnLocals DEF Grant
<1>3. TypeOK'
  <2>1. taken' \in SUBSET Nat /\ headIndex' \in Nat
    <3>1. Hand(c) \in SUBSET Nat
      BY <1>0
    <3>2. headIndex \in Nat /\ taken \in SUBSET Nat
      BY DEF TypeOK
    <3>3. headIndex' \in Nat
      BY <1>0, <3>2
    <3> QED BY <1>0, <3>1, <3>2, <3>3
  <2> QED BY <1>1, <2>1, ReturnLocals DEF TypeOK, Grant
<1>4. TicketsOK'
  <2>1. Hand(c) \subseteq 0..(dequeueOptimisticCount - 1) /\ Hand(c) \cap failed = {}
    BY DEF TicketsOK
  <2>2. (taken \cup failed \subseteq 0..(dequeueOptimisticCount - 1))' /\ (taken \cap failed = {})'
    BY <1>0, <1>1, <2>1 DEF TicketsOK
  <2>3. ASSUME NEW d \in Consumer
        PROVE  /\ Hand(d)' \subseteq 0..(dequeueOptimisticCount - 1)
               /\ Hand(d)' \cap (taken' \cup failed) = {}
    <3>1. CASE d = c
      BY <1>2, <3>1
    <3>2. CASE d # c
      <4>1. Hand(d)' = Hand(d) /\ Hand(d) \cap Hand(c) = {}
        BY <1>2, <3>2 DEF TicketsOK, Others
      <4>2. /\ Hand(d) \subseteq 0..(dequeueOptimisticCount - 1)
            /\ Hand(d) \cap (taken \cup failed) = {} /\ taken' = taken \cup Hand(c)
        BY <1>0 DEF TicketsOK
      <4> QED BY <4>1, <4>2
    <3> QED BY <3>1, <3>2
  <2>4. \A d, e \in Consumer : d # e => Hand(d)' \cap Hand(e)' = {}
    BY <1>2 DEF TicketsOK, Others
  <2>5. \A t \in 0..(dequeueOptimisticCount - 1) :
          t \in taken' \cup failed \/ \E d \in Consumer : t \in Hand(d)'
    BY <1>0, <1>2 DEF TicketsOK, Others
  <2> QED BY <1>1, <2>2, <2>3, <2>4, <2>5 DEF TicketsOK
<1>5. CountsOK'
  <2>1. taken \cap (myCount[c]..(myCount[c] + count[c] - 1)) = {} /\ IsFiniteSet(taken)
    BY <1>0, FiniteTickets DEF TicketsOK
  <2>2. Cardinality(taken \cup (myCount[c]..(myCount[c] + count[c] - 1))) =
          Cardinality(taken) + count[c]
    BY <1>0, <2>1, AddRange
  <2> QED BY <1>0, <1>1, <2>2 DEF CountsOK
<1>6. ApprovedOK'
  <2> SUFFICES ASSUME NEW t \in Approved' PROVE t - Cardinality(Below(t)) < tailIndex
    BY <1>1 DEF ApprovedOK, Below
  <2>1. t \in Hand(c) \/ t \in taken \/ \E d \in Consumer \ {c} : pc[d] = "take" /\ t \in Hand(d)
    BY <1>0, <1>2 DEF Approved, Others
  <2>2. t \in Hand(c) \/ t \in Approved
    BY <2>1 DEF Approved, TicketsOK
  <2> QED BY <2>2 DEF ApprovedOK
<1>7. BeliefOK'
  BY <1>1, <1>2 DEF BeliefOK, Below, Others
<1> QED BY <1>3, <1>4, <1>5, <1>6, <1>7

LEMMA TakeAllStep == ASSUME IInv, NEW c \in Consumer, TakeAll(c) PROVE IInv'
<1>1. PICK tail \in 0..tailIndex : count[c] <= LeftFor(c, tail)
  BY DEF TakeAll
<1>2. pc[c] # "idle" /\ Grant(c) /\ count[c] \in Nat
  BY DEF TakeAll, IInv, TypeOK
<1>3. \A t \in Hand(c) : t - Cardinality(Below(t)) < tailIndex
  <2>1. Hand(c) = myCount[c]..(myCount[c] + count[c] - 1)
    BY <1>2 DEF Hand, Tickets, IInv, TypeOK
  <2> QED BY <1>1, <1>2, <2>1, Enough
<1> QED BY <1>2, <1>3, GrantStep

LEMMA TakeRestStep == ASSUME IInv, NEW c \in Consumer, TakeRest(c) PROVE IInv'
<1>1. pc[c] # "idle" /\ pc[c] = "take" /\ Grant(c)
  BY DEF TakeRest
<1>2. Hand(c) \subseteq Approved
  BY <1>1 DEF Approved, IInv, TicketsOK
<1> QED BY <1>1, <1>2, GrantStep DEF IInv, ApprovedOK

(* Tickets beyond the elements are counted in dequeueOvercommit once; the  *)
(* failures below any ticket only grow.                                    *)
LEMMA GiveBackStep == ASSUME IInv, NEW c \in Consumer, GiveBack(c) PROVE IInv'
<1> USE DEF IInv
<1>0. PICK tail \in 0..tailIndex :
        /\ Positive(LeftFor(c, tail)) < count[c]
        /\ dequeueOvercommit' = dequeueOvercommit + (count[c] - Positive(LeftFor(c, tail)))
        /\ failed' = failed \cup Tickets(c, Positive(LeftFor(c, tail)))
        /\ IF Positive(LeftFor(c, tail)) = 0 THEN Return(c)
           ELSE /\ Goto(c, "take")
                /\ count' = [count EXCEPT ![c] = Positive(LeftFor(c, tail))]
                /\ UNCHANGED <<overcommit, myCount>>
  BY DEF GiveBack
<1> DEFINE actual == Positive(LeftFor(c, tail))
           back   == count[c] - actual
           first  == myCount[c] + actual
<1>1. /\ pc[c] = "check" /\ UNCHANGED <<tailIndex, headIndex, dequeueOptimisticCount, taken>>
      /\ myCount[c] \in Nat /\ count[c] \in Nat /\ overcommit[c] \in Nat /\ tail \in Int
  BY DEF GiveBack, TypeOK
<1>2. actual \in Nat /\ back \in Nat /\ first \in Nat /\ actual < count[c]
      /\ (actual # 0 => actual <= LeftFor(c, tail))
  BY <1>0, <1>1 DEF Positive, LeftFor
<1>3. /\ Hand(c) = myCount[c]..(myCount[c] + count[c] - 1)
      /\ Tickets(c, actual) = first..(first + back - 1)
  BY <1>1, <1>2, SMTT(30) DEF Hand, Tickets
<1>4. first..(first + back - 1) \subseteq Hand(c)
  BY <1>1, <1>2, <1>3, SMTT(30)
<1>5. failed' = failed \cup (first..(first + back - 1)) /\ dequeueOvercommit' = dequeueOvercommit + back
  BY <1>0, <1>3
<1>6. \/ /\ actual = 0 /\ Return(c)
      \/ /\ actual # 0 /\ pc' = [pc EXCEPT ![c] = "take"]
         /\ count' = [count EXCEPT ![c] = actual] /\ UNCHANGED <<overcommit, myCount>>
  BY <1>0 DEF Goto
<1> HIDE DEF actual, back, first
<1>7. Others(c) /\ Hand(c)' = myCount[c]..(myCount[c] + actual - 1)
      /\ (pc'[c] # "idle" => /\ actual # 0 /\ overcommit'[c] = overcommit[c]
                             /\ myCount'[c] = myCount[c])
  <2>1. CASE actual = 0
    <3>1. Others(c) /\ Hand(c)' = {} /\ pc'[c] = "idle"
      BY <1>6, <2>1, ReturnLocals
    <3>2. myCount[c]..(myCount[c] + actual - 1) = {}
      BY <1>1, <2>1
    <3> QED BY <3>1, <3>2
  <2>2. CASE actual # 0
    BY <1>1, <1>2, <1>6, <2>2 DEF Others, Hand, Tickets, TypeOK
  <2> QED BY <2>1, <2>2
<1>8. /\ Hand(c)' \subseteq Hand(c) /\ Hand(c)' \cap (first..(first + back - 1)) = {}
      /\ Hand(c) \subseteq Hand(c)' \cup (first..(first + back - 1))
  <2>1. first = myCount[c] + actual /\ first + back = myCount[c] + count[c]
    BY <1>1, <1>2 DEF first, back
  <2>2. first + back - 1 = myCount[c] + count[c] - 1 /\ myCount[c] + actual - 1 = first - 1
        /\ first \in Nat /\ first + back \in Nat
    BY <1>1, <1>2, <2>1
  <2>3. Hand(c) = myCount[c]..(first + back - 1) /\ Hand(c)' = myCount[c]..(first - 1)
    BY <1>3, <1>7, <2>2
  <2>4. myCount[c] <= first /\ first <= first + back
    BY <1>1, <1>2, <2>1
  <2> QED BY <1>1, <1>2, <2>3, <2>4, SMTT(30)
<1>9. TypeOK'
  <2>1. failed' \in SUBSET Nat /\ dequeueOvercommit' \in Nat
    BY <1>2, <1>5 DEF TypeOK
  <2>2. CASE actual = 0
    BY <1>1, <1>6, <2>1, <2>2, ReturnLocals DEF TypeOK
  <2>3. CASE actual # 0
    BY <1>1, <1>2, <1>6, <2>1, <2>3 DEF TypeOK
  <2> QED BY <2>2, <2>3
<1>10. TicketsOK'
  <2> DEFINE Back == first..(first + back - 1)
  <2>0. /\ Back \subseteq Hand(c) /\ failed' = failed \cup Back
        /\ Hand(c)' \subseteq Hand(c) /\ Hand(c)' \cap Back = {} /\ Hand(c) \subseteq Hand(c)' \cup Back
    BY <1>4, <1>5, <1>8
  <2> HIDE DEF Back
  <2>1. (taken \cup failed \subseteq 0..(dequeueOptimisticCount - 1))' /\ (taken \cap failed = {})'
    BY <1>1, <2>0 DEF TicketsOK
  <2>2. ASSUME NEW d \in Consumer
        PROVE  /\ Hand(d)' \subseteq Hand(d) /\ Hand(d)' \cap Back = {}
               /\ Hand(d) \subseteq Hand(d)' \cup Back
    <3>1. CASE d = c
      BY <2>0, <3>1
    <3>2. CASE d # c
      <4>1. Hand(d)' = Hand(d) /\ Hand(d) \cap Hand(c) = {}
        BY <1>7, <3>2 DEF TicketsOK, Others
      <4> QED BY <2>0, <4>1
    <3> QED BY <3>1, <3>2
  <2>3. \A d \in Consumer : /\ Hand(d)' \subseteq 0..(dequeueOptimisticCount - 1)
                            /\ Hand(d)' \cap (taken \cup failed') = {}
    BY <2>0, <2>2 DEF TicketsOK
  <2>4. \A d, e \in Consumer : d # e => Hand(d)' \cap Hand(e)' = {}
    BY <2>2 DEF TicketsOK
  <2>5. \A t \in 0..(dequeueOptimisticCount - 1) :
          t \in taken \cup failed' \/ \E d \in Consumer : t \in Hand(d)'
    BY <2>0, <2>2 DEF TicketsOK
  <2> QED BY <1>1, <2>1, <2>3, <2>4, <2>5 DEF TicketsOK
<1>11. IsFiniteSet(failed) /\ IsFiniteSet(failed') /\ Cardinality(failed') = Cardinality(failed) + back
  <2>1. IsFiniteSet(failed) /\ failed \cap (first..(first + back - 1)) = {}
    BY <1>4, FiniteTickets DEF TicketsOK
  <2> QED BY <1>2, <1>5, <2>1, AddRange
<1>12. CountsOK'
  BY <1>1, <1>5, <1>11 DEF CountsOK
<1>13. ASSUME NEW t
       PROVE  /\ Cardinality(Below(t)) \in Nat /\ Cardinality(Below(t)') \in Nat
              /\ Cardinality(Below(t)) <= Cardinality(Below(t)')
  <2>1. Below(t)' \subseteq failed' /\ Below(t) \subseteq Below(t)'
    BY <1>5 DEF Below
  <2>2. IsFiniteSet(Below(t)')
    BY <1>11, <2>1, FS_Subset
  <2> QED BY <2>1, <2>2, FS_Subset, FS_CardinalityType
<1>14. ApprovedOK'
  <2> SUFFICES ASSUME NEW t \in Approved' PROVE t - Cardinality(Below(t)') < tailIndex
    BY <1>1 DEF ApprovedOK
  <2>1. \/ t \in taken \/ \E d \in Consumer \ {c} : pc[d] = "take" /\ t \in Hand(d)
        \/ pc'[c] # "idle" /\ t \in Hand(c)'
    BY <1>1, <1>7 DEF Approved, Others
  <2>2. t - Cardinality(Below(t)) < tailIndex
    <3>1. CASE t \in taken \/ \E d \in Consumer \ {c} : pc[d] = "take" /\ t \in Hand(d)
      BY <3>1 DEF ApprovedOK, Approved, TicketsOK
    <3>2. CASE pc'[c] # "idle" /\ t \in Hand(c)'
      BY <1>1, <1>2, <1>7, <3>2, Enough
    <3> QED BY <2>1, <3>1, <3>2
  <2>3. t \in Nat /\ tailIndex \in Nat
    BY <1>1 DEF Approved, TypeOK
  <2> QED BY <1>13, <2>2, <2>3
<1>15. BeliefOK'
  <2> SUFFICES ASSUME NEW d \in Consumer, pc'[d] # "idle", NEW k, k = myCount'[d]
               PROVE  overcommit'[d] <= Cardinality(Below(k)')
    BY DEF BeliefOK, Below
  <2>1. pc[d] # "idle" /\ overcommit'[d] = overcommit[d] /\ k = myCount[d]
    BY <1>1, <1>7 DEF Others
  <2>2. overcommit[d] \in Nat /\ overcommit[d] <= Cardinality(Below(k))
    BY <2>1 DEF BeliefOK, TypeOK
  <2> QED BY <1>13, <2>1, <2>2
<1> QED BY <1>9, <1>10, <1>12, <1>14, <1>15

(* The invariant is inductive.                                             *)
THEOREM Invariance == Spec => []IInv
<1>1. IInv /\ [Next]_vars => IInv'
  <2> SUFFICES ASSUME IInv, [Next]_vars PROVE IInv'
    OBVIOUS
  <2>1. ASSUME NEW n \in 1..MaxTail, Enqueue(n) PROVE IInv'
    <3>1. n \in Nat
      BY BoundAssumption
    <3> QED BY <2>1, <3>1, EnqueueStep
  <2>2. ASSUME NEW c \in Consumer, Draw(c) PROVE IInv'
    BY <2>2, DrawStep
  <2>3. ASSUME NEW c \in Consumer, TakeAll(c) PROVE IInv'
    BY <2>3, TakeAllStep
  <2>4. ASSUME NEW c \in Consumer, GiveBack(c) PROVE IInv'
    BY <2>4, GiveBackStep
  <2>5. ASSUME NEW c \in Consumer, TakeRest(c) PROVE IInv'
    BY <2>5, TakeRestStep
  <2>6. CASE UNCHANGED vars
    BY <2>6 DEF vars, counters, claim, IInv, TypeOK, TicketsOK, CountsOK, ApprovedOK, Approved,
                BeliefOK, Below, Hand, Tickets
  <2> QED BY <2>1, <2>2, <2>3, <2>4, <2>5, <2>6 DEF Next
<1> QED BY <1>1, InitIInv, PTL DEF Spec

-----------------------------------------------------------------------------
(* The counters and locals keep their types, and overcommit and tickets    *)
(* never go below zero.                                                    *)
THEOREM TypeCorrect == Spec => []TypeOK
<1>1. IInv => TypeOK
  BY DEF IInv
<1> QED BY <1>1, Invariance, PTL

(* headIndex never passes tailIndex: a consumer that advances it gets the  *)
(* indices of published elements (concurrentqueue.h:1925, 2486, 2701).     *)
THEOREM HeadNeverPassesTail == Spec => []HeadWithinTail
<1>1. IInv => HeadWithinTail
  <2> SUFFICES ASSUME IInv PROVE headIndex <= tailIndex
    BY DEF HeadWithinTail
  <2>1. IsFiniteSet(Approved) /\ taken \subseteq Approved
    BY FiniteTickets DEF IInv, TicketsOK, Approved
  <2>2. Cardinality(taken) <= Cardinality(Approved) /\ Cardinality(Approved) \in Nat
        /\ Cardinality(taken) \in Nat
    BY <2>1, FS_Subset, FS_CardinalityType
  <2> QED BY <2>2, Counting DEF IInv, CountsOK, TypeOK
<1> QED BY <1>1, Invariance, PTL

(* The assertion overcommit <= myDequeueCount (concurrentqueue.h:2483,     *)
(* 2692) never fails, even on stale reads.                                 *)
THEOREM AssertionHolds == Spec => []OvercommitAssertion
<1>1. IInv => OvercommitAssertion
  <2> SUFFICES ASSUME IInv, NEW c \in Consumer, pc[c] # "idle"
               PROVE  overcommit[c] <= myCount[c]
    BY DEF OvercommitAssertion
  <2>1. myCount[c] \in Nat /\ overcommit[c] \in Nat
    BY DEF IInv, TypeOK
  <2>2. Below(myCount[c]) \subseteq 0..(0 + myCount[c] - 1)
    <3>1. ASSUME NEW f \in Below(myCount[c]) PROVE f \in 0..(0 + myCount[c] - 1)
      <4>1. f \in Nat /\ f < myCount[c]
        BY <3>1 DEF Below, IInv, TypeOK
      <4> QED BY <2>1, <4>1
    <3> QED BY <3>1
  <2>3. IsFiniteSet(0..(0 + myCount[c] - 1)) /\ Cardinality(0..(0 + myCount[c] - 1)) = myCount[c]
    BY <2>1, RangeSize
  <2>4. Cardinality(Below(myCount[c])) <= myCount[c]
    BY <2>2, <2>3, FS_Subset
  <2>5. Cardinality(Below(myCount[c])) \in Nat
    BY FiniteTickets, BelowType DEF IInv
  <2> QED BY <2>1, <2>4, <2>5 DEF IInv, BeliefOK
<1> QED BY <1>1, Invariance, PTL

(* When no consumer is between its tickets and its decision, the tickets   *)
(* still counted are those of the elements taken: nothing is stranded      *)
(* behind a ticket that failed (concurrentqueue.h:2479, 2538, 2785).       *)
THEOREM NothingStranded == Spec => []NoneStranded
<1>1. IInv => NoneStranded
  <2> SUFFICES ASSUME IInv, \A c \in Consumer : pc[c] = "idle"
               PROVE  dequeueOptimisticCount - dequeueOvercommit = headIndex
    BY DEF NoneStranded
  <2>1. dequeueOptimisticCount \in Nat
    BY DEF IInv, TypeOK
  <2>2. taken \cup failed = 0..(dequeueOptimisticCount - 1) /\ taken \cap failed = {}
    BY DEF IInv, TicketsOK, Hand
  <2>3. 0..(dequeueOptimisticCount - 1) = 0..(0 + dequeueOptimisticCount - 1)
    BY <2>1
  <2>4. IsFiniteSet(taken) /\ IsFiniteSet(failed)
    BY FiniteTickets DEF IInv
  <2>5. Cardinality(taken \cup failed) =
          Cardinality(taken) + Cardinality(failed) - Cardinality(taken \cap failed)
    BY <2>4, FS_Union
  <2>6. Cardinality(taken \cap failed) = 0
    BY <2>2, FS_EmptySet
  <2>7. Cardinality(0..(0 + dequeueOptimisticCount - 1)) = dequeueOptimisticCount
    BY <2>1, RangeSize
  <2>8. headIndex = Cardinality(taken) /\ dequeueOvercommit = Cardinality(failed)
        /\ headIndex \in Nat /\ dequeueOvercommit \in Nat
    BY DEF IInv, CountsOK, TypeOK
  <2>9. dequeueOptimisticCount = headIndex + dequeueOvercommit
    <3>1. Cardinality(taken \cup failed) = dequeueOptimisticCount
      BY <2>2, <2>3, <2>7
    <3> QED BY <2>5, <2>6, <2>8, <3>1
  <2> QED BY <2>1, <2>8, <2>9
<1> QED BY <1>1, Invariance, PTL

-----------------------------------------------------------------------------
(* Arithmetic that both kinds of sub-queue need: numbers modulo a          *)
(* capacity, and positions in a circular array.                            *)
LEMMA Division ==
  ASSUME NEW b \in Nat, b > 0, NEW n \in Int
  PROVE  /\ n \div b \in Int /\ n % b \in 0..(b - 1) /\ n = b * (n \div b) + (n % b)
OBVIOUS

LEMMA Remainder ==
  ASSUME NEW b \in Nat, b > 0, NEW q \in Int, NEW r \in 0..(b - 1)
  PROVE  (b * q + r) % b = r /\ (b * q + r) \div b = q
OBVIOUS

(* x and y differ by a multiple of b.                                      *)
Congruent(b, x, y) == \E q \in Int : x = y + b * q

LEMMA Congruence ==
  ASSUME NEW b \in Nat, b > 0, NEW x \in Int, NEW y \in Int
  PROVE  Congruent(b, x, y) <=> x % b = y % b
<1>1. ASSUME NEW q \in Int, x = y + b * q PROVE x % b = y % b
  <2>1. PICK p \in Int, r \in 0..(b - 1) : y = b * p + r /\ r = y % b
    BY Division
  <2>2. x = b * (p + q) + r /\ p + q \in Int
    BY <1>1, <2>1
  <2> QED BY <2>1, <2>2, Remainder
<1>2. ASSUME x % b = y % b PROVE \E q \in Int : x = y + b * q
  <2>1. x = b * (x \div b) + (x % b) /\ y = b * (y \div b) + (y % b)
    BY Division
  <2>2. x \div b \in Int /\ y \div b \in Int /\ x % b \in Int
    BY Division
  <2>3. PICK p \in Int, q \in Int, r \in Int : x = b * p + r /\ y = b * q + r
    BY <1>2, <2>1, <2>2
  <2>4. x = y + b * (p - q) /\ p - q \in Int
    BY <2>3
  <2> QED BY <2>4
<1> QED BY <1>1, <1>2 DEF Congruent

LEMMA CongruentTo ==
  ASSUME NEW b \in Nat, b > 0, NEW x \in Int, NEW r \in 0..(b - 1), Congruent(b, x, r)
  PROVE  x % b = r
<1>1. r % b = r
  OBVIOUS
<1> QED BY <1>1, Congruence

LEMMA CongruentSelf ==
  ASSUME NEW b \in Nat, b > 0, NEW x \in Int
  PROVE  Congruent(b, x, x % b) /\ x % b \in 0..(b - 1)
<1>1. x % b \in 0..(b - 1)
  OBVIOUS
<1>2. (x % b) % b = x % b
  OBVIOUS
<1> QED BY <1>1, <1>2, Congruence

LEMMA CongruentSymmetric ==
  ASSUME NEW b \in Nat, b > 0, NEW x \in Int, NEW y \in Int, Congruent(b, x, y)
  PROVE  Congruent(b, y, x)
BY Congruence

LEMMA CongruentTransitive ==
  ASSUME NEW b \in Nat, b > 0, NEW x \in Int, NEW y \in Int, NEW z \in Int,
         Congruent(b, x, y), Congruent(b, y, z)
  PROVE  Congruent(b, x, z)
BY Congruence

LEMMA CongruentShift ==
  ASSUME NEW b \in Nat, b > 0, NEW x \in Int, NEW y \in Int, NEW z \in Int, Congruent(b, x, y)
  PROVE  /\ Congruent(b, x + z, y + z) /\ Congruent(b, x - z, y - z)
         /\ Congruent(b, z + x, z + y) /\ Congruent(b, z - x, z - y)
<1>1. PICK q \in Int : x = y + b * q
  BY DEF Congruent
<1>2. -q \in Int /\ z - x = (z - y) + b * (-q)
  BY <1>1
<1>3. x + z = (y + z) + b * q /\ x - z = (y - z) + b * q /\ z + x = (z + y) + b * q
  BY <1>1
<1>4. Congruent(b, x + z, y + z)
  BY <1>3 DEF Congruent
<1>5. Congruent(b, x - z, y - z)
  BY <1>3 DEF Congruent
<1>6. Congruent(b, z + x, z + y)
  BY <1>3 DEF Congruent
<1>7. Congruent(b, z - x, z - y)
  BY <1>2 DEF Congruent
<1> QED BY <1>4, <1>5, <1>6, <1>7

LEMMA CongruentNext ==
  ASSUME NEW b \in Nat, b > 0, NEW x \in Int
  PROVE  Congruent(b, x + b, x) /\ Congruent(b, x, x)
<1>1. x + b = x + b * 1 /\ x = x + b * 0
  OBVIOUS
<1> QED BY <1>1 DEF Congruent

(* Numbers that differ by less than b are not congruent.                   *)
LEMMA CongruentNear ==
  ASSUME NEW b \in Nat, b > 0, NEW x \in Int, NEW y \in Int, Congruent(b, x, y),
         x - y < b, y - x < b
  PROVE  x = y
<1>1. PICK q \in Int : x = y + b * q
  BY DEF Congruent
<1>2. CASE q > 0
  <2>1. b * q >= b
    BY <1>2
  <2> QED BY <1>1, <2>1
<1>3. CASE q < 0
  <2>1. b * q <= -b
    BY <1>3
  <2> QED BY <1>1, <2>1
<1>4. CASE q = 0
  BY <1>1, <1>4
<1> QED BY <1>2, <1>3, <1>4

(* Congruent modulo a multiple of c, congruent modulo c.                   *)
LEMMA CongruentWithin ==
  ASSUME NEW b \in Nat, b > 0, NEW c \in Nat, c > 0, b % c = 0,
         NEW x \in Int, NEW y \in Int, Congruent(b, x, y)
  PROVE  Congruent(c, x, y)
<1>1. PICK q \in Int : x = y + b * q
  BY DEF Congruent
<1>2. PICK m \in Int : b = c * m
  <2>1. b = c * (b \div c) + (b % c) /\ b \div c \in Int
    BY Division
  <2>2. b = c * (b \div c)
    BY <2>1
  <2> QED BY <2>1, <2>2
<1>3. x = y + c * (m * q) /\ m * q \in Int
  BY <1>1, <1>2
<1> QED BY <1>3 DEF Congruent

(* Some number of any b successive ones is congruent to x.                 *)
LEMMA CongruentSome ==
  ASSUME NEW b \in Nat, b > 0, NEW x \in Int, NEW low \in Int
  PROVE  \E k \in (low + 1)..(low + b) : Congruent(b, k, x)
<1> DEFINE r == (x - (low + 1)) % b
<1>1. Congruent(b, x - (low + 1), r) /\ r \in 0..(b - 1)
  BY CongruentSelf
<1> HIDE DEF r
<1>2. PICK q \in Int : x - (low + 1) = r + b * q
  BY <1>1 DEF Congruent
<1>3. -q \in Int /\ low + 1 + r = x + b * (-q)
  BY <1>1, <1>2
<1>4. Congruent(b, low + 1 + r, x)
  BY <1>1, <1>3 DEF Congruent
<1> QED BY <1>1, <1>4

(* The ring.  In a block index of capacity c that came into being with     *)
(* block o next to insert, block k is at position Ring(o, c, k).           *)
Ring(o, c, k) == (k - o) % c

LEMMA RingType ==
  ASSUME NEW c \in Nat, c > 0, NEW o \in Int, NEW k \in Int
  PROVE  /\ Ring(o, c, k) \in 0..(c - 1) /\ Ring(o, c, k) \in Int
         /\ Congruent(c, k - o, Ring(o, c, k))
<1>1. k - o \in Int
  OBVIOUS
<1> QED BY <1>1, CongruentSelf DEF Ring

LEMMA RingSame ==
  ASSUME NEW c \in Nat, c > 0, NEW o \in Int, NEW j \in Int, NEW k \in Int
  PROVE  Ring(o, c, j) = Ring(o, c, k) <=> Congruent(c, j, k)
<1>1. ASSUME Congruent(c, j, k) PROVE Ring(o, c, j) = Ring(o, c, k)
  <2>1. j - o \in Int /\ k - o \in Int
    OBVIOUS
  <2>2. Congruent(c, j - o, k - o)
    BY <1>1, CongruentShift
  <2> QED BY <2>1, <2>2, Congruence DEF Ring
<1>2. ASSUME Ring(o, c, j) = Ring(o, c, k) PROVE Congruent(c, j, k)
  <2>1. Congruent(c, j - o, k - o)
    <3>1. j - o \in Int /\ k - o \in Int
      OBVIOUS
    <3> QED BY <1>2, <3>1, Congruence DEF Ring
  <2>2. Congruent(c, (j - o) + o, (k - o) + o)
    <3>1. j - o \in Int /\ k - o \in Int
      OBVIOUS
    <3> QED BY <2>1, <3>1, CongruentShift
  <2>3. (j - o) + o = j /\ (k - o) + o = k
    OBVIOUS
  <2> QED BY <2>2, <2>3
<1> QED BY <1>1, <1>2

(* A number in 0..(c - 1) that is congruent to k - o is block k's place.   *)
LEMMA RingIs ==
  ASSUME NEW c \in Nat, c > 0, NEW o \in Int, NEW k \in Int, NEW x \in Int,
         Congruent(c, x, k - o)
  PROVE  x % c = Ring(o, c, k)
<1>1. k - o \in Int
  OBVIOUS
<1> QED BY <1>1, Congruence DEF Ring

LEMMA RingStep ==
  ASSUME NEW c \in Nat, c > 0, NEW o \in Int, NEW k \in Int
  PROVE  /\ (Ring(o, c, k) + 1) % c = Ring(o, c, k + 1)
         /\ (Ring(o, c, k) - 1) % c = Ring(o, c, k - 1)
         /\ Ring(o, c, k + c) = Ring(o, c, k)
<1> DEFINE r == Ring(o, c, k)
<1>1. r \in Int /\ Congruent(c, r, k - o) /\ k - o \in Int
  <2>1. k - o \in Int
    OBVIOUS
  <2>2. r \in Int
    BY RingType
  <2>3. Congruent(c, k - o, r)
    BY RingType
  <2> HIDE DEF r
  <2> QED BY <2>1, <2>2, <2>3, CongruentSymmetric
<1> HIDE DEF r
<1>2. Congruent(c, r + 1, (k - o) + 1) /\ Congruent(c, r - 1, (k - o) - 1)
  <2>1. Congruent(c, r + 1, (k - o) + 1)
    <3>1. 1 \in Int /\ r \in Int /\ k - o \in Int /\ Congruent(c, r, k - o)
      BY <1>1
    <3> QED BY <3>1, CongruentShift
  <2>2. Congruent(c, r - 1, (k - o) - 1)
    BY <1>1, CongruentShift
  <2> QED BY <2>1, <2>2
<1>3. (k - o) + 1 = (k + 1) - o /\ (k - o) - 1 = (k - 1) - o
  OBVIOUS
<1>4. (r + 1) % c = Ring(o, c, k + 1)
  <2>1. k + 1 \in Int /\ r + 1 \in Int /\ Congruent(c, r + 1, (k + 1) - o)
    BY <1>1, <1>2, <1>3
  <2> QED BY <2>1, RingIs
<1>5. (r - 1) % c = Ring(o, c, k - 1)
  <2>1. k - 1 \in Int /\ r - 1 \in Int /\ Congruent(c, r - 1, (k - 1) - o)
    BY <1>1, <1>2, <1>3
  <2> QED BY <2>1, RingIs
<1>6. Ring(o, c, k + c) = Ring(o, c, k)
  <2>1. k + c \in Int
    OBVIOUS
  <2> QED BY <2>1, CongruentNext, RingSame
<1> QED BY <1>4, <1>5, <1>6 DEF r

(* Blocks that share a place in an index shared it in the smaller ones.    *)
LEMMA RingWithin ==
  ASSUME NEW c \in Nat, c > 0, NEW d \in Nat, d > 0, d % c = 0, NEW o \in Int, NEW p \in Int,
         NEW a \in Int, NEW k \in Int, Ring(p, d, a) = Ring(p, d, k)
  PROVE  Ring(o, c, a) = Ring(o, c, k)
<1>1. Congruent(d, a, k)
  BY RingSame
<1>2. Congruent(c, a, k)
  BY <1>1, CongruentWithin
<1> QED BY <1>2, RingSame

(* Of c successive blocks each has its own place, and each place a block.  *)
LEMMA RingSome ==
  ASSUME NEW c \in Nat, c > 0, NEW o \in Int, NEW low \in Int, NEW p \in 0..(c - 1)
  PROVE  \E k \in Int : low < k /\ k <= low + c /\ Ring(o, c, k) = p
<1>1. o + p \in Int /\ p \in Int
  OBVIOUS
<1>2. PICK k \in (low + 1)..(low + c) : Congruent(c, k, o + p)
  BY <1>1, CongruentSome
<1>3. k \in Int /\ low < k /\ k <= low + c
  OBVIOUS
<1>4. Congruent(c, k - o, p)
  <2>1. Congruent(c, k - o, (o + p) - o)
    BY <1>1, <1>2, <1>3, CongruentShift
  <2>2. (o + p) - o = p
    BY <1>1
  <2> QED BY <2>1, <2>2
<1>5. k - o \in Int
  BY <1>3
<1>6. Ring(o, c, k) = p
  BY <1>4, <1>5, CongruentTo DEF Ring
<1> QED BY <1>3, <1>6

LEMMA RingOnce ==
  ASSUME NEW c \in Nat, c > 0, NEW o \in Int, NEW low \in Int, NEW j \in Int, NEW k \in Int,
         low < j, j <= low + c, low < k, k <= low + c, Ring(o, c, j) = Ring(o, c, k)
  PROVE  j = k
<1>1. Congruent(c, j, k) /\ j - k < c /\ k - j < c
  BY RingSame
<1> QED BY <1>1, CongruentNear

LEMMA RingStart ==
  ASSUME NEW c \in Nat, c > 0, NEW o \in Int, NEW i \in 0..(c - 1)
  PROVE  Ring(o, c, o + i) = i
<1>1. (o + i) - o = i /\ i % c = i
  OBVIOUS
<1> QED BY <1>1 DEF Ring

(* Where Grown copies from.                                                *)
LEMMA RingCopy ==
  ASSUME NEW c \in Nat, c > 0, NEW o \in Int, NEW low \in Int, NEW i \in Nat
  PROVE  (Ring(o, c, low + c) + 1 + i) % c = Ring(o, c, low + 1 + i)
<1> DEFINE r == Ring(o, c, low + c)
<1>1. low + c \in Int /\ low \in Int
  OBVIOUS
<1>2. r \in Int /\ r = Ring(o, c, low) /\ Congruent(c, low - o, r)
  BY <1>1, RingType, RingStep
<1> HIDE DEF r
<1>3. Congruent(c, r, low - o)
  <2>1. low - o \in Int
    OBVIOUS
  <2> QED BY <1>2, <2>1, CongruentSymmetric
<1>4. Congruent(c, r + (1 + i), (low - o) + (1 + i))
  <2>1. low - o \in Int /\ 1 + i \in Int
    OBVIOUS
  <2> QED BY <1>2, <1>3, <2>1, CongruentShift
<1>5. r + (1 + i) = r + 1 + i /\ (low - o) + (1 + i) = (low + 1 + i) - o
  BY <1>2
<1>6. (r + 1 + i) % c = Ring(o, c, low + 1 + i)
  <2>1. low + 1 + i \in Int /\ r + 1 + i \in Int /\ Congruent(c, r + 1 + i, (low + 1 + i) - o)
    BY <1>2, <1>4, <1>5
  <2> QED BY <2>1, RingIs
<1> QED BY <1>6 DEF r
=============================================================================
