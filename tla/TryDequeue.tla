----------------------------- MODULE TryDequeue -----------------------------
(***************************************************************************)
(* The front of the queue: how a consumer goes over the producers, with    *)
(* and without a token, for one element or for several, and how tokens     *)
(* rotate (concurrentqueue.h:1040-1346).                                   *)
(*                                                                         *)
(* Producers are numbered in the order they were linked: a new one goes to *)
(* the front of the list, so producerListTail is the number linked so far  *)
(* and next_prod of p is p - 1, where 0 is null.                           *)
(*                                                                         *)
(* A sub-queue is its length, and its dequeue one step that never yields   *)
(* more than there is.  It may yield less, or nothing: while a ticket that *)
(* failed has not been given back, or by an old tail, a dequeue leaves     *)
(* although elements are there (module DequeueClaim).                      *)
(***************************************************************************)
EXTENDS Integers, FiniteSets, FiniteSetsExt, Functions

CONSTANTS
  Consumer,
  Holder,              \* the consumers that have a token
  MaxId,               \* bound: tokens created so far
  MaxProducers,        \* bound: producers
  MaxLen,              \* bound: elements in one sub-queue
  MaxBulk,             \* bound: elements asked for at a time
  QUOTA                \* EXPLICIT_CONSUMER_CONSUMPTION_QUOTA_BEFORE_ROTATE

ASSUME FrontAssumption ==
  /\ Holder \subseteq Consumer
  /\ MaxId \in Nat /\ MaxProducers \in Nat \ {0} /\ MaxLen \in Nat \ {0}
  /\ MaxBulk \in Nat \ {0} /\ QUOTA \in Nat \ {0}

VARIABLES
  counted, linked,     \* producerCount, and the producers on the list
  len,                 \* len[p]: elements of producer p that nobody has claimed
  style,               \* style[c]: the form of try_dequeue that c calls
  pc, call,            \* where consumer c is, and the locals of its call
  left,                \* left[c]: of size_approx, what is left of tail - head since tail was read
  token,               \* token[c]
  checked              \* checked[c], history: producers that appeared empty to the call of c, or that
                       \* were not on the list when it began

list == <<counted, linked>>
vars == <<list, len, style, pc, call, left, token, checked>>

Producer == 1..MaxProducers
NoCall   == [max |-> 0, got |-> 0, tail |-> 0, ptr |-> 0, best |-> 0, bestSize |-> 0, nonEmpty |-> 0]

(* try_dequeue_non_interleaved is try_dequeue_bulk for one.                *)
Style(c) == IF c \in Holder THEN {"token", "token_bulk"} ELSE {"try_dequeue", "try_dequeue_bulk"}

(* A token counts the rotations it has not seen, globalOffset -            *)
(* lastKnownGlobalOffset, as far as remainders by numbers of producers go; *)
(* it starts one behind (lastKnownGlobalOffset is -1).  The wrap of the    *)
(* 32-bit offset is left out.                                              *)
Cycle    == ProductSet(Producer)
Later(b) == IF b = Cycle THEN 1 ELSE b + 1

(* Beyond the quota it makes no difference how far.                        *)
Consume(t, n) == [t EXCEPT !.consumed = Min({@ + n, QUOTA + 1})]

Init ==
  /\ linked = 0 /\ counted = 0
  /\ len = [p \in Producer |-> 0]
  /\ style \in {f \in [Consumer -> UNION {Style(c) : c \in Consumer}] : \A c \in Consumer : f[c] \in Style(c)}
  /\ pc = [c \in Consumer |-> "idle"] /\ call = [c \in Consumer |-> NoCall]
  /\ left = [c \in Consumer |-> 0]
  /\ \E id \in Injection(Holder, 0..MaxId) :
       token = [c \in Holder |-> [id |-> id[c], desired |-> 0, current |-> 0,
                                    consumed |-> 0, behind |-> 1]]
  /\ checked = [c \in Consumer |-> {}]

-----------------------------------------------------------------------------
(* Producers: add_producer counts, then links. *)
AddUncounted ==                             \* mutant: counted after it is linked
  /\ linked < MaxProducers
  /\ linked' = linked + 1
  /\ UNCHANGED <<counted, len, style, pc, call, left, token, checked>>

Count ==
  /\ counted < MaxProducers
  /\ counted' = counted + 1
  /\ UNCHANGED <<linked, len, style, pc, call, left, token, checked>>

Link ==
  /\ linked < counted
  /\ linked' = linked + 1
  /\ UNCHANGED <<counted, len, style, pc, call, left, token, checked>>

Enqueue(p) ==
  /\ p <= linked /\ len[p] < MaxLen
  /\ len' = [len EXCEPT ![p] = @ + 1]
  /\ UNCHANGED <<list, style, pc, call, left, token, checked>>

-----------------------------------------------------------------------------
(* Consumers. *)
Enter(c, l, r) == pc' = [pc EXCEPT ![c] = l] /\ call' = [call EXCEPT ![c] = r]
Return(c)      == Enter(c, "idle", NoCall)
Looks          == UNCHANGED <<list, len, style>>

(* dequeue, or dequeue_bulk of up to max, of producer p yields n.          *)
Yields(p, max) == 0..Min({len[p], max})
Dequeue(p, n) ==
  /\ len' = [len EXCEPT ![p] = @ - n]
  /\ left' = [d \in Consumer |-> IF pc[d] = "sizeHead" /\ call[d].ptr = p
                                 THEN Max({left[d] - n, 0}) ELSE left[d]]
  /\ UNCHANGED <<list, style>>

(* Less than max appeared empty to the call of c.                          *)
Checked(c, p, short) ==
  checked' = IF short THEN [checked EXCEPT ![c] = @ \cup {p}] ELSE checked
Ask(c, p, n, max) == n \in Yields(p, max) /\ Dequeue(p, n) /\ Checked(c, p, n < max)

Wanted(c) == call[c].max - call[c].got

(* A call: with a token it loads globalExplicitConsumerOffset first, if    *)
(* the token has been placed before, and without one producerListTail.     *)
Call(c) ==
  /\ pc[c] = "idle"
  /\ \E max \in IF style[c] \in {"try_dequeue", "token"} THEN {1} ELSE 1..MaxBulk :
       LET r == [NoCall EXCEPT !.max = max]
       IN  IF c \in Holder
           THEN Enter(c, IF token[c].desired # 0 /\ token[c].behind = 0 THEN "current" ELSE "tail", r)
           ELSE IF linked = 0 THEN Enter(c, "empty", r)
           ELSE Enter(c, IF style[c] = "try_dequeue" THEN "sizeTail" ELSE "each",
                      [r EXCEPT !.ptr = linked])
  /\ checked' = [checked EXCEPT ![c] = {p \in Producer : p > linked}]
  /\ Looks /\ UNCHANGED <<token, left>>

(* The list was empty.                                                     *)
Empty(c) == pc[c] = "empty" /\ Return(c) /\ Looks /\ UNCHANGED <<token, left, checked>>

(* try_dequeue_from_producer and its bulk form: a call in one step.        *)
FromProducer(c) ==
  /\ pc[c] = "idle"
  /\ \E p \in 1..linked : \E n \in Yields(p, MaxBulk) : n > 0 /\ Dequeue(p, n)
  /\ UNCHANGED <<pc, call, token, checked>>

(* size_approx of a producer: two loads, between which others dequeue.     *)
SizeTail(c) ==
  /\ pc[c] = "sizeTail"
  /\ left' = [left EXCEPT ![c] = len[call[c].ptr]]
  /\ pc' = [pc EXCEPT ![c] = "sizeHead"]
  /\ Looks /\ UNCHANGED <<call, token, checked>>

Score(r, size) ==
  IF size = 0 THEN r
  ELSE [r EXCEPT !.nonEmpty = @ + 1,
                 !.best     = IF size > r.bestSize THEN r.ptr ELSE @,
                 !.bestSize = Max({@, size})]

SizeHead(c) ==
  /\ pc[c] = "sizeHead"
  /\ LET r == Score(call[c], left[c])
     IN  IF r.nonEmpty < 3 /\ r.ptr > 1 THEN Enter(c, "sizeTail", [r EXCEPT !.ptr = @ - 1])
         ELSE IF r.nonEmpty = 0 THEN Return(c)
         ELSE Enter(c, "best", [NoCall EXCEPT !.max = 1, !.best = r.best])
  /\ left' = [left EXCEPT ![c] = 0]
  /\ Checked(c, call[c].ptr, left[c] = 0)
  /\ Looks /\ UNCHANGED token

Best(c) ==
  /\ pc[c] = "best"
  /\ \E n \in 0..1 : /\ Ask(c, call[c].best, n, 1)
                     /\ IF n = 1 THEN Return(c) ELSE Enter(c, "again", call[c])
  /\ UNCHANGED token

(* The best one yielded nothing: the list is loaded again.                 *)
Again(c) ==
  /\ pc[c] = "again"
  /\ Enter(c, "each", [call[c] EXCEPT !.ptr = linked])
  /\ Looks /\ UNCHANGED <<token, left, checked>>

(* From the producer at hand, which yielded n, to the next of the list.    *)
NextInList(c, n) ==
  IF n = Wanted(c) \/ call[c].ptr = 1 THEN Return(c)
  ELSE Enter(c, "each", [call[c] EXCEPT !.got = @ + n, !.ptr = @ - 1])

SkipBest_Stops(c) ==                        \* mutant: break instead of continue
  /\ pc[c] = "each" /\ call[c].ptr = call[c].best
  /\ Return(c)
  /\ Looks /\ UNCHANGED <<token, left, checked>>

SkipBest(c) ==
  /\ pc[c] = "each" /\ call[c].ptr = call[c].best
  /\ NextInList(c, 0)
  /\ Looks /\ UNCHANGED <<token, left, checked>>

Each(c) ==
  /\ pc[c] = "each" /\ call[c].ptr # call[c].best
  /\ \E n \in 0..Wanted(c) : Ask(c, call[c].ptr, n, Wanted(c)) /\ NextInList(c, n)
  /\ UNCHANGED token

-----------------------------------------------------------------------------
(* With a token: update_current_producer_after_rotation, *)
UpdateTail(c) ==
  /\ pc[c] = "tail"
  /\ IF token[c].desired = 0 /\ linked = 0 THEN Return(c)
     ELSE Enter(c, "count", [call[c] EXCEPT !.tail = linked])
  /\ Looks /\ UNCHANGED <<token, left, checked>>

UpdateCount(c) ==
  /\ pc[c] = "count"
  /\ Enter(c, "offset", [call[c] EXCEPT !.ptr = counted])
  /\ Looks /\ UNCHANGED <<token, left, checked>>

(* k producers on from p, on the ring that starts at tail.                 *)
Around(p, k, tail) == ((p - 1 - k) % tail) + 1

Designated(t, n, tail) ==
  Around(IF t.desired = 0 THEN Around(tail, n - 1 - (t.id % n), tail) ELSE t.desired,
         t.behind % n, tail)

UpdateOffset(c) ==
  /\ pc[c] = "offset"
  /\ LET n    == call[c].ptr
         tail == call[c].tail
         d    == Designated(token[c], n, tail)
     IN  token' = [token EXCEPT ![c] =
           [@ EXCEPT !.desired = d, !.current = d, !.consumed = 0, !.behind = 0]]
  /\ Enter(c, "current", [NoCall EXCEPT !.max = call[c].max])
  /\ Looks /\ UNCHANGED <<left, checked>>

(* then the current producer, *)
QuotaReached_Never(c, t) == FALSE           \* mutant: no rotation
QuotaReached(c, t) == IF style[c] = "token" THEN t.consumed = QUOTA ELSE t.consumed >= QUOTA

Current(c) ==
  /\ pc[c] = "current"
  /\ \E n \in 0..call[c].max :
       LET t == Consume(token[c], n)
           r == [call[c] EXCEPT !.got = n]
       IN  /\ Ask(c, token[c].current, n, r.max)
           /\ token' = [token EXCEPT ![c] = t]
           /\ IF n < r.max THEN Enter(c, "ring", r)
              ELSE IF QuotaReached(c, t) THEN Enter(c, "rotate", r) ELSE Return(c)

(* globalExplicitConsumerOffset.fetch_add *)
Rotate(c) ==
  /\ pc[c] = "rotate"
  /\ token' = [d \in Holder |-> [token[d] EXCEPT !.behind = Later(@)]]
  /\ Return(c)
  /\ Looks /\ UNCHANGED <<left, checked>>

(* then the others, around the ring.                                       *)
NextInRing(p, tail) == IF p = 1 THEN tail ELSE p - 1

RingTail(c) ==
  /\ pc[c] = "ring"
  /\ LET p == NextInRing(token[c].current, linked)
     IN  IF p = token[c].current THEN Return(c)
         ELSE Enter(c, "around", [call[c] EXCEPT !.tail = linked, !.ptr = p])
  /\ Looks /\ UNCHANGED <<token, left, checked>>

AroundRing(c) ==
  /\ pc[c] = "around"
  /\ \E n \in 0..Wanted(c) :
       LET p == call[c].ptr
           t == IF n = 0 THEN token[c] ELSE Consume([token[c] EXCEPT !.current = p, !.consumed = 0], n)
           q == NextInRing(p, call[c].tail)
       IN  /\ Ask(c, p, n, Wanted(c))
           /\ token' = [token EXCEPT ![c] = t]
           /\ IF n = Wanted(c) \/ q = t.current THEN Return(c)
              ELSE Enter(c, "around", [call[c] EXCEPT !.got = @ + n, !.ptr = q])

-----------------------------------------------------------------------------
ConsumerStep(c) ==
  \/ Call(c) \/ Empty(c) \/ SizeTail(c) \/ SizeHead(c) \/ Best(c) \/ Again(c) \/ SkipBest(c) \/ Each(c)
  \/ UpdateTail(c) \/ UpdateCount(c) \/ UpdateOffset(c)
  \/ Current(c) \/ Rotate(c) \/ RingTail(c) \/ AroundRing(c)

Next ==
  \/ Count \/ Link \/ \E p \in Producer : Enqueue(p)
  \/ \E c \in Consumer : FromProducer(c) \/ ConsumerStep(c)

(* Consumers poll, as the pinger's loop does: they call again and again.   *)
Fairness == \A c \in Consumer : WF_vars(ConsumerStep(c))

Spec == Init /\ [][Next]_vars /\ Fairness
-----------------------------------------------------------------------------
TypeOK ==
  /\ linked \in 0..counted /\ counted \in 0..MaxProducers
  /\ len \in [Producer -> 0..MaxLen]
  /\ pc \in [Consumer -> {"idle", "empty", "sizeTail", "sizeHead", "best", "again", "each",
                         "tail", "count", "offset", "current", "rotate", "ring", "around"}]
  /\ left \in [Consumer -> 0..MaxLen]
  /\ \A c \in Holder :
       /\ token[c].desired \in 0..linked /\ token[c].current \in 0..linked
       /\ token[c].consumed \in 0..(QUOTA + 1) /\ token[c].behind \in 0..Cycle
  /\ \A c \in Consumer : call[c].max \in 0..MaxBulk /\ call[c].ptr \in 0..counted
  /\ checked \in [Consumer -> SUBSET Producer]

(* "Returns false if all producer streams appeared empty at the time they  *)
(* were checked (so, the queue is likely but not guaranteed to be empty)"  *)
(* (concurrentqueue.h:1037, 1095, 1143): a call that returns less than it  *)
(* was asked for has checked every producer of the list it began with, and *)
(* each of them appeared empty: it was estimated at no element, or yielded *)
(* less than was still wanted.  The list grows and tokens move meanwhile.  *)
(* No call returns more than it was asked for.  (A step takes elements     *)
(* from one producer.)                                                     *)
Taken  == Max({len[p] - len'[p] : p \in Producer})
Got(c) == call[c].got + Taken
ShortMeansAllChecked ==
  [][\A c \in Consumer : pc[c] # "idle" /\ pc'[c] = "idle" =>
       /\ Got(c) <= call[c].max
       /\ Got(c) < call[c].max => checked'[c] = Producer]_vars

(* The count a token is placed with is at least the length of the list it  *)
(* is placed on: update_current_producer_after_rotation never divides by   *)
(* zero (concurrentqueue.h:1321, 1333), though the two are read apart.     *)
CountCoversList ==
  \A c \in Consumer : pc[c] = "offset" => call[c].ptr >= call[c].tail /\ call[c].tail > 0

(* "Every 256 items from one producer, make everyone rotate"               *)
(* (concurrentqueue.h:1102): a consumer that keeps polling with the only   *)
(* token asks every producer for elements again and again, however fast    *)
(* another one is refilled, and whatever other consumers take.  That an    *)
(* asked producer yields is not promised.                                  *)
Asks(c, p) == \/ pc[c] = "current" /\ token[c].current = p
              \/ pc[c] = "around" /\ call[c].ptr = p
NoProducerLeftAside ==
  \A c \in Holder : Holder = {c} => \A p \in Producer : []<>(p > linked \/ Asks(c, p))
=============================================================================
