-------------------------- MODULE TryDequeueProofs --------------------------
(***************************************************************************)
(* For any consumers, tokens and producers: a call that returns less than  *)
(* it was asked for has checked each producer, and each appeared empty;    *)
(* and a consumer token is never placed on the list by a remainder of      *)
(* division by zero, nor by a number smaller than the list it was given.   *)
(***************************************************************************)
EXTENDS TryDequeue, TLAPS

(* Producers are counted before they are linked, and neither number        *)
(* decreases: between the loads of producerListTail and producerCount, and *)
(* after them, the count that is read covers the list that was read.       *)
Placing(l, r) ==
  /\ l \in {"tail", "count"} => {"ptr", "tail"} \subseteq DOMAIN r
  /\ l = "count"  => r.tail \in 0..linked
  /\ l = "offset" => r.tail \in 0..linked /\ r.ptr \in Nat /\ r.ptr >= r.tail

Sound ==
  /\ linked \in Nat /\ counted \in Nat /\ linked <= counted
  /\ DOMAIN pc = Consumer /\ DOMAIN call = Consumer
  /\ \A c \in Consumer : Placing(pc[c], call[c])

LEMMA SoundInit == Init => Sound
BY DEF Init, Sound, Placing

(* A consumer that goes to l with the locals r.                            *)
LEMMA EnterKeeps ==
  ASSUME Sound, NEW c \in Consumer, NEW l, NEW r, Enter(c, l, r), UNCHANGED list, Placing(l, r)
  PROVE  Sound'
<1>1. /\ linked' = linked /\ counted' = counted
      /\ DOMAIN pc' = Consumer /\ DOMAIN call' = Consumer
  BY DEF Sound, Enter, list
<1>2. ASSUME NEW d \in Consumer PROVE Placing(pc[d], call[d])'
  <2>1. CASE d = c
    <3>1. pc'[d] = l /\ call'[d] = r
      BY <2>1 DEF Enter, Sound
    <3> QED BY <3>1, <1>1 DEF Placing
  <2>2. CASE d # c
    <3>1. pc'[d] = pc[d] /\ call'[d] = call[d]
      BY <2>2 DEF Enter, Sound
    <3> QED BY <3>1, <1>1 DEF Placing, Sound
  <2> QED BY <2>1, <2>2
<1> QED BY <1>1, <1>2 DEF Sound

(* Nobody is placed, and the list has grown or stayed as it is.            *)
LEMMA GrowKeeps ==
  ASSUME Sound, UNCHANGED <<pc, call>>,
         linked' \in Nat, counted' \in Nat, linked <= linked', linked' <= counted'
  PROVE  Sound'
<1>1. ASSUME NEW d \in Consumer PROVE Placing(pc[d], call[d])'
  BY DEF Sound, Placing
<1> QED BY <1>1 DEF Sound

LEMMA SoundStep == ASSUME Sound, [Next]_vars PROVE Sound'
<1> DEFINE Elsewhere(c) == \E l, r : Enter(c, l, r) /\ l \notin {"tail", "count", "offset"}
<1>1. ASSUME NEW c \in Consumer, Elsewhere(c), UNCHANGED list PROVE Sound'
  BY <1>1, EnterKeeps DEF Placing
<1>2. CASE Count \/ Link
  <2>1. UNCHANGED <<pc, call>>
    BY <1>2 DEF Count, Link
  <2>2. /\ linked' \in Nat /\ counted' \in Nat
        /\ linked <= linked' /\ linked' <= counted'
    BY <1>2 DEF Count, Link, Sound
  <2> QED BY <2>1, <2>2, GrowKeeps
<1>3. CASE (\E p \in Producer : Enqueue(p)) \/ (\E c \in Consumer : FromProducer(c))
  <2>1. UNCHANGED <<pc, call, linked, counted>>
    BY <1>3 DEF Enqueue, FromProducer, Dequeue, list
  <2> QED BY <2>1, GrowKeeps DEF Sound
<1>4. ASSUME NEW c \in Consumer, Call(c) PROVE Sound'
  <2>1. UNCHANGED list
    BY <1>4 DEF Call, Looks
  <2>2. PICK r : \/ Elsewhere(c)
                 \/ {"ptr", "tail"} \subseteq DOMAIN r /\ Enter(c, "tail", r)
    <3>1. \A max : {"ptr", "tail"} \subseteq DOMAIN [NoCall EXCEPT !.max = max]
      BY DEF NoCall
    <3> QED BY <1>4, <3>1 DEF Call
  <2>3. CASE Enter(c, "tail", r) /\ {"ptr", "tail"} \subseteq DOMAIN r
    BY <2>1, <2>3, EnterKeeps DEF Placing
  <2> QED BY <1>1, <2>1, <2>2, <2>3
<1>5. ASSUME NEW c \in Consumer, UpdateTail(c) PROVE Sound'
  <2>1. UNCHANGED list /\ {"ptr", "tail"} \subseteq DOMAIN call[c]
    BY <1>5 DEF UpdateTail, Looks, Sound, Placing
  <2>2. CASE Enter(c, "count", [call[c] EXCEPT !.tail = linked])
    <3>1. Placing("count", [call[c] EXCEPT !.tail = linked])
      BY <2>1 DEF Placing, Sound
    <3> QED BY <2>1, <2>2, <3>1, EnterKeeps
  <2>3. CASE Return(c)
    BY <1>1, <2>1, <2>3 DEF Return
  <2> QED BY <1>5, <2>2, <2>3 DEF UpdateTail
<1>6. ASSUME NEW c \in Consumer, UpdateCount(c) PROVE Sound'
  <2>1. UNCHANGED list /\ Enter(c, "offset", [call[c] EXCEPT !.ptr = counted])
    BY <1>6 DEF UpdateCount, Looks
  <2>2. {"ptr", "tail"} \subseteq DOMAIN call[c] /\ call[c].tail \in 0..linked
    BY <1>6 DEF UpdateCount, Sound, Placing
  <2>3. [call[c] EXCEPT !.ptr = counted].ptr = counted
        /\ [call[c] EXCEPT !.ptr = counted].tail = call[c].tail
    BY <2>2
  <2>4. Placing("offset", [call[c] EXCEPT !.ptr = counted])
    BY <2>2, <2>3 DEF Placing, Sound
  <2> QED BY <2>1, <2>4, EnterKeeps
<1>7. ASSUME NEW c \in Consumer,
             \/ Empty(c) \/ SizeTail(c) \/ SizeHead(c) \/ Best(c) \/ Again(c) \/ SkipBest(c) \/ Each(c)
             \/ UpdateOffset(c) \/ Current(c) \/ Rotate(c) \/ RingTail(c) \/ AroundRing(c)
      PROVE  Sound'
  <2>1. UNCHANGED list
    BY <1>7 DEF Empty, SizeTail, SizeHead, Best, Again, SkipBest, Each, UpdateOffset, Current, Rotate,
                RingTail, AroundRing, Looks, Ask, Dequeue
  <2>2. CASE SizeTail(c)
    <3>1. pc' = [pc EXCEPT ![c] = "sizeHead"] /\ UNCHANGED <<call, linked, counted>>
      BY <2>1, <2>2 DEF SizeTail, list
    <3>2. ASSUME NEW d \in Consumer PROVE Placing(pc[d], call[d])'
      BY <3>1 DEF Sound, Placing
    <3> QED BY <3>1, <3>2 DEF Sound
  <2>3. CASE ~SizeTail(c)
    <3>1. \E l, r : Enter(c, l, r) /\ l \notin {"tail", "count", "offset"}
      <4>1. CASE Empty(c) \/ Rotate(c) \/ Best(c) \/ Again(c)
        BY <4>1 DEF Empty, Rotate, Best, Again, Return
      <4>2. CASE SizeHead(c)
        BY <4>2 DEF SizeHead, Return
      <4>3. CASE SkipBest(c)
        BY <4>3 DEF SkipBest, NextInList, Return
      <4>4. CASE Each(c)
        BY <4>4 DEF Each, NextInList, Return
      <4>5. CASE UpdateOffset(c) \/ RingTail(c)
        BY <4>5 DEF UpdateOffset, RingTail, Return
      <4>6. CASE Current(c)
        BY <4>6 DEF Current, Return
      <4>7. CASE AroundRing(c)
        BY <4>7 DEF AroundRing, Return
      <4> QED BY <1>7, <2>3, <4>1, <4>2, <4>3, <4>4, <4>5, <4>6, <4>7
    <3> QED BY <3>1, <2>1, <1>1
  <2> QED BY <2>2, <2>3
<1>8. CASE UNCHANGED vars
  BY <1>8, GrowKeeps DEF vars, list, Sound
<1> QED
  BY <1>2, <1>3, <1>4, <1>6, <1>7, <1>8, <1>5 DEF Next, ConsumerStep
-----------------------------------------------------------------------------
(* What a step takes from the producers.                                   *)
LEMMA MaxIs ==
  ASSUME NEW S, S \subseteq Int, NEW m \in S, \A x \in S : x <= m
  PROVE  Max(S) = m
<1>1. \E x \in S : \A y \in S : x >= y
  OBVIOUS
<1>2. Max(S) \in S /\ \A y \in S : Max(S) >= y
  BY <1>1 DEF Max
<1>3. PICK k : k = Max(S)
  OBVIOUS
<1>4. k \in Int /\ k >= m /\ k <= m
  BY <1>2, <1>3
<1> QED BY <1>3, <1>4

LEMMA MinIs ==
  ASSUME NEW a \in Nat, NEW b \in Nat
  PROVE  /\ Min({a, b}) \in Nat /\ Min({a, b}) <= a /\ Min({a, b}) <= b
         /\ Min({a, b}) = a \/ Min({a, b}) = b
<1>1. \E x \in {a, b} : \A y \in {a, b} : x <= y
  <2>1. CASE a <= b
    <3>1. \A y \in {a, b} : a <= y
      BY <2>1
    <3> QED BY <3>1
  <2>2. CASE b <= a
    <3>1. \A y \in {a, b} : b <= y
      BY <2>2
    <3> QED BY <3>1
  <2> QED BY <2>1, <2>2
<1>2. Min({a, b}) \in {a, b} /\ \A y \in {a, b} : Min({a, b}) <= y
  BY <1>1 DEF Min
<1> QED BY <1>2

LEMMA YieldsIs ==
  ASSUME NEW p, len[p] \in Nat, NEW m \in Nat, NEW n \in Yields(p, m)
  PROVE  n \in Nat /\ n <= len[p] /\ n <= m
BY MinIs DEF Yields

Lengths == len \in [Producer -> Nat]

LEMMA TakenNone == ASSUME Lengths, UNCHANGED len PROVE Taken = 0
<1>1. 1 \in Producer
  BY FrontAssumption DEF Producer
<1>2. \A p \in Producer : len[p] - len'[p] = 0
  BY DEF Lengths
<1>3. {len[p] - len'[p] : p \in Producer} = {0}
  BY <1>1, <1>2
<1> QED BY <1>3, MaxIs DEF Taken

LEMMA TakenSome ==
  ASSUME Lengths, NEW p \in Producer, NEW n \in Nat, n <= len[p], Dequeue(p, n)
  PROVE  /\ Taken = n /\ Lengths' /\ len'[p] = len[p] - n
         /\ \A q \in Producer : q # p => len'[q] = len[q]
<1>1. len' = [len EXCEPT ![p] = @ - n]
  BY DEF Dequeue
<1>2. len'[p] = len[p] - n /\ len[p] \in Nat /\ len[p] - n \in Nat
  BY <1>1 DEF Lengths
<1>3. \A q \in Producer : q # p => len'[q] = len[q] /\ len[q] \in Nat
  BY <1>1 DEF Lengths
<1>4. Lengths'
  BY <1>1, <1>2 DEF Lengths
<1>5. /\ \A q \in Producer : len[q] - len'[q] \in {0, n}
      /\ len[p] - len'[p] = n
  BY <1>2, <1>3
<1> DEFINE S == {len[q] - len'[q] : q \in Producer}
<1>6. S \subseteq Int /\ n \in S /\ \A x \in S : x <= n
  BY <1>5
<1>7. Max(S) = n
  BY <1>6, MaxIs
<1> QED BY <1>2, <1>3, <1>4, <1>7 DEF Taken
-----------------------------------------------------------------------------
(* What a call under way knows: the producers that it need not look at any *)
(* more have been checked.                                                 *)
Locals == [max : Nat, got : Nat, tail : Nat, ptr : Nat, best : Nat, bestSize : Nat, nonEmpty : Nat]
Tokens == [id : Nat, desired : Nat, current : Nat, consumed : Nat, behind : Nat]

(* The producers that the walk along the list has behind it, and those that*)
(* the walk around the ring from a to p has.                               *)
Above(c) == \A p \in Producer : p > call[c].ptr => p \in checked[c]
Passed(a, p, tail) == IF p < a THEN (p + 1)..a ELSE (1..a) \cup ((p + 1)..tail)

Scan(c) ==
  /\ call[c] \in Locals /\ left[c] \in Nat /\ checked[c] \subseteq Producer
  /\ pc[c] \notin {"idle", "rotate"} => call[c].got < call[c].max
  /\ pc[c] # "idle" => \A p \in Producer : p > linked => p \in checked[c]
  /\ pc[c] = "rotate" => call[c].got = call[c].max /\ c \in Holder
  /\ pc[c] = "empty" => Producer \subseteq checked[c]
  /\ pc[c] \in {"sizeTail", "sizeHead"} =>
       /\ call[c].ptr \in 1..linked /\ call[c].got = 0 /\ call[c].max = 1
       /\ call[c].nonEmpty = 0 => call[c].bestSize = 0 /\ Above(c)
       /\ call[c].nonEmpty > 0 => call[c].best \in 1..linked
  /\ pc[c] \in {"best", "again"} => call[c].best \in 1..linked /\ call[c].got = 0 /\ call[c].max = 1
  /\ pc[c] = "again" => call[c].best \in checked[c]
  /\ pc[c] = "each" =>
       /\ call[c].ptr \in 1..linked /\ Above(c)
       /\ call[c].best # 0 => call[c].best \in checked[c]
  /\ pc[c] \in {"tail", "count", "offset", "current"} => c \in Holder /\ call[c].got = 0
  /\ pc[c] \in {"count", "offset"} => call[c].tail \in 1..linked
  /\ pc[c] = "offset" => call[c].ptr > 0
  /\ pc[c] \in {"current", "ring", "around"} => c \in Holder /\ token[c].current \in 1..linked
  /\ pc[c] = "ring" => token[c].current \in checked[c]
  /\ pc[c] = "around" =>
       /\ call[c].tail \in 1..linked /\ token[c].current <= call[c].tail
       /\ call[c].ptr \in 1..call[c].tail /\ call[c].ptr # token[c].current
       /\ Passed(token[c].current, call[c].ptr, call[c].tail) \subseteq checked[c]
       /\ \A p \in Producer : p > call[c].tail => p \in checked[c]

TokensOK == /\ token \in [Holder -> Tokens]
            /\ \A c \in Holder : token[c].desired # 0 => token[c].current \in 1..linked

Common == Sound /\ counted <= MaxProducers /\ Lengths /\ DOMAIN left = Consumer /\ DOMAIN checked = Consumer
FrontInv == Common /\ TokensOK /\ \A c \in Consumer : Scan(c)

LEMMA ListFacts ==
  ASSUME Common
  PROVE  /\ linked \in Nat /\ counted \in Nat /\ linked <= counted /\ MaxProducers \in Nat
         /\ \A p \in 1..linked : p \in Producer /\ p \in Nat /\ len[p] \in Nat
         /\ Producer = 1..MaxProducers /\ 1 \in Producer
<1>1. linked \in Nat /\ counted \in Nat /\ linked <= counted /\ counted <= MaxProducers /\ MaxProducers \in Nat \ {0}
  BY FrontAssumption DEF Common, Sound
<1>2. \A p \in 1..linked : p \in Producer /\ p \in Nat
  BY <1>1 DEF Producer
<1>3. 1 \in Producer
  BY <1>1 DEF Producer
<1> QED BY <1>1, <1>2, <1>3 DEF Common, Lengths, Producer

(* What consumer d sees of a step that is not its own.                     *)
Stands(d) ==
  /\ pc'[d] = pc[d] /\ call'[d] = call[d] /\ left'[d] \in Nat /\ checked'[d] = checked[d]
  /\ d \in Holder => token'[d].current = token[d].current

LEMMA Bystander ==
  ASSUME FrontInv, NEW d \in Consumer, Stands(d), linked' \in Nat, linked <= linked'
  PROVE  Scan(d)'
<1>1. Scan(d) /\ Common /\ linked \in Nat
  BY ListFacts DEF FrontInv
<1>2. \A p \in 1..linked : p \in 1..linked'
  BY <1>1
<1>3. \A p \in Producer : p > linked' => p > linked
  BY <1>1, ListFacts
<1>4. Above(d)' = Above(d)
  BY DEF Above, Stands
<1>5. pc[d] = "around" =>
        Passed(token[d].current, call[d].ptr, call[d].tail)' = Passed(token[d].current, call[d].ptr, call[d].tail)
  BY <1>1 DEF Passed, Stands, Scan
<1>6. pc[d] # "idle" => \A p \in Producer : p > linked' => p \in checked'[d]
  BY <1>1, <1>3 DEF Scan, Stands
<1>7. pc[d] \in {"current", "ring", "around"} => d \in Holder /\ token'[d].current = token[d].current
  BY <1>1 DEF Scan, Stands
<1> QED BY <1>1, <1>2, <1>4, <1>5, <1>6, <1>7 DEF Scan, Stands

(* What the step of consumer c leaves to the others.                       *)
CallsKept(c)   == \A d \in Consumer \ {c} : pc'[d] = pc[d] /\ call'[d] = call[d]
LeftKept(c)    == DOMAIN left' = Consumer /\ \A d \in Consumer \ {c} : left'[d] \in Nat
CheckedKept(c) == DOMAIN checked' = Consumer /\ \A d \in Consumer \ {c} : checked'[d] = checked[d]
TokensKept(c)  == \A d \in Holder \ {c} : token'[d].current = token[d].current

(* What its call returns.                                                  *)
Result(c) == pc'[c] = "idle" =>
  Got(c) <= call[c].max /\ (Got(c) < call[c].max => checked'[c] = Producer)

Does(c) ==
  /\ CallsKept(c) /\ LeftKept(c) /\ CheckedKept(c) /\ TokensKept(c) /\ UNCHANGED list
  /\ Lengths' /\ TokensOK' /\ Scan(c)' /\ Result(c)

LEMMA EnterIs ==
  ASSUME Common, NEW c \in Consumer, NEW l, NEW r, Enter(c, l, r)
  PROVE  pc'[c] = l /\ call'[c] = r /\ CallsKept(c)
BY DEF Enter, CallsKept, Common, Sound

LEMMA LeftSame ==
  ASSUME FrontInv, NEW c \in Consumer, left' = left \/ \E x : left' = [left EXCEPT ![c] = x]
  PROVE  LeftKept(c)
<1>1. \A d \in Consumer \ {c} : left'[d] = left[d] /\ left[d] \in Nat
  BY DEF FrontInv, Scan, Common
<1> QED BY <1>1 DEF LeftKept, FrontInv, Common

LEMMA CheckedSame ==
  ASSUME FrontInv, NEW c \in Consumer, UNCHANGED checked
  PROVE  CheckedKept(c) /\ checked'[c] = checked[c] /\ checked[c] \subseteq Producer
BY DEF FrontInv, Scan, Common, CheckedKept

LEMMA CheckedIs ==
  ASSUME FrontInv, NEW c \in Consumer, NEW p \in Producer, NEW short \in BOOLEAN, Checked(c, p, short)
  PROVE  /\ CheckedKept(c) /\ checked[c] \subseteq checked'[c] /\ checked'[c] \subseteq Producer
         /\ short => p \in checked'[c]
<1>1. DOMAIN checked = Consumer /\ checked[c] \subseteq Producer
  BY DEF FrontInv, Scan, Common
<1> QED BY <1>1 DEF Checked, CheckedKept

LEMMA LeftDequeue ==
  ASSUME FrontInv, NEW p \in Producer, NEW n \in Nat, Dequeue(p, n)
  PROVE  DOMAIN left' = Consumer /\ \A d \in Consumer : left'[d] \in Nat
<1>1. left' = [d \in Consumer |-> IF pc[d] = "sizeHead" /\ call[d].ptr = p
                                  THEN Max({left[d] - n, 0}) ELSE left[d]]
  BY DEF Dequeue
<1>2. ASSUME NEW d \in Consumer PROVE left'[d] \in Nat
  <2>1. PICK m \in Nat : m = left[d]
    BY DEF FrontInv, Scan
  <2>2. m - n \in Int /\ {m - n, 0} \subseteq Int
    OBVIOUS
  <2>3. Max({m - n, 0}) \in Nat
    <3>1. CASE m - n >= 0
      <4>1. \A x \in {m - n, 0} : x <= m - n
        BY <3>1
      <4>2. Max({m - n, 0}) = m - n
        BY <2>2, <4>1, MaxIs
      <4> QED BY <3>1, <4>2
    <3>2. CASE m - n < 0
      <4>1. \A x \in {m - n, 0} : x <= 0
        BY <3>2
      <4>2. Max({m - n, 0}) = 0
        BY <2>2, <4>1, MaxIs
      <4> QED BY <4>2
    <3> QED BY <3>1, <3>2
  <2> QED BY <1>1, <2>1, <2>3
<1> QED BY <1>1, <1>2

(* What a call gets of the producer it asks, and what it learns.           *)
LEMMA AskDoes ==
  ASSUME FrontInv, NEW c \in Consumer, NEW p \in 1..linked, NEW m \in Nat, NEW n, Ask(c, p, n, m)
  PROVE  /\ n \in Nat /\ n <= m /\ Lengths' /\ Taken = n /\ linked' = linked /\ UNCHANGED list
         /\ LeftKept(c) /\ left'[c] \in Nat
         /\ CheckedKept(c) /\ checked[c] \subseteq checked'[c] /\ checked'[c] \subseteq Producer
         /\ n < m => p \in checked'[c]
<1>1. p \in Producer /\ len[p] \in Nat /\ Lengths
  BY ListFacts DEF FrontInv, Common
<1>2. n \in Nat /\ n <= len[p] /\ n <= m /\ Dequeue(p, n) /\ Checked(c, p, n < m)
  BY <1>1, YieldsIs DEF Ask
<1>3. Lengths' /\ Taken = n
  BY <1>1, <1>2, TakenSome
<1>4. LeftKept(c) /\ left'[c] \in Nat
  BY <1>1, <1>2, LeftDequeue DEF LeftKept
<1>5. UNCHANGED list /\ linked' = linked
  BY <1>2 DEF Dequeue, list
<1>6. /\ CheckedKept(c) /\ checked[c] \subseteq checked'[c] /\ checked'[c] \subseteq Producer
      /\ n < m => p \in checked'[c]
  <2>1. (n < m) \in BOOLEAN
    OBVIOUS
  <2> QED BY <1>1, <1>2, <2>1, CheckedIs
<1> QED BY <1>2, <1>3, <1>4, <1>5, <1>6

(* A call that has returned knows nothing.                                 *)
LEMMA Ends ==
  ASSUME NEW c \in Consumer, pc'[c] = "idle", call'[c] = NoCall, left'[c] \in Nat, checked'[c] \subseteq Producer
  PROVE  Scan(c)'
<1>1. NoCall \in Locals
  BY DEF NoCall, Locals
<1> QED BY <1>1 DEF Scan

LEMMA SameTokens ==
  ASSUME FrontInv, NEW c \in Consumer, UNCHANGED <<list, token>>
  PROVE  TokensOK' /\ TokensKept(c)
BY DEF FrontInv, TokensOK, TokensKept, list

LEMMA SameLengths == ASSUME FrontInv, UNCHANGED len PROVE Lengths' /\ Taken = 0
BY TakenNone DEF FrontInv, Common, Lengths

-----------------------------------------------------------------------------
(* The steps of a call.                                                    *)
LEMMA CallDoes == ASSUME FrontInv, NEW c \in Consumer, Call(c) PROVE Does(c)
<1>1. Common /\ TokensOK /\ pc[c] = "idle" /\ left[c] \in Nat
  BY DEF Call, FrontInv, Scan
<1>2. UNCHANGED <<list, len, token, left>> /\ linked' = linked
  BY DEF Call, Looks, list
<1>3. LeftKept(c) /\ TokensOK' /\ TokensKept(c) /\ Lengths' /\ left'[c] \in Nat
  BY <1>1, <1>2, LeftSame, SameTokens, SameLengths
<1>4. PICK max \in Nat :
        LET r == [NoCall EXCEPT !.max = max]
        IN  /\ max > 0 /\ (style[c] = "try_dequeue" => max = 1)
            /\ \/ c \in Holder /\ token[c].desired # 0 /\ Enter(c, "current", r)
               \/ c \in Holder /\ Enter(c, "tail", r)
               \/ linked = 0 /\ Enter(c, "empty", r)
               \/ linked # 0 /\ style[c] = "try_dequeue" /\ Enter(c, "sizeTail", [r EXCEPT !.ptr = linked])
               \/ linked # 0 /\ Enter(c, "each", [r EXCEPT !.ptr = linked])
  <2>1. PICK max \in IF style[c] \in {"try_dequeue", "token"} THEN {1} ELSE 1..MaxBulk :
        LET r == [NoCall EXCEPT !.max = max]
        IN  IF c \in Holder
            THEN Enter(c, IF token[c].desired # 0 /\ token[c].behind = 0 THEN "current" ELSE "tail", r)
            ELSE IF linked = 0 THEN Enter(c, "empty", r)
            ELSE Enter(c, IF style[c] = "try_dequeue" THEN "sizeTail" ELSE "each",
                       [r EXCEPT !.ptr = linked])
    BY DEF Call
  <2>2. max \in Nat /\ max > 0 /\ (style[c] = "try_dequeue" => max = 1)
    BY FrontAssumption
  <2> QED BY <2>1, <2>2
<1> DEFINE r == [NoCall EXCEPT !.max = max]
<1>5. /\ r \in Locals /\ r.max = max /\ r.got = 0 /\ max > 0
      /\ linked \in Nat
      /\ [r EXCEPT !.ptr = linked] \in Locals /\ [r EXCEPT !.ptr = linked].ptr = linked
      /\ [r EXCEPT !.ptr = linked].max = max /\ [r EXCEPT !.ptr = linked].got = 0
      /\ [r EXCEPT !.ptr = linked].best = 0 /\ [r EXCEPT !.ptr = linked].nonEmpty = 0
      /\ [r EXCEPT !.ptr = linked].bestSize = 0
  BY <1>1, <1>4, ListFacts DEF NoCall, Locals
<1>6. PICK l, s : /\ Enter(c, l, s) /\ s \in Locals /\ s.got = 0 /\ s.max > 0
                  /\ \/ l = "empty" /\ linked = 0
                     \/ l = "current" /\ c \in Holder /\ token[c].desired # 0
                     \/ l = "tail" /\ c \in Holder
                     \/ /\ l = "sizeTail" /\ linked # 0 /\ s.max = 1 /\ s.ptr = linked
                        /\ s.nonEmpty = 0 /\ s.bestSize = 0
                     \/ l = "each" /\ linked # 0 /\ s.ptr = linked /\ s.best = 0
  <2> HIDE DEF r
  <2>1. \/ c \in Holder /\ token[c].desired # 0 /\ Enter(c, "current", r)
        \/ c \in Holder /\ Enter(c, "tail", r)
        \/ linked = 0 /\ Enter(c, "empty", r)
        \/ linked # 0 /\ max = 1 /\ Enter(c, "sizeTail", [r EXCEPT !.ptr = linked])
        \/ linked # 0 /\ Enter(c, "each", [r EXCEPT !.ptr = linked])
    BY <1>4 DEF r
  <2> QED BY <1>5, <2>1
<1>7. pc'[c] = l /\ call'[c] = s /\ CallsKept(c) /\ pc'[c] # "idle"
  <2>1. pc'[c] = l /\ call'[c] = s /\ CallsKept(c)
    BY <1>1, <1>6, EnterIs
  <2> QED BY <1>6, <2>1
<1>8. /\ CheckedKept(c) /\ checked'[c] \subseteq Producer
      /\ \A p \in Producer : p > linked => p \in checked'[c]
  <2>1. checked' = [checked EXCEPT ![c] = {p \in Producer : p > linked}] /\ DOMAIN checked = Consumer
    BY <1>1 DEF Call, Common
  <2> QED BY <2>1 DEF CheckedKept
<1>9. Scan(c)'
  <2>1. linked \in Nat /\ Producer = 1..MaxProducers /\ (linked # 0 => linked \in 1..linked)
    BY <1>1, ListFacts
  <2>2. linked = 0 => Producer \subseteq checked'[c]
    BY <1>8, <2>1
  <2>3. c \in Holder /\ token[c].desired # 0 => token'[c].current \in 1..linked
    BY <1>1, <1>2 DEF TokensOK
  <2>4. call'[c].ptr = linked => Above(c)'
    BY <1>8 DEF Above
  <2> QED BY <1>2, <1>3, <1>6, <1>7, <1>8, <2>1, <2>2, <2>3, <2>4 DEF Scan
<1> QED BY <1>2, <1>3, <1>7, <1>8, <1>9 DEF Does, Result

LEMMA EmptyDoes == ASSUME FrontInv, NEW c \in Consumer, Empty(c) PROVE Does(c)
<1>1. /\ Common /\ TokensOK /\ Scan(c) /\ pc[c] = "empty" /\ Enter(c, "idle", NoCall)
      /\ UNCHANGED <<list, len, token, left, checked>> /\ left'[c] \in Nat
  BY DEF Empty, FrontInv, Looks, Return, Scan
<1>2. /\ LeftKept(c) /\ TokensOK' /\ TokensKept(c) /\ Lengths' /\ Taken = 0
      /\ CheckedKept(c) /\ checked'[c] = checked[c] /\ checked[c] \subseteq Producer
  BY <1>1, LeftSame, SameTokens, SameLengths, CheckedSame
<1>3. pc'[c] = "idle" /\ call'[c] = NoCall /\ CallsKept(c)
  BY <1>1, EnterIs
<1>4. Scan(c)'
  BY <1>1, <1>2, <1>3, Ends
<1>5. Result(c)
  <2>1. call[c].got \in Nat /\ call[c].max \in Nat /\ call[c].got < call[c].max /\ Producer \subseteq checked[c]
    BY <1>1 DEF Scan, Locals
  <2>2. Got(c) = call[c].got
    BY <1>2, <2>1 DEF Got
  <2> QED BY <1>2, <2>1, <2>2 DEF Result
<1> QED BY <1>1, <1>2, <1>3, <1>4, <1>5 DEF Does

LEMMA SizeTailDoes == ASSUME FrontInv, NEW c \in Consumer, SizeTail(c) PROVE Does(c)
<1>1. /\ Common /\ TokensOK /\ Scan(c) /\ pc[c] = "sizeTail"
      /\ UNCHANGED <<list, len, token, call, checked>> /\ linked' = linked
      /\ left' = [left EXCEPT ![c] = len[call[c].ptr]] /\ pc' = [pc EXCEPT ![c] = "sizeHead"]
  BY DEF SizeTail, FrontInv, Looks, list
<1>2. /\ LeftKept(c) /\ TokensOK' /\ TokensKept(c) /\ Lengths'
      /\ CheckedKept(c) /\ checked'[c] = checked[c]
  BY <1>1, LeftSame, SameTokens, SameLengths, CheckedSame
<1>3. pc'[c] = "sizeHead" /\ call'[c] = call[c] /\ CallsKept(c)
  BY <1>1 DEF CallsKept, Common, Sound
<1>4. left'[c] \in Nat
  BY <1>1, ListFacts DEF Scan, Common
<1>5. Above(c)' = Above(c)
  BY <1>2, <1>3 DEF Above
<1>6. Scan(c)'
  BY <1>1, <1>2, <1>3, <1>4, <1>5 DEF Scan
<1> QED BY <1>1, <1>2, <1>3, <1>6 DEF Does, Result

LEMMA ScoreIs ==
  ASSUME NEW r \in Locals, NEW size \in Nat
  PROVE  /\ Score(r, size) \in Locals
         /\ Score(r, size).ptr = r.ptr /\ Score(r, size).max = r.max /\ Score(r, size).got = r.got
         /\ size = 0 => Score(r, size) = r
         /\ size # 0 => /\ Score(r, size).nonEmpty = r.nonEmpty + 1
                        /\ Score(r, size).best \in {r.ptr, r.best}
                        /\ size > r.bestSize => Score(r, size).best = r.ptr
<1>1. CASE size = 0
  BY <1>1 DEF Score
<1>2. CASE size # 0
  <2>1. PICK m : m = Max({r.bestSize, size})
    OBVIOUS
  <2>2. m \in Nat
    <3>1. {r.bestSize, size} \subseteq Int /\ r.bestSize \in Nat
      BY DEF Locals
    <3>2. r.bestSize <= size \/ size <= r.bestSize
      BY <3>1
    <3>3. Max({r.bestSize, size}) \in {r.bestSize, size}
      <4>1. CASE r.bestSize <= size
        <5>1. \A x \in {r.bestSize, size} : x <= size
          BY <4>1, <3>1
        <5> QED BY <5>1, <3>1, MaxIs
      <4>2. CASE size <= r.bestSize
        <5>1. \A x \in {r.bestSize, size} : x <= r.bestSize
          BY <4>2, <3>1
        <5> QED BY <5>1, <3>1, MaxIs
      <4> QED BY <3>2, <4>1, <4>2
    <3> QED BY <2>1, <3>1, <3>3
  <2>3. PICK b : b = IF size > r.bestSize THEN r.ptr ELSE r.best
    OBVIOUS
  <2>4. b \in Nat /\ b \in {r.ptr, r.best} /\ (size > r.bestSize => b = r.ptr)
    BY <2>3 DEF Locals
  <2>5. Score(r, size) = [r EXCEPT !.nonEmpty = r.nonEmpty + 1, !.best = b, !.bestSize = m]
    BY <1>2, <2>1, <2>3 DEF Score, Locals
  <2>6. r.nonEmpty + 1 \in Nat
    BY DEF Locals
  <2> QED BY <1>2, <2>2, <2>4, <2>5, <2>6 DEF Locals
<1> QED BY <1>1, <1>2

LEMMA SizeHeadDoes == ASSUME FrontInv, NEW c \in Consumer, SizeHead(c) PROVE Does(c)
<1>1. /\ Common /\ TokensOK /\ Scan(c) /\ pc[c] = "sizeHead"
      /\ UNCHANGED <<list, len, token>> /\ linked' = linked
      /\ left' = [left EXCEPT ![c] = 0]
  BY DEF SizeHead, FrontInv, Looks, list
<1>2. LeftKept(c) /\ TokensOK' /\ TokensKept(c) /\ Lengths' /\ Taken = 0
  BY <1>1, LeftSame, SameTokens, SameLengths
<1>3. left'[c] = 0
  BY <1>1 DEF Common
<1>4. PICK r : r = Score(call[c], left[c])
  OBVIOUS
<1>5. \/ r.nonEmpty < 3 /\ r.ptr > 1 /\ Enter(c, "sizeTail", [r EXCEPT !.ptr = @ - 1])
      \/ r.nonEmpty = 0 /\ ~(r.nonEmpty < 3 /\ r.ptr > 1) /\ Enter(c, "idle", NoCall)
      \/ r.nonEmpty # 0 /\ Enter(c, "best", [NoCall EXCEPT !.max = 1, !.best = r.best])
  BY <1>4 DEF SizeHead, Return
<1>6. /\ call[c] \in Locals /\ left[c] \in Nat
      /\ call[c].ptr \in 1..linked /\ call[c].got = 0 /\ call[c].max = 1
      /\ call[c].nonEmpty = 0 => call[c].bestSize = 0 /\ Above(c)
      /\ call[c].nonEmpty > 0 => call[c].best \in 1..linked
      /\ \A p \in Producer : p > linked => p \in checked[c]
  BY <1>1 DEF Scan
<1>7. /\ CheckedKept(c) /\ checked[c] \subseteq checked'[c] /\ checked'[c] \subseteq Producer
      /\ left[c] = 0 => call[c].ptr \in checked'[c]
  <2>1. call[c].ptr \in Producer /\ Checked(c, call[c].ptr, left[c] = 0) /\ (left[c] = 0) \in BOOLEAN
    BY <1>1, <1>6, ListFacts DEF SizeHead
  <2> QED BY <2>1, CheckedIs
<1>8. /\ r \in Locals /\ r.ptr = call[c].ptr /\ r.max = 1 /\ r.got = 0
      /\ left[c] = 0 => r = call[c]
      /\ left[c] # 0 => /\ r.nonEmpty = call[c].nonEmpty + 1
                        /\ r.best \in {call[c].ptr, call[c].best}
                        /\ left[c] > call[c].bestSize => r.best = call[c].ptr
  <2> HIDE DEF Score
  <2> QED BY <1>4, <1>6, ScoreIs
<1>9. /\ r.nonEmpty \in Nat /\ r.ptr \in 1..linked
      /\ r.nonEmpty > 0 => r.best \in 1..linked
      /\ r.nonEmpty = 0 => r.bestSize = 0 /\ Above(c) /\ r.ptr \in checked'[c] /\ r.best \in Nat
  <2>1. call[c].nonEmpty \in Nat /\ call[c].bestSize \in Nat /\ call[c].best \in Nat
    BY <1>6 DEF Locals
  <2>2. CASE left[c] = 0
    BY <1>7, <1>6, <1>8, <2>1, <2>2
  <2>3. CASE left[c] # 0
    <3>1. r.nonEmpty > 0 /\ r.nonEmpty \in Nat
      BY <1>8, <2>1, <2>3
    <3>2. r.best \in 1..linked
      <4>1. CASE call[c].nonEmpty > 0
        BY <4>1, <1>6, <1>8, <2>3
      <4>2. CASE call[c].nonEmpty = 0
        BY <4>2, <1>6, <1>8, <2>3
      <4> QED BY <2>1, <4>1, <4>2
    <3> QED BY <1>6, <1>8, <3>1, <3>2
  <2> QED BY <2>2, <2>3
<1>10. linked \in Nat /\ Producer = 1..MaxProducers /\ MaxProducers \in Nat
  BY <1>1, ListFacts
<1>11. ASSUME r.nonEmpty < 3, r.ptr > 1, Enter(c, "sizeTail", [r EXCEPT !.ptr = @ - 1])
       PROVE  Does(c)
  <2>1. PICK s : s = [r EXCEPT !.ptr = @ - 1]
    OBVIOUS
  <2>2. /\ s \in Locals /\ s.ptr = r.ptr - 1 /\ s.ptr \in 1..linked /\ s.got = 0 /\ s.max = 1
        /\ s.nonEmpty = r.nonEmpty /\ s.best = r.best /\ s.bestSize = r.bestSize
    BY <1>8, <1>9, <1>10, <1>11, <2>1 DEF Locals
  <2>3. pc'[c] = "sizeTail" /\ call'[c] = s /\ CallsKept(c)
    BY <1>1, <1>11, <2>1, EnterIs
  <2>4. /\ checked'[c] \subseteq Producer
        /\ \A p \in Producer : p \in checked[c] => p \in checked'[c]
    BY <1>7
  <2>5. r.nonEmpty = 0 => Above(c)'
    <3>1. ASSUME r.nonEmpty = 0, NEW p \in Producer, p > s.ptr PROVE p \in checked'[c]
      <4>1. p \in Nat /\ r.ptr \in Nat
        BY <1>9, <1>10
      <4>2. p = r.ptr \/ p > r.ptr
        BY <2>2, <3>1, <4>1
      <4> QED BY <1>8, <1>9, <2>4, <3>1, <4>2 DEF Above
    <3> QED BY <2>2, <2>3, <3>1 DEF Above
  <2>6. Scan(c)'
    BY <1>1, <1>3, <1>6, <1>9, <2>2, <2>3, <2>4, <2>5 DEF Scan
  <2> QED BY <1>7, <1>1, <1>2, <2>3, <2>6 DEF Does, Result
<1>12. ASSUME r.nonEmpty = 0, ~(r.nonEmpty < 3 /\ r.ptr > 1), Enter(c, "idle", NoCall)
       PROVE  Does(c)
  <2>1. pc'[c] = "idle" /\ call'[c] = NoCall /\ CallsKept(c)
    BY <1>1, <1>12, EnterIs
  <2>2. Scan(c)'
    BY <1>7, <1>3, <2>1, Ends
  <2>3. Result(c)
    <3>1. Got(c) = 0
      BY <1>2, <1>6 DEF Got
    <3>2. r.ptr = 1
      BY <1>9, <1>12, <1>10
    <3>3. \A p \in Producer : p \in checked'[c]
      BY <1>7, <1>8, <1>9, <1>10, <1>12, <3>2 DEF Above
    <3> QED BY <1>7, <1>6, <3>1, <3>3 DEF Result
  <2> QED BY <1>7, <1>1, <1>2, <2>1, <2>2, <2>3 DEF Does
<1>13. ASSUME r.nonEmpty # 0, Enter(c, "best", [NoCall EXCEPT !.max = 1, !.best = r.best])
       PROVE  Does(c)
  <2>1. PICK s : s = [NoCall EXCEPT !.max = 1, !.best = r.best]
    OBVIOUS
  <2>2. r.best \in 1..linked /\ r.best \in Nat
    BY <1>9, <1>13, <1>10
  <2>3. s \in Locals /\ s.max = 1 /\ s.best = r.best /\ s.got = 0
    BY <2>1, <2>2 DEF NoCall, Locals
  <2>4. pc'[c] = "best" /\ call'[c] = s /\ CallsKept(c)
    BY <1>1, <1>13, <2>1, EnterIs
  <2>5. /\ checked'[c] \subseteq Producer
        /\ \A p \in Producer : p \in checked[c] => p \in checked'[c]
    BY <1>7
  <2>6. Scan(c)'
    BY <1>1, <1>3, <1>6, <2>2, <2>3, <2>4, <2>5 DEF Scan
  <2> QED BY <1>7, <1>1, <1>2, <2>4, <2>6 DEF Does, Result
<1> QED BY <1>5, <1>11, <1>12, <1>13

LEMMA BestDoes == ASSUME FrontInv, NEW c \in Consumer, Best(c) PROVE Does(c)
<1>1. Common /\ TokensOK /\ Scan(c) /\ pc[c] = "best" /\ UNCHANGED token
  BY DEF Best, FrontInv
<1>2. PICK p, n : /\ p = call[c].best /\ Ask(c, p, n, 1)
                  /\ \/ n = 1 /\ Enter(c, "idle", NoCall)
                     \/ n # 1 /\ Enter(c, "again", call[c])
  BY DEF Best, Return
<1>3. /\ call[c] \in Locals /\ p \in 1..linked /\ call[c].got = 0 /\ call[c].max = 1
      /\ \A q \in Producer : q > linked => q \in checked[c]
  BY <1>1, <1>2 DEF Scan
<1>4. /\ n \in Nat /\ n <= 1 /\ Lengths' /\ Taken = n /\ linked' = linked /\ UNCHANGED list
      /\ LeftKept(c) /\ left'[c] \in Nat
      /\ CheckedKept(c) /\ checked[c] \subseteq checked'[c] /\ checked'[c] \subseteq Producer
      /\ n < 1 => p \in checked'[c]
  BY <1>2, <1>3, AskDoes
<1>5. TokensOK' /\ TokensKept(c)
  BY <1>1, <1>4, SameTokens
<1>6. CASE n = 1
  <2>1. pc'[c] = "idle" /\ call'[c] = NoCall /\ CallsKept(c)
    BY <1>1, <1>2, <1>6, EnterIs
  <2>2. Scan(c)'
    BY <1>4, <2>1, Ends
  <2>3. Got(c) = 1
    BY <1>3, <1>4, <1>6 DEF Got
  <2>4. Result(c)
    BY <1>3, <2>3 DEF Result
  <2> QED BY <1>4, <1>5, <2>1, <2>2, <2>4 DEF Does
<1>7. CASE n # 1
  <2>1. pc'[c] = "again" /\ call'[c] = call[c] /\ CallsKept(c)
    BY <1>1, <1>2, <1>7, EnterIs
  <2>2. p \in checked'[c]
    BY <1>4, <1>7
  <2>3. Scan(c)'
    BY <1>2, <1>3, <1>4, <2>1, <2>2 DEF Scan
  <2> QED BY <1>4, <1>5, <2>1, <2>3 DEF Does, Result
<1> QED BY <1>6, <1>7

LEMMA AgainDoes == ASSUME FrontInv, NEW c \in Consumer, Again(c) PROVE Does(c)
<1>1. /\ Common /\ TokensOK /\ Scan(c) /\ pc[c] = "again"
      /\ UNCHANGED <<list, len, token, left, checked>> /\ linked' = linked
      /\ Enter(c, "each", [call[c] EXCEPT !.ptr = linked])
  BY DEF Again, FrontInv, Looks, list
<1>2. /\ LeftKept(c) /\ TokensOK' /\ TokensKept(c) /\ Lengths'
      /\ CheckedKept(c) /\ checked'[c] = checked[c]
  BY <1>1, LeftSame, SameTokens, SameLengths, CheckedSame
<1>3. /\ call[c] \in Locals /\ left[c] \in Nat /\ call[c].best \in 1..linked /\ call[c].got = 0 /\ call[c].max = 1
      /\ call[c].best \in checked[c] /\ checked[c] \subseteq Producer
      /\ \A q \in Producer : q > linked => q \in checked[c]
  BY <1>1 DEF Scan
<1>4. linked \in Nat /\ linked \in 1..linked
  BY <1>1, <1>3, ListFacts
<1>5. PICK s : s = [call[c] EXCEPT !.ptr = linked]
  OBVIOUS
<1>6. s \in Locals /\ s.ptr = linked /\ s.got = 0 /\ s.max = 1 /\ s.best = call[c].best
  BY <1>3, <1>4, <1>5 DEF Locals
<1>7. pc'[c] = "each" /\ call'[c] = s /\ CallsKept(c)
  BY <1>1, <1>5, EnterIs
<1>8. Above(c)'
  BY <1>2, <1>3, <1>6, <1>7 DEF Above
<1>9. Scan(c)'
  BY <1>1, <1>2, <1>3, <1>4, <1>6, <1>7, <1>8 DEF Scan
<1> QED BY <1>1, <1>2, <1>7, <1>9 DEF Does, Result

(* From the producer at hand to the next of the list, the one at hand      *)
(* having been checked if it yielded less than was wanted.                 *)
LEMMA NextInListDoes ==
  ASSUME FrontInv, NEW c \in Consumer, pc[c] = "each", NEW n \in Nat, n <= Wanted(c), NextInList(c, n),
         Lengths', Taken = n, linked' = linked, UNCHANGED <<list, token>>, LeftKept(c), left'[c] \in Nat,
         CheckedKept(c), checked[c] \subseteq checked'[c], checked'[c] \subseteq Producer,
         n < Wanted(c) => call[c].ptr \in checked'[c]
  PROVE  Does(c)
<1>1. Common /\ TokensOK /\ Scan(c)
  BY DEF FrontInv
<1>2. PICK p, w : p = call[c].ptr /\ w = Wanted(c)
  OBVIOUS
<1>3. \/ (n = w \/ p = 1) /\ Enter(c, "idle", NoCall)
      \/ n # w /\ p # 1 /\ Enter(c, "each", [call[c] EXCEPT !.got = @ + n, !.ptr = @ - 1])
  BY <1>2 DEF NextInList, Return
<1>4. /\ call[c] \in Locals /\ p \in 1..linked /\ call[c].got < call[c].max
      /\ Above(c) /\ (call[c].best # 0 => call[c].best \in checked[c])
      /\ \A q \in Producer : q > linked => q \in checked[c]
  BY <1>1, <1>2 DEF Scan
<1>5. /\ linked \in Nat /\ p \in Producer /\ p \in Nat /\ p # 0
      /\ Producer = 1..MaxProducers /\ MaxProducers \in Nat
  BY <1>1, <1>4, ListFacts
<1>6. PICK g, m \in Nat : g = call[c].got /\ m = call[c].max
  BY <1>4 DEF Locals
<1>7. w = m - g /\ w \in Nat /\ w > 0
  BY <1>2, <1>4, <1>6 DEF Wanted
<1>8. n # w => p \in checked'[c]
  BY <1>2, <1>7
<1>9. TokensOK' /\ TokensKept(c)
  BY SameTokens
<1>10. n # w => \A q \in Producer : q >= p => q \in checked'[c]
  <2>1. ASSUME n # w, NEW q \in Producer, q >= p PROVE q \in checked'[c]
    <3>1. q = p \/ q > p
      BY <1>5, <2>1
    <3> QED BY <1>2, <1>4, <1>8, <2>1, <3>1 DEF Above
  <2> QED BY <2>1
<1>11. ASSUME n = w \/ p = 1, Enter(c, "idle", NoCall) PROVE Does(c)
  <2>1. pc'[c] = "idle" /\ call'[c] = NoCall /\ CallsKept(c)
    BY <1>1, <1>11, EnterIs
  <2>2. Scan(c)'
    BY <2>1, Ends
  <2>3. Got(c) = g + n
    BY <1>6 DEF Got
  <2>4. Got(c) <= m /\ (Got(c) < m => n # w)
    BY <1>2, <1>7, <2>3
  <2>5. n # w => Producer \subseteq checked'[c]
    BY <1>5, <1>10, <1>11
  <2>6. Result(c)
    BY <1>6, <2>4, <2>5 DEF Result
  <2> QED BY <1>9, <2>1, <2>2, <2>6 DEF Does
<1>12. ASSUME n # w, p # 1, Enter(c, "each", [call[c] EXCEPT !.got = @ + n, !.ptr = @ - 1]) PROVE Does(c)
  <2>1. PICK s : s = [call[c] EXCEPT !.got = @ + n, !.ptr = @ - 1]
    OBVIOUS
  <2>2. g + n \in Nat /\ p - 1 \in Nat /\ p - 1 \in 1..linked /\ g + n < m
    BY <1>2, <1>4, <1>5, <1>7, <1>12
  <2>3. s \in Locals /\ s.ptr = p - 1 /\ s.got = g + n /\ s.max = m /\ s.best = call[c].best
    BY <1>2, <1>4, <1>6, <2>1, <2>2 DEF Locals
  <2>4. pc'[c] = "each" /\ call'[c] = s /\ CallsKept(c)
    BY <1>1, <1>12, <2>1, EnterIs
  <2>5. \A q \in Producer : q > p - 1 => q >= p
    BY <1>5
  <2>6. Above(c)'
    BY <1>10, <1>12, <2>3, <2>4, <2>5 DEF Above
  <2>7. call'[c].ptr \in 1..linked' /\ call'[c].got < call'[c].max
    BY <2>2, <2>3, <2>4
  <2>8. Scan(c)'
    BY <1>4, <2>3, <2>4, <2>6, <2>7 DEF Scan
  <2> QED BY <1>9, <2>4, <2>8 DEF Does, Result
<1> QED BY <1>3, <1>11, <1>12

LEMMA WantedIs ==
  ASSUME NEW c \in Consumer, Scan(c), pc[c] \in {"each", "around"}
  PROVE  Wanted(c) \in Nat /\ Wanted(c) > 0
<1>1. PICK g, m \in Nat : g = call[c].got /\ m = call[c].max /\ g < m
  BY DEF Scan, Locals
<1>2. Wanted(c) = m - g
  BY <1>1 DEF Wanted
<1> QED BY <1>1, <1>2

LEMMA SkipBestDoes == ASSUME FrontInv, NEW c \in Consumer, SkipBest(c) PROVE Does(c)
<1>1. /\ Common /\ Scan(c) /\ pc[c] = "each" /\ call[c].ptr = call[c].best /\ NextInList(c, 0)
      /\ UNCHANGED <<list, len, token, left, checked>> /\ linked' = linked
  BY DEF SkipBest, FrontInv, Looks, list
<1>2. /\ LeftKept(c) /\ Lengths' /\ Taken = 0 /\ left'[c] \in Nat
      /\ CheckedKept(c) /\ checked'[c] = checked[c] /\ checked[c] \subseteq Producer
  BY <1>1, LeftSame, SameLengths, CheckedSame DEF Scan
<1>3. Wanted(c) \in Nat
  BY <1>1, WantedIs
<1>4. call[c].ptr \in 1..linked /\ call[c].best \in checked[c]
  BY <1>1, ListFacts DEF Scan
<1>5. 0 <= Wanted(c)
  BY <1>3
<1> QED BY <1>1, <1>2, <1>4, <1>5, NextInListDoes

LEMMA EachDoes == ASSUME FrontInv, NEW c \in Consumer, Each(c) PROVE Does(c)
<1>1. PICK n : Ask(c, call[c].ptr, n, Wanted(c)) /\ NextInList(c, n)
  BY DEF Each
<1>2. Common /\ Scan(c) /\ pc[c] = "each" /\ UNCHANGED token
  BY DEF Each, FrontInv
<1>3. call[c].ptr \in 1..linked /\ Wanted(c) \in Nat
  BY <1>2, WantedIs DEF Scan
<1>4. /\ n \in Nat /\ n <= Wanted(c) /\ Lengths' /\ Taken = n /\ linked' = linked /\ UNCHANGED list
      /\ LeftKept(c) /\ left'[c] \in Nat
      /\ CheckedKept(c) /\ checked[c] \subseteq checked'[c] /\ checked'[c] \subseteq Producer
      /\ n < Wanted(c) => call[c].ptr \in checked'[c]
  BY <1>1, <1>3, AskDoes
<1> QED BY <1>1, <1>2, <1>4, NextInListDoes

LEMMA UpdateTailDoes == ASSUME FrontInv, NEW c \in Consumer, UpdateTail(c) PROVE Does(c)
<1>1. /\ Common /\ TokensOK /\ Scan(c) /\ pc[c] = "tail"
      /\ UNCHANGED <<list, len, token, left, checked>> /\ linked' = linked
  BY DEF UpdateTail, FrontInv, Looks, list
<1>2. /\ LeftKept(c) /\ TokensOK' /\ TokensKept(c) /\ Lengths' /\ Taken = 0
      /\ CheckedKept(c) /\ checked'[c] = checked[c]
  BY <1>1, LeftSame, SameTokens, SameLengths, CheckedSame
<1>3. /\ call[c] \in Locals /\ left[c] \in Nat /\ call[c].got = 0 /\ call[c].got < call[c].max
      /\ c \in Holder /\ checked[c] \subseteq Producer
      /\ \A p \in Producer : p > linked => p \in checked[c]
  BY <1>1 DEF Scan
<1>4. linked \in Nat /\ Producer = 1..MaxProducers /\ MaxProducers \in Nat
  BY <1>1, ListFacts
<1>5. ASSUME token[c].desired = 0, linked = 0, Enter(c, "idle", NoCall) PROVE Does(c)
  <2>1. pc'[c] = "idle" /\ call'[c] = NoCall /\ CallsKept(c)
    BY <1>1, <1>5, EnterIs
  <2>2. Scan(c)'
    BY <1>1, <1>2, <1>3, <2>1, Ends
  <2>3. checked'[c] = Producer
    <3>1. \A p \in Producer : p > linked
      BY <1>4, <1>5
    <3>2. Producer \subseteq checked[c]
      BY <1>3, <3>1
    <3> QED BY <1>2, <1>3, <3>2
  <2>4. Result(c)
    <3>1. PICK m \in Nat : m = call[c].max
      BY <1>3 DEF Locals
    <3>2. Got(c) = 0
      BY <1>2, <1>3 DEF Got
    <3> QED BY <2>3, <3>1, <3>2 DEF Result
  <2> QED BY <1>1, <1>2, <2>1, <2>2, <2>4 DEF Does
<1>6. ASSUME ~(token[c].desired = 0 /\ linked = 0), Enter(c, "count", [call[c] EXCEPT !.tail = linked])
      PROVE  Does(c)
  <2>1. linked \in 1..linked
    BY <1>1, <1>3, <1>4, <1>6 DEF TokensOK
  <2>2. PICK s : s = [call[c] EXCEPT !.tail = linked]
    OBVIOUS
  <2>3. s \in Locals /\ s.tail = linked /\ s.got = 0 /\ s.got < s.max
    BY <1>3, <1>4, <2>2 DEF Locals
  <2>4. pc'[c] = "count" /\ call'[c] = s /\ CallsKept(c)
    BY <1>1, <1>6, <2>2, EnterIs
  <2>5. Scan(c)'
    BY <1>1, <1>2, <1>3, <2>1, <2>3, <2>4 DEF Scan
  <2> QED BY <1>1, <1>2, <2>4, <2>5 DEF Does, Result
<1> QED BY <1>5, <1>6 DEF UpdateTail, Return

LEMMA UpdateCountDoes == ASSUME FrontInv, NEW c \in Consumer, UpdateCount(c) PROVE Does(c)
<1>1. /\ Common /\ TokensOK /\ Scan(c) /\ pc[c] = "count"
      /\ UNCHANGED <<list, len, token, left, checked>> /\ linked' = linked
      /\ Enter(c, "offset", [call[c] EXCEPT !.ptr = counted])
  BY DEF UpdateCount, FrontInv, Looks, list
<1>2. /\ LeftKept(c) /\ TokensOK' /\ TokensKept(c) /\ Lengths'
      /\ CheckedKept(c) /\ checked'[c] = checked[c] /\ checked[c] \subseteq Producer
  BY <1>1, LeftSame, SameTokens, SameLengths, CheckedSame
<1>3. /\ call[c] \in Locals /\ left[c] \in Nat /\ call[c].got = 0 /\ call[c].got < call[c].max
      /\ c \in Holder /\ call[c].tail \in 1..linked
      /\ \A p \in Producer : p > linked => p \in checked[c]
  BY <1>1 DEF Scan
<1>4. PICK s : s = [call[c] EXCEPT !.ptr = counted]
  OBVIOUS
<1>5. counted \in Nat /\ linked \in Nat /\ linked <= counted
  BY <1>1, ListFacts
<1>6. /\ s \in Locals /\ s.ptr = counted /\ s.got = 0 /\ s.got < s.max
      /\ s.tail = call[c].tail
  BY <1>3, <1>4, <1>5 DEF Locals
<1>7. pc'[c] = "offset" /\ call'[c] = s /\ CallsKept(c)
  BY <1>1, <1>4, EnterIs
<1>8. Scan(c)'
  BY <1>1, <1>2, <1>3, <1>5, <1>6, <1>7 DEF Scan
<1> QED BY <1>1, <1>2, <1>7, <1>8 DEF Does, Result

LEMMA AroundIs ==
  ASSUME NEW p \in Nat, NEW k \in Int, NEW tail \in Nat, tail > 0
  PROVE  Around(p, k, tail) \in 1..tail
<1>1. PICK x \in Int : x = p - 1 - k
  OBVIOUS
<1>2. x % tail \in 0..(tail - 1)
  OBVIOUS
<1>3. Around(p, k, tail) = (x % tail) + 1
  BY <1>1 DEF Around
<1> QED BY <1>2, <1>3

LEMMA DesignatedIs ==
  ASSUME NEW t \in Tokens, NEW n \in Nat, n > 0, NEW tail \in Nat, tail > 0
  PROVE  Designated(t, n, tail) \in 1..tail
<1>1. /\ t.id \in Int /\ t.desired \in Nat /\ t.behind \in Int
  BY DEF Tokens
<1>2. PICK i, b : i = t.id % n /\ b = t.behind % n
  OBVIOUS
<1>3. i \in Int /\ b \in Int
  BY <1>1, <1>2
<1>4. n - 1 - i \in Int
  BY <1>3
<1>5. Around(tail, n - 1 - i, tail) \in 1..tail
  BY <1>4, AroundIs
<1>6. PICK q : q = IF t.desired = 0 THEN Around(tail, n - 1 - i, tail) ELSE t.desired
  OBVIOUS
<1>7. q \in Nat
  BY <1>1, <1>5, <1>6
<1>8. Designated(t, n, tail) = Around(q, b, tail)
  BY <1>2, <1>6 DEF Designated
<1> QED BY <1>3, <1>7, <1>8, AroundIs

LEMMA UpdateOffsetDoes == ASSUME FrontInv, NEW c \in Consumer, UpdateOffset(c) PROVE Does(c)
<1>1. /\ Common /\ TokensOK /\ Scan(c) /\ pc[c] = "offset"
      /\ UNCHANGED <<list, len, left, checked>> /\ linked' = linked
      /\ Enter(c, "current", [NoCall EXCEPT !.max = call[c].max])
  BY DEF UpdateOffset, FrontInv, Looks, list
<1>2. /\ LeftKept(c) /\ Lengths'
      /\ CheckedKept(c) /\ checked'[c] = checked[c] /\ checked[c] \subseteq Producer
  BY <1>1, LeftSame, SameLengths, CheckedSame
<1>3. /\ call[c] \in Locals /\ left[c] \in Nat /\ call[c].got = 0 /\ call[c].got < call[c].max
      /\ c \in Holder /\ call[c].tail \in 1..linked /\ call[c].ptr > 0
      /\ \A p \in Producer : p > linked => p \in checked[c]
  BY <1>1 DEF Scan
<1>4. linked \in Nat /\ call[c].ptr \in Nat /\ call[c].tail \in Nat /\ call[c].tail > 0 /\ call[c].max \in Nat
  BY <1>1, <1>3, ListFacts DEF Locals
<1>5. token \in [Holder -> Tokens] /\ token[c] \in Tokens
  BY <1>1, <1>3 DEF TokensOK
<1>6. PICK d : d = Designated(token[c], call[c].ptr, call[c].tail)
  OBVIOUS
<1>7. d \in 1..linked /\ d \in Nat
  <2>1. Designated(token[c], call[c].ptr, call[c].tail) \in 1..(call[c].tail)
    BY <1>3, <1>4, <1>5, DesignatedIs
  <2>2. d \in 1..(call[c].tail)
    BY <1>6, <2>1
  <2> QED BY <1>3, <1>4, <2>2
<1>8. token' = [token EXCEPT ![c] = [token[c] EXCEPT !.desired = d, !.current = d, !.consumed = 0, !.behind = 0]]
  BY <1>6 DEF UpdateOffset
<1>9. PICK t : t = [token[c] EXCEPT !.desired = d, !.current = d, !.consumed = 0, !.behind = 0]
  OBVIOUS
<1>10. t \in Tokens /\ t.current = d
  BY <1>5, <1>7, <1>9 DEF Tokens
<1>11. /\ token' = [token EXCEPT ![c] = t] /\ token' \in [Holder -> Tokens] /\ token'[c] = t
       /\ \A h \in Holder : h # c => token'[h] = token[h]
  BY <1>3, <1>5, <1>8, <1>9, <1>10
<1>12. TokensOK' /\ TokensKept(c)
  BY <1>1, <1>7, <1>10, <1>11 DEF TokensOK, TokensKept
<1>13. PICK s : s = [NoCall EXCEPT !.max = call[c].max]
  OBVIOUS
<1>14. s \in Locals /\ s.got = 0 /\ s.got < s.max
  BY <1>3, <1>4, <1>13 DEF Locals, NoCall
<1>15. pc'[c] = "current" /\ call'[c] = s /\ CallsKept(c)
  BY <1>1, <1>13, EnterIs
<1>16. Scan(c)'
  BY <1>1, <1>2, <1>3, <1>7, <1>10, <1>11, <1>14, <1>15 DEF Scan
<1> QED BY <1>1, <1>2, <1>12, <1>15, <1>16 DEF Does, Result

LEMMA RotateDoes == ASSUME FrontInv, NEW c \in Consumer, Rotate(c) PROVE Does(c)
<1>1. /\ Common /\ TokensOK /\ Scan(c) /\ pc[c] = "rotate"
      /\ UNCHANGED <<list, len, left, checked>> /\ linked' = linked /\ Enter(c, "idle", NoCall)
      /\ token' = [d \in Holder |-> [token[d] EXCEPT !.behind = Later(@)]]
  BY DEF Rotate, FrontInv, Looks, list, Return
<1>2. /\ LeftKept(c) /\ Lengths' /\ Taken = 0 /\ left'[c] \in Nat
      /\ CheckedKept(c) /\ checked'[c] = checked[c] /\ checked[c] \subseteq Producer
  BY <1>1, LeftSame, SameLengths, CheckedSame DEF Scan
<1>3. \A d \in Holder : /\ token'[d] \in Tokens
                        /\ token'[d].current = token[d].current /\ token'[d].desired = token[d].desired
  <2>1. ASSUME NEW d \in Holder
        PROVE  /\ token'[d] \in Tokens
               /\ token'[d].current = token[d].current /\ token'[d].desired = token[d].desired
    <3>1. token[d] \in Tokens /\ token[d].behind \in Nat
      BY <1>1 DEF TokensOK, Tokens
    <3>2. PICK b : b = Later(token[d].behind)
      OBVIOUS
    <3>3. b \in Nat
      BY <3>1, <3>2 DEF Later
    <3>4. token'[d] = [token[d] EXCEPT !.behind = b]
      BY <1>1, <3>1, <3>2 DEF Tokens
    <3> QED BY <3>1, <3>3, <3>4 DEF Tokens
  <2> QED BY <2>1
<1>4. TokensOK' /\ TokensKept(c)
  <2>1. token' \in [Holder -> Tokens]
    BY <1>1, <1>3
  <2> QED BY <1>1, <1>3, <2>1 DEF TokensOK, TokensKept
<1>5. pc'[c] = "idle" /\ call'[c] = NoCall /\ CallsKept(c)
  BY <1>1, EnterIs
<1>6. Scan(c)'
  BY <1>2, <1>5, Ends
<1>7. Result(c)
  <2>1. call[c].got \in Nat /\ call[c].got = call[c].max
    BY <1>1 DEF Scan, Locals
  <2>2. Got(c) = call[c].max
    BY <1>2, <2>1 DEF Got
  <2> QED BY <2>1, <2>2 DEF Result
<1> QED BY <1>1, <1>2, <1>4, <1>5, <1>6, <1>7 DEF Does

LEMMA RingTailDoes == ASSUME FrontInv, NEW c \in Consumer, RingTail(c) PROVE Does(c)
<1>1. /\ Common /\ TokensOK /\ Scan(c) /\ pc[c] = "ring"
      /\ UNCHANGED <<list, len, token, left, checked>> /\ linked' = linked
  BY DEF RingTail, FrontInv, Looks, list
<1>2. /\ LeftKept(c) /\ TokensOK' /\ TokensKept(c) /\ Lengths' /\ Taken = 0
      /\ CheckedKept(c) /\ checked'[c] = checked[c] /\ checked[c] \subseteq Producer
  BY <1>1, LeftSame, SameTokens, SameLengths, CheckedSame
<1>3. /\ call[c] \in Locals /\ left[c] \in Nat /\ call[c].got < call[c].max
      /\ c \in Holder /\ token[c].current \in 1..linked /\ token[c].current \in checked[c]
      /\ \A p \in Producer : p > linked => p \in checked[c]
  BY <1>1 DEF Scan
<1>4. linked \in Nat /\ Producer = 1..MaxProducers /\ MaxProducers \in Nat /\ call[c].got \in Nat /\ call[c].max \in Nat
  BY <1>1, <1>3, ListFacts DEF Locals
<1>5. PICK a, p : a = token[c].current /\ p = NextInRing(a, linked)
  OBVIOUS
<1>6. a \in 1..linked /\ a \in checked[c] /\ (p = IF a = 1 THEN linked ELSE a - 1)
  BY <1>3, <1>5 DEF NextInRing
<1>7. p \in 1..linked /\ p \in Nat /\ a \in Nat
  BY <1>4, <1>6
<1>8. ASSUME p = a, Enter(c, "idle", NoCall) PROVE Does(c)
  <2>1. pc'[c] = "idle" /\ call'[c] = NoCall /\ CallsKept(c)
    BY <1>1, <1>8, EnterIs
  <2>2. Scan(c)'
    BY <1>1, <1>2, <1>3, <2>1, Ends
  <2>3. a = 1 /\ linked = 1
    BY <1>4, <1>6, <1>7, <1>8
  <2>4. checked'[c] = Producer
    <3>1. \A q \in Producer : q \in checked[c]
      BY <1>3, <1>4, <1>6, <2>3
    <3> QED BY <1>2, <3>1
  <2>5. Got(c) = call[c].got
    BY <1>2, <1>4 DEF Got
  <2>6. Result(c)
    BY <1>3, <1>4, <2>4, <2>5 DEF Result
  <2> QED BY <1>1, <1>2, <2>1, <2>2, <2>6 DEF Does
<1>9. ASSUME p # a, Enter(c, "around", [call[c] EXCEPT !.tail = linked, !.ptr = p]) PROVE Does(c)
  <2>1. PICK s : s = [call[c] EXCEPT !.tail = linked, !.ptr = p]
    OBVIOUS
  <2>2. s \in Locals /\ s.tail = linked /\ s.ptr = p /\ s.got = call[c].got /\ s.max = call[c].max
    BY <1>3, <1>4, <1>7, <2>1 DEF Locals
  <2>3. pc'[c] = "around" /\ call'[c] = s /\ CallsKept(c)
    BY <1>1, <1>9, <2>1, EnterIs
  <2>4. checked'[c] \subseteq Producer /\ \A q \in Producer : q \in checked[c] => q \in checked'[c]
    BY <1>2
  <2>5. a \in checked'[c]
    <3>1. a \in Producer
      BY <1>1, <1>6, ListFacts
    <3> QED BY <1>6, <2>4, <3>1
  <2>6. Passed(a, p, linked) \subseteq checked'[c]
    <3>1. ASSUME NEW x \in Passed(a, p, linked) PROVE x = a
      <4>1. CASE p < a
        <5>1. p = a - 1
          BY <1>4, <1>6, <1>7, <4>1
        <5>2. x \in (p + 1)..a
          BY <3>1, <4>1 DEF Passed
        <5> QED BY <1>7, <5>1, <5>2
      <4>2. CASE ~(p < a)
        <5>1. a = 1 /\ p = linked
          BY <1>4, <1>6, <1>7, <4>2
        <5>2. x \in (1..a) \cup ((p + 1)..linked)
          BY <3>1, <4>2 DEF Passed
        <5> QED BY <1>4, <5>1, <5>2
      <4> QED BY <4>1, <4>2
    <3> QED BY <2>5, <3>1
  <2>7. token'[c].current = a /\ linked \in 1..linked
    BY <1>1, <1>4, <1>5, <1>6
  <2>8. Scan(c)'
    <3>1. \A q \in Producer : q > linked' => q \in checked'[c]
      BY <1>1, <1>3, <2>4
    <3>2. /\ call'[c].tail \in 1..linked' /\ token'[c].current <= call'[c].tail
          /\ call'[c].ptr \in 1..call'[c].tail /\ call'[c].ptr # token'[c].current
          /\ Passed(token'[c].current, call'[c].ptr, call'[c].tail) \subseteq checked'[c]
          /\ \A q \in Producer : q > call'[c].tail => q \in checked'[c]
      BY <1>1, <1>3, <1>6, <1>7, <1>9, <2>2, <2>3, <2>4, <2>6, <2>7
    <3>3. token'[c].current \in 1..linked'
      BY <1>1, <1>6, <2>7
    <3> QED BY <1>1, <1>3, <2>2, <2>3, <2>4, <3>1, <3>2, <3>3 DEF Scan
  <2> QED BY <1>1, <1>2, <2>3, <2>8 DEF Does, Result
<1> QED BY <1>5, <1>8, <1>9 DEF RingTail, Return

LEMMA ConsumeIs ==
  ASSUME NEW t \in Tokens, NEW n \in Nat
  PROVE  /\ Consume(t, n) \in Tokens /\ Consume(t, n).current = t.current
         /\ Consume(t, n).desired = t.desired
<1>1. t.consumed + n \in Nat /\ QUOTA + 1 \in Nat
  BY FrontAssumption DEF Tokens
<1>2. PICK m : m = Min({t.consumed + n, QUOTA + 1})
  OBVIOUS
<1>3. m \in Nat
  BY <1>1, <1>2, MinIs
<1>4. Consume(t, n) = [t EXCEPT !.consumed = m]
  BY <1>2 DEF Consume, Tokens
<1> QED BY <1>3, <1>4 DEF Tokens

LEMMA TokenSet ==
  ASSUME TokensOK, NEW c \in Holder, NEW t \in Tokens, t.current \in 1..linked,
         token' = [token EXCEPT ![c] = t], linked' = linked
  PROVE  TokensOK' /\ TokensKept(c) /\ token'[c] = t
<1>1. /\ token' \in [Holder -> Tokens] /\ token'[c] = t
      /\ \A h \in Holder : h # c => token'[h] = token[h]
  BY DEF TokensOK
<1> QED BY <1>1 DEF TokensOK, TokensKept

LEMMA CurrentDoes == ASSUME FrontInv, NEW c \in Consumer, Current(c) PROVE Does(c)
<1>1. Common /\ TokensOK /\ Scan(c) /\ pc[c] = "current"
  BY DEF Current, FrontInv
<1>2. PICK p, m, n, r, t :
        /\ p = token[c].current /\ m = call[c].max /\ r = [call[c] EXCEPT !.got = n]
        /\ t = Consume(token[c], n) /\ Ask(c, p, n, r.max) /\ token' = [token EXCEPT ![c] = t]
        /\ \/ n < r.max /\ Enter(c, "ring", r)
           \/ ~(n < r.max) /\ (Enter(c, "rotate", r) \/ Enter(c, "idle", NoCall))
  BY DEF Current, Return
<1>3. /\ call[c] \in Locals /\ c \in Holder /\ p \in 1..linked /\ call[c].got = 0 /\ m \in Nat
      /\ r.max = m
      /\ \A q \in Producer : q > linked => q \in checked[c]
  BY <1>1, <1>2 DEF Scan, Locals
<1>4. /\ n \in Nat /\ n <= m /\ Lengths' /\ Taken = n /\ linked' = linked /\ UNCHANGED list
      /\ LeftKept(c) /\ left'[c] \in Nat
      /\ CheckedKept(c) /\ checked[c] \subseteq checked'[c] /\ checked'[c] \subseteq Producer
      /\ n < m => p \in checked'[c]
  BY <1>2, <1>3, AskDoes
<1>5. p \in Nat /\ linked \in Nat
  BY <1>1, <1>3, ListFacts
<1>6. t \in Tokens /\ t.current = p
  <2>1. token[c] \in Tokens
    BY <1>1, <1>3 DEF TokensOK
  <2> QED BY <1>2, <1>4, <2>1, ConsumeIs
<1>7. TokensOK' /\ TokensKept(c) /\ token'[c] = t
  BY <1>1, <1>2, <1>3, <1>4, <1>6, TokenSet
<1>8. r \in Locals /\ r.got = n
  BY <1>2, <1>3, <1>4 DEF Locals
<1>9. ASSUME n < m, Enter(c, "ring", r) PROVE Does(c)
  <2>1. pc'[c] = "ring" /\ call'[c] = r /\ CallsKept(c)
    BY <1>1, <1>9, EnterIs
  <2>2. p \in checked'[c] /\ token'[c].current = p /\ p \in 1..linked'
    BY <1>3, <1>4, <1>6, <1>7, <1>9
  <2>3. Scan(c)'
    BY <1>3, <1>4, <1>8, <1>9, <2>1, <2>2 DEF Scan
  <2> QED BY <1>4, <1>7, <2>1, <2>3 DEF Does, Result
<1>10. ASSUME ~(n < m), Enter(c, "rotate", r) PROVE Does(c)
  <2>1. pc'[c] = "rotate" /\ call'[c] = r /\ CallsKept(c)
    BY <1>1, <1>10, EnterIs
  <2>2. r.got = r.max
    BY <1>3, <1>4, <1>8, <1>10
  <2>3. Scan(c)'
    BY <1>3, <1>4, <1>8, <2>1, <2>2 DEF Scan
  <2> QED BY <1>4, <1>7, <2>1, <2>3 DEF Does, Result
<1>11. ASSUME ~(n < m), Enter(c, "idle", NoCall) PROVE Does(c)
  <2>1. pc'[c] = "idle" /\ call'[c] = NoCall /\ CallsKept(c)
    BY <1>1, <1>11, EnterIs
  <2>2. Scan(c)'
    BY <1>4, <2>1, Ends
  <2>3. Got(c) = m
    BY <1>3, <1>4, <1>11 DEF Got
  <2>4. Result(c)
    BY <1>2, <1>3, <2>3 DEF Result
  <2> QED BY <1>4, <1>7, <2>1, <2>2, <2>4 DEF Does
<1> QED BY <1>2, <1>3, <1>9, <1>10, <1>11

LEMMA AroundRingDoes == ASSUME FrontInv, NEW c \in Consumer, AroundRing(c) PROVE Does(c)
<1>1. Common /\ TokensOK /\ Scan(c) /\ pc[c] = "around"
  BY DEF AroundRing, FrontInv
<1>2. PICK p, w, a, tail :
        p = call[c].ptr /\ w = Wanted(c) /\ a = token[c].current /\ tail = call[c].tail
  OBVIOUS
<1>3. PICK n \in 0..w :
        LET t == IF n = 0 THEN token[c] ELSE Consume([token[c] EXCEPT !.current = p, !.consumed = 0], n)
            q == NextInRing(p, tail)
        IN  /\ Ask(c, p, n, w)
            /\ token' = [token EXCEPT ![c] = t]
            /\ IF n = w \/ q = t.current THEN Enter(c, "idle", NoCall)
               ELSE Enter(c, "around", [call[c] EXCEPT !.got = @ + n, !.ptr = q])
  BY <1>2 DEF AroundRing, Return
<1>4. PICK t, q :
        /\ t = IF n = 0 THEN token[c] ELSE Consume([token[c] EXCEPT !.current = p, !.consumed = 0], n)
        /\ q = NextInRing(p, tail)
  OBVIOUS
<1>5. /\ Ask(c, p, n, w) /\ token' = [token EXCEPT ![c] = t]
      /\ \/ (n = w \/ q = t.current) /\ Enter(c, "idle", NoCall)
         \/ n # w /\ q # t.current /\ Enter(c, "around", [call[c] EXCEPT !.got = @ + n, !.ptr = q])
  BY <1>3, <1>4
<1>6. /\ call[c] \in Locals /\ call[c].got < call[c].max /\ c \in Holder
      /\ tail \in 1..linked /\ a \in 1..linked /\ a <= tail /\ p \in 1..tail /\ p # a
      /\ Passed(a, p, tail) \subseteq checked[c]
      /\ \A x \in Producer : x > tail => x \in checked[c]
      /\ \A x \in Producer : x > linked => x \in checked[c]
      /\ checked[c] \subseteq Producer
  BY <1>1, <1>2, <1>4, <1>5 DEF Scan
<1>7. /\ linked \in Nat /\ tail \in Nat /\ a \in Nat /\ p \in Nat /\ p \in 1..linked
      /\ Producer = 1..MaxProducers /\ MaxProducers \in Nat
  BY <1>1, <1>6, ListFacts
<1>8. PICK g, m \in Nat : g = call[c].got /\ m = call[c].max
  BY <1>6 DEF Locals
<1>9. w = m - g /\ w \in Nat /\ w > 0
  BY <1>2, <1>4, <1>5, <1>6, <1>8 DEF Wanted
<1>10. /\ n \in Nat /\ n <= w /\ Lengths' /\ Taken = n /\ linked' = linked /\ UNCHANGED list
       /\ LeftKept(c) /\ left'[c] \in Nat
       /\ CheckedKept(c) /\ checked[c] \subseteq checked'[c] /\ checked'[c] \subseteq Producer
       /\ n < w => p \in checked'[c]
  BY <1>2, <1>4, <1>5, <1>7, <1>9, AskDoes
<1>11. n # w => p \in checked'[c]
  BY <1>9, <1>10
<1>12. q = (IF p = 1 THEN tail ELSE p - 1) /\ q \in 1..tail /\ q \in Nat
  <2>1. q = (IF p = 1 THEN tail ELSE p - 1)
    BY <1>2, <1>4, <1>5 DEF NextInRing
  <2> QED BY <1>6, <1>7, <2>1
<1>13. t \in Tokens /\ t.current = (IF n = 0 THEN a ELSE p) /\ t.current \in 1..tail
  <2>1. token[c] \in Tokens
    BY <1>1, <1>6 DEF TokensOK
  <2>2. CASE n = 0
    BY <1>2, <1>4, <1>5, <1>6, <2>1, <2>2
  <2>3. CASE n # 0
    <3>1. PICK u : u = [token[c] EXCEPT !.current = p, !.consumed = 0]
      OBVIOUS
    <3>2. u \in Tokens /\ u.current = p
      BY <1>7, <2>1, <3>1 DEF Tokens
    <3>3. t = Consume(u, n)
      BY <1>2, <1>4, <1>5, <2>3, <3>1
    <3> QED BY <1>6, <1>10, <2>3, <3>2, <3>3, ConsumeIs
  <2> QED BY <2>2, <2>3
<1>14. TokensOK' /\ TokensKept(c) /\ token'[c] = t
  <2>1. t.current \in 1..linked
    BY <1>6, <1>7, <1>13
  <2> QED BY <1>1, <1>2, <1>4, <1>5, <1>6, <1>10, <1>13, <2>1, TokenSet
(* The walk has one more producer behind it.                               *)
<1>15. Passed(a, q, tail) \subseteq Passed(a, p, tail) \cup {p}
  <2>1. CASE p = 1
    <3>1. p < a /\ q = tail /\ ~(q < a)
      BY <1>6, <1>7, <1>12, <2>1
    <3>2. Passed(a, p, tail) = (p + 1)..a /\ Passed(a, q, tail) = (1..a) \cup ((tail + 1)..tail)
      BY <3>1 DEF Passed
    <3> QED BY <1>7, <2>1, <3>2
  <2>2. CASE p # 1 /\ p < a
    <3>1. q = p - 1 /\ q < a
      BY <1>6, <1>7, <1>12, <2>2
    <3>2. Passed(a, p, tail) = (p + 1)..a /\ Passed(a, q, tail) = (q + 1)..a
      BY <2>2, <3>1 DEF Passed
    <3> QED BY <1>7, <3>1, <3>2
  <2>3. CASE p # 1 /\ ~(p < a)
    <3>1. q = p - 1 /\ ~(q < a)
      BY <1>6, <1>7, <1>12, <2>3
    <3>2. Passed(a, p, tail) = (1..a) \cup ((p + 1)..tail) /\ Passed(a, q, tail) = (1..a) \cup ((q + 1)..tail)
      BY <2>3, <3>1 DEF Passed
    <3> QED BY <1>7, <3>1, <3>2
  <2> QED BY <2>1, <2>2, <2>3
<1>16. ASSUME n = w \/ q = t.current, Enter(c, "idle", NoCall) PROVE Does(c)
  <2>1. pc'[c] = "idle" /\ call'[c] = NoCall /\ CallsKept(c)
    BY <1>1, <1>16, EnterIs
  <2>2. Scan(c)'
    BY <1>10, <2>1, Ends
  <2>3. Got(c) = g + n
    BY <1>8, <1>10 DEF Got
  <2>4. Got(c) <= m /\ (Got(c) < m => n # w)
    BY <1>9, <1>10, <2>3
  <2>5. ASSUME n # w, NEW x \in Producer PROVE x \in checked'[c]
    <3>1. n = 0 /\ q = a
      <4>1. q # p
        BY <1>6, <1>7, <1>12
      <4> QED BY <1>13, <1>16, <2>5, <4>1
    <3>2. Passed(a, q, tail) = (1..a) \cup ((a + 1)..tail)
      BY <1>7, <3>1 DEF Passed
    <3>3. x > tail \/ x \in Passed(a, q, tail)
      BY <1>7, <3>2
    <3> QED BY <1>6, <1>10, <1>11, <1>15, <2>5, <3>3
  <2>6. Result(c)
    BY <1>8, <1>10, <2>4, <2>5 DEF Result
  <2> QED BY <1>10, <1>14, <2>1, <2>2, <2>6 DEF Does
<1>17. ASSUME n # w, q # t.current, Enter(c, "around", [call[c] EXCEPT !.got = @ + n, !.ptr = q])
       PROVE  Does(c)
  <2>1. PICK s : s = [call[c] EXCEPT !.got = @ + n, !.ptr = q]
    OBVIOUS
  <2>2. g + n \in Nat /\ g + n < m
    BY <1>9, <1>10, <1>17
  <2>3. s \in Locals /\ s.ptr = q /\ s.got = g + n /\ s.max = m /\ s.tail = tail
    BY <1>2, <1>4, <1>5, <1>6, <1>8, <1>12, <2>1, <2>2 DEF Locals
  <2>4. pc'[c] = "around" /\ call'[c] = s /\ CallsKept(c)
    BY <1>1, <1>17, <2>1, EnterIs
  <2>5. checked[c] \subseteq checked'[c] /\ p \in checked'[c]
    BY <1>10, <1>11, <1>17
  <2>6. Passed(t.current, q, tail) \subseteq checked'[c]
    <3>1. CASE n = 0
      BY <1>6, <1>13, <1>15, <2>5, <3>1
    <3>2. CASE n # 0
      <4>1. t.current = p
        BY <1>13, <3>2
      <4>2. Passed(p, q, tail) \subseteq {p}
        <5>1. CASE p = 1
          <6>1. q = tail /\ ~(q < p)
            BY <1>7, <1>12, <1>6, <5>1
          <6>2. Passed(p, q, tail) = (1..p) \cup ((tail + 1)..tail)
            BY <6>1 DEF Passed
          <6> QED BY <1>7, <5>1, <6>2
        <5>2. CASE p # 1
          <6>1. q = p - 1 /\ q < p
            BY <1>7, <1>12, <5>2
          <6>2. Passed(p, q, tail) = (q + 1)..p
            BY <6>1 DEF Passed
          <6> QED BY <1>7, <6>1, <6>2
        <5> QED BY <5>1, <5>2
      <4> QED BY <2>5, <4>1, <4>2
    <3> QED BY <3>1, <3>2
  <2>7. /\ token'[c].current = t.current /\ t.current \in 1..linked /\ t.current <= tail
        /\ linked' = linked
    BY <1>6, <1>7, <1>10, <1>13, <1>14
  <2>8. Scan(c)'
    <3>1. \A x \in Producer : (x > tail \/ x > linked) => x \in checked'[c]
      BY <1>6, <2>5
    <3>2. /\ call'[c].tail \in 1..linked' /\ token'[c].current <= call'[c].tail
          /\ call'[c].ptr \in 1..call'[c].tail /\ call'[c].ptr # token'[c].current
          /\ Passed(token'[c].current, call'[c].ptr, call'[c].tail) \subseteq checked'[c]
          /\ \A x \in Producer : x > call'[c].tail => x \in checked'[c]
      BY <1>6, <1>12, <1>17, <2>3, <2>4, <2>6, <2>7, <3>1
    <3> QED BY <1>6, <1>10, <2>2, <2>3, <2>4, <2>7, <3>1, <3>2 DEF Scan
  <2> QED BY <1>10, <1>14, <2>4, <2>8 DEF Does, Result
<1> QED BY <1>2, <1>4, <1>5, <1>16, <1>17
-----------------------------------------------------------------------------
LEMMA ConsumerDoes == ASSUME FrontInv, NEW c \in Consumer, ConsumerStep(c) PROVE Does(c)
BY CallDoes, EmptyDoes, SizeTailDoes, SizeHeadDoes, BestDoes, AgainDoes, SkipBestDoes,
   EachDoes, UpdateTailDoes, UpdateCountDoes, UpdateOffsetDoes, CurrentDoes, RotateDoes, RingTailDoes, AroundRingDoes DEF ConsumerStep

(* A step of a call keeps what everyone knows.                             *)
LEMMA DoesKeeps ==
  ASSUME FrontInv, NEW c \in Consumer, Does(c), Sound'
  PROVE  FrontInv'
<1>1. Common /\ linked \in Nat
  BY ListFacts DEF FrontInv
<1>2. /\ CallsKept(c) /\ LeftKept(c) /\ CheckedKept(c) /\ TokensKept(c) /\ Lengths' /\ TokensOK' /\ Scan(c)'
      /\ linked' = linked /\ counted' = counted
  BY DEF Does, list
<1>3. Common'
  BY <1>1, <1>2 DEF Common, LeftKept, CheckedKept
<1>4. ASSUME NEW d \in Consumer PROVE Scan(d)'
  <2>1. CASE d = c
    BY <1>2, <2>1
  <2>2. CASE d # c
    <3>1. Stands(d)
      BY <1>2, <2>2 DEF Stands, CallsKept, LeftKept, CheckedKept, TokensKept
    <3> QED BY <1>1, <1>2, <3>1, Bystander
  <2> QED BY <2>1, <2>2
<1> QED BY <1>2, <1>3, <1>4 DEF FrontInv

(* A producer's step, and a dequeue that asks for no call.                 *)
LEMMA OthersKeep ==
  ASSUME FrontInv, UNCHANGED <<pc, call, token, checked>>, Sound', Lengths', DOMAIN left' = Consumer,
         linked' \in Nat, linked <= linked', counted' <= MaxProducers,
         \A d \in Consumer : left'[d] \in Nat
  PROVE  FrontInv'
<1>1. Common /\ TokensOK /\ linked \in Nat
  BY ListFacts DEF FrontInv
<1>2. Common'
  BY <1>1 DEF Common
<1>3. TokensOK'
  <2>1. \A p \in 1..linked : p \in 1..linked'
    BY <1>1
  <2> QED BY <1>1, <2>1 DEF TokensOK
<1>4. ASSUME NEW d \in Consumer PROVE Scan(d)'
  <2>1. Stands(d)
    BY DEF Stands
  <2> QED BY <2>1, Bystander
<1> QED BY <1>2, <1>3, <1>4 DEF FrontInv

LEMMA FrontStep == ASSUME FrontInv, [Next]_vars PROVE FrontInv'
<1>1. /\ Common /\ TokensOK /\ linked \in Nat /\ counted \in Nat /\ linked <= counted
      /\ counted <= MaxProducers /\ MaxProducers \in Nat /\ Lengths
      /\ \A d \in Consumer : left[d] \in Nat
  BY ListFacts DEF FrontInv, Common, Scan
<1>2. Sound'
  BY <1>1, SoundStep DEF Common
<1>3. ASSUME Count \/ Link PROVE FrontInv'
  <2>1. /\ UNCHANGED <<len, pc, call, token, left, checked>> /\ linked' \in Nat /\ linked <= linked'
        /\ counted' <= MaxProducers
    BY <1>1, <1>3 DEF Count, Link
  <2>2. Lengths' /\ DOMAIN left' = Consumer
    BY <1>1, <2>1 DEF Lengths, Common
  <2> QED BY <1>1, <1>2, <1>3, <2>1, <2>2, OthersKeep
<1>4. ASSUME NEW p \in Producer, Enqueue(p) PROVE FrontInv'
  <2>1. UNCHANGED <<pc, call, token, left, checked, linked, counted>> /\ len' = [len EXCEPT ![p] = @ + 1]
    BY <1>4 DEF Enqueue, list
  <2>2. Lengths' /\ DOMAIN left' = Consumer
    BY <1>1, <2>1 DEF Lengths, Common
  <2> QED BY <1>1, <1>2, <1>4, <2>1, <2>2, OthersKeep
<1>5. ASSUME NEW c \in Consumer, FromProducer(c) PROVE FrontInv'
  <2>1. PICK p \in 1..linked : \E n \in Yields(p, MaxBulk) : n > 0 /\ Dequeue(p, n)
    BY <1>5 DEF FromProducer
  <2>2. PICK n \in Yields(p, MaxBulk) : n > 0 /\ Dequeue(p, n)
    BY <2>1
  <2>3. UNCHANGED <<pc, call, token, checked>>
    BY <1>5 DEF FromProducer
  <2>4. p \in Producer /\ len[p] \in Nat /\ MaxBulk \in Nat
    BY <1>1, ListFacts, FrontAssumption
  <2>5. n \in Nat /\ n <= len[p]
    BY <2>4, YieldsIs
  <2>6. DOMAIN left' = Consumer /\ \A d \in Consumer : left'[d] \in Nat
    BY <2>2, <2>4, <2>5, LeftDequeue
  <2>7. Lengths' /\ linked' = linked /\ counted' = counted
    BY <1>1, <2>2, <2>4, <2>5, TakenSome DEF Dequeue, list
  <2> QED BY <1>1, <1>2, <2>3, <2>6, <2>7, OthersKeep
<1>6. ASSUME NEW c \in Consumer, ConsumerStep(c) PROVE FrontInv'
  BY <1>2, <1>6, ConsumerDoes, DoesKeeps
<1>7. ASSUME UNCHANGED vars PROVE FrontInv'
  <2>1. UNCHANGED <<linked, counted, len, pc, call, left, token, checked>>
    BY <1>7 DEF vars, list
  <2>2. Common' /\ TokensOK'
    BY <1>1, <1>2, <2>1 DEF Common, TokensOK, Lengths
  <2>3. ASSUME NEW c \in Consumer PROVE Scan(c)'
    <3>1. Scan(c)
      BY DEF FrontInv
    <3>2. Scan(c)' = Scan(c)
      BY <2>1 DEF Scan, Above, Passed
    <3> QED BY <3>1, <3>2
  <2> QED BY <2>2, <2>3 DEF FrontInv
<1> QED BY <1>3, <1>4, <1>5, <1>6, <1>7 DEF Next

LEMMA FrontInit == Init => FrontInv
<1> SUFFICES ASSUME Init PROVE FrontInv
  OBVIOUS
<1>1. Sound
  BY SoundInit
<1>2. Common
  BY <1>1, FrontAssumption DEF Init, Common, Lengths
<1>3. TokensOK
  <2>1. PICK id \in Injection(Holder, 0..MaxId) :
          token = [c \in Holder |-> [id |-> id[c], desired |-> 0, current |-> 0,
                                       consumed |-> 0, behind |-> 1]]
    BY DEF Init
  <2>2. id \in [Holder -> 0..MaxId]
    BY <2>1 DEF Injection
  <2>3. \A c \in Holder : id[c] \in Nat
    BY <2>2, FrontAssumption
  <2> QED BY <2>1, <2>3 DEF TokensOK, Tokens
<1>4. ASSUME NEW c \in Consumer PROVE Scan(c)
  <2>1. NoCall \in Locals
    BY DEF NoCall, Locals
  <2>2. pc[c] = "idle" /\ call[c] = NoCall /\ left[c] = 0 /\ checked[c] = {}
    BY DEF Init
  <2> QED BY <2>1, <2>2 DEF Scan
<1> QED BY <1>2, <1>3, <1>4 DEF FrontInv

(* concurrentqueue.h:1037, 1095, 1143: "Returns false if all producer      *)
(* streams appeared empty at the time they were checked (so, the queue is  *)
(* likely but not guaranteed to be empty)".  For any number of consumers,  *)
(* tokens, producers and elements, a call of try_dequeue in any of its     *)
(* forms that returns less than it was asked for has, since it started,    *)
(* checked each producer that was on the list then, and each appeared      *)
(* empty to it; and no call returns more.                                  *)
THEOREM ShortMeansEachChecked == Spec => ShortMeansAllChecked
<1> DEFINE Returns == \A c \in Consumer : pc[c] # "idle" /\ pc'[c] = "idle" =>
             /\ Got(c) <= call[c].max
             /\ Got(c) < call[c].max => checked'[c] = Producer
<1>1. ASSUME FrontInv, [Next]_vars PROVE [Returns]_vars
  <2>1. ASSUME UNCHANGED pc PROVE Returns
    BY <2>1
  <2>2. ASSUME NEW c \in Consumer, ConsumerStep(c) PROVE Returns
    <3>1. CallsKept(c) /\ Result(c)
      BY <1>1, <2>2, ConsumerDoes DEF Does
    <3> QED BY <3>1 DEF CallsKept, Result
  <2>3. CASE Count \/ Link \/ (\E p \in Producer : Enqueue(p)) \/ (\E c \in Consumer : FromProducer(c))
    <3>1. UNCHANGED pc
      BY <2>3 DEF Count, Link, Enqueue, FromProducer
    <3> QED BY <2>1, <3>1
  <2> QED BY <1>1, <2>2, <2>3 DEF Next
<1> QED BY <1>1, FrontInit, FrontStep, PTL DEF Spec, ShortMeansAllChecked

(* concurrentqueue.h:1321, 1333: update_current_producer_after_rotation    *)
(* divides by producerCount, read after the list was found not empty.  For *)
(* any number of consumers and producers that count is at least the length *)
(* of the list, and not zero: a token that has a producer has one of the   *)
(* list.                                                                   *)
THEOREM NoDivisionByZero == Spec => []CountCoversList
<1>1. FrontInv => CountCoversList
  <2> SUFFICES ASSUME FrontInv, NEW c \in Consumer, pc[c] = "offset"
               PROVE  call[c].ptr >= call[c].tail /\ call[c].tail > 0
    BY DEF CountCoversList
  <2>1. Placing(pc[c], call[c]) /\ Scan(c) /\ linked \in Nat
    BY DEF FrontInv, Common, Sound
  <2> QED BY <2>1 DEF Placing, Scan
<1> QED BY <1>1, FrontInit, FrontStep, PTL DEF Spec
=============================================================================
