---------------------------- MODULE PingerProofs ----------------------------
(***************************************************************************)
(* For any posting threads, scripts, batch size and foreign traffic: the   *)
(* state keeps its type, no task is lost, duplicated or overtaken before   *)
(* sendto, at most one batch leaves after the loop was told to stop, at    *)
(* most two leave while a datagram waits, the loop of Wait only ends when  *)
(* Stop was called, and accepted replies are for tasks that were sent.     *)
(* The invariants are proved in this order; each uses the type invariant.  *)
(***************************************************************************)
EXTENDS Pinger, SequenceTheorems, TLAPS

USE ProducerAssumption, BoundAssumption, PacketAssumption

(* A reply to a request is a datagram.                                     *)
LEMMA EchoType ==
  ASSUME NEW s \in [task : Task, to : Addr]
  PROVE  Echo(s) \in Datagram
BY DEF Echo, Datagram, ICMP_ECHOREPLY

(* The address a request goes to is an address.                            *)
LEMMA DestType == ASSUME NEW t PROVE Dest(t) \subseteq Addr
BY DEF Dest

-----------------------------------------------------------------------------
(* PostTask appends to one thread's queue and history, or to neither.      *)
LEMMA PostTaskType ==
  ASSUME TypeOK, NEW p \in Producer, PostTask(p)
  PROVE  TypeOK'
<1>1. todo[p] \in Seq(Task) /\ todo[p] # <<>>
  BY DEF TypeOK, PostTask
<1>2. Head(todo[p]) \in Task /\ Tail(todo[p]) \in Seq(Task)
  BY <1>1, HeadTailProperties
<1>3. todo' \in [Producer -> Seq(Task)]
  BY <1>2 DEF TypeOK, PostTask
<1>4. Append(queue[p], Head(todo[p])) \in Seq(Task)
      /\ Append(posted[p], Head(todo[p])) \in Seq(Task)
  BY <1>2 DEF TypeOK
<1>5. queue' \in [Producer -> Seq(Task)] /\ posted' \in [Producer -> Seq(Task)]
  BY <1>4 DEF TypeOK, PostTask
<1> QED
  BY <1>3, <1>5 DEF TypeOK, PostTask, loopVars, sendVars, recvVars, stopVars

(* The state keeps its type.                                               *)
THEOREM TypeCorrect == Spec => []TypeOK
<1>1. Init => TypeOK
  <2> SUFFICES ASSUME Init PROVE TypeOK
    OBVIOUS
  <2>1. \A S : <<>> \in Seq(S) /\ Len(<<>>) = 0
    BY EmptySeq
  <2>2. 0 \in 0..Batch /\ 0 \in 0..(EvMax - 1) /\ 0 \in 0..MaxStops
    OBVIOUS
  <2>3. /\ hand \in Seq([from : Producer, task : Task]) /\ Len(hand) <= 1
        /\ inbox \in Seq(Datagram)
    BY <2>1 DEF Init
  <2>4. /\ todo \in [Producer -> Seq(Task)] /\ queue \in [Producer -> Seq(Task)]
        /\ posted \in [Producer -> Seq(Task)] /\ tried \in [Producer -> Seq(Task)]
    BY <2>1 DEF Init
  <2>5. /\ batch \in 0..Batch /\ evCount \in 0..(EvMax - 1) /\ stops \in 0..MaxStops
        /\ late \in Nat /\ ahead \in Nat
    BY <2>2 DEF Init
  <2>6. /\ sent \subseteq [task : Task, to : Addr]
        /\ accepted \subseteq [task : Task, dst_ip : Addr]
        /\ watchers \subseteq {"stop", "send", "recv"}
        /\ pending \subseteq {"stop", "send", "recv"}
    BY DEF Init
  <2> QED BY <2>3, <2>4, <2>5, <2>6 DEF Init, TypeOK
<1>2. TypeOK /\ [Next]_vars => TypeOK'
  <2> SUFFICES ASSUME TypeOK, [Next]_vars PROVE TypeOK'
    OBVIOUS
  <2> USE DEF loopVars, sendVars, recvVars, taskVars, stopVars
  <2>1. CASE EventFd \/ Socket \/ SetSockOpt
    <3>1. watchers' \subseteq {"stop", "send", "recv"}
      BY <2>1 DEF EventFd, Socket, SetSockOpt, TypeOK
    <3> QED BY <2>1, <3>1 DEF EventFd, Socket, SetSockOpt, TypeOK
  <2>2. CASE SendRequest
    BY <2>2, PostTaskType DEF SendRequest
  <2>3. CASE OtherThreadPosts
    BY <2>3, PostTaskType DEF OtherThreadPosts
  <2>4. CASE Wait
    BY <2>4 DEF Wait, TypeOK
  <2>5. CASE Poll
    BY <2>5 DEF Poll, Ready, TypeOK
  <2>6. CASE LoopReturns
    BY <2>6 DEF LoopReturns, TypeOK
  <2>7. CASE Shutdown
    BY <2>7 DEF Shutdown, Invoke, TypeOK
  <2>8. CASE HandleSend
    BY <2>8 DEF HandleSend, Invoke, TypeOK
  <2>9. CASE TryDequeue
    <3>1. PICK p \in Producer :
            /\ queue[p] # <<>>
            /\ hand' = <<[from |-> p, task |-> Head(queue[p])]>>
            /\ queue' = [queue EXCEPT ![p] = Tail(@)]
      BY <2>9 DEF TryDequeue
    <3>2. Head(queue[p]) \in Task /\ Tail(queue[p]) \in Seq(Task)
      BY <3>1, HeadTailProperties DEF TypeOK
    <3>3. hand' \in Seq([from : Producer, task : Task]) /\ Len(hand') <= 1
      BY <3>1, <3>2
    <3>4. queue' \in [Producer -> Seq(Task)]
      BY <3>1, <3>2 DEF TypeOK
    <3>5. batch' \in 0..Batch
      BY <2>9 DEF TryDequeue, TypeOK
    <3> QED BY <2>9, <3>3, <3>4, <3>5 DEF TryDequeue, TypeOK
  <2>10. CASE SendIcmp
    <3>1. hand[1] \in [from : Producer, task : Task]
      <4>1. hand \in Seq([from : Producer, task : Task]) /\ hand # <<>>
        BY <2>10 DEF SendIcmp, TypeOK
      <4>2. 1 \in 1..Len(hand)
        BY <4>1, EmptySeq
      <4> QED BY <4>1, <4>2, ElementOfSeq
    <3>2. tried' \in [Producer -> Seq(Task)]
      BY <2>10, <3>1, SMTT(30) DEF SendIcmp, TypeOK
    <3>3. sent' \subseteq [task : Task, to : Addr]
      BY <2>10, <3>1, DestType, SMTT(30) DEF SendIcmp, TypeOK
    <3>4. hand' \in Seq([from : Producer, task : Task]) /\ Len(hand') <= 1
      BY <2>10 DEF SendIcmp
    <3>5. late' \in Nat /\ ahead' \in Nat /\ writable' \in BOOLEAN
      BY <2>10 DEF SendIcmp, TypeOK
    <3> QED BY <2>10, <3>2, <3>3, <3>4, <3>5 DEF SendIcmp, TypeOK
  <2>11. CASE HandleSendReturns
    BY <2>11 DEF HandleSendReturns, TypeOK
  <2>12. CASE HandleRecv
    <3>1. inbox' \in Seq(Datagram) /\ Head(inbox) \in Datagram
      BY <2>12, HeadTailProperties DEF HandleRecv, TypeOK
    <3>2. accepted' \subseteq [task : Task, dst_ip : Addr]
      <4>1. accepted' = accepted
            \/ \E ip \in Addr : accepted' = accepted \cup {[task |-> Head(inbox).task, dst_ip |-> ip]}
        BY <2>12 DEF HandleRecv
      <4>2. Head(inbox).task \in Task
        BY <3>1 DEF Datagram
      <4> QED BY <4>1, <4>2 DEF TypeOK
    <3> QED BY <2>12, <3>1, <3>2 DEF HandleRecv, Invoke, TypeOK
  <2>13. CASE Stop
    BY <2>13 DEF Stop, TypeOK
  <2>14. CASE Deliver
    <3>1. PICK d \in {Echo(s) : s \in sent} \cup Foreign : inbox' = Append(inbox, d)
      BY <2>14 DEF Deliver
    <3>2. d \in Datagram
      BY <3>1, EchoType DEF TypeOK
    <3>3. inbox' \in Seq(Datagram)
      BY <3>1, <3>2 DEF TypeOK
    <3> QED BY <2>14, <3>3 DEF Deliver, TypeOK
  <2>15. CASE Drain
    BY <2>15 DEF Drain, TypeOK
  <2>16. CASE UNCHANGED vars
    BY <2>16 DEF vars, TypeOK
  <2> QED
    BY <2>1, <2>2, <2>3, <2>4, <2>5, <2>6, <2>7, <2>8, <2>9, <2>10, <2>11, <2>12, <2>13,
       <2>14, <2>15, <2>16 DEF Next, MainThread
<1> QED BY <1>1, <1>2, PTL DEF Spec

-----------------------------------------------------------------------------
(* The part of the state that Delivered reads.                             *)
taskPath == <<posted, tried, hand, queue>>

LEMMA InHandType == ASSUME TypeOK, NEW p \in Producer PROVE InHand(p) \in Seq(Task)
<1>1. CASE hand = <<>>
  BY <1>1 DEF InHand
<1>2. CASE hand # <<>>
  <2>1. 1 \in 1..Len(hand) /\ hand \in Seq([from : Producer, task : Task])
    BY <1>2, EmptySeq DEF TypeOK
  <2>2. hand[1] \in [from : Producer, task : Task]
    BY <2>1, ElementOfSeq
  <2> QED BY <2>2 DEF InHand
<1> QED BY <1>1, <1>2

(* Concatenation of sequences of tasks is associative.                     *)
LEMMA ThreeTaskSequences ==
  ASSUME NEW a \in Seq(Task), NEW b \in Seq(Task), NEW c \in Seq(Task)
  PROVE  (a \o b) \o c = a \o (b \o c)
BY ONLY ConcatAssociative, SMTT(60)

(* Posting keeps Delivered: the same task goes to the end of both sides.   *)
LEMMA PostTaskDelivers ==
  ASSUME TypeOK, Delivered, NEW p \in Producer, PostTask(p)
  PROVE  Delivered'
<1>1. hand' = hand /\ tried' = tried
  BY DEF PostTask, sendVars
<1>2. CASE queue' = queue /\ posted' = posted
  BY <1>1, <1>2 DEF Delivered, InHand
<1>3. CASE /\ queue' = [queue EXCEPT ![p] = Append(@, Head(todo[p]))]
           /\ posted' = [posted EXCEPT ![p] = Append(@, Head(todo[p]))]
  <2> SUFFICES ASSUME NEW q \in Producer
               PROVE  posted'[q] = tried[q] \o InHand(q) \o queue'[q]
    BY <1>1 DEF Delivered, InHand
  <2>1. posted[q] = tried[q] \o InHand(q) \o queue[q]
    BY DEF Delivered
  <2>2. CASE q # p
    BY <1>3, <2>1, <2>2 DEF TypeOK
  <2>3. CASE q = p
    <3> DEFINE x == Head(todo[p])
    <3>1. x \in Task
      BY HeadTailProperties DEF TypeOK, PostTask
    <3>2. posted'[q] = Append(posted[q], x) /\ queue'[q] = Append(queue[q], x)
      BY <1>3, <2>3 DEF TypeOK
    <3>3. tried[q] \o InHand(q) \in Seq(Task) /\ queue[q] \in Seq(Task)
          /\ posted[q] \in Seq(Task)
      BY InHandType, ConcatProperties DEF TypeOK
    <3>4. Append(posted[q], x) = posted[q] \o <<x>> /\ Append(queue[q], x) = queue[q] \o <<x>>
      BY <3>1, <3>3, AppendIsConcat
    <3>5. (tried[q] \o InHand(q) \o queue[q]) \o <<x>>
            = tried[q] \o InHand(q) \o (queue[q] \o <<x>>)
      <4> DEFINE a == tried[q] \o InHand(q)  b == queue[q]  c == <<x>>
      <4>1. a \in Seq(Task) /\ b \in Seq(Task) /\ c \in Seq(Task)
        BY <3>1, <3>3
      <4> HIDE DEF a, b, c
      <4>2. (a \o b) \o c = a \o (b \o c)
        BY ONLY <4>1, ThreeTaskSequences
      <4> QED BY <4>2 DEF a, b, c
    <3> QED BY <2>1, <3>2, <3>4, <3>5
  <2> QED BY <2>2, <2>3
<1> QED BY <1>2, <1>3 DEF PostTask

(* Dequeuing moves the head of one queue into the hand.                    *)
LEMMA TryDequeueDelivers ==
  ASSUME TypeOK, Delivered, TryDequeue
  PROVE  Delivered'
<1>1. PICK p \in Producer :
        /\ queue[p] # <<>>
        /\ hand' = <<[from |-> p, task |-> Head(queue[p])]>>
        /\ queue' = [queue EXCEPT ![p] = Tail(@)]
  BY DEF TryDequeue
<1>2. hand = <<>> /\ tried' = tried /\ posted' = posted
  BY DEF TryDequeue
<1> SUFFICES ASSUME NEW q \in Producer
             PROVE  posted[q] = tried[q] \o InHand(q)' \o queue'[q]
  BY <1>2 DEF Delivered
<1>3. tried[q] \in Seq(Task) /\ queue[q] \in Seq(Task)
  BY DEF TypeOK
<1>4. posted[q] = tried[q] \o queue[q]
  <2>1. posted[q] = (tried[q] \o <<>>) \o queue[q]
    BY <1>2 DEF Delivered, InHand
  <2> QED BY <1>3, <2>1, ConcatEmptySeq
<1>5. CASE q # p
  <2>1. InHand(q)' = <<>> /\ queue'[q] = queue[q]
    BY <1>1, <1>5 DEF InHand, TypeOK
  <2> QED BY <1>3, <1>4, <2>1, ConcatEmptySeq
<1>6. CASE q = p
  <2> DEFINE h == Head(queue[q])  t == Tail(queue[q])
  <2>1. InHand(q)' = <<h>> /\ queue'[q] = t
    BY <1>1, <1>6 DEF InHand, TypeOK
  <2>2. h \in Task /\ t \in Seq(Task) /\ <<h>> \in Seq(Task)
    BY <1>1, <1>3, <1>6, HeadTailProperties
  <2>3. queue[q] = <<h>> \o t
    BY <1>1, <1>3, <1>6, <2>2
  <2>4. (tried[q] \o <<h>>) \o t = tried[q] \o (<<h>> \o t)
    <3> DEFINE a == tried[q]  b == <<h>>
    <3>1. a \in Seq(Task) /\ b \in Seq(Task)
      BY <1>3, <2>2
    <3> HIDE DEF a, b, t
    <3>2. t \in Seq(Task)
      BY <2>2
    <3>3. (a \o b) \o t = a \o (b \o t)
      BY ONLY <3>1, <3>2, ThreeTaskSequences
    <3> QED BY <3>3 DEF a, b
  <2> HIDE DEF h, t
  <2> QED BY <1>4, <2>1, <2>3, <2>4
<1> QED BY <1>5, <1>6

(* SendIcmp moves the request in hand to the end of tried.                 *)
LEMMA SendIcmpDelivers ==
  ASSUME TypeOK, Delivered, SendIcmp
  PROVE  Delivered'
<1> DEFINE r == hand[1]
<1>1. hand # <<>> /\ hand' = <<>> /\ queue' = queue /\ posted' = posted
      /\ tried' = [tried EXCEPT ![r.from] = Append(@, r.task)]
  BY DEF SendIcmp, taskVars
<1>2. r.from \in Producer /\ r.task \in Task
  <2>1. hand \in Seq([from : Producer, task : Task]) /\ 1 \in 1..Len(hand)
    BY <1>1, EmptySeq DEF TypeOK
  <2>2. hand[1] \in [from : Producer, task : Task]
    BY <2>1, ElementOfSeq
  <2> QED BY <2>2
<1> SUFFICES ASSUME NEW q \in Producer
             PROVE  posted[q] = tried'[q] \o <<>> \o queue[q]
  BY <1>1 DEF Delivered, InHand
<1>3. tried[q] \in Seq(Task) /\ queue[q] \in Seq(Task) /\ tried'[q] \in Seq(Task)
  BY <1>1, <1>2, SMTT(30) DEF TypeOK
<1>4. posted[q] = tried[q] \o InHand(q) \o queue[q]
  BY DEF Delivered
<1>5. tried'[q] = tried[q] \o InHand(q)
  <2>1. CASE q # r.from
    <3>1. InHand(q) = <<>> /\ tried'[q] = tried[q]
      BY <1>1, <1>2, <2>1 DEF InHand, TypeOK
    <3> QED BY <1>3, <3>1, ConcatEmptySeq
  <2>2. CASE q = r.from
    <3>1. InHand(q) = <<r.task>> /\ tried'[q] = Append(tried[q], r.task)
      BY <1>1, <1>2, <2>2 DEF InHand, TypeOK
    <3> QED BY <1>2, <1>3, <3>1, AppendIsConcat
  <2> QED BY <2>1, <2>2
<1> QED BY <1>3, <1>4, <1>5, ConcatEmptySeq

(* Every thread's posted tasks are, in order, those tried, the one in      *)
(* hand and those queued.                                                  *)
THEOREM TasksDelivered == Spec => []Delivered
<1>1. Init => Delivered
  BY ConcatEmptySeq, EmptySeq DEF Init, Delivered, InHand
<1>2. TypeOK /\ Delivered /\ [Next]_vars => Delivered'
  <2> SUFFICES ASSUME TypeOK, Delivered, [Next]_vars PROVE Delivered'
    OBVIOUS
  <2>1. CASE SendRequest
    BY <2>1, PostTaskDelivers DEF SendRequest
  <2>2. CASE OtherThreadPosts
    BY <2>2, PostTaskDelivers DEF OtherThreadPosts
  <2>3. CASE TryDequeue
    BY <2>3, TryDequeueDelivers
  <2>4. CASE SendIcmp
    BY <2>4, SendIcmpDelivers
  <2>5. CASE UNCHANGED taskPath
    BY <2>5 DEF taskPath, Delivered, InHand
  <2>6. (EventFd \/ Socket \/ SetSockOpt \/ Wait \/ Poll \/ LoopReturns \/ Shutdown \/ HandleSend
          \/ HandleSendReturns \/ HandleRecv \/ Stop \/ Deliver \/ Drain \/ UNCHANGED vars)
        => UNCHANGED taskPath
    BY DEF EventFd, Socket, SetSockOpt, Wait, Poll, LoopReturns, Shutdown, HandleSend,
           HandleSendReturns, HandleRecv, Stop, Deliver, Drain, vars, taskPath, sendVars, taskVars
  <2> QED BY <2>1, <2>2, <2>3, <2>4, <2>5, <2>6 DEF Next, MainThread
<1> QED BY <1>1, <1>2, TypeCorrect, PTL DEF Spec

-----------------------------------------------------------------------------
(* Why at most one batch is late: nothing is sent after ev_break but by a  *)
(* HandleSend that is running or pending then, and what a running one has  *)
(* sent and may still send fits in its batch.                              *)
LateOK ==
  /\ pc # "send" => hand = <<>>
  /\ pc \in {"start", "socket", "setsockopt", "post"} => ~loopDone
  /\ pc # "returned" /\ ~loopDone => late = 0
  /\ "send" \in pending => late = 0
  /\ pc = "send" => "send" \notin pending /\ late + batch + Len(hand) <= Batch
  /\ late <= Batch

(* After the loop was told to end, at most one batch of requests leaves    *)
(* (pinger.cc:86, 106).                                                    *)
THEOREM LateSends == Spec => []LateBounded
<1>1. Init => LateOK
  BY DEF Init, LateOK
<1>2. TypeOK /\ LateOK /\ [Next]_vars => LateOK'
  <2> SUFFICES ASSUME TypeOK, LateOK, [Next]_vars PROVE LateOK'
    OBVIOUS
  <2> USE DEF loopVars, sendVars, LateOK
  <2>1. CASE EventFd \/ Socket \/ SetSockOpt
    BY <2>1 DEF EventFd, Socket, SetSockOpt
  <2>2. CASE Wait
    BY <2>2 DEF Wait
  <2>3. CASE Poll
    BY <2>3 DEF Poll
  <2>4. CASE LoopReturns
    BY <2>4 DEF LoopReturns
  <2>5. CASE Shutdown
    BY <2>5 DEF Shutdown, Invoke, TypeOK
  <2>6. CASE HandleSend
    <3>1. late = 0 /\ hand = <<>> /\ Len(hand) = 0 /\ batch' = Batch /\ late' = late
          /\ hand' = hand /\ "send" \notin pending' /\ pc' = "send" /\ loopDone' = loopDone
      BY <2>6, EmptySeq DEF HandleSend, Invoke
    <3> QED BY <3>1
  <2>7. CASE TryDequeue
    <3>1. Len(hand) = 0 /\ Len(hand') = 1 /\ batch' = batch - 1 /\ batch \in Nat /\ late \in Nat
      BY <2>7, EmptySeq DEF TryDequeue, TypeOK
    <3> QED BY <2>7, <3>1 DEF TryDequeue
  <2>8. CASE SendIcmp
    <3>1. pc = "send" /\ pc' = pc /\ pending' = pending /\ loopDone' = loopDone /\ batch' = batch
      BY <2>8 DEF SendIcmp
    <3>2. Len(hand) = 1 /\ Len(hand') = 0 /\ batch \in Nat /\ late \in Nat /\ hand' = <<>>
      <4>1. hand \in Seq([from : Producer, task : Task]) /\ hand # <<>> /\ Len(hand) <= 1
            /\ hand' = <<>>
        BY <2>8 DEF SendIcmp, TypeOK
      <4>2. Len(hand) \in Nat \ {0} /\ Len(<<>>) = 0
        BY <4>1, EmptySeq
      <4>3. Len(hand) = 1
        <5>1. \A n \in Nat \ {0} : n <= 1 => n = 1
          OBVIOUS
        <5>2. Len(hand) \in Nat \ {0} /\ Len(hand) <= 1
          BY <4>1, <4>2
        <5> HIDE DEF LateOK, sendVars, loopVars
        <5> QED BY <5>1, <5>2
      <4>4. batch \in Nat /\ late \in Nat
        BY DEF TypeOK
      <4> QED BY <4>1, <4>2, <4>3, <4>4
    <3>3. late' = IF loopDone THEN late + 1 ELSE late
      BY <2>8 DEF SendIcmp
    <3> QED BY <3>1, <3>2, <3>3
  <2>9. CASE HandleSendReturns
    BY <2>9 DEF HandleSendReturns
  <2>10. CASE HandleRecv
    BY <2>10 DEF HandleRecv, Invoke
  <2>11. CASE UNCHANGED <<pc, hand, loopDone, late, pending, batch>>
    BY <2>11
  <2>12. (SendRequest \/ OtherThreadPosts \/ Stop \/ Deliver \/ Drain \/ UNCHANGED vars)
           => UNCHANGED <<pc, hand, loopDone, late, pending, batch>>
    BY DEF SendRequest, OtherThreadPosts, PostTask, Stop, Deliver, Drain, vars
  <2> QED BY <2>1, <2>2, <2>3, <2>4, <2>5, <2>6, <2>7, <2>8, <2>9, <2>10, <2>11, <2>12
          DEF Next, MainThread
<1>3. LateOK => LateBounded
  BY DEF LateOK, LateBounded
<1> QED BY <1>1, <1>2, <1>3, TypeCorrect, PTL DEF Spec

-----------------------------------------------------------------------------
(* Why a waiting datagram sees two batches at most.  A poll that finds it  *)
(* makes the receive callback pending, so that the only sends before it    *)
(* are those of a callback that ran when it came and of one pending beside *)
(* it; Room is what all of them together may amount to.                    *)
Room  == IF "recv" \in pending THEN IF "send" \in pending THEN Batch ELSE 2 * Batch
         ELSE IF "send" \in pending THEN 0 ELSE Batch
ToSend == IF pc = "send" THEN batch + Len(hand) ELSE 0

RecvOK ==
  /\ pc # "send" => hand = <<>>
  /\ pc = "send" => "send" \notin pending
  /\ pc \in {"start", "socket", "setsockopt"} => ~started
  /\ pc \in {"start", "socket", "setsockopt", "post"} => ahead = 0 /\ pending = {}
  /\ started => "recv" \in watchers
  /\ inbox # <<>> => started
  /\ inbox = <<>> => ahead = 0
  /\ ahead + ToSend <= Room

(* At most two batches of requests leave while a datagram waits, for any   *)
(* threads, scripts and batch size (pinger.cc:61-63, 148-152).             *)
THEOREM RepliesGetThrough == Spec => []RepliesNotHeldUp
<1>1. Init => RecvOK
  BY DEF Init, RecvOK, Room, ToSend
<1>2. TypeOK /\ RecvOK /\ [Next]_vars => RecvOK'
  <2> SUFFICES ASSUME TypeOK, RecvOK, [Next]_vars PROVE RecvOK'
    OBVIOUS
  <2> USE DEF loopVars, sendVars, recvVars, RecvOK, Room, ToSend
  <2>1. ahead \in Nat /\ batch \in Nat /\ Len(hand) \in Nat
    BY DEF TypeOK
  <2>2. CASE EventFd \/ Socket \/ SetSockOpt
    BY <2>2 DEF EventFd, Socket, SetSockOpt
  <2>3. CASE Wait
    BY <2>3 DEF Wait
  <2>4. CASE Poll
    <3>1. pc = "loop" /\ pending = {} /\ pending' = Ready /\ ahead <= Batch
          /\ UNCHANGED <<pc, watchers, started, ahead, hand, batch, inbox>>
      BY <2>1, <2>4 DEF Poll
    <3>2. "recv" \notin Ready => inbox = <<>>
      BY DEF Ready
    <3>3. "recv" \notin pending' => ahead = 0
      BY <3>1, <3>2
    <3> QED BY <2>1, <3>1, <3>3
  <2>5. CASE LoopReturns
    BY <2>1, <2>5 DEF LoopReturns
  <2>6. CASE Shutdown
    BY <2>6 DEF Shutdown, Invoke
  <2>7. CASE HandleSend
    <3>1. pc = "loop" /\ hand = <<>> /\ Len(hand) = 0 /\ "send" \in pending
      BY <2>7, EmptySeq DEF HandleSend, Invoke
    <3>2. pc' = "send" /\ batch' = Batch /\ pending' = pending \ {"send"}
          /\ UNCHANGED <<watchers, started, ahead, hand, inbox>>
      BY <2>7 DEF HandleSend, Invoke
    <3> QED BY <2>1, <3>1, <3>2
  <2>8. CASE TryDequeue
    <3>1. Len(hand) = 0 /\ Len(hand') = 1 /\ batch' = batch - 1
      BY <2>8, EmptySeq DEF TryDequeue
    <3> QED BY <2>1, <2>8, <3>1 DEF TryDequeue
  <2>9. CASE SendIcmp
    <3>1. hand # <<>> /\ hand' = <<>> /\ Len(hand') = 0
          /\ ahead' = (IF inbox # <<>> THEN ahead + 1 ELSE 0)
          /\ UNCHANGED <<pc, pending, watchers, started, batch, inbox>>
      BY <2>9, EmptySeq DEF SendIcmp
    <3>2. Len(hand) >= 1
      BY <2>1, <3>1, EmptySeq DEF TypeOK
    <3>3. pc = "send"
      BY <3>1
    <3>4. ahead' + ToSend' <= Room'
      BY <2>1, <3>1, <3>2, <3>3
    <3> QED BY <3>1, <3>3, <3>4
  <2>10. CASE HandleSendReturns
    BY <2>1, <2>10 DEF HandleSendReturns
  <2>11. CASE HandleRecv
    <3>1. pc = "loop" /\ "recv" \in pending /\ inbox # <<>>
      BY <2>11 DEF HandleRecv, Invoke
    <3>2. ahead' = 0 /\ "recv" \notin pending' /\ UNCHANGED <<pc, watchers, started, hand, batch>>
      BY <2>11 DEF HandleRecv, Invoke
    <3> QED BY <3>1, <3>2
  <2>12. CASE Deliver
    <3>1. PICK d \in {Echo(s) : s \in sent} \cup Foreign : inbox' = Append(inbox, d)
      BY <2>12 DEF Deliver
    <3>2. inbox' # <<>> /\ started
      <4>1. d \in Datagram /\ inbox \in Seq(Datagram)
        BY <3>1, EchoType DEF TypeOK
      <4>2. Append(inbox, d) # <<>>
        BY ONLY <4>1, AppendProperties
      <4> QED BY <2>12, <3>1, <4>2 DEF Deliver
    <3> QED BY <2>12, <3>2 DEF Deliver
  <2>13. CASE UNCHANGED <<loopVars, batch, hand, ahead, inbox>>
    BY <2>13
  <2>14. (SendRequest \/ OtherThreadPosts \/ Stop \/ Drain \/ UNCHANGED vars)
           => UNCHANGED <<loopVars, batch, hand, ahead, inbox>>
    BY DEF SendRequest, OtherThreadPosts, PostTask, Stop, Drain, vars
  <2> QED BY <2>2, <2>3, <2>4, <2>5, <2>6, <2>7, <2>8, <2>9, <2>10, <2>11, <2>12, <2>13, <2>14
          DEF Next, MainThread
<1>3. TypeOK /\ RecvOK => RepliesNotHeldUp
  <2> SUFFICES ASSUME TypeOK, RecvOK PROVE ahead <= 2 * Batch
    BY DEF RepliesNotHeldUp
  <2>1. ahead \in Nat /\ ToSend >= 0 /\ ToSend \in Int
    BY DEF TypeOK, ToSend
  <2>2. Room <= 2 * Batch /\ Room \in Int
    BY DEF Room
  <2>3. ahead + ToSend <= Room
    BY DEF RecvOK
  <2> QED BY <2>1, <2>2, <2>3
<1> QED BY <1>1, <1>2, <1>3, TypeCorrect, PTL DEF Spec

-----------------------------------------------------------------------------
(* A counter above zero, a pending break and a loop that returned with its *)
(* stop watcher all go back to a Stop that returned true.                  *)
StopOK ==
  /\ evCount > 0 => stopTrue
  /\ loopDone => stopTrue
  /\ evOpen => "stop" \in watchers
  /\ pc = "start" => ~evOpen
  /\ ReturnsOnlyIfStopped

(* Unless eventfd failed, the loop ends only after a Stop returned true.   *)
THEOREM LoopEndsOnStop == Spec => []ReturnsOnlyIfStopped
<1>1. Init => StopOK
  BY DEF Init, StopOK, ReturnsOnlyIfStopped
<1>2. TypeOK /\ StopOK /\ [Next]_vars => StopOK'
  <2> SUFFICES ASSUME TypeOK, StopOK, [Next]_vars PROVE StopOK'
    OBVIOUS
  <2> USE DEF loopVars, stopVars, StopOK, ReturnsOnlyIfStopped
  <2>1. CASE EventFd \/ Socket \/ SetSockOpt
    BY <2>1 DEF EventFd, Socket, SetSockOpt
  <2>2. CASE Wait
    BY <2>2 DEF Wait
  <2>3. CASE LoopReturns
    BY <2>3 DEF LoopReturns
  <2>4. CASE Shutdown
    <3>1. evCount' = 0 /\ (loopDone' <=> (loopDone \/ evCount > 0)) /\ stopTrue' = stopTrue
          /\ UNCHANGED <<pc, watchers, evOpen>>
      BY <2>4 DEF Shutdown, Invoke
    <3>2. ~(evCount' > 0)
      BY <3>1
    <3>3. loopDone' => stopTrue'
      BY <3>1
    <3> QED BY <3>1, <3>2, <3>3
  <2>5. CASE Stop
    <3>1. PICK value \in 0..EvMax :
            LET ok == value < EvMax /\ evCount + value < EvMax
            IN  /\ evCount' = IF ok THEN evCount + value ELSE evCount
                /\ stopTrue' = (stopTrue \/ ok)
      BY <2>5 DEF Stop
    <3>2. evCount' > 0 => stopTrue'
      BY <3>1
    <3>3. stopTrue => stopTrue'
      BY <3>1
    <3> QED BY <2>5, <3>2, <3>3 DEF Stop
  <2>6. CASE HandleSend \/ HandleSendReturns
    BY <2>6 DEF HandleSend, HandleSendReturns, Invoke
  <2>7. CASE UNCHANGED <<pc, evCount, stopTrue, loopDone, evOpen, watchers>>
    BY <2>7
  <2>8. (SendRequest \/ Poll \/ TryDequeue \/ SendIcmp \/ HandleRecv \/ OtherThreadPosts
           \/ Deliver \/ Drain \/ UNCHANGED vars)
          => UNCHANGED <<pc, evCount, stopTrue, loopDone, evOpen, watchers>>
    BY DEF SendRequest, Poll, TryDequeue, SendIcmp, HandleRecv, Invoke, OtherThreadPosts,
           PostTask, Deliver, Drain, vars
  <2> QED BY <2>1, <2>2, <2>3, <2>4, <2>5, <2>6, <2>7, <2>8 DEF Next, MainThread
<1> QED BY <1>1, <1>2, TypeCorrect, PTL DEF Spec, StopOK

-----------------------------------------------------------------------------
(* Every datagram in the receive buffer is foreign or answers a request    *)
(* that was sent.                                                          *)
RepliesOK ==
  /\ \A i \in DOMAIN inbox : inbox[i] \in Foreign \/ \E s \in sent : inbox[i] = Echo(s)
  /\ AcceptedWasSent

(* While no foreign datagram is taken for ours, accepted replies are for   *)
(* tasks that were sent.                                                   *)
THEOREM RepliesAreOurs == Spec => []AcceptedWasSent
<1>1. Init => RepliesOK
  BY DEF Init, RepliesOK, AcceptedWasSent
<1>2. TypeOK /\ RepliesOK /\ [Next]_vars => RepliesOK'
  <2> SUFFICES ASSUME TypeOK, RepliesOK, [Next]_vars PROVE RepliesOK'
    OBVIOUS
  <2> USE DEF RepliesOK, AcceptedWasSent
  <2>1. CASE SendIcmp
    <3>1. inbox' = inbox /\ accepted' = accepted /\ sent \subseteq sent'
      BY <2>1 DEF SendIcmp, recvVars
    <3> QED BY <3>1
  <2>2. CASE HandleRecv
    <3>1. inbox \in Seq(Datagram) /\ inbox # <<>> /\ inbox' = Tail(inbox) /\ sent' = sent
      BY <2>2 DEF HandleRecv, TypeOK, sendVars
    <3>2. \A i \in DOMAIN inbox' : i + 1 \in DOMAIN inbox /\ inbox'[i] = inbox[i + 1]
      BY <3>1, HeadTailProperties, LenProperties
    <3>3. 1 \in DOMAIN inbox /\ Head(inbox) = inbox[1]
      BY <3>1, EmptySeq, LenProperties
    <3>4. Head(inbox) \in Foreign \/ \E s \in sent : Head(inbox) = Echo(s)
      BY <3>3
    <3>5. \A s \in sent : Echo(s).task = s.task
      BY DEF Echo
    <3>6. accepted' = accepted
          \/ /\ Receive(Head(inbox), MyId) = "accepted"
             /\ \E ip \in Addr :
                  accepted' = accepted \cup {[task |-> Head(inbox).task, dst_ip |-> ip]}
      BY <2>2 DEF HandleRecv
    <3>7. AcceptedWasSent'
      <4> SUFFICES ASSUME IdIsOurs,
                          NEW a \in accepted'
                   PROVE  \E s \in sent : s.task = a.task
        BY <3>1
      <4>1. CASE a \in accepted
        BY <4>1
      <4>2. CASE a \notin accepted
        <5>1. a.task = Head(inbox).task /\ Receive(Head(inbox), MyId) = "accepted"
          BY <3>6, <4>2
        <5>2. Head(inbox).type = ICMP_ECHOREPLY /\ Head(inbox).id = MyId
          BY <5>1 DEF Receive, ParseIcmpPakcet
        <5> QED BY <3>4, <3>5, <5>1, <5>2 DEF IdIsOurs
      <4> QED BY <4>1, <4>2
    <3> QED BY <3>1, <3>2, <3>7
  <2>3. CASE Deliver
    <3>1. PICK d \in {Echo(s) : s \in sent} \cup Foreign : inbox' = Append(inbox, d)
      BY <2>3 DEF Deliver
    <3>2. inbox \in Seq(Datagram) /\ sent' = sent /\ accepted' = accepted
      BY <2>3 DEF Deliver, TypeOK, sendVars
    <3>3. \A i \in DOMAIN inbox' : inbox'[i] = d \/ (i \in DOMAIN inbox /\ inbox'[i] = inbox[i])
      BY <3>1, <3>2
    <3> QED BY <3>1, <3>2, <3>3
  <2>4. CASE UNCHANGED <<inbox, accepted, sent>>
    BY <2>4
  <2>5. (EventFd \/ Socket \/ SetSockOpt \/ SendRequest \/ Wait \/ Poll
           \/ LoopReturns \/ Shutdown \/ HandleSend \/ TryDequeue \/ HandleSendReturns
           \/ OtherThreadPosts \/ Stop \/ Drain \/ UNCHANGED vars)
          => UNCHANGED <<inbox, accepted, sent>>
    BY DEF EventFd, Socket, SetSockOpt, SendRequest, Wait, Poll, LoopReturns, Shutdown, HandleSend,
           TryDequeue, HandleSendReturns, OtherThreadPosts, PostTask, Stop, Drain, vars, sendVars,
           recvVars
  <2> QED BY <2>1, <2>2, <2>3, <2>4, <2>5 DEF Next, MainThread
<1> QED BY <1>1, <1>2, TypeCorrect, PTL DEF Spec, RepliesOK
=============================================================================
