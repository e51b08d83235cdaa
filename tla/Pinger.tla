------------------------------- MODULE Pinger -------------------------------
(***************************************************************************)
(* The pinger process: main (main.cc), class Pinger (pinger.{h,cc}), the   *)
(* libev loop it runs in, the raw ICMP socket and the event descriptor.    *)
(*                                                                         *)
(* The main thread starts the watchers, posts the built-in requests and    *)
(* runs the loop; other threads may call PostTask and Stop at any moment.  *)
(* Every action of the main thread is one system call or one access to     *)
(* the task queue, so calls of the other threads fall between any two.     *)
(*                                                                         *)
(* The task queue is one sequence per posting thread: the lock-free queue  *)
(* keeps the order of each producer only.  With this single consumer a     *)
(* failed try_dequeue may be taken to happen at its start: a producer it   *)
(* then finds empty was already empty, because nobody else dequeues.       *)
(***************************************************************************)
EXTENDS Icmp, FiniteSets

CONSTANTS
  Producer,     \* threads that post tasks
  Main,         \* the main thread, one of them
  Task,         \* ping tasks, all different
  Script,       \* Script[p]: the tasks p posts, in order
  Addr,         \* IPv4 addresses
  Ip,           \* Ip[t]: the address of task t; outside Addr if it does not parse
  MyId,         \* the ICMP id of this process
  Foreign,      \* datagrams of others that reach the raw socket
  Batch,        \* batch_num of HandleSend (300)
  RcvMax,       \* datagrams SO_RCVBUF holds
  EvMax,        \* the value eventfd refuses: 2^64 - 1
  MaxStops      \* bound: how often Stop is called

Datagram == [icmp : BOOLEAN, hl : 5..15, len : Nat, type : Nat, id : Nat,
             task : Task, from : Addr]

ASSUME ProducerAssumption == Main \in Producer /\ Script \in [Producer -> Seq(Task)]
ASSUME BoundAssumption == Batch \in Nat \ {0} /\ RcvMax \in Nat \ {0} /\ EvMax \in Nat \ {0}
                          /\ MaxStops \in Nat
ASSUME PacketAssumption == Foreign \subseteq Datagram /\ MyId \in Nat

VARIABLES
  pc,           \* the main thread: start, socket, setsockopt (in Start), post, loop (in ev_run),
                \* send (in HandleSend), returned
  started,      \* what Start returned; main ignores it
  evOpen,       \* eventfd() succeeded
  watchers,     \* the active watchers
  evCount,      \* the counter behind ev_fd_
  loopDone,     \* ev_break was called
  pending,      \* callbacks of this iteration still to be invoked
  batch,        \* batch_num
  hand,         \* <<[from, task]>>: the request between try_dequeue and sendto
  writable,     \* the raw socket's send buffer has room
  inbox,        \* the raw socket's receive buffer
  todo,         \* todo[p]: what p still posts
  queue,        \* task_queue_
  stops,        \* calls of Stop so far
  posted,       \* history: the tasks of p that enqueue accepted
  tried,        \* history: the tasks of p handed to sendto
  sent,         \* history: the requests sendto accepted
  late,         \* history: calls of sendto after ev_break
  ahead,        \* history: calls of sendto, with a datagram waiting, since one was received
  accepted,     \* history: PingInfo of the accepted replies
  stopTrue      \* history: some Stop returned true

loopVars == <<pc, watchers, evOpen, started, loopDone, pending>>
sendVars == <<batch, hand, writable, tried, sent, late, ahead>>
recvVars == <<inbox, accepted>>
taskVars == <<todo, queue, posted>>
stopVars == <<evCount, stops, stopTrue>>
vars == <<loopVars, sendVars, recvVars, taskVars, stopVars>>

Init ==
  /\ pc = "start" /\ started = FALSE /\ evOpen = FALSE /\ watchers = {}
  /\ loopDone = FALSE /\ pending = {}
  /\ batch = 0 /\ hand = <<>> /\ writable = TRUE
  /\ tried = [p \in Producer |-> <<>>] /\ sent = {} /\ late = 0 /\ ahead = 0
  /\ inbox = <<>> /\ accepted = {}
  /\ todo = Script /\ queue = [p \in Producer |-> <<>>] /\ posted = [p \in Producer |-> <<>>]
  /\ evCount = 0 /\ stops = 0 /\ stopTrue = FALSE

-----------------------------------------------------------------------------
(* Start: eventfd and the stop watcher, socket, setsockopt and the other   *)
(* watchers.  Each call may fail and end it; main goes on regardless.      *)
EventFd ==
  /\ pc = "start"
  /\ \/ pc' = "socket" /\ evOpen' = TRUE /\ watchers' = {"stop"}
     \/ pc' = "post" /\ UNCHANGED <<evOpen, watchers>>
  /\ UNCHANGED <<started, loopDone, pending, sendVars, recvVars, taskVars, stopVars>>

Socket ==
  /\ pc = "socket"
  /\ pc' \in {"setsockopt", "post"}
  /\ UNCHANGED <<watchers, evOpen, started, loopDone, pending, sendVars, recvVars, taskVars,
                 stopVars>>

SetSockOpt ==
  /\ pc = "setsockopt"
  /\ pc' = "post"
  /\ \/ started' = TRUE /\ watchers' = watchers \cup {"send", "recv"}
     \/ UNCHANGED <<started, watchers>>
  /\ UNCHANGED <<evOpen, loopDone, pending, sendVars, recvVars, taskVars, stopVars>>

(* PostTask: enqueue fails when it cannot allocate; no caller looks.       *)
PostTask(p) ==
  /\ todo[p] # <<>>
  /\ todo' = [todo EXCEPT ![p] = Tail(@)]
  /\ \/ /\ queue' = [queue EXCEPT ![p] = Append(@, Head(todo[p]))]
        /\ posted' = [posted EXCEPT ![p] = Append(@, Head(todo[p]))]
     \/ UNCHANGED <<queue, posted>>
  /\ UNCHANGED <<loopVars, sendVars, recvVars, stopVars>>

(* SendRequest is the main thread's share of PostTask, between Start and   *)
(* Wait; Wait is ev_run, which first clears loop_done.                     *)
SendRequest == pc = "post" /\ PostTask(Main)

Wait ==
  /\ pc = "post" /\ todo[Main] = <<>>
  /\ pc' = "loop" /\ loopDone' = FALSE
  /\ UNCHANGED <<watchers, evOpen, started, pending, sendVars, recvVars, taskVars, stopVars>>

OtherThreadPosts == \E p \in Producer \ {Main} : pc # "returned" /\ PostTask(p)

-----------------------------------------------------------------------------
(* ev_run: an iteration polls, then invokes every pending callback, in an  *)
(* order the program does not control; it blocks while nothing is ready.   *)
Ready == {w \in watchers : CASE w = "stop" -> evCount > 0
                             [] w = "send" -> writable
                             [] w = "recv" -> inbox # <<>>}

Poll ==
  /\ pc = "loop" /\ pending = {} /\ ~loopDone /\ Ready # {}
  /\ pending' = Ready
  /\ UNCHANGED <<pc, watchers, evOpen, started, loopDone, sendVars, recvVars, taskVars, stopVars>>

LoopReturns_Once ==                                         \* mutant: ev_run(loop_, EVRUN_ONCE)
  /\ pc = "loop" /\ pending = {}
  /\ pc' = "returned" /\ loopDone' = FALSE
  /\ UNCHANGED <<watchers, evOpen, started, pending, sendVars, recvVars, taskVars, stopVars>>

LoopReturns ==
  /\ pc = "loop" /\ pending = {} /\ (loopDone \/ watchers = {})
  /\ pc' = "returned" /\ loopDone' = FALSE
  /\ UNCHANGED <<watchers, evOpen, started, pending, sendVars, recvVars, taskVars, stopVars>>

Invoke(w) == pc = "loop" /\ w \in pending /\ pending' = pending \ {w}

(* Shutdown: read() takes and clears the counter, or fails on zero.        *)
Shutdown_NoBreak ==                                         \* mutant
  /\ Invoke("stop")
  /\ evCount' = 0
  /\ UNCHANGED <<pc, loopDone, watchers, evOpen, started, sendVars, recvVars, taskVars,
                 stops, stopTrue>>

Shutdown ==
  /\ Invoke("stop")
  /\ loopDone' = (loopDone \/ evCount > 0)
  /\ evCount' = 0
  /\ UNCHANGED <<pc, watchers, evOpen, started, sendVars, recvVars, taskVars, stops, stopTrue>>

-----------------------------------------------------------------------------
(* HandleSend and SendIcmp *)
HandleSend ==
  /\ Invoke("send")
  /\ pc' = "send" /\ batch' = Batch
  /\ UNCHANGED <<watchers, evOpen, started, loopDone, hand, writable, tried, sent, late,
                 ahead, recvVars, taskVars, stopVars>>

TryDequeue_NoBatchTest ==                                   \* mutant
  /\ pc = "send" /\ hand = <<>>
  /\ batch' = batch - 1
  /\ \E p \in Producer :
       /\ queue[p] # <<>>
       /\ hand' = <<[from |-> p, task |-> Head(queue[p])]>>
       /\ queue' = [queue EXCEPT ![p] = Tail(@)]
  /\ UNCHANGED <<loopVars, writable, tried, sent, late, ahead, recvVars, todo, posted, stopVars>>

TryDequeue_BatchNotCounted ==                               \* mutant
  /\ pc = "send" /\ hand = <<>> /\ batch > 0
  /\ \E p \in Producer :
       /\ queue[p] # <<>>
       /\ hand' = <<[from |-> p, task |-> Head(queue[p])]>>
       /\ queue' = [queue EXCEPT ![p] = Tail(@)]
  /\ UNCHANGED <<loopVars, batch, writable, tried, sent, late, ahead, recvVars, todo, posted,
                 stopVars>>

TryDequeue ==
  /\ pc = "send" /\ hand = <<>> /\ batch > 0
  /\ batch' = batch - 1
  /\ \E p \in Producer :
       /\ queue[p] # <<>>
       /\ hand' = <<[from |-> p, task |-> Head(queue[p])]>>
       /\ queue' = [queue EXCEPT ![p] = Tail(@)]
  /\ UNCHANGED <<loopVars, writable, tried, sent, late, ahead, recvVars, todo, posted, stopVars>>

(* inet_pton's result is not checked: a text that is no address leaves     *)
(* sin_addr as the stack had it.                                           *)
Dest(t) == IF Ip[t] \in Addr THEN {Ip[t]} ELSE Addr

(* sendto: the request leaves, or an error drops it for good.  "TODO: post *)
(* task": nothing puts the request back, whatever its count says.          *)
SendIcmp ==
  /\ hand # <<>>
  /\ LET r == hand[1]
     IN  /\ tried' = [tried EXCEPT ![r.from] = Append(@, r.task)]
         /\ \/ \E to \in Dest(r.task) : sent' = sent \cup {[task |-> r.task, to |-> to]}
            \/ UNCHANGED sent
  /\ hand' = <<>>
  /\ writable' \in BOOLEAN
  /\ late' = IF loopDone THEN late + 1 ELSE late
  /\ ahead' = IF inbox # <<>> THEN ahead + 1 ELSE 0
  /\ UNCHANGED <<loopVars, batch, recvVars, taskVars, stopVars>>

HandleSendReturns_SwappedTests ==    \* mutant: try_dequeue(request) && batch_num-- > 0
  /\ pc = "send" /\ hand = <<>>
  /\ batch = 0 \/ \A p \in Producer : queue[p] = <<>>
  /\ pc' = "loop"
  /\ queue' = [p \in Producer |-> IF queue[p] # <<>> THEN Tail(queue[p]) ELSE <<>>]
  /\ UNCHANGED <<watchers, evOpen, started, loopDone, pending, sendVars, recvVars, todo, posted,
                 stopVars>>

HandleSendReturns_StopsWatcher ==    \* mutant: ev_io_stop when the queue is empty
  /\ pc = "send" /\ hand = <<>>
  /\ batch = 0 \/ \A p \in Producer : queue[p] = <<>>
  /\ pc' = "loop"
  /\ watchers' = IF batch > 0 THEN watchers \ {"send"} ELSE watchers
  /\ UNCHANGED <<evOpen, started, loopDone, pending, sendVars, recvVars, taskVars, stopVars>>

HandleSendReturns ==
  /\ pc = "send" /\ hand = <<>>
  /\ batch = 0 \/ \A p \in Producer : queue[p] = <<>>
  /\ pc' = "loop"
  /\ UNCHANGED <<watchers, evOpen, started, loopDone, pending, sendVars, recvVars, taskVars,
                 stopVars>>

(* HandleRecv: one datagram.  addr_len is uninitialised: the kernel may    *)
(* store the whole source address, less than the whole, or reject the      *)
(* length after it has taken the datagram off the socket.                  *)
HandleRecv ==
  /\ Invoke("recv")
  /\ inbox # <<>> /\ inbox' = Tail(inbox)
  /\ LET d == Head(inbox)
     IN  \/ UNCHANGED accepted                 \* the address was refused, or not our reply
         \/ /\ Receive(d, MyId) = "accepted"
            /\ \E ip \in Addr :                \* d.from, or what the stack held
                 accepted' = accepted \cup {[task |-> d.task, dst_ip |-> ip]}
  /\ ahead' = 0
  /\ UNCHANGED <<pc, watchers, evOpen, started, loopDone, batch, hand, writable, tried, sent, late,
                 taskVars, stopVars>>

-----------------------------------------------------------------------------
(* Stop writes an uninitialised value.  eventfd refuses the all-ones value *)
(* (EINVAL) and a sum beyond it (EAGAIN), and accepts zero.                *)
Stop ==
  /\ evOpen /\ pc # "returned" /\ stops < MaxStops
  /\ stops' = stops + 1
  /\ \E value \in 0..EvMax :
       LET ok == value < EvMax /\ evCount + value < EvMax
       IN  /\ evCount' = IF ok THEN evCount + value ELSE evCount
           /\ stopTrue' = (stopTrue \/ ok)
  /\ UNCHANGED <<loopVars, sendVars, recvVars, taskVars>>

(* The network delivers replies to requests, and what others send, any     *)
(* number of times, in any order or never; a full buffer drops.  What      *)
(* arrives between socket and the end of Start waits as if it came at its  *)
(* end; if Start fails there, nobody ever reads it.                        *)
Echo(s) == [icmp |-> TRUE, hl |-> 5, len |-> 84, type |-> ICMP_ECHOREPLY, id |-> MyId,
            task |-> s.task, from |-> s.to]

Deliver ==
  /\ started /\ pc # "returned" /\ Len(inbox) < RcvMax
  /\ \E d \in {Echo(s) : s \in sent} \cup Foreign : inbox' = Append(inbox, d)
  /\ UNCHANGED <<loopVars, sendVars, accepted, taskVars, stopVars>>

Drain == /\ ~writable /\ writable' = TRUE
         /\ UNCHANGED <<loopVars, batch, hand, tried, sent, late, ahead, recvVars, taskVars,
                        stopVars>>

-----------------------------------------------------------------------------
MainThread == \/ EventFd \/ Socket \/ SetSockOpt \/ SendRequest \/ Wait
              \/ Poll \/ LoopReturns \/ Shutdown
              \/ HandleSend \/ TryDequeue \/ SendIcmp \/ HandleSendReturns \/ HandleRecv

Next == MainThread \/ OtherThreadPosts \/ Stop \/ Deliver \/ Drain

Spec == Init /\ [][Next]_vars

(* The main thread is scheduled again and again, and the network card      *)
(* empties the send buffer.  Nothing is assumed of the other threads.      *)
FairSpec == Spec /\ WF_vars(MainThread) /\ WF_vars(Drain)

-----------------------------------------------------------------------------
TypeOK ==
  /\ pc \in {"start", "socket", "setsockopt", "post", "loop", "send", "returned"}
  /\ started \in BOOLEAN /\ evOpen \in BOOLEAN /\ loopDone \in BOOLEAN
  /\ watchers \subseteq {"stop", "send", "recv"} /\ pending \subseteq {"stop", "send", "recv"}
  /\ batch \in 0..Batch /\ writable \in BOOLEAN /\ late \in Nat /\ ahead \in Nat
  /\ hand \in Seq([from : Producer, task : Task]) /\ Len(hand) <= 1
  /\ todo \in [Producer -> Seq(Task)] /\ queue \in [Producer -> Seq(Task)]
  /\ posted \in [Producer -> Seq(Task)] /\ tried \in [Producer -> Seq(Task)]
  /\ sent \subseteq [task : Task, to : Addr] /\ accepted \subseteq [task : Task, dst_ip : Addr]
  /\ inbox \in Seq(Datagram)
  /\ evCount \in 0..(EvMax - 1) /\ stops \in 0..MaxStops /\ stopTrue \in BOOLEAN

InHand(p) == IF hand # <<>> /\ hand[1].from = p THEN <<hand[1].task>> ELSE <<>>

(* Between PostTask and sendto (pinger.cc:144-191) no task is lost,        *)
(* duplicated or overtaken by a later one of the same thread: what each    *)
(* thread posted is what was handed to sendto, then the request in hand,   *)
(* then the queue.  It holds whatever Stop and the batch limit cut short.  *)
Delivered == \A p \in Producer : posted[p] = tried[p] \o InHand(p) \o queue[p]

(* ev_break only ends the iteration: callbacks already pending still run   *)
(* (pinger.cc:98-110, 144-153).  At most one batch leaves after it.        *)
LateBounded == late <= Batch

(* Receiving is not held up by sending, however much is posted: while a    *)
(* datagram waits, at most two batches leave before the next recvfrom, one *)
(* of the iteration it arrived in and one of the next, whose callbacks may *)
(* run in either order (pinger.cc:61-63, 148-152).                         *)
RepliesNotHeldUp == ahead <= 2 * Batch

(* While no other process pings with our id, which is only 16 bits of the  *)
(* process id, an accepted reply is for a task this process really sent    *)
(* (icmp.cc:125, pinger.cc:30, 136).                                       *)
IdIsOurs == \A d \in Foreign : ~(d.type = ICMP_ECHOREPLY /\ d.id = MyId)
AcceptedWasSent ==
  IdIsOurs => \A a \in accepted : \E s \in sent : s.task = a.task

(* Unless eventfd failed, the loop of Wait never ends on its own: only     *)
(* after some Stop returned true (pinger.cc:82-110).                       *)
ReturnsOnlyIfStopped == pc = "returned" /\ evOpen => stopTrue

(* A value Stop left in the event descriptor ends the loop, even one left  *)
(* before Wait, and even when Start failed after eventfd (pinger.cc:42-51) *)
StopHonoured == (evCount > 0) ~> (pc = "returned")

(* PostTask wakes nobody: the queue is drained only because the socket is  *)
(* polled for writing for as long as the loop runs (pinger.cc:58, 189).    *)
Queued(t) == \E p \in Producer : \E i \in DOMAIN queue[p] : queue[p][i] = t
PostedIsTried ==
  \A t \in Task : (started /\ Queued(t)) ~> (~Queued(t) \/ pc = "returned")

(* Stop returns true when its write succeeded, and the loop then logs      *)
(* "pinger is stopping..." (pinger.cc:84-89, 109).                         *)
TrueStopHonoured == stopTrue ~> (pc = "returned")

=============================================================================
