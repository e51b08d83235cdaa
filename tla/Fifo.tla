-------------------------------- MODULE Fifo --------------------------------
(***************************************************************************)
(* What one producer's sub-queue promises: elements, put one or several at *)
(* a time, are claimed in the order they were put, one or several at a     *)
(* time, each by one consumer, who then receives those very elements in    *)
(* that order (or, when a move assignment throws, the first of them).      *)
(***************************************************************************)
EXTENDS Integers, Sequences, SequencesExt

CONSTANTS Consumer, Element

VARIABLES queue,       \* elements nobody has claimed
          claimed,     \* claimed[c]: the elements c is still fetching
          received,    \* received[c]: what the call of c under way has got
          thrown       \* thrown[c]: whether that call has lost an element

vars == <<queue, claimed, received, thrown>>

Init ==
  /\ queue = <<>>
  /\ claimed = [c \in Consumer |-> <<>>] /\ received = [c \in Consumer |-> <<>>]
  /\ thrown = [c \in Consumer |-> FALSE]

Put == /\ IsStrictPrefix(queue, queue') /\ queue' \in Seq(Element)
       /\ UNCHANGED <<claimed, received, thrown>>

Claim(c) == /\ claimed[c] = <<>> /\ received[c] = <<>> /\ ~thrown[c]
            /\ \E n \in 1..Len(queue) :
                 /\ claimed' = [claimed EXCEPT ![c] = SubSeq(queue, 1, n)]
                 /\ queue' = SubSeq(queue, n + 1, Len(queue))
            /\ UNCHANGED <<received, thrown>>

(* The next n elements; all after the first k of them are lost.            *)
Receive(c) == \E n \in 1..Len(claimed[c]), k \in 0..Len(claimed[c]) :
                /\ k <= n /\ (thrown[c] => k = 0)
                /\ received' = [received EXCEPT ![c] = @ \o SubSeq(claimed[c], 1, k)]
                /\ claimed' = [claimed EXCEPT ![c] = SubSeq(@, n + 1, Len(@))]
                /\ thrown' = [thrown EXCEPT ![c] = @ \/ k < n]
                /\ UNCHANGED queue

Return(c) == /\ claimed[c] = <<>>
             /\ received' = [received EXCEPT ![c] = <<>>]
             /\ thrown' = [thrown EXCEPT ![c] = FALSE]
             /\ UNCHANGED <<queue, claimed>>

Next == Put \/ \E c \in Consumer : Claim(c) \/ Receive(c) \/ Return(c)

Spec == Init /\ [][Next]_vars
=============================================================================
