---------------------------- MODULE IcmpExchange ----------------------------
(***************************************************************************)
(* One echo exchange at a time, with the real arithmetic of module Icmp:   *)
(* SendIcmp packs a request stamped with the time of day, the pinged host  *)
(* verifies and echoes it behind an IP header of any length, time passes,  *)
(* and HandleRecv parses the datagram.  The raw socket also receives every *)
(* other ICMP datagram of the machine, of any length.                      *)
(***************************************************************************)
EXTENDS Icmp

CONSTANTS MyId,       \* icmp_id_: the process id cut to 16 bits
          Times,      \* readings of gettimeofday: records of seconds and microseconds
          Seqs,       \* sequence numbers
          TaskIds,    \* task ids (their low word)
          HdrWords,   \* lengths of the IP header of a reply, in 32-bit words
          Foreign     \* datagrams that answer no request of this process

None == [verdict |-> "none"]

Later(s, t) == s.sec < t.sec \/ (s.sec = t.sec /\ s.usec <= t.usec)
Elapsed(s, t) == ((t.sec - s.sec) * 1000000 + (t.usec - s.usec)) \div 1000

VARIABLES now,        \* the time of day
          request,    \* the last request packed: its words, time and task; or None
          inbox,      \* the datagrams the socket holds
          result      \* what HandleRecv made of the last datagram

vars == <<now, request, inbox, result>>

Init == /\ now \in Times
        /\ request = None
        /\ inbox = {}
        /\ result = None

(* SendIcmp up to sendto: the data are the time stamp and the task id.     *)
SendIcmp(seq, task) ==
  /\ request = None
  /\ request' = [words |-> Pack(MyId, seq, <<now.sec % Word, now.usec % Word,
                                              now.usec \div Word, task>>),
                 sent |-> now, task |-> task, verdict |-> "sent"]
  /\ UNCHANGED <<now, inbox, result>>

(* The host drops a request whose checksum is wrong; otherwise it returns  *)
(* the same 64 bytes with the type of a reply.                             *)
EchoReply(hl) ==
  /\ request # None /\ inbox = {} /\ result = None
  /\ Verifies(request.words)
  /\ inbox' = {[icmp |-> TRUE, hl |-> hl, len |-> 4 * hl + ICMP_TOTAL_LEN,
                type |-> ICMP_ECHOREPLY, id |-> request.words[3], own |-> TRUE]}
  /\ UNCHANGED <<now, request, result>>

Arrive(d) ==
  /\ inbox = {} /\ result = None
  /\ inbox' = {d}
  /\ UNCHANGED <<now, request, result>>

(* HandleRecv: one datagram; cost only exists when it is accepted, and is  *)
(* computed from the time stamp the datagram carries.                      *)
HandleRecv ==
  \E d \in inbox :
    LET v == Receive(d, MyId)
    IN  /\ result' = [verdict |-> v, dgram |-> d,
                      cost |-> IF v = "accepted" /\ d.own
                               THEN TimeDiff(now, request.sent) ELSE 0]
        /\ inbox' = {}
        /\ UNCHANGED <<now, request>>

Tick == /\ \E t \in Times : Later(now, t) /\ t # now /\ now' = t
        /\ result = None
        /\ UNCHANGED <<request, inbox, result>>

Next == \/ \E seq \in Seqs, task \in TaskIds : SendIcmp(seq, task)
        \/ \E hl \in HdrWords : EchoReply(hl)
        \/ \E d \in Foreign : Arrive(d)
        \/ HandleRecv
        \/ Tick

Spec == Init /\ [][Next]_vars

-----------------------------------------------------------------------------
(* The two passes of PackIcmpPacket (icmp.cc:96, 106) together leave a     *)
(* checksum the pinged host accepts, whatever the id, sequence number,     *)
(* time stamp and task id are.                                             *)
RequestVerifies == request # None => Verifies(request.words)

(* Every field ParseIcmpPakcet reads of an accepted datagram lies inside   *)
(* it: header, ICMP header, time stamp and task id (icmp.cc:114-139).      *)
ReadsInBounds ==
  result.verdict = "accepted" => 4 * result.dgram.hl + 8 + 16 + 8 <= result.dgram.len

(* The reply to our own request is accepted, whatever options its IP       *)
(* header carries: none of the length tests is off by one.                 *)
OwnReplyAccepted ==
  result # None /\ result.dgram.own => result.verdict = "accepted"

(* icmp.cc:143 logs cost as the milliseconds of the ping: it should be     *)
(* the elapsed time for every pair of times less than 32 s apart.          *)
CostIsElapsed ==
  (result.verdict = "accepted" /\ result.dgram.own) =>
     (Elapsed(request.sent, now) < Word \div 2
        => result.cost = Elapsed(request.sent, now))
=============================================================================
