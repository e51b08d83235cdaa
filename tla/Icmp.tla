-------------------------------- MODULE Icmp --------------------------------
(***************************************************************************)
(* The pure part of class Icmp (pinger/src/pinger/icmp.{h,cc}): the        *)
(* Internet checksum, the two passes PackIcmpPacket makes with it, the     *)
(* elapsed time TimeDiff computes and the verdict of ParseIcmpPakcet.      *)
(* All widths are the real ones.  A packet is the sequence of its 16-bit   *)
(* words; words that are always zero (code, padding, the high halves of    *)
(* the time stamp) add nothing to any sum and are left out.                *)
(***************************************************************************)
EXTENDS Integers, Sequences, SequencesExt

Word  == 65536                  \* 2^16: uint16_t
SizeT == 2^30                   \* the modulus of size_t, cut down to TLC's integers

ICMP_TOTAL_LEN == 64
ICMP_ECHO      == 8
ICMP_ECHOREPLY == 0

Not16(w) == Word - 1 - w                              \* ~w on 16 bits
Htons(w) == (w % 256) * 256 + (w \div 256)

-----------------------------------------------------------------------------
(* CheckSum *)

Fold[s \in Nat] == IF s < Word THEN s ELSE Fold[(s % Word) + (s \div Word)]

CheckSum(words, csum) ==
  Not16(Fold[FoldLeft(LAMBDA a, b : a + b, csum, words)])

(* What the receiver's IP stack checks: the words sum to all ones.         *)
Verifies(words) == CheckSum(words, 0) = 0

-----------------------------------------------------------------------------
(* PackIcmpPacket: type/code, checksum, id, sequence, then the data words. *)
(* The first pass runs before the time stamp and the task id are written;  *)
(* the second one leaves the first result in the checksum field and        *)
(* cancels it with its complement as initial value.                        *)

Layout(ck, id, seq, data) == <<ICMP_ECHO, ck, id, Htons(seq)>> \o data

Pack_NoComplement(id, seq, data) ==                         \* mutant
  LET first == CheckSum(Layout(0, id, seq, <<>>), 0)
  IN  Layout(CheckSum(Layout(first, id, seq, data), first), id, seq, data)

Pack(id, seq, data) ==
  LET first == CheckSum(Layout(0, id, seq, <<>>), 0)
  IN  Layout(CheckSum(Layout(first, id, seq, data), Not16(first)), id, seq, data)

-----------------------------------------------------------------------------
(* TimeDiff, with C's division, the conversion to uint16_t of its result   *)
(* and the one to int16_t of PingInfo::cost.                               *)

Quot(a, b) == IF a >= 0 THEN a \div b ELSE -((-a) \div b)
Int16(x) == LET w == x % Word IN IF w < Word \div 2 THEN w ELSE w - Word

TimeDiff(recv, send) ==
  IF recv.usec >= send.usec
  THEN Int16((recv.sec - send.sec) * 1000 + Quot(recv.usec - send.usec, 1000))
  ELSE Int16((recv.sec - send.sec - 1) * 1000 + Quot(recv.usec + 1000 - send.usec, 1000))

-----------------------------------------------------------------------------
(* The receive path on a datagram d of d.len bytes whose IP header is      *)
(* d.hl words long: HandleRecv's length test, then ParseIcmpPakcet.  The   *)
(* length of the ICMP part is a size_t and would wrap.                     *)

IcmpLen(d) == (d.len - 4 * d.hl) % SizeT

Parse_NoLengthTest(d, id) ==                                \* mutant
  IF ~d.icmp                                      THEN "failed"
  ELSE IF d.type # ICMP_ECHOREPLY \/ d.id # id    THEN "not_my_pkt"
  ELSE "accepted"

Parse_NoIdTest(d, id) ==                                    \* mutant
  IF ~d.icmp \/ IcmpLen(d) < ICMP_TOTAL_LEN       THEN "failed"
  ELSE IF d.type # ICMP_ECHOREPLY                 THEN "not_my_pkt"
  ELSE "accepted"

Parse_OffByOne(d, id) ==                                    \* mutant
  IF ~d.icmp \/ IcmpLen(d) <= ICMP_TOTAL_LEN      THEN "failed"
  ELSE IF d.type # ICMP_ECHOREPLY \/ d.id # id    THEN "not_my_pkt"
  ELSE "accepted"

ParseIcmpPakcet(d, id) ==
  IF ~d.icmp \/ IcmpLen(d) < ICMP_TOTAL_LEN       THEN "failed"
  ELSE IF d.type # ICMP_ECHOREPLY \/ d.id # id    THEN "not_my_pkt"
  ELSE "accepted"

Receive(d, id) ==
  IF d.len < ICMP_TOTAL_LEN THEN "short" ELSE ParseIcmpPakcet(d, id)
=============================================================================
