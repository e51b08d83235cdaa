--------------------------- MODULE MCIcmpExchange ---------------------------
(* Boundary values for the exchange.  A datagram the kernel delivers is at *)
(* least as long as its IP header says, and recvfrom cuts it to 512 bytes. *)
EXTENDS IcmpExchange

MCTimes == [sec : {0, 1, 40}, usec : {0, 999, 1000, 999999}]
MCForeign ==
  {d \in [icmp : BOOLEAN, hl : {5, 15}, len : {28, 63, 64, 83, 84, 123, 124, 512},
          type : {0, 3, 8}, id : {MyId, 4242}, own : {FALSE}] : d.len >= 4 * d.hl}
=============================================================================
