------------------------------ MODULE MCPinger ------------------------------
(* Two posting threads; task 2's address does not parse.                   *)
EXTENDS Pinger

CONSTANTS main, worker, a1, a2, bad

MCScript == (main :> <<0, 1>>) @@ (worker :> <<2>>)
MCIp == (0 :> a1) @@ (1 :> a2) @@ (2 :> bad)

(* Besides the answers, replies to another process arrive.                 *)
Dgram(hl, len, type, id) ==
  [icmp |-> TRUE, hl |-> hl, len |-> len, type |-> type, id |-> id, task |-> 0, from |-> a2]
MCOneForeign == {Dgram(5, 84, ICMP_ECHOREPLY, 2)}

(* For the run that refutes TrueStopHonoured.                              *)
MCShortScript == (main :> <<0>>) @@ (worker :> <<2>>)
=============================================================================
