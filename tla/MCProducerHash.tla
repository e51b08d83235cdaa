--------------------------- MODULE MCProducerHash ---------------------------
(* The first two threads collide in every table.                           *)
EXTENDS ProducerHash, TLC
CONSTANTS t1, t2, t3
MCHash == (t1 :> 1) @@ (t2 :> 1) @@ (t3 :> 0)
=============================================================================
