------------------------------ MODULE FreePool ------------------------------
(***************************************************************************)
(* What the owner of the blocks promises its callers: a block is with one  *)
(* thread or in the pool, a thread gives back a block it holds, and is     *)
(* only ever given one that is in the pool.                                *)
(***************************************************************************)
CONSTANTS Thread, Node, Pool

VARIABLE holder

Init == holder \in [Node -> Thread \cup {Pool}]

Release(t, n) == holder[n] = t /\ holder' = [holder EXCEPT ![n] = Pool]
Acquire(t, n) == holder[n] = Pool /\ holder' = [holder EXCEPT ![n] = t]

Next == \E t \in Thread, n \in Node : Release(t, n) \/ Acquire(t, n)

Spec == Init /\ [][Next]_holder
=============================================================================
