--------------------------- MODULE IndexArithmetic ---------------------------
(***************************************************************************)
(* The arithmetic of concurrentqueue.h on index_t, which wraps around, and *)
(* how an index is split into a block and a slot.  Elements are counted    *)
(* without bound elsewhere; Wrap makes an index_t of such a count.         *)
(***************************************************************************)
EXTENDS Integers

CONSTANTS
  BLOCK_SIZE,
  IndexMod     \* 2^w for the w bits of index_t

ASSUME SizeAssumption ==
  /\ BLOCK_SIZE \in Nat \ {0, 1}
  /\ IndexMod \in Nat \ {0} /\ IndexMod % BLOCK_SIZE = 0

Wrap(n) == n % IndexMod
Slot(i) == i % BLOCK_SIZE                                   \* i & (BLOCK_SIZE - 1)
BlockBase(i) == i - Slot(i)                                 \* i & ~(BLOCK_SIZE - 1)
CircularLessThan(a, b) == (a - b) % IndexMod > IndexMod \div 2

(* i - base, divided as the unsigned number that BLOCK_SIZE, a size_t,     *)
(* makes of it; sound while capacities divide IndexMod/BLOCK_SIZE.         *)
Offset(i, base) == ((i - base) % IndexMod) \div BLOCK_SIZE
=============================================================================
