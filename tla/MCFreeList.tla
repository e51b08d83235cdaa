----------------------------- MODULE MCFreeList -----------------------------
EXTENDS FreeList
CONSTANTS n1, n2
MCPool == <<n1, n2>>
=============================================================================
