---------------------------- MODULE MCTryDequeue ----------------------------
EXTENDS TryDequeue
=============================================================================
