-------------------------- MODULE MCPoolAllocator --------------------------
(* Instances of PoolAllocator for TLC.                                     *)
EXTENDS PoolAllocator

\* Every address in the buffer, aligned or not, and some on either side of it.
NearBuffer == (-item_size)..(size_max * item_size + 1)
=============================================================================
