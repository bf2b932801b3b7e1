--------------------------- MODULE PoolAllocator ---------------------------
(***************************************************************************)
(* pool_allocator.c: a pool of blocks of equal size whose free blocks are  *)
(* chained through the array free_list.  An entry of free_list is the      *)
(* index of the next free block, NullIdx at the end of the chain, or       *)
(* DetachedIdx when the block is handed out.  Addresses are offsets from   *)
(* the start of the buffer, as PoolAllocator_releaseBlock computes them.   *)
(*                                                                         *)
(* PCBs, PCBPtrs, timers, resources, descriptors, message queues, messages *)
(* and texts all come from such pools.                                     *)
(***************************************************************************)
EXTENDS Integers, Sequences, FiniteSets, SequencesExt

CONSTANTS size_max,    \* number of blocks (num_items)
          item_size,   \* size of a block in bytes
          Offsets      \* offsets that callers may offer to releaseBlock

ASSUME SizeAssumption == size_max \in Nat \ {0} /\ item_size \in Nat \ {0}
ASSUME OffsetAssumption == Offsets \subseteq Int

VARIABLES free_list, first_idx,
          size,        \* number of free blocks
          answer       \* what the last call returned

vars == <<free_list, first_idx, size, answer>>

NullIdx     == -1
DetachedIdx == -2
Index == 0..(size_max - 1)

\* A call returns a pointer to a block or one of these results.
Result(r) == [result |-> r]
Null     == Result("null")
Success  == Result("Success")
Refusals == {Result(r) : r \in {"UnalignedFree", "OutOfRange", "DoubleFree"}}

\* PoolAllocator_init: each block is chained to the next one.
Chained_short == [i \in Index |-> IF i < size_max - 2 THEN i + 1 ELSE NullIdx]
Chained == [i \in Index |-> IF i < size_max - 1 THEN i + 1 ELSE NullIdx]

Init ==
  /\ free_list = Chained
  /\ first_idx = 0
  /\ size = size_max
  /\ answer = Null

\* PoolAllocator_getBlock: the address of the first free block.
Address(i) == i * item_size

GetBlock ==
  \/ /\ first_idx = NullIdx
     /\ answer' = Null
     /\ UNCHANGED <<free_list, first_idx, size>>
  \/ /\ first_idx # NullIdx
     /\ first_idx' = free_list[first_idx]
     /\ size' = size - 1
     /\ free_list' = [free_list EXCEPT ![first_idx] = DetachedIdx]
     /\ answer' = [block |-> Address(first_idx)]

\* The checks of PoolAllocator_releaseBlock, in their order.
Check_free_only(offset) ==
  LET idx == offset \div item_size
  IN  Result(IF offset % item_size # 0 THEN "UnalignedFree"
             ELSE IF idx \notin Index THEN "OutOfRange" ELSE "Success")
Check(offset) ==
  LET idx == offset \div item_size
  IN  Result(CASE offset % item_size # 0                      -> "UnalignedFree"
               [] offset % item_size = 0 /\ idx \notin Index  -> "OutOfRange"
               [] offset % item_size = 0 /\ idx \in Index
                  /\ free_list[idx] # DetachedIdx             -> "DoubleFree"
               [] OTHER                                       -> "Success")

\* The released block becomes the first one of the chain.
Chain_in(idx) == free_list' = [free_list EXCEPT ![idx] = first_idx]

ReleaseBlock(offset) ==
  LET idx == offset \div item_size
  IN  /\ answer' = Check(offset)
      /\ \/ /\ Check(offset) # Success
            /\ UNCHANGED <<free_list, first_idx, size>>
         \/ /\ Check(offset) = Success
            /\ Chain_in(idx)
            /\ first_idx' = idx
            /\ size' = size + 1

Next == GetBlock \/ \E offset \in Offsets : ReleaseBlock(offset)

Spec == Init /\ [][Next]_vars

-----------------------------------------------------------------------------
\* Every entry and counter of a pool holds values of its kind.
TypeOK ==
  /\ free_list \in [Index -> Index \cup {NullIdx, DetachedIdx}]
  /\ first_idx \in Index \cup {NullIdx}
  /\ size \in 0..size_max

\* The free blocks in the order in which they will be handed out.
IsChain(s) ==
  /\ IsInjective(s)
  /\ ToSet(s) = {i \in Index : free_list[i] # DetachedIdx}
  /\ first_idx = IF s = <<>> THEN NullIdx ELSE s[1]
  /\ \A i \in 1..Len(s) :
       free_list[s[i]] = IF i = Len(s) THEN NullIdx ELSE s[i + 1]

\* From first_idx the chain runs through all blocks that are not handed out,
\* each once, and ends; size counts them.  No block is lost to the pool and no
\* block can be handed out twice.
FreeListIsChain ==
  /\ TypeOK
  /\ \E s \in [1..size -> Index] : IsChain(s)

\* The pool as its callers see it.
Detached == {i \in Index : free_list[i] = DetachedIdx}

Pool == INSTANCE BlockPool WITH Block    <- {Address(i) : i \in Index},
                                Anything <- Offsets,
                                None     <- Null,
                                Success  <- Success,
                                Refusals <- Refusals,
                                used     <- {Address(i) : i \in Detached}

\* Blocks are handed out to one caller at a time and taken back once, and an
\* allocation fails only when there is no free block.
ImplementsBlockPool == Pool!Spec
=============================================================================
