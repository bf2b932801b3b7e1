------------------------ MODULE PoolAllocatorProofs ------------------------
(***************************************************************************)
(* The chain of free blocks is sound for every size of the pool and of its *)
(* blocks, whatever its callers offer to give back, and the allocator      *)
(* implements BlockPool.  FreeListIsChain is inductive as it stands: that  *)
(* an entry is DetachedIdx exactly when its block is not in the chain is   *)
(* what lets a release be refused by looking at one entry.                 *)
(***************************************************************************)
EXTENDS PoolAllocator, FiniteSetTheorems, TLAPS

\* That s[1], ..., s[n] are the blocks in the chain from first through f, as
\* facts about positions.
Linked(f, first, n, s) ==
  /\ \A i, j \in 1..n : s[i] = s[j] => i = j
  /\ \A x \in Index : f[x] # DetachedIdx <=> \E i \in 1..n : x = s[i]
  /\ first = IF n = 0 THEN NullIdx ELSE s[1]
  /\ \A i \in 1..n : f[s[i]] = IF i = n THEN NullIdx ELSE s[i + 1]

\* What IsChain says of a state, of any list and head.
Chain(f, first, s) ==
  /\ IsInjective(s)
  /\ ToSet(s) = {x \in Index : f[x] # DetachedIdx}
  /\ first = IF s = <<>> THEN NullIdx ELSE s[1]
  /\ \A i \in 1..Len(s) :
       f[s[i]] = IF i = Len(s) THEN NullIdx ELSE s[i + 1]

LEMMA ChainByPositions ==
  ASSUME NEW f, NEW first, NEW n \in Nat, NEW s \in [1..n -> Index]
  PROVE  Chain(f, first, s) <=> Linked(f, first, n, s)
<1>1. s \in Seq(Index) /\ Len(s) = n /\ DOMAIN s = 1..n
  OBVIOUS
<1>2. s = <<>> <=> n = 0
  BY <1>1
<1>3. ToSet(s) = {s[i] : i \in 1..n}
  BY <1>1 DEF ToSet
<1>4. \A i \in 1..n : s[i] \in Index
  OBVIOUS
<1>5. ToSet(s) = {x \in Index : f[x] # DetachedIdx}
        <=> \A x \in Index : f[x] # DetachedIdx <=> \E i \in 1..n : x = s[i]
  BY <1>3, <1>4
<1> QED
  BY <1>1, <1>2, <1>5 DEF Chain, Linked, IsInjective

\* The invariant in that form, in a state and after a step.
LEMMA ChainIsLinked ==
  ASSUME FreeListIsChain
  PROVE  \E s \in [1..size -> Index] : Linked(free_list, first_idx, size, s)
<1>1. PICK s \in [1..size -> Index] : IsChain(s)
  BY DEF FreeListIsChain
<1>2. Chain(free_list, first_idx, s)
  BY <1>1 DEF IsChain, Chain
<1>3. size \in Nat
  BY SizeAssumption DEF FreeListIsChain, TypeOK
<1>4. Linked(free_list, first_idx, size, s)
  BY <1>2, <1>3, ChainByPositions
<1> QED
  BY <1>4

LEMMA LinkedIsChain ==
  ASSUME TypeOK',
         NEW s \in [1..size' -> Index], Linked(free_list', first_idx', size', s)
  PROVE  FreeListIsChain'
<1>1. size' \in Nat
  BY SizeAssumption DEF TypeOK
<1>2. Chain(free_list', first_idx', s)
  BY <1>1, ChainByPositions
<1>3. \E t \in [1..size' -> Index] : Chain(free_list', first_idx', t)
  BY <1>2
<1> QED
  BY <1>3 DEF FreeListIsChain, IsChain, Chain

\* Every free block has its place in a chain no longer than the pool.
LEMMA ChainFits ==
  ASSUME TypeOK, NEW s \in [1..size -> Index],
         Linked(free_list, first_idx, size, s),
         NEW x \in Index, free_list[x] = DetachedIdx
  PROVE  size < size_max
<1> DEFINE Rest == Index \ {x}
<1>1. size \in Nat /\ size_max \in Nat /\ size_max > 0
  BY SizeAssumption DEF TypeOK
<1>2. s \in Injection(1..size, Rest)
  <2>1. \A i \in 1..size : s[i] \in Rest
    BY DEF Linked
  <2>2. \A i, j \in 1..size : s[i] = s[j] => i = j
    BY DEF Linked
  <2>3. s \in [1..size -> Rest]
    BY <2>1
  <2> QED
    BY <2>2, <2>3 DEF Injection, IsInjective
<1>3. IsFiniteSet(Index) /\ Cardinality(Index) = size_max
  BY <1>1, FS_Interval DEF Index
<1>4. IsFiniteSet(Rest) /\ Cardinality(Rest) = size_max - 1
  BY <1>3, FS_RemoveElement
<1>5. Cardinality(1..size) = size
  BY <1>1, FS_Interval
<1>6. Cardinality(1..size) <= Cardinality(Rest)
  BY <1>2, <1>4, FS_Injection DEF ExistsInjection
<1> QED
  BY <1>1, <1>4, <1>5, <1>6

-----------------------------------------------------------------------------
(* The chain is an invariant                                               *)

LEMMA InitChain == Init => FreeListIsChain
<1> SUFFICES ASSUME Init PROVE FreeListIsChain
  OBVIOUS
<1>1. TypeOK
  BY SizeAssumption DEF Init, TypeOK, Chained, Index, NullIdx, DetachedIdx
<1> DEFINE s == [i \in 1..size |-> i - 1]
<1>2. s \in [1..size -> Index]
  BY SizeAssumption DEF Init, Index
<1>3. Linked(free_list, first_idx, size, s)
  <2>1. size = size_max /\ size_max \in Nat /\ size_max > 0
    BY SizeAssumption DEF Init
  <2>2. \A x \in Index : x + 1 \in 1..size /\ s[x + 1] = x
    BY <2>1 DEF Index
  <2>3. \A x \in Index : free_list[x] # DetachedIdx
    BY <2>1 DEF Init, Chained, Index, NullIdx, DetachedIdx
  <2>4. \A i \in 1..size :
          free_list[s[i]] = IF i = size THEN NullIdx ELSE s[i + 1]
    BY <2>1 DEF Init, Chained, Index
  <2>5. first_idx = IF size = 0 THEN NullIdx ELSE s[1]
    BY <2>1 DEF Init
  <2>6. \A i, j \in 1..size : s[i] = s[j] => i = j
    OBVIOUS
  <2> HIDE DEF s
  <2> QED
    BY <1>2, <2>2, <2>3, <2>4, <2>5, <2>6 DEF Linked
<1> HIDE DEF s
<1>4. Chain(free_list, first_idx, s)
  BY <1>2, <1>3, ChainByPositions, SizeAssumption DEF Init
<1> QED
  BY <1>1, <1>2, <1>4 DEF FreeListIsChain, IsChain, Chain

LEMMA GetBlockKeepsChain ==
  ASSUME FreeListIsChain, GetBlock
  PROVE  FreeListIsChain'
<1>1. TypeOK
  BY DEF FreeListIsChain
<1>2. PICK s \in [1..size -> Index] : Linked(free_list, first_idx, size, s)
  BY ChainIsLinked
<1>3. CASE first_idx = NullIdx
  BY <1>3 DEF GetBlock, FreeListIsChain, TypeOK, IsChain, NullIdx, Index
<1>4. CASE first_idx # NullIdx
  <2> DEFINE r == [i \in 1..(size - 1) |-> s[i + 1]]
  <2>1. /\ size \in Nat /\ size > 0 /\ first_idx = s[1] /\ first_idx \in Index
        /\ size' = size - 1
        /\ first_idx' = free_list[first_idx]
        /\ free_list' = [free_list EXCEPT ![first_idx] = DetachedIdx]
    BY <1>1, <1>2, <1>4, SizeAssumption DEF GetBlock, TypeOK, Linked
  <2>2. /\ \A i, j \in 1..size : s[i] = s[j] => i = j
        /\ \A x \in Index : free_list[x] # DetachedIdx
                              <=> \E i \in 1..size : x = s[i]
        /\ \A i \in 1..size :
             free_list[s[i]] = IF i = size THEN NullIdx ELSE s[i + 1]
    BY <1>2 DEF Linked
  <2>3. TypeOK'
    <3>1. first_idx' \in Index \cup {NullIdx}
      BY <2>1, <2>2
    <3>2. free_list' \in [Index -> Index \cup {NullIdx, DetachedIdx}]
      BY <1>1, <2>1 DEF TypeOK
    <3>3. size' \in 0..size_max
      BY <1>1, <2>1, SizeAssumption DEF TypeOK
    <3> QED
      BY <3>1, <3>2, <3>3 DEF TypeOK
  <2>4. r \in [1..size' -> Index]
    BY <2>1
  <2>5. \A i, j \in 1..size' : r[i] = r[j] => i = j
    BY <2>1, <2>2
  <2>6. ASSUME NEW x \in Index
        PROVE  free_list'[x] # DetachedIdx <=> \E i \in 1..size' : x = r[i]
    <3>1. CASE x = first_idx
      <4>1. free_list'[x] = DetachedIdx
        BY <1>1, <2>1, <3>1 DEF TypeOK
      <4>2. \A i \in 1..size' : r[i] # x
        BY <2>1, <2>2, <3>1
      <4> QED
        BY <4>1, <4>2
    <3>2. CASE x # first_idx
      <4>1. free_list'[x] = free_list[x]
        BY <1>1, <2>1, <3>2 DEF TypeOK
      <4>2. ASSUME NEW i \in 1..size, x = s[i]
            PROVE  i - 1 \in 1..size' /\ x = r[i - 1]
        <5>1. i # 1
          BY <2>1, <3>2, <4>2
        <5> QED
          BY <2>1, <4>2, <5>1
      <4>3. \A i \in 1..size' : r[i] = s[i + 1] /\ i + 1 \in 1..size
        BY <2>1
      <4> HIDE DEF r
      <4>4. (\E i \in 1..size : x = s[i]) <=> \E i \in 1..size' : x = r[i]
        BY <4>2, <4>3
      <4> QED
        BY <4>1, <4>4, <2>2
    <3> QED
      BY <3>1, <3>2
  <2>7. first_idx' = IF size' = 0 THEN NullIdx ELSE r[1]
    BY <2>1, <2>2
  <2>8. ASSUME NEW i \in 1..size'
        PROVE  free_list'[r[i]] = IF i = size' THEN NullIdx ELSE r[i + 1]
    <3>1. i + 1 \in 1..size /\ r[i] = s[i + 1] /\ s[i + 1] \in Index
      BY <2>1
    <3>2. s[i + 1] # first_idx
      BY <2>1, <2>2, <3>1
    <3>3. free_list'[r[i]] = free_list[s[i + 1]]
      BY <1>1, <2>1, <3>1, <3>2 DEF TypeOK
    <3>4. i # size' => i + 1 \in 1..size' /\ r[i + 1] = s[i + 2]
      BY <2>1
    <3> HIDE DEF r
    <3> QED
      BY <2>1, <2>2, <3>1, <3>3, <3>4
  <2> HIDE DEF r
  <2>9. Linked(free_list', first_idx', size', r)
    BY <2>5, <2>6, <2>7, <2>8 DEF Linked
  <2> QED
    BY <2>3, <2>4, <2>9, LinkedIsChain
<1> QED
  BY <1>3, <1>4

LEMMA ReleaseBlockKeepsChain ==
  ASSUME FreeListIsChain, NEW offset \in Int, ReleaseBlock(offset)
  PROVE  FreeListIsChain'
<1> DEFINE idx == offset \div item_size
<1>1. TypeOK
  BY DEF FreeListIsChain
<1>2. PICK s \in [1..size -> Index] : Linked(free_list, first_idx, size, s)
  BY ChainIsLinked
<1>3. CASE Check(offset) # Success
  BY <1>3 DEF ReleaseBlock, FreeListIsChain, TypeOK, IsChain
<1>4. CASE Check(offset) = Success
  <2> DEFINE r == [i \in 1..(size + 1) |-> IF i = 1 THEN idx ELSE s[i - 1]]
  <2>1. idx \in Index /\ free_list[idx] = DetachedIdx
    BY <1>4 DEF Check, Success, Result
  <2>2. /\ first_idx' = idx
        /\ free_list' = [free_list EXCEPT ![idx] = first_idx]
        /\ size' = size + 1
    BY <1>4 DEF ReleaseBlock, Chain_in
  <2> HIDE DEF idx
  <2>3. /\ \A i, j \in 1..size : s[i] = s[j] => i = j
        /\ \A x \in Index : free_list[x] # DetachedIdx
                              <=> \E i \in 1..size : x = s[i]
        /\ first_idx = IF size = 0 THEN NullIdx ELSE s[1]
        /\ \A i \in 1..size :
             free_list[s[i]] = IF i = size THEN NullIdx ELSE s[i + 1]
    BY <1>2 DEF Linked
  <2>4. size \in Nat /\ size < size_max
    BY <1>1, <1>2, <2>1, ChainFits, SizeAssumption DEF TypeOK
  <2>5. TypeOK'
    BY <1>1, <2>1, <2>2, <2>4, SizeAssumption DEF TypeOK
  <2>6. \A i \in 1..size : s[i] \in Index /\ s[i] # idx
    BY <2>1, <2>3
  <2>7. r \in [1..size' -> Index]
    BY <2>1, <2>2, <2>4
  <2>8. /\ r[1] = idx /\ 1 \in 1..size'
        /\ \A i \in 1..size : i + 1 \in 1..size' /\ r[i + 1] = s[i]
        /\ \A i \in 1..size' : i # 1 => i - 1 \in 1..size /\ r[i] = s[i - 1]
    BY <2>2, <2>4
  <2> HIDE DEF r
  <2>9. \A i, j \in 1..size' : r[i] = r[j] => i = j
    <3> SUFFICES ASSUME NEW i \in 1..size', NEW j \in 1..size', r[i] = r[j]
                 PROVE  i = j
      OBVIOUS
    <3>1. CASE i = 1 \/ j = 1
      BY <3>1, <2>6, <2>8
    <3>2. CASE i # 1 /\ j # 1
      <4>1. i - 1 = j - 1
        BY <3>2, <2>3, <2>8
      <4> QED
        BY <4>1, <2>2, <2>4
    <3> QED
      BY <3>1, <3>2
  <2>10. ASSUME NEW x \in Index
         PROVE  free_list'[x] # DetachedIdx <=> \E i \in 1..size' : x = r[i]
    <3>1. CASE x = idx
      <4>1. free_list'[x] # DetachedIdx
        BY <3>1, <1>1, <2>1, <2>2
           DEF TypeOK, Index, NullIdx, DetachedIdx
      <4> QED
        BY <4>1, <3>1, <2>8
    <3>2. CASE x # idx
      <4>1. free_list'[x] = free_list[x]
        BY <3>2, <1>1, <2>2 DEF TypeOK
      <4>2. (\E i \in 1..size : x = s[i]) <=> \E i \in 1..size' : x = r[i]
        BY <3>2, <2>8
      <4> QED
        BY <4>1, <4>2, <2>3
    <3> QED
      BY <3>1, <3>2
  <2>11. ASSUME NEW i \in 1..size'
         PROVE  free_list'[r[i]] = IF i = size' THEN NullIdx ELSE r[i + 1]
    <3>1. CASE i = 1
      <4>1. free_list'[r[i]] = first_idx
        BY <3>1, <1>1, <2>1, <2>2, <2>8 DEF TypeOK
      <4>2. size # 0 => 1 \in 1..size /\ r[1 + 1] = s[1]
        BY <2>4, <2>8
      <4> QED
        BY <4>1, <4>2, <3>1, <2>2, <2>3, <2>4
    <3>2. CASE i # 1
      <4>1. i - 1 \in 1..size /\ r[i] = s[i - 1]
        BY <3>2, <2>8
      <4>2. free_list'[r[i]] = free_list[s[i - 1]]
        BY <4>1, <2>6, <1>1, <2>2 DEF TypeOK
      <4>3. i # size' => i \in 1..size /\ r[i + 1] = s[i]
        BY <2>2, <2>4, <2>8
      <4> QED
        BY <4>1, <4>2, <4>3, <2>2, <2>3, <2>4
    <3> QED
      BY <3>1, <3>2
  <2>12. Linked(free_list', first_idx', size', r)
    BY <2>2, <2>4, <2>8, <2>9, <2>10, <2>11 DEF Linked
  <2> QED
    BY <2>5, <2>7, <2>12, LinkedIsChain
<1> QED
  BY <1>3, <1>4

\* No block is ever lost to the pool or chained twice: getBlock takes the head
\* of the chain, releaseBlock puts in front only what is not in it.
THEOREM ChainHolds == Spec => []FreeListIsChain
<1>1. FreeListIsChain /\ [Next]_vars => FreeListIsChain'
  <2> SUFFICES ASSUME FreeListIsChain, [Next]_vars
               PROVE  FreeListIsChain'
    OBVIOUS
  <2>1. CASE GetBlock
    BY <2>1, GetBlockKeepsChain
  <2>2. CASE \E offset \in Offsets : ReleaseBlock(offset)
    BY <2>2, ReleaseBlockKeepsChain, OffsetAssumption
  <2>3. CASE UNCHANGED vars
    BY <2>3 DEF vars, FreeListIsChain, TypeOK, IsChain
  <2> QED
    BY <2>1, <2>2, <2>3 DEF Next
<1> QED
  BY <1>1, InitChain, PTL DEF Spec

-----------------------------------------------------------------------------
(* The allocator implements BlockPool                                      *)

\* A block's address tells which block it is, and an aligned offset is the
\* address of the block that the division finds.
LEMMA AddressOfBlock ==
  ASSUME NEW i \in Int
  PROVE  /\ Address(i) \in Int
         /\ Address(i) % item_size = 0
         /\ Address(i) \div item_size = i
  BY SizeAssumption DEF Address

LEMMA BlockAtAddress ==
  ASSUME NEW offset \in Int, offset % item_size = 0
  PROVE  offset = Address(offset \div item_size)
  BY SizeAssumption DEF Address

LEMMA AddressesDiffer ==
  ASSUME NEW i \in Int, NEW j \in Int, Address(i) = Address(j)
  PROVE  i = j
  BY AddressOfBlock

\* The blocks in use, after one entry of free_list is set.
LEMMA GetIsGet ==
  ASSUME FreeListIsChain, GetBlock
  PROVE  Pool!Get
<1>1. TypeOK
  BY DEF FreeListIsChain
<1>2. PICK s \in [1..size -> Index] : Linked(free_list, first_idx, size, s)
  BY ChainIsLinked
<1>3. size \in Nat /\ \A i \in Index : i \in Int
  BY <1>1, SizeAssumption DEF TypeOK, Index
<1>4. CASE first_idx = NullIdx
  <2>1. size = 0
    BY <1>2, <1>3, <1>4 DEF Linked, Index, NullIdx
  <2>2. \A i \in Index : free_list[i] = DetachedIdx
    BY <1>2, <2>1 DEF Linked
  <2>3. Detached = Index /\ Detached' = Detached /\ answer' = Null
    BY <1>4, <2>2 DEF GetBlock, Detached
  <2> QED
    BY <2>3 DEF Pool!Get
<1>5. CASE first_idx # NullIdx
  <2>1. /\ first_idx \in Index
        /\ free_list[first_idx] # DetachedIdx
    BY <1>1, <1>2, <1>3, <1>5 DEF TypeOK, Linked
  <2>2. /\ free_list' = [free_list EXCEPT ![first_idx] = DetachedIdx]
        /\ answer' = [block |-> Address(first_idx)]
    BY <1>5 DEF GetBlock
  <2>3. Detached' = Detached \cup {first_idx}
    BY <1>1, <2>1, <2>2 DEF TypeOK, Detached
  <2>4. Address(first_idx) \notin {Address(i) : i \in Detached}
    BY <2>1, <1>3, AddressesDiffer DEF Detached
  <2>5. {Address(i) : i \in Detached}'
          = {Address(i) : i \in Detached} \cup {Address(first_idx)}
    BY <2>3 DEF Address
  <2> QED
    BY <2>1, <2>2, <2>4, <2>5 DEF Pool!Get
<1> QED
  BY <1>4, <1>5

LEMMA ReleaseIsRelease ==
  ASSUME FreeListIsChain, NEW offset \in Int, ReleaseBlock(offset)
  PROVE  Pool!Release(offset)
<1> DEFINE idx == offset \div item_size
<1>1. TypeOK
  BY DEF FreeListIsChain
<1>2. \A i \in Index : i \in Int
  BY DEF Index
<1>3. CASE Check(offset) = Success
  <2>1. idx \in Index /\ free_list[idx] = DetachedIdx /\ offset % item_size = 0
    BY <1>3 DEF Check, Success, Result
  <2>2. offset = Address(idx)
    BY <2>1, BlockAtAddress
  <2>3. answer' = Success /\ free_list' = [free_list EXCEPT ![idx] = first_idx]
    BY <1>3 DEF ReleaseBlock, Chain_in
  <2> HIDE DEF idx
  <2>4. Detached' = Detached \ {idx} /\ idx \in Detached
    BY <1>1, <2>1, <2>3 DEF TypeOK, Detached, Index, NullIdx, DetachedIdx
  <2>5. {Address(i) : i \in Detached}'
          = {Address(i) : i \in Detached} \ {Address(idx)}
    <3>1. \A i \in Detached : i # idx => Address(i) # Address(idx)
      BY <1>2, <2>1, AddressesDiffer DEF Detached
    <3> QED
      BY <2>4, <3>1 DEF Address
  <2>6. offset \in {Address(i) : i \in Detached}
    BY <2>2, <2>4
  <2> QED
    BY <2>2, <2>3, <2>5, <2>6 DEF Pool!Release
<1>4. CASE Check(offset) # Success
  <2>1. /\ answer' = Check(offset) /\ Detached' = Detached
    BY <1>4 DEF ReleaseBlock, Detached
  <2>2. Check(offset) \in Refusals
    BY <1>4 DEF Check, Refusals, Success
  <2>3. offset \notin {Address(i) : i \in Detached}
    <3> SUFFICES ASSUME NEW i \in Detached, offset = Address(i) PROVE FALSE
      OBVIOUS
    <3>1. offset % item_size = 0 /\ idx = i /\ i \in Index
      BY <1>2, AddressOfBlock DEF Detached
    <3> QED
      BY <1>4, <3>1 DEF Check, Success, Detached
  <2> QED
    BY <2>1, <2>2, <2>3 DEF Pool!Release, Address
<1> QED
  BY <1>3, <1>4

\* Every step of the allocator is a step of the pool that its callers rely on:
\* a block is handed out to one caller at a time and taken back once, and an
\* allocation fails only when every block is handed out.
THEOREM PoolImplementsBlockPool == Spec => ImplementsBlockPool
<1>1. Init => Pool!Init
  <2> SUFFICES ASSUME Init PROVE Pool!Init
    OBVIOUS
  <2>1. \A i \in Index : free_list[i] # DetachedIdx
    BY SizeAssumption DEF Init, Chained, Index, NullIdx, DetachedIdx
  <2>2. Detached = {}
    BY <2>1 DEF Detached
  <2> QED
    BY <2>2 DEF Init, Pool!Init
<1>2. FreeListIsChain /\ [Next]_vars
        => [Pool!Next]_<<{Address(i) : i \in Detached}, answer>>
  <2> SUFFICES ASSUME FreeListIsChain, [Next]_vars
               PROVE  [Pool!Next]_<<{Address(i) : i \in Detached}, answer>>
    OBVIOUS
  <2>1. CASE GetBlock
    BY <2>1, GetIsGet DEF Pool!Next
  <2>2. CASE \E offset \in Offsets : ReleaseBlock(offset)
    BY <2>2, ReleaseIsRelease, OffsetAssumption DEF Pool!Next
  <2>3. CASE UNCHANGED vars
    BY <2>3 DEF vars, Detached, Address
  <2> QED
    BY <2>1, <2>2, <2>3 DEF Next
<1> QED
  BY <1>1, <1>2, ChainHolds, PTL DEF Spec, ImplementsBlockPool, Pool!Spec
=============================================================================
