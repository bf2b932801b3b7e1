--------------------------- MODULE TextPoolProofs ---------------------------
(***************************************************************************)
(* What the texts and the allocator do to each other's bytes, for every    *)
(* size of block, entry and pool and every set of lengths.                 *)
(*                                                                         *)
(* Both rest on where the bytes are.  A text begins behind the beginnings  *)
(* of all the texts before it; and a text that runs into free_list stops   *)
(* short of the entries of the blocks behind it, because an entry is no    *)
(* longer than a block: the text passes one entry for each block it has    *)
(* between itself and free_list, at the most.                              *)
(***************************************************************************)
EXTENDS TextPool, TLAPS

\* Blocks are handed out in order, and a message is where its number says.
InOrder ==
  /\ first_idx = IF written < MAX_NUM_MESSAGES THEN written ELSE NullIdx
  /\ \A m \in unread : m.id <= written /\ m.txt = Address(m.id - 1)

TInv == AllocatorKnowsNext /\ HeadsKept /\ LastTextWhole /\ InOrder

-----------------------------------------------------------------------------
(* Where things are                                                        *)

LEMMA TimesGrows ==
  ASSUME NEW t \in Nat, NEW i \in Nat, NEW j \in Nat, i <= j
  PROVE  t * i \in Nat /\ t * j \in Nat /\ t * i <= t * j
<1>1. PICK d \in Nat : j = i + d
  <2>1. j - i \in Nat /\ j = i + (j - i)
    OBVIOUS
  <2> QED
    BY <2>1
<1>2. t * j = t * i + t * d
  BY <1>1
<1>3. t * d \in Nat /\ t * i \in Nat
  OBVIOUS
<1> QED
  BY <1>2, <1>3

LEMMA SizesAreNumbers ==
  /\ FreeList \in Nat /\ BufferSize \in Nat
  /\ BufferSize = FreeList + INT_SIZE * MAX_NUM_MESSAGES
  /\ INT_SIZE * MAX_NUM_MESSAGES \in Nat
  /\ TEXT_SIZE \in Nat /\ INT_SIZE \in Nat /\ 0 < INT_SIZE /\ 0 < TEXT_SIZE
  /\ MAX_NUM_MESSAGES \in Nat /\ 0 < MAX_NUM_MESSAGES
BY TextAssumption DEF FreeList, BufferSize, TEXT_MEM_SIZE

\* Block i ends where block i + 1 begins, before free_list.
LEMMA BlocksAreInFront ==
  ASSUME NEW i \in 0..(MAX_NUM_MESSAGES - 1)
  PROVE  /\ Address(i) \in Nat
         /\ Address(i + 1) = Address(i) + TEXT_SIZE
         /\ Address(i + 1) <= FreeList
<1>1. i \in Nat /\ i + 1 \in Nat /\ i + 1 <= MAX_NUM_MESSAGES
  BY SizesAreNumbers
<1>2. TEXT_SIZE * i \in Nat /\ TEXT_SIZE * (i + 1) = TEXT_SIZE * i + TEXT_SIZE
  BY <1>1, SizesAreNumbers
<1>3. TEXT_SIZE * (i + 1) <= TEXT_SIZE * MAX_NUM_MESSAGES
  BY <1>1, SizesAreNumbers, TimesGrows
<1> QED
  BY <1>2, <1>3 DEF Address, FreeList

LEMMA BlocksAreInOrder ==
  ASSUME NEW i \in Nat, NEW j \in Nat, i <= j
  PROVE  Address(i) \in Nat /\ Address(j) \in Nat /\ Address(i) <= Address(j)
BY TimesGrows, SizesAreNumbers DEF Address

\* However far a text of a legal length reaches from block w, and whatever is
\* cleared for it, that is inside the buffer and in front of the entries of the
\* blocks behind w.
LEMMA TextsEndInTime ==
  ASSUME NEW w \in 0..(MAX_NUM_MESSAGES - 1), NEW len \in Nat, Accepted(len)
  PROVE  /\ Address(w) + len < BufferSize
         /\ \A i \in (w + 1)..(MAX_NUM_MESSAGES - 1) : \A a \in EntryBytes(i) :
              /\ Address(w) + len < a
              /\ Address(w) + TEXT_MEM_SIZE <= a
<1> DEFINE T == TEXT_SIZE
           I == INT_SIZE
           M == MAX_NUM_MESSAGES
           r == M - (w + 1)
<1>1. /\ T \in Nat /\ I \in Nat /\ M \in Nat /\ w \in Nat /\ r \in Nat
      /\ I <= T /\ 0 < I /\ M = (w + 1) + r
  BY SizesAreNumbers, TextAssumption
<1>2. len < T + I * M /\ I * M \in Nat
  BY TextAssumption, <1>1 DEF Accepted
<1>3. /\ T * M = T * w + T + T * r
      /\ I * M = I * (w + 1) + I * r
  BY <1>1
<1>4. T * w \in Nat /\ T * r \in Nat /\ I * (w + 1) \in Nat /\ I * r \in Nat
  BY <1>1
<1>5. I * r <= T * r
  <2>1. r * I <= r * T
    BY <1>1, TimesGrows
  <2> QED
    BY <2>1, <1>1
<1>6. I * (w + 1) >= I
  BY <1>1
<1>7. Address(w) + len < BufferSize
  <2>1. T * w + len < T * M + I * M
    BY <1>1, <1>2, <1>3, <1>4
  <2> QED
    BY <2>1, SizesAreNumbers DEF Address, FreeList
<1>8. ASSUME NEW i \in (w + 1)..(M - 1), NEW a \in EntryBytes(i)
      PROVE  Address(w) + len < a /\ Address(w) + TEXT_MEM_SIZE <= a
  <2>1. i \in Nat /\ w + 1 <= i /\ a \in Int /\ FreeList + I * i <= a
    BY <1>1, <1>8, SizesAreNumbers DEF EntryBytes
  <2>2. I * (w + 1) <= I * i /\ I * i \in Nat
    BY <1>1, <2>1, TimesGrows
  <2>3. T * M + I * (w + 1) <= a
    BY <2>1, <2>2, <1>4, <1>1 DEF FreeList
  <2>4. T * w + len < T * M + I * (w + 1)
    BY <1>1, <1>2, <1>3, <1>4, <1>5
  <2>5. T * w + (T + I) <= T * M + I * (w + 1)
    BY <1>1, <1>3, <1>4, <1>6
  <2> QED
    BY <1>2, <1>1, <1>4, <2>1, <2>3, <2>4, <2>5 DEF Address, TEXT_MEM_SIZE
<1> QED
  BY <1>7, <1>8

LEMMA EntriesAreInTheBuffer ==
  ASSUME NEW i \in 0..(MAX_NUM_MESSAGES - 1)
  PROVE  \A a \in EntryBytes(i) : a \in Byte /\ FreeList <= a
<1>1. i \in Nat /\ i + 1 \in Nat /\ i + 1 <= MAX_NUM_MESSAGES
  BY SizesAreNumbers
<1>2. INT_SIZE * i \in Nat /\ INT_SIZE * (i + 1) \in Nat
  BY <1>1, SizesAreNumbers
<1>3. INT_SIZE * (i + 1) <= INT_SIZE * MAX_NUM_MESSAGES
  BY <1>1, SizesAreNumbers, TimesGrows
<1> QED
  BY <1>2, <1>3, SizesAreNumbers DEF EntryBytes, Byte

-----------------------------------------------------------------------------
(* What Message_alloc does to the buffer                                   *)

Value == {ENTRY, NUL} \cup ((1..MAX_NUM_MESSAGES) \X Nat)

\* The text is there, what is in front of it is as it was, and the entries of
\* the blocks behind it are.
LEMMA TextIsPutDown ==
  ASSUME NEW mem \in [Byte -> Value], NEW w \in 0..(MAX_NUM_MESSAGES - 1),
         NEW len \in Nat, Accepted(len), NEW new,
         new = Copied(Cleared(Detached(mem, w), Address(w)), Address(w), w + 1, len)
  PROVE  /\ new \in [Byte -> Value]
         /\ \A k \in 0..len : /\ Address(w) + k \in Byte
                             /\ new[Address(w) + k] = TextByte(w + 1, len, k)
         /\ \A a \in Byte : a < Address(w) => new[a] = mem[a]
         /\ \A i \in (w + 1)..(MAX_NUM_MESSAGES - 1) : \A a \in EntryBytes(i) :
              new[a] \in {mem[a], ENTRY}
<1> DEFINE txt == Address(w)
           m1 == Detached(mem, w)
           m2 == Cleared(m1, txt)
<1>1. /\ txt \in Nat /\ w \in Nat /\ txt + len < BufferSize /\ BufferSize \in Nat
      /\ txt < FreeList /\ FreeList \in Nat
  <2>1. txt \in Nat /\ Address(w + 1) = txt + TEXT_SIZE /\ Address(w + 1) <= FreeList
    BY BlocksAreInFront
  <2> QED
    BY <2>1, TextsEndInTime, SizesAreNumbers
<1>2. /\ m1 = [a \in Byte |-> IF a \in EntryBytes(w) THEN ENTRY ELSE mem[a]]
      /\ m2 = [a \in Byte |-> IF a \in txt..(txt + TEXT_MEM_SIZE - 1) THEN NUL
                              ELSE m1[a]]
      /\ new = [a \in Byte |-> IF a \in txt..(txt + len)
                               THEN TextByte(w + 1, len, a - txt) ELSE m2[a]]
  BY DEF Detached, Cleared, Copied
<1> HIDE DEF m1, m2, txt
<1>3. m1 \in [Byte -> Value] /\ m2 \in [Byte -> Value]
  BY <1>2 DEF Value
<1>4. ASSUME NEW k \in 0..len PROVE TextByte(w + 1, len, k) \in Value
  <2>1. w + 1 \in 1..MAX_NUM_MESSAGES /\ k \in Nat
    BY SizesAreNumbers
  <2> QED
    BY <2>1 DEF TextByte, Char, Value
<1>5. new \in [Byte -> Value]
  <2>1. ASSUME NEW a \in Byte, a \in txt..(txt + len) PROVE a - txt \in 0..len
    BY <1>1, <2>1
  <2> QED
    BY <1>2, <1>3, <1>4, <2>1
<1>6. ASSUME NEW k \in 0..len
      PROVE  txt + k \in Byte /\ new[txt + k] = TextByte(w + 1, len, k)
  <2>1. txt + k \in Byte /\ txt + k \in txt..(txt + len) /\ (txt + k) - txt = k
    BY <1>1 DEF Byte
  <2> QED
    BY <1>2, <2>1
<1>7. ASSUME NEW a \in Byte, a < txt PROVE new[a] = mem[a]
  <2>1. a \in Nat /\ a \notin txt..(txt + len)
        /\ a \notin txt..(txt + TEXT_MEM_SIZE - 1)
    BY <1>1, <1>7 DEF Byte
  <2>2. a \notin EntryBytes(w)
    BY <1>1, <1>7, <2>1, EntriesAreInTheBuffer
  <2> QED
    BY <1>2, <2>1, <2>2
<1>8. ASSUME NEW i \in (w + 1)..(MAX_NUM_MESSAGES - 1), NEW a \in EntryBytes(i)
      PROVE  new[a] \in {mem[a], ENTRY}
  <2>1. i \in 0..(MAX_NUM_MESSAGES - 1)
    BY SizesAreNumbers
  <2>2. a \in Byte
    BY <2>1, EntriesAreInTheBuffer
  <2>3. txt + len < a /\ txt + TEXT_MEM_SIZE <= a
    BY <1>8, TextsEndInTime DEF txt
  <2>4. a \notin txt..(txt + len) /\ a \notin txt..(txt + TEXT_MEM_SIZE - 1)
    BY <1>1, <2>2, <2>3, SizesAreNumbers DEF Byte, TEXT_MEM_SIZE
  <2> QED
    BY <1>2, <2>2, <2>4
<1> QED
  BY <1>5, <1>6, <1>7, <1>8 DEF txt

-----------------------------------------------------------------------------
(* The steps                                                               *)

LEMMA InitSound == Init => TInv
<1> SUFFICES ASSUME Init PROVE TInv
  OBVIOUS
<1>1. memory \in [Byte -> Value]
  BY DEF Init, Value
<1>2. TypeOK
  BY <1>1, SizesAreNumbers DEF Init, TypeOK, Value
<1>3. \A i \in first_idx..(MAX_NUM_MESSAGES - 1) : Intact(i)
  <2> SUFFICES ASSUME NEW i \in 0..(MAX_NUM_MESSAGES - 1), NEW a \in EntryBytes(i)
               PROVE  memory[a] = ENTRY
    BY DEF Init, Intact
  <2>1. a \in Byte /\ FreeList <= a
    BY EntriesAreInTheBuffer
  <2> QED
    BY <2>1, SizesAreNumbers DEF Init, Byte
<1> QED
  BY <1>2, <1>3, SizesAreNumbers
     DEF Init, TInv, AllocatorKnowsNext, HeadsKept, LastTextWhole, InOrder

\* A text is put down behind the beginnings of the others, and is the last.
LEMMA WritingKeeps ==
  ASSUME TInv, NEW len \in Nat, Accepted(len), first_idx # NullIdx,
         Message_alloc(len), machine = "up"
  PROVE  TInv'
<1> DEFINE M == MAX_NUM_MESSAGES
           w == written
           new == [id |-> w + 1, txt |-> Address(w), len |-> len]
<1>1. /\ w \in 0..(M - 1) /\ w \in Nat /\ first_idx = w
      /\ memory \in [Byte -> Value]
      /\ unread \subseteq [id : 1..M, txt : Byte, len : Nat]
  BY SizesAreNumbers DEF TInv, AllocatorKnowsNext, TypeOK, InOrder, Value, NullIdx
<1>2. /\ first_idx' = Successor(w) /\ written' = w + 1 /\ machine' = machine
      /\ unread' = unread \cup {new}
      /\ memory' = Copied(Cleared(Detached(memory, w), Address(w)), Address(w),
                          w + 1, len)
  BY <1>1 DEF Message_alloc
<1>3. memory' \in [Byte -> Value]
  BY <1>1, <1>2, TextIsPutDown
<1>4. \A k \in 0..len : /\ Address(w) + k \in Byte
                       /\ memory'[Address(w) + k] = TextByte(w + 1, len, k)
  BY <1>1, <1>2, TextIsPutDown
<1>5. \A a \in Byte : a < Address(w) => memory'[a] = memory[a]
  BY <1>1, <1>2, TextIsPutDown
<1>6. \A i \in (w + 1)..(M - 1) : \A a \in EntryBytes(i) :
        memory'[a] \in {memory[a], ENTRY}
  BY <1>1, <1>2, TextIsPutDown
<1>7. InOrder'
  <2>1. first_idx' = IF w + 1 < M THEN w + 1 ELSE NullIdx
    BY <1>2 DEF Successor
  <2>2. ASSUME NEW m \in unread' PROVE m.id <= w + 1 /\ m.txt = Address(m.id - 1)
    <3>1. CASE m \in unread
      <4>1. m.id <= w /\ m.id \in Nat /\ m.txt = Address(m.id - 1)
        BY <1>1, <3>1, SizesAreNumbers DEF TInv, InOrder
      <4> QED
        BY <1>1, <4>1
    <3>2. CASE m = new
      BY <1>1, <3>2
    <3> QED
      BY <1>2, <3>1, <3>2
  <2> QED
    BY <1>2, <2>1, <2>2 DEF InOrder
<1>8. TypeOK'
  <2>1. new \in [id : 1..M, txt : Byte, len : Nat]
    <3>1. Address(w) + 0 \in Byte /\ Address(w) \in Nat
      BY <1>1, <1>4, BlocksAreInFront
    <3> QED
      BY <1>1, <3>1, SizesAreNumbers
  <2>2. first_idx' \in 0..(M - 1) \cup {NullIdx}
    BY <1>1, <1>2, SizesAreNumbers DEF Successor
  <2>3. written' \in 0..M
    BY <1>1, <1>2, SizesAreNumbers
  <2> QED
    BY <1>1, <1>2, <1>3, <2>1, <2>2, <2>3 DEF TInv, AllocatorKnowsNext, TypeOK, Value
<1>9. AllocatorKnowsNext'
  <2>1. ASSUME NEW m \in unread' PROVE m.txt + m.len \in Byte
    <3>1. CASE m \in unread
      BY <3>1 DEF TInv, AllocatorKnowsNext
    <3>2. CASE m = new
      BY <1>4, <3>2
    <3> QED
      BY <1>2, <3>1, <3>2
  <2>2. ASSUME first_idx' # NullIdx, NEW i \in first_idx'..(M - 1),
               NEW a \in EntryBytes(i)
        PROVE  memory'[a] = ENTRY
    <3>1. i \in (w + 1)..(M - 1) /\ i \in w..(M - 1)
      BY <1>1, <1>2, <2>2, SizesAreNumbers DEF Successor
    <3>2. memory[a] = ENTRY
      BY <1>1, <3>1, <2>2 DEF TInv, AllocatorKnowsNext, Intact
    <3> QED
      BY <1>6, <3>1, <3>2
  <2> QED
    BY <1>8, <2>1, <2>2 DEF AllocatorKnowsNext, Intact
<1>10. HeadsKept'
  <2> SUFFICES ASSUME NEW m \in unread',
                      NEW k \in 0..((IF m.len < TEXT_SIZE THEN m.len + 1
                                     ELSE TEXT_SIZE) - 1)
               PROVE  memory'[m.txt + k] = TextByte(m.id, m.len, k)
    BY DEF HeadsKept, ReadsBack
  <2>1. CASE m \in unread
    <3>1. /\ m.id \in 1..M /\ m.txt \in Nat /\ m.len \in Nat
          /\ m.id <= w /\ m.txt = Address(m.id - 1)
      BY <1>1, <2>1 DEF TInv, InOrder, Byte
    <3>2. m.id - 1 \in 0..(M - 1) /\ m.id \in Nat /\ (m.id - 1) + 1 = m.id
      BY <1>1, <3>1, SizesAreNumbers
    <3>3. Address(m.id) = m.txt + TEXT_SIZE /\ Address(m.id) <= Address(w)
          /\ Address(w) \in Nat
      <4>1. Address((m.id - 1) + 1) = m.txt + TEXT_SIZE
        BY <3>1, <3>2, BlocksAreInFront
      <4> QED
        BY <1>1, <3>1, <3>2, <4>1, BlocksAreInOrder
    <3>4. k \in Nat /\ k < TEXT_SIZE
      BY <3>1, SizesAreNumbers
    <3>5. m.txt + k < Address(w) /\ m.txt + k \in Byte
      <4>1. Address(w) <= FreeList /\ FreeList <= BufferSize
        <5>1. Address(w) + TEXT_SIZE <= FreeList
          BY <1>1, BlocksAreInFront
        <5> QED
          BY <3>3, <5>1, SizesAreNumbers
      <4> QED
        BY <3>1, <3>3, <3>4, <4>1, SizesAreNumbers DEF Byte
    <3>6. memory[m.txt + k] = TextByte(m.id, m.len, k)
      BY <2>1 DEF TInv, HeadsKept, ReadsBack
    <3> QED
      BY <1>5, <3>5, <3>6
  <2>2. CASE m = new
    <3>1. k \in 0..len
      BY <2>2, SizesAreNumbers
    <3> QED
      BY <1>4, <2>2, <3>1
  <2> QED
    BY <1>2, <2>1, <2>2
<1>11. LastTextWhole'
  <2> SUFFICES ASSUME NEW m \in unread', m.id = written'
               PROVE  ReadsBack(m, m.len + 1)'
    BY DEF LastTextWhole
  <2>1. m = new
    <3>1. m \notin unread
      BY <1>1, <1>2 DEF TInv, InOrder
    <3> QED
      BY <1>2, <3>1
  <2>2. 0..((m.len + 1) - 1) = 0..len
    BY <2>1
  <2> QED
    BY <1>4, <2>1, <2>2 DEF ReadsBack
<1> QED
  BY <1>7, <1>9, <1>10, <1>11 DEF TInv

LEMMA OthersKeep ==
  ASSUME TInv, unread' \subseteq unread, UNCHANGED <<memory, first_idx, written>>,
         machine' \in {"up", "no_text", "lost"}
  PROVE  TInv'
<1>1. TypeOK'
  BY DEF TInv, AllocatorKnowsNext, TypeOK
<1>2. AllocatorKnowsNext'
  BY <1>1 DEF TInv, AllocatorKnowsNext, Intact
<1>3. HeadsKept'
  BY DEF TInv, HeadsKept, ReadsBack
<1>4. LastTextWhole'
  BY DEF TInv, LastTextWhole, ReadsBack
<1>5. InOrder'
  BY DEF TInv, InOrder
<1> QED
  BY <1>2, <1>3, <1>4, <1>5 DEF TInv

LEMMA TInvHolds == Spec => []TInv
<1>1. ASSUME TInv, [Next]_vars PROVE TInv'
  <2>1. machine \in {"up", "no_text", "lost"}
    BY <1>1 DEF TInv, AllocatorKnowsNext, TypeOK
  <2>2. ASSUME NEW len \in Lengths, Write(len) PROVE TInv'
    <3>1. len \in Nat /\ machine = "up"
      BY <2>2, TextAssumption DEF Write
    <3>2. CASE UNCHANGED vars
      BY <1>1, <2>1, <3>2, OthersKeep DEF vars
    <3>3. ASSUME NEW why \in {"no_text", "lost"}, Stop(why) PROVE TInv'
      BY <1>1, <3>3, OthersKeep DEF Stop
    <3>4. CASE Accepted(len) /\ first_idx # NullIdx /\ Message_alloc(len)
      BY <1>1, <3>1, <3>4, WritingKeeps
    <3> QED
      BY <2>2, <3>2, <3>3, <3>4 DEF Write
  <2>3. ASSUME NEW m \in unread, Read(m) PROVE TInv'
    BY <1>1, <2>1, <2>3, OthersKeep DEF Read
  <2>4. CASE UNCHANGED vars
    BY <1>1, <2>1, <2>4, OthersKeep DEF vars
  <2> QED
    BY <1>1, <2>2, <2>3, <2>4 DEF Next, Halted
<1> QED
  BY InitSound, <1>1, PTL DEF Spec

-----------------------------------------------------------------------------
(* What follows                                                            *)

\* Whatever the sizes are, the first TEXT_SIZE bytes of a message are read as
\* they were written.
THEOREM HeadsAreKept == Spec => []HeadsKept
<1>1. TInv => HeadsKept
  BY DEF TInv
<1> QED
  BY <1>1, TInvHolds, PTL

\* And so is the whole of the text that was written last.
THEOREM TheLastTextIsWhole == Spec => []LastTextWhole
<1>1. TInv => LastTextWhole
  BY DEF TInv
<1> QED
  BY <1>1, TInvHolds, PTL

\* The allocator always finds its next block, and every text ends in the buffer:
\* this needs that an entry of free_list is no longer than a block, and that the
\* longest text fits behind the beginning of the last one (TextAssumption).
THEOREM AllocatorAlwaysKnowsNext == Spec => []AllocatorKnowsNext
<1>1. TInv => AllocatorKnowsNext
  BY DEF TInv
<1> QED
  BY <1>1, TInvHolds, PTL
=============================================================================
