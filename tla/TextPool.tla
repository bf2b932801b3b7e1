------------------------------ MODULE TextPool ------------------------------
(***************************************************************************)
(* The texts of messages, byte by byte: Text_alloc, Message_alloc and      *)
(* Message_free of disastrOS_msg_queue.c on the buffer of the text pool.   *)
(*                                                                         *)
(* TEXT_SIZE is the sizeof of an expression, the size of a size_t, and not *)
(* the length of a text: texts of TEXT_SIZE characters or more run on into *)
(* the blocks that follow.  memset clears TEXT_MEM_SIZE bytes, more than a *)
(* block, and behind the last block are the entries of free_list by which  *)
(* the allocator finds the next one.  Texts are never given back, so the   *)
(* blocks are handed out in the order of PoolAllocator_init.               *)
(*                                                                         *)
(* Which queue and which priority a message has does not matter here, nor  *)
(* who waits (module MessageQueue): any unread message may be read next.   *)
(***************************************************************************)
EXTENDS Integers

CONSTANTS TEXT_SIZE,         \* bytes of a block: 8 in the code
          INT_SIZE,          \* bytes of an entry of free_list: 4
          MAX_NUM_MESSAGES,  \* number of blocks: 1024
          MAX_TEXT_LEN,      \* 255
          Lengths            \* lengths of the texts that are written

\* As in the code, a text begun in the last block ends before the buffer does.
ASSUME TextAssumption ==
  /\ TEXT_SIZE \in Nat \ {0} /\ INT_SIZE \in 1..TEXT_SIZE
  /\ MAX_NUM_MESSAGES \in Nat \ {0}
  /\ Lengths \subseteq Nat
  /\ MAX_TEXT_LEN \in Nat
  /\ MAX_TEXT_LEN < TEXT_SIZE + INT_SIZE * MAX_NUM_MESSAGES

VARIABLES memory,     \* what is in each byte of the buffer
          first_idx,  \* the next block to be handed out
          written,    \* number of messages written
          unread,     \* messages in queues
          machine     \* "up", or what stopped it

vars == <<memory, first_idx, written, unread, machine>>

TEXT_MEM_SIZE == TEXT_SIZE + INT_SIZE
BufferSize == TEXT_MEM_SIZE * MAX_NUM_MESSAGES
FreeList   == TEXT_SIZE * MAX_NUM_MESSAGES    \* where free_list begins
Byte == 0..(BufferSize - 1)

NullIdx == -1

\* A byte is part of the number that the allocator put into free_list, the end
\* of a string, or a character: the k-th of the n-th text.
ENTRY == <<0, -2>>
NUL   == <<0, -1>>
Char(n, k) == <<n, k>>

\* The k-th byte of the n-th text, of length len, with its NUL.
TextByte(n, len, k) == IF k = len THEN NUL ELSE Char(n, k)

EntryBytes(i) == (FreeList + INT_SIZE * i)..(FreeList + INT_SIZE * (i + 1) - 1)

Init ==
  /\ memory = [a \in Byte |-> IF a < FreeList THEN NUL ELSE ENTRY]
  /\ first_idx = 0
  /\ written = 0
  /\ unread = {}
  /\ machine = "up"

-----------------------------------------------------------------------------
(* PoolAllocator_getBlock, memset and strcpy, one after the other.  As in  *)
(* the other modules, Copied_unended is Copied with a slip in it.          *)

Address(i) == TEXT_SIZE * i

\* The entry of block i says which one is next.
Successor_same(i) == i
Successor(i) == IF i + 1 < MAX_NUM_MESSAGES THEN i + 1 ELSE NullIdx

\* The entry of block i is marked as handed out.
Detached(mem, i) == [a \in Byte |-> IF a \in EntryBytes(i) THEN ENTRY ELSE mem[a]]

Cleared(mem, txt) ==
  [a \in Byte |-> IF a \in txt..(txt + TEXT_MEM_SIZE - 1) THEN NUL ELSE mem[a]]

Copied_unended(mem, txt, n, len) ==
  [a \in Byte |-> IF a \in txt..(txt + len - 1) THEN Char(n, a - txt) ELSE mem[a]]
Copied(mem, txt, n, len) ==
  [a \in Byte |-> IF a \in txt..(txt + len) THEN TextByte(n, len, a - txt)
                  ELSE mem[a]]

Stop(why) ==
  machine' = why /\ UNCHANGED <<memory, first_idx, written, unread>>

Message_alloc(len) ==
  LET txt == Address(first_idx)
      n   == written + 1
  IN  /\ first_idx' = Successor(first_idx)
      /\ memory' = Copied(Cleared(Detached(memory, first_idx), txt), txt, n, len)
      /\ written' = n
      /\ unread' = unread \cup {[id |-> n, txt |-> txt, len |-> len]}
      /\ UNCHANGED machine

\* internal_msgQueueWrite
Accepted_any(len) == TRUE
Accepted(len) == len <= MAX_TEXT_LEN

Intact(i) == \A a \in EntryBytes(i) : memory[a] = ENTRY

Write(len) ==
  /\ machine = "up"
  /\ \/ ~Accepted(len) /\ UNCHANGED vars
     \/ Accepted(len) /\ first_idx = NullIdx /\ Stop("no_text")
     \/ Accepted(len) /\ first_idx # NullIdx /\ ~Intact(first_idx)
                      /\ Stop("lost")
     \/ Accepted(len) /\ first_idx # NullIdx /\ Intact(first_idx)
                      /\ Message_alloc(len)

\* internal_msgQueueRead: the text stays where it is.
Read(m) ==
  /\ machine = "up" /\ m \in unread
  /\ unread' = unread \ {m}
  /\ UNCHANGED <<memory, first_idx, written, machine>>

Halted == machine # "up" /\ UNCHANGED vars

Next ==
  \/ \E len \in Lengths : Write(len)
  \/ \E m \in unread : Read(m)
  \/ Halted

Spec == Init /\ [][Next]_vars

-----------------------------------------------------------------------------
\* Every variable holds values of its kind.
TypeOK ==
  /\ memory \in [Byte -> {ENTRY, NUL} \cup ((1..MAX_NUM_MESSAGES) \X Nat)]
  /\ first_idx \in 0..(MAX_NUM_MESSAGES - 1) \cup {NullIdx}
  /\ written \in 0..MAX_NUM_MESSAGES
  /\ unread \subseteq [id : 1..MAX_NUM_MESSAGES, txt : Byte, len : Nat]
  /\ machine \in {"up", "no_text", "lost"}

\* What strcpy finds when message m is read, in its first n bytes, is what was
\* written.
ReadsBack(m, n) ==
  \A k \in 0..(n - 1) : memory[m.txt + k] = TextByte(m.id, m.len, k)

\* However long the texts before and after it are, and whatever is cleared for
\* those after it, the first TEXT_SIZE bytes of an unread message stay as they
\* were written; so texts shorter than TEXT_SIZE are read as they were written.
HeadsKept ==
  \A m \in unread :
    ReadsBack(m, IF m.len < TEXT_SIZE THEN m.len + 1 ELSE TEXT_SIZE)

\* The message that was written last is read as it was written, even if it is
\* longer than its block: only a message written after it can spoil its text.
\* (With one message to a queue, and one queue, this is every message.)
LastTextWhole ==
  \A m \in unread : m.id = written => ReadsBack(m, m.len + 1)

\* Every text ends inside the buffer, and although long texts of the last blocks
\* run into free_list they spoil no entry of a block that is still to be handed
\* out: the allocator always knows the next one, until it has none.
AllocatorKnowsNext ==
  /\ TypeOK
  /\ \A m \in unread : m.txt + m.len \in Byte
  /\ first_idx # NullIdx => \A i \in first_idx..(MAX_NUM_MESSAGES - 1) : Intact(i)
=============================================================================
