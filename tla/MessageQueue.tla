---------------------------- MODULE MessageQueue ----------------------------
(***************************************************************************)
(* One message queue of disastrOS at work: msgQueueOpen, msgQueueRead,     *)
(* msgQueueWrite and msgQueueClose by several processes, with the blocking *)
(* and the waking of processes, the end of the queue with its last         *)
(* descriptor, its creation anew, and internal_schedule, which the timer   *)
(* interrupt and preempt both run.                                         *)
(*                                                                         *)
(* A read of an empty queue and a write to a full one put the caller into  *)
(* the waiting list and into the queue's waiting_descriptors, and return 0 *)
(* to it: the caller keeps the CPU.  What the scheduler then does with it  *)
(* depends on its list pointers, so the ready list and the waiting list    *)
(* are those of LinkedList here, not sequences.  The other calls leave     *)
(* these two lists sound (module Processes) and are left out; no process   *)
(* sleeps.  A text is its length, a message a text with a serial number.   *)
(***************************************************************************)
EXTENDS Integers, Sequences, FiniteSets, SequencesExt, FiniteSetsExt

CONSTANTS NULL,
          Reader, Writer,   \* the processes that read and that write
          Idle,             \* processes that loop and make no system call
          Parent,           \* processes blocked in wait, for the others
          Repeats,          \* bound: whether calls go on after a repeated one
          Priority,         \* priorities in use: part of 0..9
          Lengths,          \* lengths of texts and of read buffers
          MAX_TEXT_LEN, MAX_NUM_MESSAGES_PER_MSG_QUEUE,
          MAX_NUM_MESSAGES, \* size of the text pool and of the message pool
          Descriptors,      \* size of the pools of Descriptors and
                            \* DescriptorPtrs (MAX_NUM_PROCESSES in the code)
          MaxFd             \* bound: a process opens at most MaxFd times

Caller == Reader \cup Writer
Worker == Caller \cup Idle
Proc   == Worker \cup Parent

ASSUME CastAssumption ==
  /\ IsFiniteSet(Proc) /\ NULL \notin Proc /\ Caller # {}
  /\ Caller \cap Idle = {} /\ Worker \cap Parent = {}
  /\ Repeats \in BOOLEAN
ASSUME SizesAssumption ==
  /\ Priority \subseteq 0..9 /\ Lengths \subseteq Nat \ {0}
  /\ MAX_TEXT_LEN \in Nat /\ MAX_NUM_MESSAGES_PER_MSG_QUEUE \in Nat
  /\ MAX_NUM_MESSAGES \in Nat /\ Descriptors \in Nat
  /\ MaxFd \in Nat

INSTANCE LinkedList
  WITH Item <- Proc, List <- {"ready", "waiting", "zombie"}

VARIABLES
  heap, running, status,   \* the scheduler's lists, the CPU, status words
  named,                   \* whether msg_queues_list has the queue
  open,                    \* processes with a descriptor of the queue
  last_fd,                 \* the next file descriptor of each process
  subqueues,               \* messages by priority, oldest first
  size,                    \* mq->size
  waiting_descriptors,     \* processes whose descriptors wait, in order
  free_texts, free_msgs, free_ptrs,
  again,                   \* whether a blocked process has made a call
  answer,                  \* what the last call returned
  machine                  \* "up" or the fault that stopped it

queue == <<named, open, last_fd, subqueues, size, waiting_descriptors>>
pools == <<free_texts, free_msgs, free_ptrs>>
vars  == <<heap, running, status, queue, pools, again, answer, machine>>

DSOS_EMQ_NOFD  == -14
DSOS_EMQ_READ  == -17
DSOS_EMQ_WRITE == -18

Faults == {"open_unknown", "open_no_ptr", "no_descriptor_ptr", "no_text",
           "close_unknown"}

Blocked(p) == p \in ToSet(waiting_descriptors)

\* The running process makes a call on the queue, maybe one whose last call has
\* blocked it and returned 0: it keeps the CPU, and a preempt with nobody ready
\* gives it back at once.  That is a repeated call.  again remembers that there
\* has been one, and disables none; Repeats bounds what follows it.
QueueCall ==
  /\ machine = "up"
  /\ running \in Caller
  /\ again => Repeats
  /\ again' = (again \/ Blocked(running))

-----------------------------------------------------------------------------
(* The queue has been created; the parents of the workers wait for them.   *)

Listing(h, l, s) ==
  LET listed[n \in 0..Len(s)] ==
        IF n = 0 THEN h ELSE List_append(listed[n - 1], l, s[n])
  IN  listed[Len(s)]

Init ==
  /\ \E order \in SetToSeqs(Worker), idlers \in SetToSeqs(Parent) :
       /\ running = Head(order)
       /\ heap = Listing(Listing(EmptyHeap, "waiting", idlers),
                         "ready", Tail(order))
       /\ status = [p \in Proc |-> CASE p \in Parent     -> "Waiting"
                                     [] p = Head(order)  -> "Running"
                                     [] OTHER            -> "Ready"]
  /\ named = TRUE
  /\ open = {}
  /\ last_fd = [p \in Caller |-> 0]
  /\ subqueues = [k \in Priority |-> <<>>]
  /\ size = 0
  /\ waiting_descriptors = <<>>
  /\ free_texts = MAX_NUM_MESSAGES
  /\ free_msgs = MAX_NUM_MESSAGES
  /\ free_ptrs = Descriptors
  /\ again = FALSE
  /\ answer = 0
  /\ machine = "up"

-----------------------------------------------------------------------------
(* What the calls have in common.  As in Processes, a definition named      *)
(* after another one, like WakeOne_lost, is that one with a slip in it.    *)

Fault(why) ==
  /\ machine' = why
  /\ UNCHANGED <<heap, running, status, queue, pools, answer>>

\* The call returns n and changes nothing.
Refuse(n) ==
  /\ answer' = n
  /\ UNCHANGED <<heap, running, status, queue, pools, machine>>

\* The caller starts to wait; the CPU stays with it.
Block_unlisted ==
  /\ free_ptrs > 0
  /\ status' = [status EXCEPT ![running] = "Waiting"]
  /\ free_ptrs' = free_ptrs - 1
  /\ waiting_descriptors' = Append(waiting_descriptors, running)
  /\ answer' = 0
  /\ UNCHANGED <<heap, running, named, open, last_fd, subqueues, size, free_texts,
                 free_msgs, machine>>
Block ==
  \/ free_ptrs = 0 /\ Fault("no_descriptor_ptr")
  \/ /\ free_ptrs > 0
     /\ status' = [status EXCEPT ![running] = "Waiting"]
     /\ free_ptrs' = free_ptrs - 1
     /\ waiting_descriptors' = Append(waiting_descriptors, running)
     /\ heap' = List_append(heap, "waiting", running)
     /\ answer' = 0
     /\ UNCHANGED <<running, named, open, last_fd, subqueues, size,
                    free_texts, free_msgs, machine>>

\* The first process in waiting_descriptors, reader or writer, becomes ready.
\* The n DescriptorPtrs that the caller has freed are freed as well.
WakeOne_none(n) ==
  free_ptrs' = free_ptrs + n /\ UNCHANGED <<waiting_descriptors, status, heap>>
WakeOne_lost(n) ==
  LET k == IF waiting_descriptors = <<>> THEN 0 ELSE 1
      p == Head(waiting_descriptors)
  IN  /\ waiting_descriptors' = SubSeq(waiting_descriptors, k + 1,
                                       Len(waiting_descriptors))
      /\ heap' = IF k = 0 THEN heap ELSE List_detach(heap, "waiting", p)
      /\ free_ptrs' = free_ptrs + n + k
      /\ UNCHANGED status
WakeOne_keeps_ptr(n) ==
  LET k == IF waiting_descriptors = <<>> THEN 0 ELSE 1
      p == Head(waiting_descriptors)
  IN  /\ waiting_descriptors' = SubSeq(waiting_descriptors, k + 1,
                                       Len(waiting_descriptors))
      /\ status' = IF k = 0 THEN status ELSE [status EXCEPT ![p] = "Ready"]
      /\ heap' = IF k = 0 THEN heap
                 ELSE List_append(List_detach(heap, "waiting", p), "ready", p)
      /\ free_ptrs' = free_ptrs + n
WakeOne(n) ==
  \/ /\ waiting_descriptors = <<>>
     /\ free_ptrs' = free_ptrs + n
     /\ UNCHANGED <<waiting_descriptors, status, heap>>
  \/ /\ waiting_descriptors # <<>>
     /\ LET p == Head(waiting_descriptors)
        IN  /\ waiting_descriptors' = Tail(waiting_descriptors)
            /\ status' = [status EXCEPT ![p] = "Ready"]
            /\ heap' = List_append(List_detach(heap, "waiting", p), "ready", p)
            /\ free_ptrs' = free_ptrs + n + 1

-----------------------------------------------------------------------------
(* internal_msgQueueCreate, once the queue is gone, and                    *)
(* internal_msgQueueOpen.  A process has one descriptor at a time here.    *)

CreateQueue ==
  /\ named' = TRUE
  /\ size' = 0
  /\ waiting_descriptors' = <<>>
  /\ answer' = 0
  /\ UNCHANGED <<heap, running, status, open, last_fd, subqueues, pools,
                 machine>>

Create == QueueCall /\ ~named /\ CreateQueue

\* There is a Descriptor left, but waiting processes have DescriptorPtrs too.
Open_descriptor ==
  /\ Cardinality(open) < Descriptors
  /\ \/ free_ptrs = 0 /\ Fault("open_no_ptr")
     \/ /\ free_ptrs > 0
        /\ free_ptrs' = free_ptrs - 1
        /\ open' = open \cup {running}
        /\ last_fd' = [last_fd EXCEPT ![running] = @ + 1]
        /\ answer' = last_fd[running]
        /\ UNCHANGED <<heap, running, status, named, subqueues, size,
                       waiting_descriptors, free_texts, free_msgs, machine>>

\* A descriptor that was closed while it waited would be given out again, with
\* another process in it: opens then are left out.
Open ==
  /\ QueueCall
  /\ running \notin open /\ last_fd[running] < MaxFd
  /\ named => ToSet(waiting_descriptors) \subseteq open
  /\ \/ ~named /\ Fault("open_unknown")
     \/ named /\ Cardinality(open) = Descriptors /\ Refuse(DSOS_EMQ_NOFD)
     \/ named /\ Open_descriptor

-----------------------------------------------------------------------------
(* internal_msgQueueRead                                                   *)

Places == UNION {{k} \X DOMAIN subqueues[k] : k \in Priority}
Messages == Cardinality(Places)

Empty == \A k \in Priority : subqueues[k] = <<>>

\* The subqueue that is read from: 0 is the highest priority.
First_last(k) ==
  subqueues[k] # <<>> /\ \A j \in Priority : j > k => subqueues[j] = <<>>
First(k) ==
  subqueues[k] # <<>> /\ \A j \in Priority : j < k => subqueues[j] = <<>>

\* The first message leaves its subqueue.
TakeFirst_uncounted(k) ==
  subqueues' = [subqueues EXCEPT ![k] = Tail(@)] /\ size' = size
TakeFirst(k) ==
  subqueues' = [subqueues EXCEPT ![k] = Tail(@)] /\ size' = size - 1

\* Message_free gives the message back to its pool, but not its text.
Message_free == free_msgs' = free_msgs + 1 /\ free_texts' = free_texts

Deliver(k) ==
  /\ TakeFirst(k)
  /\ Message_free
  /\ answer' = Head(subqueues[k]).len
  /\ WakeOne(0)
  /\ UNCHANGED <<running, named, open, last_fd, machine>>

Read(msg_len) ==
  /\ QueueCall /\ running \in Reader
  /\ \/ running \notin open /\ Refuse(DSOS_EMQ_READ)
     \/ running \in open /\ Empty /\ Block
     \/ /\ running \in open
        /\ \E k \in Priority :
             /\ First(k)
             /\ \/ Head(subqueues[k]).len > msg_len /\ Refuse(DSOS_EMQ_READ)
                \/ Head(subqueues[k]).len <= msg_len /\ Deliver(k)

-----------------------------------------------------------------------------
(* internal_msgQueueWrite                                                  *)

\* Texts are never freed, so the number of those taken tells messages apart.
NewMessage(len) == [id |-> MAX_NUM_MESSAGES - free_texts + 1, len |-> len]

Full == size = MAX_NUM_MESSAGES_PER_MSG_QUEUE

\* Message_alloc: with no message left, the text is given back.
Store_message(len, k) ==
  IF free_msgs = 0
  THEN Refuse(DSOS_EMQ_WRITE)
  ELSE /\ free_texts' = free_texts - 1
       /\ free_msgs' = free_msgs - 1
       /\ subqueues' = [subqueues EXCEPT ![k] = Append(@, NewMessage(len))]
       /\ size' = size + 1
       /\ answer' = len
       /\ WakeOne(0)
       /\ UNCHANGED <<running, named, open, last_fd, machine>>

Write(len, k) ==
  /\ QueueCall /\ running \in Writer
  /\ \/ running \notin open /\ Refuse(DSOS_EMQ_WRITE)
     \/ running \in open /\ Full /\ Block
     \/ /\ running \in open /\ ~Full
        /\ \/ len > MAX_TEXT_LEN /\ Refuse(DSOS_EMQ_WRITE)
           \/ len <= MAX_TEXT_LEN /\ free_texts = 0 /\ Fault("no_text")
           \/ len <= MAX_TEXT_LEN /\ free_texts > 0 /\ Store_message(len, k)

-----------------------------------------------------------------------------
(* internal_msgQueueClose, and the unlinking by the last one to close.     *)
(* What is freed keeps its contents: the waiting descriptors are read      *)
(* after the queue, and a process's place among them after its descriptor. *)

Close ==
  /\ QueueCall
  /\ \/ running \notin open /\ Fault("close_unknown")
     \/ /\ running \in open
        /\ open' = open \ {running}
        /\ \/ /\ open' = {}
              /\ named' = FALSE
              /\ subqueues' = [k \in Priority |-> <<>>]
              /\ free_msgs' = free_msgs + Messages
           \/ open' # {} /\ UNCHANGED <<named, subqueues, free_msgs>>
        /\ WakeOne(1)
        /\ answer' = 0
        /\ UNCHANGED <<running, last_fd, size, free_texts, machine>>

-----------------------------------------------------------------------------
(* internal_schedule, by preempt and by the timer interrupt                *)

\* The process next_process leaves the ready list, and the running one joins it.
GiveWay_to_front(next_process) ==
  heap' = List_insert(List_detach(heap, "ready", next_process),
                      "ready", NULL, running)
GiveWay(next_process) ==
  heap' = List_append(List_detach(heap, "ready", next_process),
                      "ready", running)

Schedule ==
  LET next_process == heap.head["ready"].first
  IN  /\ \/ /\ next_process = NULL
            /\ UNCHANGED <<heap, running, status>>
         \/ /\ next_process # NULL
            /\ GiveWay(next_process)
            /\ status' = [status EXCEPT ![running] = "Ready",
                                        ![next_process] = "Running"]
            /\ running' = next_process
      /\ UNCHANGED <<queue, pools, again, answer, machine>>

Preempt == machine = "up" /\ running \in Caller /\ Schedule

TimerTick == machine = "up" /\ Schedule

Halted == machine # "up" /\ UNCHANGED vars

Next ==
  \/ \E n \in Lengths : Read(n)
  \/ \E n \in Lengths, k \in Priority : Write(n, k)
  \/ Close
  \/ Open
  \/ Create
  \/ Preempt
  \/ TimerTick
  \/ Halted

Spec == Init /\ [][Next]_vars

\* setitimer rearms the alarm for ever: ticks keep coming.
FairSpec == Spec /\ WF_vars(TimerTick)

-----------------------------------------------------------------------------
Message == [id : 1..MAX_NUM_MESSAGES, len : Lengths]

\* Every variable holds values of its kind.
TypeOK ==
  /\ heap.next \in [Proc -> Proc \cup {NULL}]
  /\ heap.prev \in [Proc -> Proc \cup {NULL}]
  /\ running \in Worker
  /\ status \in [Proc -> {"Ready", "Running", "Waiting"}]
  /\ named \in BOOLEAN /\ open \subseteq Caller
  /\ last_fd \in [Caller -> 0..MaxFd]
  /\ \A k \in Priority : \A i \in DOMAIN subqueues[k] :
       subqueues[k][i] \in Message
  /\ waiting_descriptors \in Seq(Caller)
  /\ free_texts \in 0..MAX_NUM_MESSAGES
  /\ free_msgs \in 0..MAX_NUM_MESSAGES
  /\ free_ptrs \in Nat
  /\ answer \in Lengths \cup (0..MaxFd)
               \cup {DSOS_EMQ_NOFD, DSOS_EMQ_READ, DSOS_EMQ_WRITE}
  /\ machine \in {"up"} \cup Faults

-----------------------------------------------------------------------------
(* The contents of the queue, whatever the lists are like                  *)

\* mq->size, by which a write finds the queue full, counts the messages of all
\* subqueues, and there are never more than the queue may hold.  No message is
\* lost, to whatever end a queue comes; texts are never freed, so while
\* Message_alloc finds a text it finds a message (the refusal for lack of one
\* is dead code: it is the text pool that ends it all).
MessagesCounted ==
  /\ named => size = Messages /\ size <= MAX_NUM_MESSAGES_PER_MSG_QUEUE
  /\ free_msgs + Messages = MAX_NUM_MESSAGES
  /\ free_texts <= free_msgs

\* What leaves the queue while it exists is one message, and no message of a
\* higher priority, nor an older one of the same priority, stays behind: across
\* writers, blocked or not, order of arrival and priority are kept.
ReadInOrder ==
  [][named' =>
       \A k \in Priority : \A m \in ToSet(subqueues[k]) :
         m \notin ToSet(subqueues'[k]) =>
           /\ Messages' = Messages - 1
           /\ \A j \in Priority : \A o \in ToSet(subqueues'[j]) :
                j > k \/ (j = k /\ o.id > m.id)]_vars

\* Open descriptors and waiting processes share one pool of DescriptorPtrs, and
\* none of it is ever freed twice, though a waiter's is freed by whoever wakes it,
\* before or after either has closed the queue; nor is any lost, unless a repeated
\* call leaves waiters to a queue that ends.
PtrsAccounted ==
  LET taken == Cardinality(open) + Len(waiting_descriptors)
  IN  /\ free_ptrs + taken <= Descriptors
      /\ ~again => free_ptrs + taken = Descriptors

-----------------------------------------------------------------------------
(* Blocking and waking, until a blocked process makes a call: that it does, *)
(* and what it does to the lists, is the finding of run TestProgram_twice. *)

InReady   == Members(heap, "ready")
InWaiting == Members(heap, "waiting")

\* The two lists are lists, and a process is in one place: running, ready or
\* waiting; only one that has blocked runs and waits, until it gives way.
ListsHold ==
  ~again =>
    /\ TypeOK
    /\ \A l \in {"ready", "waiting"} :
         \E s \in SetToSeqs(Members(heap, l)) : Represents(heap, l, s)
    /\ InReady \cap InWaiting = {}
    /\ running \notin InReady
    /\ Proc = {running} \cup InReady \cup InWaiting
    /\ running \in InWaiting => Blocked(running)

\* The processes in waiting_descriptors are there once each, and are, with the
\* parents, those in the waiting list: so what wakes one detaches it from the
\* list that it is in, and nobody waits whom no call can wake.
WaitersAreWaiting ==
  ~again =>
    /\ IsInjective(waiting_descriptors)
    /\ InWaiting = ToSet(waiting_descriptors) \cup Parent

\* One reader and one writer, the only ones to have the queue open, never wait
\* for each other, whoever had it open and read, wrote, waited and closed before.
NobodyStuck ==
  ~again =>
    \A r \in Reader, w \in Writer : open = {r, w} => ~(Blocked(r) /\ Blocked(w))

\* Whoever is ready, woken or preempted, gets the CPU (or the machine stops),
\* however readers and writers wake each other.
ReadyRuns ==
  \A p \in Worker : p \in InReady ~> running = p \/ machine # "up" \/ again

-----------------------------------------------------------------------------
(* What comments and documents of the source say of the program            *)

\* README.md:104: a process that finds the queue full is woken once a message is
\* taken out; so with room in the queue not everybody waits.
RoomWakesWriter ==
  open = Caller /\ ~Full /\ ~again => \E p \in Caller : ~Blocked(p)

\* linked_list.c:58-62: what is detached from a list is in that list.  The next
\* to be woken is detached from the waiting list.
WokenFromItsList ==
  waiting_descriptors # <<>> => Head(waiting_descriptors) \in InWaiting
=============================================================================
