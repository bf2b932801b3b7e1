------------------------- MODULE MessageQueueProofs -------------------------
(***************************************************************************)
(* What is in a message queue and who waits for it, for every number of    *)
(* readers and writers, every capacity and every size of the pools; and    *)
(* what becomes of the test program, for every number of iterations.       *)
(*                                                                         *)
(* The contents come first: MessagesCounted and ReadInOrder rest on        *)
(* Contents, whatever the callers do after a call that returned 0.  The    *)
(* waiting comes second: PtrsAccounted and NobodyStuck rest on Waiters and *)
(* Waiting.  The scheduler's lists do not matter to either; they come      *)
(* third: ListsHold and WaitersAreWaiting rest on InPlace, and hold while  *)
(* a parent waits, too.  The test program comes last: NothingLeft and      *)
(* NobodyRunsAfterExit rest on ProgramInv, and on Contents and Waiters.    *)
(* No call is ruled out: a process that has blocked and has the CPU may    *)
(* make another one, which again remembers; what of this does not survive  *)
(* such a call is stated up to it.                                         *)
(***************************************************************************)
EXTENDS TestProgram, SequenceLemmas, FiniteSetTheorems

-----------------------------------------------------------------------------
(* The messages in the queue                                               *)

Stored == [id : Nat \ {0}, len : Lengths]

ContentsTypes ==
  /\ subqueues \in [Priority -> Seq(Stored)]
  /\ size \in Nat /\ free_texts \in 0..MAX_NUM_MESSAGES /\ free_msgs \in Nat
  /\ IsFiniteSet(Places)

\* A queue that is not there has no descriptor and no message.
NoQueue == ~named => open = {} /\ Places = {}

\* In a subqueue the serial numbers grow, up to the last one given out.
Older(s) == \A i, j \in 1..Len(s) : i < j => s[i].id < s[j].id
Serials ==
  \A k \in Priority :
    /\ Older(subqueues[k])
    /\ \A i \in 1..Len(subqueues[k]) :
         subqueues[k][i].id <= MAX_NUM_MESSAGES - free_texts

Contents == ContentsTypes /\ NoQueue /\ MessagesCounted /\ Serials

\* The places of the messages, and how many there are.
LEMMA PlacesAre ==
  ASSUME ContentsTypes
  PROVE  /\ \A k, i : <<k, i>> \in Places <=>
                        k \in Priority /\ i \in 1..Len(subqueues[k])
         /\ Messages \in Nat
         /\ Messages = 0 <=> Places = {}
<1>1. \A k \in Priority : DOMAIN subqueues[k] = 1..Len(subqueues[k])
  BY DEF ContentsTypes
<1>2. \A k, i : <<k, i>> \in Places <=>
                  k \in Priority /\ i \in 1..Len(subqueues[k])
  BY <1>1 DEF Places
<1>3. Messages \in Nat /\ (Messages = 0 <=> Places = {})
  BY FS_CardinalityType, FS_EmptySet DEF ContentsTypes, Messages
<1> QED
  BY <1>2, <1>3

LEMMA MessageEnters ==
  ASSUME ContentsTypes, NEW k \in Priority, NEW m \in Stored,
         subqueues' = [subqueues EXCEPT ![k] = Append(subqueues[k], m)]
  PROVE  /\ subqueues' \in [Priority -> Seq(Stored)]
         /\ IsFiniteSet(Places') /\ Messages' = Messages + 1
<1> DEFINE s == subqueues[k]
           place == <<k, Len(s) + 1>>
<1>1. s \in Seq(Stored) /\ Len(s) \in Nat
  BY DEF ContentsTypes
<1>2. /\ Append(s, m) \in Seq(Stored)
      /\ DOMAIN Append(s, m) = 1..(Len(s) + 1)
  BY <1>1
<1>3. subqueues' \in [Priority -> Seq(Stored)]
  BY <1>2 DEF ContentsTypes
<1>4. \A j \in Priority : DOMAIN subqueues'[j] =
        IF j = k THEN 1..(Len(s) + 1) ELSE DOMAIN subqueues[j]
  BY <1>2 DEF ContentsTypes
<1>5. DOMAIN s = 1..Len(s)
  BY <1>1
<1> HIDE DEF s
<1>6. DOMAIN subqueues[k] = 1..Len(s)
  BY <1>5 DEF s
<1>7. 1..(Len(s) + 1) = (1..Len(s)) \cup {Len(s) + 1}
  BY <1>1
<1>8. Places' = Places \cup {place}
  BY <1>4, <1>6, <1>7 DEF Places
<1>9. place \notin Places
  <2>1. Len(s) + 1 \notin 1..Len(s)
    BY <1>1
  <2> QED
    BY <1>6, <2>1 DEF Places
<1>10. IsFiniteSet(Places') /\ Messages' = Messages + 1
  BY <1>8, <1>9, FS_AddElement DEF ContentsTypes, Messages
<1> QED
  BY <1>3, <1>10

LEMMA MessageLeaves ==
  ASSUME ContentsTypes, NEW k \in Priority, subqueues[k] # <<>>,
         subqueues' = [subqueues EXCEPT ![k] = Tail(subqueues[k])]
  PROVE  /\ subqueues' \in [Priority -> Seq(Stored)]
         /\ IsFiniteSet(Places') /\ Messages' = Messages - 1
         /\ Messages > 0
<1> DEFINE s == subqueues[k]
           place == <<k, Len(s)>>
<1>1. s \in Seq(Stored) /\ Len(s) \in Nat /\ Len(s) > 0
  BY DEF ContentsTypes
<1>2. /\ Tail(s) \in Seq(Stored)
      /\ DOMAIN Tail(s) = 1..(Len(s) - 1)
  BY <1>1
<1>3. subqueues' \in [Priority -> Seq(Stored)]
  BY <1>2 DEF ContentsTypes
<1>4. \A j \in Priority : DOMAIN subqueues'[j] =
        IF j = k THEN 1..(Len(s) - 1) ELSE DOMAIN subqueues[j]
  BY <1>2 DEF ContentsTypes
<1>5. DOMAIN s = 1..Len(s)
  BY <1>1
<1> HIDE DEF s
<1>6. DOMAIN subqueues[k] = 1..Len(s)
  BY <1>5 DEF s
<1>7. 1..(Len(s) - 1) = (1..Len(s)) \ {Len(s)} /\ Len(s) \in 1..Len(s)
  BY <1>1
<1>8. Places' = Places \ {place}
  BY <1>4, <1>6, <1>7 DEF Places
<1>9. place \in Places
  BY <1>6, <1>7 DEF Places
<1>10. IsFiniteSet(Places') /\ Messages' = Messages - 1
  BY <1>8, <1>9, FS_RemoveElement DEF ContentsTypes, Messages
<1>11. Messages > 0
  BY <1>9, PlacesAre
<1> QED
  BY <1>3, <1>10, <1>11

\* What a step does to the contents: nothing, or one of the four things below.
Untouched ==
  /\ UNCHANGED <<named, subqueues, size, free_texts, free_msgs>>
  /\ ~named => open' = {}
LetsOut(k) ==
  /\ First(k) /\ TakeFirst(k) /\ Message_free
  /\ UNCHANGED <<named, open>>
TakesIn(k, len) ==
  /\ ~Full /\ open # {} /\ free_texts > 0 /\ free_msgs # 0
  /\ free_texts' = free_texts - 1
  /\ free_msgs' = free_msgs - 1
  /\ subqueues' = [subqueues EXCEPT ![k] = Append(@, NewMessage(len))]
  /\ size' = size + 1
  /\ UNCHANGED <<named, open>>
QueueEnds ==
  /\ open' = {} /\ named' = FALSE
  /\ subqueues' = [k \in Priority |-> <<>>]
  /\ free_msgs' = free_msgs + Messages
  /\ UNCHANGED <<size, free_texts>>
Begins ==
  /\ ~named /\ named' = TRUE /\ size' = 0
  /\ UNCHANGED <<open, subqueues, free_texts, free_msgs>>

ContentsChange ==
  \/ Untouched
  \/ \E k \in Priority : LetsOut(k)
  \/ \E k \in Priority, len \in Lengths : TakesIn(k, len)
  \/ QueueEnds
  \/ Begins

LEMMA CallsOnContents ==
  ASSUME [Next]_vars, Contents
  PROVE  ContentsChange
<1> USE DEF ContentsChange
<1>1. ASSUME UNCHANGED <<queue, pools>> PROVE Untouched
  BY <1>1 DEF queue, pools, Contents, NoQueue, Untouched
<1>2. ASSUME NEW n, Refuse(n) \/ Fault(n) PROVE Untouched
  BY <1>1, <1>2 DEF Refuse, Fault
<1>3. ASSUME Block PROVE Untouched
  BY <1>2, <1>3 DEF Block, Contents, NoQueue, Untouched
<1>4. ASSUME NEW n \in Lengths, Read(n)
      PROVE  Untouched \/ \E k \in Priority : LetsOut(k)
  <2>1. ASSUME NEW k \in Priority, First(k), Deliver(k)
        PROVE  LetsOut(k)
    BY <2>1 DEF Deliver, LetsOut
  <2> QED
    BY <1>2, <1>3, <1>4, <2>1 DEF Read
<1>5. ASSUME NEW n \in Lengths, NEW k \in Priority, Write(n, k)
      PROVE  Untouched \/ TakesIn(k, n)
  <2>1. ASSUME running \in open, ~Full, free_texts # 0, free_texts > 0,
               Store_message(n, k), free_msgs # 0
        PROVE  TakesIn(k, n)
    BY <2>1 DEF Store_message, TakesIn
  <2>2. ASSUME Store_message(n, k), free_msgs = 0
        PROVE  Untouched
    BY <1>2, <2>2 DEF Store_message
  <2> QED
    BY <1>2, <1>3, <1>5, <2>1, <2>2 DEF Write
<1>6. CASE Close
  <2>1. CASE Fault("close_unknown")
    BY <1>2, <2>1
  <2>2. ASSUME running \in open, open' = {}, named' = FALSE,
               subqueues' = [k \in Priority |-> <<>>],
               free_msgs' = free_msgs + Messages, UNCHANGED <<size, free_texts>>
        PROVE  QueueEnds
    BY <2>2 DEF QueueEnds
  <2>3. ASSUME running \in open, open' = open \ {running},
               UNCHANGED <<named, subqueues, free_msgs, size, free_texts>>
        PROVE  Untouched
    BY <2>3 DEF Untouched, Contents, NoQueue
  <2> QED
    BY <1>6, <2>1, <2>2, <2>3 DEF Close
<1>7. CASE Open
  <2>1. CASE named /\ Open_descriptor
    <3>1. CASE Fault("open_no_ptr")
      BY <1>2, <3>1
    <3>2. CASE UNCHANGED <<named, subqueues, size, free_texts, free_msgs>>
      BY <2>1, <3>2 DEF Untouched
    <3> QED
      BY <2>1, <3>1, <3>2 DEF Open_descriptor
  <2> QED
    BY <1>2, <1>7, <2>1 DEF Open
<1>8. CASE Create
  BY <1>8 DEF Create, CreateQueue, Begins, pools
<1>9. CASE Preempt \/ TimerTick \/ Halted \/ UNCHANGED vars
  BY <1>1, <1>9 DEF Preempt, TimerTick, Schedule, Halted, vars
<1> QED
  BY <1>4, <1>5, <1>6, <1>7, <1>8, <1>9 DEF Next

LEMMA ContentsKeep ==
  ASSUME Contents, ContentsChange
  PROVE  Contents'
<1>1. /\ subqueues \in [Priority -> Seq(Stored)]
      /\ size \in Nat /\ free_texts \in 0..MAX_NUM_MESSAGES /\ free_msgs \in Nat
      /\ IsFiniteSet(Places) /\ Messages \in Nat /\ MAX_NUM_MESSAGES \in Nat
      /\ MAX_NUM_MESSAGES_PER_MSG_QUEUE \in Nat
  BY PlacesAre, SizesAssumption DEF Contents, ContentsTypes
<1>2. /\ named => size = Messages /\ size <= MAX_NUM_MESSAGES_PER_MSG_QUEUE
      /\ free_msgs + Messages = MAX_NUM_MESSAGES
      /\ free_texts <= free_msgs
  BY DEF Contents, MessagesCounted
<1>3. CASE Untouched
  <2>1. Places' = Places /\ Messages' = Messages
    BY <1>3 DEF Untouched, Places, Messages
  <2>2. ContentsTypes' /\ NoQueue'
    BY <1>1, <1>3, <2>1 DEF Untouched, ContentsTypes, Contents, NoQueue
  <2>3. MessagesCounted'
    BY <1>2, <1>3, <2>1 DEF Untouched, MessagesCounted
  <2>4. Serials'
    BY <1>3 DEF Untouched, Serials, Contents
  <2> QED
    BY <2>2, <2>3, <2>4 DEF Contents
<1>4. ASSUME NEW k \in Priority, LetsOut(k)
      PROVE  Contents'
  <2>1. /\ subqueues[k] # <<>>
        /\ subqueues' = [subqueues EXCEPT ![k] = Tail(subqueues[k])]
        /\ size' = size - 1 /\ free_msgs' = free_msgs + 1
        /\ free_texts' = free_texts /\ named' = named /\ open' = open
    BY <1>4 DEF LetsOut, First, TakeFirst, Message_free
  <2>2. /\ subqueues' \in [Priority -> Seq(Stored)]
        /\ IsFiniteSet(Places') /\ Messages' = Messages - 1 /\ Messages > 0
    BY <2>1, MessageLeaves DEF Contents
  <2>3. named
    BY <1>1, <2>2, PlacesAre DEF Contents, NoQueue
  <2>4. ContentsTypes' /\ NoQueue' /\ MessagesCounted'
    BY <1>1, <1>2, <2>1, <2>2, <2>3 DEF ContentsTypes, NoQueue, MessagesCounted
  <2>5. Serials'
    <3> SUFFICES ASSUME NEW j \in Priority
                 PROVE  /\ Older(subqueues'[j])
                        /\ \A i \in 1..Len(subqueues'[j]) :
                             subqueues'[j][i].id <= MAX_NUM_MESSAGES - free_texts
      BY <2>1 DEF Serials
    <3>1. CASE j # k
      BY <1>1, <2>1, <3>1 DEF Contents, Serials
    <3>2. CASE j = k
      <4> DEFINE s == subqueues[k]
      <4>1. /\ s \in Seq(Stored) /\ Len(s) \in Nat
            /\ Len(Tail(s)) = Len(s) - 1
            /\ \A i \in 1..Len(Tail(s)) : Tail(s)[i] = s[i + 1]
        BY <1>1, <2>1
      <4>2. subqueues'[j] = Tail(s)
        BY <1>1, <2>1, <3>2
      <4>3. /\ \A a, b \in 1..Len(s) : a < b => s[a].id < s[b].id
            /\ \A i \in 1..Len(s) : s[i].id <= MAX_NUM_MESSAGES - free_texts
        BY DEF Contents, Serials, Older
      <4> HIDE DEF s
      <4> QED
        BY <4>1, <4>2, <4>3 DEF Older
    <3> QED
      BY <3>1, <3>2
  <2> QED
    BY <2>4, <2>5 DEF Contents
<1>5. ASSUME NEW k \in Priority, NEW len \in Lengths, TakesIn(k, len)
      PROVE  Contents'
  <2> DEFINE m == NewMessage(len)
  <2>1. /\ subqueues' = [subqueues EXCEPT ![k] = Append(subqueues[k], m)]
        /\ size' = size + 1 /\ free_msgs' = free_msgs - 1
        /\ free_texts' = free_texts - 1 /\ named' = named /\ open' = open
        /\ size # MAX_NUM_MESSAGES_PER_MSG_QUEUE
        /\ open # {} /\ free_texts > 0 /\ free_msgs # 0
    BY <1>5 DEF TakesIn, Full
  <2>2. m \in Stored /\ m.id = MAX_NUM_MESSAGES - free_texts + 1
    BY <1>1, SizesAssumption DEF NewMessage, Stored
  <2> HIDE DEF m
  <2>3. /\ subqueues' \in [Priority -> Seq(Stored)]
        /\ IsFiniteSet(Places') /\ Messages' = Messages + 1
    BY <2>1, <2>2, MessageEnters DEF Contents
  <2>4. named
    BY <2>1 DEF Contents, NoQueue
  <2>5. ContentsTypes' /\ NoQueue' /\ MessagesCounted'
    BY <1>1, <1>2, <2>1, <2>3, <2>4 DEF ContentsTypes, NoQueue, MessagesCounted
  <2>6. Serials'
    <3> SUFFICES ASSUME NEW j \in Priority
                 PROVE  /\ Older(subqueues'[j])
                        /\ \A i \in 1..Len(subqueues'[j]) :
                             subqueues'[j][i].id <= MAX_NUM_MESSAGES - free_texts'
      BY DEF Serials
    <3> DEFINE s == subqueues[j]
    <3>1. s \in Seq(Stored) /\ \A i \in 1..Len(s) : s[i] \in Stored
      BY <1>1
    <3>2. /\ Len(s) \in Nat
          /\ Len(Append(s, m)) = Len(s) + 1
          /\ \A i \in 1..Len(s) : s[i].id \in Nat
          /\ \A i \in 1..Len(s) : Append(s, m)[i] = s[i]
          /\ Append(s, m)[Len(s) + 1] = m
      <4> HIDE DEF s
      <4>1. \A i \in 1..Len(s) : s[i].id \in Nat
        BY <3>1 DEF Stored
      <4> QED
        BY <2>2, <3>1, <4>1
    <3>3. /\ \A a, b \in 1..Len(s) : a < b => s[a].id < s[b].id
          /\ \A i \in 1..Len(s) : s[i].id <= MAX_NUM_MESSAGES - free_texts
      BY DEF Contents, Serials, Older
    <3>4. subqueues'[j] = IF j = k THEN Append(s, m) ELSE s
      BY <1>1, <2>1
    <3> HIDE DEF s
    <3>5. CASE j # k
      BY <1>1, <2>1, <3>2, <3>3, <3>4, <3>5 DEF Older
    <3>6. CASE j = k
      <4> DEFINE t == Append(s, m)
      <4>1. \A i \in 1..Len(t) : i \in 1..Len(s) \/ i = Len(s) + 1
        BY <3>2
      <4> HIDE DEF t
      <4>2. \A i \in 1..Len(t) : t[i].id <= MAX_NUM_MESSAGES - free_texts'
        BY <1>1, <2>1, <2>2, <3>2, <3>3, <4>1 DEF t
      <4>3. \A a, b \in 1..Len(t) : a < b => t[a].id < t[b].id
        BY <1>1, <2>1, <2>2, <3>2, <3>3, <4>1 DEF t
      <4> QED
        BY <3>4, <3>6, <4>2, <4>3 DEF t, Older
    <3> QED
      BY <3>5, <3>6
  <2> QED
    BY <2>5, <2>6 DEF Contents
<1>6. ASSUME Places' = {}, subqueues' = [k \in Priority |-> <<>>],
             size' \in Nat, free_texts' = free_texts, open' = {},
             free_msgs' = MAX_NUM_MESSAGES,
             named' => size' = 0
      PROVE  Contents'
  <2>1. IsFiniteSet(Places') /\ Messages' = 0
    BY <1>6, FS_EmptySet DEF Messages
  <2>2. \A k \in Priority : subqueues'[k] = <<>>
    BY <1>6
  <2> QED
    BY <1>1, <1>6, <2>1, <2>2
       DEF Contents, ContentsTypes, NoQueue, MessagesCounted, Serials, Older
<1>7. CASE QueueEnds
  <2>1. Places' = {}
    BY <1>7 DEF QueueEnds, Places
  <2> QED
    BY <1>1, <1>2, <1>6, <1>7, <2>1 DEF QueueEnds
<1>8. CASE Begins
  <2>1. Places' = Places /\ Messages' = Messages /\ Messages = 0
    BY <1>8, PlacesAre DEF Begins, Places, Messages, Contents, NoQueue
  <2>2. ContentsTypes' /\ NoQueue'
    BY <1>1, <1>8, <2>1 DEF Begins, ContentsTypes, NoQueue
  <2>3. MessagesCounted'
    BY <1>1, <1>2, <1>8, <2>1 DEF Begins, MessagesCounted
  <2>4. Serials'
    BY <1>8 DEF Begins, Serials, Contents
  <2> QED
    BY <2>2, <2>3, <2>4 DEF Contents
<1> QED
  BY <1>3, <1>4, <1>5, <1>7, <1>8 DEF ContentsChange

LEMMA ContentsStep ==
  ASSUME Contents, [Next]_vars
  PROVE  Contents'
BY CallsOnContents, ContentsKeep

LEMMA ContentsAtFirst ==
  ASSUME subqueues = [k \in Priority |-> <<>>], size = 0,
         free_texts = MAX_NUM_MESSAGES, free_msgs = MAX_NUM_MESSAGES, open = {}
  PROVE  Contents
<1>1. Places = {}
  BY DEF Places
<1>2. IsFiniteSet(Places) /\ Messages = 0
  BY <1>1, FS_EmptySet DEF Messages
<1>3. \A k \in Priority : subqueues[k] = <<>>
  OBVIOUS
<1>4. ContentsTypes /\ NoQueue /\ MessagesCounted
  BY <1>1, <1>2, SizesAssumption DEF ContentsTypes, NoQueue, MessagesCounted
<1>5. Serials
  BY <1>3 DEF Serials, Older
<1> QED
  BY <1>4, <1>5 DEF Contents

LEMMA ContentsHolds == Spec => []Contents
<1>1. Init => Contents
  BY ContentsAtFirst DEF Init
<1>2. Contents /\ [Next]_vars => Contents'
  BY ContentsStep
<1> QED
  BY <1>1, <1>2, PTL DEF Spec

\* mq->size counts the messages of all subqueues and never passes the capacity; no
\* message is lost when a queue ends, and while there is a text left there is a
\* message left.
THEOREM MessagesAreCounted == Spec => []MessagesCounted
<1>1. Contents => MessagesCounted
  BY DEF Contents
<1> QED
  BY <1>1, ContentsHolds, PTL

\* Messages leave an existing queue one at a time, the oldest of the highest
\* priority first, whoever reads them.
LEMMA FirstLeaves ==
  ASSUME Contents, [Next]_vars, named', NEW k \in Priority,
         NEW m \in ToSet(subqueues[k]), m \notin ToSet(subqueues'[k])
  PROVE  /\ Messages' = Messages - 1
         /\ \A j \in Priority : \A o \in ToSet(subqueues'[j]) :
              j > k \/ (j = k /\ o.id > m.id)
<1>1. /\ subqueues \in [Priority -> Seq(Stored)]
      /\ \A j \in Priority : Older(subqueues[j])
  BY DEF Contents, ContentsTypes, Serials
<1>2. PICK i \in Priority : LetsOut(i)
  <2>1. ASSUME NEW i \in Priority, NEW len \in Lengths, TakesIn(i, len)
        PROVE  FALSE
    <3> DEFINE n == NewMessage(len)
    <3>1. n \in Stored
      BY SizesAssumption, <2>1
         DEF NewMessage, Stored, Contents, ContentsTypes, TakesIn
    <3> HIDE DEF n
    <3>2. subqueues' = [subqueues EXCEPT ![i] = Append(subqueues[i], n)]
      BY <2>1 DEF TakesIn, n
    <3>3. m \in ToSet(Append(subqueues[i], n)) \/ i # k
      BY <1>1, <3>1, InsertLast
    <3> QED
      BY <1>1, <3>2, <3>3
  <2>2. ~Untouched /\ ~QueueEnds /\ ~Begins
    BY DEF Untouched, QueueEnds, Begins
  <2> QED
    BY <2>1, <2>2, CallsOnContents DEF ContentsChange
<1>3. /\ subqueues[i] # <<>> /\ \A j \in Priority : j < i => subqueues[j] = <<>>
      /\ subqueues' = [subqueues EXCEPT ![i] = Tail(subqueues[i])]
  BY <1>2 DEF LetsOut, First, TakeFirst
<1>4. i = k
  BY <1>1, <1>3
<1>5. Messages' = Messages - 1
  BY <1>3, MessageLeaves DEF Contents
<1> DEFINE s == subqueues[k]
<1>6. s \in Seq(Stored) /\ s # <<>> /\ subqueues'[k] = Tail(s)
  BY <1>1, <1>3, <1>4
<1>7. m = s[1]
  <2>1. m \in {Head(s)} \cup ToSet(Tail(s))
    BY <1>6, DetachFirst
  <2>2. Head(s) = s[1]
    BY <1>6
  <2> QED
    BY <1>6, <2>1, <2>2
<1>8. ASSUME NEW j \in Priority, NEW o \in ToSet(subqueues'[j])
      PROVE  j > k \/ (j = k /\ o.id > m.id)
  <2>1. j \in Int /\ k \in Int
    BY SizesAssumption
  <2>2. CASE j = k
    <3>1. Tail(s) \in Seq(Stored) /\ Len(s) \in Nat /\ Len(Tail(s)) = Len(s) - 1
          /\ \A a \in 1..Len(Tail(s)) : Tail(s)[a] = s[a + 1]
      BY <1>6
    <3> DEFINE t == Tail(s)
    <3>2. PICK a \in 1..Len(t) : o = t[a]
      <4>1. t \in Seq(Stored) /\ o \in ToSet(t)
        BY <1>6, <2>2, <3>1
      <4> HIDE DEF t
      <4> QED
        BY <4>1, Elements
    <3>3. o = s[a + 1] /\ a + 1 \in 1..Len(s) /\ 1 \in 1..Len(s) /\ 1 < a + 1
      BY <3>1, <3>2
    <3>4. \A b, c \in 1..Len(s) : b < c => s[b].id < s[c].id
      BY <1>1 DEF Older
    <3>5. m.id < o.id
      BY <1>7, <3>3, <3>4
    <3>6. m.id \in Nat /\ o.id \in Nat
      <4>1. m \in Stored /\ o \in Stored
        BY <1>6, <1>7, <3>3
      <4> QED
        BY <4>1 DEF Stored
    <3> QED
      BY <2>2, <3>5, <3>6
  <2>3. CASE j # k
    <3>1. subqueues'[j] = subqueues[j]
      BY <1>1, <1>3, <1>4, <2>3
    <3>2. subqueues[j] # <<>>
      BY <1>8, <3>1 DEF ToSet
    <3> QED
      BY <1>3, <1>4, <2>1, <2>3, <3>2
  <2> QED
    BY <2>2, <2>3
<1> QED
  BY <1>5, <1>8

THEOREM MessagesAreReadInOrder == Spec => ReadInOrder
<1> DEFINE A == named' =>
       \A k \in Priority : \A m \in ToSet(subqueues[k]) :
         m \notin ToSet(subqueues'[k]) =>
           /\ Messages' = Messages - 1
           /\ \A j \in Priority : \A o \in ToSet(subqueues'[j]) :
                j > k \/ (j = k /\ o.id > m.id)
<1>1. Contents /\ [Next]_vars => A
  BY FirstLeaves
<1>2. ReadInOrder <=> [][A]_vars
  BY DEF ReadInOrder
<1> HIDE DEF A
<1>3. Contents /\ [Next]_vars => [A]_vars
  BY <1>1
<1> QED
  BY <1>2, <1>3, ContentsHolds, PTL DEF Spec

-----------------------------------------------------------------------------
(* The DescriptorPtrs                                                      *)

WaitingTypes ==
  /\ again \in BOOLEAN
  /\ open \subseteq Caller /\ waiting_descriptors \in Seq(Caller)
  /\ free_ptrs \in Nat

\* Who waits has the queue open and waits once, as long as no process that waits
\* makes a call.
WaitersHaveItOpen ==
  ~again => /\ IsInjective(waiting_descriptors)
            /\ ToSet(waiting_descriptors) \subseteq open

Waiters == WaitingTypes /\ WaitersHaveItOpen /\ PtrsAccounted

LEMMA WaitersAre ==
  ASSUME WaitingTypes
  PROVE  /\ IsFiniteSet(open) /\ Cardinality(open) \in Nat
         /\ Len(waiting_descriptors) \in Nat
<1>1. IsFiniteSet(Caller)
  BY CastAssumption, FS_Subset DEF Proc, Worker
<1> QED
  BY <1>1, FS_Subset, FS_CardinalityType, Elements DEF WaitingTypes

\* The first that waits is woken, when there is one.
LEMMA OneIsWoken ==
  ASSUME WaitingTypes, NEW n \in Nat, WakeOne(n)
  PROVE  /\ waiting_descriptors' \in Seq(Caller)
         /\ IsInjective(waiting_descriptors) => IsInjective(waiting_descriptors')
         /\ ToSet(waiting_descriptors') \subseteq ToSet(waiting_descriptors)
         /\ free_ptrs' + Len(waiting_descriptors')
              = free_ptrs + Len(waiting_descriptors) + n
         /\ free_ptrs' \in Nat /\ Len(waiting_descriptors') \in Nat
         /\ \A i \in 1..Len(waiting_descriptors') :
              /\ i + 1 \in 1..Len(waiting_descriptors)
              /\ waiting_descriptors'[i] = waiting_descriptors[i + 1]
         /\ Len(waiting_descriptors') > 0 =>
              Len(waiting_descriptors') = Len(waiting_descriptors) - 1
<1> DEFINE w == waiting_descriptors
<1>1. w \in Seq(Caller) /\ Len(w) \in Nat
  BY Elements DEF WaitingTypes
<1>2. CASE w = <<>>
  BY <1>1, <1>2 DEF WakeOne, WaitingTypes
<1>3. CASE w # <<>>
  <2>1. w' = Tail(w) /\ free_ptrs' = free_ptrs + n + 1
    BY <1>3 DEF WakeOne
  <2>2. /\ Tail(w) \in Seq(Caller) /\ Len(Tail(w)) = Len(w) - 1
        /\ Len(Tail(w)) \in Nat
        /\ \A i \in 1..Len(Tail(w)) : /\ i + 1 \in 1..Len(w)
                                      /\ Tail(w)[i] = w[i + 1]
    BY <1>1, <1>3
  <2>3. ToSet(Tail(w)) \subseteq ToSet(w)
        /\ (IsInjective(w) => IsInjective(Tail(w)))
    BY <1>1, <1>3, DetachFirst
  <2> HIDE DEF w
  <2> QED
    BY <1>1, <2>1, <2>2, <2>3 DEF w, WaitingTypes
<1> QED
  BY <1>2, <1>3

\* What a call does to those that have the queue open and those that wait.
Blocks ==
  /\ running \in open
  /\ \/ running \in Reader /\ Empty
     \/ running \in Writer /\ Full
  /\ free_ptrs > 0 /\ free_ptrs' = free_ptrs - 1
  /\ waiting_descriptors' = Append(waiting_descriptors, running)
  /\ UNCHANGED <<open, size>>
Passes ==
  /\ running \in open /\ WakeOne(0) /\ size' \in {size - 1, size + 1}
  /\ UNCHANGED open
Leaves ==
  running \in open /\ open' = open \ {running} /\ WakeOne(1) /\ size' = size
Joins ==
  /\ running \in Caller \ open /\ open' = open \cup {running}
  /\ free_ptrs > 0 /\ free_ptrs' = free_ptrs - 1
  /\ UNCHANGED <<waiting_descriptors, size>>
Renews ==
  Begins /\ waiting_descriptors' = <<>> /\ free_ptrs' = free_ptrs
Stays == UNCHANGED <<open, waiting_descriptors, free_ptrs, size>>

WaitersChange ==
  \/ (QueueCall \/ UNCHANGED again) /\ (Stays \/ Renews)
  \/ QueueCall /\ (Blocks \/ Passes \/ Leaves \/ Joins)

LEMMA CallsOnWaiters ==
  ASSUME [Next]_vars
  PROVE  WaitersChange
<1>1. ASSUME NEW n, Refuse(n) \/ Fault(n) PROVE Stays
  BY <1>1 DEF Refuse, Fault, queue, pools, Stays
<1>2. ASSUME running \in open, Block,
             (running \in Reader /\ Empty) \/ (running \in Writer /\ Full)
      PROVE  Stays \/ Blocks
  BY <1>1, <1>2 DEF Block, Blocks
<1>3. ASSUME NEW n \in Lengths, Read(n)
      PROVE  QueueCall /\ (Stays \/ Blocks \/ Passes)
  <2>1. ASSUME NEW k \in Priority, running \in open, Deliver(k)
        PROVE  Passes
    BY <2>1 DEF Passes, Deliver, TakeFirst
  <2>2. CASE Refuse(DSOS_EMQ_READ)
    BY <1>1, <1>3, <2>2 DEF Read
  <2>3. CASE ~Refuse(DSOS_EMQ_READ)
    <3>1. /\ QueueCall /\ running \in Reader /\ running \in open
          /\ \/ Empty /\ Block
             \/ \E k \in Priority : Deliver(k)
      BY <1>3, <2>3 DEF Read
    <3>2. CASE Empty /\ Block
      <4>1. Stays \/ Blocks
        BY <1>2, <3>1, <3>2
      <4> QED
        BY <3>1, <4>1
    <3>3. CASE \E k \in Priority : Deliver(k)
      BY <2>1, <3>1, <3>3
    <3> QED
      BY <3>1, <3>2, <3>3
  <2> QED
    BY <2>2, <2>3
<1>4. ASSUME NEW n \in Lengths, NEW k \in Priority, Write(n, k)
      PROVE  QueueCall /\ (Stays \/ Blocks \/ Passes)
  <2>1. ASSUME running \in open, Store_message(n, k)
        PROVE  Stays \/ Passes
    <3>1. CASE free_msgs = 0
      BY <1>1, <2>1, <3>1 DEF Store_message
    <3>2. CASE free_msgs # 0
      BY <2>1, <3>2 DEF Store_message, Passes
    <3> QED
      BY <3>1, <3>2
  <2> QED
    BY <1>1, <1>2, <1>4, <2>1 DEF Write
<1>5. CASE Close
  BY <1>1, <1>5 DEF Close, Leaves, WaitersChange
<1>6. CASE Open
  <2>1. ASSUME Open_descriptor, running \notin open, running \in Caller
        PROVE  Stays \/ Joins
    BY <1>1, <2>1 DEF Open_descriptor, Joins
  <2> QED
    BY <1>1, <1>6, <2>1 DEF Open, QueueCall, WaitersChange
<1>7. CASE Create
  BY <1>7 DEF Create, CreateQueue, Begins, Renews, pools, WaitersChange
<1>8. CASE Preempt \/ TimerTick \/ Halted \/ UNCHANGED vars
  BY <1>8 DEF Preempt, TimerTick, Schedule, Halted, vars, queue, pools, Stays,
              WaitersChange
<1> QED
  BY <1>3, <1>4, <1>5, <1>6, <1>7, <1>8 DEF Next, WaitersChange

\* As long as no process that waits has made a call, it is another one that calls.
LEMMA CallerIsNotBlocked ==
  ASSUME QueueCall, ~again', again \in BOOLEAN
  PROVE  ~again /\ running \in Caller /\ running \notin ToSet(waiting_descriptors)
BY DEF QueueCall, Blocked

LEMMA NoWaitersWithoutQueue ==
  ASSUME Contents, Waiters, ~again, ~named
  PROVE  waiting_descriptors = <<>>
<1>1. waiting_descriptors \in Seq(Caller) /\ ToSet(waiting_descriptors) = {}
  BY DEF Contents, NoQueue, Waiters, WaitingTypes, WaitersHaveItOpen
<1>2. waiting_descriptors # <<>> => 1 \in 1..Len(waiting_descriptors)
  BY <1>1, Elements
<1> QED
  BY <1>1, <1>2, Elements

LEMMA WaitersStep ==
  ASSUME Contents, Waiters, WaitersChange
  PROVE  Waiters'
<1> DEFINE w == waiting_descriptors
           taken == Cardinality(open) + Len(w)
<1>1. /\ w \in Seq(Caller) /\ Len(w) \in Nat /\ free_ptrs \in Nat
      /\ again \in BOOLEAN /\ open \subseteq Caller
      /\ IsFiniteSet(open) /\ Cardinality(open) \in Nat /\ Descriptors \in Nat
  BY WaitersAre, SizesAssumption DEF Waiters, WaitingTypes
<1>2. /\ free_ptrs + taken <= Descriptors
      /\ ~again => free_ptrs + taken = Descriptors
  BY DEF Waiters, PtrsAccounted
<1>3. again' \in BOOLEAN /\ (~again' => ~again)
  BY <1>1 DEF WaitersChange, QueueCall
<1>4. CASE Stays
  <2>1. open' = open /\ w' = w /\ free_ptrs' = free_ptrs
    BY <1>4 DEF Stays
  <2> QED
    BY <1>1, <1>2, <1>3, <2>1
       DEF Waiters, WaitingTypes, WaitersHaveItOpen, PtrsAccounted
<1>5. ASSUME QueueCall, ~again'
      PROVE  ~again /\ running \in Caller /\ running \notin ToSet(w)
  BY <1>1, <1>5, CallerIsNotBlocked
<1>6. ASSUME open' \subseteq Caller, w' \in Seq(Caller), free_ptrs' \in Nat,
             free_ptrs' + (Cardinality(open') + Len(w')) = free_ptrs + taken,
             ~again' => IsInjective(w') /\ ToSet(w') \subseteq open'
      PROVE  Waiters'
  BY <1>2, <1>3, <1>6 DEF Waiters, WaitingTypes, WaitersHaveItOpen, PtrsAccounted
<1>7. ~again => IsInjective(w) /\ ToSet(w) \subseteq open
  BY DEF Waiters, WaitersHaveItOpen
<1>8. CASE QueueCall /\ Blocks
  <2>1. /\ running \in open /\ open' = open /\ w' = Append(w, running)
        /\ free_ptrs > 0 /\ free_ptrs' = free_ptrs - 1
    BY <1>8 DEF Blocks
  <2>2. /\ w' \in Seq(Caller) /\ Len(w') = Len(w) + 1
        /\ ToSet(w') = ToSet(w) \cup {running}
        /\ IsInjective(w) /\ running \notin ToSet(w) => IsInjective(w')
    BY <1>1, <2>1, InsertLast
  <2>3. free_ptrs' \in Nat
        /\ free_ptrs' + (Cardinality(open') + Len(w')) = free_ptrs + taken
    BY <1>1, <2>1, <2>2
  <2>4. ASSUME ~again' PROVE IsInjective(w') /\ ToSet(w') \subseteq open'
    BY <1>5, <1>7, <1>8, <2>1, <2>2, <2>4
  <2> QED
    BY <1>1, <1>6, <2>1, <2>2, <2>3, <2>4
<1>9. CASE QueueCall /\ Passes
  <2>1. running \in open /\ WakeOne(0) /\ open' = open
    BY <1>9 DEF Passes
  <2>2. /\ w' \in Seq(Caller) /\ free_ptrs' \in Nat
        /\ free_ptrs' + Len(w') = free_ptrs + Len(w) /\ Len(w') \in Nat
        /\ IsInjective(w) => IsInjective(w')
        /\ ToSet(w') \subseteq ToSet(w)
    BY <1>1, <2>1, OneIsWoken DEF Waiters
  <2>3. free_ptrs' + (Cardinality(open') + Len(w')) = free_ptrs + taken
    BY <1>1, <2>1, <2>2
  <2>4. ASSUME ~again' PROVE IsInjective(w') /\ ToSet(w') \subseteq open'
    BY <1>3, <1>7, <2>1, <2>2, <2>4
  <2> QED
    BY <1>1, <1>6, <2>1, <2>2, <2>3, <2>4
<1>10. CASE QueueCall /\ Leaves
  <2>1. running \in open /\ WakeOne(1) /\ open' = open \ {running}
    BY <1>10 DEF Leaves
  <2>2. /\ w' \in Seq(Caller) /\ free_ptrs' \in Nat
        /\ free_ptrs' + Len(w') = free_ptrs + Len(w) + 1 /\ Len(w') \in Nat
        /\ IsInjective(w) => IsInjective(w')
        /\ ToSet(w') \subseteq ToSet(w)
    BY <1>1, <2>1, OneIsWoken DEF Waiters
  <2>3. Cardinality(open') = Cardinality(open) - 1
    BY <1>1, <2>1, FS_RemoveElement
  <2> DEFINE o == Cardinality(open)
             q == Cardinality(open')
  <2>4. q = o - 1 /\ o \in Nat /\ free_ptrs \in Nat /\ Len(w) \in Nat
    BY <1>1, <2>3
  <2> HIDE DEF o, q
  <2>5. free_ptrs' + (q + Len(w')) = free_ptrs + (o + Len(w))
    BY <2>2, <2>4
  <2>6. free_ptrs' + (Cardinality(open') + Len(w')) = free_ptrs + taken
    BY <2>5 DEF o, q
  <2>7. ASSUME ~again' PROVE IsInjective(w') /\ ToSet(w') \subseteq open'
    BY <1>5, <1>7, <1>10, <2>1, <2>2, <2>7
  <2> QED
    BY <1>1, <1>6, <2>1, <2>2, <2>6, <2>7
<1>11. CASE QueueCall /\ Joins
  <2>1. /\ running \in Caller /\ running \notin open
        /\ open' = open \cup {running} /\ w' = w
        /\ free_ptrs > 0 /\ free_ptrs' = free_ptrs - 1
    BY <1>11 DEF Joins
  <2>2. Cardinality(open') = Cardinality(open) + 1
    BY <1>1, <2>1, FS_AddElement
  <2>3. free_ptrs' \in Nat
        /\ free_ptrs' + (Cardinality(open') + Len(w')) = free_ptrs + taken
    BY <1>1, <2>1, <2>2
  <2>4. ASSUME ~again' PROVE IsInjective(w') /\ ToSet(w') \subseteq open'
    BY <1>3, <1>7, <2>1, <2>4
  <2> QED
    BY <1>1, <1>6, <2>1, <2>3, <2>4
<1>12. CASE (QueueCall \/ UNCHANGED again) /\ Renews
  <2>1. ~named /\ open' = open /\ w' = <<>> /\ free_ptrs' = free_ptrs
    BY <1>12 DEF Renews, Begins
  <2>2. CASE again
    <3>1. Len(w') = 0 /\ w' \in Seq(Caller)
      BY <2>1
    <3>2. again'
      BY <1>12, <2>2 DEF QueueCall
    <3>3. WaitingTypes'
      BY <1>1, <1>3, <2>1, <3>1 DEF WaitingTypes
    <3>4. free_ptrs' + (Cardinality(open') + Len(w')) <= Descriptors
      BY <1>1, <1>2, <2>1, <3>1
    <3> QED
      BY <3>2, <3>3, <3>4 DEF Waiters, WaitersHaveItOpen, PtrsAccounted
  <2>3. CASE ~again
    <3>1. w' = w
      BY <2>1, <2>3, NoWaitersWithoutQueue
    <3> QED
      BY <1>1, <1>6, <1>7, <2>1, <2>3, <3>1
  <2> QED
    BY <2>2, <2>3
<1> QED
  BY <1>4, <1>8, <1>9, <1>10, <1>11, <1>12 DEF WaitersChange

LEMMA WaitersAtFirst ==
  ASSUME open = {}, waiting_descriptors = <<>>, free_ptrs = Descriptors, again = FALSE
  PROVE  Waiters /\ ToSet(waiting_descriptors) = {}
<1>1. Cardinality(open) = 0 /\ Len(waiting_descriptors) = 0
  BY FS_EmptySet
<1>2. IsInjective(waiting_descriptors) /\ ToSet(waiting_descriptors) = {}
  BY DEF IsInjective, ToSet
<1>3. waiting_descriptors \in Seq(Caller) /\ free_ptrs \in Nat /\ open \subseteq Caller
  BY SizesAssumption
<1>4. PtrsAccounted
  BY <1>1, SizesAssumption DEF PtrsAccounted
<1> QED
  BY <1>2, <1>3, <1>4 DEF Waiters, WaitingTypes, WaitersHaveItOpen

LEMMA WaitersHolds == Spec => []Waiters
<1>1. Init => Waiters
  BY WaitersAtFirst DEF Init
<1>2. Contents /\ Waiters /\ [Next]_vars => Waiters'
  BY CallsOnWaiters, WaitersStep
<1> QED
  BY <1>1, <1>2, ContentsHolds, PTL DEF Spec

\* A DescriptorPtr is in its pool, stands for an open descriptor or for a waiting
\* process, and for one of these only, however reads, writes, opens and closes
\* follow each other; all are, unless a process that waits makes a call.
THEOREM DescriptorPtrsAreAccounted == Spec => []PtrsAccounted
<1>1. Waiters => PtrsAccounted
  BY DEF Waiters
<1> QED
  BY <1>1, WaitersHolds, PTL

-----------------------------------------------------------------------------
(* Who waits for whom                                                      *)

\* How many messages must still leave, or come, until a process that waits finds
\* again what it found when it began to wait: a reader an empty queue, a writer a
\* full one.
Distance(p) ==
  IF p \in Reader THEN size ELSE MAX_NUM_MESSAGES_PER_MSG_QUEUE - size

\* Not all that have the queue open wait.
SomeoneRuns == Len(waiting_descriptors) < Cardinality(open)

\* Those that do not wait, and those that wait behind a process, are together at
\* least as many as its distance, and more than that until all wait.  A call that
\* makes the distance greater wakes somebody in front, and so does one that closes.
EnoughOthers ==
  ~again =>
    \A i \in 1..Len(waiting_descriptors) :
      Cardinality(open) - i >= Distance(waiting_descriptors[i])
                               + (IF SomeoneRuns THEN 1 ELSE 0)

Waiting == EnoughOthers /\ NobodyStuck

\* Each either reads or writes, and the queue can hold a message.
FairPlay == Reader \cap Writer = {} /\ MAX_NUM_MESSAGES_PER_MSG_QUEUE > 0

LEMMA WaitingFacts ==
  ASSUME Contents, Waiters
  PROVE  /\ waiting_descriptors \in Seq(Caller) /\ Len(waiting_descriptors) \in Nat
         /\ IsFiniteSet(open) /\ Cardinality(open) \in Nat /\ open \subseteq Caller
         /\ size \in Nat /\ MAX_NUM_MESSAGES_PER_MSG_QUEUE \in Nat
BY WaitersAre, SizesAssumption
   DEF Waiters, WaitingTypes, Contents, ContentsTypes

LEMMA CallerRuns ==
  ASSUME Waiters, QueueCall, ~again', running \in open
  PROVE  ~again /\ running \notin ToSet(waiting_descriptors) /\ SomeoneRuns
<1>1. ~again /\ running \notin ToSet(waiting_descriptors)
  BY CallerIsNotBlocked DEF Waiters, WaitingTypes
<1>2. /\ IsInjective(waiting_descriptors)
      /\ ToSet(waiting_descriptors) \in SUBSET open
      /\ ToSet(waiting_descriptors) # open
  BY <1>1 DEF Waiters, WaitersHaveItOpen
<1>3. Cardinality(ToSet(waiting_descriptors)) = Len(waiting_descriptors)
      /\ Len(waiting_descriptors) \in Nat
  BY <1>2, DistinctElements, Elements DEF Waiters, WaitingTypes
<1>4. SomeoneRuns
  BY <1>2, <1>3, WaitersAre, FS_Subset DEF Waiters, SomeoneRuns
<1> QED
  BY <1>1, <1>4

LEMMA BlocksKeeps ==
  ASSUME Contents, Waiters, Waiting, FairPlay, QueueCall, Blocks, ~again'
  PROVE  EnoughOthers' /\ NobodyStuck'
<1> DEFINE w == waiting_descriptors
           n == Len(w)
<1>1. /\ w \in Seq(Caller) /\ n \in Nat /\ running \in Caller
      /\ Cardinality(open) \in Nat /\ IsFiniteSet(open)
      /\ size \in Nat /\ MAX_NUM_MESSAGES_PER_MSG_QUEUE \in Nat
  BY WaitingFacts DEF QueueCall
<1>2. /\ running \in open /\ w' = Append(w, running)
      /\ open' = open /\ size' = size
  BY DEF Blocks
<1>3. ~again /\ running \notin ToSet(w) /\ n < Cardinality(open)
  BY <1>2, CallerRuns DEF SomeoneRuns
<1>4. /\ Append(w, running) \in Seq(Caller)
      /\ Len(Append(w, running)) = n + 1
      /\ \A i \in 1..n : Append(w, running)[i] = w[i]
      /\ Append(w, running)[n + 1] = running
  BY <1>1
<1>5. Distance(running) = 0 /\ size <= MAX_NUM_MESSAGES_PER_MSG_QUEUE
  <2>1. named /\ size = Messages /\ size <= MAX_NUM_MESSAGES_PER_MSG_QUEUE
    BY <1>2 DEF Contents, NoQueue, MessagesCounted
  <2>2. CASE running \in Reader /\ Empty
    <3>1. Places = {}
      BY <2>2 DEF Empty, Places
    <3> QED
      BY <2>1, <2>2, <3>1, PlacesAre DEF Distance, Contents
  <2>3. CASE running \in Writer /\ Full
    BY <1>1, <2>1, <2>3 DEF Distance, FairPlay, Full
  <2> QED
    BY <2>2, <2>3 DEF Blocks
<1>9. \A i \in 1..n : Cardinality(open) - i >= Distance(w[i]) + 1
  BY <1>3 DEF Waiting, EnoughOthers, SomeoneRuns
<1>10. \A p \in Caller : Distance(p) \in Int
  BY <1>1, <1>2 DEF Distance
<1>11. EnoughOthers'
  <2> SUFFICES ASSUME NEW i \in 1..(n + 1)
               PROVE  Cardinality(open) - i >= Distance(w'[i])
                        + (IF SomeoneRuns' THEN 1 ELSE 0)
    BY <1>2, <1>4 DEF EnoughOthers, Distance
  <2>1. SomeoneRuns' <=> n + 1 < Cardinality(open)
    BY <1>2, <1>4 DEF SomeoneRuns
  <2>2. CASE i \in 1..n
    <3>1. w'[i] = w[i] /\ w[i] \in Caller
      BY <1>1, <1>2, <1>4, <2>2
    <3> QED
      BY <1>1, <1>9, <1>10, <2>2, <3>1
  <2>3. CASE i = n + 1
    <3>1. w'[i] = running /\ Distance(w'[i]) = 0
      BY <1>1, <1>2, <1>4, <1>5, <2>3
    <3> QED
      BY <1>1, <1>3, <2>1, <2>3, <3>1
  <2> QED
    BY <1>1, <2>2, <2>3
<1>12. NobodyStuck'
  <2> SUFFICES ASSUME NEW r \in Reader, NEW x \in Writer, open = {r, x},
                      r \in ToSet(w'), x \in ToSet(w')
               PROVE  FALSE
    BY <1>2 DEF NobodyStuck, Blocked
  <2>1. ToSet(w') = ToSet(w) \cup {running}
    BY <1>1, <1>2, InsertLast
  <2>2. r # x
    BY DEF FairPlay
  <2>3. Cardinality(open) = 2
    <3>1. Cardinality({r}) = 1 /\ IsFiniteSet({r})
      BY FS_Singleton
    <3>2. open = {r} \cup {x}
      OBVIOUS
    <3> QED
      BY <2>2, <3>1, <3>2, FS_AddElement
  <2>4. PICK y \in {r, x} : y # running /\ y \in ToSet(w)
    BY <2>1, <2>2, <1>2
  <2>5. PICK i \in 1..n : y = w[i]
    BY <1>1, <2>4, Elements
  <2>6. Distance(y) <= 0
    <3>1. 2 - i >= Distance(y) + 1
      BY <1>9, <2>3, <2>5
    <3>2. y \in Caller
      BY <1>1, <2>5, Elements
    <3> HIDE DEF n
    <3>3. i \in Nat /\ i >= 1
      BY <1>1
    <3> QED
      BY <1>10, <3>1, <3>2, <3>3
  <2>7. CASE running = r
    BY <1>1, <1>5, <2>2, <2>4, <2>6, <2>7 DEF FairPlay, Distance
  <2>8. CASE running = x
    BY <1>1, <1>5, <2>2, <2>4, <2>6, <2>8 DEF FairPlay, Distance
  <2> QED
    BY <1>2, <2>7, <2>8
<1> QED
  BY <1>11, <1>12

\* Who calls is not blocked before, and not after a call that goes through.
LEMMA CallerNotStuck ==
  ASSUME NEW p, open' = open, p \in open, p \notin ToSet(waiting_descriptors')
  PROVE  NobodyStuck'
BY DEF NobodyStuck, Blocked

LEMMA PassesKeeps ==
  ASSUME Contents, Waiters, Waiting, QueueCall, Passes, size' \in Nat, ~again'
  PROVE  EnoughOthers' /\ NobodyStuck'
<1> DEFINE w == waiting_descriptors
<1>1. /\ w \in Seq(Caller) /\ Len(w) \in Nat
      /\ Cardinality(open) \in Nat
      /\ size \in Nat /\ MAX_NUM_MESSAGES_PER_MSG_QUEUE \in Nat
  BY WaitingFacts
<1>2. /\ running \in open /\ open' = open /\ size' \in {size - 1, size + 1}
      /\ WakeOne(0)
  BY DEF Passes
<1>3. ~again /\ running \notin ToSet(w) /\ SomeoneRuns
  BY <1>2, CallerRuns
<1>4. /\ ToSet(w') \subseteq ToSet(w)
      /\ \A i \in 1..Len(w') : i + 1 \in 1..Len(w) /\ w'[i] = w[i + 1]
      /\ Len(w') \in Nat
  BY <1>1, <1>2, OneIsWoken DEF Waiters
<1>7. EnoughOthers'
  <2> DEFINE D(p) == IF p \in Reader THEN size'
                     ELSE MAX_NUM_MESSAGES_PER_MSG_QUEUE - size'
  <2> SUFFICES ASSUME NEW i \in 1..Len(w')
               PROVE  Cardinality(open) - i >= D(w'[i])
                        + (IF SomeoneRuns' THEN 1 ELSE 0)
    BY <1>2 DEF EnoughOthers, Distance
  <2>1. i + 1 \in 1..Len(w) /\ w'[i] = w[i + 1] /\ i \in Nat
    BY <1>4
  <2>2. Cardinality(open) - (i + 1) >= Distance(w[i + 1]) + 1
    BY <1>3, <2>1 DEF Waiting, EnoughOthers
  <2>3. \A p : D(p) <= Distance(p) + 1 /\ D(p) \in Int /\ Distance(p) \in Int
    <3> TAKE p
    <3>1. /\ size' = size - 1 \/ size' = size + 1
          /\ size \in Int /\ size' \in Int
          /\ MAX_NUM_MESSAGES_PER_MSG_QUEUE \in Int
      BY <1>1, <1>2
    <3>2. CASE p \in Reader
      BY <3>1, <3>2 DEF Distance
    <3>3. CASE p \notin Reader
      <4>1. /\ D(p) = MAX_NUM_MESSAGES_PER_MSG_QUEUE - size'
            /\ Distance(p) = MAX_NUM_MESSAGES_PER_MSG_QUEUE - size
        BY <3>3 DEF Distance
      <4> HIDE DEF D
      <4>2. CASE size' = size - 1
        BY <3>1, <4>1, <4>2
      <4>3. CASE size' = size + 1
        BY <3>1, <4>1, <4>3
      <4> QED
        BY <3>1, <4>2, <4>3
    <3> QED
      BY <3>2, <3>3
  <2> DEFINE one == IF SomeoneRuns' THEN 1 ELSE 0
  <2>4. one \in Int /\ one <= 1
    OBVIOUS
  <2> HIDE DEF D, one
  <2>5. /\ D(w'[i]) <= Distance(w[i + 1]) + 1
        /\ D(w'[i]) \in Int /\ Distance(w[i + 1]) \in Int
    BY <2>1, <2>3
  <2>6. Cardinality(open) - i >= D(w'[i]) + one
    BY <1>1, <2>1, <2>2, <2>4, <2>5
  <2> QED
    BY <2>6 DEF one
<1>8. NobodyStuck'
  BY <1>2, <1>3, <1>4, CallerNotStuck
<1> QED
  BY <1>7, <1>8

LEMMA LeavesKeeps ==
  ASSUME Contents, Waiters, Waiting, QueueCall, Leaves, ~again'
  PROVE  EnoughOthers' /\ NobodyStuck'
<1> DEFINE w == waiting_descriptors
<1>1. /\ w \in Seq(Caller) /\ Len(w) \in Nat
      /\ IsFiniteSet(open) /\ Cardinality(open) \in Nat
      /\ size \in Nat /\ MAX_NUM_MESSAGES_PER_MSG_QUEUE \in Nat
  BY WaitingFacts
<1>2. /\ running \in open /\ open' = open \ {running} /\ size' = size
      /\ WakeOne(1)
  BY DEF Leaves
<1>3. ~again /\ running \notin ToSet(w) /\ SomeoneRuns
  BY <1>2, CallerRuns
<1>4. /\ w' \in Seq(Caller) /\ (IsInjective(w) => IsInjective(w'))
      /\ ToSet(w') \subseteq ToSet(w) /\ Len(w') \in Nat
      /\ \A i \in 1..Len(w') : i + 1 \in 1..Len(w) /\ w'[i] = w[i + 1]
      /\ Len(w') > 0 => Len(w') = Len(w) - 1
  BY <1>1, <1>2, OneIsWoken DEF Waiters
<1>5. Cardinality(open') = Cardinality(open) - 1 /\ IsFiniteSet(open')
  BY <1>1, <1>2, FS_RemoveElement
<1>6. IsInjective(w)
  BY <1>3 DEF Waiters, WaitersHaveItOpen
<1>8. EnoughOthers'
  <2> SUFFICES ASSUME NEW i \in 1..Len(w')
               PROVE  Cardinality(open') - i >= Distance(w'[i])
                        + (IF SomeoneRuns' THEN 1 ELSE 0)
    BY <1>2 DEF EnoughOthers, Distance
  <2>1. i + 1 \in 1..Len(w) /\ w'[i] = w[i + 1] /\ i \in Nat
    BY <1>4
  <2>2. Cardinality(open) - (i + 1) >= Distance(w[i + 1]) + 1
    BY <1>3, <2>1 DEF Waiting, EnoughOthers
  <2>3. Distance(w[i + 1]) \in Int
    BY <1>1 DEF Distance
  <2> QED
    BY <1>1, <1>5, <2>1, <2>2, <2>3
<1>9. NobodyStuck'
  <2> SUFFICES ASSUME open' \subseteq ToSet(w'), Len(w') > 0
               PROVE  FALSE
    <3>1. ASSUME NEW r \in Reader, NEW x \in Writer, open' = {r, x},
                 r \in ToSet(w'), x \in ToSet(w')
          PROVE  open' \subseteq ToSet(w') /\ Len(w') > 0
      <4>1. PICK i \in 1..Len(w') : r = w'[i]
        BY <1>4, <3>1, Elements
      <4> QED
        BY <1>4, <3>1, <4>1
    <3> QED
      BY <3>1 DEF NobodyStuck, Blocked
  <2>1. Cardinality(ToSet(w')) = Len(w') /\ IsFiniteSet(ToSet(w'))
    BY <1>4, <1>6, DistinctElements
  <2>2. Cardinality(open') <= Len(w')
    BY <2>1, FS_Subset
  <2> QED
    BY <1>1, <1>3, <1>4, <1>5, <2>2 DEF SomeoneRuns
<1> QED
  BY <1>8, <1>9

LEMMA JoinsKeeps ==
  ASSUME Contents, Waiters, Waiting, ~again, Joins
  PROVE  EnoughOthers' /\ NobodyStuck'
<1> DEFINE w == waiting_descriptors
<1>1. /\ w \in Seq(Caller) /\ Len(w) \in Nat
      /\ IsFiniteSet(open) /\ Cardinality(open) \in Nat
      /\ size \in Nat /\ MAX_NUM_MESSAGES_PER_MSG_QUEUE \in Nat
  BY WaitingFacts
<1>2. /\ running \in Caller /\ running \notin open
      /\ open' = open \cup {running} /\ w' = w /\ size' = size
  BY DEF Joins
<1>3. Cardinality(open') = Cardinality(open) + 1
  BY <1>1, <1>2, FS_AddElement
<1>6. EnoughOthers'
  <2> SUFFICES ASSUME NEW i \in 1..Len(w)
               PROVE  Cardinality(open') - i >= Distance(w[i])
                        + (IF SomeoneRuns' THEN 1 ELSE 0)
    BY <1>2 DEF EnoughOthers, Distance
  <2>1. Cardinality(open) - i >= Distance(w[i])
    <3>1. Distance(w[i]) \in Int
      BY <1>1 DEF Distance
    <3> QED
      BY <1>1, <3>1 DEF Waiting, EnoughOthers
  <2>2. Distance(w[i]) \in Int
    BY <1>1 DEF Distance
  <2> QED
    BY <1>1, <1>3, <2>1, <2>2
<1>7. NobodyStuck'
  BY <1>2 DEF Waiters, WaitersHaveItOpen, NobodyStuck, Blocked
<1> QED
  BY <1>6, <1>7

LEMMA WaitingStep ==
  ASSUME Contents, Waiters, Waiting, FairPlay, [Next]_vars
  PROVE  Waiting'
<1> SUFFICES ASSUME ~again' PROVE EnoughOthers' /\ NobodyStuck'
  BY DEF Waiting, EnoughOthers, NobodyStuck
<1>1. size' \in Nat
  BY ContentsStep DEF Contents, ContentsTypes
<1>2. WaitersChange
  BY CallsOnWaiters
<1>3. ~again
  BY <1>2 DEF WaitersChange, QueueCall, Waiters, WaitingTypes
<1>4. CASE Stays
  BY <1>3, <1>4 DEF Stays, Waiting, EnoughOthers, Distance, SomeoneRuns,
                    NobodyStuck, Blocked
<1>5. CASE Renews
  BY <1>5 DEF Renews, Begins, Contents, NoQueue, EnoughOthers, NobodyStuck
<1> QED
  BY <1>1, <1>2, <1>3, <1>4, <1>5, BlocksKeeps, PassesKeeps, LeavesKeeps, JoinsKeeps
     DEF WaitersChange

LEMMA WaitingHolds ==
  ASSUME FairPlay
  PROVE  Spec => []Waiting
<1>1. Init => Waiting
  BY DEF Init, Waiting, EnoughOthers, NobodyStuck
<1>2. Contents /\ Waiters /\ Waiting /\ [Next]_vars => Waiting'
  BY WaitingStep
<1> QED
  BY <1>1, <1>2, ContentsHolds, WaitersHolds, PTL DEF Spec

\* A reader and a writer that are left with the queue never wait for each other,
\* however many processes read, wrote and waited before them, until a process that
\* waits makes a call.
THEOREM ReaderAndWriterDoNotBlockEachOther ==
  ASSUME FairPlay
  PROVE  Spec => []NobodyStuck
<1>1. Waiting => NobodyStuck
  BY DEF Waiting
<1> QED
  BY <1>1, WaitingHolds, PTL

-----------------------------------------------------------------------------
(* What the calls of linked_list.c do to the lists of the scheduler        *)

Lists == {"ready", "waiting", "zombie"}
Has(h, c) == Contain(h, Proc, Lists, NULL, c)

LEMMA PointersAreTyped ==
  ASSUME NEW h, NEW c, Has(h, c)
  PROVE  h.next \in [Proc -> Proc \cup {NULL}] /\ h.prev \in [Proc -> Proc \cup {NULL}]
BY DEF Has, Contain, Holds

\* The forms that Link and List_detach have in SequenceLemmas.
LEMMA LinkIs ==
  ASSUME NEW h, NEW c, Has(h, c), NEW l \in Lists, NEW x \in Proc,
         NEW p \in Proc \cup {NULL}, NEW n \in Proc \cup {NULL},
         n = IF p # NULL THEN h.next[p] ELSE h.head[l].first,
         x # p, x # n, h.next[x] = NULL, h.prev[x] = NULL
  PROVE  Link(h, l, p, x) = LinkBetween(h, Proc, NULL, l, p, x, n)
<1>1. h.next \in [Proc -> Proc \cup {NULL}] /\ h.prev \in [Proc -> Proc \cup {NULL}]
  BY PointersAreTyped
<1>2. Store(Store(h.next, p, x), IF n = NULL THEN NULL ELSE x, n)
        = [y \in Proc |-> IF y = p THEN x ELSE IF y = x THEN n ELSE h.next[y]]
  BY <1>1, CastAssumption DEF Store
<1>3. Store(Store(h.prev, IF p = NULL THEN NULL ELSE x, p), n, x)
        = [y \in Proc |-> IF y = n THEN x ELSE IF y = x THEN p ELSE h.prev[y]]
  BY <1>1, CastAssumption DEF Store
<1> QED
  BY <1>2, <1>3 DEF Link, LinkBetween

LEMMA DetachIs ==
  ASSUME NEW h, NEW c, Has(h, c), NEW l \in Lists, NEW x \in Proc,
         h.prev[x] \in Proc \cup {NULL}, h.next[x] \in Proc \cup {NULL}
  PROVE  List_detach(h, l, x) = Unlink(h, Proc, NULL, l, x)
<1>1. h.next \in [Proc -> Proc \cup {NULL}] /\ h.prev \in [Proc -> Proc \cup {NULL}]
  BY PointersAreTyped
<1>2. NextWithout(h, x)
        = [y \in Proc |-> IF y = x THEN NULL
                          ELSE IF y = h.prev[x] THEN h.next[x] ELSE h.next[y]]
  BY <1>1, CastAssumption DEF Store, NextWithout
<1>3. PrevWithout(h, x)
        = [y \in Proc |-> IF y = x THEN NULL
                          ELSE IF y = h.next[x] THEN h.prev[x] ELSE h.prev[y]]
  BY <1>1, CastAssumption DEF Store, PrevWithout
<1> QED
  BY <1>2, <1>3 DEF List_detach, HeadWithout, Unlink

LEMMA AppendPuts ==
  ASSUME NEW h, NEW c, Has(h, c), NEW l \in Lists, NEW x \in Proc,
         \A m \in Lists : x \notin c[m]
  PROVE  Has(List_append(h, l, x), [c EXCEPT ![l] = c[l] \cup {x}])
<1>1. PICK p : p = h.head[l].last
  OBVIOUS
<1>2. PICK n : n = IF p # NULL THEN h.next[p] ELSE h.head[l].first
  OBVIOUS
<1>3. Contain(h, Proc, Lists, NULL, c) /\ NULL \notin Proc
  BY CastAssumption DEF Has
<1>4. /\ Contain(LinkBetween(h, Proc, NULL, l, p, x, n), Proc, Lists, NULL,
                 [c EXCEPT ![l] = c[l] \cup {x}])
      /\ h.next[x] = NULL /\ h.prev[x] = NULL
      /\ p \in Proc \cup {NULL} /\ n \in Proc \cup {NULL} /\ x # p /\ x # n
  <2>1. PutsIn(h, Proc, Lists, NULL, c, l, x, p, n)
    BY <1>1, <1>2, <1>3, ContentsInsert
  <2> QED
    BY <2>1 DEF PutsIn
<1>5. List_append(h, l, x) = Link(h, l, p, x)
  BY <1>1, <1>4 DEF List_append, List_insert, Refused
<1> QED
  BY <1>2, <1>4, <1>5, LinkIs DEF Has

LEMMA DetachTakes ==
  ASSUME NEW h, NEW c, Has(h, c), NEW l \in Lists, NEW x \in c[l]
  PROVE  Has(List_detach(h, l, x), [c EXCEPT ![l] = c[l] \ {x}])
<1>1. Contain(h, Proc, Lists, NULL, c) /\ NULL \notin Proc
  BY CastAssumption DEF Has
<1>2. /\ Contain(Unlink(h, Proc, NULL, l, x), Proc, Lists, NULL,
                 [c EXCEPT ![l] = c[l] \ {x}])
      /\ h.prev[x] \in Proc \cup {NULL} /\ h.next[x] \in Proc \cup {NULL}
  <2>1. TakesOut(h, Proc, Lists, NULL, c, l, x)
    BY <1>1, ContentsDetach
  <2> QED
    BY <2>1 DEF TakesOut
<1>3. x \in Proc
  <2>1. c \in [Lists -> SUBSET Proc]
    BY <1>1, ContentsAre
  <2> QED
    BY <2>1
<1> QED
  BY <1>2, <1>3, DetachIs DEF Has

\* What has a neighbour is not put into a second list, nor again into its own.
LEMMA AppendRefuses ==
  ASSUME NEW h, NEW c, Has(h, c), NEW l, NEW m \in Lists,
         NEW x \in c[m], NEW y \in c[m], x # y
  PROVE  List_append(h, l, x) = h
<1>1. Contain(h, Proc, Lists, NULL, c) /\ NULL \notin Proc
  BY CastAssumption DEF Has
<1>2. h.next[x] # NULL \/ h.prev[x] # NULL
  BY <1>1, ContentsNeighbour
<1> QED
  BY <1>2 DEF List_append, List_insert, Refused

\* A list that is held is what a walk through it finds.
LEMMA ListsAreRead ==
  ASSUME NEW h, NEW c, Has(h, c), NEW l \in Lists
  PROVE  /\ Members(h, l) = c[l]
         /\ \E s \in SetToSeqs(c[l]) : Represents(h, l, s)
<1>1. PICK o : Holds(h, Proc, Lists, NULL, o) /\ c = [m \in Lists |-> ToSet(o[m])]
  BY DEF Has, Contain
<1> DEFINE s == o[l]
<1>2. Sound(h, Proc, NULL, l, s)
  BY <1>1, HeapLists, CastAssumption
<1>3. c[l] = ToSet(s) /\ h.head[l] = EndsOf(s, NULL)
  BY <1>1 DEF Holds
<1> HIDE DEF s
<1>4. /\ s \in Seq(Proc) /\ IsInjective(s) /\ Linked(h.next, h.prev, NULL, s)
      /\ h.head[l].first = IF s = <<>> THEN NULL ELSE s[1]
  BY <1>2 DEF Sound
<1>5. Represents(h, l, s)
  BY <1>3, <1>4 DEF Represents, Linked, EndsOf
<1>6. Members(h, l) = WalkFrom(h.head[l].first, h.next, NULL, Cardinality(Proc))
  BY DEF Members, WalkFrom
<1>7. Members(h, l) = c[l]
  BY <1>3, <1>4, <1>6, WalkPassesAll, CastAssumption
<1>8. s \in SetToSeqs(c[l])
  <2>1. /\ Cardinality(c[l]) = Len(s)
        /\ s \in [1..Len(s) -> c[l]]
        /\ \A i, j \in 1..Len(s) : i # j => s[i] # s[j]
    BY <1>3, <1>4, DistinctElements, Elements
  <2> QED
    BY <2>1 DEF SetToSeqs
<1> QED
  BY <1>5, <1>7, <1>8

\* A list of processes that are in none, as Init makes it.
LEMMA ListingPuts ==
  ASSUME NEW h, NEW c, Has(h, c), NEW l \in Lists, NEW s \in Seq(Proc), IsInjective(s),
         \A m \in Lists : ToSet(s) \cap c[m] = {}
  PROVE  Has(Listing(h, l, s), [c EXCEPT ![l] = c[l] \cup ToSet(s)])
<1> DEFINE N == Len(s)
           Listed(f, n) == f = [k \in 0..n |-> IF k = 0 THEN h
                                               ELSE List_append(f[k - 1], l, s[k])]
           Upto(n) == {s[k] : k \in 1..n}
           Now(n) == [c EXCEPT ![l] = c[l] \cup Upto(n)]
<1>1. N \in Nat /\ \A k \in 1..N : s[k] \in Proc
  BY Elements
<1>2. /\ \A i, j \in 1..N : s[i] = s[j] => i = j
      /\ ToSet(s) = Upto(N)
  BY Elements
<1>3. c \in [Lists -> SUBSET Proc]
  BY ContentsAre, CastAssumption DEF Has
<1> HIDE DEF N
<1>4. ASSUME NEW f, NEW n \in Nat, Listed(f, n)
      PROVE  \E g : Listed(g, n + 1)
  <2> DEFINE g == [k \in 0..(n + 1) |-> IF k \in 0..n THEN f[k]
                                        ELSE List_append(f[n], l, s[k])]
  <2>1. \A k \in 0..(n + 1) :
          g[k] = IF k = 0 THEN h ELSE List_append(g[k - 1], l, s[k])
    <3> SUFFICES ASSUME NEW k \in 0..(n + 1)
                 PROVE  g[k] = IF k = 0 THEN h ELSE List_append(g[k - 1], l, s[k])
      OBVIOUS
    <3>1. CASE k = 0
      <4>1. 0 \in 0..n
        OBVIOUS
      <4> QED
        BY <1>4, <3>1, <4>1
    <3>2. CASE k \in 1..n
      <4>1. k \in 0..n /\ k - 1 \in 0..n /\ k - 1 \in 0..(n + 1) /\ k # 0
        BY <3>2
      <4>2. g[k] = f[k] /\ g[k - 1] = f[k - 1]
        BY <4>1
      <4>3. f[k] = List_append(f[k - 1], l, s[k])
        BY <1>4, <4>1
      <4> QED
        BY <4>1, <4>2, <4>3
    <3>3. CASE k = n + 1
      <4>1. k \notin 0..n /\ k - 1 = n /\ n \in 0..n /\ n \in 0..(n + 1) /\ k # 0
        BY <3>3
      <4>2. g[k] = List_append(f[n], l, s[k]) /\ g[n] = f[n]
        BY <4>1
      <4> QED
        BY <4>1, <4>2
    <3> QED
      BY <3>1, <3>2, <3>3
  <2>2. Listed(g, n + 1)
    <3>1. g = [k \in 0..(n + 1) |-> g[k]]
      OBVIOUS
    <3> HIDE DEF g
    <3> QED
      BY <2>1, <3>1
  <2> HIDE DEF g, Listed
  <2> QED
    BY <2>2
<1>5. ASSUME NEW n \in Nat PROVE \E f : Listed(f, n)
  <2> DEFINE D == {k \in Nat : ~\E f : Listed(f, k)}
  <2>1. \E f : Listed(f, 0)
    <3> DEFINE g == [k \in 0..0 |-> h]
    <3>1. Listed(g, 0)
      <4>1. \A k \in 0..0 : k = 0
        OBVIOUS
      <4> QED
        BY <4>1
    <3> HIDE DEF g, Listed
    <3> QED
      BY <3>1
  <2> HIDE DEF Listed
  <2>2. ASSUME D # {} PROVE FALSE
    <3>1. D \in SUBSET Nat
      OBVIOUS
    <3> DEFINE k == Min(D)
    <3>2. k \in D /\ \A i \in D : k <= i
      <4> HIDE DEF D
      <4> QED
        BY <2>2, <3>1, LeastPosition
    <3> HIDE DEF k
    <3>3. k \in Nat /\ ~\E f : Listed(f, k)
      BY <3>2
    <3>4. k # 0
      BY <2>1, <3>3
    <3>5. k - 1 \in Nat /\ ~(k <= k - 1) /\ (k - 1) + 1 = k
      BY <3>3, <3>4
    <3>6. PICK f : Listed(f, k - 1)
      BY <3>2, <3>5
    <3> QED
      BY <1>4, <3>3, <3>5, <3>6
  <2> QED
    BY <2>2
<1>6. ASSUME NEW f, Listed(f, N)
      PROVE  Has(f[N], Now(N))
  <2>1. f[0] = h
    BY <1>1, <1>6
  <2>2. \A k \in 1..N : f[k] = List_append(f[k - 1], l, s[k])
    <3>1. \A k \in 1..N : k \in 0..N /\ k # 0
      BY <1>1
    <3> QED
      BY <1>6, <3>1
  <2> HIDE DEF Listed
  <2>3. Now(0) = c
    <3>1. Upto(0) = {}
      OBVIOUS
    <3> HIDE DEF Upto
    <3> QED
      BY <1>3, <3>1
  <2>4. ASSUME NEW k \in 1..N, Has(f[k - 1], Now(k - 1))
        PROVE  Has(f[k], Now(k))
    <3>1. k - 1 \in Nat /\ k \in Nat /\ 1..k = (1..(k - 1)) \cup {k}
      BY <1>1
    <3>2. Upto(k) = Upto(k - 1) \cup {s[k]} /\ s[k] \in Proc
      BY <1>1, <3>1
    <3>3. s[k] \notin Upto(k - 1) /\ s[k] \in ToSet(s)
      <4>1. \A i \in 1..(k - 1) : i \in 1..N /\ i # k
        BY <1>1, <3>1
      <4> QED
        BY <1>2, <4>1
    <3> HIDE DEF Upto
    <3>4. \A m \in Lists : s[k] \notin Now(k - 1)[m]
      BY <1>3, <3>3
    <3>5. Now(k) = [Now(k - 1) EXCEPT ![l] = Now(k - 1)[l] \cup {s[k]}]
      <4>1. Now(k - 1)[l] = c[l] \cup Upto(k - 1)
        BY <1>3
      <4> QED
        BY <1>3, <3>2, <4>1
    <3> HIDE DEF Now
    <3> QED
      BY <2>2, <2>4, <3>2, <3>4, <3>5, AppendPuts
  <2> DEFINE D == {k \in 0..N : ~Has(f[k], Now(k))}
  <2> HIDE DEF Now
  <2>5. ASSUME D # {} PROVE FALSE
    <3>1. D \in SUBSET Nat
      BY <1>1
    <3> DEFINE k == Min(D)
    <3>2. k \in D /\ \A i \in D : k <= i
      <4> HIDE DEF D
      <4> QED
        BY <2>5, <3>1, LeastPosition
    <3> HIDE DEF k
    <3>3. k \in 0..N /\ ~Has(f[k], Now(k))
      BY <3>2
    <3>4. k # 0
      BY <2>1, <2>3, <3>3
    <3>5. k \in 1..N /\ k - 1 \in 0..N /\ ~(k <= k - 1)
      BY <1>1, <3>3, <3>4
    <3>6. Has(f[k - 1], Now(k - 1))
      BY <3>2, <3>5
    <3> QED
      BY <2>4, <3>3, <3>5, <3>6
  <2>6. N \in 0..N
    BY <1>1
  <2> QED
    BY <2>5, <2>6
<1>7. Listing(h, l, s) = (CHOOSE f : Listed(f, N))[N]
  BY DEF Listing, N
<1>8. Listed(CHOOSE f : Listed(f, N), N)
  <2> HIDE DEF Listed
  <2> QED
    BY <1>1, <1>5
<1>9. Now(N) = [c EXCEPT ![l] = c[l] \cup ToSet(s)]
  BY <1>2
<1> HIDE DEF Listed, Now
<1> QED
  BY <1>6, <1>7, <1>8, <1>9

-----------------------------------------------------------------------------
(* Where the processes are                                                 *)

\* Which processes are in the ready list, in the waiting list and in the third.
Laid(r, w, z) ==
  [l \in Lists |-> IF l = "ready" THEN r ELSE IF l = "waiting" THEN w ELSE z]

LEMMA LaidIs ==
  ASSUME NEW r, NEW w, NEW z
  PROVE  /\ Laid(r, w, z)["ready"] = r /\ Laid(r, w, z)["waiting"] = w
         /\ Laid(r, w, z)["zombie"] = z
         /\ "ready" \in Lists /\ "waiting" \in Lists /\ "zombie" \in Lists
BY DEF Laid, Lists

\* A list is empty when it has no first item.
LEMMA FirstOf ==
  ASSUME NEW h, NEW c, Has(h, c), NEW l \in Lists
  PROVE  /\ c[l] = {} => h.head[l].first = NULL
         /\ c[l] # {} => h.head[l].first \in c[l] /\ h.head[l].first # NULL
<1>1. Contain(h, Proc, Lists, NULL, c) /\ NULL \notin Proc
  BY CastAssumption DEF Has
<1>2. PICK o : Holds(h, Proc, Lists, NULL, o) /\ c = [m \in Lists |-> ToSet(o[m])]
  BY <1>1 DEF Contain
<1>3. PICK s : s = o[l]
  OBVIOUS
<1>4. Sound(h, Proc, NULL, l, s) /\ c[l] = ToSet(s)
  BY <1>1, <1>2, <1>3, HeapLists
<1>5. s # <<>> => 1 \in 1..Len(s) /\ s[1] \in ToSet(s)
  BY <1>4 DEF Sound
<1>6. s = <<>> => ToSet(s) = {}
  BY <1>4 DEF Sound
<1>7. c \in [Lists -> SUBSET Proc]
  BY <1>1, ContentsAre
<1> QED
  BY <1>1, <1>4, <1>5, <1>6, <1>7 DEF Sound

\* A process that is in no list is put into one.
LEMMA LaidPut ==
  ASSUME NEW h, NEW r, NEW w, NEW z, Has(h, Laid(r, w, z)),
         NEW x \in Proc, x \notin r, x \notin w, x \notin z
  PROVE  /\ Has(List_append(h, "ready", x), Laid(r \cup {x}, w, z))
         /\ Has(List_append(h, "waiting", x), Laid(r, w \cup {x}, z))
         /\ Has(List_append(h, "zombie", x), Laid(r, w, z \cup {x}))
<1>1. PICK c : c = Laid(r, w, z)
  OBVIOUS
<1>2. \A m \in Lists : x \notin c[m]
  BY <1>1 DEF Laid
<1>3. \A l \in Lists : Has(List_append(h, l, x), [c EXCEPT ![l] = c[l] \cup {x}])
  BY <1>1, <1>2, AppendPuts
<1>4. /\ [c EXCEPT !["ready"] = c["ready"] \cup {x}] = Laid(r \cup {x}, w, z)
      /\ [c EXCEPT !["waiting"] = c["waiting"] \cup {x}] = Laid(r, w \cup {x}, z)
      /\ [c EXCEPT !["zombie"] = c["zombie"] \cup {x}] = Laid(r, w, z \cup {x})
  BY <1>1 DEF Laid, Lists
<1>5. "ready" \in Lists /\ "waiting" \in Lists /\ "zombie" \in Lists
  BY LaidIs
<1>6. Has(List_append(h, "ready", x), Laid(r \cup {x}, w, z))
  BY <1>3, <1>4, <1>5
<1>7. Has(List_append(h, "waiting", x), Laid(r, w \cup {x}, z))
  BY <1>3, <1>4, <1>5
<1>8. Has(List_append(h, "zombie", x), Laid(r, w, z \cup {x}))
  BY <1>3, <1>4, <1>5
<1> QED
  BY <1>6, <1>7, <1>8

\* A process leaves the list that it is in.
LEMMA LaidTake ==
  ASSUME NEW h, NEW r, NEW w, NEW z, Has(h, Laid(r, w, z)), NEW x
  PROVE  /\ x \in r => Has(List_detach(h, "ready", x), Laid(r \ {x}, w, z))
         /\ x \in w => Has(List_detach(h, "waiting", x), Laid(r, w \ {x}, z))
         /\ x \in z => Has(List_detach(h, "zombie", x), Laid(r, w, z \ {x}))
<1>1. PICK c : c = Laid(r, w, z)
  OBVIOUS
<1>2. \A l \in Lists : x \in c[l] => Has(List_detach(h, l, x), [c EXCEPT ![l] = c[l] \ {x}])
  BY <1>1, DetachTakes
<1>3. /\ [c EXCEPT !["ready"] = c["ready"] \ {x}] = Laid(r \ {x}, w, z)
      /\ [c EXCEPT !["waiting"] = c["waiting"] \ {x}] = Laid(r, w \ {x}, z)
      /\ [c EXCEPT !["zombie"] = c["zombie"] \ {x}] = Laid(r, w, z \ {x})
  BY <1>1 DEF Laid, Lists
<1>4. /\ c["ready"] = r /\ c["waiting"] = w /\ c["zombie"] = z
      /\ "ready" \in Lists /\ "waiting" \in Lists /\ "zombie" \in Lists
  BY <1>1, LaidIs
<1>5. x \in r => Has(List_detach(h, "ready", x), Laid(r \ {x}, w, z))
  BY <1>2, <1>3, <1>4
<1>6. x \in w => Has(List_detach(h, "waiting", x), Laid(r, w \ {x}, z))
  BY <1>2, <1>3, <1>4
<1>7. x \in z => Has(List_detach(h, "zombie", x), Laid(r, w, z \ {x}))
  BY <1>2, <1>3, <1>4
<1> QED
  BY <1>5, <1>6, <1>7

\* Of the processes L, run has the CPU, those of W wait and the others are ready;
\* those of Z are zombies.  Who has the CPU may have begun to wait.
Placed(h, run, L, W, Z) ==
  /\ run \in L /\ L \subseteq Proc /\ W \subseteq L /\ Z \cap L = {}
  /\ Has(h, Laid(L \ ({run} \cup W), W, Z))

LEMMA FirstPlace ==
  ASSUME NEW h, NEW run, NEW L, NEW W, NEW Z, Placed(h, run, L, W, Z),
         NEW q, q = h.head["ready"].first
  PROVE  /\ q = NULL <=> L \ ({run} \cup W) = {}
         /\ q # NULL => q \in L \ ({run} \cup W)
BY LaidIs, FirstOf DEF Placed

\* Who has the CPU joins the waiting list.
LEMMA BlockPlaces ==
  ASSUME NEW h, NEW run, NEW L, NEW W, NEW Z, Placed(h, run, L, W, Z), run \notin W
  PROVE  Placed(List_append(h, "waiting", run), run, L, W \cup {run}, Z)
<1>1. L \ ({run} \cup W) = L \ ({run} \cup (W \cup {run}))
  OBVIOUS
<1>2. Has(List_append(h, "waiting", run), Laid(L \ ({run} \cup W), W \cup {run}, Z))
  BY LaidPut DEF Placed
<1> QED
  BY <1>1, <1>2 DEF Placed

\* A process goes from the waiting list to the ready list.
LEMMA WakePlaces ==
  ASSUME NEW h, NEW run, NEW L, NEW W, NEW Z, Placed(h, run, L, W, Z),
         NEW p \in W, p # run
  PROVE  Placed(List_append(List_detach(h, "waiting", p), "ready", p),
                run, L, W \ {p}, Z)
<1>1. PICK g, r : g = List_detach(h, "waiting", p) /\ r = L \ ({run} \cup W)
  OBVIOUS
<1>2. Has(g, Laid(r, W \ {p}, Z)) /\ p \in Proc /\ p \notin r /\ p \notin Z
  BY <1>1, LaidTake DEF Placed
<1>3. Has(List_append(g, "ready", p), Laid(r \cup {p}, W \ {p}, Z))
  BY <1>2, LaidPut
<1>4. r \cup {p} = L \ ({run} \cup (W \ {p}))
  BY <1>1 DEF Placed
<1> QED
  BY <1>1, <1>3, <1>4 DEF Placed

\* The first of the ready list gets the CPU from one that waits.
LEMMA TakePlaces ==
  ASSUME NEW h, NEW run, NEW L, NEW W, NEW Z, Placed(h, run, L, W, Z), run \in W,
         NEW q, q = h.head["ready"].first, q # NULL
  PROVE  q \in L \ W /\ Placed(List_detach(h, "ready", q), q, L, W, Z)
<1>1. PICK r : r = L \ ({run} \cup W)
  OBVIOUS
<1>2. q \in r
  BY <1>1, FirstPlace
<1>3. r \ {q} = L \ ({q} \cup W)
  BY <1>1
<1>4. Has(List_detach(h, "ready", q), Laid(r \ {q}, W, Z))
  BY <1>1, <1>2, LaidTake DEF Placed
<1> QED
  BY <1>1, <1>2, <1>3, <1>4 DEF Placed

\* The first of the ready list gets the CPU.  Who had it becomes ready, or stays
\* in the waiting list, if it is not alone there: an item that is alone in its
\* list is one that List_insert does not recognise.
LEMMA GiveWayPlaces ==
  ASSUME NEW h, NEW run, NEW L, NEW W, NEW Z, Placed(h, run, L, W, Z),
         run \in W => \E y \in W : y # run,
         NEW q, q = h.head["ready"].first, q # NULL
  PROVE  /\ q \in L \ ({run} \cup W)
         /\ Placed(List_append(List_detach(h, "ready", q), "ready", run), q, L, W, Z)
<1>1. PICK g, r : g = List_detach(h, "ready", q) /\ r = L \ ({run} \cup W)
  OBVIOUS
<1>2. q \in r
  BY <1>1, FirstPlace
<1>3. CASE run \in W
  <2>1. Placed(g, q, L, W, Z)
    BY <1>1, <1>3, TakePlaces
  <2>2. PICK y \in W : y # run
    BY <1>3
  <2>3. PICK c : c = Laid(L \ ({q} \cup W), W, Z)
    OBVIOUS
  <2>4. Has(g, c) /\ c["waiting"] = W /\ "waiting" \in Lists
    BY <2>1, <2>3, LaidIs DEF Placed
  <2>5. List_append(g, "ready", run) = g
    BY <1>3, <2>2, <2>4, AppendRefuses
  <2> QED
    BY <1>1, <1>2, <2>1, <2>5
<1>4. CASE run \notin W
  <2>1. Has(g, Laid(r \ {q}, W, Z)) /\ run \in Proc /\ run \notin r /\ run \notin Z
    BY <1>1, <1>2, LaidTake DEF Placed
  <2>2. Has(List_append(g, "ready", run), Laid((r \ {q}) \cup {run}, W, Z))
    BY <1>4, <2>1, LaidPut
  <2>3. (r \ {q}) \cup {run} = L \ ({q} \cup W)
    BY <1>1, <1>2, <1>4 DEF Placed
  <2> QED
    BY <1>1, <1>2, <2>2, <2>3 DEF Placed
<1> QED
  BY <1>3, <1>4

\* The values that the other invariants leave out.
Values ==
  /\ status \in [Proc -> {"Ready", "Running", "Waiting"}]
  /\ named \in BOOLEAN
  /\ last_fd \in [Caller -> 0..MaxFd]
  /\ answer \in Lengths \cup (0..MaxFd)
               \cup {DSOS_EMQ_NOFD, DSOS_EMQ_READ, DSOS_EMQ_WRITE}
  /\ machine \in {"up"} \cup Faults

\* A process waits when it is a parent or when its descriptor waits, as long as no
\* process that waits makes a call.
InPlace ==
  ~again => /\ running \in Worker
            /\ Placed(heap, running, Proc,
                      ToSet(waiting_descriptors) \cup Parent, {})

\* What a call does to those that run, are ready or wait.
Unmoved == UNCHANGED <<heap, running, status, waiting_descriptors>>
Suspends ==
  /\ heap' = List_append(heap, "waiting", running)
  /\ waiting_descriptors' = Append(waiting_descriptors, running)
  /\ status' = [status EXCEPT ![running] = "Waiting"]
  /\ running' = running
Wakes == running' = running /\ \E n \in Nat : WakeOne(n)
Emptied == ~named /\ waiting_descriptors' = <<>> /\ UNCHANGED <<heap, running, status>>

PlacesChange ==
  \/ Unmoved
  \/ QueueCall /\ (Suspends \/ Wakes)
  \/ Emptied
  \/ Schedule

LEMMA CallsOnPlaces ==
  ASSUME [Next]_vars
  PROVE  PlacesChange
<1>1. ASSUME NEW n, Refuse(n) \/ Fault(n) PROVE Unmoved
  BY <1>1 DEF Refuse, Fault, queue, Unmoved
<1>2. ASSUME Block PROVE Unmoved \/ Suspends
  BY <1>1, <1>2 DEF Block, Suspends
<1>3. ASSUME NEW n \in Lengths, Read(n)
      PROVE  QueueCall /\ (Unmoved \/ Suspends \/ Wakes)
  <2>1. ASSUME NEW k \in Priority, Deliver(k) PROVE Wakes
    BY <2>1 DEF Deliver, Wakes
  <2> QED
    BY <1>1, <1>2, <1>3, <2>1 DEF Read
<1>4. ASSUME NEW n \in Lengths, NEW k \in Priority, Write(n, k)
      PROVE  QueueCall /\ (Unmoved \/ Suspends \/ Wakes)
  <2>1. ASSUME Store_message(n, k) PROVE Unmoved \/ Wakes
    <3>1. CASE free_msgs = 0
      BY <1>1, <2>1, <3>1 DEF Store_message
    <3>2. CASE free_msgs # 0
      BY <2>1, <3>2 DEF Store_message, Wakes
    <3> QED
      BY <3>1, <3>2
  <2> QED
    BY <1>1, <1>2, <1>4, <2>1 DEF Write
<1>5. CASE Close
  <2>1. ASSUME WakeOne(1), running' = running PROVE Wakes
    BY <2>1 DEF Wakes
  <2> QED
    BY <1>1, <1>5, <2>1 DEF Close, PlacesChange
<1>6. CASE Open
  <2>1. ASSUME Open_descriptor PROVE Unmoved
    BY <1>1, <2>1 DEF Open_descriptor, Unmoved
  <2> QED
    BY <1>1, <1>6, <2>1 DEF Open, PlacesChange
<1>7. CASE Create
  BY <1>7 DEF Create, CreateQueue, Emptied, PlacesChange
<1>8. CASE Preempt \/ TimerTick
  BY <1>8 DEF Preempt, TimerTick, PlacesChange
<1>9. CASE Halted \/ UNCHANGED vars
  BY <1>9 DEF Halted, vars, queue, Unmoved, PlacesChange
<1> QED
  BY <1>3, <1>4, <1>5, <1>6, <1>7, <1>8, <1>9 DEF Next, PlacesChange

\* Who waits for another reason stays where it is, and one that waits is not
\* alone then: so those that wait for the queue come and go as they should.
LEMMA PlacesKeep ==
  ASSUME Contents, Waiters, ~again, ~again', PlacesChange,
         NEW L, NEW I, NEW Z, I \cap Caller = {}, running \notin I,
         running \in Caller => I # {},
         Placed(heap, running, L, ToSet(waiting_descriptors) \cup I, Z)
  PROVE  /\ Placed(heap', running', L, ToSet(waiting_descriptors') \cup I, Z)
         /\ running' # running =>
              running' \in L \ ({running} \cup ToSet(waiting_descriptors) \cup I)
<1> DEFINE w == waiting_descriptors
<1>1. w \in Seq(Caller) /\ IsInjective(w) /\ ToSet(w) \subseteq Caller
  BY Elements DEF Waiters, WaitingTypes, WaitersHaveItOpen
<1>2. QueueCall => running \in Caller /\ running \notin ToSet(w)
  BY CallerIsNotBlocked DEF Waiters, WaitingTypes
<1>3. CASE UNCHANGED <<heap, running, waiting_descriptors>>
  BY <1>3
<1>4. CASE QueueCall /\ Suspends
  <2>1. /\ heap' = List_append(heap, "waiting", running) /\ running' = running
        /\ w' = Append(w, running)
    BY <1>4 DEF Suspends
  <2>2. ToSet(Append(w, running)) = ToSet(w) \cup {running}
    BY <1>1, <1>2, <1>4, InsertLast
  <2>3. ToSet(w') \cup I = (ToSet(w) \cup I) \cup {running}
    BY <2>1, <2>2
  <2>4. running \notin ToSet(w) \cup I
    BY <1>2, <1>4
  <2> QED
    BY <2>1, <2>3, <2>4, BlockPlaces
<1>5. CASE QueueCall /\ Wakes
  <2>1. PICK n \in Nat : WakeOne(n)
    BY <1>5 DEF Wakes
  <2>2. running' = running /\ running \notin ToSet(w)
    BY <1>2, <1>5 DEF Wakes
  <2>3. CASE w = <<>>
    BY <2>1, <2>2, <2>3 DEF WakeOne
  <2>4. CASE w # <<>>
    <3>1. PICK p : p = Head(w)
      OBVIOUS
    <3>2. w' = Tail(w)
          /\ heap' = List_append(List_detach(heap, "waiting", p), "ready", p)
      BY <2>1, <2>4, <3>1 DEF WakeOne
    <3>3. p \in ToSet(w) /\ ToSet(Tail(w)) = ToSet(w) \ {p}
      BY <1>1, <2>4, <3>1, DetachFirst
    <3>4. p # running /\ p \notin I
      BY <1>1, <2>2, <3>3
    <3>5. ToSet(w') \cup I = (ToSet(w) \cup I) \ {p} /\ p \in ToSet(w) \cup I
      BY <3>2, <3>3, <3>4
    <3> QED
      BY <2>2, <3>2, <3>4, <3>5, WakePlaces
  <2> QED
    BY <2>3, <2>4
<1>6. CASE Emptied
  <2>1. UNCHANGED <<heap, running, waiting_descriptors>>
    BY <1>6, NoWaitersWithoutQueue DEF Emptied
  <2> QED
    BY <1>3, <2>1
<1>7. CASE Schedule
  <2>1. PICK q : q = heap.head["ready"].first
    OBVIOUS
  <2>2. w' = w
    BY <1>7 DEF Schedule, queue
  <2>3. CASE q = NULL
    <3>1. UNCHANGED <<heap, running, waiting_descriptors>>
      BY <1>7, <2>1, <2>2, <2>3 DEF Schedule
    <3> QED
      BY <1>3, <3>1
  <2>4. CASE q # NULL
    <3>1. /\ running' = q
          /\ heap' = List_append(List_detach(heap, "ready", q), "ready", running)
      BY <1>7, <2>1, <2>4 DEF Schedule, GiveWay
    <3>2. running \in ToSet(w) \cup I => \E y \in ToSet(w) \cup I : y # running
      BY <1>1
    <3>3. PICK W : W = ToSet(w) \cup I
      OBVIOUS
    <3>4. q \in L \ ({running} \cup W) /\ Placed(heap', q, L, W, Z)
      BY <2>1, <2>4, <3>1, <3>2, <3>3, GiveWayPlaces
    <3> QED
      BY <2>2, <3>1, <3>3, <3>4
  <2> QED
    BY <2>3, <2>4
<1> QED
  BY <1>3, <1>4, <1>5, <1>6, <1>7 DEF PlacesChange, Unmoved

LEMMA InPlaceStep ==
  ASSUME Parent # {}, Contents, Waiters, InPlace, [Next]_vars
  PROVE  InPlace'
<1> SUFFICES ASSUME ~again'
             PROVE  /\ running' \in Worker
                    /\ Placed(heap', running', Proc,
                              ToSet(waiting_descriptors') \cup Parent, {})
  BY DEF InPlace
<1>1. PlacesChange /\ WaitersChange
  BY CallsOnPlaces, CallsOnWaiters
<1>2. ~again
  BY <1>1 DEF WaitersChange, QueueCall, Waiters, WaitingTypes
<1>3. /\ running \in Worker
      /\ Placed(heap, running, Proc, ToSet(waiting_descriptors) \cup Parent, {})
  BY <1>2 DEF InPlace
<1>4. Parent \cap Caller = {} /\ running \notin Parent
  BY <1>3, CastAssumption DEF Worker
<1>5. /\ Placed(heap', running', Proc, ToSet(waiting_descriptors') \cup Parent, {})
      /\ running' # running => running' \in Proc \ Parent
  BY <1>1, <1>2, <1>3, <1>4, PlacesKeep
<1> QED
  BY <1>3, <1>5 DEF Proc

LEMMA ValuesStep ==
  ASSUME Values, Contents, [Next]_vars
  PROVE  Values'
<1> DEFINE Answers == Lengths \cup (0..MaxFd)
                      \cup {DSOS_EMQ_NOFD, DSOS_EMQ_READ, DSOS_EMQ_WRITE}
<1>1. 0 \in Answers
  BY SizesAssumption
<1>2. ASSUME NEW n \in Answers, Refuse(n) PROVE Values'
  BY <1>2 DEF Refuse, Values, queue, pools
<1>3. ASSUME NEW n \in Faults, Fault(n) PROVE Values'
  BY <1>3 DEF Fault, Values, queue, pools
<1>4. ASSUME Block PROVE Values'
  <2>1. CASE free_ptrs = 0 /\ Fault("no_descriptor_ptr")
    BY <1>3, <2>1 DEF Faults
  <2>2. ASSUME answer' = 0, status' = [status EXCEPT ![running] = "Waiting"],
               UNCHANGED <<named, last_fd, machine>>
        PROVE  Values'
    <3>1. status' \in [Proc -> {"Ready", "Running", "Waiting"}]
      BY <2>2 DEF Values
    <3> QED
      BY <1>1, <2>2, <3>1 DEF Values
  <2> QED
    BY <1>4, <2>1, <2>2 DEF Block
<1>5. ASSUME NEW n \in Nat, WakeOne(n)
      PROVE  status' \in [Proc -> {"Ready", "Running", "Waiting"}]
  BY <1>5 DEF WakeOne, Values
<1>6. ASSUME NEW n \in Lengths, Read(n)
      PROVE  Values'
  <2>1. DSOS_EMQ_READ \in Answers
    OBVIOUS
  <2>2. ASSUME NEW k \in Priority, First(k), Deliver(k)
        PROVE  Values'
    <3>1. Head(subqueues[k]) \in Stored
      BY <2>2 DEF First, Contents, ContentsTypes
    <3>2. answer' \in Answers
      BY <2>2, <3>1 DEF Deliver, Stored
    <3> QED
      BY <1>5, <2>2, <3>2 DEF Deliver, Values
  <2> HIDE DEF Answers
  <2> QED
    BY <1>2, <1>4, <1>6, <2>1, <2>2 DEF Read
<1>7. ASSUME NEW n \in Lengths, NEW k \in Priority, Write(n, k)
      PROVE  Values'
  <2>1. DSOS_EMQ_WRITE \in Answers /\ n \in Answers
    OBVIOUS
  <2>2. ASSUME Store_message(n, k) PROVE Values'
    <3>1. CASE free_msgs = 0
      BY <1>2, <2>1, <2>2, <3>1 DEF Store_message
    <3>2. CASE free_msgs # 0
      BY <1>5, <2>1, <2>2, <3>2 DEF Store_message, Values
    <3> QED
      BY <3>1, <3>2
  <2>3. "no_text" \in Faults
    BY DEF Faults
  <2> HIDE DEF Answers
  <2> QED
    BY <1>2, <1>3, <1>4, <1>7, <2>1, <2>2, <2>3 DEF Write
<1>8. CASE Close
  <2>1. CASE Fault("close_unknown")
    BY <1>3, <2>1 DEF Faults
  <2>2. ASSUME named' \in {named, FALSE}, WakeOne(1),
               answer' = 0, UNCHANGED <<last_fd, machine>>
        PROVE  Values'
    BY <1>1, <1>5, <2>2 DEF Values
  <2> QED
    BY <1>8, <2>1, <2>2 DEF Close
<1>9. CASE Open
  <2>1. DSOS_EMQ_NOFD \in Answers /\ "open_unknown" \in Faults
        /\ "open_no_ptr" \in Faults
    BY DEF Faults
  <2>2. ASSUME running \in Caller, last_fd[running] < MaxFd,
               last_fd' = [last_fd EXCEPT ![running] = @ + 1],
               answer' = last_fd[running], UNCHANGED <<status, named, machine>>
        PROVE  Values'
    <3>1. last_fd[running] \in 0..MaxFd /\ last_fd[running] + 1 \in 0..MaxFd
      BY <2>2, SizesAssumption DEF Values
    <3> QED
      BY <2>2, <3>1 DEF Values
  <2>3. CASE Open_descriptor
    BY <1>3, <1>9, <2>1, <2>2, <2>3 DEF Open_descriptor, Open, QueueCall
  <2> HIDE DEF Answers
  <2> QED
    BY <1>2, <1>3, <1>9, <2>1, <2>3 DEF Open
<1>10. CASE Create
  BY <1>1, <1>10 DEF Create, CreateQueue, Values, pools
<1>11. CASE Preempt \/ TimerTick
  BY <1>11 DEF Preempt, TimerTick, Schedule, Values, queue, pools
<1>12. CASE Halted \/ UNCHANGED vars
  BY <1>12 DEF Halted, vars, Values, queue, pools
<1> QED
  BY <1>6, <1>7, <1>8, <1>9, <1>10, <1>11, <1>12 DEF Next

\* A sequence of all members of a finite set, each of them once.
LEMMA AllOnce ==
  ASSUME NEW S, IsFiniteSet(S), NEW s \in SetToSeqs(S)
  PROVE  s \in Seq(S) /\ IsInjective(s) /\ ToSet(s) = S
<1>1. Cardinality(S) \in Nat
  BY FS_CardinalityType
<1>2. /\ s \in [1..Cardinality(S) -> S]
      /\ \A i, j \in 1..Cardinality(S) : i # j => s[i] # s[j]
  BY DEF SetToSeqs
<1>3. s \in Seq(S) /\ Len(s) = Cardinality(S) /\ DOMAIN s = 1..Len(s)
  BY <1>1, <1>2
<1>4. IsInjective(s)
  BY <1>2, <1>3, Elements
<1>5. ToSet(s) \subseteq S /\ Cardinality(ToSet(s)) = Cardinality(S)
  BY <1>3, <1>4, DistinctElements, Elements
<1>6. ToSet(s) = S
  BY <1>5, FS_Subset
<1> QED
  BY <1>3, <1>4, <1>6

\* Nothing is in the lists of EmptyHeap.
LEMMA NothingLaid == Has(EmptyHeap, Laid({}, {}, {}))
<1> DEFINE none == Laid({}, {}, {})
           o == [l \in Lists |-> <<>>]
<1>1. Holds(EmptyHeap, Proc, Lists, NULL, o)
  BY HeapOfNone DEF EmptyHeap, Lists
<1>2. none = [l \in Lists |-> ToSet(o[l])]
  <2>1. ToSet(<<>>) = {}
    BY DEF ToSet
  <2> QED
    BY <2>1 DEF Laid
<1> HIDE DEF o, none
<1>3. Has(EmptyHeap, none)
  BY <1>1, <1>2 DEF Has, Contain
<1> QED
  BY <1>3 DEF none

LEMMA InPlaceAtFirst ==
  ASSUME Init
  PROVE  Values /\ InPlace
<1> DEFINE none == Laid({}, {}, {})
<1>1. IsFiniteSet(Worker) /\ IsFiniteSet(Parent) /\ Worker # {}
      /\ Worker \subseteq Proc /\ Parent \subseteq Proc
  BY CastAssumption, FS_Subset DEF Proc, Worker
<1>2. PICK order \in SetToSeqs(Worker), idlers \in SetToSeqs(Parent) :
        /\ running = Head(order)
        /\ heap = Listing(Listing(EmptyHeap, "waiting", idlers), "ready", Tail(order))
        /\ status = [p \in Proc |-> CASE p \in Parent     -> "Waiting"
                                      [] p = Head(order)  -> "Running"
                                      [] OTHER            -> "Ready"]
  BY DEF Init
<1>3. /\ order \in Seq(Worker) /\ IsInjective(order) /\ ToSet(order) = Worker
      /\ idlers \in Seq(Parent) /\ IsInjective(idlers) /\ ToSet(idlers) = Parent
  BY <1>1, AllOnce
<1>4. order # <<>>
  BY <1>1, <1>3 DEF ToSet
<1>5. /\ Head(order) \in Worker /\ Tail(order) \in Seq(Worker)
      /\ IsInjective(Tail(order)) /\ Head(order) \notin ToSet(Tail(order))
      /\ Worker = {Head(order)} \cup ToSet(Tail(order))
  BY <1>3, <1>4, DetachFirst
<1>6. Tail(order) \in Seq(Proc) /\ idlers \in Seq(Proc)
  BY <1>1, <1>3, <1>5
<1>7. Has(EmptyHeap, none) /\ none = [l \in Lists |-> {}]
  BY NothingLaid DEF Laid
<1> DEFINE g == Listing(EmptyHeap, "waiting", idlers)
           b == [none EXCEPT !["waiting"] = none["waiting"] \cup ToSet(idlers)]
           c == [b EXCEPT !["ready"] = b["ready"] \cup ToSet(Tail(order))]
<1>8. Has(g, b)
  <2>1. \A m \in Lists : ToSet(idlers) \cap none[m] = {}
    BY <1>7
  <2> HIDE DEF none
  <2> QED
    BY <1>3, <1>6, <1>7, <2>1, ListingPuts DEF Lists
<1>9. b = [l \in Lists |-> IF l = "waiting" THEN Parent ELSE {}]
  BY <1>3, <1>7 DEF Lists
<1> HIDE DEF none, g, b
<1>10. Has(heap, c)
  <2>1. \A m \in Lists : ToSet(Tail(order)) \cap b[m] = {}
    BY <1>5, <1>9, CastAssumption
  <2> QED
    BY <1>2, <1>5, <1>6, <1>8, <2>1, ListingPuts DEF Lists, g
<1>11. /\ c["zombie"] = {} /\ c["waiting"] = Parent
       /\ c["ready"] = ToSet(Tail(order))
  BY <1>9 DEF Lists
<1> HIDE DEF c
<1>12. c = Laid(ToSet(Tail(order)), Parent, {})
  <2>1. c = [l \in Lists |-> c[l]]
    BY <1>9 DEF c
  <2> QED
    BY <1>11, <2>1 DEF Laid, Lists
<1>13. waiting_descriptors = <<>>
       /\ named = TRUE /\ last_fd = [p \in Caller |-> 0] /\ answer = 0 /\ machine = "up"
  BY DEF Init
<1>14. Placed(heap, running, Proc, ToSet(waiting_descriptors) \cup Parent, {})
  <2>1. ToSet(waiting_descriptors) \cup Parent = Parent
    BY <1>13 DEF ToSet
  <2>2. ToSet(Tail(order)) = Proc \ ({running} \cup Parent)
    BY <1>2, <1>5, CastAssumption DEF Proc
  <2> QED
    BY <1>1, <1>2, <1>5, <1>10, <1>12, <2>1, <2>2 DEF Placed
<1>15. Values
  <2>1. status \in [Proc -> {"Ready", "Running", "Waiting"}]
    BY <1>2
  <2>2. 0 \in 0..MaxFd
    BY SizesAssumption
  <2> QED
    BY <1>13, <2>1, <2>2, SizesAssumption DEF Values
<1> QED
  BY <1>2, <1>5, <1>14, <1>15 DEF InPlace

LEMMA InPlaceHolds ==
  ASSUME Parent # {}
  PROVE  Spec => [](Values /\ InPlace)
<1>1. Init => Values /\ InPlace
  BY InPlaceAtFirst
<1>2. Contents /\ Waiters /\ Values /\ InPlace /\ [Next]_vars => Values' /\ InPlace'
  BY ValuesStep, InPlaceStep
<1> QED
  BY <1>1, <1>2, ContentsHolds, WaitersHolds, PTL DEF Spec

LEMMA InPlaceIsRead ==
  ASSUME Values, InPlace, Waiters, Contents
  PROVE  ListsHold /\ WaitersAreWaiting
<1> SUFFICES ASSUME ~again PROVE ListsHold /\ WaitersAreWaiting
  BY DEF ListsHold, WaitersAreWaiting
<1>1. PICK W, c : /\ W = ToSet(waiting_descriptors) \cup Parent
                  /\ c = Laid(Proc \ ({running} \cup W), W, {})
  OBVIOUS
<1>2. Has(heap, c) /\ running \in Worker /\ running \in Proc /\ W \subseteq Proc
  BY <1>1 DEF InPlace, Placed
<1>3. InReady = Proc \ ({running} \cup W) /\ InWaiting = W
  BY <1>1, <1>2, ListsAreRead, LaidIs DEF InReady, InWaiting
<1>4. \A l \in {"ready", "waiting"} :
        \E s \in SetToSeqs(Members(heap, l)) : Represents(heap, l, s)
  BY <1>2, ListsAreRead DEF Lists
<1>5. TypeOK
  <2>1. heap.next \in [Proc -> Proc \cup {NULL}] /\ heap.prev \in [Proc -> Proc \cup {NULL}]
    BY <1>2, PointersAreTyped
  <2>2. free_msgs \in 0..MAX_NUM_MESSAGES
    BY PlacesAre, SizesAssumption DEF Contents, MessagesCounted, ContentsTypes
  <2>3. ASSUME NEW k \in Priority, NEW i \in DOMAIN subqueues[k]
        PROVE  subqueues[k][i] \in Message
    <3>1. i \in 1..Len(subqueues[k]) /\ subqueues[k][i] \in Stored
      BY DEF Contents, ContentsTypes
    <3>2. subqueues[k][i].id <= MAX_NUM_MESSAGES - free_texts
      BY <3>1 DEF Contents, Serials
    <3>3. subqueues[k][i].id \in 1..MAX_NUM_MESSAGES
      BY <3>1, <3>2, SizesAssumption DEF Stored, Contents, ContentsTypes
    <3> QED
      BY <3>1, <3>3 DEF Stored, Message
  <2> QED
    BY <1>2, <2>1, <2>2, <2>3
       DEF TypeOK, Values, Waiters, WaitingTypes, Contents, ContentsTypes
<1>6. running \in InWaiting => Blocked(running)
  BY <1>1, <1>2, <1>3, CastAssumption DEF Blocked
<1>7. ListsHold
  BY <1>2, <1>3, <1>4, <1>5, <1>6 DEF ListsHold
<1>8. WaitersAreWaiting
  BY <1>1, <1>3 DEF WaitersAreWaiting, Waiters, WaitersHaveItOpen
<1> QED
  BY <1>7, <1>8

\* However processes block, wake each other and are interrupted, the ready list
\* and the waiting list stay lists, and each process is where it should be, until a
\* process that waits makes a call on the queue; that it is interrupted or preempts
\* before or after it has been taken off the CPU is none.
THEOREM SchedulerListsHold ==
  ASSUME Parent # {}
  PROVE  Spec => []ListsHold
<1>1. Values /\ InPlace /\ Waiters /\ Contents => ListsHold
  BY InPlaceIsRead
<1> QED
  BY <1>1, InPlaceHolds, WaitersHolds, ContentsHolds, PTL

\* Those whose descriptors wait are those in the waiting list, the parents apart:
\* nobody waits whom no call can wake, until a process that waits makes a call.
THEOREM WhoWaitsCanBeWoken ==
  ASSUME Parent # {}
  PROVE  Spec => []WaitersAreWaiting
<1>1. Values /\ InPlace /\ Waiters /\ Contents => WaitersAreWaiting
  BY InPlaceIsRead
<1> QED
  BY <1>1, InPlaceHolds, WaitersHolds, ContentsHolds, PTL

-----------------------------------------------------------------------------
(* The test program: which call is which                                   *)

\* The numbers of the calls that close: two and four or five for each iteration
\* come before them.
Closes(x) == IF x = consumer THEN 4 * ITERATIONS + 3 ELSE 5 * ITERATIONS + 3

LEMMA WhoIsWho ==
  ASSUME Roles
  PROVE  /\ Proc = {init, childFunc, consumer, producer}
         /\ Caller = {consumer, producer} /\ Parent = {init, childFunc}
         /\ Worker = Caller
         /\ init # childFunc /\ init # consumer /\ init # producer
         /\ childFunc # consumer /\ childFunc # producer /\ consumer # producer
         /\ NULL \notin Proc
BY CastAssumption DEF Roles, Proc, Worker, Caller

CallNames == {"open", "preempt", "read", "write", "close", "exit"}

\* t is a and then b.
JoinedTo(S, t, a, b) ==
  /\ t \in Seq(S) /\ Len(t) = Len(a) + Len(b) /\ Len(a) \in Nat /\ Len(b) \in Nat
  /\ \A i \in 1..(Len(a) + Len(b)) :
       t[i] = IF i <= Len(a) THEN a[i] ELSE b[i - Len(a)]
LEMMA Joined ==
  ASSUME NEW S, NEW a \in Seq(S), NEW b \in Seq(S), NEW t, t = a \o b
  PROVE  JoinedTo(S, t, a, b)
BY ConcatProperties DEF JoinedTo

\* A program that opens, makes N + 1 calls, closes and exits.
OpensAndCloses(t, N) ==
  /\ N \in Nat /\ DOMAIN t = 1..(N + 4)
  /\ t[1] = "open"
  /\ \A n \in 2..(N + 2) : t[n] \in {"preempt", "read", "write"}
  /\ t[N + 3] = "close" /\ t[N + 4] = "exit"

\* So does one that opens, calls preempt, goes round a loop of the K calls s, closes
\* and exits.
LEMMA LoopProgram ==
  ASSUME Roles, NEW K \in Nat \ {0},
         NEW s \in [1..K -> {"preempt", "read", "write"}], NEW t,
         t = <<"open", "preempt">> \o Repeated(s) \o <<"close", "exit">>,
         NEW N, N = ITERATIONS * K
  PROVE  OpensAndCloses(t, N)
<1>1. PICK b : b = Repeated(s)
  OBVIOUS
<1>2. PICK a : a = <<"open", "preempt">>
  OBVIOUS
<1>3. PICK c : c = <<"close", "exit">>
  OBVIOUS
<1>4. PICK u : u = a \o b
  OBVIOUS
<1>5. Len(s) = K /\ N \in Nat
  BY DEF Roles
<1>6. b = [n \in 1..N |-> s[((n - 1) % K) + 1]]
  BY <1>1, <1>5 DEF Repeated
<1>0. \A n \in 1..N : s[((n - 1) % K) + 1] \in {"preempt", "read", "write"}
  <2> TAKE n \in 1..N
  <2>1. ((n - 1) % K) + 1 \in 1..K
    BY <1>5
  <2> QED
    BY <2>1
<1>7. \A n \in 1..N : s[((n - 1) % K) + 1] \in CallNames
  BY <1>0 DEF CallNames
<1>8. b \in Seq(CallNames) /\ Len(b) = N
  BY <1>5, <1>6, <1>7
<1>9. a \in Seq(CallNames) /\ c \in Seq(CallNames) /\ Len(a) = 2 /\ Len(c) = 2
  BY <1>2, <1>3 DEF CallNames
<1>10. JoinedTo(CallNames, u, a, b)
  BY <1>4, <1>8, <1>9, Joined
<1>11. JoinedTo(CallNames, t, u, c)
  <2>1. t = u \o c /\ u \in Seq(CallNames)
    BY <1>1, <1>2, <1>3, <1>4, <1>10 DEF JoinedTo
  <2> QED
    BY <1>9, <2>1, Joined
<1>12. /\ u \in Seq(CallNames) /\ Len(u) = N + 2
       /\ \A i \in 1..(N + 2) : u[i] = IF i <= 2 THEN a[i] ELSE b[i - 2]
  BY <1>5, <1>8, <1>9, <1>10 DEF JoinedTo
<1>13. /\ t \in Seq(CallNames) /\ Len(t) = N + 4
       /\ \A i \in 1..(N + 4) : t[i] = IF i <= N + 2 THEN u[i] ELSE c[i - (N + 2)]
  BY <1>5, <1>9, <1>11, <1>12 DEF JoinedTo
<1>14. DOMAIN t = 1..(N + 4)
  BY <1>5, <1>13
<1>15. ASSUME NEW n \in 2..(N + 2)
       PROVE  t[n] \in {"preempt", "read", "write"}
  <2>1. n \in 1..(N + 2) /\ n \in 1..(N + 4) /\ n <= N + 2
    BY <1>5
  <2>2. t[n] = IF n <= 2 THEN a[n] ELSE b[n - 2]
    BY <1>12, <1>13, <2>1
  <2>3. CASE n = 2
    BY <1>2, <2>2, <2>3
  <2>4. CASE n # 2
    <3>1. n - 2 \in 1..N /\ ~(n <= 2)
      BY <1>5, <2>4
    <3> QED
      BY <1>0, <1>6, <2>2, <3>1
  <2> QED
    BY <2>3, <2>4
<1>16. t[1] = "open"
  <2>1. 1 \in 1..(N + 4) /\ 1 \in 1..(N + 2) /\ 1 <= N + 2
    BY <1>5
  <2> QED
    BY <1>2, <1>12, <1>13, <2>1
<1>17. t[N + 3] = "close" /\ t[N + 4] = "exit"
  <2>1. ASSUME NEW j \in 1..2, NEW i, i = N + 2 + j
        PROVE  t[i] = c[j]
    <3>1. i \in 1..(N + 4) /\ ~(i <= N + 2) /\ i - (N + 2) = j
      BY <1>5, <2>1
    <3>2. t[i] = c[i - (N + 2)]
      BY <1>13, <3>1
    <3> QED
      BY <3>1, <3>2
  <2>2. 1 \in 1..2 /\ 2 \in 1..2 /\ N + 3 = N + 2 + 1 /\ N + 4 = N + 2 + 2
    BY <1>5
  <2>3. t[N + 3] = c[1] /\ t[N + 4] = c[2]
    BY <2>1, <2>2
  <2> QED
    BY <1>3, <2>3
<1> QED
  BY <1>5, <1>14, <1>15, <1>16, <1>17 DEF OpensAndCloses

\* The n-th call of p is the given one.
CallAt(p, n, call) == n \in DOMAIN Program[p] /\ Program[p][n] = call

LEMMA TripleIs ==
  ASSUME NEW x, NEW y, NEW z, NEW a, a = <<x, y, z>>
  PROVE  DOMAIN a = 1..3 /\ a[1] = x /\ a[2] = y /\ a[3] = z
<1>1. DOMAIN a = 1..3
  OBVIOUS
<1>2. a[1] = x /\ a[2] = y /\ a[3] = z
  OBVIOUS
<1> QED
  BY <1>1, <1>2

LEMMA SextupleIs ==
  ASSUME NEW x, NEW y, NEW z, NEW u, NEW v, NEW w, NEW a, a = <<x, y, z, u, v, w>>
  PROVE  /\ DOMAIN a = 1..6
         /\ a[1] = x /\ a[2] = y /\ a[3] = z /\ a[4] = u /\ a[5] = v /\ a[6] = w
<1>1. DOMAIN a = 1..6
  OBVIOUS
<1>2. a[1] = x /\ a[2] = y /\ a[3] = z /\ a[4] = u /\ a[5] = v /\ a[6] = w
  OBVIOUS
<1> QED
  BY <1>1, <1>2

LEMMA ParentsProgram ==
  ASSUME Roles, NEW n \in Nat, NEW call
  PROVE  /\ DOMAIN Program[init] = 1..3 /\ DOMAIN Program[childFunc] = 1..6
         /\ CallAt(init, n, call) =>
              \/ n = 1 /\ call = "spawn childFunc"
              \/ n = 2 /\ call = "wait"
              \/ n = 3 /\ call = "shutdown"
         /\ CallAt(childFunc, n, call) =>
              \/ n = 1 /\ call = "spawn consumer"
              \/ n = 2 /\ call = "spawn producer"
              \/ n = 3 /\ call = "create"
              \/ (n = 4 \/ n = 5) /\ call = "wait"
              \/ n = 6 /\ call = "exit"
<1>1. /\ DOMAIN Program[init] = 1..3
      /\ Program[init][1] = "spawn childFunc" /\ Program[init][2] = "wait"
      /\ Program[init][3] = "shutdown"
  <2>1. PICK x, y, z, a : /\ x = "spawn childFunc" /\ y = "wait" /\ z = "shutdown"
                          /\ a = Program[init]
    OBVIOUS
  <2>2. a = <<x, y, z>>
    BY <2>1, WhoIsWho DEF Program
  <2>3. DOMAIN a = 1..3 /\ a[1] = x /\ a[2] = y /\ a[3] = z
    BY <2>2, TripleIs
  <2> QED
    BY <2>1, <2>3
<1>2. /\ DOMAIN Program[childFunc] = 1..6
      /\ Program[childFunc][1] = "spawn consumer"
      /\ Program[childFunc][2] = "spawn producer"
      /\ Program[childFunc][3] = "create" /\ Program[childFunc][4] = "wait"
      /\ Program[childFunc][5] = "wait" /\ Program[childFunc][6] = "exit"
  <2>1. PICK x, y, z, u, v, w, a :
          /\ x = "spawn consumer" /\ y = "spawn producer" /\ z = "create"
          /\ u = "wait" /\ v = "wait" /\ w = "exit" /\ a = Program[childFunc]
    OBVIOUS
  <2>2. a = <<x, y, z, u, v, w>>
    BY <2>1, WhoIsWho DEF Program
  <2>3. /\ DOMAIN a = 1..6
        /\ a[1] = x /\ a[2] = y /\ a[3] = z /\ a[4] = u /\ a[5] = v /\ a[6] = w
    BY <2>2, SextupleIs
  <2> QED
    BY <2>1, <2>3
<1>3. ASSUME CallAt(init, n, call)
      PROVE  \/ n = 1 /\ call = "spawn childFunc"
             \/ n = 2 /\ call = "wait"
             \/ n = 3 /\ call = "shutdown"
  <2>1. n \in 1..3 /\ Program[init][n] = call
    BY <1>1, <1>3 DEF CallAt
  <2>2. n = 1 \/ n = 2 \/ n = 3
    BY <2>1
  <2> QED
    BY <1>1, <2>1, <2>2
<1>4. ASSUME CallAt(childFunc, n, call)
      PROVE  \/ n = 1 /\ call = "spawn consumer"
             \/ n = 2 /\ call = "spawn producer"
             \/ n = 3 /\ call = "create"
             \/ (n = 4 \/ n = 5) /\ call = "wait"
             \/ n = 6 /\ call = "exit"
  <2>1. n \in 1..6 /\ Program[childFunc][n] = call
    BY <1>2, <1>4 DEF CallAt
  <2>2. n = 1 \/ n = 2 \/ n = 3 \/ n = 4 \/ n = 5 \/ n = 6
    BY <2>1
  <2> QED
    BY <1>2, <2>1, <2>2
<1> QED
  BY <1>1, <1>2, <1>3, <1>4

LEMMA CallersProgram ==
  ASSUME Roles, NEW x \in Caller
  PROVE  /\ Closes(x) \in Nat /\ Closes(x) >= 3
         /\ DOMAIN Program[x] = 1..(Closes(x) + 1)
         /\ \A n \in Nat : \A call :
              CallAt(x, n, call) =>
                \/ n = 1 /\ call = "open"
                \/ n \in 2..(Closes(x) - 1) /\ call \in {"preempt", "read", "write"}
                \/ n = Closes(x) /\ call = "close"
                \/ n = Closes(x) + 1 /\ call = "exit"
<1>1. ITERATIONS \in Nat /\ consumer # producer /\ Caller = {consumer, producer}
  BY WhoIsWho DEF Roles
<1>2. PICK t : t = Program[x]
  OBVIOUS
<1>3. ASSUME NEW K \in Nat \ {0},
             NEW s \in [1..K -> {"preempt", "read", "write"}],
             t = <<"open", "preempt">> \o Repeated(s) \o <<"close", "exit">>,
             Closes(x) = K * ITERATIONS + 3
      PROVE  /\ Closes(x) \in Nat /\ Closes(x) >= 3
             /\ DOMAIN t = 1..(Closes(x) + 1)
             /\ t[1] = "open" /\ t[Closes(x)] = "close" /\ t[Closes(x) + 1] = "exit"
             /\ \A n \in 2..(Closes(x) - 1) : t[n] \in {"preempt", "read", "write"}
  <2>1. PICK N : N = ITERATIONS * K
    OBVIOUS
  <2>2. OpensAndCloses(t, N)
    BY <1>3, <2>1, LoopProgram
  <2>3. Closes(x) = N + 3
    BY <1>1, <1>3, <2>1
  <2>4. Closes(x) + 1 = N + 4 /\ Closes(x) - 1 = N + 2
    BY <2>2, <2>3 DEF OpensAndCloses
  <2>5. Closes(x) \in Nat /\ Closes(x) >= 3 /\ DOMAIN t = 1..(Closes(x) + 1)
    BY <2>2, <2>3, <2>4 DEF OpensAndCloses
  <2>6. t[Closes(x)] = "close" /\ t[Closes(x) + 1] = "exit"
    BY <2>2, <2>3, <2>4 DEF OpensAndCloses
  <2>7. \A n \in 2..(Closes(x) - 1) : t[n] \in {"preempt", "read", "write"}
    BY <2>2, <2>4 DEF OpensAndCloses
  <2> QED
    BY <2>2, <2>5, <2>6, <2>7 DEF OpensAndCloses
<1>4. ASSUME /\ Closes(x) \in Nat /\ Closes(x) >= 3
             /\ DOMAIN t = 1..(Closes(x) + 1)
             /\ t[1] = "open" /\ t[Closes(x)] = "close" /\ t[Closes(x) + 1] = "exit"
             /\ \A n \in 2..(Closes(x) - 1) : t[n] \in {"preempt", "read", "write"},
             NEW n \in Nat, NEW call, CallAt(x, n, call)
      PROVE  \/ n = 1 /\ call = "open"
             \/ n \in 2..(Closes(x) - 1) /\ call \in {"preempt", "read", "write"}
             \/ n = Closes(x) /\ call = "close"
             \/ n = Closes(x) + 1 /\ call = "exit"
  <2>1. n \in 1..(Closes(x) + 1) /\ t[n] = call
    BY <1>2, <1>4 DEF CallAt
  <2>2. \/ n = 1 \/ n \in 2..(Closes(x) - 1)
        \/ n = Closes(x) \/ n = Closes(x) + 1
    BY <1>4, <2>1
  <2> QED
    BY <1>4, <2>1, <2>2
<1>5. CASE x = consumer
  <2>1. PICK s : s = <<"read", "preempt", "read", "preempt">>
    OBVIOUS
  <2>2. s \in [1..4 -> {"preempt", "read", "write"}]
    BY <2>1
  <2>3. t = <<"open", "preempt">> \o Repeated(s) \o <<"close", "exit">>
    BY <1>2, <1>5, <2>1, WhoIsWho DEF Program
  <2>4. Closes(x) = 4 * ITERATIONS + 3
    BY <1>5 DEF Closes
  <2>5. 4 \in Nat \ {0}
    OBVIOUS
  <2> QED
    BY <1>2, <1>3, <1>4, <2>2, <2>3, <2>4, <2>5
<1>6. CASE x = producer
  <2>1. PICK s : s = <<"write", "preempt", "write", "write", "preempt">>
    OBVIOUS
  <2>2. s \in [1..5 -> {"preempt", "read", "write"}]
    BY <2>1
  <2>3. t = <<"open", "preempt">> \o Repeated(s) \o <<"close", "exit">>
    BY <1>2, <1>6, <2>1, WhoIsWho DEF Program
  <2>4. Closes(x) = 5 * ITERATIONS + 3
    BY <1>1, <1>6 DEF Closes
  <2>5. 5 \in Nat \ {0}
    OBVIOUS
  <2> QED
    BY <1>2, <1>3, <1>4, <2>2, <2>3, <2>4, <2>5
<1> QED
  BY <1>1, <1>5, <1>6

-----------------------------------------------------------------------------
(* The test program: what holds until a process that waits makes a call    *)

\* How many calls a process makes.
LastCall(p) == IF p = init THEN 3 ELSE IF p = childFunc THEN 6 ELSE Closes(p) + 1

LEMMA LastIs ==
  ASSUME Roles
  PROVE  /\ LastCall(init) = 3 /\ LastCall(childFunc) = 6
         /\ \A x \in Caller : /\ LastCall(x) = Closes(x) + 1
                              /\ Closes(x) \in Nat /\ Closes(x) >= 3
         /\ \A p \in Proc : LastCall(p) \in Nat /\ DOMAIN Program[p] = 1..LastCall(p)
<1>1. DOMAIN Program[init] = 1..3 /\ DOMAIN Program[childFunc] = 1..6
  <2>1. 0 \in Nat
    OBVIOUS
  <2> QED
    BY <2>1, ParentsProgram
<1>2. /\ LastCall(init) = 3 /\ LastCall(childFunc) = 6
      /\ \A x \in Caller : LastCall(x) = Closes(x) + 1
  BY WhoIsWho DEF LastCall
<1>3. \A x \in Caller : /\ Closes(x) \in Nat /\ Closes(x) >= 3
                        /\ DOMAIN Program[x] = 1..(Closes(x) + 1)
  BY CallersProgram
<1>4. ASSUME NEW p \in Proc
      PROVE  LastCall(p) \in Nat /\ DOMAIN Program[p] = 1..LastCall(p)
  <2>1. CASE p = init
    BY <1>1, <1>2, <2>1
  <2>2. CASE p = childFunc
    BY <1>1, <1>2, <2>2
  <2>3. CASE p \in Caller
    BY <1>2, <1>3, <2>3
  <2> QED
    BY <2>1, <2>2, <2>3, WhoIsWho
<1> QED
  BY <1>2, <1>3, <1>4

\* Which processes have been spawned and have not exited, when f[p] is the number
\* of the next call of p.
Started(f, p) ==
  \/ p = init
  \/ p = childFunc /\ f[init] > 1
  \/ p = consumer /\ f[childFunc] > 1
  \/ p = producer /\ f[childFunc] > 2
Alive(f) == {p \in Proc : Started(f, p) /\ f[p] <= LastCall(p)}

LEMMA AliveIs ==
  ASSUME Roles, NEW f
  PROVE  /\ Alive(f) \subseteq Proc
         /\ init \in Alive(f) <=> f[init] <= 3
         /\ childFunc \in Alive(f) <=> f[init] > 1 /\ f[childFunc] <= 6
         /\ consumer \in Alive(f) <=> f[childFunc] > 1 /\ f[consumer] <= LastCall(consumer)
         /\ producer \in Alive(f) <=> f[childFunc] > 2 /\ f[producer] <= LastCall(producer)
BY WhoIsWho, LastIs DEF Alive, Started

ProgramTypes ==
  /\ pc \in [Proc -> Nat \ {0}]
  /\ status \in [Proc -> {"Invalid", "Ready", "Running", "Waiting", "Zombie"}]
  /\ children \in [Proc -> SUBSET Proc]

\* The parents that wait, and the zombies that nobody has waited for.
Idlers == {p \in Parent : status[p] = "Waiting"}
Dead   == {x \in children[childFunc] : pc[x] > LastCall(x)}

\* Which children childFunc has before its n-th call, or after it, when it waits.
LeftFor(n, c, idle) ==
  /\ n = 1 => c = {}
  /\ n = 2 => c = {consumer}
  /\ n = 3 \/ n = 4 => c = Caller
  /\ n = 5 => IF idle THEN c = Caller ELSE \E x \in Caller : c = {x}
  /\ n = 6 => IF idle THEN \E x \in Caller : c = {x} ELSE c = {}
  /\ n > 6 => c = {}

Families ==
  /\ children[init] = {childFunc} \cap Alive(pc)
  /\ \A x \in Caller : children[x] = {}
  /\ Caller \cap Alive(pc) \subseteq children[childFunc]
  /\ LeftFor(pc[childFunc], children[childFunc], childFunc \in Idlers)

\* A process is a zombie once it has exited.
Exits ==
  /\ \A x \in Caller : status[x] = "Zombie" <=> pc[x] > LastCall(x)
  /\ pc[childFunc] <= 6 => status[childFunc] # "Zombie"

\* init runs before childFunc begins and after it has exited, and waits meanwhile;
\* the callers run from the first wait of childFunc on.
Progress ==
  /\ running \notin Idlers /\ (running = init \/ init \in Idlers)
  /\ pc[init] <= 2 => running = init /\ pc[childFunc] = 1
  /\ running = init /\ pc[init] > 2 => pc[childFunc] > 6
  /\ pc[childFunc] < 5 => running \in Parent /\ \A x \in Caller : pc[x] = 1

\* Who has the queue open is between its open and its close; once one has closed
\* it, the queue is there as long as the other has it open.
Queue ==
  /\ \A x \in open : x \in Caller /\ 1 < pc[x] /\ pc[x] <= Closes(x)
  /\ named /\ (\E x \in Caller : pc[x] > Closes(x)) => open # {}
  /\ pc[childFunc] <= 3 => ~named

Orderly ==
  /\ Placed(heap, running, Alive(pc), ToSet(waiting_descriptors) \cup Idlers, Dead)
  /\ Families /\ Exits /\ Progress /\ Queue

\* The inductive invariant of the test program.
ProgramInv ==
  /\ again \in BOOLEAN
  /\ ~again => /\ Contents /\ Waiters /\ ProgramTypes
               /\ machine = "up" => Orderly
               /\ machine = "off" => NothingLeft

LEMMA OrderlyNow ==
  ASSUME Placed(heap', running', Alive(pc'),
                ToSet(waiting_descriptors') \cup Idlers', Dead'),
         Families', Exits', Progress', Queue'
  PROVE  Orderly'
BY DEF Orderly

-----------------------------------------------------------------------------
(* What every step keeps                                                   *)

\* The running process goes on to its next call.
Advances == pc' = [pc EXCEPT ![running] = pc[running] + 1]

LEMMA CallsIs ==
  ASSUME NEW call, Calls(call)
  PROVE  machine = "up" /\ CallAt(running, pc[running], call) /\ Advances
BY DEF Calls, HasCall, CallAt, Advances

LEMMA AdvancesIs ==
  ASSUME ProgramTypes, Advances, running \in Proc
  PROVE  /\ pc' \in [Proc -> Nat \ {0}] /\ pc'[running] = pc[running] + 1
         /\ \A p \in Proc : p # running => pc'[p] = pc[p]
BY DEF ProgramTypes, Advances

\* Once there has been a repeated call, again says so for ever.
LEMMA AgainStep ==
  ASSUME again \in BOOLEAN, [Next_test]_testvars
  PROVE  again' \in BOOLEAN /\ (~again' => ~again)
<1>1. CASE UNCHANGED again
  BY <1>1
<1>2. CASE QueueCall
  BY <1>2 DEF QueueCall
<1>3. CASE WaitForAny \/ ExitProcess \/ (\E c : SpawnProcess(c)) \/ Schedule
  BY <1>1, <1>3 DEF WaitForAny, ExitProcess, SpawnProcess, Schedule, vars
<1>4. CASE Call
  BY <1>1, <1>2, <1>3, <1>4 DEF Call, Open, Read, Write, Preempt, Close
<1> QED
  BY <1>1, <1>3, <1>4 DEF Next_test, Tick, TimerTick, testvars, vars

LEMMA ProgramTypesStep ==
  ASSUME Roles, ProgramTypes, running \in Proc, [Next_test]_testvars
  PROVE  ProgramTypes'
<1> DEFINE Words == {"Invalid", "Ready", "Running", "Waiting", "Zombie"}
<1>1. pc' \in [Proc -> Nat \ {0}]
  <2>1. CASE Call
    <3>1. \E call : Calls(call)
      BY <2>1 DEF Call
    <3>2. Advances
      BY <3>1, CallsIs
    <3> QED
      BY <3>2, AdvancesIs
  <2>2. CASE UNCHANGED pc
    BY <2>2 DEF ProgramTypes
  <2> QED
    BY <2>1, <2>2 DEF Next_test, Tick, testvars
<1>2. ASSUME PlacesChange
      PROVE  status' \in [Proc -> Words]
  <2>1. CASE Unmoved \/ Suspends \/ Emptied \/ Schedule
    BY <2>1 DEF Unmoved, Suspends, Emptied, Schedule, ProgramTypes
  <2>2. CASE Wakes
    BY <2>2 DEF Wakes, WakeOne, ProgramTypes
  <2> QED
    BY <1>2, <2>1, <2>2 DEF PlacesChange
<1>3. CASE [Next]_vars /\ UNCHANGED children
  BY <1>1, <1>2, <1>3, CallsOnPlaces DEF ProgramTypes
<1>4. CASE CreateQueue /\ UNCHANGED children
  BY <1>1, <1>4 DEF CreateQueue, ProgramTypes
<1>5. ASSUME NEW c \in Proc, SpawnProcess(c)
      PROVE  ProgramTypes'
  BY <1>1, <1>5 DEF SpawnProcess, ProgramTypes
<1>6. CASE WaitForAny
  BY <1>1, <1>6 DEF WaitForAny, Fault, ProgramTypes, vars
<1>7. CASE ExitProcess
  BY <1>1, <1>7 DEF ExitProcess, Fault, ProgramTypes
<1>8. CASE UNCHANGED <<status, children>>
  BY <1>1, <1>8 DEF ProgramTypes
<1>9. CASE Call
  <2>1. childFunc \in Proc /\ consumer \in Proc /\ producer \in Proc
    BY WhoIsWho
  <2>2. CASE UNCHANGED children /\ (Open \/ Preempt \/ Close \/ (\E n \in Lengths : Read(n))
             \/ \E n \in Lengths, k \in Priority : Write(n, k))
    BY <1>3, <2>2 DEF Next
  <2> QED
    BY <1>4, <1>5, <1>6, <1>7, <1>8, <1>9, <2>1, <2>2 DEF Call
<1>10. CASE Tick \/ (Halted /\ UNCHANGED testvars) \/ UNCHANGED testvars
  BY <1>3, <1>10 DEF Tick, testvars, Next
<1> QED
  BY <1>9, <1>10 DEF Next_test

\* A step of the test program is a step of MessageQueue, or leaves the contents of
\* the queue and those that wait as they are, or creates the queue.
LEMMA QueueChange ==
  ASSUME [Next_test]_testvars, Calls("create") => ~named
  PROVE  (Contents => ContentsChange) /\ WaitersChange
<1>1. ASSUME UNCHANGED <<queue, pools>>, UNCHANGED again
      PROVE  (Contents => ContentsChange) /\ WaitersChange
  BY <1>1 DEF queue, pools, Contents, NoQueue, Untouched, ContentsChange, Stays,
              WaitersChange
<1>2. ASSUME [Next]_vars
      PROVE  (Contents => ContentsChange) /\ WaitersChange
  BY <1>2, CallsOnContents, CallsOnWaiters
<1>3. CASE Tick \/ (Halted /\ UNCHANGED testvars) \/ UNCHANGED testvars
  BY <1>2, <1>3 DEF Tick, Next, testvars
<1>4. CASE Calls("create") /\ CreateQueue /\ UNCHANGED again
  BY <1>4 DEF CreateQueue, Begins, pools, ContentsChange, Renews, WaitersChange
<1>5. CASE WaitForAny \/ ExitProcess \/ \E c : SpawnProcess(c)
  BY <1>1, <1>5 DEF WaitForAny, ExitProcess, SpawnProcess, Fault, vars
<1>6. CASE Open \/ Close \/ Preempt \/ (\E n \in Lengths : Read(n))
             \/ (\E n \in Lengths, k \in Priority : Write(n, k))
  BY <1>2, <1>6 DEF Next
<1>7. CASE Call
  BY <1>1, <1>4, <1>5, <1>6, <1>7 DEF Call
<1> QED
  BY <1>3, <1>7 DEF Next_test

\* Which calls a process may make.
LEMMA CallerCallNames ==
  ASSUME Roles, ProgramTypes, running \in Caller, NEW call, Calls(call)
  PROVE  call \in CallNames
<1>1. PICK n \in Nat : n = pc[running]
  BY WhoIsWho DEF ProgramTypes
<1>2. CallAt(running, n, call)
  BY <1>1, CallsIs
<1> QED
  BY <1>1, <1>2, CallersProgram DEF CallNames

LEMMA CallerCalls ==
  ASSUME Roles, ProgramTypes, running \in Caller, Call
  PROVE  /\ Advances
         /\ \/ pc[running] = Closes(running) + 1 /\ ExitProcess
            \/ /\ children' = children
               /\ \/ pc[running] = 1 /\ Open
                  \/ pc[running] \in 2..(Closes(running) - 1) /\ Preempt
                  \/ /\ pc[running] \in 2..(Closes(running) - 1)
                     /\ \E n \in Lengths : Read(n)
                  \/ /\ pc[running] \in 2..(Closes(running) - 1)
                     /\ \E n \in Lengths, k \in Priority : Write(n, k)
                  \/ pc[running] = Closes(running) /\ Close
<1>1. ASSUME NEW call, Calls(call), call \notin CallNames
      PROVE  FALSE
  BY <1>1, CallerCallNames
<1>2. /\ ~Calls("spawn childFunc") /\ ~Calls("spawn consumer")
      /\ ~Calls("spawn producer") /\ ~Calls("create")
      /\ ~Calls("wait") /\ ~Calls("shutdown")
  BY <1>1 DEF CallNames
<1>3. PICK n \in Nat : n = pc[running]
  BY WhoIsWho DEF ProgramTypes
<1>4. ASSUME NEW call, Calls(call)
      PROVE  /\ Advances
             /\ \/ n = 1 /\ call = "open"
                \/ n \in 2..(Closes(running) - 1) /\ call \in {"preempt", "read", "write"}
                \/ n = Closes(running) /\ call = "close"
                \/ n = Closes(running) + 1 /\ call = "exit"
  <2>1. Advances /\ CallAt(running, n, call)
    BY <1>3, <1>4, CallsIs
  <2> QED
    BY <2>1, CallersProgram
<1>5. /\ Calls("open") => Advances /\ n = 1
      /\ Calls("preempt") => Advances /\ n \in 2..(Closes(running) - 1)
      /\ Calls("read") => Advances /\ n \in 2..(Closes(running) - 1)
      /\ Calls("write") => Advances /\ n \in 2..(Closes(running) - 1)
      /\ Calls("close") => Advances /\ n = Closes(running)
      /\ Calls("exit") => Advances /\ n = Closes(running) + 1
  BY <1>4
<1> HIDE DEF Closes
<1> QED
  BY <1>2, <1>3, <1>5 DEF Call

\* That the call is the i-th of init or the f-th of childFunc, whoever runs.
ParentsCall(call, i, f) ==
  \/ running = init /\ i = 1 /\ call = "spawn childFunc"
  \/ running = init /\ i = 2 /\ call = "wait"
  \/ running = init /\ i = 3 /\ call = "shutdown"
  \/ running = childFunc /\ f = 1 /\ call = "spawn consumer"
  \/ running = childFunc /\ f = 2 /\ call = "spawn producer"
  \/ running = childFunc /\ f = 3 /\ call = "create"
  \/ running = childFunc /\ (f = 4 \/ f = 5) /\ call = "wait"
  \/ running = childFunc /\ f = 6 /\ call = "exit"

LEMMA ParentCallNames ==
  ASSUME Roles, ProgramTypes, running \in Parent, NEW call, Calls(call)
  PROVE  Advances /\ ParentsCall(call, pc[init], pc[childFunc])
<1>1. init \in Proc /\ childFunc \in Proc /\ Parent = {init, childFunc}
  BY WhoIsWho
<1>2. PICK i \in Nat, f \in Nat : i = pc[init] /\ f = pc[childFunc]
  BY <1>1 DEF ProgramTypes
<1>3. Advances /\ CallAt(running, pc[running], call)
  BY CallsIs
<1>4. CASE running = init
  <2>1. CallAt(init, i, call)
    BY <1>2, <1>3, <1>4
  <2> QED
    BY <1>2, <1>3, <1>4, <2>1, ParentsProgram DEF ParentsCall
<1>5. CASE running = childFunc
  <2>1. CallAt(childFunc, f, call)
    BY <1>2, <1>3, <1>5
  <2> QED
    BY <1>2, <1>3, <1>5, <2>1, ParentsProgram DEF ParentsCall
<1> QED
  BY <1>1, <1>4, <1>5

LEMMA ParentCalls ==
  ASSUME Roles, ProgramTypes, running \in Parent, Call
  PROVE  /\ Advances
         /\ \/ running = init /\ pc[init] = 1 /\ SpawnProcess(childFunc)
            \/ running = init /\ pc[init] = 2 /\ WaitForAny
            \/ /\ running = init /\ pc[init] = 3 /\ machine' = "off"
               /\ UNCHANGED <<heap, running, status, queue, pools, children>>
            \/ running = childFunc /\ pc[childFunc] = 1 /\ SpawnProcess(consumer)
            \/ running = childFunc /\ pc[childFunc] = 2 /\ SpawnProcess(producer)
            \/ /\ running = childFunc /\ pc[childFunc] = 3 /\ CreateQueue
               /\ children' = children
            \/ running = childFunc /\ (pc[childFunc] = 4 \/ pc[childFunc] = 5) /\ WaitForAny
            \/ running = childFunc /\ pc[childFunc] = 6 /\ ExitProcess
<1>1. ASSUME NEW call \in CallNames \ {"exit"}, Calls(call)
      PROVE  FALSE
  <2>1. ParentsCall(call, pc[init], pc[childFunc])
    BY <1>1, ParentCallNames
  <2> QED
    BY <2>1 DEF ParentsCall, CallNames
<1>2. CASE Calls("spawn childFunc") /\ SpawnProcess(childFunc)
  <2>1. Advances /\ ParentsCall("spawn childFunc", pc[init], pc[childFunc])
    BY <1>2, ParentCallNames
  <2> QED
    BY <1>2, <2>1 DEF ParentsCall
<1>3. CASE Calls("spawn consumer") /\ SpawnProcess(consumer)
  <2>1. Advances /\ ParentsCall("spawn consumer", pc[init], pc[childFunc])
    BY <1>3, ParentCallNames
  <2> QED
    BY <1>3, <2>1 DEF ParentsCall
<1>4. CASE Calls("spawn producer") /\ SpawnProcess(producer)
  <2>1. Advances /\ ParentsCall("spawn producer", pc[init], pc[childFunc])
    BY <1>4, ParentCallNames
  <2> QED
    BY <1>4, <2>1 DEF ParentsCall
<1>5. CASE Calls("create") /\ CreateQueue /\ UNCHANGED children
  <2>1. Advances /\ ParentsCall("create", pc[init], pc[childFunc])
    BY <1>5, ParentCallNames
  <2> QED
    BY <1>5, <2>1 DEF ParentsCall
<1>6. CASE Calls("wait") /\ WaitForAny
  <2>1. Advances /\ ParentsCall("wait", pc[init], pc[childFunc])
    BY <1>6, ParentCallNames
  <2> QED
    BY <1>6, <2>1 DEF ParentsCall
<1>7. CASE Calls("exit") /\ ExitProcess
  <2>1. Advances /\ ParentsCall("exit", pc[init], pc[childFunc])
    BY <1>7, ParentCallNames
  <2> QED
    BY <1>7, <2>1 DEF ParentsCall
<1>8. CASE /\ Calls("shutdown") /\ machine' = "off"
            /\ UNCHANGED <<heap, running, status, queue, pools,
                                again, answer, children>>
  <2>1. Advances /\ ParentsCall("shutdown", pc[init], pc[childFunc])
    BY <1>8, ParentCallNames
  <2> QED
    BY <1>8, <2>1 DEF ParentsCall
<1>9. ~Calls("open") /\ ~Calls("preempt") /\ ~Calls("read") /\ ~Calls("write")
       /\ ~Calls("close")
  BY <1>1 DEF CallNames
<1> QED
  BY <1>2, <1>3, <1>4, <1>5, <1>6, <1>7, <1>8, <1>9 DEF Call


-----------------------------------------------------------------------------
(* The steps that go on: ticks, and the callers' calls but for their exits *)

LEMMA OrderlyFacts ==
  ASSUME Roles, ProgramTypes, Waiters, ~again, Orderly
  PROVE  /\ running \in Alive(pc) /\ running \in Proc
         /\ Idlers \subseteq Parent /\ Idlers \cap Caller = {}
         /\ waiting_descriptors \in Seq(Caller)
         /\ ToSet(waiting_descriptors) \subseteq Caller
         /\ \A x \in ToSet(waiting_descriptors) :
              x \in open /\ 1 < pc[x] /\ pc[x] <= Closes(x)
         /\ pc[childFunc] <= 6 => running # init \/ pc[init] <= 2
         /\ pc[childFunc] > 6 => Alive(pc) \subseteq {init}
         /\ running = init /\ pc[childFunc] # 1 => Alive(pc) = {init}
<1>1. /\ Placed(heap, running, Alive(pc), ToSet(waiting_descriptors) \cup Idlers, Dead)
      /\ Families /\ Exits /\ Progress /\ Queue
  BY DEF Orderly
<1>2. running \in Alive(pc) /\ Alive(pc) \subseteq Proc
  BY <1>1 DEF Placed
<1>3. /\ waiting_descriptors \in Seq(Caller)
      /\ ToSet(waiting_descriptors) \subseteq Caller
      /\ \A x \in ToSet(waiting_descriptors) :
           x \in open /\ 1 < pc[x] /\ pc[x] <= Closes(x)
  BY <1>1, Elements DEF Waiters, WaitingTypes, WaitersHaveItOpen, Queue
<1>4. Idlers \subseteq Parent /\ Idlers \cap Caller = {}
  BY WhoIsWho DEF Idlers
<1>5. /\ init \in Proc /\ childFunc \in Proc /\ init # childFunc
      /\ pc[init] \in Nat /\ pc[childFunc] \in Nat
  BY WhoIsWho DEF ProgramTypes
<1>6. pc[childFunc] <= 6 => running # init \/ pc[init] <= 2
  BY <1>1, <1>5 DEF Progress
<1>7. ASSUME pc[childFunc] > 6
      PROVE  Alive(pc) \subseteq {init}
  <2>1. children[childFunc] = {}
    BY <1>1, <1>7 DEF Families, LeftFor
  <2>2. Caller \cap Alive(pc) = {}
    BY <1>1, <2>1 DEF Families
  <2>3. childFunc \notin Alive(pc)
    BY <1>5, <1>7, AliveIs
  <2> QED
    BY <1>2, <2>2, <2>3, WhoIsWho
<1>8. ASSUME running = init, pc[childFunc] # 1
      PROVE  Alive(pc) = {init}
  <2>1. pc[childFunc] > 6
    BY <1>1, <1>5, <1>8 DEF Progress
  <2> QED
    BY <1>2, <1>7, <1>8, <2>1
<1> QED
  BY <1>2, <1>3, <1>4, <1>6, <1>7, <1>8

\* Blocking, waking and giving way change the status of those that are alive and do
\* not idle, and make no zombie and no idler.
LEMMA StatusKeeps ==
  ASSUME Waiters, ~again, ~again', PlacesChange,
         NEW L, NEW I, NEW Z, I \subseteq Parent, running \notin I, DOMAIN status = Proc,
         Placed(heap, running, L, ToSet(waiting_descriptors) \cup I, Z)
  PROVE  \A p \in Proc : \/ status'[p] = status[p]
                         \/ /\ p \in L \ I /\ status'[p] # "Zombie"
                            /\ p \in Parent => status'[p] # "Waiting"
<1>1. /\ waiting_descriptors \in Seq(Caller)
      /\ ToSet(waiting_descriptors) \subseteq Caller
  BY Elements DEF Waiters, WaitingTypes
<1>2. /\ running \in L /\ L \subseteq Proc /\ ToSet(waiting_descriptors) \subseteq L
      /\ Caller \cap Parent = {}
  BY CastAssumption DEF Placed, Worker
<1>3. CASE UNCHANGED status
  BY <1>3
<1>4. CASE QueueCall /\ Suspends
  BY <1>2, <1>4 DEF QueueCall, Suspends
<1>5. CASE QueueCall /\ Wakes
  <2>1. PICK n \in Nat : WakeOne(n)
    BY <1>5 DEF Wakes
  <2>2. CASE waiting_descriptors = <<>>
    BY <2>1, <2>2 DEF WakeOne
  <2>3. CASE waiting_descriptors # <<>>
    <3>1. PICK p : p = Head(waiting_descriptors)
      OBVIOUS
    <3>2. status' = [status EXCEPT ![p] = "Ready"]
      BY <2>1, <2>3, <3>1 DEF WakeOne
    <3>3. p \in ToSet(waiting_descriptors)
      BY <1>1, <2>3, <3>1, Elements
    <3> QED
      BY <1>1, <1>2, <3>2, <3>3
  <2> QED
    BY <2>2, <2>3
<1>6. CASE Schedule
  <2>1. PICK q : q = heap.head["ready"].first
    OBVIOUS
  <2>2. CASE q = NULL
    BY <1>6, <2>1, <2>2 DEF Schedule
  <2>3. CASE q # NULL
    <3>1. status' = [status EXCEPT ![running] = "Ready", ![q] = "Running"]
      BY <1>6, <2>1, <2>3 DEF Schedule
    <3>2. q \in L \ I
      BY <2>1, <2>3, FirstPlace
    <3> QED
      BY <1>2, <3>1, <3>2
  <2> QED
    BY <2>2, <2>3
<1> QED
  BY <1>3, <1>4, <1>5, <1>6 DEF PlacesChange, Unmoved, Emptied

LEMMA GoesOn ==
  ASSUME Roles, Contents, Waiters, ProgramTypes, Orderly, ~again, ~again', PlacesChange,
         pc[childFunc] >= 5, children' = children, pc' \in [Proc -> Nat \ {0}],
         pc'[init] = pc[init], pc'[childFunc] = pc[childFunc],
         \A x \in Caller : pc'[x] > LastCall(x) <=> pc[x] > LastCall(x)
  PROVE  /\ Placed(heap', running', Alive(pc'),
                   ToSet(waiting_descriptors') \cup Idlers', Dead')
         /\ Families' /\ Exits' /\ Progress'
<1>1. /\ Placed(heap, running, Alive(pc), ToSet(waiting_descriptors) \cup Idlers, Dead)
      /\ Families /\ Exits /\ Progress /\ Queue
  BY DEF Orderly
<1>2. /\ Proc = {init, childFunc} \cup Caller /\ init # childFunc
      /\ init \notin Caller /\ childFunc \notin Caller /\ Parent = {init, childFunc}
      /\ pc[init] \in Nat /\ pc[childFunc] \in Nat
      /\ \A p \in Proc : pc[p] \in Nat /\ pc'[p] \in Nat /\ LastCall(p) \in Nat
  BY WhoIsWho, LastIs DEF ProgramTypes
<1>3. Alive(pc') = Alive(pc)
  <2>1. ASSUME NEW p \in Proc
        PROVE  p \in Alive(pc) <=> p \in Alive(pc')
    <3>1. Started(pc, p) <=> Started(pc', p)
      BY DEF Started
    <3>2. pc[p] <= LastCall(p) <=> pc'[p] <= LastCall(p)
      BY <1>2
    <3> QED
      BY <3>1, <3>2 DEF Alive
  <2> QED
    BY <2>1 DEF Alive
<1>4. /\ running \notin Idlers /\ (running = init \/ init \in Idlers)
      /\ Idlers \subseteq Parent /\ Idlers \cap Caller = {}
      /\ pc[init] > 2
      /\ running = init => pc[childFunc] > 6 /\ Alive(pc) = {init}
  BY <1>1, <1>2, OrderlyFacts DEF Progress
<1>5. \A p \in Proc : \/ status'[p] = status[p]
                      \/ /\ p \in Alive(pc) \ Idlers /\ status'[p] # "Zombie"
                         /\ p \in Parent => status'[p] # "Waiting"
  <2>1. DOMAIN status = Proc
    BY DEF ProgramTypes
  <2> QED
    BY <1>1, <1>4, <2>1, StatusKeeps
<1>6. Idlers' = Idlers
  BY <1>2, <1>5 DEF Idlers
<1>7. Dead' = Dead
  <2>1. children[childFunc] \subseteq Caller
    BY <1>1, <1>2 DEF Families, LeftFor
  <2> QED
    BY <2>1 DEF Dead
<1>8. /\ Placed(heap', running', Alive(pc), ToSet(waiting_descriptors') \cup Idlers, Dead)
      /\ running' # running => running' \in Alive(pc) \ ({running} \cup Idlers)
  <2>1. running \in Caller => Idlers # {}
    BY <1>2, <1>4
  <2> QED
    BY <1>1, <1>4, <2>1, PlacesKeep
<1>9. Families'
  BY <1>1, <1>3, <1>6 DEF Families
<1>10. Exits'
  <2>1. \A x \in Caller : x \in Alive(pc) => pc[x] <= LastCall(x)
    BY DEF Alive
  <2>2. childFunc \in Alive(pc) => pc[childFunc] <= 6
    BY AliveIs
  <2>3. ASSUME NEW x \in Caller
        PROVE  status'[x] = "Zombie" <=> status[x] = "Zombie"
    <3>1. x \in Alive(pc) => status[x] # "Zombie"
      BY <1>1, <1>2, <2>1 DEF Exits
    <3> QED
      BY <1>2, <1>5, <3>1
  <2>4. pc[childFunc] <= 6 => status'[childFunc] # "Zombie"
    BY <1>1, <1>2, <1>5, <2>2 DEF Exits
  <2> QED
    BY <1>1, <2>3, <2>4 DEF Exits
<1>11. Progress'
  <2>1. running' = init => running = init
    BY <1>4, <1>8
  <2>2. running' \notin Idlers /\ (running' = init \/ init \in Idlers)
    BY <1>4, <1>8
  <2> QED
    BY <1>2, <1>4, <1>6, <2>1, <2>2 DEF Progress
<1> QED
  BY <1>3, <1>6, <1>7, <1>8, <1>9, <1>10, <1>11

\* What a caller's call does to the queue, as long as the machine is up.
LEMMA CallersQueue ==
  ASSUME Roles, ProgramTypes, Queue, running \in Caller, Advances, machine' = "up",
         pc[childFunc] >= 5,
         \/ pc[running] = 1 /\ Open
         \/ pc[running] \in 2..(Closes(running) - 1) /\ Preempt
         \/ /\ pc[running] \in 2..(Closes(running) - 1)
            /\ \E n \in Lengths : Read(n)
         \/ /\ pc[running] \in 2..(Closes(running) - 1)
            /\ \E n \in Lengths, k \in Priority : Write(n, k)
         \/ pc[running] = Closes(running) /\ Close
  PROVE  Queue' /\ pc'[running] <= LastCall(running) /\ pc[running] <= LastCall(running)
<1>1. /\ Caller \subseteq Proc /\ childFunc \in Proc /\ childFunc \notin Caller
      /\ LastCall(running) = Closes(running) + 1
      /\ \A x \in Caller : Closes(x) \in Nat /\ Closes(x) >= 3 /\ pc[x] \in Nat
  BY WhoIsWho, LastIs DEF ProgramTypes
<1>2. /\ pc'[running] = pc[running] + 1
      /\ \A p \in Proc : p # running => pc'[p] = pc[p]
  BY <1>1, AdvancesIs
<1>3. ASSUME NEW why \in Faults, Fault(why)
      PROVE  FALSE
  BY <1>3 DEF Fault, Faults
<1>4. ASSUME NEW n, Refuse(n)
      PROVE  UNCHANGED <<named, open>>
  BY <1>4 DEF Refuse, queue
<1>5. ASSUME Block
      PROVE  UNCHANGED <<named, open>>
  BY <1>3, <1>5 DEF Block, Faults
<1>6. CASE pc[running] = 1 /\ Open
  <2>1. named' = named /\ (open' = open \/ open' = open \cup {running})
    BY <1>3, <1>4, <1>6 DEF Open, Open_descriptor, Faults
  <2>2. pc'[running] = 2 /\ 2 <= Closes(running) /\ 2 <= LastCall(running)
    BY <1>1, <1>2, <1>6
  <2>3. \A x \in Caller : pc'[x] > Closes(x) => pc[x] > Closes(x)
    BY <1>1, <1>2, <2>2
  <2>4. \A x \in open' : x \in Caller /\ 1 < pc'[x] /\ pc'[x] <= Closes(x)
    <3> TAKE x \in open'
    <3>1. CASE x = running
      BY <2>2, <3>1
    <3>2. CASE x # running
      BY <1>1, <1>2, <2>1, <3>2 DEF Queue
    <3> QED
      BY <3>1, <3>2
  <2>5. pc'[childFunc] >= 5 /\ pc'[childFunc] \in Nat
    BY <1>1, <1>2 DEF ProgramTypes
  <2> QED
    BY <1>1, <1>6, <2>1, <2>2, <2>3, <2>4, <2>5 DEF Queue
<1>7. CASE /\ pc[running] \in 2..(Closes(running) - 1)
           /\ UNCHANGED <<named, open>>
  <2>1. pc'[running] > 1 /\ pc'[running] <= Closes(running)
        /\ pc[running] <= Closes(running)
    BY <1>1, <1>2, <1>7
  <2>2. \A x \in Caller : pc'[x] > Closes(x) => pc[x] > Closes(x)
    BY <1>1, <1>2, <2>1
  <2>3. \A x \in open' : x \in Caller /\ 1 < pc'[x] /\ pc'[x] <= Closes(x)
    <3> TAKE x \in open'
    <3>1. CASE x = running
      BY <2>1, <3>1
    <3>2. CASE x # running
      BY <1>1, <1>2, <1>7, <3>2 DEF Queue
    <3> QED
      BY <3>1, <3>2
  <2>4. pc'[childFunc] >= 5 /\ pc'[childFunc] \in Nat
    BY <1>1, <1>2 DEF ProgramTypes
  <2>5. pc'[running] <= LastCall(running) /\ pc[running] <= LastCall(running)
    BY <1>1, <1>2, <2>1
  <2> QED
    BY <1>7, <2>2, <2>3, <2>4, <2>5 DEF Queue
<1>8. ASSUME Preempt \/ (\E n \in Lengths : Read(n))
               \/ (\E n \in Lengths, k \in Priority : Write(n, k))
      PROVE  UNCHANGED <<named, open>>
  <2>1. CASE Preempt
    BY <2>1 DEF Preempt, Schedule, queue
  <2>2. CASE \E n \in Lengths : Read(n)
    BY <1>4, <1>5, <2>2 DEF Read, Deliver
  <2>3. ASSUME NEW n \in Lengths, NEW k \in Priority, Write(n, k)
        PROVE  UNCHANGED <<named, open>>
    <3>1. ASSUME Store_message(n, k) PROVE UNCHANGED <<named, open>>
      BY <1>4, <3>1 DEF Store_message
    <3>2. ~Fault("no_text")
      BY <1>3 DEF Faults
    <3> QED
      BY <1>4, <1>5, <2>3, <3>1, <3>2 DEF Write
  <2> QED
    BY <1>8, <2>1, <2>2, <2>3
<1>9. CASE pc[running] = Closes(running) /\ Close
  <2>1. /\ running \in open /\ open' = open \ {running}
        /\ named' => named /\ open' # {}
    BY <1>3, <1>9 DEF Close, Faults
  <2>2. \A x \in open' : x \in Caller /\ 1 < pc'[x] /\ pc'[x] <= Closes(x)
    BY <1>1, <1>2, <2>1 DEF Queue
  <2>3. pc'[childFunc] >= 5 /\ pc'[childFunc] \in Nat
    BY <1>1, <1>2 DEF ProgramTypes
  <2>4. pc'[running] <= LastCall(running) /\ pc[running] <= LastCall(running)
    BY <1>1, <1>2, <1>9
  <2> QED
    BY <2>1, <2>2, <2>3, <2>4 DEF Queue
<1> QED
  BY <1>6, <1>7, <1>8, <1>9

-----------------------------------------------------------------------------
(* The steps that spawn, wait and exit                                     *)

\* The next process to have the CPU.
ReadyFirst(h) == h.head["ready"].first

LEMMA SpawnPlaces ==
  ASSUME NEW h, NEW run, NEW L, NEW W, NEW Z, Placed(h, run, L, W, Z),
         NEW c \in Proc, c \notin L, c \notin Z
  PROVE  Placed(List_append(h, "ready", c), run, L \cup {c}, W, Z)
<1>1. Has(List_append(h, "ready", c), Laid((L \ ({run} \cup W)) \cup {c}, W, Z))
  BY LaidPut DEF Placed
<1>2. (L \ ({run} \cup W)) \cup {c} = (L \cup {c}) \ ({run} \cup W)
  BY DEF Placed
<1> QED
  BY <1>1, <1>2 DEF Placed

LEMMA ReapPlaces ==
  ASSUME NEW h, NEW run, NEW L, NEW W, NEW Z, Placed(h, run, L, W, Z), NEW z \in Z
  PROVE  Placed(List_detach(h, "zombie", z), run, L, W, Z \ {z})
BY LaidTake DEF Placed

LEMMA SleepPlaces ==
  ASSUME NEW h, NEW run, NEW L, NEW W, NEW Z, Placed(h, run, L, W, Z), run \notin W,
         ReadyFirst(h) # NULL, NEW q, q = ReadyFirst(List_append(h, "waiting", run))
  PROVE  /\ q \in L \ ({run} \cup W)
         /\ Placed(List_detach(List_append(h, "waiting", run), "ready", q),
                   q, L, W \cup {run}, Z)
<1>1. Placed(List_append(h, "waiting", run), run, L, W \cup {run}, Z)
  BY BlockPlaces
<1>2. L \ ({run} \cup W) # {} /\ L \ ({run} \cup W) = L \ ({run} \cup (W \cup {run}))
  BY FirstPlace DEF ReadyFirst
<1>3. q # NULL
  BY <1>1, <1>2, FirstPlace DEF ReadyFirst
<1> QED
  BY <1>1, <1>3, TakePlaces DEF ReadyFirst

\* Who exits becomes a zombie, and the next process gets the CPU; or the parent that
\* waits for it does, which frees it.
LEMMA ExitToNext ==
  ASSUME NEW h, NEW run, NEW L, NEW W, NEW Z, Placed(h, run, L, W, Z), run \notin W,
         NEW q, q = ReadyFirst(List_append(h, "zombie", run)), q # NULL
  PROVE  /\ q \in L \ ({run} \cup W)
         /\ Placed(List_detach(List_append(h, "zombie", run), "ready", q),
                   q, L \ {run}, W, Z \cup {run})
<1>1. PICK r, g : r = L \ ({run} \cup W) /\ g = List_append(h, "zombie", run)
  OBVIOUS
<1>2. Has(g, Laid(r, W, Z \cup {run})) /\ W \subseteq L /\ L \subseteq Proc
      /\ Z \cap L = {} /\ run \in L
  BY <1>1, LaidPut DEF Placed
<1>3. PICK c : c = Laid(r, W, Z \cup {run})
  OBVIOUS
<1>4. Has(g, c) /\ c["ready"] = r /\ "ready" \in Lists
  BY <1>2, <1>3, LaidIs
<1>5. q \in r
  BY <1>1, <1>4, FirstOf DEF ReadyFirst
<1>6. Has(List_detach(g, "ready", q), Laid(r \ {q}, W, Z \cup {run}))
  BY <1>2, <1>5, LaidTake
<1>7. r \ {q} = (L \ {run}) \ ({q} \cup W)
  BY <1>1
<1> QED
  BY <1>1, <1>2, <1>5, <1>6, <1>7 DEF Placed

LEMMA ExitToParent ==
  ASSUME NEW h, NEW run, NEW L, NEW W, NEW Z, Placed(h, run, L, W, Z), run \notin W,
         NEW par \in W
  PROVE  Placed(List_detach(List_detach(List_append(h, "zombie", run), "waiting", par),
                            "zombie", run),
                par, L \ {run}, W \ {par}, Z)
<1>1. PICK r, g : r = L \ ({run} \cup W) /\ g = List_append(h, "zombie", run)
  OBVIOUS
<1>2. Has(g, Laid(r, W, Z \cup {run})) /\ W \subseteq L /\ L \subseteq Proc
      /\ Z \cap L = {} /\ run \in L
  BY <1>1, LaidPut DEF Placed
<1>3. Has(List_detach(g, "waiting", par), Laid(r, W \ {par}, Z \cup {run}))
  BY <1>2, LaidTake
<1>4. Has(List_detach(List_detach(g, "waiting", par), "zombie", run),
          Laid(r, W \ {par}, (Z \cup {run}) \ {run}))
  BY <1>3, LaidTake
<1>5. (Z \cup {run}) \ {run} = Z
      /\ r = (L \ {run}) \ ({par} \cup (W \ {par}))
  BY <1>1, <1>2
<1> QED
  BY <1>1, <1>2, <1>4, <1>5 DEF Placed

\* The queue is left alone by those that do not have it open.
LEMMA QueueRests ==
  ASSUME Roles, ProgramTypes, Queue, UNCHANGED <<named, open>>,
         pc' \in [Proc -> Nat \ {0}], pc'[childFunc] >= pc[childFunc],
         \A x \in Caller : \/ pc'[x] = pc[x]
                           \/ pc[x] > Closes(x) /\ pc'[x] > Closes(x)
  PROVE  Queue'
<1>1. /\ \A x \in Caller : Closes(x) \in Nat /\ pc[x] \in Nat /\ pc'[x] \in Nat
      /\ pc[childFunc] \in Nat /\ pc'[childFunc] \in Nat
  BY WhoIsWho, LastIs DEF ProgramTypes
<1>2. \A x \in open' : x \in Caller /\ 1 < pc'[x] /\ pc'[x] <= Closes(x)
  BY <1>1 DEF Queue
<1>3. \A x \in Caller : pc'[x] > Closes(x) => pc[x] > Closes(x)
  BY <1>1
<1>4. pc'[childFunc] <= 3 => pc[childFunc] <= 3
  BY <1>1
<1> QED
  BY <1>2, <1>3, <1>4 DEF Queue

\* internal_exit, by one that does not wait itself.
LEMMA ExitDoes ==
  ASSUME NEW par, par = ParentOf[running], NEW L, NEW W, NEW Z,
         Placed(heap, running, L, W, Z), running \notin W,
         status[par] = "Waiting" => par \in W,
         ExitProcess, machine' = "up"
  PROVE  /\ UNCHANGED <<named, open, waiting_descriptors>>
         /\ \/ /\ status[par] = "Waiting" /\ running' = par
               /\ Placed(heap', par, L \ {running}, W \ {par}, Z)
               /\ status' = [status EXCEPT ![running] = "Zombie", ![par] = "Running"]
               /\ children' = [children EXCEPT ![par] = @ \ {running}]
            \/ /\ status[par] # "Waiting" /\ running' \in L \ ({running} \cup W)
               /\ Placed(heap', running', L \ {running}, W, Z \cup {running})
               /\ status' = [status EXCEPT ![running] = "Zombie",
                                           ![running'] = "Running"]
               /\ children' = children
<1>1. PICK g : g = List_append(heap, "zombie", running)
  OBVIOUS
<1>2. ~Fault("exit_no_ready")
  BY DEF Fault
<1>3. UNCHANGED <<named, open, waiting_descriptors>>
  BY <1>2 DEF ExitProcess, queue
<1>4. CASE status[par] = "Waiting"
  <2>1. /\ status' = [status EXCEPT ![running] = "Zombie", ![par] = "Running"]
        /\ heap' = List_detach(List_detach(g, "waiting", par), "zombie", running)
        /\ children' = [children EXCEPT ![par] = @ \ {running}]
        /\ running' = par
    BY <1>1, <1>4 DEF ExitProcess
  <2>2. Placed(heap', par, L \ {running}, W \ {par}, Z)
    <3>1. par \in W
      BY <1>4
    <3> QED
      BY <1>1, <2>1, <3>1, ExitToParent
  <2> QED
    BY <1>3, <1>4, <2>1, <2>2
<1>5. CASE status[par] # "Waiting"
  <2>1. PICK q : q = ReadyFirst(g)
    OBVIOUS
  <2>2. /\ q # NULL /\ running' = q /\ heap' = List_detach(g, "ready", q)
        /\ status' = [status EXCEPT ![running] = "Zombie", ![q] = "Running"]
        /\ children' = children
    BY <1>1, <1>2, <1>5, <2>1 DEF ExitProcess, TakeNext, ReadyFirst
  <2>3. /\ q \in L \ ({running} \cup W)
        /\ Placed(heap', q, L \ {running}, W, Z \cup {running})
    <3>1. q # NULL
      BY <2>2
    <3>2. /\ q \in L \ ({running} \cup W)
          /\ Placed(List_detach(g, "ready", q), q, L \ {running}, W, Z \cup {running})
      BY <1>1, <2>1, <3>1, ExitToNext
    <3> QED
      BY <2>2, <3>2
  <2> QED
    BY <1>3, <1>5, <2>2, <2>3
<1> QED
  BY <1>4, <1>5

LEMMA CallerExits ==
  ASSUME Roles, Contents, Waiters, ProgramTypes, Orderly, ~again, machine' = "up",
         running \in Caller, Advances, pc[running] = Closes(running) + 1, ExitProcess
  PROVE  Orderly'
<1>1. /\ Placed(heap, running, Alive(pc), ToSet(waiting_descriptors) \cup Idlers, Dead)
      /\ Families /\ Exits /\ Progress /\ Queue
  BY DEF Orderly
<1>2. PICK x \in Caller : x = running
  OBVIOUS
<1>3. /\ Proc = {init, childFunc} \cup Caller /\ init # childFunc
      /\ init \notin Caller /\ childFunc \notin Caller /\ Parent = {init, childFunc}
      /\ LastCall(x) = Closes(x) + 1 /\ Closes(x) \in Nat
      /\ \A p \in Proc : pc[p] \in Nat /\ LastCall(p) \in Nat
      /\ ParentOf[x] = childFunc
  BY WhoIsWho, LastIs DEF ProgramTypes, ParentOf
<1>4. /\ pc' \in [Proc -> Nat \ {0}] /\ pc'[x] = pc[x] + 1 /\ pc[x] = LastCall(x)
      /\ \A p \in Proc : p # x => pc'[p] = pc[p]
  BY <1>2, <1>3, AdvancesIs
<1>5. /\ x \in Alive(pc) /\ x \notin Idlers /\ init \in Idlers
      /\ x \notin ToSet(waiting_descriptors)
      /\ childFunc \notin ToSet(waiting_descriptors)
      /\ Idlers \subseteq Parent /\ pc[init] > 2
      /\ pc[childFunc] = 5 \/ pc[childFunc] = 6
  <2>1. /\ x \in Alive(pc) /\ Idlers \subseteq Parent /\ Idlers \cap Caller = {}
        /\ ToSet(waiting_descriptors) \subseteq Caller
        /\ \A y \in ToSet(waiting_descriptors) : pc[y] <= Closes(y)
        /\ pc[childFunc] > 6 => Alive(pc) \subseteq {init}
    BY <1>2, OrderlyFacts
  <2>2. ~(pc[childFunc] > 6) /\ ~(pc[childFunc] < 5)
    BY <1>1, <1>2, <1>3, <2>1 DEF Progress
  <2>3. init \in Idlers /\ pc[init] > 2
    BY <1>1, <1>2, <1>3 DEF Progress
  <2>4. x \notin ToSet(waiting_descriptors)
    BY <1>3, <1>4, <2>1
  <2> QED
    BY <1>2, <1>3, <2>1, <2>2, <2>3, <2>4
<1>6. Alive(pc') = Alive(pc) \ {x}
  <2>1. ASSUME NEW p \in Proc
        PROVE  p \in Alive(pc') <=> p \in Alive(pc) /\ p # x
    <3>1. Started(pc, p) <=> Started(pc', p)
      BY <1>3, <1>4 DEF Started
    <3>2. pc'[p] <= LastCall(p) <=> pc[p] <= LastCall(p) /\ p # x
      BY <1>3, <1>4
    <3> QED
      BY <3>1, <3>2 DEF Alive
  <2> QED
    BY <2>1 DEF Alive
<1>7. PICK W : W = ToSet(waiting_descriptors) \cup Idlers
  OBVIOUS
<1>8. Queue'
  <2>1. UNCHANGED <<named, open>>
    BY DEF ExitProcess, Fault, queue
  <2> QED
    BY <1>1, <1>3, <1>4, <2>1, QueueRests
<1>9. /\ UNCHANGED waiting_descriptors
      /\ \/ /\ status[childFunc] = "Waiting" /\ running' = childFunc
            /\ Placed(heap', childFunc, Alive(pc) \ {x}, W \ {childFunc}, Dead)
            /\ status' = [status EXCEPT ![x] = "Zombie", ![childFunc] = "Running"]
            /\ children' = [children EXCEPT ![childFunc] = @ \ {x}]
         \/ /\ status[childFunc] # "Waiting" /\ running' \in Alive(pc) \ ({x} \cup W)
            /\ Placed(heap', running', Alive(pc) \ {x}, W, Dead \cup {x})
            /\ status' = [status EXCEPT ![x] = "Zombie", ![running'] = "Running"]
            /\ children' = children
  <2>1. x \notin W /\ (status[childFunc] = "Waiting" => childFunc \in W)
    BY <1>3, <1>5, <1>7 DEF Idlers
  <2> QED
    BY <1>1, <1>2, <1>3, <1>7, <2>1, ExitDoes
<1>10. x \in children[childFunc] /\ children[childFunc] \subseteq Caller
       /\ children[init] = {childFunc} \cap Alive(pc)
  BY <1>1, <1>3, <1>5 DEF Families, LeftFor
<1>11. {childFunc} \cap Alive(pc') = {childFunc} \cap Alive(pc)
  BY <1>3, <1>6
<1>12. CASE status[childFunc] = "Waiting"
  <2>1. /\ UNCHANGED waiting_descriptors
        /\ running' = childFunc
        /\ Placed(heap', childFunc, Alive(pc) \ {x}, W \ {childFunc}, Dead)
        /\ status' = [status EXCEPT ![x] = "Zombie", ![childFunc] = "Running"]
        /\ children' = [children EXCEPT ![childFunc] = @ \ {x}]
    BY <1>9, <1>12
  <2>2. /\ status'[x] = "Zombie" /\ status'[childFunc] = "Running"
        /\ \A p \in Proc \ {x, childFunc} : status'[p] = status[p]
        /\ children'[childFunc] = children[childFunc] \ {x}
        /\ \A p \in Proc \ {childFunc} : children'[p] = children[p]
    BY <1>3, <2>1 DEF ProgramTypes
  <2>3. Idlers' = Idlers \ {childFunc} /\ childFunc \in Idlers
    BY <1>3, <1>12, <2>2 DEF Idlers
  <2>4. Dead' = Dead
    BY <1>3, <1>4, <1>10, <2>2 DEF Dead
  <2>5. ToSet(waiting_descriptors') \cup Idlers' = W \ {childFunc}
    BY <1>5, <1>7, <2>1, <2>3
  <2>6. Families'
    <3>1. LeftFor(pc'[childFunc], children'[childFunc], childFunc \in Idlers')
      <4>1. LeftFor(pc[childFunc], children[childFunc], TRUE)
        BY <1>1, <2>3 DEF Families
      <4>2. CASE pc[childFunc] = 5
        <5>1. \E y \in Caller : Caller \ {x} = {y}
          BY WhoIsWho
        <5> QED
          BY <1>3, <1>4, <2>2, <2>3, <4>1, <4>2, <5>1 DEF LeftFor
      <4>3. CASE pc[childFunc] = 6
        <5>1. children'[childFunc] = {}
          BY <1>10, <2>2, <4>1, <4>3 DEF LeftFor
        <5> QED
          BY <1>3, <1>4, <2>3, <4>3, <5>1 DEF LeftFor
      <4> QED
        BY <1>5, <4>2, <4>3
    <3>2. Caller \cap Alive(pc') \subseteq children'[childFunc]
      BY <1>1, <1>6, <2>2 DEF Families
    <3>3. children'[init] = {childFunc} \cap Alive(pc')
      BY <1>3, <1>10, <1>11, <2>2
    <3>4. \A y \in Caller : children'[y] = {}
      BY <1>1, <1>3, <2>2 DEF Families
    <3> QED
      BY <3>1, <3>2, <3>3, <3>4 DEF Families
  <2>7. Exits'
    BY <1>1, <1>3, <1>4, <2>2 DEF Exits
  <2>8. Progress'
    BY <1>3, <1>4, <1>5, <2>1, <2>3 DEF Progress
  <2> QED
    BY <1>6, <1>8, <2>1, <2>4, <2>5, <2>6, <2>7, <2>8, OrderlyNow
<1>13. CASE status[childFunc] # "Waiting"
  <2>1. PICK q : q = running'
    OBVIOUS
  <2>2. /\ UNCHANGED waiting_descriptors
        /\ q \in Alive(pc) \ ({x} \cup W)
        /\ Placed(heap', q, Alive(pc) \ {x}, W, Dead \cup {x})
        /\ status' = [status EXCEPT ![x] = "Zombie", ![q] = "Running"]
        /\ children' = children
    BY <1>9, <1>13, <2>1
  <2>3. /\ status'[x] = "Zombie" /\ status'[q] = "Running" /\ q \in Proc
        /\ \A p \in Proc \ {x, q} : status'[p] = status[p]
        /\ q \notin Idlers /\ q # x
    BY <1>3, <1>7, <2>2 DEF ProgramTypes, Alive
  <2>4. Idlers' = Idlers
    BY <1>3, <2>3 DEF Idlers
  <2>5. Dead' = Dead \cup {x}
    BY <1>3, <1>4, <1>10, <2>2 DEF Dead
  <2>6. ToSet(waiting_descriptors') \cup Idlers' = W
    BY <1>7, <2>2, <2>4
  <2>7. Families'
    <3>1. Caller \cap Alive(pc') \subseteq children'[childFunc]
      BY <1>1, <1>6, <2>2 DEF Families
    <3>2. pc'[childFunc] = pc[childFunc]
      BY <1>3, <1>4
    <3> QED
      BY <1>1, <1>11, <2>2, <2>4, <3>1, <3>2 DEF Families
  <2>8. Exits'
    <3>1. q \in Caller => pc[q] <= LastCall(q)
      BY <2>2 DEF Alive
    <3> QED
      BY <1>1, <1>3, <1>4, <2>3, <3>1 DEF Exits
  <2>9. Progress'
    <3>1. q # init
      BY <1>5, <2>3
    <3> QED
      BY <1>3, <1>4, <1>5, <2>1, <2>3, <2>4, <3>1 DEF Progress
  <2> QED
    BY <1>6, <1>8, <2>1, <2>2, <2>5, <2>6, <2>7, <2>8, <2>9, OrderlyNow
<1> QED
  BY <1>12, <1>13

\* A parent that has children, none of them a zombie, waits.
LEMMA SleepDoes ==
  ASSUME NEW L, NEW W, NEW Z, Placed(heap, running, L, W, Z), running \notin W,
         children[running] # {}, \A c \in children[running] : status[c] # "Zombie",
         WaitForAny, machine = "up", machine' = "up"
  PROVE  /\ UNCHANGED <<named, open, waiting_descriptors, children>>
         /\ running' \in L \ ({running} \cup W)
         /\ Placed(heap', running', L, W \cup {running}, Z)
         /\ status' = [status EXCEPT ![running] = "Waiting"]
<1>1. PICK q, g : g = List_append(heap, "waiting", running) /\ q = ReadyFirst(g)
  OBVIOUS
<1>2. Zombies = {} /\ ~Fault("wait_no_ready")
  BY DEF Zombies, Fault
<1>3. /\ ReadyFirst(heap) # NULL /\ running' = q /\ heap' = List_detach(g, "ready", q)
      /\ status' = [status EXCEPT ![running] = "Waiting"]
      /\ UNCHANGED <<queue, children>>
  BY <1>1, <1>2 DEF WaitForAny, TakeNext, ReadyFirst
<1>4. /\ q \in L \ ({running} \cup W)
      /\ Placed(List_detach(g, "ready", q), q, L, W \cup {running}, Z)
  BY <1>1, <1>3, SleepPlaces
<1> QED
  BY <1>3, <1>4 DEF queue

\* The one child that a parent has left is a zombie, which it frees.
LEMMA ReapDoes ==
  ASSUME NEW z, children[running] = {z}, status[z] = "Zombie", WaitForAny,
         NEW L, NEW W, NEW Z, Placed(heap, running, L, W, Z), z \in Z
  PROVE  /\ UNCHANGED <<running, status, named, open, waiting_descriptors>>
         /\ Placed(heap', running, L, W, Z \ {z})
         /\ children' = [children EXCEPT ![running] = {}]
<1>1. Zombies = {z}
  BY DEF Zombies
<1>2. /\ children' = [children EXCEPT ![running] = children[running] \ {z}]
      /\ heap' = List_detach(heap, "zombie", z)
      /\ UNCHANGED <<running, status, queue>>
  BY <1>1 DEF WaitForAny
<1>3. children[running] \ {z} = {}
  OBVIOUS
<1> QED
  BY <1>2, <1>3, ReapPlaces DEF queue

\* Where the parents are before the callers run.
LEMMA ParentFacts ==
  ASSUME Roles, ProgramTypes, Waiters, ~again, Orderly, running \in Parent, Advances
  PROVE  /\ Proc = {init, childFunc} \cup Caller /\ init # childFunc
         /\ init \notin Caller /\ childFunc \notin Caller /\ Parent = {init, childFunc}
         /\ \A p \in Proc : pc[p] \in Nat \ {0} /\ LastCall(p) \in Nat
         /\ LastCall(init) = 3 /\ LastCall(childFunc) = 6
         /\ pc' \in [Proc -> Nat \ {0}] /\ pc'[running] = pc[running] + 1
         /\ \A p \in Proc : p # running => pc'[p] = pc[p]
         /\ running \notin ToSet(waiting_descriptors) \cup Idlers
         /\ init \notin ToSet(waiting_descriptors)
         /\ childFunc \notin ToSet(waiting_descriptors)
         /\ Idlers \subseteq Parent
         /\ running \in Alive(pc)
<1>1. /\ running \in Alive(pc) /\ Idlers \subseteq Parent
      /\ ToSet(waiting_descriptors) \subseteq Caller
  BY OrderlyFacts
<1>2. /\ Proc = {init, childFunc} \cup Caller /\ init # childFunc
      /\ init \notin Caller /\ childFunc \notin Caller /\ Parent = {init, childFunc}
      /\ \A p \in Proc : pc[p] \in Nat \ {0} /\ LastCall(p) \in Nat
      /\ LastCall(init) = 3 /\ LastCall(childFunc) = 6
  BY WhoIsWho, LastIs DEF ProgramTypes
<1>3. running \in Proc /\ running \notin Idlers
  BY <1>2 DEF Orderly, Progress
<1>4. /\ pc' \in [Proc -> Nat \ {0}] /\ pc'[running] = pc[running] + 1
      /\ \A p \in Proc : p # running => pc'[p] = pc[p]
  BY <1>3, AdvancesIs
<1> QED
  BY <1>1, <1>2, <1>3, <1>4

LEMMA ParentExits ==
  ASSUME Roles, Contents, Waiters, ProgramTypes, Orderly, ~again, machine' = "up",
         running = childFunc, Advances, pc[childFunc] = 6, ExitProcess
  PROVE  Orderly'
<1>1. /\ Placed(heap, running, Alive(pc), ToSet(waiting_descriptors) \cup Idlers, Dead)
      /\ Families /\ Exits /\ Progress /\ Queue
  BY DEF Orderly
<1>2. running \in Parent
  BY WhoIsWho
<1>3. /\ Proc = {init, childFunc} \cup Caller /\ init # childFunc
      /\ init \notin Caller /\ childFunc \notin Caller /\ Parent = {init, childFunc}
      /\ \A p \in Proc : pc[p] \in Nat \ {0} /\ LastCall(p) \in Nat
      /\ LastCall(init) = 3 /\ LastCall(childFunc) = 6
      /\ pc' \in [Proc -> Nat \ {0}] /\ pc'[childFunc] = 7
      /\ \A p \in Proc : p # childFunc => pc'[p] = pc[p]
      /\ childFunc \notin ToSet(waiting_descriptors) \cup Idlers
      /\ init \notin ToSet(waiting_descriptors)
      /\ Idlers \subseteq Parent /\ childFunc \in Alive(pc)
  BY <1>2, ParentFacts
<1>4. init \in Idlers /\ pc[init] > 2 /\ children[childFunc] = {}
  BY <1>1, <1>3 DEF Progress, Families, LeftFor
<1>5. Idlers = {init} /\ Dead = {} /\ status[init] = "Waiting"
  BY <1>3, <1>4 DEF Dead, Idlers
<1>6. ParentOf[running] = init
  BY <1>3 DEF ParentOf
<1>7. PICK W : W = ToSet(waiting_descriptors) \cup Idlers
  OBVIOUS
<1>8. /\ UNCHANGED <<named, open, waiting_descriptors>>
      /\ running' = init
      /\ Placed(heap', init, Alive(pc) \ {childFunc}, W \ {init}, {})
      /\ status' = [status EXCEPT ![childFunc] = "Zombie", ![init] = "Running"]
      /\ children' = [children EXCEPT ![init] = @ \ {childFunc}]
  <2>1. running \notin W /\ init \in W
    BY <1>3, <1>4, <1>7
  <2>2. Placed(heap, running, Alive(pc), W, {})
    BY <1>1, <1>5, <1>7
  <2> QED
    BY <1>5, <1>6, <2>1, <2>2, ExitDoes
<1>9. /\ status'[childFunc] = "Zombie" /\ status'[init] = "Running"
      /\ \A p \in Caller : status'[p] = status[p]
      /\ children'[init] = children[init] \ {childFunc}
      /\ \A p \in Proc \ {init} : children'[p] = children[p]
  BY <1>3, <1>8 DEF ProgramTypes
<1>10. Alive(pc') = Alive(pc) \ {childFunc}
  <2>1. ASSUME NEW p \in Proc
        PROVE  p \in Alive(pc') <=> p \in Alive(pc) /\ p # childFunc
    <3>1. p # childFunc => (Started(pc, p) <=> Started(pc', p))
      BY <1>3 DEF Started
    <3>2. p = childFunc => ~(pc'[p] <= LastCall(p))
      BY <1>3
    <3> QED
      BY <1>3, <3>1, <3>2 DEF Alive
  <2> QED
    BY <2>1 DEF Alive
<1>11. Idlers' = {}
  BY <1>3, <1>9 DEF Idlers
<1>12. Dead' = {}
  BY <1>3, <1>4, <1>9 DEF Dead
<1>13. ToSet(waiting_descriptors') \cup Idlers' = W \ {init}
  BY <1>3, <1>5, <1>7, <1>8, <1>11
<1>14. Queue'
  <2>1. pc'[childFunc] >= pc[childFunc] /\ \A x \in Caller : pc'[x] = pc[x]
    BY <1>3
  <2> QED
    BY <1>1, <1>3, <1>8, <2>1, QueueRests
<1>15. Families'
  <2>1. LeftFor(pc'[childFunc], children'[childFunc], childFunc \in Idlers')
    BY <1>3, <1>4, <1>9 DEF LeftFor
  <2>2. Caller \cap Alive(pc') \subseteq children'[childFunc]
    BY <1>1, <1>3, <1>9, <1>10 DEF Families
  <2>3. children'[init] = {childFunc} \cap Alive(pc')
    BY <1>1, <1>9, <1>10 DEF Families
  <2>4. \A x \in Caller : children'[x] = {}
    BY <1>1, <1>3, <1>9 DEF Families
  <2> QED
    BY <2>1, <2>2, <2>3, <2>4 DEF Families
<1>16. Exits'
  BY <1>1, <1>3, <1>9 DEF Exits
<1>17. Progress'
  BY <1>3, <1>4, <1>8, <1>11 DEF Progress
<1> QED
  BY <1>8, <1>10, <1>12, <1>13, <1>14, <1>15, <1>16, <1>17, OrderlyNow

LEMMA ParentSpawns ==
  ASSUME Roles, Waiters, ProgramTypes, Orderly, ~again, running \in Parent, Advances,
         NEW c, SpawnProcess(c),
         \/ running = init /\ pc[init] = 1 /\ c = childFunc
         \/ running = childFunc /\ pc[childFunc] = 1 /\ c = consumer
         \/ running = childFunc /\ pc[childFunc] = 2 /\ c = producer
  PROVE  Orderly'
<1>1. /\ Placed(heap, running, Alive(pc), ToSet(waiting_descriptors) \cup Idlers, Dead)
      /\ Families /\ Exits /\ Progress /\ Queue
  BY DEF Orderly
<1>2. /\ Proc = {init, childFunc} \cup Caller /\ init # childFunc
      /\ init \notin Caller /\ childFunc \notin Caller /\ Parent = {init, childFunc}
      /\ \A p \in Proc : pc[p] \in Nat \ {0} /\ LastCall(p) \in Nat
      /\ LastCall(init) = 3 /\ LastCall(childFunc) = 6
      /\ pc' \in [Proc -> Nat \ {0}] /\ pc'[running] = pc[running] + 1
      /\ \A p \in Proc : p # running => pc'[p] = pc[p]
      /\ running \notin ToSet(waiting_descriptors) \cup Idlers
      /\ Idlers \subseteq Parent /\ running \in Alive(pc)
  BY ParentFacts
<1>3. /\ Caller = {consumer, producer} /\ consumer # producer
      /\ \A x \in Caller : LastCall(x) >= 1
  <2>1. \A x \in Caller : LastCall(x) = Closes(x) + 1 /\ Closes(x) \in Nat
    BY LastIs
  <2> QED
    BY <2>1, WhoIsWho
<1>4. /\ running \in Proc /\ c \in Proc /\ c # running /\ pc[c] = 1 /\ pc'[c] = 1
      /\ LastCall(c) >= 1 /\ c # init
  <2>1. running \in Proc /\ c \in Proc /\ c # running /\ LastCall(c) >= 1 /\ c # init
    BY <1>2, <1>3
  <2>2. pc[c] = 1
    <3>1. CASE running = init
      BY <3>1, <1>1, <1>2 DEF Progress
    <3>2. CASE running = childFunc
      <4>1. pc[childFunc] < 5 /\ c \in Caller
        BY <1>2, <1>3, <3>2
      <4> QED
        BY <4>1, <1>1 DEF Progress
    <3> QED
      BY <1>2, <3>1, <3>2
  <2> QED
    BY <1>2, <2>1, <2>2
<1>5. /\ running = init \/ (init \in Idlers /\ pc[init] > 2)
      /\ \A x \in Caller : pc[x] = 1 /\ pc'[x] = 1
      /\ pc[childFunc] = 1 \/ pc[childFunc] = 2
  <2>1. running = init \/ (init \in Idlers /\ pc[init] > 2)
    BY <1>1, <1>2 DEF Progress
  <2>2. pc[childFunc] = 1 \/ pc[childFunc] = 2
    BY <1>1, <1>2 DEF Progress
  <2>3. \A x \in Caller : pc[x] = 1
    BY <1>1, <2>2 DEF Progress
  <2>4. \A x \in Caller : x \in Proc /\ x # running
    BY <1>2
  <2> QED
    BY <1>2, <2>1, <2>2, <2>3, <2>4
<1>6. /\ ~Started(pc, c) /\ Started(pc', c)
      /\ \A p \in Proc : p # c => (Started(pc, p) <=> Started(pc', p))
  <2>1. CASE running = init
    BY <1>2, <1>3, <2>1 DEF Started
  <2>2. CASE running = childFunc /\ pc[childFunc] = 1
    BY <1>2, <1>3, <2>2 DEF Started
  <2>3. CASE running = childFunc /\ pc[childFunc] = 2
    BY <1>2, <1>3, <2>3 DEF Started
  <2> QED
    BY <2>1, <2>2, <2>3
<1>7. Alive(pc') = Alive(pc) \cup {c} /\ c \notin Alive(pc)
  <2>1. pc'[running] <= LastCall(running) /\ pc[running] <= LastCall(running)
    BY <1>2
  <2>2. ASSUME NEW p \in Proc
        PROVE  p \in Alive(pc') <=> p \in Alive(pc) \/ p = c
    <3>1. CASE p = c
      BY <1>4, <1>6, <3>1 DEF Alive
    <3>2. CASE p = running
      BY <1>4, <1>6, <2>1, <3>2 DEF Alive
    <3>3. CASE p # c /\ p # running
      BY <1>2, <1>6, <3>3 DEF Alive
    <3> QED
      BY <3>1, <3>2, <3>3
  <2> QED
    BY <1>4, <1>6, <2>2 DEF Alive
<1>8. PICK W : W = ToSet(waiting_descriptors) \cup Idlers
  OBVIOUS
<1>9. c \notin W /\ c \notin Dead
  <2>1. W \subseteq Alive(pc)
    BY <1>1, <1>8 DEF Placed
  <2>2. ~(pc[c] > LastCall(c))
    BY <1>2, <1>4
  <2> QED
    BY <1>7, <2>1, <2>2 DEF Dead
<1>10. /\ status' = [status EXCEPT ![c] = "Ready"]
       /\ heap' = List_append(heap, "ready", c)
       /\ children' = [children EXCEPT ![running] = @ \cup {c}]
       /\ UNCHANGED <<running, named, open, waiting_descriptors>>
  BY DEF SpawnProcess, queue
<1>11. Placed(heap', running', Alive(pc'), W, Dead)
  BY <1>1, <1>4, <1>7, <1>8, <1>9, <1>10, SpawnPlaces
<1>12. /\ status'[c] = "Ready" /\ \A p \in Proc : p # c => status'[p] = status[p]
       /\ children'[running] = children[running] \cup {c}
       /\ \A p \in Proc : p # running => children'[p] = children[p]
  BY <1>4, <1>10 DEF ProgramTypes
<1>13. Idlers' = Idlers
  BY <1>2, <1>8, <1>9, <1>12 DEF Idlers
<1>14. Dead = {} /\ Dead' = {}
  <2>1. children[childFunc] \subseteq Caller /\ children'[childFunc] \subseteq Caller
    BY <1>1, <1>2, <1>3, <1>5, <1>12 DEF Families, LeftFor
  <2> QED
    BY <1>2, <1>3, <1>5, <2>1 DEF Dead
<1>15. Queue'
  <2>1. pc'[childFunc] >= pc[childFunc] /\ \A x \in Caller : pc'[x] = pc[x]
    BY <1>2, <1>5
  <2> QED
    BY <1>1, <1>2, <1>10, <2>1, QueueRests
<1>16. Families'
  <2>1. LeftFor(pc'[childFunc], children'[childFunc], childFunc \in Idlers')
    <3>1. LeftFor(pc[childFunc], children[childFunc], childFunc \in Idlers)
      BY <1>1 DEF Families
    <3>2. CASE running = init
      BY <1>2, <1>12, <1>13, <3>1, <3>2
    <3>3. CASE running = childFunc /\ pc[childFunc] = 1
      <4>1. pc'[childFunc] = 2 /\ children'[childFunc] = {consumer}
        BY <1>2, <1>12, <3>1, <3>3 DEF LeftFor
      <4> QED
        BY <4>1 DEF LeftFor
    <3>4. CASE running = childFunc /\ pc[childFunc] = 2
      <4>1. pc'[childFunc] = 3 /\ children'[childFunc] = Caller
        BY <1>2, <1>3, <1>12, <3>1, <3>4 DEF LeftFor
      <4> QED
        BY <4>1 DEF LeftFor
    <3> QED
      BY <3>2, <3>3, <3>4
  <2>2. Caller \cap Alive(pc') \subseteq children'[childFunc]
    BY <1>1, <1>2, <1>7, <1>12 DEF Families
  <2>3. children'[init] = {childFunc} \cap Alive(pc')
    BY <1>1, <1>2, <1>3, <1>7, <1>12 DEF Families
  <2>4. \A x \in Caller : children'[x] = {}
    BY <1>1, <1>2, <1>12 DEF Families
  <2> QED
    BY <2>1, <2>2, <2>3, <2>4 DEF Families
<1>17. Exits'
  <2>1. \A x \in Caller : status'[x] # "Zombie" /\ ~(pc'[x] > LastCall(x))
    BY <1>1, <1>2, <1>3, <1>5, <1>12 DEF Exits
  <2>2. status'[childFunc] # "Zombie"
    BY <1>1, <1>2, <1>5, <1>12 DEF Exits
  <2> QED
    BY <2>1, <2>2 DEF Exits
<1>18. Progress'
  <2>1. CASE running = init
    <3>1. pc'[init] = 2 /\ pc'[childFunc] = 1 /\ running' = init
      BY <1>1, <1>2, <1>4, <1>10, <2>1
    <3> QED
      BY <1>2, <1>5, <1>13, <2>1, <3>1 DEF Progress
  <2>2. CASE running = childFunc
    <3>1. pc'[init] > 2 /\ pc'[init] \in Nat /\ pc'[childFunc] \in {2, 3}
          /\ running' = childFunc
      BY <1>2, <1>5, <1>10, <2>2
    <3> QED
      BY <1>2, <1>5, <1>13, <2>2, <3>1 DEF Progress
  <2> QED
    BY <2>1, <2>2
<1> QED
  BY <1>8, <1>10, <1>11, <1>13, <1>14, <1>15, <1>16, <1>17, <1>18, OrderlyNow

LEMMA ParentCreates ==
  ASSUME Roles, Contents, Waiters, ProgramTypes, Orderly, ~again, running = childFunc,
         pc[childFunc] = 3, Advances, CreateQueue, children' = children
  PROVE  Orderly'
<1>1. /\ Placed(heap, running, Alive(pc), ToSet(waiting_descriptors) \cup Idlers, Dead)
      /\ Families /\ Exits /\ Progress /\ Queue
  BY DEF Orderly
<1>2. running \in Parent
  BY WhoIsWho
<1>3. /\ Proc = {init, childFunc} \cup Caller /\ init # childFunc
      /\ init \notin Caller /\ childFunc \notin Caller
      /\ \A p \in Proc : pc[p] \in Nat \ {0} /\ LastCall(p) \in Nat
      /\ LastCall(childFunc) = 6
      /\ pc' \in [Proc -> Nat \ {0}] /\ pc'[childFunc] = 4
      /\ \A p \in Proc : p # childFunc => pc'[p] = pc[p]
  BY <1>2, ParentFacts
<1>4. /\ ~named /\ waiting_descriptors = <<>>
      /\ waiting_descriptors' = <<>> /\ UNCHANGED <<heap, running, status, open>>
  BY <1>1, NoWaitersWithoutQueue DEF Queue, CreateQueue
<1>5. Alive(pc') = Alive(pc)
  <2>1. ASSUME NEW p \in Proc
        PROVE  p \in Alive(pc') <=> p \in Alive(pc)
    <3>1. Started(pc, p) <=> Started(pc', p)
      BY <1>3 DEF Started
    <3>2. pc'[p] <= LastCall(p) <=> pc[p] <= LastCall(p)
      BY <1>3
    <3> QED
      BY <3>1, <3>2 DEF Alive
  <2> QED
    BY <2>1 DEF Alive
<1>6. Idlers' = Idlers
  BY <1>4 DEF Idlers
<1>7. children[childFunc] = Caller
  BY <1>1 DEF Families, LeftFor
<1>8. Dead' = Dead
  BY <1>3, <1>7 DEF Dead
<1>9. \A x \in Caller : pc[x] = 1 /\ pc'[x] = 1 /\ Closes(x) \in Nat /\ Closes(x) >= 3
  BY <1>1, <1>3, LastIs DEF Progress
<1>10. Queue'
  <2>1. open' = {}
    BY <1>1, <1>4, <1>9 DEF Queue
  <2>2. \A x \in Caller : ~(pc'[x] > Closes(x))
    BY <1>9
  <2> QED
    BY <1>3, <2>1, <2>2 DEF Queue
<1>11. Families'
  <2>1. LeftFor(pc'[childFunc], children'[childFunc], childFunc \in Idlers')
    BY <1>3, <1>7 DEF LeftFor
  <2> QED
    BY <1>1, <1>5, <1>6, <2>1 DEF Families
<1>12. Exits'
  BY <1>1, <1>3, <1>4 DEF Exits
<1>13. Progress'
  <2>1. init \in Idlers /\ pc[init] > 2
    BY <1>1, <1>3 DEF Progress
  <2> QED
    BY <1>1, <1>2, <1>3, <1>4, <1>6, <1>9, <2>1 DEF Progress
<1> QED
  BY <1>1, <1>4, <1>5, <1>6, <1>8, <1>10, <1>11, <1>12, <1>13, OrderlyNow

LEMMA ParentSleeps ==
  ASSUME Roles, Waiters, ProgramTypes, Orderly, ~again, machine = "up", machine' = "up",
         running \in Parent, Advances, WaitForAny,
         \/ running = init /\ pc[init] = 2
         \/ running = childFunc /\ pc[childFunc] \in {4, 5},
         children[running] # {}, \A c \in children[running] : status[c] # "Zombie"
  PROVE  Orderly'
<1>1. /\ Placed(heap, running, Alive(pc), ToSet(waiting_descriptors) \cup Idlers, Dead)
      /\ Families /\ Exits /\ Progress /\ Queue
  BY DEF Orderly
<1>2. /\ Proc = {init, childFunc} \cup Caller /\ init # childFunc
      /\ init \notin Caller /\ childFunc \notin Caller /\ Parent = {init, childFunc}
      /\ \A p \in Proc : pc[p] \in Nat \ {0} /\ LastCall(p) \in Nat
      /\ LastCall(init) = 3 /\ LastCall(childFunc) = 6
      /\ pc' \in [Proc -> Nat \ {0}] /\ pc'[running] = pc[running] + 1
      /\ \A p \in Proc : p # running => pc'[p] = pc[p]
      /\ running \notin ToSet(waiting_descriptors) \cup Idlers
      /\ Idlers \subseteq Parent
  BY ParentFacts
<1>3. PICK W : W = ToSet(waiting_descriptors) \cup Idlers
  OBVIOUS
<1>4. /\ UNCHANGED <<named, open, waiting_descriptors, children>>
      /\ running' \in Alive(pc) \ ({running} \cup W)
      /\ Placed(heap', running', Alive(pc), W \cup {running}, Dead)
      /\ status' = [status EXCEPT ![running] = "Waiting"]
  BY <1>1, <1>2, <1>3, SleepDoes
<1>5. Alive(pc') = Alive(pc)
  <2>1. ASSUME NEW p \in Proc
        PROVE  p \in Alive(pc') <=> p \in Alive(pc)
    <3>1. Started(pc, p) <=> Started(pc', p)
      BY <1>1, <1>2 DEF Started
    <3>2. pc'[p] <= LastCall(p) <=> pc[p] <= LastCall(p)
      BY <1>2
    <3> QED
      BY <3>1, <3>2 DEF Alive
  <2> QED
    BY <2>1 DEF Alive
<1>6. running \in Proc /\ status'[running] = "Waiting"
      /\ \A p \in Proc : p # running => status'[p] = status[p]
  <2>1. running \in Proc
    BY <1>2
  <2>2. DOMAIN status = Proc
    BY DEF ProgramTypes
  <2> QED
    BY <1>4, <2>1, <2>2
<1>7. Idlers' = Idlers \cup {running}
  BY <1>2, <1>6 DEF Idlers
<1>8. ToSet(waiting_descriptors') \cup Idlers' = W \cup {running}
  BY <1>3, <1>4, <1>7
<1>9. Dead' = Dead
  <2>1. children[childFunc] \subseteq Caller
    <3>1. LeftFor(pc[childFunc], children[childFunc], childFunc \in Idlers)
      BY <1>1 DEF Families
    <3>2. pc[childFunc] \in Nat \ {0}
      BY <1>2
    <3>3. consumer \in Caller
      BY WhoIsWho
    <3> QED
      BY <3>1, <3>2, <3>3 DEF LeftFor
  <2> QED
    BY <1>2, <1>4, <2>1 DEF Dead
<1>10. Queue'
  <2>1. pc'[childFunc] >= pc[childFunc] /\ \A x \in Caller : pc'[x] = pc[x]
    BY <1>2
  <2> QED
    BY <1>1, <1>2, <1>4, <2>1, QueueRests
<1>11. Families'
  <2>1. LeftFor(pc'[childFunc], children'[childFunc], childFunc \in Idlers')
    <3>1. LeftFor(pc[childFunc], children[childFunc], childFunc \in Idlers)
      BY <1>1 DEF Families
    <3>2. CASE running = init
      <4>1. pc'[childFunc] = pc[childFunc] /\ (childFunc \in Idlers' <=> childFunc \in Idlers)
        BY <1>2, <1>7, <3>2
      <4> QED
        BY <1>4, <3>1, <4>1 DEF LeftFor
    <3>3. CASE running = childFunc
      <4>1. childFunc \in Idlers' /\ childFunc \notin Idlers
        BY <1>2, <1>7, <3>3
      <4>2. CASE pc[childFunc] = 4
        BY <1>2, <1>4, <3>1, <3>3, <4>1, <4>2 DEF LeftFor
      <4>3. CASE pc[childFunc] = 5
        BY <1>2, <1>4, <3>1, <3>3, <4>1, <4>3 DEF LeftFor
      <4> QED
        BY <1>2, <3>3, <4>2, <4>3
    <3> QED
      BY <3>2, <3>3
  <2> QED
    BY <1>1, <1>4, <1>5, <2>1 DEF Families
<1>12. Exits'
  <2>1. \A x \in Caller : status'[x] = status[x] /\ pc'[x] = pc[x]
    BY <1>2, <1>6
  <2>2. pc'[childFunc] <= 6 => status'[childFunc] # "Zombie"
    BY <1>1, <1>2, <1>6 DEF Exits
  <2> QED
    BY <1>1, <2>1, <2>2 DEF Exits
<1>13. Progress'
  <2>1. /\ running' \notin Idlers' /\ init \in Idlers' /\ running' # init
        /\ pc'[init] > 2 /\ pc'[init] \in Nat
    BY <1>1, <1>2, <1>3, <1>4, <1>7 DEF Progress
  <2>2. ASSUME pc'[childFunc] < 5
        PROVE  running' \in Parent /\ \A x \in Caller : pc'[x] = 1
    <3>1. running = init /\ pc[childFunc] = 1
      BY <1>1, <1>2, <2>2 DEF Progress
    <3>2. consumer \notin Alive(pc) /\ producer \notin Alive(pc)
      BY <3>1, AliveIs
    <3> QED
      BY <1>1, <1>2, <1>4, <3>1, <3>2, AliveIs, WhoIsWho DEF Progress
  <2> QED
    BY <1>2, <2>1, <2>2 DEF Progress
<1> QED
  BY <1>4, <1>5, <1>8, <1>9, <1>10, <1>11, <1>12, <1>13, OrderlyNow

LEMMA ParentReaps ==
  ASSUME Roles, Waiters, ProgramTypes, Orderly, ~again, running = childFunc, Advances,
         WaitForAny, pc[childFunc] = 5,
         NEW z \in Caller, children[childFunc] = {z}, status[z] = "Zombie"
  PROVE  Orderly'
<1>1. /\ Placed(heap, running, Alive(pc), ToSet(waiting_descriptors) \cup Idlers, Dead)
      /\ Families /\ Exits /\ Progress /\ Queue
  BY DEF Orderly
<1>2. running \in Parent
  BY WhoIsWho
<1>3. /\ Proc = {init, childFunc} \cup Caller /\ init # childFunc
      /\ init \notin Caller /\ childFunc \notin Caller
      /\ \A p \in Proc : pc[p] \in Nat \ {0} /\ LastCall(p) \in Nat
      /\ LastCall(childFunc) = 6
      /\ pc' \in [Proc -> Nat \ {0}] /\ pc'[childFunc] = 6
      /\ \A p \in Proc : p # childFunc => pc'[p] = pc[p]
      /\ childFunc \notin Idlers
  BY <1>2, ParentFacts
<1>4. pc[z] > LastCall(z) /\ Dead = {z}
  BY <1>1 DEF Exits, Dead
<1>5. PICK W : W = ToSet(waiting_descriptors) \cup Idlers
  OBVIOUS
<1>6. /\ UNCHANGED <<running, status, named, open, waiting_descriptors>>
      /\ Placed(heap', running, Alive(pc), W, Dead \ {z})
      /\ children' = [children EXCEPT ![running] = {}]
  BY <1>1, <1>4, <1>5, ReapDoes
<1>7. /\ children'[childFunc] = {}
      /\ \A p \in Proc : p # childFunc => children'[p] = children[p]
  BY <1>3, <1>6 DEF ProgramTypes
<1>8. Dead' = {} /\ Dead \ {z} = {}
  BY <1>4, <1>7 DEF Dead
<1>9. Alive(pc') = Alive(pc)
  <2>1. ASSUME NEW p \in Proc
        PROVE  p \in Alive(pc') <=> p \in Alive(pc)
    <3>1. Started(pc, p) <=> Started(pc', p)
      BY <1>3 DEF Started
    <3>2. pc'[p] <= LastCall(p) <=> pc[p] <= LastCall(p)
      BY <1>3
    <3> QED
      BY <3>1, <3>2 DEF Alive
  <2> QED
    BY <2>1 DEF Alive
<1>10. Idlers' = Idlers
  BY <1>6 DEF Idlers
<1>11. Queue'
  <2>1. pc'[childFunc] >= pc[childFunc] /\ \A x \in Caller : pc'[x] = pc[x]
    BY <1>3
  <2> QED
    BY <1>1, <1>3, <1>6, <2>1, QueueRests
<1>12. Families'
  <2>1. LeftFor(pc'[childFunc], children'[childFunc], childFunc \in Idlers')
    BY <1>3, <1>7, <1>10 DEF LeftFor
  <2>2. z \notin Alive(pc)
    BY <1>3, <1>4 DEF Alive
  <2>3. Caller \cap Alive(pc') \subseteq children'[childFunc]
    BY <1>1, <1>7, <1>9, <2>2 DEF Families
  <2>4. children'[init] = {childFunc} \cap Alive(pc')
    BY <1>1, <1>3, <1>7, <1>9 DEF Families
  <2>5. \A x \in Caller : children'[x] = {}
    BY <1>1, <1>3, <1>7 DEF Families
  <2> QED
    BY <2>1, <2>3, <2>4, <2>5 DEF Families
<1>13. Exits'
  BY <1>1, <1>3, <1>6 DEF Exits
<1>14. Progress'
  <2>1. init \in Idlers /\ pc[init] > 2
    BY <1>1, <1>3 DEF Progress
  <2> QED
    BY <1>1, <1>3, <1>6, <1>10, <2>1 DEF Progress
<1> QED
  BY <1>5, <1>6, <1>8, <1>9, <1>10, <1>11, <1>12, <1>13, <1>14, OrderlyNow

-----------------------------------------------------------------------------
(* All steps                                                               *)

LEMMA ParentStep ==
  ASSUME Roles, Contents, Waiters, ProgramTypes, Orderly, ~again,
         machine = "up", machine' = "up", running \in Parent, Call
  PROVE  Orderly'
<1>1. /\ Families /\ Exits /\ Progress
  BY DEF Orderly
<1>2. Advances
  BY ParentCalls
<1>3. /\ init \in Proc /\ childFunc \in Proc /\ consumer \in Caller /\ init # childFunc
      /\ \A x \in Caller : x \in Proc /\ LastCall(x) \in Nat /\ LastCall(x) >= 4
      /\ \A p \in Proc : pc[p] \in Nat \ {0}
  <2>1. \A x \in Caller : /\ LastCall(x) = Closes(x) + 1
                          /\ Closes(x) \in Nat /\ Closes(x) >= 3
    BY LastIs
  <2>2. \A x \in Caller : LastCall(x) \in Nat /\ LastCall(x) >= 4
    BY <2>1
  <2> QED
    BY <2>2, WhoIsWho DEF ProgramTypes
<1>4. CASE running = init /\ pc[init] = 2 /\ WaitForAny
  <2>1. pc[childFunc] = 1
    BY <1>1, <1>4 DEF Progress
  <2>2. childFunc \in Alive(pc) /\ status[childFunc] # "Zombie"
    BY <1>1, <1>4, <2>1, AliveIs DEF Exits
  <2>3. children[running] = {childFunc}
    BY <1>1, <1>4, <2>2 DEF Families
  <2> QED
    BY <1>2, <1>4, <2>2, <2>3, ParentSleeps
<1>5. CASE running = childFunc /\ pc[childFunc] = 4 /\ WaitForAny
  <2>1. children[running] = Caller
    BY <1>1, <1>5 DEF Families, LeftFor
  <2>2. \A x \in Caller : pc[x] = 1
    BY <1>1, <1>5 DEF Progress
  <2>3. \A x \in Caller : status[x] # "Zombie"
    <3>1. \A x \in Caller : ~(pc[x] > LastCall(x))
      BY <1>3, <2>2
    <3> QED
      BY <1>1, <3>1 DEF Exits
  <2> QED
    BY <1>2, <1>3, <1>5, <2>1, <2>3, ParentSleeps
<1>6. CASE running = childFunc /\ pc[childFunc] = 5 /\ WaitForAny
  <2>1. childFunc \notin Idlers
    BY <1>1, <1>6 DEF Progress
  <2>2. PICK x \in Caller : children[childFunc] = {x}
    BY <1>1, <1>6, <2>1 DEF Families, LeftFor
  <2>3. CASE status[x] = "Zombie"
    BY <1>2, <1>6, <2>2, <2>3, ParentReaps
  <2>4. CASE status[x] # "Zombie"
    BY <1>2, <1>6, <2>2, <2>4, ParentSleeps
  <2> QED
    BY <2>3, <2>4
<1>7. CASE running = init /\ pc[init] = 1 /\ SpawnProcess(childFunc)
  BY <1>2, <1>7, ParentSpawns
<1>8. CASE running = childFunc /\ pc[childFunc] = 1 /\ SpawnProcess(consumer)
  BY <1>2, <1>8, ParentSpawns
<1>9. CASE running = childFunc /\ pc[childFunc] = 2 /\ SpawnProcess(producer)
  BY <1>2, <1>9, ParentSpawns
<1>10. CASE /\ running = childFunc /\ pc[childFunc] = 3 /\ CreateQueue
            /\ children' = children
  BY <1>2, <1>10, ParentCreates
<1>11. CASE running = childFunc /\ pc[childFunc] = 6 /\ ExitProcess
  BY <1>2, <1>11, ParentExits
<1> QED
  BY <1>4, <1>5, <1>6, <1>7, <1>8, <1>9, <1>10, <1>11, ParentCalls

LEMMA CallerStep ==
  ASSUME Roles, Contents, Waiters, ProgramTypes, Orderly, ~again, ~again',
         machine' = "up", running \in Caller, Call
  PROVE  Orderly'
<1>1. Progress /\ Queue
  BY DEF Orderly
<1>2. Advances
  BY CallerCalls
<1>3. /\ \A p \in Proc : pc[p] \in Nat
      /\ init \in Proc /\ childFunc \in Proc /\ init \notin Caller /\ childFunc \notin Caller
      /\ Caller \subseteq Proc /\ Caller \cap Parent = {}
  BY WhoIsWho DEF ProgramTypes
<1>4. pc[childFunc] >= 5
  BY <1>1, <1>3 DEF Progress
<1>5. CASE pc[running] = Closes(running) + 1 /\ ExitProcess
  BY <1>2, <1>5, CallerExits
<1>6. CASE /\ children' = children
           /\ \/ pc[running] = 1 /\ Open
              \/ pc[running] \in 2..(Closes(running) - 1) /\ Preempt
              \/ /\ pc[running] \in 2..(Closes(running) - 1)
                 /\ \E n \in Lengths : Read(n)
              \/ /\ pc[running] \in 2..(Closes(running) - 1)
                 /\ \E n \in Lengths, k \in Priority : Write(n, k)
              \/ pc[running] = Closes(running) /\ Close
  <2>1. /\ Queue' /\ pc'[running] <= LastCall(running)
        /\ pc[running] <= LastCall(running)
    BY <1>1, <1>2, <1>4, <1>6, CallersQueue
  <2>2. PlacesChange
    <3>1. Next
      BY <1>6 DEF Next
    <3> QED
      BY <3>1, CallsOnPlaces
  <2>3. /\ pc' \in [Proc -> Nat \ {0}]
        /\ \A p \in Proc : p # running => pc'[p] = pc[p]
    BY <1>2, <1>3, AdvancesIs
  <2>4. \A x \in Caller : pc'[x] > LastCall(x) <=> pc[x] > LastCall(x)
    <3> TAKE x \in Caller
    <3>1. CASE x = running
      <4>1. pc'[x] \in Nat /\ pc[x] \in Nat /\ LastCall(x) \in Nat
        BY <1>3, <2>3, LastIs
      <4> QED
        BY <2>1, <3>1, <4>1
    <3>2. CASE x # running
      BY <1>3, <2>3, <3>2
    <3> QED
      BY <3>1, <3>2
  <2>5. pc'[init] = pc[init] /\ pc'[childFunc] = pc[childFunc]
    BY <1>3, <2>3
  <2>6. /\ Placed(heap', running', Alive(pc'),
                  ToSet(waiting_descriptors') \cup Idlers', Dead')
        /\ Families' /\ Exits' /\ Progress'
    BY <1>4, <1>6, <2>2, <2>3, <2>4, <2>5, GoesOn
  <2> QED
    BY <2>1, <2>6, OrderlyNow
<1> QED
  BY <1>5, <1>6, CallerCalls

\* A tick finds childFunc in a wait, as both callers have opened the queue.
LEMMA TickStep ==
  ASSUME Roles, Settled, Contents, Waiters, ProgramTypes, Orderly, ~again, ~again', Tick
  PROVE  Orderly'
<1>1. Progress /\ Queue
  BY DEF Orderly
<1>2. /\ childFunc \in Proc /\ consumer \in Caller /\ pc \in [Proc -> Nat \ {0}]
      /\ pc[childFunc] \in Nat
  BY WhoIsWho DEF ProgramTypes
<1>3. /\ \A p \in Caller : pc[p] > 1
      /\ TimerTick /\ UNCHANGED <<pc, children>>
  BY DEF Tick, Opened
<1>4. pc[childFunc] >= 5
  BY <1>1, <1>2, <1>3 DEF Progress
<1>5. PlacesChange /\ UNCHANGED <<named, open>>
  BY <1>3 DEF TimerTick, PlacesChange, Schedule, queue
<1>6. /\ Placed(heap', running', Alive(pc'),
                ToSet(waiting_descriptors') \cup Idlers', Dead')
      /\ Families' /\ Exits' /\ Progress'
  BY <1>2, <1>3, <1>4, <1>5, GoesOn
<1>7. Queue'
  BY <1>1, <1>2, <1>3, <1>5, QueueRests
<1> QED
  BY <1>6, <1>7, OrderlyNow

LEMMA OrderlyRests ==
  ASSUME Orderly, UNCHANGED testvars
  PROVE  Orderly'
<1>1. UNCHANGED <<heap, running, status, named, open, waiting_descriptors, pc, children>>
  BY DEF testvars, vars, queue
<1>2. Idlers' = Idlers /\ Dead' = Dead
  BY <1>1 DEF Idlers, Dead
<1> QED
  BY <1>1, <1>2 DEF Orderly, Families, Exits, Progress, Queue

\* Only its own shutdown ends the machine without a fault.
LEMMA ShutdownEnds ==
  ASSUME Call \/ Tick, machine' = "off", machine = "up"
  PROVE  Calls("shutdown")
<1>1. ~Tick
  BY DEF Tick, TimerTick, Schedule
<1>2. ASSUME NEW why, Fault(why), why # "off"
      PROVE  FALSE
  BY <1>2 DEF Fault
<1>3. ~Block /\ \A n : ~Refuse(n)
  BY <1>2 DEF Block, Refuse
<1>4. ~(\E n \in Lengths : Read(n)) /\ ~(\E n \in Lengths, k \in Priority : Write(n, k))
  BY <1>2, <1>3 DEF Read, Deliver, Write, Store_message
<1>5. ~Open /\ ~Close /\ ~Preempt /\ ~CreateQueue
  BY <1>2, <1>3 DEF Open, Open_descriptor, Close, Preempt, Schedule, CreateQueue
<1>6. ~WaitForAny /\ ~ExitProcess /\ \A c : ~SpawnProcess(c)
  BY <1>2 DEF WaitForAny, ExitProcess, SpawnProcess, vars
<1> QED
  BY <1>1, <1>4, <1>5, <1>6 DEF Call

\* Who may shut down, and who may create the queue.
LEMMA ParentsCallThese ==
  ASSUME Roles, Waiters, ProgramTypes, Orderly, ~again,
         NEW call \in {"shutdown", "create"}, Calls(call)
  PROVE  running \in Parent /\ ParentsCall(call, pc[init], pc[childFunc])
<1>1. running \in Proc /\ Proc = Parent \cup Caller
  BY OrderlyFacts, WhoIsWho
<1>2. call \notin CallNames
  BY DEF CallNames
<1>3. running \in Parent
  BY <1>1, <1>2, CallerCallNames
<1> QED
  BY <1>3, ParentCallNames

LEMMA ShutdownFinds ==
  ASSUME Roles, Contents, Waiters, ProgramTypes, Orderly, ~again,
         Calls("shutdown"), Call
  PROVE  NothingLeft'
<1>1. /\ Placed(heap, running, Alive(pc), ToSet(waiting_descriptors) \cup Idlers, Dead)
      /\ Families /\ Progress /\ Queue
  BY DEF Orderly
<1>2. running = init /\ pc[init] = 3 /\ running \in Parent
  BY ParentsCallThese DEF ParentsCall
<1>3. /\ Proc = {init, childFunc} \cup Caller /\ init # childFunc
      /\ init \notin Caller /\ consumer \in Caller /\ Caller = {consumer, producer}
      /\ \A p \in Proc : pc[p] \in Nat
  BY WhoIsWho DEF ProgramTypes
<1>4. UNCHANGED <<heap, queue, pools, children>>
  BY <1>2, <1>3, ParentCalls
<1>5. pc[childFunc] > 6
  BY <1>1, <1>2 DEF Progress
<1>6. Alive(pc) = {init}
  BY <1>2, <1>3, <1>5, OrderlyFacts
<1>7. \A p \in Proc : children[p] = {}
  <2>1. children[init] = {} /\ \A x \in Caller : children[x] = {}
    BY <1>1, <1>3, <1>6 DEF Families
  <2>2. children[childFunc] = {}
    BY <1>1, <1>5 DEF Families, LeftFor
  <2> QED
    BY <1>3, <2>1, <2>2
<1>8. /\ ToSet(waiting_descriptors) = {} /\ Idlers = {} /\ Dead = {}
      /\ waiting_descriptors \in Seq(Caller)
  <2>1. ToSet(waiting_descriptors) \cup Idlers \subseteq {init}
    BY <1>1, <1>6 DEF Placed
  <2>2. ToSet(waiting_descriptors) \subseteq Caller /\ waiting_descriptors \in Seq(Caller)
    BY OrderlyFacts
  <2>3. init \notin Idlers
    BY <1>1, <1>2 DEF Progress
  <2>4. Dead = {}
    BY <1>3, <1>7 DEF Dead
  <2> QED
    BY <1>3, <2>1, <2>2, <2>3, <2>4
<1>9. \A l \in {"ready", "waiting", "zombie"} : heap.head[l].first = NULL
  <2>1. {init} \ ({init} \cup {}) = {} /\ {} \cup {} = {}
    OBVIOUS
  <2>2. Has(heap, Laid({}, {}, {}))
    BY <1>1, <1>2, <1>6, <1>8, <2>1 DEF Placed
  <2>3. PICK c : c = Laid({}, {}, {})
    OBVIOUS
  <2>4. /\ c["ready"] = {} /\ c["waiting"] = {} /\ c["zombie"] = {}
        /\ Lists = {"ready", "waiting", "zombie"}
    BY <2>3, LaidIs DEF Lists
  <2> QED
    BY <2>2, <2>3, <2>4, FirstOf
<1>10. open = {} /\ ~named
  <2>1. ASSUME NEW x \in Caller
        PROVE  pc[x] > Closes(x) /\ Closes(x) \in Nat
    <3>1. Started(pc, x)
      BY <1>3, <1>5 DEF Started
    <3>2. ~(pc[x] <= LastCall(x))
      BY <1>3, <1>6, <3>1 DEF Alive
    <3>3. LastCall(x) = Closes(x) + 1 /\ Closes(x) \in Nat
      BY LastIs
    <3> QED
      BY <1>3, <3>2, <3>3
  <2>2. \A x \in Caller : ~(pc[x] <= Closes(x))
    BY <1>3, <2>1
  <2>3. open = {}
    BY <1>1, <2>2 DEF Queue
  <2> QED
    BY <1>1, <1>3, <2>1, <2>3 DEF Queue
<1>11. free_ptrs = Descriptors
  <2>1. waiting_descriptors = <<>>
    <3>1. ToSet(waiting_descriptors)
            = {waiting_descriptors[i] : i \in 1..Len(waiting_descriptors)}
      BY <1>8, Elements
    <3>2. 1 \notin 1..Len(waiting_descriptors)
      BY <1>8, <3>1
    <3>3. Len(waiting_descriptors) \in Nat
      BY <1>8
    <3> QED
      BY <1>8, <3>2, <3>3, EmptySeq
  <2>2. Cardinality(open) = 0 /\ Len(waiting_descriptors) = 0
    BY <1>10, <2>1, FS_EmptySet
  <2>3. PtrsAccounted /\ free_ptrs \in Nat
    BY DEF Waiters, WaitingTypes
  <2> QED
    BY <2>2, <2>3 DEF PtrsAccounted
<1>12. free_msgs = MAX_NUM_MESSAGES
  <2>1. /\ ContentsTypes /\ MessagesCounted /\ Places = {}
    BY <1>10 DEF Contents, NoQueue
  <2>2. Messages = 0
    BY <2>1, PlacesAre
  <2>3. free_msgs \in Nat
    BY <2>1 DEF ContentsTypes
  <2> QED
    BY <2>1, <2>2, <2>3 DEF MessagesCounted
<1>13. UNCHANGED <<heap, children, named, open, free_ptrs, free_msgs>>
  BY <1>4 DEF queue, pools
<1> QED
  BY <1>7, <1>9, <1>10, <1>11, <1>12, <1>13 DEF NothingLeft

LEMMA ProgramInvStep ==
  ASSUME Roles, Settled, ProgramInv, [Next_test]_testvars
  PROVE  ProgramInv'
<1>1. again' \in BOOLEAN /\ (~again' => ~again)
  BY AgainStep DEF ProgramInv
<1>2. CASE again'
  BY <1>1, <1>2 DEF ProgramInv
<1>3. CASE ~again'
  <2>1. ~again /\ Contents /\ Waiters /\ ProgramTypes
    BY <1>1, <1>3 DEF ProgramInv
  <2>2. CASE UNCHANGED testvars
    <3>1. UNCHANGED <<queue, pools, again, machine>>
      BY <2>2 DEF testvars, vars
    <3>2. (Contents => ContentsChange) /\ WaitersChange
      <4>1. [Next]_vars
        BY <2>2 DEF testvars
      <4> QED
        BY <4>1, CallsOnContents, CallsOnWaiters
    <3>3. Contents' /\ Waiters'
      BY <2>1, <3>2, ContentsKeep, WaitersStep
    <3>4. ProgramTypes'
      BY <2>1, <2>2 DEF ProgramTypes, testvars, vars
    <3>5. machine = "up" => Orderly'
      BY <1>3, <2>1, <2>2, OrderlyRests DEF ProgramInv
    <3>6. machine = "off" => NothingLeft'
      BY <1>3, <2>1, <2>2 DEF ProgramInv, NothingLeft, testvars, vars, queue, pools
    <3> QED
      BY <1>1, <3>1, <3>3, <3>4, <3>5, <3>6 DEF ProgramInv
  <2>3. CASE machine = "up" /\ (Call \/ Tick)
    <3>1. Orderly /\ running \in Proc
      BY <2>1, <2>3, OrderlyFacts DEF ProgramInv
    <3>2. ProgramTypes'
      BY <2>1, <3>1, ProgramTypesStep
    <3>3. ASSUME Calls("create")
          PROVE  ~named
      <4>1. pc[childFunc] = 3
        BY <2>1, <3>1, <3>3, ParentsCallThese DEF ParentsCall
      <4> QED
        BY <3>1, <4>1 DEF Orderly, Queue
    <3>4. Contents' /\ Waiters'
      BY <2>1, <3>3, QueueChange, ContentsKeep, WaitersStep
    <3>5. ASSUME machine' = "up"
          PROVE  Orderly'
      <4>1. CASE Tick
        BY <1>3, <2>1, <3>1, <4>1, TickStep
      <4>2. CASE Call /\ running \in Caller
        BY <1>3, <2>1, <3>1, <3>5, <4>2, CallerStep
      <4>3. CASE Call /\ running \in Parent
        BY <2>1, <2>3, <3>1, <3>5, <4>3, ParentStep
      <4> QED
        BY <2>3, <3>1, <4>1, <4>2, <4>3, WhoIsWho
    <3>6. ASSUME machine' = "off"
          PROVE  NothingLeft'
      <4>1. Calls("shutdown") /\ Call
        BY <2>3, <3>6, ShutdownEnds DEF Tick, TimerTick, Schedule
      <4> QED
        BY <2>1, <3>1, <4>1, ShutdownFinds
    <3> QED
      BY <1>1, <3>2, <3>4, <3>5, <3>6 DEF ProgramInv
  <2>4. machine = "up" \/ UNCHANGED testvars
    BY DEF Next_test, Call, Calls, Tick, TimerTick
  <2>5. Call \/ Tick \/ UNCHANGED testvars
    BY DEF Next_test
  <2> QED
    BY <2>2, <2>3, <2>4, <2>5
<1> QED
  BY <1>1, <1>2, <1>3

LEMMA ProgramInvAtFirst ==
  ASSUME Roles, Init_test
  PROVE  ProgramInv
<1>1. /\ heap = EmptyHeap /\ running = init
      /\ status = [p \in Proc |-> IF p = init THEN "Running" ELSE "Invalid"]
      /\ ~named /\ open = {} /\ waiting_descriptors = <<>>
      /\ free_ptrs = Descriptors /\ again = FALSE /\ machine = "up"
      /\ pc = [p \in Proc |-> 1] /\ children = [p \in Proc |-> {}]
  BY DEF Init_test
<1>2. /\ init \in Proc /\ childFunc \in Proc /\ Caller \subseteq Proc
      /\ Proc = {init, childFunc} \cup Caller /\ consumer \in Caller /\ producer \in Caller
      /\ init \notin Caller /\ childFunc \notin Caller /\ Parent = {init, childFunc}
      /\ init # childFunc
      /\ \A p \in Proc : LastCall(p) \in Nat /\ LastCall(p) >= 3
  <2>1. \A x \in Caller : /\ LastCall(x) = Closes(x) + 1
                          /\ Closes(x) \in Nat /\ Closes(x) >= 3
    BY LastIs
  <2>2. LastCall(init) = 3 /\ LastCall(childFunc) = 6
    BY LastIs
  <2> QED
    BY <2>1, <2>2, WhoIsWho
<1>3. \A p \in Proc : pc[p] = 1 /\ children[p] = {} /\ status[p] \in {"Running", "Invalid"}
  BY <1>1
<1>4. Contents
  BY ContentsAtFirst DEF Init_test
<1>5. Waiters /\ ToSet(waiting_descriptors) = {}
  BY <1>1, WaitersAtFirst
<1>6. ProgramTypes
  BY <1>1 DEF ProgramTypes
<1>7. Alive(pc) = {init} /\ Idlers = {} /\ Dead = {}
  <2>1. Alive(pc) = {init}
    BY <1>2, <1>3 DEF Alive, Started
  <2>2. Idlers = {}
    BY <1>2, <1>3 DEF Idlers
  <2>3. Dead = {}
    BY <1>2, <1>3 DEF Dead
  <2> QED
    BY <2>1, <2>2, <2>3
<1>8. Placed(heap, running, Alive(pc), ToSet(waiting_descriptors) \cup Idlers, Dead)
  <2>1. {} \cup {} = {} /\ {init} \ ({init} \cup {}) = {}
    OBVIOUS
  <2> QED
    BY <1>1, <1>2, <1>5, <1>7, <2>1, NothingLaid DEF Placed
<1>9. Families
  BY <1>2, <1>3, <1>7 DEF Families, LeftFor
<1>10. Exits
  BY <1>2, <1>3 DEF Exits
<1>11. Progress
  BY <1>1, <1>2, <1>3, <1>7 DEF Progress
<1>12. Queue
  BY <1>1, <1>2, <1>3 DEF Queue
<1> QED
  BY <1>1, <1>4, <1>5, <1>6, <1>8, <1>9, <1>10, <1>11, <1>12 DEF ProgramInv, Orderly

LEMMA ProgramInvHolds ==
  ASSUME Roles, Settled
  PROVE  Spec_test => []ProgramInv
<1>1. Init_test => ProgramInv
  BY ProgramInvAtFirst
<1>2. ProgramInv /\ [Next_test]_testvars => ProgramInv'
  BY ProgramInvStep
<1> QED
  BY <1>1, <1>2, PTL DEF Spec_test

\* Until a process that waits makes a call the running process has one left to
\* make: internal_schedule, internal_wait and internal_exit never choose a process
\* that internal_exit has put in the zombie list, wherever the ticks fall once both
\* callers have opened the queue, between a close and the exit too, and whatever the
\* queue and the pools hold.
THEOREM ExitedNeverRuns ==
  ASSUME Roles, Settled
  PROVE  Spec_test => []NobodyRunsAfterExit
<1>1. ProgramInv => NobodyRunsAfterExit
  <2> SUFFICES ASSUME ProgramInv, machine = "up", ~again
               PROVE  HasCall(running)
    BY DEF NobodyRunsAfterExit
  <2>1. Waiters /\ ProgramTypes /\ Orderly
    BY DEF ProgramInv
  <2>2. running \in Alive(pc) /\ running \in Proc
    BY <2>1, OrderlyFacts
  <2>3. /\ pc[running] \in Nat \ {0} /\ pc[running] <= LastCall(running)
        /\ LastCall(running) \in Nat /\ DOMAIN Program[running] = 1..LastCall(running)
    BY <2>1, <2>2, LastIs DEF Alive, ProgramTypes
  <2> QED
    BY <2>3 DEF HasCall
<1> QED
  BY <1>1, ProgramInvHolds, PTL

\* When init shuts the kernel down, and no process that waited has made a call,
\* every child has been waited for, the lists of the scheduler are empty, and the
\* queue, its messages, the descriptors and every DescriptorPtr that a blocked read
\* or write took have been given back.
THEOREM AllIsGivenBack ==
  ASSUME Roles, Settled
  PROVE  Spec_test => []NothingLeft
<1>1. ProgramInv => NothingLeft
  BY DEF ProgramInv, NothingLeft
<1> QED
  BY <1>1, ProgramInvHolds, PTL
=============================================================================
