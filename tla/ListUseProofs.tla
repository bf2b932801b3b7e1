--------------------------- MODULE ListUseProofs ---------------------------
(***************************************************************************)
(* The lists of callers that keep to the rules are sequences, for every    *)
(* number of items and lists.                                              *)
(*                                                                         *)
(* The invariant says that the heap holds some sequences, which have no    *)
(* item in common, and that the pointers of all other items are null.  The *)
(* walk along next then passes the items of the sequence, which is what    *)
(* the callers' rules are about, and there is but one sequence that the    *)
(* pointers represent, which is what the refinement maps them to.          *)
(***************************************************************************)
EXTENDS ListUse, SequenceLemmas

HeapHolds(h, o) == Holds(h, Item, List, NULL, o)

LInv == \E o : HeapHolds(heap, o)

-----------------------------------------------------------------------------
(* What a heap that holds sequences is read as                             *)

LEMMA RepresentsLinked ==
  ASSUME NEW h, NEW l, NEW s, Represents(h, l, s)
  PROVE  /\ Linked(h.next, h.prev, NULL, s)
         /\ h.head[l].first = IF s = <<>> THEN NULL ELSE s[1]
         /\ h.head[l].last = IF s = <<>> THEN NULL ELSE s[Len(s)]
         /\ h.head[l].size = Len(s)
BY DEF Represents, Linked

LEMMA OrderedLists ==
  ASSUME NEW h, NEW o, HeapHolds(h, o), NEW l \in List
  PROVE  /\ o[l] \in Seq(Item) /\ IsInjective(o[l]) /\ Represents(h, l, o[l])
         /\ Members(h, l) = ToSet(o[l])
<1> DEFINE s == o[l]
<1>1. Sound(h, Item, NULL, l, s)
  BY HeapLists, NullIsNoItem DEF HeapHolds
<1>2. h.head[l] = EndsOf(s, NULL)
  BY DEF HeapHolds, Holds
<1> HIDE DEF s
<1>3. /\ s \in Seq(Item) /\ IsInjective(s) /\ Linked(h.next, h.prev, NULL, s)
      /\ h.head[l].first = IF s = <<>> THEN NULL ELSE s[1]
  BY <1>1 DEF Sound
<1>4. Represents(h, l, s)
  BY <1>2, <1>3 DEF Represents, Linked, EndsOf
<1>5. Members(h, l) = WalkFrom(h.head[l].first, h.next, NULL, Cardinality(Item))
  BY DEF Members, WalkFrom
<1>6. Members(h, l) = ToSet(s)
  BY <1>3, <1>5, WalkPassesAll, NullIsNoItem, FinitelyManyItems
<1> QED
  BY <1>3, <1>4, <1>6 DEF s

OrderFound ==
  \A s \in Seq(Item), l \in List :
    IsInjective(s) /\ Represents(heap, l, s) => OrderOf(l) = s

LEMMA OrderIsOne == OrderFound
<1> SUFFICES ASSUME NEW s \in Seq(Item), NEW l \in List,
                    IsInjective(s), Represents(heap, l, s)
             PROVE  OrderOf(l) = s
  BY DEF OrderFound
<1>1. Len(s) \in Nat /\ DOMAIN s = 1..Len(s) /\ ToSet(s) \in SUBSET Item
  BY Elements
<1>2. Len(s) <= Cardinality(Item) /\ Cardinality(Item) \in Nat
  BY <1>1, DistinctElements, FinitelyManyItems, FS_Subset, FS_CardinalityType
<1>3. s \in Orders(l)
  <2>1. s \in [1..Len(s) -> Item] /\ Len(s) \in 0..Cardinality(Item)
    BY <1>1, <1>2
  <2> QED
    BY <2>1 DEF Orders
<1>4. ASSUME NEW t \in Orders(l) PROVE t = s
  <2>1. PICK n \in 0..Cardinality(Item) : t \in [1..n -> Item]
    BY DEF Orders
  <2>2. Represents(heap, l, t)
    BY DEF Orders
  <2>3. t \in Seq(Item)
    BY <1>2, <2>1
  <2>4. Len(s) = Len(t) /\ (s # <<>> => s[1] = t[1])
    <3>1. Len(s) = Len(t)
      BY <2>2, RepresentsLinked
    <3>2. t = <<>> => Len(t) = 0
      OBVIOUS
    <3>3. s # <<>> => Len(s) > 0
      BY Elements
    <3> QED
      BY <2>2, <3>1, <3>2, <3>3, RepresentsLinked
  <2> QED
    BY <2>2, <2>3, <2>4, RepresentsLinked, OneOrder
<1> QED
  BY <1>2, <1>3, <1>4 DEF OrderOf

-----------------------------------------------------------------------------
(* What the calls do to the sequences                                      *)

LEMMA LinkIs ==
  ASSUME NEW h, NEW o, HeapHolds(h, o), NEW l \in List, NEW x \in Item,
         NEW p \in Item \cup {NULL}, NEW n \in Item \cup {NULL},
         n = IF p # NULL THEN h.next[p] ELSE h.head[l].first,
         x # p, x # n, h.next[x] = NULL, h.prev[x] = NULL
  PROVE  Link(h, l, p, x) = LinkBetween(h, Item, NULL, l, p, x, n)
<1>1. h.next \in [Item -> Item \cup {NULL}] /\ h.prev \in [Item -> Item \cup {NULL}]
  BY DEF HeapHolds, Holds
<1>2. Store(Store(h.next, p, x), IF n = NULL THEN NULL ELSE x, n)
        = [y \in Item |-> IF y = p THEN x ELSE IF y = x THEN n ELSE h.next[y]]
  BY <1>1, NullIsNoItem DEF Store
<1>3. Store(Store(h.prev, IF p = NULL THEN NULL ELSE x, p), n, x)
        = [y \in Item |-> IF y = n THEN x ELSE IF y = x THEN p ELSE h.prev[y]]
  BY <1>1, NullIsNoItem DEF Store
<1> QED
  BY <1>2, <1>3 DEF Link, LinkBetween

LEMMA DetachIs ==
  ASSUME NEW h, NEW o, HeapHolds(h, o), NEW l \in List, NEW x \in Item,
         h.prev[x] \in Item \cup {NULL}, h.next[x] \in Item \cup {NULL}
  PROVE  List_detach(h, l, x) = Unlink(h, Item, NULL, l, x)
<1>1. h.next \in [Item -> Item \cup {NULL}] /\ h.prev \in [Item -> Item \cup {NULL}]
  BY DEF HeapHolds, Holds
<1>2. NextWithout(h, x)
        = [y \in Item |-> IF y = x THEN NULL
                          ELSE IF y = h.prev[x] THEN h.next[x] ELSE h.next[y]]
  BY <1>1, NullIsNoItem DEF Store, NextWithout
<1>3. PrevWithout(h, x)
        = [y \in Item |-> IF y = x THEN NULL
                          ELSE IF y = h.next[x] THEN h.prev[x] ELSE h.prev[y]]
  BY <1>1, NullIsNoItem DEF Store, PrevWithout
<1> QED
  BY <1>2, <1>3 DEF List_detach, HeadWithout, Unlink

LEMMA InsertOrders ==
  ASSUME NEW o, HeapHolds(heap, o),
         NEW l \in List, NEW x \in Item, NEW p \in Item \cup {NULL}, Insert(l, p, x)
  PROVE  /\ \A m \in List : x \notin ToSet(o[m])
         /\ heap'.prev[x] = p
         /\ p = NULL => heap'.head[l].first = x
         /\ \E k \in 0..Len(o[l]) : \A m : m = k + 1 =>
              HeapHolds(heap', [o EXCEPT ![l] = InsertAt(o[l], m, x)])
<1>1. \A m \in List : x \notin ToSet(o[m])
  BY OrderedLists DEF Insert, InNoList
<1>2. PICK k \in 0..Len(o[l]) : p = IF k = 0 THEN NULL ELSE o[l][k]
  <2>1. /\ Len(o[l]) \in Nat /\ Members(heap, l) = ToSet(o[l])
        /\ \A y : y \in ToSet(o[l]) <=> \E i \in 1..Len(o[l]) : y = o[l][i]
    BY OrderedLists, Elements
  <2>2. CASE p = NULL
    BY <2>1, <2>2
  <2>3. CASE p # NULL
    <3>0. p \in ToSet(o[l])
      BY <2>1, <2>3 DEF Insert
    <3>1. PICK i \in 1..Len(o[l]) : p = o[l][i]
      BY <2>1, <3>0
    <3>2. i \in 0..Len(o[l]) /\ i # 0
      BY <2>1
    <3> QED
      BY <3>1, <3>2
  <2> QED
    BY <2>2, <2>3
<1>20. Holds(heap, Item, List, NULL, o) /\ NULL \notin Item
  BY NullIsNoItem DEF HeapHolds
<1>21. PICK n : n = IF p # NULL THEN heap.next[p] ELSE heap.head[l].first
  OBVIOUS
<1> DEFINE g == LinkBetween(heap, Item, NULL, l, p, x, n)
<1>3. ASSUME NEW m, m = k + 1
      PROVE  /\ Holds(g, Item, List, NULL, [o EXCEPT ![l] = InsertAt(o[l], m, x)])
             /\ heap.next[x] = NULL /\ heap.prev[x] = NULL
             /\ n \in Item \cup {NULL} /\ x # p /\ x # n
  <2>1. GoesIn(heap, Item, List, NULL, o, l, x, m, p, n)
    BY <1>1, <1>2, <1>3, <1>20, <1>21, HeapInsert
  <2> QED
    BY <2>1 DEF GoesIn
<1>4. heap.next[x] = NULL /\ heap.prev[x] = NULL
      /\ n \in Item \cup {NULL} /\ x # p /\ x # n
  BY <1>3
<1>5. heap' = g
  <2>1. heap' = Link(heap, l, p, x)
    BY <1>4 DEF Insert, List_insert, Refused
  <2> QED
    BY <1>4, <1>21, <2>1, LinkIs
<1>6. heap'.prev[x] = p
  BY <1>4, <1>5 DEF LinkBetween
<1>7. p = NULL => heap'.head[l].first = x
  <2>1. l \in DOMAIN heap.head
    BY DEF HeapHolds, Holds
  <2> QED
    BY <1>5, <2>1 DEF LinkBetween
<1> HIDE DEF g
<1> QED
  BY <1>1, <1>3, <1>5, <1>6, <1>7 DEF HeapHolds

LEMMA DetachOrders ==
  ASSUME NEW o, HeapHolds(heap, o), NEW l \in List, NEW x \in Item, Detach(l, x)
  PROVE  \E i \in 1..Len(o[l]) :
           /\ o[l][i] = x
           /\ HeapHolds(heap', [o EXCEPT ![l] = RemoveAt(o[l], i)])
<1>1. x \in ToSet(o[l])
  BY OrderedLists DEF Detach
<1>2. PICK i \in 1..Len(o[l]) : x = o[l][i]
  BY <1>1, OrderedLists, Elements
<1>3. /\ Holds(Unlink(heap, Item, NULL, l, x), Item, List, NULL,
               [o EXCEPT ![l] = RemoveAt(o[l], i)])
      /\ heap.prev[x] \in Item \cup {NULL} /\ heap.next[x] \in Item \cup {NULL}
  <2>1. Holds(heap, Item, List, NULL, o) /\ NULL \notin Item
    BY NullIsNoItem DEF HeapHolds
  <2>2. GoesOut(heap, Item, List, NULL, o, l, x, i)
    BY <1>2, <2>1, HeapDetach
  <2> QED
    BY <2>2 DEF GoesOut
<1>4. heap' = Unlink(heap, Item, NULL, l, x)
  BY <1>3, DetachIs DEF Detach
<1> QED
  BY <1>2, <1>3, <1>4 DEF HeapHolds

-----------------------------------------------------------------------------
(* The invariant                                                           *)

\* The two things that may happen to the sequences.
Puts(o, o2, l, x) ==
  /\ \A m \in List : x \notin ToSet(o[m])
  /\ \E k \in 0..Len(o[l]) : \A m : m = k + 1 =>
       o2 = [o EXCEPT ![l] = InsertAt(o[l], m, x)]
Takes(o, o2, l, x) ==
  \E i \in 1..Len(o[l]) :
    o[l][i] = x /\ o2 = [o EXCEPT ![l] = RemoveAt(o[l], i)]

LEMMA StepOrders ==
  ASSUME NEW o, HeapHolds(heap, o), Next
  PROVE  \E o2 : \E l \in List, x \in Item :
           HeapHolds(heap', o2) /\ (Puts(o, o2, l, x) \/ Takes(o, o2, l, x))
<1>1. PICK l \in List, x \in Item :
        \/ \E p \in Item \cup {NULL} : Insert(l, p, x)
        \/ Detach(l, x)
  BY DEF Next
<1>2. ASSUME NEW p \in Item \cup {NULL}, Insert(l, p, x)
      PROVE  \E o2 : HeapHolds(heap', o2) /\ Puts(o, o2, l, x)
  <2>1. PICK k \in 0..Len(o[l]) : \A m : m = k + 1 =>
               HeapHolds(heap', [o EXCEPT ![l] = InsertAt(o[l], m, x)])
    BY <1>2, InsertOrders
  <2>2. \A m \in List : x \notin ToSet(o[m])
    BY <1>2, InsertOrders
  <2>3. PICK m : m = k + 1
    OBVIOUS
  <2>4. PICK o2 : o2 = [o EXCEPT ![l] = InsertAt(o[l], m, x)]
    OBVIOUS
  <2>5. HeapHolds(heap', o2)
    BY <2>1, <2>3, <2>4
  <2>6. \A j : j = k + 1 => o2 = [o EXCEPT ![l] = InsertAt(o[l], j, x)]
    BY <2>3, <2>4
  <2>7. Puts(o, o2, l, x)
    BY <2>2, <2>6, Zenon DEF Puts
  <2> QED
    BY <2>5, <2>7
<1>3. ASSUME Detach(l, x)
      PROVE  \E o2 : HeapHolds(heap', o2) /\ Takes(o, o2, l, x)
  <2>1. PICK i \in 1..Len(o[l]) :
          o[l][i] = x /\ HeapHolds(heap', [o EXCEPT ![l] = RemoveAt(o[l], i)])
    BY <1>3, DetachOrders
  <2>2. PICK o2 : o2 = [o EXCEPT ![l] = RemoveAt(o[l], i)]
    OBVIOUS
  <2>3. HeapHolds(heap', o2) /\ Takes(o, o2, l, x)
    BY <2>1, <2>2 DEF Takes
  <2> QED
    BY <2>3
<1> QED
  BY <1>1, <1>2, <1>3, Zenon

LEMMA InitOrders ==
  ASSUME Init
  PROVE  HeapHolds(heap, [l \in List |-> <<>>])
BY HeapOfNone DEF Init, EmptyHeap, HeapHolds

LEMMA LInvHolds == Spec => []LInv
<1>1. Init => LInv
  BY InitOrders DEF LInv
<1>2. LInv /\ [Next]_heap => LInv'
  <2>1. ASSUME LInv, Next PROVE LInv'
    BY <2>1, StepOrders DEF LInv
  <2>2. ASSUME LInv, UNCHANGED heap PROVE LInv'
    BY <2>2 DEF LInv
  <2> QED
    BY <2>1, <2>2
<1> QED
  BY <1>1, <1>2, PTL DEF Spec

\* An item that is in no list is not refused by List_insert.
THEOREM NothingIsRefused == Spec => []NeverRefused
<1>1. LInv => NeverRefused
  <2> SUFFICES ASSUME LInv PROVE NeverRefused
    OBVIOUS
  <2>1. PICK o : HeapHolds(heap, o)
    BY DEF LInv
  <2>2. \A l \in List : Members(heap, l) = ToSet(o[l])
    BY <2>1, OrderedLists
  <2>3. TypeOK
    <3>1. heap.head \in [List -> [first : Item \cup {NULL}, last : Item \cup {NULL},
                                 size  : 0..Cardinality(Item)]]
      BY <2>1, HeapSizes, NullIsNoItem, FinitelyManyItems DEF HeapHolds
    <3> QED
      BY <2>1, <3>1 DEF HeapHolds, Holds, TypeOK
  <2> QED
    BY <2>1, <2>2, <2>3 DEF NeverRefused, InNoList, Refused, HeapHolds, Holds
<1> QED
  BY <1>1, LInvHolds, PTL

\* An item is put right behind the one that the caller names, or in front.
THEOREM ItemsArePlacedBehind == Spec => PlacedBehind
<1> DEFINE A == \A l \in List, x \in Item, p \in Item \cup {NULL} :
                  Insert(l, p, x) =>
                    heap'.prev[x] = p /\ (p = NULL => heap'.head[l].first = x)
<1>1. LInv => A
  <2> SUFFICES ASSUME LInv, NEW l \in List, NEW x \in Item,
                      NEW p \in Item \cup {NULL}, Insert(l, p, x)
               PROVE  heap'.prev[x] = p /\ (p = NULL => heap'.head[l].first = x)
    OBVIOUS
  <2>1. PICK o : HeapHolds(heap, o)
    BY DEF LInv
  <2> QED
    BY <2>1, InsertOrders
<1>2. PlacedBehind <=> [][A]_heap
  BY DEF PlacedBehind
<1> HIDE DEF A
<1>3. LInv => [A]_heap
  BY <1>1
<1> QED
  BY <1>2, <1>3, LInvHolds, PTL

\* The pointers are sequences: every insertion and every removal is one of
\* ListsAsSequences.
THEOREM PointersAreSequences == Spec => ImplementsSequences
<1> DEFINE order == [l \in List |-> OrderOf(l)]
<1>1. ASSUME NEW o, HeapHolds(heap, o) PROVE order = o
  <2>1. \A l \in List : OrderOf(l) = o[l]
    BY <1>1, OrderIsOne, OrderedLists DEF OrderFound
  <2>2. o = [l \in List |-> o[l]]
    BY <1>1 DEF HeapHolds, Holds
  <2> QED
    BY <2>1, <2>2
<1>2. Init => Lists!Init
  BY <1>1, InitOrders DEF Lists!Init
<1>3. ASSUME UNCHANGED heap PROVE UNCHANGED order
  BY <1>3 DEF OrderOf, Orders, Represents
<1>4. OrderFound'
  BY OrderIsOne, PTL
<1>5. ASSUME LInv, Next PROVE Lists!Next
  <2>1. PICK o : HeapHolds(heap, o)
    BY <1>5 DEF LInv
  <2>2. o \in [List -> Seq(Item)]
    BY <2>1 DEF HeapHolds, Holds
  <2>0. PICK o2 : \E l \in List, x \in Item :
          HeapHolds(heap', o2) /\ (Puts(o, o2, l, x) \/ Takes(o, o2, l, x))
    BY <1>5, <2>1, StepOrders
  <2>3. PICK l \in List, x \in Item :
          HeapHolds(heap', o2) /\ (Puts(o, o2, l, x) \/ Takes(o, o2, l, x))
    BY <2>0
  <2>4. order = o
    BY <1>1, <2>1
  <2>5. order' = o2
    <3>1. \A s \in Seq(Item), m \in List :
            IsInjective(s) /\ Represents(heap', m, s) => OrderOf(m)' = s
      BY <1>4 DEF OrderFound
    <3>2. \A m \in List : OrderOf(m)' = o2[m]
      BY <2>3, <3>1, OrderedLists
    <3>3. o2 = [m \in List |-> o2[m]]
      BY <2>3 DEF HeapHolds, Holds
    <3> QED
      BY <3>2, <3>3
  <2>6. CASE Puts(o, o2, l, x)
    <3>1. PICK k \in 0..Len(o[l]) : \A m : m = k + 1 =>
                  o2 = [o EXCEPT ![l] = InsertAt(o[l], m, x)]
      BY <2>6 DEF Puts
    <3>2. InsertAt(o[l], k + 1, x)
            = SubSeq(o[l], 1, k) \o <<x>> \o SubSeq(o[l], k + 1, Len(o[l]))
      <4>1. (k + 1) - 1 = k
        BY <2>2, Elements
      <4> QED
        BY <4>1 DEF InsertAt
    <3>3. order' = [order EXCEPT ![l] = SubSeq(order[l], 1, k) \o <<x>>
                                          \o SubSeq(order[l], k + 1, Len(order[l]))]
      BY <2>4, <2>5, <3>1, <3>2
    <3>4. k \in 0..Len(order[l]) /\ \A m \in List : x \notin ToSet(order[m])
      BY <2>4, <2>6 DEF Puts
    <3>5. Lists!PutIn(l, x)
      BY <3>3, <3>4 DEF Lists!PutIn, Lists!Listed, Lists!ToSet, ToSet
    <3> QED
      BY <3>5 DEF Lists!Next
  <2>7. CASE Takes(o, o2, l, x)
    <3>1. PICK i \in 1..Len(o[l]) :
                  o[l][i] = x /\ o2 = [o EXCEPT ![l] = RemoveAt(o[l], i)]
      BY <2>7 DEF Takes
    <3>2. i \in DOMAIN order[l] /\ order[l][i] = x
      BY <2>2, <2>4, <3>1, Elements
    <3>3. order' = [order EXCEPT ![l] = RemoveAt(order[l], i)]
      BY <2>4, <2>5, <3>1
    <3>4. Lists!TakeOut(l, x)
      BY <3>2, <3>3 DEF Lists!TakeOut, Lists!RemoveAt, RemoveAt
    <3> QED
      BY <3>4 DEF Lists!Next
  <2> QED
    BY <2>3, <2>6, <2>7
<1>6. LInv /\ [Next]_heap => [Lists!Next]_order
  BY <1>3, <1>5
<1> QED
  BY <1>2, <1>6, LInvHolds, PTL DEF Spec, ImplementsSequences, Lists!Spec
============================================================================
