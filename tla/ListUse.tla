------------------------------ MODULE ListUse ------------------------------
(***************************************************************************)
(* Callers of linked_list.c that keep to its rules: what is inserted is in *)
(* no list, the item it goes behind is in the list, and what is detached   *)
(* is in the list it is detached from.  (The assertions under              *)
(* _LIST_DEBUG_ say so; they are not compiled in.)  For such callers the   *)
(* lists are sequences, as the module Processes has them.                  *)
(***************************************************************************)
EXTENDS LinkedList

VARIABLES heap

InNoList(x) == \A l \in List : x \notin Members(heap, l)

Init == heap = EmptyHeap

Insert(l, p, x) ==
  /\ InNoList(x)
  /\ p # NULL => p \in Members(heap, l)
  /\ heap' = List_insert(heap, l, p, x)

Detach(l, x) ==
  /\ x \in Members(heap, l)
  /\ heap' = List_detach(heap, l, x)

Next ==
  \E l \in List, x \in Item :
    \/ \E p \in Item \cup {NULL} : Insert(l, p, x)
    \/ Detach(l, x)

Spec == Init /\ [][Next]_heap

-----------------------------------------------------------------------------
\* Pointers point to items or nowhere, sizes are numbers of items.
TypeOK ==
  heap \in [next : [Item -> Item \cup {NULL}],
            prev : [Item -> Item \cup {NULL}],
            head : [List -> [first : Item \cup {NULL}, last : Item \cup {NULL},
                             size  : 0..Cardinality(Item)]]]

\* An item that is in no list has null pointers, so List_insert never refuses
\* what these callers insert: an item is never lost between two lists.
NeverRefused ==
  /\ TypeOK
  /\ \A x \in Item : InNoList(x) => ~Refused(heap, x)

\* The lists as sequences; a list whose pointers disagree is none, and is mapped
\* to something that is no sequence of items.
Orders(l) == {s \in UNION {[1..n -> Item] : n \in 0..Cardinality(Item)} :
                Represents(heap, l, s)}
OrderOf(l) ==
  IF Orders(l) = {} THEN <<NULL>> ELSE CHOOSE s \in Orders(l) : TRUE

Lists == INSTANCE ListsAsSequences WITH order <- [l \in List |-> OrderOf(l)]

\* Insertion and removal do on the pointers what they should do on sequences:
\* forward and backward links, first, last and size always agree.
ImplementsSequences == Lists!Spec

\* What is inserted stands right behind the item named by the caller, or first:
\* the order that the ready list and the timer list live by.
PlacedBehind ==
  [][\A l \in List, x \in Item, p \in Item \cup {NULL} :
       Insert(l, p, x) =>
         heap'.prev[x] = p /\ (p = NULL => heap'.head[l].first = x)]_heap
=============================================================================
