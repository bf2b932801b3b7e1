----------------------------- MODULE LinkedList -----------------------------
(***************************************************************************)
(* linked_list.c: the intrusive lists of the kernel.  An item carries its  *)
(* own next and prev, a ListHead points to the first and the last item and *)
(* counts.  A heap is the contents of all items and heads:                 *)
(*                                                                         *)
(*   heap.next, heap.prev    [Item -> Item or NULL]                        *)
(*   heap.head               [List -> [first, last, size]]                 *)
(*                                                                         *)
(* List_insert and List_detach are functions from heap to heap; they are   *)
(* defined for every heap, the broken ones included.  A definition whose   *)
(* name goes on after that of the next one is that one with a slip in it,  *)
(* which the properties tell from it; nothing else uses it.                *)
(***************************************************************************)
EXTENDS Integers, Sequences, FiniteSets, SequencesExt

CONSTANTS Item, List, NULL

ASSUME NullIsNoItem == NULL \notin Item
ASSUME FinitelyManyItems == IsFiniteSet(Item)

\* List_init of every list; a new item has null pointers.
EmptyHeap ==
  [next |-> [x \in Item |-> NULL],
   prev |-> [x \in Item |-> NULL],
   head |-> [l \in List |-> [first |-> NULL, last |-> NULL, size |-> 0]]]

\* f with f[x] = v, where x may be the null pointer that the code tests for.
Store(f, x, v) == IF x = NULL THEN f ELSE [f EXCEPT ![x] = v]

\* An item that has a neighbour is refused.  One that is alone in its list has
\* none, and is not recognised.
Refused(heap, x) == heap.next[x] # NULL \/ heap.prev[x] # NULL

\* List_insert(l, p, x): x goes behind p, or to the front when p is NULL.
Link(heap, l, p, x) ==
  LET n == IF p # NULL THEN heap.next[p] ELSE heap.head[l].first
      h == heap.head[l]
  IN  [next |-> Store(Store(heap.next, p, x), IF n = NULL THEN NULL ELSE x, n),
       prev |-> Store(Store(heap.prev, IF p = NULL THEN NULL ELSE x, p), n, x),
       head |-> [heap.head EXCEPT ![l] =
                   [first |-> IF p = NULL THEN x ELSE h.first,
                    last  |-> IF n = NULL THEN x ELSE h.last,
                    size  |-> h.size + 1]]]

List_insert_last(heap, l, p, x) ==
  IF Refused(heap, x) THEN heap ELSE Link(heap, l, heap.head[l].last, x)
List_insert(heap, l, p, x) ==
  IF Refused(heap, x) THEN heap ELSE Link(heap, l, p, x)

\* The usual call: x goes to the end.
List_append(heap, l, x) == List_insert(heap, l, heap.head[l].last, x)

\* What the removal of x does to the pointers of its neighbours and its own,
\* and to the head of list l.
NextWithout_uncleared(heap, x) == Store(heap.next, heap.prev[x], heap.next[x])
NextWithout(heap, x) ==
  [Store(heap.next, heap.prev[x], heap.next[x]) EXCEPT ![x] = NULL]
PrevWithout(heap, x) ==
  [Store(heap.prev, heap.next[x], heap.prev[x]) EXCEPT ![x] = NULL]

HeadWithout_keeps_last(heap, l, x) ==
  LET h == heap.head[l]
  IN  [first |-> IF x = h.first THEN heap.next[x] ELSE h.first,
       last  |-> h.last,
       size  |-> h.size - 1]
HeadWithout(heap, l, x) ==
  LET h == heap.head[l]
  IN  [first |-> IF x = h.first THEN heap.next[x] ELSE h.first,
       last  |-> IF x = h.last  THEN heap.prev[x] ELSE h.last,
       size  |-> h.size - 1]

\* List_detach(l, x): whether x is in l is not checked.
List_detach(heap, l, x) ==
  [next |-> NextWithout(heap, x),
   prev |-> PrevWithout(heap, x),
   head |-> [heap.head EXCEPT ![l] = HeadWithout(heap, l, x)]]

-----------------------------------------------------------------------------
(* How a heap is read                                                      *)

\* The items that a walk along next from the first item of l passes: what
\* List_find looks through.
Members(heap, l) ==
  LET walk[k \in 0..Cardinality(Item)] ==
        IF k = 0 THEN {heap.head[l].first} \ {NULL}
        ELSE walk[k - 1] \cup ({heap.next[x] : x \in walk[k - 1]} \ {NULL})
  IN  walk[Cardinality(Item)]

\* The heap represents list l as the sequence s, in both directions.
Represents(heap, l, s) ==
  /\ heap.head[l] = [first |-> IF s = <<>> THEN NULL ELSE s[1],
                     last  |-> IF s = <<>> THEN NULL ELSE s[Len(s)],
                     size  |-> Len(s)]
  /\ \A i \in 1..Len(s) :
       /\ heap.next[s[i]] = IF i = Len(s) THEN NULL ELSE s[i + 1]
       /\ heap.prev[s[i]] = IF i = 1 THEN NULL ELSE s[i - 1]
=============================================================================
