-------------------------- MODULE ListsAsSequences --------------------------
(***************************************************************************)
(* What the lists of the kernel promise: each is a sequence of items, an   *)
(* item is in one list at most, an insertion puts an item behind another   *)
(* one or in front, and a removal takes one item out.                      *)
(***************************************************************************)
EXTENDS Integers, Sequences, SequencesExt

CONSTANTS Item, List

VARIABLE order    \* [List -> Seq(Item)]

Listed(x) == \E l \in List : x \in ToSet(order[l])

Init == order = [l \in List |-> <<>>]

PutIn(l, x) ==
  /\ ~Listed(x)
  /\ \E k \in 0..Len(order[l]) :
       order' = [order EXCEPT ![l] =
                   SubSeq(@, 1, k) \o <<x>> \o SubSeq(@, k + 1, Len(@))]

TakeOut(l, x) ==
  \E i \in DOMAIN order[l] :
    /\ order[l][i] = x
    /\ order' = [order EXCEPT ![l] = RemoveAt(@, i)]

Next == \E l \in List, x \in Item : PutIn(l, x) \/ TakeOut(l, x)

Spec == Init /\ [][Next]_order
=============================================================================
