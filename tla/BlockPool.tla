----------------------------- MODULE BlockPool -----------------------------
(***************************************************************************)
(* What the callers of a pool rely on: an allocation hands out a block     *)
(* that nobody has, and fails only when all blocks are handed out; a block *)
(* is taken back once for every time it was handed out, and anything else  *)
(* that is offered is refused and changes nothing.                         *)
(***************************************************************************)
CONSTANTS Block,     \* addresses of the blocks
          Anything,  \* whatever a caller may offer as a block
          None,      \* the answer that is the null pointer
          Success, Refusals

VARIABLES used,      \* the blocks handed out
          answer     \* what the last call returned

Init == used = {} /\ answer = None

Get ==
  \/ \E b \in Block \ used : used' = used \cup {b} /\ answer' = [block |-> b]
  \/ Block \ used = {} /\ answer' = None /\ UNCHANGED used

Release(b) ==
  \/ b \in used /\ used' = used \ {b} /\ answer' = Success
  \/ b \notin used /\ answer' \in Refusals /\ UNCHANGED used

Next == Get \/ \E b \in Anything : Release(b)

Spec == Init /\ [][Next]_<<used, answer>>
=============================================================================
