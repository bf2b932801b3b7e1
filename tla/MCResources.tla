---------------------------- MODULE MCResources ----------------------------
(* Resources on a few blocks: those of a pool are interchangeable.         *)
EXTENDS Resources, TLC

Symmetry == Permutations(Que) \cup Permutations(Desc)
=============================================================================
