---------------------------- MODULE MCProcesses ----------------------------
(* Instances of Processes for TLC.                                         *)
EXTENDS ProcessesRefinement

\* Blocks of the pool are interchangeable: which one an allocation returns is
\* free, and nothing orders them.
Symmetry == Permutations(Block)
=============================================================================
