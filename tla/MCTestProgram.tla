--------------------------- MODULE MCTestProgram ---------------------------
(***************************************************************************)
(* TestProgram on an instance that the theorems of MessageQueueProofs are  *)
(* about: TLC finds their hypotheses true here.                            *)
(***************************************************************************)
EXTENDS TestProgram

ASSUME TestAssumption == Roles /\ Settled
=============================================================================
