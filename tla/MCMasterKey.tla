----------------------------- MODULE MCMasterKey -----------------------------
(* Processes with the same environment are interchangeable. *)
EXTENDS MasterKey, TLC

Symmetry == Permutations(Proc)
=============================================================================
