------------------------------- MODULE MCRekey -------------------------------
(* A finite instance of Rekey.                                              *)
EXTENDS Rekey, TLC

Symmetry == Permutations(Secret) \cup Permutations(Pass)
=============================================================================
