------------------------------ MODULE MCCentral ------------------------------
(* Model-checking instances of Central.                                     *)
EXTENDS AllocatorInvariant, TLC

Symmetric == Permutations(Students) \cup Permutations(Boards)
=============================================================================
