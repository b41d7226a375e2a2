------------------------------- MODULE MCLog --------------------------------
(* Instances of Log for TLC. *)
EXTENDS Log, TLC

Symmetry ==
  Permutations(Process) \cup Permutations(Block) \cup Permutations(Val)
=============================================================================
