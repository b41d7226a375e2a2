------------------------------ MODULE MCBcache ------------------------------
(* Bcache for TLC. *)
EXTENDS Bcache, TLC

\* The condition of BuffersSuffice (BcacheProofs).
ASSUME BuffersAssumption == Cardinality(Buf) >= Cardinality(Proc) + MaxPins

Symmetry ==
  Permutations(Proc) \cup Permutations(Block) \cup Permutations(Val)
=============================================================================
