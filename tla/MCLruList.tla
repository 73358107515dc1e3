------------------------------ MODULE MCLruList ------------------------------
(* Instances of LruList for TLC. *)
EXTENDS LruList, TLC

Symmetry == Permutations(Keys) \cup Permutations(Values)
=============================================================================
