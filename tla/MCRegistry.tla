----------------------------- MODULE MCRegistry -----------------------------
(* Instances of XeBORegistry for TLC.                                      *)
EXTENDS XeBORegistry, TLC

Symmetry == Permutations(BOs) \cup Permutations(Threads)

=============================================================================
