------------------------- MODULE MCServiceLifecycle -------------------------
(* Instances of ServiceLifecycle for TLC.                                  *)
EXTENDS ServiceLifecycle, TLC

Symmetry == Permutations(Calls) \cup Permutations(Deactivators)
=============================================================================
