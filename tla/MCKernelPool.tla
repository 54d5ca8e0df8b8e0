---------------------------- MODULE MCKernelPool ----------------------------
(* Instances of KernelPool for TLC.                                        *)
EXTENDS KernelPool, TLC

Symmetry == Permutations(Jobs) \cup Permutations(Workers)
=============================================================================
