--------------------------- MODULE MCTaskManager ---------------------------
(* Instances of TaskManager that TLC checks.                               *)
EXTENDS TaskManager, TLC

\* Sound for invariants, and for the refinement and the action property,
\* which are symmetric in tasks, in workers and in clients.
Symmetry == Permutations(Tasks) \cup Permutations(Workers) \cup Permutations(Clients)
=============================================================================
