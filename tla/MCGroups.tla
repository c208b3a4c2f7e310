------------------------------ MODULE MCGroups ------------------------------
(* Groups on small instances.                                               *)
EXTENDS Groups, TLC

Symmetry == Permutations(Procs) \cup Permutations(GroupNames)
                \cup Permutations(Channels) \cup Permutations(Arrays)
=============================================================================
