--------------------------- MODULE MCChannelIndex ---------------------------
(* ChannelIndex on small instances.                                         *)
EXTENDS ChannelIndex, TLC

\* Every name collides with every other: only the name itself tells them apart.
Colliding == [n \in Names |-> 1]
Symmetry == Permutations(Procs) \cup Permutations(Names)
                \cup Permutations(Rings)
=============================================================================
