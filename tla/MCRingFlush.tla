----------------------------- MODULE MCRingFlush -----------------------------
(* RingFlush on small instances.                                           *)
EXTENDS RingFlush, TLC

SameTick == [p \in Procs |-> 1]
Symmetry == Permutations(Senders) \cup Permutations(Receivers)
                \cup Permutations(Pages)
=============================================================================
