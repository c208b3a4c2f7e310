------------------------------- MODULE MCRing -------------------------------
(* Ring on small instances.                                                *)
EXTENDS Ring, TLC

\* All processes started in the same clock tick, and so did those that used
\* the ring before: a start time read between the two stores of an owner
\* record is right all the same.
SameTick == [p \in Procs |-> 1]
Apart == [p \in Procs |-> IF p \in Senders THEN 1 ELSE 2]

Symmetry == Permutations(Senders) \cup Permutations(Receivers)
                \cup Permutations(Pages)
=============================================================================
