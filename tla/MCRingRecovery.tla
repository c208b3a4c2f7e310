--------------------------- MODULE MCRingRecovery ---------------------------
(* RingRecovery on small instances.                                        *)
EXTENDS RingRecovery, TLC

SameTick == [p \in Procs |-> 1]

\* The owner record is complete and the seq not yet stored.
Owned == {"e_alloc", "x_gen", "x_seq", "e_body", "e_ovf", "e_gen", "e_pub",
          "d_ovf", "d_copy", "d_claim", "d_free", "d_rec"}
OwnedBySender == Owned \cap EnqPcs
\* A producer has claimed the slot and is not yet recorded as its owner.
E1 == {"e_pid"}
\* A consumer has claimed the slot and is not yet recorded as its owner.
D1 == {"d_fence", "d_exp", "d_pid"}
\* The message is published and its owner record not yet cleared.
Published == {"c_pid"}
Anywhere == EnqPcs \cup DeqPcs \cup RepairPcs \cup CompactPcs
\* Up to the store that ends the call's work on the slot.
BeforeLateClear == Anywhere \ LateClear

Symmetry == Permutations(Senders) \cup Permutations(Pages)
=============================================================================
