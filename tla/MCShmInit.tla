------------------------------ MODULE MCShmInit ------------------------------
(* ShmInit on small instances: two processes of one configuration and one of *)
(* another, which differs in the size of a table.                            *)
EXTENDS ShmInit, TLC

CONSTANTS p1, p2, p3

Small == [max_channels |-> 2, max_groups |-> 1, max_processes |-> 2,
          sizes |-> 1, shm_size |-> 8192]
Wide == [Small EXCEPT !.max_channels = 3]
Large == [Small EXCEPT !.shm_size = 16384]

Wishes == p1 :> Small @@ p2 :> Small @@ p3 :> Wide
OtherSize == p1 :> Small @@ p2 :> Large @@ p3 :> Wide
AnyFile == {"nothing", "empty", "old layout", "other", "garbage"}
NoFile == {"nothing"}
=============================================================================
