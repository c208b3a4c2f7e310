------------------------------- MODULE MCWakeup -------------------------------
(* Wakeup on small instances: a channel for everybody, and two that belong   *)
(* to one process.                                                           *)
EXTENDS Wakeup, TLC

CONSTANTS p1, p2, p3, room, own, own2

Owner2 == room :> Everyone @@ own :> p2
Owner3 == own :> p2 @@ own2 :> p2
OneEach == {room, own}
TwoOfOne == {own, own2}
=============================================================================
