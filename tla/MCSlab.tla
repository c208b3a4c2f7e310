------------------------------- MODULE MCSlab -------------------------------
(* Slab on small instances: two size classes, a pool of four words after the *)
(* metadata, and requests of which one is larger than every class.           *)
EXTENDS Slab, TLC

TwoClasses == <<1, 2>>
Requests == {1, 2, 3}

AllApart == {"grow", "cold", "flush"}
\* Each opens one of the gaps of the README.
GrowBeside == {"cold", "flush"}
ColdBeside == {"grow", "flush"}
FlushBeside == {"grow", "cold"}
=============================================================================
