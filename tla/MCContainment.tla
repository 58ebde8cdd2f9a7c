---------------------------- MODULE MCContainment -----------------------------
(* Instances of Containment for TLC.                                         *)
EXTENDS Containment, TLC

CONSTANTS top, a, b, c

FourNodes == {top, a, b, c}

(* The spawned nodes are interchangeable: no property names one of them.     *)
Symmetric == Permutations(Nodes \ {Top})
=============================================================================
