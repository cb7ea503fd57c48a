---------------------------- MODULE MCLiveRelease ----------------------------
(* LiveRelease on small instances. *)
EXTENDS LiveRelease

CONSTANTS p1, p2, d1, d2, d3, g1, g2

TwoProjects == [d \in Decisions |-> IF d = d3 THEN p2 ELSE p1]
TwoGatesOfOne == [d \in Decisions |-> IF d = d1 THEN {g1, g2} ELSE {g1}]
OpensWithG1 == [d \in Decisions |-> g1]
=============================================================================
