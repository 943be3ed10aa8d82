------------------------------ MODULE MCJobNode ------------------------------
(* Instances of JobNode for TLC. *)
EXTENDS JobNode, TLC

CONSTANTS j1, j2, j3, n1, n2, u1, u2

OneUser == [j \in Jobs |-> u1]
LastJobOfOther == [j \in Jobs |-> IF j = j3 THEN u2 ELSE u1]

OneNode  == [j \in Jobs |-> 1]
TwoNodes == [j \in Jobs |-> 2]
=============================================================================
