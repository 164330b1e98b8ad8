-------------------------- MODULE MCServiceGossip --------------------------
(* Instances of ServiceGossip for TLC.                                     *)
EXTENDS ServiceGossip, TLC

CONSTANTS n1, n2, n3, red, blue

\* Everyone in one cluster.
OneCluster == [n \in Node |-> red]

\* n3 is configured for another cluster.
TwoClusters == [n \in Node |-> IF n = n3 THEN blue ELSE red]

NoSkew == [n \in Node |-> 0]

\* n2's clock is one tick ahead of n1's.
Skewed == [n \in Node |-> IF n = n2 THEN 1 ELSE 0]
=============================================================================
