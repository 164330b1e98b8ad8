---------------------------- MODULE MCMeshLinks -----------------------------
(* Instances of MeshLinks for TLC. *)
EXTENDS MeshLinks

CONSTANTS hostA, hostB, red

\* All nodes on one machine, as in the integration tests, or node 2 on another.
OneHost == [n \in Node |-> hostA]
TwoHosts == [n \in Node |-> IF n = 2 THEN hostB ELSE hostA]

BindLoopback == [n \in Node |-> Loopback]
BindAny == [n \in Node |-> AnyHost]

\* Node 2 may come back on another port; the default port of every node.
OwnPorts == [n \in Node |-> IF n = 2 THEN {2, 3} ELSE {n}]
SamePort == [n \in Node |-> {1}]

\* Node 3 has the port that node 2 has on the other machine.
SharedPort == [n \in Node |-> IF n = 1 THEN {1} ELSE {2}]

OneCluster == [n \in Node |-> red]
=============================================================================
