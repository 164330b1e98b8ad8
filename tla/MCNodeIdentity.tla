--------------------------- MODULE MCNodeIdentity ---------------------------
(***************************************************************************)
(* Instances of NodeIdentity: runs of the nodes "n" and "m" and of the     *)
(* client "c" on one directory, in any order.                              *)
(***************************************************************************)
EXTENDS NodeIdentity

\* Two starts of one node, a join and a push of the other; an enrolment and a
\* client.
MixedKinds == <<"node", "node", "join", "push", "enroll", "connect">>
MixedIds == <<"n", "n", "m", "m", "c", "c">>

\* The second start of the node has another --cluster.
MixedClusters == <<"a", "b", "a", "a", "a", "a">>
OneCluster == [r \in Run |-> "a"]

\* Three runs of one node, of which the first may be a join.
NodeKinds == <<"node", "node", "node">>
JoinKinds == <<"join", "node", "node">>
NodeIds == <<"n", "n", "n">>

\* A client enrolled again.
EnrolKinds == <<"node", "enroll", "enroll">>
EnrolIds == <<"n", "c", "c">>
=============================================================================
