----------------------------- MODULE MCRouting ------------------------------
(***************************************************************************)
(* Instances of Routing: the edge is node 2, between its peers in the      *)
(* order of node ids.                                                      *)
(***************************************************************************)
EXTENDS Routing

SmallLoad == [errors : 0..1, streams : 0..1]

\* One instance or two, on connected peers, that the edge knows of, that accept
\* connections and whose nodes allow the client.  The changes start from there.
InitSettled ==
    /\ Init /\ alive = Node /\ allows = Node
    /\ linked = Peer /\ own \in {{3}, {1, 3}} /\ view = own

FairFromSettled == InitSettled /\ [][Next]_vars /\ Fairness

\* The same with two instances, of which the edge may not have heard yet.
InitUnheard ==
    /\ Init /\ alive = Node /\ allows = Node
    /\ linked = Peer /\ own = {1, 3} /\ view \in {own, {}}

FairFromUnheard == InitUnheard /\ [][Next]_vars /\ Fairness
=============================================================================
