------------------------------- MODULE Router -------------------------------
(***************************************************************************)
(* Package router: the order in which the instances of a service are       *)
(* tried.  A registry lists at most one instance of a name per node, so an *)
(* instance is the node it is on; node ids are numbers, for their order.   *)
(* A load is an error rate and a number of active streams.                 *)
(***************************************************************************)
EXTENDS Integers, Sequences, FiniteSets

\* The load of a node that is not in the map: the zero NodeLoad.
LoadOf(loads, n) == IF n \in DOMAIN loads THEN loads[n] ELSE [errors |-> 0, streams |-> 0]

\* Slip: the error rate decides only between nodes with equally many streams.
StreamsFirst(loads, a, b) ==
    LET x == LoadOf(loads, a)
        y == LoadOf(loads, b)
    IN  \/ x.streams < y.streams
        \/ x.streams = y.streams /\ x.errors < y.errors
        \/ x = y /\ a < b

\* The less of the second sort: error rate, active streams, node id.
Before(loads, a, b) ==
    LET x == LoadOf(loads, a)
        y == LoadOf(loads, b)
    IN  \/ x.errors < y.errors
        \/ x.errors = y.errors /\ x.streams < y.streams
        \/ x = y /\ a < b

\* The lists that hold every element of a finite set once.
Arrangements(S) ==
    {s \in [1..Cardinality(S) -> S] : \A i, j \in 1..Cardinality(S) : i # j => s[i] # s[j]}

\* What package sort promises: the same elements, none of them after one that it is
\* less than.  No two instances are equal in the orders below, so that it makes no
\* difference which sort is stable.
Slice(S, less) ==
    CHOOSE s \in Arrangements(S) :
        \A i, j \in 1..Cardinality(S) : i < j => <<s[j], s[i]>> \notin less

ByNode(S) == {p \in S \X S : p[1] < p[2]}
ByLoad(loads, S) == {p \in S \X S : Before(loads, p[1], p[2])}

\* The instances that are in a list.
Listed(s) == {s[i] : i \in 1..Len(s)}

\* The pairs that a list has in this order.
AsIn(s) == {p \in Listed(s) \X Listed(s) :
              \E i, j \in 1..Len(s) : i < j /\ p = <<s[i], s[j]>>}

\* Candidates: the instances are sorted by node id; the loop puts the local one apart
\* and keeps those on connected peers, as they stand; when some load is known, these
\* are sorted once more.
Candidates(services, localNode, peers, loads) ==
    LET sorted == Slice(services, ByNode(services))
        local == IF localNode \in services THEN <<localNode>> ELSE <<>>
        remote == Slice((services \cap peers) \ {localNode}, AsIn(sorted))
    IN  local \o IF DOMAIN loads # {} /\ Len(remote) > 1
                   THEN Slice(Listed(remote), ByLoad(loads, Listed(remote)))
                   ELSE remote
=============================================================================
