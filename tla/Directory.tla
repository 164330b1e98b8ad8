------------------------------ MODULE Directory ------------------------------
(***************************************************************************)
(* What the registries of a cluster promise to those who look services up, *)
(* without messages, keys, queues or clocks: there is one set of published *)
(* services, and every node lists some of the ones that the other nodes of *)
(* its cluster published.  A listing changes for one publisher at a time,  *)
(* and never goes back to an older version of a service it lists.          *)
(***************************************************************************)
EXTENDS Integers

CONSTANTS
    Node,      \* those who publish and list
    ClusterOf  \* the cluster of each node

VARIABLES
    published,  \* every service that was ever published
    listed      \* listed[n]: the services of other nodes that n lists

vars == <<published, listed>>

Init ==
    /\ published = {}
    /\ listed = [n \in Node |-> {}]

\* A node publishes a service.
Publish ==
    /\ \E svc \in published' : published' = published \cup {svc}
    /\ UNCHANGED listed

\* No listing but n's changes.
OnlyAt(n) == \A k \in Node \ {n} : listed'[k] = listed[k]

\* What n lists of m's services changes to services that m published, one per
\* name and none older than the one it takes the place of.  What n lists of
\* other nodes stays.
Learn(n, m) ==
    /\ m # n /\ ClusterOf[m] = ClusterOf[n]
    /\ OnlyAt(n)
    /\ \A x \in listed[n] \cup listed'[n] :
           x.node # m => x \in listed[n] /\ x \in listed'[n]
    /\ \A x \in listed'[n] : x.node = m =>
           /\ x \in published
           /\ \A y \in listed[n] :
                  y.node = m /\ y.name = x.name => x.version >= y.version
           /\ \A y \in listed'[n] : y.node = m /\ y.name = x.name => y = x
    /\ UNCHANGED published

\* n loses some of what it lists: services expire, or n stops.
Forget(n) ==
    /\ OnlyAt(n)
    /\ listed'[n] \subseteq listed[n]
    /\ UNCHANGED published

Next ==
    \/ Publish
    \/ \E n \in Node : Forget(n) \/ \E m \in Node : Learn(n, m)

Spec == Init /\ [][Next]_vars
=============================================================================
