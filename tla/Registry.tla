------------------------------ MODULE Registry ------------------------------
(***************************************************************************)
(* The service registry of one ZTM node (internal/registry/registry.go):   *)
(* the services it announces, the services it merged from gossip, and what *)
(* a lookup returns.  The registry's two maps are sets of records, keyed   *)
(* by name (local) and by node and name (remote).  The operators are pure; *)
(* module ServiceGossip makes them steps of a cluster.                     *)
(***************************************************************************)
EXTENDS Integers, FiniteSets

CONSTANTS
    Node,      \* node ids
    Name,      \* logical service names
    Endpoint,  \* what a registration carries: host, port and labels
    NoEndpoint,\* the empty endpoint of a tombstone
    TTL        \* DefaultTTL, in clock ticks

ASSUME RegistryAssumption ==
    /\ TTL \in Nat \ {0}
    /\ NoEndpoint \notin Endpoint

\* One announced service.  The service id is the triple node, name, version.
Service ==
    [node : Node, name : Name, endpoint : Endpoint \cup {NoEndpoint},
     version : Nat, announced : Int, ttl : {0, TTL}]

\* What gossip carries: the services of one node.
LocalState == [node : Node, services : SUBSET Service]

\* The record that RegisterLocal stores for version v, stamped at time t.
NewService(n, s, e, v, t) ==
    [node |-> n, name |-> s, endpoint |-> e, version |-> v,
     announced |-> t, ttl |-> TTL]

\* The record that DeregisterLocal returns: a service with a zero TTL.
Tombstone(n, s, v, t) ==
    [node |-> n, name |-> s, endpoint |-> NoEndpoint, version |-> v,
     announced |-> t, ttl |-> 0]

\* The entry of the local map for svc.name replaced by svc.
PutLocal(loc, svc) == {x \in loc : x.name # svc.name} \cup {svc}

\* The local map without its entry for s.
DropLocal(loc, s) == {x \in loc : x.name # s}

\* The names registered on this node.
LocalNames(loc) == {x.name : x \in loc}

\* The serialized local map.
LocalSnapshot(n, loc) == [node |-> n, services |-> loc]

\* Both maps use one key per node and service name.
SameKey(x, y) == x.node = y.node /\ x.name = y.name

\* Slip: any other version counts as newer.
svcDiffers(x, y) == x.version # y.version

\* A merge compares services of one key only, so their node ids, which
\* svcIsNewer falls back on when versions are equal, never decide.
svcIsNewer(x, y) == x.version > y.version

\* Slip: tombstones are stored like services.
AcceptedWithTombstones(remote, state) ==
    {x \in state.services :
        \A cur \in remote : SameKey(x, cur) => svcIsNewer(x, cur)}

\* Slip: a service is stored only where an older one is known.
AcceptedUpdatesOnly(remote, state) ==
    {x \in state.services :
        /\ x.ttl # 0
        /\ \E cur \in remote : SameKey(x, cur) /\ svcIsNewer(x, cur)}

\* The services of a received state that the merge stores: no tombstone, and
\* newer than the entry it would replace.
Accepted(remote, state) ==
    {x \in state.services :
        /\ x.ttl # 0
        /\ \A cur \in remote : SameKey(x, cur) => svcIsNewer(x, cur)}

\* MergeRemoteState at node n.  The final loop drops every entry of the sender
\* that this merge did not store, so an entry that was skipped for not being
\* newer goes as well; a tombstone needs no case of its own.
MergeRemoteState(n, remote, state) ==
    IF state.node = n
    THEN remote
    ELSE {x \in remote : x.node # state.node} \cup Accepted(remote, state)

\* A remote entry is expired once the reader's clock is past its TTL.
Expired(x, t) == t > x.announced + x.ttl

\* What List and Prune leave of the remote map at time t.
Prune(remote, t) == {x \in remote : ~Expired(x, t)}

\* What List returns; a local service never expires.
List(loc, remote, t) == loc \cup Prune(remote, t)

\* The instances of a service that a lookup finds.
FindByName(loc, remote, s, t) == {x \in List(loc, remote, t) : x.name = s}
=============================================================================
