--------------------------- MODULE ServiceGossip ---------------------------
(***************************************************************************)
(* How the registries of a cluster learn of each other's services: the     *)
(* agent's register, deregister and leave procedures                       *)
(* (internal/agent/agent.go), the gossip delegate with its queue of        *)
(* broadcasts, its signed envelopes and its table of public keys           *)
(* (internal/gossip/cluster.go, envelope.go), and the merge at the         *)
(* receiver (module Registry).                                             *)
(*                                                                         *)
(* Admin requests run in goroutines of their own, and so does each node's  *)
(* main goroutine, which deregisters everything when the node leaves.      *)
(* Memberlist is external: a message that was sent may be lost, delayed,   *)
(* reordered or delivered more than once.  Each node reads a wall clock    *)
(* that is off by a constant from the cluster's time.                      *)
(***************************************************************************)
EXTENDS Registry, Sequences

CONSTANTS
    Request,     \* admin request goroutines
    Origin,      \* the nodes whose admin API is used
    Stoppable,   \* the nodes that may leave or crash
    Cluster,     \* cluster names
    ClusterOf,   \* the configured cluster of each node
    Offset,      \* how far each node's wall clock is ahead
    BatchLimit,  \* the limit memberlist passes to GetBroadcasts
    MaxVersion, MaxTime, MaxRestarts, MaxQueue  \* bounds of the model

ASSUME ServiceGossipAssumption ==
    /\ Origin \subseteq Node /\ Stoppable \subseteq Node
    /\ ClusterOf \in [Node -> Cluster]
    /\ Offset \in [Node -> Int]
    /\ BatchLimit \in Nat \ {0}
    /\ MaxVersion \in Nat /\ MaxTime \in Nat
    /\ MaxRestarts \in Nat /\ MaxQueue \in Nat
    /\ Request \cap Node = {}
    /\ Node # {}

VARIABLES
    up,         \* the nodes whose agent runs
    local,      \* local[n], remote[n], version[n]: the maps of a Registry
    remote,
    version,
    pubkeys,    \* pubkeys[n]: the nodes whose gossip key the delegate knows
    queue,      \* queue[n]: the delegate's broadcasts
    pc,         \* where a goroutine is in its procedure
    at,         \* the node a request runs on
    data,       \* the state a goroutine is about to push
    todo,       \* the names a leaving node has yet to deregister
    net,        \* messages on the network
    now,        \* the cluster's time
    restarts,   \* restarts[n]: how often n was started again
    registered  \* history: every registration, its incarnation and time

vars == <<up, local, remote, version, pubkeys, queue, pc, at, data, todo, net,
          now, restarts, registered>>

\* A node's main goroutine goes by the node's id.
Thread == Request \cup Node

PC == {"idle", "marshal", "broadcast", "push", "pushAgain", "reply",
       "leave"}

NoData(n) == [node |-> n, services |-> {}]

\* A signed envelope.  Only its own node signs a state, so the signer is the
\* state's node.
Envelope == [cluster : Cluster, state : LocalState]

signEnvelope(n, state) == [cluster |-> ClusterOf[n], state |-> state]

\* The receiver takes an envelope of its own cluster whose signer's key it has.
unwrapEnvelope(n, env) ==
    /\ env.cluster = ClusterOf[n]
    /\ env.state.node \in pubkeys[n]

Message == [to : Node, env : Envelope]

Registration == [svc : Service, incarnation : Nat, time : Nat]

\* time.Now() at node n.
Clock(n) == now + Offset[n]

TypeOK ==
    /\ up \subseteq Node
    /\ local \in [Node -> SUBSET Service]
    /\ remote \in [Node -> SUBSET Service]
    /\ version \in [Node -> [Name -> Nat]]
    /\ pubkeys \in [Node -> SUBSET Node]
    /\ queue \in [Node -> Seq(Envelope)]
    /\ pc \in [Thread -> PC]
    /\ at \in [Thread -> Node]
    /\ data \in [Thread -> LocalState]
    /\ todo \in [Node -> SUBSET Name]
    /\ net \subseteq Message
    /\ now \in Nat
    /\ restarts \in [Node -> Nat]
    /\ registered \subseteq Registration

Init ==
    /\ up = Node
    /\ local = [n \in Node |-> {}]
    /\ remote = [n \in Node |-> {}]
    /\ version = [n \in Node |-> [s \in Name |-> 0]]
    /\ pubkeys = [n \in Node |-> {n}]
    /\ queue = [n \in Node |-> <<>>]
    /\ pc = [t \in Thread |-> "idle"]
    /\ at = [t \in Thread |-> IF t \in Node THEN t ELSE CHOOSE n \in Node : TRUE]
    /\ data = [t \in Thread |-> NoData(at[t])]
    /\ todo = [n \in Node |-> {}]
    /\ net = {}
    /\ now = 0
    /\ restarts = [n \in Node |-> 0]
    /\ registered = {}
-----------------------------------------------------------------------------
(* The register and deregister procedures, one step per critical section.  *)

\* registerService: RegisterLocal, under the registry's lock.
RegisterLocal(q, n, s, e) ==
    LET v == version[n][s] + 1
        svc == NewService(n, s, e, v, Clock(n))
    IN  /\ n \in up /\ pc[q] = "idle"
        /\ v <= MaxVersion
        /\ version' = [version EXCEPT ![n][s] = v]
        /\ local' = [local EXCEPT ![n] = PutLocal(@, svc)]
        /\ registered' = registered \cup
               {[svc |-> svc, incarnation |-> restarts[n], time |-> now]}
        /\ at' = [at EXCEPT ![q] = n]
        /\ pc' = [pc EXCEPT ![q] = "marshal"]
        /\ UNCHANGED <<up, remote, pubkeys, queue, data, todo, net, now, restarts>>

\* registerService: MarshalLocalState, which takes the lock again.
MarshalLocalState(q) ==
    /\ pc[q] = "marshal"
    /\ data' = [data EXCEPT ![q] = LocalSnapshot(at[q], local[at[q]])]
    /\ pc' = [pc EXCEPT ![q] = "broadcast"]
    /\ UNCHANGED <<up, local, remote, version, pubkeys, queue, at, todo, net, now,
                   restarts, registered>>

\* Slip: the version counter goes with the service.
TakeTombstoneForgetting(t, n, s) ==
    /\ version' = [version EXCEPT ![n][s] = 0]
    /\ local' = [local EXCEPT ![n] = DropLocal(@, s)]
    /\ data' = [data EXCEPT ![t] =
           [node |-> n, services |-> {Tombstone(n, s, version[n][s] + 1, Clock(n))}]]
    /\ pc' = [pc EXCEPT ![t] = "broadcast"]

\* What DeregisterLocal changes, and the tombstone state deregisterService makes
\* of its result, for goroutine t of node n.
TakeTombstone(t, n, s) ==
    LET v == version[n][s] + 1
    IN  /\ version' = [version EXCEPT ![n][s] = v]
        /\ local' = [local EXCEPT ![n] = DropLocal(@, s)]
        /\ data' = [data EXCEPT ![t] =
               [node |-> n, services |-> {Tombstone(n, s, v, Clock(n))}]]
        /\ pc' = [pc EXCEPT ![t] = "broadcast"]

\* deregisterService as an admin request; an unknown name changes nothing.
DeregisterLocal(q, n, s) ==
    /\ n \in up /\ pc[q] = "idle"
    /\ s \in LocalNames(local[n])
    /\ TakeTombstone(q, n, s)
    /\ at' = [at EXCEPT ![q] = n]
    /\ UNCHANGED <<up, remote, pubkeys, queue, todo, net, now, restarts, registered>>

\* The delegate appends the current local state to its broadcasts.
QueueStateBroadcast(n) ==
    /\ Len(queue[n]) < MaxQueue
    /\ queue' = [queue EXCEPT ![n] =
           Append(@, signEnvelope(n, LocalSnapshot(n, local[n])))]

\* propagateRegistryState: BroadcastState.
BroadcastState(t) ==
    /\ pc[t] = "broadcast"
    /\ QueueStateBroadcast(at[t])
    /\ pc' = [pc EXCEPT ![t] = "push"]
    /\ UNCHANGED <<up, local, remote, version, pubkeys, at, data, todo, net, now,
                   restarts, registered>>

\* propagateRegistryState: one of the two pushes to every member.
PropagateState(t) ==
    LET n == at[t]
    IN  /\ pc[t] \in {"push", "pushAgain"}
        /\ net' = net \cup
               {[to |-> m, env |-> signEnvelope(n, data[t])] : m \in Node \ {n}}
        /\ pc' = [pc EXCEPT ![t] =
               IF @ = "push" THEN "pushAgain"
               ELSE IF t \in Node THEN "leave" ELSE "reply"]
        /\ data' = [data EXCEPT ![t] = IF pc[t] = "push" THEN @ ELSE NoData(n)]
        /\ UNCHANGED <<up, local, remote, version, pubkeys, queue, at, todo, now,
                       restarts, registered>>

\* The admin handlers answer with List, which drops the expired entries.
Reply(q) ==
    LET n == at[q]
    IN  /\ pc[q] = "reply"
        /\ remote' = [remote EXCEPT ![n] = Prune(@, Clock(n))]
        /\ pc' = [pc EXCEPT ![q] = "idle"]
        /\ UNCHANGED <<up, local, version, pubkeys, queue, at, data, todo, net, now,
                       restarts, registered>>
-----------------------------------------------------------------------------
(* Leaving, crashing and starting again.                                   *)

\* deregisterAllLocal takes the names once.
LeaveCluster(n) ==
    /\ n \in up /\ pc[n] = "idle"
    /\ todo' = [todo EXCEPT ![n] = LocalNames(local[n])]
    /\ pc' = [pc EXCEPT ![n] = "leave"]
    /\ UNCHANGED <<up, local, remote, version, pubkeys, queue, at, data, net, now,
                   restarts, registered>>

\* ... and deregisters them one after the other; a name that an admin request
\* removed in the meantime is an error that is logged.
LeaveNext(n, s) ==
    /\ pc[n] = "leave" /\ s \in todo[n]
    /\ todo' = [todo EXCEPT ![n] = @ \ {s}]
    /\ \/ /\ s \in LocalNames(local[n])
          /\ TakeTombstone(n, n, s)
       \/ /\ s \notin LocalNames(local[n])
          /\ UNCHANGED <<version, local, data, pc>>
    /\ UNCHANGED <<up, remote, pubkeys, queue, at, net, now, restarts, registered>>

\* The process ends: all that is in memory is gone.
Stop(n) ==
    LET mine == {t \in Thread : at[t] = n}
    IN  /\ up' = up \ {n}
        /\ local' = [local EXCEPT ![n] = {}]
        /\ remote' = [remote EXCEPT ![n] = {}]
        /\ version' = [version EXCEPT ![n] = [s \in Name |-> 0]]
        /\ pubkeys' = [pubkeys EXCEPT ![n] = {n}]
        /\ queue' = [queue EXCEPT ![n] = <<>>]
        /\ pc' = [t \in Thread |-> IF t \in mine THEN "idle" ELSE pc[t]]
        /\ data' = [t \in Thread |-> IF t \in mine THEN NoData(n) ELSE data[t]]
        /\ todo' = [todo EXCEPT ![n] = {}]
        /\ UNCHANGED <<at, net, now, restarts, registered>>

\* leaveCluster ends: the admin server's Shutdown waits for its requests, then
\* gossip is shut down.
LeaveDone(n) ==
    /\ pc[n] = "leave" /\ todo[n] = {}
    /\ \A q \in Request : at[q] = n => pc[q] = "idle"
    /\ Stop(n)

Crash(n) == n \in up /\ Stop(n)

\* The gossip signing key is on disk, so a restarted node signs as before.
Restart(n) ==
    /\ n \notin up
    /\ restarts[n] < MaxRestarts
    /\ up' = up \cup {n}
    /\ restarts' = [restarts EXCEPT ![n] = @ + 1]
    /\ UNCHANGED <<local, remote, version, pubkeys, queue, pc, at, data, todo, net,
                   now, registered>>
-----------------------------------------------------------------------------
(* The delegate's callbacks and the background loops.                      *)

\* NotifyJoin and NotifyUpdate remember the key in m's metadata, whatever the
\* cluster it names.
NotifyJoin(n, m) ==
    /\ n \in up /\ m # n
    /\ pubkeys' = [pubkeys EXCEPT ![n] = @ \cup {m}]
    /\ UNCHANGED <<up, local, remote, version, queue, pc, at, data, todo, net, now,
                   restarts, registered>>

\* backgroundLoops: the reannounce ticker.
Reannounce(n) ==
    /\ n \in up
    /\ QueueStateBroadcast(n)
    /\ UNCHANGED <<up, local, remote, version, pubkeys, pc, at, data, todo, net,
                   now, restarts, registered>>

\* A gossip round of memberlist: one member gets what GetBroadcasts takes off
\* the queue.
GetBroadcasts(n, m) ==
    LET k == IF Len(queue[n]) < BatchLimit THEN Len(queue[n]) ELSE BatchLimit
    IN  /\ n \in up /\ m # n
        /\ queue[n] # <<>>
        /\ net' = net \cup {[to |-> m, env |-> queue[n][i]] : i \in 1..k}
        /\ queue' = [queue EXCEPT ![n] = SubSeq(@, k + 1, Len(@))]
        /\ UNCHANGED <<up, local, remote, version, pubkeys, pc, at, data, todo, now,
                       restarts, registered>>

\* A push-pull exchange of memberlist: each side sends the other its LocalState.
PushPull(n, m) ==
    /\ n \in up /\ m \in up /\ m # n
    /\ net' = net \cup
           {[to |-> m, env |-> signEnvelope(n, LocalSnapshot(n, local[n]))],
            [to |-> n, env |-> signEnvelope(m, LocalSnapshot(m, local[m]))]}
    /\ UNCHANGED <<up, local, remote, version, pubkeys, queue, pc, at, data, todo,
                   now, restarts, registered>>

\* Slip: the receiver stamps what it merges with its own clock.
ingestRestamped(msg) ==
    LET n == msg.to
        fresh == {[x EXCEPT !.announced = Clock(n)] : x \in msg.env.state.services}
    IN  /\ n \in up
        /\ unwrapEnvelope(n, msg.env)
        /\ remote' = [remote EXCEPT ![n] =
               MergeRemoteState(n, @, [msg.env.state EXCEPT !.services = fresh])]
        /\ UNCHANGED <<up, local, version, pubkeys, queue, pc, at, data, todo, net,
                       now, restarts, registered>>

\* NotifyMsg and MergeRemoteState of the delegate: ingestState.
ingestState(msg) ==
    LET n == msg.to
    IN  /\ n \in up
        /\ unwrapEnvelope(n, msg.env)
        /\ remote' = [remote EXCEPT ![n] =
               MergeRemoteState(n, @, msg.env.state)]
        /\ UNCHANGED <<up, local, version, pubkeys, queue, pc, at, data, todo, net,
                       now, restarts, registered>>

\* backgroundLoops' prune ticker, and the List of any other reader: the expired
\* entries go.
PruneRemote(n) ==
    /\ n \in up
    /\ remote' = [remote EXCEPT ![n] = Prune(@, Clock(n))]
    /\ UNCHANGED <<up, local, version, pubkeys, queue, pc, at, data, todo, net, now,
                   restarts, registered>>

Tick ==
    /\ now < MaxTime
    /\ now' = now + 1
    /\ UNCHANGED <<up, local, remote, version, pubkeys, queue, pc, at, data, todo,
                   net, restarts, registered>>

Next ==
    \/ \E q \in Request, n \in Origin, s \in Name :
           \/ \E e \in Endpoint : RegisterLocal(q, n, s, e)
           \/ DeregisterLocal(q, n, s)
    \/ \E q \in Request : MarshalLocalState(q) \/ Reply(q)
    \/ \E t \in Thread : BroadcastState(t) \/ PropagateState(t)
    \/ \E n \in Stoppable :
           \/ LeaveCluster(n) \/ LeaveDone(n) \/ Crash(n) \/ Restart(n)
           \/ \E s \in Name : LeaveNext(n, s)
    \/ \E n \in Node :
           \/ Reannounce(n) \/ PruneRemote(n)
           \/ \E m \in Node : NotifyJoin(n, m) \/ GetBroadcasts(n, m) \/ PushPull(n, m)
    \/ \E msg \in net : ingestState(msg)
    \/ Tick

Spec == Init /\ [][Next]_vars
-----------------------------------------------------------------------------
(* Safety.                                                                 *)

Known(x) == \E r \in registered : r.svc = x

\* Whatever was lost, repeated or reordered, and whoever restarted, an entry a
\* node merged from gossip is exactly a service that another node registered:
\* MergeRemoteState never stores a tombstone or a service of the node itself.
Provenance ==
    \A n \in Node : \A x \in remote[n] : x.node # n /\ Known(x)

\* No lookup returns a service of a node that is configured for another cluster,
\* although the delegate remembers keys of all clusters: unwrapEnvelope checks
\* the envelope's cluster, and signEnvelope sets it.
ClusterIsolation ==
    \A n \in Node, s \in Name : \A x \in FindByName(local[n], remote[n], s, Clock(n)) :
        ClusterOf[x.node] = ClusterOf[n]

\* No lookup returns a remote service that was registered longer ago than the
\* TTL, give or take the difference of the two nodes' clocks: expiry counts from
\* the origin's announced_at, so neither a late or repeated message nor a merge
\* long after the origin crashed gives an entry a longer life.
FreshListing ==
    \A n \in Node, s \in Name :
        \A x \in FindByName(local[n], remote[n], s, Clock(n)) \ local[n] :
            \E r \in registered :
                /\ r.svc = x
                /\ now - r.time <= TTL + Offset[x.node] - Offset[n]

\* A service id (node, name, version) names one registration for as long as its
\* node runs, however registrations and deregistrations of several admin
\* requests and of a leaving node interleave.
ServiceIDUnique ==
    \A r1, r2 \in registered :
        /\ SameKey(r1.svc, r2.svc)
        /\ r1.svc.version = r2.svc.version
        /\ r1.incarnation = r2.incarnation
        => r1 = r2

\* While a node has an entry for a remote service, no message makes it go back to
\* an older version of that service: svcIsNewer guards every replacement.
VersionMonotone ==
    [][\A n \in Node : \A x \in remote[n], y \in remote'[n] :
          SameKey(x, y) => y.version >= x.version]_vars

Listings ==
    INSTANCE Directory WITH
        published <- {r.svc : r \in registered},
        listed <- remote

\* The abstract specification that gossip implements, module Directory: through
\* loss, repetition, reordering, crashes and restarts, a merge touches the
\* sender's entries only, and leaves of them only services the sender registered
\* in the receiver's cluster, one per name and no older than before.
ImplementsDirectory == Listings!Spec
-----------------------------------------------------------------------------
(* Liveness.  Memberlist exchanges full states over TCP every three seconds *)
(* with a random member, so between two running members an exchange, and    *)
(* the merge of the sender's current state, happen again and again.         *)

MergeLatest(n, m) ==
    \E msg \in net :
        /\ msg.to = m
        /\ msg.env.state = LocalSnapshot(n, local[n])
        /\ ingestState(msg)

FairSpec ==
    /\ Spec
    /\ \A n, m \in Node :
           /\ WF_vars(NotifyJoin(n, m))
           /\ WF_vars(PushPull(n, m))
           /\ WF_vars(MergeLatest(n, m))

\* A service that a node registered and keeps is found at every running member of
\* its cluster sooner or later, even if a stale message took it away there, or
\* the node or the member started again with fresh version counters; unless it
\* has outlived the TTL, which reannouncing does not extend.
EventuallyListed ==
    \A n, m \in Node, s \in Name :
        ClusterOf[n] = ClusterOf[m] =>
            (s \in LocalNames(local[n]))
              ~> \/ \E x \in FindByName(local[m], remote[m], s, Clock(m)) : x.node = n
                 \/ s \notin LocalNames(local[n])
                 \/ \E x \in local[n] : x.name = s /\ Expired(x, Clock(m))
                 \/ m \notin up
-----------------------------------------------------------------------------
(* The invariant the proofs are by.                                        *)

\* A state that may be in transit: services of its own node, one per name, each
\* a tombstone or a registration.
Authentic(state) ==
    /\ \A x \in state.services :
           x.node = state.node /\ (x.ttl = 0 \/ Known(x))
    /\ \A x, y \in state.services : x.name = y.name => x = y

AuthenticEnvelope(env) ==
    env.cluster = ClusterOf[env.state.node] /\ Authentic(env.state)

\* What the history says of a registration: it carries the origin's clock, and
\* its version is one the origin's counter has passed, unless the origin has
\* been started again since.
Recorded(r) ==
    LET o == r.svc.node
    IN  /\ r.svc.ttl = TTL
        /\ r.svc.announced = r.time + Offset[o]
        /\ r.time <= now
        /\ r.incarnation <= restarts[o]
        /\ o \in up /\ r.incarnation = restarts[o]
               => r.svc.version <= version[o][r.svc.name]

HistoryInv == (\A r \in registered : Recorded(r)) /\ ServiceIDUnique

LocalInv ==
    \A n \in Node :
        /\ \A x \in local[n] : x.node = n /\ Known(x)
        /\ \A x, y \in local[n] : x.name = y.name => x = y

\* Where a goroutine is about to push, it has a state of the node it runs on.
ThreadInv ==
    /\ \A n \in Node : at[n] = n
    /\ \A t \in Thread :
           pc[t] \in {"broadcast", "push", "pushAgain"} =>
               data[t].node = at[t] /\ Authentic(data[t])

TransitInv ==
    /\ \A n \in Node : \A i \in 1..Len(queue[n]) : AuthenticEnvelope(queue[n][i])
    /\ \A msg \in net : AuthenticEnvelope(msg.env)

RemoteInv ==
    \A n \in Node :
        /\ \A x \in remote[n] :
               x.node # n /\ ClusterOf[x.node] = ClusterOf[n] /\ Known(x)
        /\ \A x, y \in remote[n] : SameKey(x, y) => x = y

\* The inductive invariant: every place a service can be in (a registry, a
\* goroutine's data, a broadcast queue, the network) holds only authentic ones,
\* and both maps of a registry have one entry per key.
IndInv == TypeOK /\ HistoryInv /\ LocalInv /\ ThreadInv /\ TransitInv /\ RemoteInv
-----------------------------------------------------------------------------
(* What the code's comments and tests say, and the code does not do.       *)

\* "Best-effort pushes can be dropped; send twice to reduce flakiness."
\* (internal/agent/agent.go:349): a push that arrives both times leaves the
\* receiver as it was after the first.
PushTwiceHarmless ==
    \A t \in Thread, m \in Node :
        LET once == MergeRemoteState(m, remote[m], data[t])
        IN  /\ pc[t] = "pushAgain" /\ m \in up
            /\ unwrapEnvelope(m, signEnvelope(at[t], data[t]))
            => MergeRemoteState(m, once, data[t]) = once

\* "DeregisterService removes a local service and gossips tombstones."
\* (internal/agent/agent.go:477): the tombstone of one service takes no other
\* service that its node still has out of the receiver's registry.
TombstoneRemovesOne ==
    \A msg \in net : \A dead \in msg.env.state.services :
        dead.ttl = 0 /\ msg.to \in up /\ unwrapEnvelope(msg.to, msg.env)
            => \A x \in remote[msg.to] :
                   x \in local[dead.node] /\ x.name # dead.name
                   => x \in MergeRemoteState(msg.to, remote[msg.to], msg.env.state)

\* "TestGracefulLeaveRemovesServices" (test/integration/routing_test.go): when
\* leaveCluster is done, no service is left that was not deregistered.
LeaveRemovesServices ==
    [][\A n \in Node : LeaveDone(n) => local[n] = {}]_vars
=============================================================================
