# TLA+ models of ZTM

These modules model ZTM, the zero-trust mesh gateway of this repository, for the
model checker TLC and the proof system TLAPS.  A path such as
`internal/agent/agent.go:349` is relative to the repository's root.
`PROJECT.json` has the same information in a form for tools: which lines each
definition models, which runs there are, which hazards each property is about.

## The system

A ZTM *node* (`cmd/ztm-node`, `internal/agent`) announces services and relays
client connections to them.  Several nodes form a cluster:

* **Registry and gossip.**  A node keeps the services it announces and those it
  heard of in a registry (`internal/registry`).  It spreads its own by gossip
  over hashicorp/memberlist (`internal/gossip`), in three ways: pushes after every
  change, a queue of broadcasts, and memberlist's periodic exchange of full
  states.  Every state travels in an envelope signed by its node.
* **Mesh.**  Nodes keep QUIC links to each other with mutual TLS
  (`internal/mesh`, `internal/identity`).
* **Tunnel and routing.**  A client opens a stream to an *edge* node
  (`internal/tunnel`); the edge checks its policy (`internal/policy`), looks up
  instances (`internal/rpc/resolver.go`), orders them (`internal/router`), and
  tries one after the other, itself or over the mesh (`internal/mesh/relay.go`).
  Once a backend is connected, bytes are copied both ways (`internal/metrics`).
* **Joining.**  A new node sends a join token (`internal/jointoken`) to a node's
  `JoinCluster` RPC (`internal/rpc/server.go`), which hands out a certificate, the
  CA certificate and the gossip secret; `ztm-node join` installs them in its data
  directory (`internal/identity`).
* **Administration.**  An HTTP API registers and deregisters services
  (`internal/admin`); `push-policy` sends policy bundles over RPC.
* **Client.**  `ztm-client` (`internal/client`) offers a SOCKS5 listener, or a TUN
  device with a DNS responder that gives virtual addresses to `*.ztm` names.

## Inventory

| Part | Code | Module | State |
| --- | --- | --- | --- |
| service registry | `internal/registry` | `Registry`, `ServiceGossip`; promise: `Directory` | modelled |
| registration, leave, reannounce and prune loops | `internal/agent`, `internal/admin` | `ServiceGossip` | modelled |
| gossip delegate, envelopes, keys | `internal/gossip` | `ServiceGossip` | in part: no encodings, no start of memberlist |
| mesh links | `internal/agent`, `internal/mesh/transport.go` | `MeshLinks` | modelled |
| data directory: CA, certificates, secrets | `internal/identity`, `internal/gossip/key.go` | `NodeIdentity` | modelled |
| join tokens, `JoinCluster`, `token create` | `internal/jointoken`, `internal/rpc`, `cmd/ztm-node` | `JoinTokens`; promise: `OneTimeToken` | modelled |
| policy | `internal/policy` | `Policy` | modelled |
| router | `internal/router` | `Router` | modelled |
| edge stream handler, resolver, mesh relay handler | `internal/tunnel`, `internal/rpc`, `internal/mesh/relay.go` | `Routing` | modelled; peer statistics in part: no lifetime of cached ones |
| relays of a session, byte counters, acknowledgements | `internal/metrics/relay.go`, `internal/tunnel/client.go` | `Relay` | modelled |
| start and stop of a node | `internal/agent`, all servers | `NodeLifecycle` | modelled |
| TUN mode of the client | `internal/client`, `internal/proxy` | `TunClient` | in part |
| SOCKS5 listener | `internal/socks5` | `Relay`, `TunClient` | modelled, without the bytes of its messages |
| client certificates | `internal/identity/client.go` | `NodeIdentity` | modelled |
| generated protocol code, deployment files | `api/proto`, `deploy` | | not modelled |

## Modules

Each component module has the state as variables, one action per step that the
code takes without giving up a lock or waiting, and its properties at the end.
"Slip" marks an operator that no specification uses: a mutated form of the
definition that follows it, for testing that the properties notice.  `MC...`
modules give the constants their values; the `.cfg` files are the instances; the
`...Proofs` modules have the theorems.

### `Registry` and `ServiceGossip`

`Registry` has the methods of `registry.Registry` as operators on sets of
services: `NewService`, `Tombstone`, `MergeRemoteState` (with `svcIsNewer`, and the
final loop that deletes what a state does not list), `FindByName` with expiry, and
pruning.  A service has its node, name, endpoint, version, time of announcement
and TTL; a tombstone is a service with TTL 0.

`ServiceGossip` makes a cluster of them.  An admin request, and the node's own
goroutine when it leaves, go through `registerService`, `deregisterService` or
`deregisterAllLocal` step by step: the registry is changed under its lock,
marshalled under the lock again, queued as a broadcast, and pushed twice.  Other
steps hand broadcasts to a gossip round (`GetBroadcasts`), exchange full states
(`PushPull`), reannounce, prune, deliver a message to `ingestState`, learn the key
of a member (`NotifyJoin`), crash, and start again with empty memory.  Memberlist
is external: a message stays in the set `net` and may be delivered late, out of
order, repeatedly or never.  Each node's wall clock is off by a constant.  Time is
counted in units of the TTL's granularity, and the history variable `registered`
records when each registration was made.

`Directory` is what all this is for, without messages, keys, queues or clocks: a set
of published services, and for every node a listing of services that the others of
its cluster published, which changes for one publisher at a time and never goes back
to an older version.  `ServiceGossip` implements it (`ImplementsDirectory`) under the
mapping of `published` to the history and of `listed` to the remote maps: a
registration is `Publish`, a merge is `Learn`, expiry, pruning and crashes are
`Forget`, and all that happens in queues and on the network is a stutter.

### `MeshLinks`

The agent's `meshConnected` marks and the transport's `peers` map are changed by
four kinds of goroutine (the member event callback, the main and maintenance loop,
the accept loop, and one monitor per connection end), under two locks.  A call of
`connectMeshPeer` is claim, dial, handshake, and success or failure.  A connection
has a stage at each end.  Addresses are modelled because they matter: a node
publishes the address its listener reports, a restart may change the port, and
`ResolveHost` rewrites a wildcard host at the dialing node.  `PortsDisjoint` says that
no two nodes use the same port, so that no other node answers at a published
address.  Connections break, and processes end and start again.

### `Policy`

The rules, version and cluster of each node's `Policy`; `ApplyBundle` with its
checks in the order of the code, and `Allow`.  Bundles are any set of records; the
instance computes `Matches` by `matchPattern` on sequences of characters.  The
module is about `ApplyBundle` itself: at present the `PushPolicy` handler in front
of it refuses every caller (see `Resolved` below).

### `JoinTokens`

The token map in the node's memory, the file, the lock that `Consume` keeps across
its save, the `JoinCluster` calls, and the `token create` commands, which are
processes with a map of their own.  `os.WriteFile` is two steps, truncation and
write; a save may fail at either; the node may crash anywhere and start again.
`WhileRunning` says whether commands are used next to a running node.

`OneTimeToken` is the promise: a token is printed, taken by one call while it is
valid, and admits its node or is released.  `JoinTokens` implements it
(`OneTimeTokens`); what is in the map, the file and the locks is not visible there.

### `NodeIdentity`

The files of a data directory, named by what made their contents, and the runs on it,
each of a kind: a node, a join, a policy push, an enrolment (`enroll-client`), or
`ztm-client`.  A node reads or makes the CA, its certificate, the gossip secret and
the signing key, in the order and with the conditions of `agent.New` and `Agent.Run`;
a join installs what it was handed; an enrolment issues a client certificate; a client
loads it and dials a node that is up, which accepts it or not: the certificate must be
of the node's CA and of its cluster (`--cluster`, which every run is given by itself:
`ClusterOf`).  Each file is truncated
and then written, a run may end in between, and certificates of clients expire.

### `Router` and `Routing`

`Router` is `Candidates` as it is written: a sort by node id, a loop that puts the
local instance apart and drops those on nodes that are not connected, and a second
sort when loads are known.  `Slice` is what package `sort` promises of either.  The
comment's own order is the property `PriorityOrder`, which looks at positions only.

`Routing` follows clients' streams through `handleStream` on the edge and `HandleStream`
on the peers they are relayed to, while registrations, gossip, policies, links and
backends change (`MaxChanges` times), and clients may go away.  Peers, instances and
loads are read at different steps, as in the code, and used later.  A mesh connection
has room for `MaxStreams` relay streams, those of this edge, and `OpenStreamSync` waits
while they are all in use.

### `Relay`

A session from an application to a backend through a chain of handlers: the SOCKS5
handler of `ztm-client`, the handler of the edge, and the relay handler of the owner
when the backend is another node's; four chains in all.  A handler waits for the
acknowledgement of the next link, acknowledges its own opener, and starts two copying
goroutines with their buffers and counters (`io.Copy` in the SOCKS5 handler, without
counters).  Data are the numbers 1, 2, ...; either end may close, the application may
close one side, and any QUIC connection may be lost.  A link holds `Window` items that
its reader has not taken, and a write to a full one waits.  What each handler closes when it
returns is as in the code, which differs between the three.

### `NodeLifecycle`

`Agent.Run`: the servers start one by one and may fail; after the signal,
`leaveCluster` stops them in its order under one deadline.  Meanwhile clients open
streams, which are accepted, spawned, counted, routed or refused, and relayed in separate
steps, and admin and RPC calls run.

### `TunClient`

The DNS responder, the map from virtual addresses to names, the device, and the
opener that turns a target into a service name.  Names and addresses are sequences of
bytes, since the properties are about names that share addresses.  The hash of a name
is a parameter (`Hash`): the proofs are for any hash of 16 bits, and `MCTunClient`
computes the code's own (`fnv1a32`, its low 16 bits) for the names of its instances.
Applications keep answers across a restart of the client, and an answer is `bound`,
`taken` (another name with the same address was looked up later) or `old` (the client
was started again).  Its specification is
`ClientSpec`, since `AccessProofs` extends both this module and `Policy`.

## Runs

All times are for two TLC workers.

| Run | States | Time | Checks |
| --- | --- | --- | --- |
| `gossip_ordering` | 218,336 | 31 s | `ServiceIDUnique`, `ImplementsDirectory` |
| `gossip_restart` | 545,712 | 80 s | `IndInv`, `FreshListing` |
| `gossip_live` | 31,416 | 33 s | `EventuallyListed` |
| `gossip_push_twice` | | 3 s | `PushTwiceHarmless`, which is violated |
| `mesh_links` | 77,118 | 46 s | `IndInv`, `NoStuckMark`, `NoDuplicateDials`, `PeersWatched`, `EventuallyLinked` |
| `policy_order` | 88,993 | 20 s | `TypeOK`, `HighestWins`, `Enforced` |
| `join_once` | 301,024 | 50 s | `IndInv`, `OneTime`, `OneTimeTokens`, `Answered` |
| `identity_starts` | 207,340 | 1 min | `IndInv`, `OneTrust`, `KeepsIdentity`, `EnrolledConnects`, `StartKeepsJoined` |
| `routing_paths` | 109,134 | 1 min | `IndInv`, `Admitted`, `Truthful`, `OneReached`, `FailsOver`, `PriorityOrder`, `Answered` |
| `relay_bytes` | 52,691 | 2 min | `IndInv`, `InOrder`, `SuccessIsWhole`, `Counted`, `HopEnds` |
| `client_names` | 105,032 | 25 s | `IndInv`, `AsksLookedUp` |
| `node_drain` | 38,677 | 9 s | `IndInv`, `DrainsActive`, `CallsFinish`, `NodeStops` |

An `IndInv` is the inductive invariant of the module's proofs, which includes its
types.

What they show:

* **Gossip.**  However messages are lost, repeated and reordered, and although
  registering and pushing are separate steps of concurrent requests, a service id
  names one registration (`ServiceIDUnique`), the cluster is a directory
  (`ImplementsDirectory`: only what another node of the cluster announced is listed,
  one version per name, never an older one than before), and nothing is listed longer
  than its TTL plus the clock skew (`FreshListing`), also after a crash of its node.
  A service that stays registered is found at every running member sooner or later,
  also after a restart that resets version counters (`EventuallyListed`).
* **Mesh.**  A mark in `meshConnected` always has a goroutine that will take it
  away, a peer is never dialed twice, the peer map only has monitored connections,
  and two nodes that stay up end up linked for good.
* **Policy.**  In whatever order bundles arrive, a node has the rules of the newest
  one, and `Allow` decides by them.
* **Joining.**  Over concurrent calls, failed saves, crashes and restarts a token
  admits one node, if `token create` is used while the node is down, and only while
  it is valid (`OneTimeTokens`); no call hangs on the lock.
* **Identity.**  Whatever runs were cut off, nodes and pushes that come up on a
  directory share one CA and nodes one gossip secret, nodes and clients keep their
  identity, and a client that could load its certificate is accepted by every node of
  its directory and cluster as long as nothing expired or was replaced by a join
  (`EnrolledConnects`).  A start never replaces what a join installed.
* **Routing.**  A backend is connected only where both policies have allowed it since
  the stream began, the
  answer names a node that has connected a backend or was lost, the edge reaches at most
  one backend for a stream, that of the node it named (`OneReached`: another one may be
  left over behind a lost connection, see `OneBackend` below), a stream does not fail
  while one candidate could have served it all the time, and a request is answered
  unless it waits for ever for a stream of a connection that has none to spare
  (`Answered`).  `Candidates` orders as its comment says.
* **Relay.**  When the client speaks first, through every chain each end gets a prefix
  of what the other sent, a relay counted as success passed on everything, the byte
  counters of every node are right, and a handler ends once both of its links are
  closed or lost, unless one of its writes waits for ever for a reader (`HopEnds`).
* **Client.**  However lookups and connections interleave, a connection asks for the
  name that its application looked up, until a name with the same address is looked up
  or the client is started again (`AsksLookedUp`); no name is given the address of the
  device.
* **Lifecycle.**  In a node that came up, streams whose handlers began before the tunnel
  was shut down, and calls that were taken, are cut by the deadline only, and a node that
  got the signal ends.

Every property has a mutated definition (a slip) for which TLC reports it violated,
listed in `PROJECT.json`.

### Bounds, and why they are enough to be of use

* `ServiceGossip`: two nodes suffice for everything that a receiver does with the
  states of one origin, since a merge only touches entries of the state's node;
  the proofs are for any number.  Two requests and two versions
  (`MaxVersion`) let registrations overtake each other; one restart lets counters
  restart below what members hold; with TTL 1 and clocks that differ by 1, `MaxTime` 2
  goes beyond the last time at which an entry may be listed.  `MaxQueue` 1 and
  `BatchLimit` 1 make queues fill.  The instance also passes with `MaxTime` 3 (1,367,928
  states, three minutes).
* `MeshLinks`: two nodes, two concurrent connections, and one fault (`MaxFaults`),
  which is the end of a process, possibly followed by a start on another port, or
  the break of a connection.  The instance also passes with `MaxFaults` 2 (298,272
  states, four and a half minutes).
* `Policy`: six bundles with ties, another cluster, none, an empty one, and rules
  for one client; any order and repetition is explored without a bound.
* `JoinTokens`: two tokens, two calls, two commands, one crash; either token may expire.
* `NodeIdentity`: six runs (two starts of a node, one of them with another cluster, a
  join, a push, an enrolment, a client), one of them cut off, one expiry.
* `Routing`: the edge and two peers, and two streams that compete for one relay stream
  per connection (`MaxStreams` 1).  At first one peer or both have an instance that the
  edge knows of, the links are up and the policies allow (`InitSettled`); two changes,
  before the streams or on their way, take any of it away.  `PriorityOrder` looks at all
  sets of instances, peers and loads in every state.
* `Relay`: two items in each direction, one when an owner is part of the chain
  (`Amounts`), and links that hold one item (`Window` 1), so that writes wait.
* `TunClient`: four names, two of which share an address, two applications, one restart.
* `NodeLifecycle`: two streams on one connection, two calls.  The instance also passes
  with a third stream on a connection of its own (692,386 states, three minutes).

`CHECK_DEADLOCK FALSE` is set where a system may come to rest: a stopped node, a
finished relay, all runs of a directory done, all bounds used up after a crash.

### Fairness

* `ServiceGossip`: memberlist exchanges full states with a random member every three
  seconds over TCP (`PushPullInterval`), so an exchange between two running members,
  the merge of the sender's current state and the event for a new member happen
  again and again.  Nothing is assumed of pushes, broadcasts or tickers.
* `MeshLinks`: goroutines that can move do, the maintenance ticker ticks, an ended
  connection is noticed (QUIC's idle timeout), a dial ends, and one that is tried
  again and again gets through (strong fairness of `Dial`).
* `JoinTokens`, `Routing`, `Relay`: handlers and copying goroutines go on; a dial
  ends (by the operating system's timeout if not before: `proxy.DialTCP` sets none),
  and a lost connection is noticed.  No reader is assumed to read on and no stream to
  end: a write to a full link and `OpenStreamSync` on a full connection may wait for
  ever, and `HopEnds` and `Answered` say so in their hypotheses.
* `NodeLifecycle`: `Run` goes on and its deadline passes.  Nothing is assumed of
  clients, whose streams and calls may last for ever.

## Proofs

Proved with TLAPS for all values of the constants that satisfy the modules'
`ASSUME`s, which say that the constants have their types and that markers such as
`Torn` differ from real values.  A step tries Zenon and then, with growing limits, the
SMT solver (the `USE` at the head of each module), so that the proofs do not depend on
a fast machine:

* `ServiceGossipProofs`: `TypeCorrect`, `Invariance`, `ProvenanceHolds`,
  `ClusterIsolationHolds`, `ServiceIDUniqueHolds`, `FreshListingHolds`,
  `VersionMonotoneHolds`, `ImplementsDirectoryHolds`.  None of the properties is
  inductive: that a registry has only authentic entries depends on what is in the
  network, that on the queues and on what goroutines are about to push, and that on the
  registry of the origin.  `IndInv` therefore says the same of all these places: a state
  in transit is of one node, in an envelope of that node's cluster, and each service in
  it is a tombstone or an entry of the history; the history records the origin's clock,
  and a version that the origin's counter has passed unless it was started again.
  `FreshListing` follows from the recorded clock, `ServiceIDUnique` from the counter,
  `VersionMonotone` from one entry per key and `svcIsNewer`.  For the refinement, each
  action is shown to be a step of `Directory` or a stutter: for a merge, that what it
  stores is in the history comes from the invariant on the envelope.
* `AccessProofs`, on `Policy`: `TypeCorrect`, `HighestWinsHolds`, `EnforcedHolds`, for
  any set of bundles.  `HighestWins` is inductive with the types; `Enforced` follows from
  it.
* `AccessProofs`, on `TunClient`: `ClientInvariance` and `AsksLookedUpHolds`, for any
  names, applications and restarts, and any hash, so for names that share addresses too.
  Beside the types of the constants (`TunClientAssumption`) they assume `WithoutSuffix`
  (no service has a name that itself ends in `.ztm`: the opener would cut it).  The
  invariant says that the map binds an address to one name, which has it, that an answer
  which no later lookup has taken over and no restart has made old is bound to the name
  that was looked up, and that a taken one is bound to some name with the same address.
   `AsksLookedUp` follows from what a connection then finds in the map.  That no
  name gets the address of the device rests on the bit that `virtualIPForService` sets.
* `JoinTokensProofs`: `TypeCorrect`, and, under `~WhileRunning`, `Invariance`,
  `OneTimeHolds` and `OneTimeTokensHold`.  The inductive invariant says that whichever
  map the next decision will be made from (the node's, the file's, or the copy of a
  command) has the marks of all tokens that admitted somebody, that a token is held by
  one call at a time, and that a call about to be answered has its mark in the file,
  unless the file is torn.
* `MeshLinksProofs`: `Invariance`, `NoStuckMarkHolds`, `NoDuplicateDialsHolds`,
  `PeersWatchedHolds`, for any number of nodes, connections and faults, assuming
  `PortsDisjoint` (without it `NoStuckMark` fails, see below).  The invariant counts
  who is responsible for a mark: exactly one of a task that has claimed it and a
  connection that is up or whose monitor has not yet reported, and it ties each task to
  the connection it waits for and each end of a connection to its entry in the map.
* `NodeLifecycleProofs`: `Invariance`, `DrainsActiveHolds`, `CallsFinishHolds`, for any
  finite set of streams.  The invariant says, for each step of the shutdown, what the
  steps before it have seen to: once the goroutine in the tunnel's `Shutdown` has seen
  the count at zero, none of the streams that began before is under way, and before the
  deadline no later step is reached without that; likewise for calls.  The count is the
  number of handlers, by lemmas about adding one to a finite set and taking one away.
* `RoutingProofs`: `Invariance`, `AdmittedHolds`, `OneReachedHolds`, `TruthfulHolds`,
  `FailsOverHolds`, `PriorityOrderHolds`, `WaitsForSomebody`, `ComesToAnEndHolds`, for any
  finite set of nodes, any streams, changes and loads.  The invariant says that a peer that works for a
  stream is the first of the candidates that the edge has not given up, and the edge
  waits for it or has settled on it, unless the connection to it is lost; and that who
  goes on with a stream has decided on it since it began.  For `FailsOver` it also says
  that a candidate that could have served the stream all the time has not been refused,
  and is among those not yet given up.  That none is left out at the beginning, and
  `PriorityOrder`, rest on lemmas about `Candidates`: `Before` is a strict total order of
  the instances, a finite set has an enumeration in such an order (by a smallest subset
  that had none), an enumeration without repetition as long as the set has all of it, the
  filter keeps the order of the first sort, and what the second one makes of it is in the
  comment's order.
  The last two are what `Answered` rests on besides fairness.  `ComesToAnEnd` is an action
  property: every step that `handleStream` takes for a stream lessens `StepsLeft`, a
  natural number made of the place it is at and the candidates not given up, and no other
  step moves the search.  `WaitsForSomebody` says that once `OpenRelay` has its stream it
  waits for a peer at work, an answer, or a lost connection; for the stream itself it may
  wait as long as others keep theirs.
* `NodeIdentityProofs`: `Invariance`, `OneTrustHolds`, `KeepsIdentityHolds`,
  `EnrolledConnectsHolds`, `StartKeepsJoinedHolds`, for any runs, crashes and expiries.
  The properties compare what runs have in memory, possibly long after one another; the
  invariant ties each memory to the directory.  It says what a run of each kind may have
  left to write and has read in each phase, that a start writes a file only where there
  is none that could be used, and a key only with its certificate, and that, as long as
  no join has begun, what a run has in memory is in its file or is the next thing it
  writes, and a certificate in the directory was issued for its owner by the directory's
  CA.  `StartKeepsJoined` is an action property: a write of a start to a file that a join
  installed contradicts these conditions.
* `RelayProofs`: under `~ServerFirst`, `Invariance`, `InOrderHolds`,
  `SuccessIsWholeHolds`, `CountedHolds`, for the four chains of handlers that there are
  and any amount of data.  (When the backend speaks first `InOrder` fails, see below.)
  That what arrives is a prefix of what was sent depends on every buffer on the way.
  The invariant gives each link a position and says that the data on the links and in
  the buffers are the numbers from the receiving end to the sending one without a gap,
  and that a counter is the position up to which its handler has passed data on.  The
  buffer that reads an acknowledgement loses nothing because the acknowledgement is alone
  on its link: handlers start from the backend to the client, and no data go down before
  the application has spoken.  `SuccessIsWhole` adds that a direction is closed by its
  writer, and a copy that ended well finds nothing behind it.

Out of the prover's reach, and model-checked only: liveness (`EventuallyListed`,
`EventuallyLinked`, `Answered` of `JoinTokens` and of `Routing`, `HopEnds`, `NodeStops`),
and what `fnv1a32` computes, a fold with an exclusive or, which the instances use and the
proofs do not need.  All other properties of the passing runs are proved.

## What does not hold

Properties that a comment, a test or a text of the repository states, or that a reader
of the lines named may expect, and that the code does not have.  Each has an instance in which TLC finds the behaviour (with
`-continue`, or with one property at a time, where an instance has several).

| Instance | Property | The text | The behaviour |
| --- | --- | --- | --- |
| `MCServiceGossip_push_twice` | `PushTwiceHarmless` | `internal/agent/agent.go:349` "send twice to reduce flakiness" | The second copy is not newer, so the merge does not note its services as active, and its last loop deletes them (`internal/registry/registry.go:162`). |
| `MCServiceGossip_removal` | `TombstoneRemovesOne` | `internal/agent/agent.go:477` "removes a local service and gossips tombstones" | The state that is gossiped has the tombstone only; the same loop deletes the node's other services at the receiver. |
| `MCServiceGossip_removal` | `LeaveRemovesServices` | `test/integration/routing_test.go:118` `TestGracefulLeaveRemovesServices` | A registration after `deregisterAllLocal` took its list is announced and never deregistered. |
| `MCMeshLinks_wildcard` | `EventuallyLinked` | `deploy/k8s/configmap.yaml:11`, one node per machine with the default bind address | The published `[::]:7444` is dialed as loopback by the other machine, which reaches itself. |
| `MCMeshLinks_misdirected` | `NoStuckMark` | `internal/agent/agent.go:403` "agent: mesh linked to %s via gossip" | A wildcard address of another machine is dialed as loopback, and a node of this machine has the same port and answers. Its handshake is not compared with the peer that was to be dialed, which stays marked without a link. |
| `MCPolicy_texts` | `EmptyBundleDenies` | `internal/policy/policy.go:122` "Empty bundle means default-deny" | With no allow and no deny rule `Allow` returns true. |
| `MCPolicy_texts` | `AnsweredMeansApplied` | `internal/policy/policy.go:81` "Returns accepted version or an error when rejected." | A bundle with the version in force is refused, and the answer is its version. |
| `MCJoinTokens_running` | `OneTime` | `internal/jointoken/store.go:23` "one-time join tokens" | `token create` next to a running node saves a map from before a mark. |
| `MCJoinTokens_running` | `PrintedIsValid` | `internal/jointoken/store.go:45` "Create issues a new one-time token valid for ttl." | A running node does not read the file again. |
| `MCJoinTokens_crashes` | `OpensAgain` | `internal/jointoken/store.go:30` "Open loads or creates a token store" | A crash in the middle of a save leaves a file that no start can read. |
| `MCJoinTokens_crashes` | `UniqueNodeID` | `cmd/ztm-node/main.go:107` "unique node identifier" | What was issued is not recorded; two tokens get two certificates for one id. |
| `MCNodeIdentity_crash` | `StartsAgain` | `internal/identity/ca.go:35` "Open loads or creates a CA" | A run that ends between a certificate and its key leaves a directory that no start accepts. |
| `MCNodeIdentity_join` | `JoinedStarts` | `cmd/ztm-node/main.go:389` "start with:" | The branch for a directory without CA key gives PEM text to `x509.ParseCertificate`, which takes DER; the start fails. |
| `MCNodeIdentity_expired` | `EnrolledUsable` | `cmd/ztm-node/main.go:258` "enrolled client" | `EnsureClientCert` returns at once when the file exists; the certificate in it may have expired (it lasts a day), and the client is refused. |
| `MCRouting_limits` | `Resolved` | `internal/rpc/resolver.go:25` "querying peers over RPC when local state is empty" | The RPC server asks for no client certificate, so `requireNodePeer` refuses every query. |
| `MCRouting_limits` | `OneBackend` | `internal/tunnel/server.go:216`, one candidate after the other | A peer connects its backend and its link is lost before the answer; the edge goes on to the next candidate, which connects another one, until the first peer notices. |
| `MCRouting_limits` | `AlwaysAnswered` | `internal/tunnel/server.go:241`, a stream that finds no way is answered | `OpenStreamSync` is called with the context of `Run`, without a timeout (`internal/mesh/relay.go:95`): with all streams of a connection in use by relays that do not end, the next client waits as long as they last. |
| `MCRelay_first` | `InOrder` | `internal/metrics/relay.go:75` "Relay copies between endpoints" | What the backend sent first may be read into the buffer that read the acknowledgement, which is dropped (`internal/tunnel/client.go:49`). |
| `MCRelay_leak` | `SessionEnds` | `internal/metrics/collector.go:59` "Active client tunnel streams." | `metrics.Relay` does not pass an end of data on, as `protocol.Relay` does (`internal/protocol/connect.go:96`), and the edge does not close what it opened; each handler waits for the other, and a session whose application and backend have closed stays active. |
| `MCRelay_leak` | `HandlerReturns` | `internal/metrics/relay.go:75`, `Relay` waits for both copies | A copy whose write waits for a reader does not see that its other link is closed; the handler returns when the reader does something or its connection is lost. |
| `MCTunClient_collision` | `AsksItsName` | `internal/proxy/resolve.go:25` "maps SOCKS target host to logical service name" | ci.ztm and wk.ztm share an address; the later lookup takes it over, and an application that still has the address asks for the other name. |
| `MCTunClient_defaults` | `AsksService` | `internal/proxy/resolve.go:25` "maps SOCKS target host to logical service name" | Through the device the node is asked for the name with ".ztm". |
| `MCTunClient_defaults` | `Routed` | `internal/client/agent.go:30` "virtual 100.127.0.0/24" | The third byte comes from the hash, so most addresses are outside the /24. |
| `MCTunClient_dns` | `Resolves` | `cmd/ztm-client/main.go` `--tun-dns` "DNS listen address" | The default address belongs to the device, which is set up after the responder. |
| `MCNodeLifecycle_nil` | `NilMeansDrained` | `internal/tunnel/server.go:95` "waits for active streams to finish" | A handler counts itself in its own goroutine, possibly after `Wait` returned. |

## Abstractions

* Cryptography: a signature verifies under the signer's key only; a certificate has
  the CA that signed it; x509, TLS and QUIC do what their documentation says, which
  the model has where the code depends on it (a handshake without client
  certificates, one listener per address, idle timeouts).
* Encodings, sizes and limits of messages, log output and metrics other than the byte
  counters are left out.
* Starts on one data directory follow one another; the tests do the same.
* Steps that nothing can come between, as far as a property sees, are one action:
  `CheckPolicy` of `Routing` is the decision and the list of peers read after it, and
  `QueueStateBroadcast` of `ServiceGossip` marshals and appends.
* `connectMeshPeer` returns when the address of a member cannot be resolved; the
  addresses that nodes publish can, so `Claim` of `MeshLinks` has no such outcome.
* What `JoinCluster` may fail with after `Consume` is one action (`NotIssued`): each has
  the effect of a refusal, with the token used.
* In `Relay` a write is whole or fails, the ends' own sends do not wait, and a write of
  the SOCKS5 handler that waits when the handler returns is given up with it.
* In `NodeLifecycle` a stream is routed or refused at any time, before and after the
  signal; that the signal makes `OpenRelay` fail makes the second likelier, and leaves
  instances of the node itself.
* The race of `Agent.Run`'s assignment of its gossip cluster with handlers that read
  it is not modelled; the handlers treat nil as no members.
* Memberlist's failure detection is not modelled: a member is known from its join on,
  and a stopped one is a node that receives nothing.

## Not modelled

* Generated protocol code and deployment files have no behaviour of their own.
* Status, listing, health and metrics handlers of the admin and RPC servers, and the
  commands of `ztm-node` that make one call and print, change no state.
* The start of memberlist, its failure detection, the size limit of its metadata and
  the encodings are the library's or are pure functions without a property at stake.
* The cache of peer statistics (three seconds per entry): while `requireNodePeer`
  refuses every caller it never has an entry, so `Loads` is empty in `Routing`; the
  order by loads is checked on all loads by `PriorityOrder`.
* The bytes of the SOCKS5 messages and of DNS packets.
* `protocol.Relay`, which `metrics.Relay` uses for a nil collector: a node always has
  one.

The components are composed where one's state is another's input: the registry in
the gossip, the router in the routing, the handlers of a session in one chain.  A
composition of `Routing` with `MeshLinks` was left out: `Routing` lets every link come
up or go down at any step, which is more than `MeshLinks` does.
