------------------------------ MODULE Routing -------------------------------
(***************************************************************************)
(* How a client's stream finds a backend: tunnel.Server.handleStream on    *)
(* the edge node, with the registry, the policy, the resolver, the router, *)
(* OpenRelay, and RelayHandler.HandleStream on the nodes it is sent to.    *)
(* All streams ask for one service.  Registrations, gossip, policies, mesh *)
(* links, backends and clients change while a stream is on its way.        *)
(***************************************************************************)
EXTENDS Router

CONSTANTS
    Node,           \* node ids, as numbers
    Edge,           \* the node the clients are connected to
    Stream,
    MaxStreams,     \* how many relay streams a mesh connection may have
    MaxChanges,     \* how many changes of the surroundings are looked at
    Load            \* the loads that a node may have

ASSUME RoutingAssumption ==
    /\ Node \subseteq Nat /\ IsFiniteSet(Node) /\ Edge \in Node
    /\ MaxStreams \in Nat /\ MaxChanges \in Nat /\ Load \subseteq [errors : Nat, streams : Nat]

Peer == Node \ {Edge}

VARIABLES
    allows,     \* the nodes whose policy allows the client of the streams
    permitted,  \* permitted[t]: those whose policy did at some time since t began
    own,        \* the nodes that have the service in their own registry
    view,       \* the nodes that the edge's registry lists
    linked,     \* the edge's connected mesh peers
    alive,      \* the nodes whose backend accepts connections
    gone,       \* the streams whose client is gone
    pc,         \* pc[t]: where handleStream is
    peers,      \* peers[t]: the connected peers it saw
    todo,       \* todo[t]: the candidates it has not given up
    relay,      \* relay[t][n]: where HandleStream for t is on node n
    broken,     \* the relay streams whose connection is lost, opened or not
    answer,     \* answer[t]: the connect responses the client got
    good,       \* good[t]: candidates that could have served t all the time
    changes

policies == <<allows, permitted>>
around == <<policies, own, view, linked, alive, gone, changes>>
vars == <<around, pc, peers, todo, relay, broken, answer, good>>

\* ConnectResponse: OK with the node that serves, or a reason.
OK(n) == [ok |-> TRUE, node |-> n]
No(reason) == [ok |-> FALSE, reason |-> reason]
Answer == {OK(n) : n \in Node}
              \cup {No(r) : r \in {"ACL_DENIED", "SERVICE_NOT_FOUND", "ROUTE_FAILED"}}
RelayState == {"none", "read", "dial", "refused", "relay", "done"}

\* That the candidates are nodes is part of the order of candidates.
TypeOK ==
    /\ allows \subseteq Node /\ permitted \in [Stream -> SUBSET Node]
    /\ own \subseteq Node /\ view \subseteq Node /\ linked \subseteq Peer /\ alive \subseteq Node
    /\ gone \subseteq Stream
    /\ pc \in [Stream -> {"idle", "policy", "find", "resolve", "try", "open",
                          "wait", "ackLocal", "ackPeer", "relay", "done"}]
    /\ peers \in [Stream -> SUBSET Peer] /\ DOMAIN todo = Stream
    /\ relay \in [Stream -> [Node -> RelayState]] /\ broken \subseteq Stream \X Node
    /\ answer \in [Stream -> {<<>>} \cup {<<a>> : a \in Answer}] /\ good \in [Stream -> SUBSET Node]
    /\ changes \in 0..MaxChanges

Init ==
    /\ allows \in SUBSET Node /\ permitted = [t \in Stream |-> {}]
    /\ own \in SUBSET Node /\ view \in SUBSET Node
    /\ linked \in SUBSET Peer /\ alive \in SUBSET Node /\ gone = {}
    /\ (Edge \in view) <=> (Edge \in own)
    /\ pc = [t \in Stream |-> "idle"] /\ peers = [t \in Stream |-> {}]
    /\ todo = [t \in Stream |-> <<>>]
    /\ relay = [t \in Stream |-> [n \in Node |-> "none"]] /\ broken = {}
    /\ answer = [t \in Stream |-> <<>>] /\ good = [t \in Stream |-> {}]
    /\ changes = 0
-----------------------------------------------------------------------------
(* The surroundings.                                                       *)

Change == changes < MaxChanges /\ changes' = changes + 1

\* A node drops out of what could have served the streams.
NotGood(n) == good' = [t \in Stream |-> good[t] \ {n}]

\* A node registers or deregisters the service; its own registry lists it at once.
Register(n) ==
    /\ Change /\ n \notin own /\ own' = own \cup {n}
    /\ view' = IF n = Edge THEN view \cup {n} ELSE view
    /\ UNCHANGED <<policies, linked, alive, gone, pc, peers, todo, relay, broken, answer, good>>

Deregister(n) ==
    /\ Change /\ n \in own /\ own' = own \ {n}
    /\ view' = IF n = Edge THEN view \ {n} ELSE view
    /\ NotGood(n)
    /\ UNCHANGED <<policies, linked, alive, gone, pc, peers, todo, relay, broken, answer>>

\* Gossip brings the edge's registry up to date about a peer.
Gossip(n) ==
    /\ Change /\ (n \in view) # (n \in own)
    /\ view' = IF n \in own THEN view \cup {n} ELSE view \ {n}
    /\ UNCHANGED <<policies, own, linked, alive, gone, pc, peers, todo, relay, broken, answer, good>>

\* A bundle changes the decision of a node's Policy.  Its caller is PushPolicy, which
\* asks requireNodePeer, below; a Policy itself takes a bundle at any time.
ApplyBundle(n) ==
    /\ Change /\ allows' = IF n \in allows THEN allows \ {n} ELSE allows \cup {n}
    /\ permitted' = [t \in Stream |-> permitted[t] \cup allows']
    /\ IF n \in allows THEN NotGood(n) ELSE UNCHANGED good
    /\ UNCHANGED <<own, view, linked, alive, gone, pc, peers, todo, relay, broken, answer>>

LinkUp(n) ==
    /\ Change /\ n \notin linked /\ linked' = linked \cup {n}
    /\ UNCHANGED <<policies, own, view, alive, gone, pc, peers, todo, relay, broken, answer, good>>

\* The streams that have, or wait for, a relay stream on a connection to n.
OnLink(n) == {t \in Stream : relay[t][n] # "none" \/ (pc[t] = "open" /\ Head(todo[t]) = n)}

\* A mesh connection is lost, and every relay stream on it.
LinkDown(n) ==
    /\ Change /\ n \in linked /\ linked' = linked \ {n}
    /\ broken' = broken \cup {<<t, n>> : t \in OnLink(n)}
    /\ NotGood(n)
    /\ UNCHANGED <<policies, own, view, alive, gone, pc, peers, todo, relay, answer>>

BackendDown(n) ==
    /\ Change /\ n \in alive /\ alive' = alive \ {n} /\ NotGood(n)
    /\ UNCHANGED <<policies, own, view, linked, gone, pc, peers, todo, relay, broken, answer>>

ClientGone(t) ==
    /\ Change /\ pc[t] # "idle" /\ t \notin gone /\ gone' = gone \cup {t}
    /\ UNCHANGED <<policies, own, view, linked, alive, pc, peers, todo, relay, broken, answer, good>>
-----------------------------------------------------------------------------
(* handleStream on the edge.                                               *)

Go(t, where) == pc' = [pc EXCEPT ![t] = where]

\* WriteConnectResponse: a client that is gone gets nothing.
Respond(t, a) == answer' = IF t \in gone THEN answer ELSE [answer EXCEPT ![t] = Append(@, a)]

Connect(t) ==
    /\ pc[t] = "idle" /\ Go(t, "policy")
    /\ permitted' = [permitted EXCEPT ![t] = allows]
    /\ UNCHANGED <<allows, own, view, linked, alive, gone, changes, peers, todo, relay, broken, answer, good>>

\* The policy of the edge, and the peers that are connected.
CheckPolicy(t) ==
    /\ pc[t] = "policy"
    /\ IF Edge \in allows
         THEN /\ Go(t, "find") /\ peers' = [peers EXCEPT ![t] = linked] /\ UNCHANGED answer
         ELSE /\ Go(t, "done") /\ Respond(t, No("ACL_DENIED")) /\ UNCHANGED peers
    /\ UNCHANGED <<around, todo, relay, broken, good>>

\* RPCTLSConfigServer has ClientAuth NoClientCert: the server asks for no
\* certificate, and none is in the state of the connection.
PeerCertificates == {}

\* requireNodePeer, on the node that is asked.
requireNodePeer == PeerCertificates # {}

\* Loads: RelayStats of the nodes that answer.
Loads == [n \in {m \in Peer : requireNodePeer} |-> [errors |-> 0, streams |-> 0]]

\* Those that could serve the stream from now on, if nothing changes.
Able(cands, seen) ==
    {n \in cands : n \in own /\ n \in alive /\ n \in allows /\ (n = Edge \/ n \in linked \cap seen)}

\* The candidates are put in order, or there are none.
Decide(t, services) ==
    LET cands == Candidates(services, Edge, peers[t], Loads)
    IN  IF cands = <<>>
          THEN Go(t, "done") /\ Respond(t, No("SERVICE_NOT_FOUND")) /\ UNCHANGED <<todo, good>>
          ELSE /\ Go(t, "try") /\ todo' = [todo EXCEPT ![t] = cands]
               /\ good' = [good EXCEPT ![t] = Able(services, peers[t])] /\ UNCHANGED answer

\* ServiceResolver.FindByName: the edge's own registry.
FindByName(t) ==
    /\ pc[t] = "find"
    /\ IF view # {} THEN Decide(t, view)
                    ELSE Go(t, "resolve") /\ UNCHANGED <<todo, good, answer>>
    /\ UNCHANGED <<around, peers, relay, broken>>

\* ServiceResolver.FindByName with nothing listed: ResolveService on the members,
\* those that admit the caller, and what they list of their own.
Resolve(t) ==
    /\ pc[t] = "resolve"
    /\ Decide(t, {n \in Peer : requireNodePeer /\ n \in own})
    /\ UNCHANGED <<around, peers, relay, broken>>

Next1(t) == todo' = [todo EXCEPT ![t] = Tail(@)]

\* Slip: a failed dial of the local backend ends the search.
TryLocalOnly(t) ==
    /\ pc[t] = "try" /\ todo[t] # <<>> /\ Head(todo[t]) = Edge
    /\ IF Edge \in alive
         THEN Go(t, "ackLocal") /\ UNCHANGED todo
         ELSE todo' = [todo EXCEPT ![t] = <<>>] /\ UNCHANGED pc
    /\ UNCHANGED <<around, peers, relay, broken, answer, good>>

\* The first candidate is this node: tryRelayLocal dials the backend.
TryLocal(t) ==
    /\ pc[t] = "try" /\ todo[t] # <<>> /\ Head(todo[t]) = Edge
    /\ IF Edge \in alive
         THEN Go(t, "ackLocal") /\ UNCHANGED todo
         ELSE Next1(t) /\ UNCHANGED pc
    /\ UNCHANGED <<around, peers, relay, broken, answer, good>>

\* tryRelayLocal answers; when that fails the backend is closed and the next
\* candidate is tried.
AckLocal(t) ==
    /\ pc[t] = "ackLocal" /\ Respond(t, OK(Edge))
    /\ IF t \in gone THEN Go(t, "try") /\ Next1(t)
                     ELSE Go(t, "relay") /\ UNCHANGED todo
    /\ UNCHANGED <<around, peers, relay, broken, good>>

\* OpenRelay: the peer is not connected any more, or the connection to it is used.
OpenRelay(t) ==
    /\ pc[t] = "try" /\ todo[t] # <<>> /\ Head(todo[t]) # Edge
    /\ IF Head(todo[t]) \in linked
         THEN Go(t, "open") /\ UNCHANGED todo
         ELSE Next1(t) /\ UNCHANGED pc
    /\ UNCHANGED <<around, peers, relay, broken, answer, good>>

\* The relay streams of the connection to n that its peer has not done with.  It has
\* when its handler has returned and has read the stream to its end: not when it
\* refused the request, nor as long as the edge has not closed the stream.
InUse(n) == {t \in Stream : relay[t][n] \notin {"none", "done"} /\ <<t, n>> \notin broken}

\* OpenStreamSync waits until the connection may have one more stream.
OpenStreamSync(t) ==
    LET n == Head(todo[t]) IN
    /\ pc[t] = "open" /\ <<t, n>> \notin broken /\ Cardinality(InUse(n)) < MaxStreams
    /\ Go(t, "wait") /\ relay' = [relay EXCEPT ![t][n] = "read"]
    /\ UNCHANGED <<around, peers, todo, broken, answer, good>>

\* OpenRelay returns with the stream.
RelayOpened(t) ==
    LET n == Head(todo[t]) IN
    /\ pc[t] = "wait" /\ <<t, n>> \notin broken /\ relay[t][n] = "relay"
    /\ Go(t, "ackPeer")
    /\ UNCHANGED <<around, peers, todo, relay, broken, answer, good>>

\* Slip: OpenRelay gives up a slow peer, and leaves the stream to it.
RelayGivenUp(t) ==
    /\ pc[t] = "wait" /\ Go(t, "try") /\ Next1(t)
    /\ UNCHANGED <<around, peers, relay, broken, answer, good>>

\* Slip: a lost connection is not noticed.
RelayRefusedOnly(t) ==
    /\ pc[t] = "wait" /\ relay[t][Head(todo[t])] = "refused"
    /\ Go(t, "try") /\ Next1(t)
    /\ UNCHANGED <<around, peers, relay, broken, answer, good>>

\* OpenRelay fails: refused by the peer, or the connection is lost.
RelayRefused(t) ==
    LET n == Head(todo[t]) IN
    /\ \/ pc[t] \in {"open", "wait"} /\ <<t, n>> \in broken
       \/ pc[t] = "wait" /\ relay[t][n] = "refused"
    /\ Go(t, "try") /\ Next1(t)
    /\ UNCHANGED <<around, peers, relay, broken, answer, good>>

\* Slip: the client is told before the peer has answered.
EarlyAckPeer(t) ==
    /\ pc[t] \in {"wait", "ackPeer"} /\ Respond(t, OK(Head(todo[t])))
    /\ Go(t, IF t \in gone THEN "done" ELSE "relay")
    /\ UNCHANGED <<around, peers, todo, relay, broken, good>>

\* The client is told which node serves it; for a client that is gone, the relay
\* stream is closed.
AckPeer(t) ==
    /\ pc[t] = "ackPeer" /\ Respond(t, OK(Head(todo[t])))
    /\ Go(t, IF t \in gone THEN "done" ELSE "relay")
    /\ UNCHANGED <<around, peers, todo, relay, broken, good>>

RouteFailed(t) ==
    /\ pc[t] = "try" /\ todo[t] = <<>>
    /\ Respond(t, No("ROUTE_FAILED")) /\ Go(t, "done")
    /\ UNCHANGED <<around, peers, todo, relay, broken, good>>
-----------------------------------------------------------------------------
(* HandleStream on a peer.                                                 *)

\* Slip: the peer leaves the decision to the edge.
HandleUnchecked(t, n) ==
    /\ relay[t][n] = "read"
    /\ relay' = [relay EXCEPT ![t][n] = IF n \in own THEN "dial" ELSE "refused"]
    /\ UNCHANGED <<around, pc, peers, todo, broken, answer, good>>

\* The peer's own policy, with the client's identity, and its own registry.
HandleStream(t, n) ==
    /\ relay[t][n] = "read"
    /\ relay' = [relay EXCEPT ![t][n] = IF n \in allows /\ n \in own THEN "dial" ELSE "refused"]
    /\ UNCHANGED <<around, pc, peers, todo, broken, answer, good>>

\* The backend is dialled and the edge is answered, or it cannot be reached.
DialBackend(t, n) ==
    /\ relay[t][n] = "dial"
    /\ relay' = [relay EXCEPT ![t][n] = IF n \in alive THEN "relay" ELSE "refused"]
    /\ UNCHANGED <<around, pc, peers, todo, broken, answer, good>>

\* The connection to the edge is lost: the request cannot be read, or both copies
\* have ended, and the backend is closed.
HandleEnds(t, n) ==
    /\ relay[t][n] \in {"read", "relay"} /\ <<t, n>> \in broken
    /\ relay' = [relay EXCEPT ![t][n] = "done"]
    /\ UNCHANGED <<around, pc, peers, todo, broken, answer, good>>

\* The edge has closed the stream, and the backend its connection.
HandleFinishes(t, n) ==
    /\ relay[t][n] = "relay" /\ pc[t] = "done"
    /\ relay' = [relay EXCEPT ![t][n] = "done"]
    /\ UNCHANGED <<around, pc, peers, todo, broken, answer, good>>
-----------------------------------------------------------------------------
Surroundings ==
    \/ \E n \in Node : Register(n) \/ Deregister(n) \/ BackendDown(n) \/ ApplyBundle(n)
    \/ \E n \in Peer : Gossip(n) \/ LinkUp(n) \/ LinkDown(n)
    \/ \E t \in Stream : ClientGone(t)

Handle(t) ==
    \/ CheckPolicy(t) \/ FindByName(t) \/ Resolve(t) \/ TryLocal(t) \/ AckLocal(t)
    \/ OpenRelay(t) \/ OpenStreamSync(t) \/ RelayOpened(t) \/ RelayRefused(t)
    \/ AckPeer(t) \/ RouteFailed(t)

HandlePeer(t, n) ==
    HandleStream(t, n) \/ DialBackend(t, n) \/ HandleEnds(t, n) \/ HandleFinishes(t, n)

Next ==
    \/ Surroundings
    \/ \E t \in Stream : Connect(t) \/ Handle(t)
    \/ \E t \in Stream, n \in Peer : HandlePeer(t, n)

Spec == Init /\ [][Next]_vars

\* Goroutines go on, a dial ends, and a lost connection is noticed by who waits for an
\* answer on it.  When a relay ends is up to its client and its backend.
Fairness ==
    /\ \A t \in Stream : WF_vars(Handle(t))
    /\ \A t \in Stream, n \in Peer : WF_vars(HandleStream(t, n) \/ DialBackend(t, n))

FairSpec == Spec /\ Fairness
-----------------------------------------------------------------------------
\* Whether a backend is connected for t on node n; a peer keeps it until both copies
\* have ended, also when its connection to the edge is lost.
Serves(t, n) ==
    IF n = Edge THEN pc[t] = "ackLocal" \/ (pc[t] = "relay" /\ answer[t] = <<OK(Edge)>>)
                ELSE relay[t][n] = "relay"

\* handleStream, HandleStream: a backend is connected for a client only where the
\* policy of the edge and that of the backend's node have both allowed it since its
\* stream began; no decision is left to the other node or kept from before.
Admitted == \A t \in Stream, n \in Node : Serves(t, n) => {Edge, n} \subseteq permitted[t]

\* handleStream: the client gets one response at most, and when that names a node,
\* this node has connected its backend, or the connection to it has been lost
\* since.
Truthful ==
    \A t \in Stream :
        /\ Len(answer[t]) <= 1
        /\ \A n \in Node : answer[t] = <<OK(n)>> => Serves(t, n) \/ <<t, n>> \in broken

\* The nodes with a backend for t that the edge is not cut off from.
Reached(t) == {n \in Node : Serves(t, n) /\ <<t, n>> \notin broken}

\* handleStream gives up a candidate before it tries the next: a backend that is
\* connected for a stream besides the one that the edge waits for or has settled on is
\* behind a connection that was lost, and no other than the node that the client was
\* told of is reached.
OneReached ==
    \A t \in Stream :
        /\ \A m, n \in Reached(t) : m = n
        /\ \A n \in Node : answer[t] = <<OK(n)>> => Reached(t) \subseteq {n}

\* handleStream: one backend at most is connected for a stream.
OneBackend == \A t \in Stream, m, n \in Node : Serves(t, m) /\ Serves(t, n) => m = n

\* The loop over candidates, as TestRoutingFailoverToSecondInstance
\* expects of it: a stream is not
\* answered ROUTE_FAILED while a candidate could have served it all the time.
FailsOver ==
    \A t \in Stream : answer[t] = <<No("ROUTE_FAILED")>> => good[t] = {}

\* The maps from nodes to loads: some nodes may not be in them.
KnownLoads == UNION {[known -> Load] : known \in SUBSET Peer}

\* router.go:15: "Candidates returns routable service instances in priority
\* order: local first, then remote instances on connected mesh peers. When loads
\* is non-nil, remotes are ordered by error_rate, active_streams, then node_id."
\* When handleStream is about to sort, whatever the loads are, every routable
\* instance is listed once, and no later one should come first.
PriorityOrder ==
    \A t \in Stream : pc[t] = "find" => \A loads \in KnownLoads :
        LET c == Candidates(view, Edge, peers[t], loads)
            Rank(n) == <<LoadOf(loads, n).errors, LoadOf(loads, n).streams, n>>
            Less(a, b) == \E i \in 1..3 : a[i] < b[i] /\ \A j \in 1..(i - 1) : a[j] = b[j]
        IN  /\ Listed(c) = view \cap (peers[t] \cup {Edge})
            /\ \A i, j \in 1..Len(c) : i < j =>
                  /\ c[i] # c[j] /\ c[j] # Edge
                  /\ c[i] = Edge \/ Less(Rank(c[i]), Rank(c[j]))

\* OpenStreamSync cannot go on: all streams of the connection are in use.
Starved(t) ==
    LET n == Head(todo[t])
    IN  pc[t] = "open" /\ <<t, n>> \notin broken /\ Cardinality(InUse(n)) >= MaxStreams

\* handleStream: whatever happens meanwhile, a request is answered or its client is
\* gone, unless it waits for ever for a stream of a connection that has none left.
Answered ==
    \A t \in Stream : []<>~Starved(t) => (pc[t] = "policy" ~> (answer[t] # <<>> \/ t \in gone))

\* handleStream: a request is answered or its client is gone.
AlwaysAnswered == \A t \in Stream : pc[t] = "policy" ~> (answer[t] # <<>> \/ t \in gone)

\* resolver.go:25: "FindByName returns service instances, querying peers over RPC
\* when local state is empty."  A service on a connected peer is then found.
Resolved ==
    \A t \in Stream :
        (answer[t] = <<No("SERVICE_NOT_FOUND")>> /\ changes = 0) => own \cap peers[t] = {}
-----------------------------------------------------------------------------
(* What the invariants rest on.                                            *)

\* Nothing has happened to a stream that has not begun.
FreshInv ==
    \A t \in Stream : pc[t] = "idle" => answer[t] = <<>> /\ \A n \in Node : relay[t][n] = "none"

\* A node that goes on with a stream has decided on it since it began.
DecidedInv ==
    \A t \in Stream :
        /\ pc[t] # "idle" => allows \subseteq permitted[t]
        /\ pc[t] \notin {"idle", "policy", "done"} => Edge \in permitted[t]
        /\ \A n \in Node : relay[t][n] # "none" => Edge \in permitted[t]
        /\ \A n \in Node : relay[t][n] \in {"dial", "relay"} => n \in permitted[t]

\* A peer that works for a stream is the candidate that its edge waits for or has
\* settled on, or its connection is lost.
WorksInv ==
    \A t \in Stream, n \in Node :
        /\ relay[t][Edge] = "none"
        /\ relay[t][n] \in {"read", "dial", "relay"} /\ <<t, n>> \notin broken =>
              pc[t] \in {"wait", "ackPeer", "relay", "done"} /\ n = Head(todo[t])

\* Who is answered, and what the answer rests on.
AnswerInv ==
    \A t \in Stream :
        /\ answer[t] # <<>> => pc[t] \in {"relay", "done"}
        /\ pc[t] = "ackLocal" => Head(todo[t]) = Edge
        /\ \A n \in Node : answer[t] = <<OK(n)>> => pc[t] = "relay" /\ Head(todo[t]) = n
        /\ pc[t] \in {"open", "wait", "ackPeer"} => Head(todo[t]) \in Peer
        /\ pc[t] = "ackPeer" => LET n == Head(todo[t]) IN relay[t][n] = "relay" \/ <<t, n>> \in broken
        /\ \A n \in Peer : answer[t] = <<OK(n)>> => relay[t][n] = "relay" \/ <<t, n>> \in broken

\* The candidates that could have served t all the time still can, and no node has
\* refused it or lost its connection.
ServableInv ==
    \A t \in Stream :
        /\ good[t] \subseteq own \cap alive \cap allows \cap (linked \cup {Edge})
        /\ \A n \in Node :
              /\ relay[t][n] = "refused" => n \notin good[t]
              /\ <<t, n>> \in broken =>
                    n \notin good[t] /\ pc[t] \notin {"idle", "policy", "find", "resolve"}

\* While the edge searches for a client, they are among the candidates that it has
\* not given up.
SearchInv ==
    \A t \in Stream :
        /\ todo[t] \in Seq(Node)
        /\ pc[t] \in {"policy", "find", "resolve"} => \A n \in Node : relay[t][n] = "none"
        /\ pc[t] \in {"open", "wait", "ackLocal", "ackPeer"} => todo[t] # <<>>
        /\ pc[t] \in {"try", "open", "wait", "ackLocal", "ackPeer"} /\ t \notin gone =>
              good[t] \subseteq Listed(todo[t])

\* OpenRelay, which has no timeout: the edge waits for a stream of a connection that
\* is up, for a peer that is working for the stream or has an answer for it, or for a
\* connection that is lost.
WaitInv ==
    \A t \in Stream : LET n == Head(todo[t]) IN
        /\ pc[t] = "open" => <<t, n>> \in broken \/ n \in linked
        /\ pc[t] = "wait" => <<t, n>> \in broken \/ relay[t][n] \in {"read", "dial", "refused", "relay"}

\* The inductive invariant.
IndInv ==
    /\ TypeOK /\ FreshInv /\ DecidedInv /\ WorksInv /\ AnswerInv
    /\ ServableInv /\ SearchInv /\ WaitInv /\ FailsOver

\* A bound on the steps that handleStream takes from a place in it, with so many
\* candidates not given up: at most four for each.
StepsFrom(where, candidates) ==
    LET most == 4 * Cardinality(Node)
        left == 4 * candidates
    IN  CASE where = "idle" -> most + 6
          [] where = "policy" -> most + 5
          [] where = "find" -> most + 4
          [] where = "resolve" -> most + 3
          [] where = "try" -> left + 2
          [] where \in {"open", "ackLocal"} -> left + 1
          [] where = "wait" -> left
          [] where = "ackPeer" -> left - 1
          [] OTHER -> 0

StepsLeft(t) == StepsFrom(pc[t], Len(todo[t]))

\* handleStream: whatever changes around it, the search comes nearer to its end
\* with every step that it takes, and no other step sets it back.
ComesToAnEnd ==
    [][\A t \in Stream :
          \/ 0 <= StepsLeft(t)' /\ StepsLeft(t)' < StepsLeft(t)
          \/ UNCHANGED <<pc[t], todo[t], answer[t]>>]_vars
=============================================================================
