----------------------------- MODULE MeshLinks ------------------------------
(***************************************************************************)
(* How the nodes of a cluster keep QUIC links to each other: the agent's   *)
(* connectMeshPeer and maintainMeshLinks (internal/agent/agent.go) and the *)
(* transport's Connect, handshake, addPeer and monitorPeer                 *)
(* (internal/mesh/transport.go).                                           *)
(*                                                                         *)
(* The agent's set meshConnected marks the peers that it dials or is       *)
(* linked to; the transport's map peers holds the connection that relays   *)
(* use.  The two are updated under different locks by different            *)
(* goroutines.  A node id is a number, so that < is the order on ids.      *)
(***************************************************************************)
EXTENDS Integers, FiniteSets

CONSTANTS
    Node,       \* node ids
    Host,       \* machines
    AnyHost,    \* the wildcard bind host
    Loopback,   \* the loopback address, which every machine has
    Port,       \* mesh ports
    HostOf,     \* the machine of each node
    Bind,       \* the host in each node's mesh bind address
    Ports,      \* the ports that each node may bind
    ClusterOf,  \* the cluster of each node
    Conn,       \* identities of concurrent QUIC connections
    NoConn, NoEnd, NoAddr,
    MaxFaults   \* bound on the ends of processes and the breaks of connections

ASSUME MeshLinksAssumption ==
    /\ Node \subseteq Nat
    /\ HostOf \in [Node -> Host]
    /\ Bind \in [Node -> Host \cup {AnyHost, Loopback}]
    /\ {AnyHost, Loopback} \cap Host = {} /\ AnyHost # Loopback
    /\ Ports \in [Node -> SUBSET Port]
    /\ MaxFaults \in Nat
    /\ NoConn \notin Conn
    /\ NoEnd \notin Conn \X {"out", "in"}
    /\ NoAddr \notin [host : Host \cup {AnyHost, Loopback}, port : Port]
    /\ NoConn \notin [from : Node, to : Node, ack : {0, 1},
                      stage : [{"out", "in"} -> {"none", "hello", "acked", "watch", "notify"}]]
    /\ Conn \cap {"event", "main"} = {}

\* The goroutines that call connectMeshPeer: memberlist's event callback, and
\* Run's loop over the members, which maintainMeshLinks repeats.
Caller == {"event", "main"}

\* The dialing and the accepting side of a connection.
Side == {"out", "in"}

End == Conn \X Side

Addr == [host : Host \cup {AnyHost, Loopback}, port : Port]

Meta == [peer : Node, addr : Addr]

VARIABLES
    up,             \* the running nodes
    port,           \* the port of each node's mesh listener
    view,           \* the address of each node in each node's member list
    meshConnected,  \* the agents' sets of marked peers
    peers,          \* the transports' maps from peers to connection ends
    task,           \* the state of each call of connectMeshPeer
    todo,           \* the members that the main loop still has to visit
    conn,           \* the state of both ends of each connection
    ended,          \* the ends whose connection context is done
    faults          \* how often a process ended or a connection broke

vars == <<up, port, view, meshConnected, peers, task, todo, conn, ended, faults>>

\* A connection's ends go through the handshake, are watched by monitorPeer and
\* then reported to the agent; ack says whether the hello_ack was written.
Stage == {"none", "hello", "acked", "watch", "notify"}

Connection == [from : Node, to : Node, stage : [Side -> Stage], ack : {0, 1}]

Owner(c, side) == IF side = "out" THEN c.from ELSE c.to

\* The node id that the handshake returns to this side: the other side's.
Peer(c, side) == IF side = "out" THEN c.to ELSE c.from

Task == [pc : {"start", "idle", "claim", "dial", "hello"}, peer : Node, addr : Addr \cup {NoAddr},
         conn : Conn \cup {NoConn}]

Idle(n) == [pc |-> "idle", peer |-> n, addr |-> NoAddr, conn |-> NoConn]

\* The goroutines of a process that has just started.
Starting(n) == [c \in Caller |-> [Idle(n) EXCEPT !.pc = IF c = "main" THEN "start" ELSE "idle"]]

\* The address in a node's metadata: what its listener reports.
MeshAddr(n) == [host |-> Bind[n], port |-> port[n]]

\* A wildcard address is dialed on the loopback of the dialing machine.
ResolveHost(a) == IF a.host = AnyHost THEN [a EXCEPT !.host = Loopback] ELSE a

\* The node whose listener answers when n dials a, if any.
Answers(n, a, m) ==
    /\ m \in up /\ port[m] = a.port
    /\ HostOf[m] = IF a.host = Loopback THEN HostOf[n] ELSE a.host

\* The hosts that a node certificate is valid for.
CertificateHosts == {Loopback}

\* The mutual TLS check of TLSConfig: the certificate names the cluster and
\* another node.
VerifyPeerCertificate(n, m) == m # n /\ ClusterOf[m] = ClusterOf[n]

\* No other running node has this port on this machine.
FreePort(n, x) == \A m \in up \ {n} : HostOf[m] = HostOf[n] => port[m] # x

TypeOK ==
    /\ up \subseteq Node
    /\ port \in [Node -> Port]
    /\ view \in [Node -> [Node -> Addr \cup {NoAddr}]]
    /\ meshConnected \in [Node -> SUBSET Node]
    /\ peers \in [Node -> [Node -> End \cup {NoEnd}]]
    /\ task \in [Node -> [Caller -> Task]]
    /\ todo \in [Node -> SUBSET Meta]
    /\ conn \in [Conn -> Connection \cup {NoConn}]
    /\ ended \subseteq End
    /\ faults \in 0..MaxFaults

Init ==
    /\ up = Node
    /\ port \in [Node -> Port]
    /\ \A n \in Node : port[n] \in Ports[n] /\ FreePort(n, port[n])
    /\ view = [n \in Node |-> [m \in Node |-> NoAddr]]
    /\ meshConnected = [n \in Node |-> {}]
    /\ peers = [n \in Node |-> [m \in Node |-> NoEnd]]
    /\ task = [n \in Node |-> Starting(n)]
    /\ todo = [n \in Node |-> {}]
    /\ conn = [k \in Conn |-> NoConn]
    /\ ended = {}
    /\ faults = 0
-----------------------------------------------------------------------------
(* connectMeshPeer and the two places that call it.                        *)

\* memberlist tells n of m's metadata: NotifyJoin or NotifyUpdate, which wait
\* for connectMeshPeer.  handleMember drops other clusters.
NotifyMember(n, m) ==
    /\ {n, m} \subseteq up /\ m # n
    /\ task[n]["event"].pc = "idle"
    /\ view[n][m] # MeshAddr(m)
    /\ view' = [view EXCEPT ![n][m] = MeshAddr(m)]
    /\ task' = IF ClusterOf[m] # ClusterOf[n] THEN task
               ELSE [task EXCEPT ![n]["event"] =
                   [@ EXCEPT !.pc = "claim", !.peer = m, !.addr = MeshAddr(m)]]
    /\ UNCHANGED <<up, port, meshConnected, peers, todo, conn, ended, faults>>

\* memberlist declares m dead at n, rightly or not; it runs one callback at a time.
NotifyLeave(n, m) ==
    /\ n \in up /\ m # n
    /\ task[n]["event"].pc = "idle"
    /\ view[n][m] # NoAddr
    /\ view' = [view EXCEPT ![n][m] = NoAddr]
    /\ UNCHANGED <<up, port, meshConnected, peers, task, todo, conn, ended, faults>>

Members(n) == {m \in Node : view[n][m] # NoAddr}

Metas(n, members) == {[peer |-> m, addr |-> view[n][m]] : m \in members}

\* Run, once gossip has started: every member.
StartMembers(n) ==
    /\ task[n]["main"].pc = "start"
    /\ todo' = [todo EXCEPT ![n] = Metas(n, Members(n))]
    /\ task' = [task EXCEPT ![n]["main"] = Idle(n)]
    /\ UNCHANGED <<up, port, view, meshConnected, peers, conn, ended, faults>>

\* A tick of maintainMeshLinks: the members that have to be dialed from here
\* and have no connection now.
MaintainTick(n) ==
    /\ n \in up
    /\ task[n]["main"].pc = "idle" /\ todo[n] = {}
    /\ todo' = [todo EXCEPT ![n] =
           Metas(n, {m \in Members(n) : n < m /\ peers[n][m] = NoEnd})]
    /\ UNCHANGED <<up, port, view, meshConnected, peers, task, conn, ended, faults>>

\* The loop calls connectMeshPeer for the next of them.
NextMember(n, r) ==
    /\ task[n]["main"].pc = "idle" /\ r \in todo[n]
    /\ todo' = [todo EXCEPT ![n] = @ \ {r}]
    /\ task' = [task EXCEPT ![n]["main"] =
           [@ EXCEPT !.pc = "claim", !.peer = r.peer, !.addr = r.addr]]
    /\ UNCHANGED <<up, port, view, meshConnected, peers, conn, ended, faults>>

\* Slip: the mark is not looked at.
MayDialMarked(n, p) == n < p

\* The smaller id dials, and only if the peer is not marked.
MayDial(n, p) == n < p /\ p \notin meshConnected[n]

\* connectMeshPeer up to its unlock: the peer is marked, or the call returns.
Claim(n, c) ==
    LET p == task[n][c].peer
    IN  /\ task[n][c].pc = "claim"
        /\ meshConnected' = [meshConnected EXCEPT ![n] = IF MayDial(n, p) THEN @ \cup {p} ELSE @]
        /\ task' = [task EXCEPT ![n][c] =
               IF MayDial(n, p) THEN [@ EXCEPT !.pc = "dial"] ELSE Idle(n)]
        /\ UNCHANGED <<up, port, view, peers, todo, conn, ended, faults>>
-----------------------------------------------------------------------------
(* Connect, handleInbound and the handshake between them.                  *)

\* CloseWithError on an end, or its failure: its context is done.
Ended(k, side) == <<k, side>> \in ended

\* The goroutines of one end are over.  Once both ends are, the connection is
\* forgotten.
Leave(k, side) ==
    LET c == [conn[k] EXCEPT !.stage[side] = "none"]
    IN  IF \A x \in Side : c.stage[x] = "none" THEN NoConn ELSE c

\* The ends in es that belong to a connection which is not forgotten by this step.
Kept(es) == {e \in es : conn'[e[1]] # NoConn}

\* Slip: the old connection is closed without asking whether there is one.
AddPeerClosingNil(n, p, end) ==
    /\ peers' = [peers EXCEPT ![n][p] = end]
    /\ ended' = ended \cup {peers[n][p]}

\* addPeer at n: a connection that is replaced is closed.
AddPeer(n, p, end) ==
    /\ peers' = [peers EXCEPT ![n][p] = end]
    /\ ended' = ended \cup ({peers[n][p]} \ {NoEnd})

\* Slip: the error path keeps the mark.
ConnectFailsMarked(n, c) ==
    /\ task' = [task EXCEPT ![n][c] = Idle(n)]
    /\ UNCHANGED meshConnected

\* connectMeshPeer: Connect returns an error.
ConnectFails(n, c) ==
    /\ meshConnected' = [meshConnected EXCEPT ![n] = @ \ {task[n][c].peer}]
    /\ task' = [task EXCEPT ![n][c] = Idle(n)]

DialFails(n, c) ==
    /\ task[n][c].pc = "dial"
    /\ ConnectFails(n, c)
    /\ UNCHANGED <<up, port, view, peers, todo, conn, ended, faults>>

\* DialAddr reaches whatever node has the address now; TLS must accept it under
\* the dialed host.  The hello is sent.
Dial(n, c) ==
    LET a == ResolveHost(task[n][c].addr)
    IN  /\ task[n][c].pc = "dial"
        /\ \E m \in Node, k \in Conn :
               /\ Answers(n, a, m)
               /\ a.host \in CertificateHosts /\ VerifyPeerCertificate(n, m)
               /\ conn[k] = NoConn
               /\ conn' = [conn EXCEPT ![k] =
                      [from |-> n, to |-> m, stage |-> [x \in Side |-> "hello"], ack |-> 0]]
               /\ task' = [task EXCEPT ![n][c] = [@ EXCEPT !.pc = "hello", !.conn = k]]
        /\ UNCHANGED <<up, port, view, meshConnected, peers, todo, ended, faults>>

\* The handshake's check of the hello's cluster.
SameCluster(c) == ClusterOf[c.from] = ClusterOf[c.to]

\* handleInbound reads the hello: an ack for a node of the same cluster.
HandshakeInbound(k) ==
    /\ conn[k] # NoConn /\ conn[k].stage["in"] = "hello"
    /\ ~Ended(k, "in")
    /\ SameCluster(conn[k])
    /\ conn' = [conn EXCEPT ![k].stage["in"] = "acked", ![k].ack = 1]
    /\ UNCHANGED <<up, port, view, meshConnected, peers, task, todo, ended, faults>>

\* ... or the handshake fails, and the connection is closed.
RefuseInbound(k) ==
    /\ conn[k] # NoConn /\ conn[k].stage["in"] = "hello"
    /\ Ended(k, "in") \/ ~SameCluster(conn[k])
    /\ conn' = [conn EXCEPT ![k] = Leave(k, "in")]
    /\ ended' = Kept(ended \cup {<<k, "in">>})
    /\ UNCHANGED <<up, port, view, meshConnected, peers, task, todo, faults>>

\* handleInbound after the handshake: addPeer, and the monitor starts.
AcceptPeer(k) ==
    /\ conn[k] # NoConn /\ conn[k].stage["in"] = "acked"
    /\ AddPeer(conn[k].to, conn[k].from, <<k, "in">>)
    /\ conn' = [conn EXCEPT ![k].stage["in"] = "watch"]
    /\ UNCHANGED <<up, port, view, meshConnected, task, todo, faults>>

\* Connect reads the ack: addPeer under the id in the ack, and the monitor starts.
ConnectPeer(n, c) ==
    LET k == task[n][c].conn
    IN  /\ task[n][c].pc = "hello"
        /\ conn[k].ack = 1 /\ ~Ended(k, "out")
        /\ AddPeer(n, conn[k].to, <<k, "out">>)
        /\ conn' = [conn EXCEPT ![k].stage["out"] = "watch"]
        /\ task' = [task EXCEPT ![n][c] = Idle(n)]
        /\ UNCHANGED <<up, port, view, meshConnected, todo, faults>>

\* ... or the connection ends first.
HandshakeFails(n, c) ==
    LET k == task[n][c].conn
    IN  /\ task[n][c].pc = "hello"
        /\ Ended(k, "out")
        /\ ConnectFails(n, c)
        /\ conn' = [conn EXCEPT ![k] = Leave(k, "out")]
        /\ ended' = Kept(ended)
        /\ UNCHANGED <<up, port, view, peers, todo, faults>>
-----------------------------------------------------------------------------
(* The end of a connection, and of a process.                              *)

\* The network breaks a connection, or it idles out, at one end.
Break(k, side) ==
    /\ conn[k] # NoConn /\ conn[k].stage[side] # "none"
    /\ ~Ended(k, side)
    /\ faults < MaxFaults
    /\ faults' = faults + 1
    /\ ended' = ended \cup {<<k, side>>}
    /\ UNCHANGED <<up, port, view, meshConnected, peers, task, todo, conn>>

\* One end is told, or finds out by its idle timeout, that the other has ended.
Notice(k, side) ==
    /\ conn[k] # NoConn
    /\ \E x \in Side : Ended(k, x)
    /\ ~Ended(k, side)
    /\ ended' = ended \cup {<<k, side>>}
    /\ UNCHANGED <<up, port, view, meshConnected, peers, task, todo, conn, faults>>

\* Slips: the entry is deleted whichever connection it holds, or never.
CurrentOrReplaced(n, p, end) == peers[n][p] # NoEnd
NeverCurrent(n, p, end) == end = NoEnd

\* The map holds this very connection.
Current(n, p, end) == peers[n][p] = end

\* monitorPeer, under the transport's lock: its entry goes if it is the current.
MonitorDelete(k, side) ==
    LET n == Owner(conn[k], side)
        p == Peer(conn[k], side)
    IN  /\ conn[k] # NoConn /\ conn[k].stage[side] = "watch"
        /\ Ended(k, side)
        /\ peers' = [peers EXCEPT ![n][p] = IF Current(n, p, <<k, side>>) THEN NoEnd ELSE @]
        /\ conn' = [conn EXCEPT ![k].stage[side] = "notify"]
        /\ UNCHANGED <<up, port, view, meshConnected, task, todo, ended, faults>>

\* monitorPeer, after the unlock: onMeshPeerDisconnected unmarks the peer.
MonitorNotify(k, side) ==
    LET n == Owner(conn[k], side)
    IN  /\ conn[k] # NoConn /\ conn[k].stage[side] = "notify"
        /\ meshConnected' = [meshConnected EXCEPT ![n] = @ \ {Peer(conn[k], side)}]
        /\ conn' = [conn EXCEPT ![k] = Leave(k, side)]
        /\ ended' = Kept(ended)
        /\ UNCHANGED <<up, port, view, peers, task, todo, faults>>

\* The process of n ends, after mesh.Close or without it.
Stop(n) ==
    LET mine(k) == {x \in Side : conn[k] # NoConn /\ Owner(conn[k], x) = n}
        left(k) == [conn[k] EXCEPT !.stage =
                       [x \in Side |-> IF x \in mine(k) THEN "none" ELSE @[x]]]
    IN  /\ n \in up
        /\ faults < MaxFaults
        /\ faults' = faults + 1
        /\ up' = up \ {n}
        /\ view' = [view EXCEPT ![n] = [m \in Node |-> NoAddr]]
        /\ meshConnected' = [meshConnected EXCEPT ![n] = {}]
        /\ peers' = [peers EXCEPT ![n] = [m \in Node |-> NoEnd]]
        /\ task' = [task EXCEPT ![n] = [c \in Caller |-> Idle(n)]]
        /\ todo' = [todo EXCEPT ![n] = {}]
        /\ conn' = [k \in Conn |->
               IF mine(k) = {} THEN conn[k]
               ELSE IF \A x \in Side : left(k).stage[x] = "none" THEN NoConn ELSE left(k)]
        /\ ended' = Kept(ended \cup {e \in End : e[2] \in mine(e[1])})
        /\ UNCHANGED port

\* The process starts again and listens on some free port.
Start(n) ==
    /\ n \notin up
    /\ up' = up \cup {n}
    /\ \E x \in Ports[n] : FreePort(n, x) /\ port' = [port EXCEPT ![n] = x]
    /\ task' = [task EXCEPT ![n] = Starting(n)]
    /\ UNCHANGED <<view, meshConnected, peers, todo, conn, ended, faults>>

Next ==
    \/ \E n \in Node :
           \/ \E m \in Node : NotifyMember(n, m) \/ NotifyLeave(n, m)
           \/ StartMembers(n) \/ MaintainTick(n) \/ Stop(n) \/ Start(n)
           \/ \E r \in todo[n] : NextMember(n, r)
           \/ \E c \in Caller :
                  \/ Claim(n, c) \/ DialFails(n, c) \/ Dial(n, c)
                  \/ ConnectPeer(n, c) \/ HandshakeFails(n, c)
    \/ \E k \in Conn :
           \/ HandshakeInbound(k) \/ RefuseInbound(k) \/ AcceptPeer(k)
           \/ \E side \in Side :
                  \/ Break(k, side) \/ Notice(k, side)
                  \/ MonitorDelete(k, side) \/ MonitorNotify(k, side)

Spec == Init /\ [][Next]_vars

\* What the Go runtime, memberlist and the network give: goroutines that can
\* move do, tickers tick, members become known, an ended connection is noticed,
\* a dial ends, and one that is tried again and again gets through.
Fairness ==
    /\ \A n, m \in Node : WF_vars(NotifyMember(n, m))
    /\ \A n \in Node :
           /\ WF_vars(StartMembers(n)) /\ WF_vars(MaintainTick(n))
           /\ WF_vars(\E r \in todo[n] : NextMember(n, r))
           /\ \A c \in Caller :
                  /\ WF_vars(Claim(n, c))
                  /\ WF_vars(DialFails(n, c) \/ Dial(n, c)) /\ SF_vars(Dial(n, c))
                  /\ WF_vars(ConnectPeer(n, c)) /\ WF_vars(HandshakeFails(n, c))
    /\ \A k \in Conn :
           /\ WF_vars(HandshakeInbound(k) \/ RefuseInbound(k)) /\ WF_vars(AcceptPeer(k))
           /\ \A side \in Side :
                  /\ WF_vars(Notice(k, side))
                  /\ WF_vars(MonitorDelete(k, side)) /\ WF_vars(MonitorNotify(k, side))

FairSpec == Spec /\ Fairness
-----------------------------------------------------------------------------
(* Properties.                                                             *)

\* The calls of connectMeshPeer at n that hold the mark of p.
Dialing(n, p) ==
    {c \in Caller : task[n][c].pc \in {"dial", "hello"} /\ task[n][c].peer = p}

\* The connections dialed by n to p whose monitor has not reported yet.
Linked(n, p) ==
    {k \in Conn : /\ conn[k] # NoConn
                  /\ conn[k].from = n /\ conn[k].to = p
                  /\ conn[k].stage["out"] \in {"watch", "notify"}}

\* A marked peer is being dialed, or linked by a connection that is monitored:
\* some goroutine will take the mark away when the link is lost.
NoStuckMark ==
    \A n, p \in Node : p \in meshConnected[n] => Dialing(n, p) \cup Linked(n, p) # {}

\* Whichever of the event callback, the main loop and the monitors interleave,
\* a node never has two dials or connections of its own to one peer.
NoDuplicateDials ==
    \A n, p \in Node : \A x, y \in Dialing(n, p) \cup Linked(n, p) : x = y

\* A connection in the transport's map is the one that the handshake made with
\* that peer, and its monitor is still there to take it out.
PeersWatched ==
    \A n, p \in Node : \A k \in Conn, side \in Side :
        peers[n][p] = <<k, side>> =>
            /\ conn[k] # NoConn /\ conn[k].stage[side] = "watch"
            /\ Owner(conn[k], side) = n /\ Peer(conn[k], side) = p

\* Two nodes of a cluster that both stay up end up linked in both directions,
\* and the link stays, after any restarts and broken connections.
EventuallyLinked ==
    \A n, p \in Node :
        (n < p /\ ClusterOf[n] = ClusterOf[p]) =>
            (<>[]({n, p} \subseteq up) =>
                <>[](peers[n][p] # NoEnd /\ peers[p][n] # NoEnd))
-----------------------------------------------------------------------------
(* The invariant the proofs are by, where no two nodes share a port.        *)

\* Every address that is known of a node was its own at some time, so that no
\* other node answers there.
PortsDisjoint == \A n, m \in Node : n # m => Ports[n] \cap Ports[m] = {}

AddrInv ==
    \A n \in Node :
        /\ port[n] \in Ports[n]
        /\ \A m \in Node : view[n][m] # NoAddr => view[n][m].port \in Ports[m]
        /\ \A r \in todo[n] : r.addr # NoAddr /\ r.addr.port \in Ports[r.peer]
        /\ \A c \in Caller : task[n][c].pc \in {"claim", "dial"} =>
               task[n][c].addr # NoAddr /\ task[n][c].addr.port \in Ports[task[n][c].peer]

\* A call that waits for the ack has a connection to the peer it marked, and only
\* the smaller id of two has dialed.
ConnInv ==
    /\ \A n \in Node, c \in Caller : task[n][c].pc = "hello" =>
           LET k == task[n][c].conn
           IN  /\ k \in Conn /\ conn[k] # NoConn
               /\ conn[k].from = n /\ conn[k].to = task[n][c].peer
               /\ conn[k].stage["out"] = "hello"
    /\ \A k \in Conn : conn[k] # NoConn => conn[k].from < conn[k].to

\* The mark is there exactly as long as somebody is there to take it away.
MarkInv ==
    \A n, p \in Node :
        /\ Dialing(n, p) \cup Linked(n, p) # {} <=> p \in meshConnected[n]
        /\ p \in meshConnected[n] => n < p

LinkInv == TypeOK /\ AddrInv /\ ConnInv /\ MarkInv /\ NoDuplicateDials /\ PeersWatched

\* Nothing is under way at a node that is down.
DownInv ==
    \A n \in Node \ up : todo[n] = {} /\ \A c \in Caller : task[n][c].pc = "idle"

\* The inductive invariant.
IndInv == LinkInv /\ DownInv
=============================================================================
