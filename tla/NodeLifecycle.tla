---------------------------- MODULE NodeLifecycle ----------------------------
(***************************************************************************)
(* One run of a node (Agent.Run): its servers are started in an order, any *)
(* start may fail, and after a signal leaveCluster stops them in another   *)
(* order under one deadline, while client streams and calls are served.    *)
(***************************************************************************)
EXTENDS Naturals, FiniteSets, Sequences

CONSTANTS
    Conn,       \* client connections
    Stream,     \* client streams
    ConnOf,     \* the connection of a stream
    Call,       \* calls of the admin API and of the RPC server
    AdminCall   \* those of the admin API

ASSUME NodeLifecycleAssumption ==
    /\ ConnOf \in [Stream -> Conn] /\ AdminCall \subseteq Call
    /\ IsFiniteSet(Stream)

VARIABLES
    step,       \* where Run is
    up,         \* the servers that take new work
    cancelled,  \* the context of Run is cancelled
    late,       \* shutdownCtx has expired
    loop,       \* connections whose handleConn loop runs
    stream,     \* per stream: "none", "sent", "spawned", "routing", "relay"; and how it
                \* ended: "refused", "done", "cut"
    active,     \* the count of Server.active
    waited,     \* the goroutine of tunnel Shutdown has closed its channel
    drained,    \* tunnel Shutdown has returned nil
    before,     \* ghost: streams whose handlers began before tunnel Shutdown was called
    call        \* per call: "none", "running", "answered", "cut"

vars == <<step, up, cancelled, late, loop, stream, active, waited, drained, before, call>>
runVars == <<step, up, cancelled, late, waited, drained>>
streamVars == <<loop, stream, active, before>>

Starts == <<"mesh", "rpc", "tunnel", "gossip", "admin">>
Server == {Starts[i] : i \in DOMAIN Starts}
Stops == {"admin", "admin wait", "tunnel", "tunnel wait", "rpc", "rpc wait", "gossip", "mesh"}

\* Where leaveCluster is, from each of its steps on.
FromMesh == {"mesh"}
FromGossip == FromMesh \cup {"gossip"}
FromRpcWait == FromGossip \cup {"rpc wait"}
FromRpc == FromRpcWait \cup {"rpc"}
FromTunnelWait == FromRpc \cup {"tunnel wait"}
FromTunnel == FromTunnelWait \cup {"tunnel"}
FromAdminWait == FromTunnel \cup {"admin wait"}
Over == {"done", "failed"}

ServerOf(c) == IF c \in AdminCall THEN "admin" ELSE "rpc"
Running(server) == {c \in Call : ServerOf(c) = server /\ call[c] = "running"}

\* The streams with a handler that has counted itself.
Handled == {"routing", "relay"}

\* The process has ended: whatever was under way is cut.
Exit(end) ==
    /\ step' = end /\ up' = {} /\ loop' = {}
    /\ stream' = [s \in Stream |->
          IF stream[s] \in {"sent", "spawned"} \cup Handled THEN "cut" ELSE stream[s]]
    /\ call' = [c \in Call |-> IF call[c] = "running" THEN "cut" ELSE call[c]]
-----------------------------------------------------------------------------
Init ==
    /\ step = "start 1" /\ up = {} /\ cancelled = FALSE /\ late = FALSE
    /\ loop = {} /\ stream = [s \in Stream |-> "none"] /\ active = 0
    /\ waited = FALSE /\ drained = FALSE /\ before = {}
    /\ call = [c \in Call |-> "none"]

StartStep == <<"start 1", "start 2", "start 3", "start 4", "start 5">>

\* Run: the next server listens, or Run returns an error and the process ends.
Start ==
    \E i \in DOMAIN Starts :
        /\ step = StartStep[i]
        /\ \/ /\ up' = up \cup {Starts[i]}
              /\ step' = IF i = Len(Starts) THEN "run" ELSE StartStep[i + 1]
              /\ UNCHANGED <<loop, stream, call>>
           \/ Exit("failed")
    /\ UNCHANGED <<cancelled, late, active, waited, drained, before>>

\* The signal, at any time; Run looks at it when everything is started.
Signal ==
    /\ step \notin Over /\ ~cancelled /\ cancelled' = TRUE
    /\ UNCHANGED <<step, up, late, waited, drained, streamVars, call>>

\* The deadline is set, local services are deregistered, and Run sleeps.
Leave ==
    /\ step = "run" /\ cancelled /\ step' = "admin"
    /\ UNCHANGED <<up, cancelled, late, waited, drained, streamVars, call>>

\* shutdownCtx expires.
Expire ==
    /\ step \in Stops /\ ~late /\ late' = TRUE
    /\ UNCHANGED <<step, up, cancelled, waited, drained, streamVars, call>>

\* http.Server.Shutdown: no new requests; it returns when none is left, or late.
AdminClose ==
    /\ step = "admin" /\ step' = "admin wait" /\ up' = up \ {"admin"}
    /\ UNCHANGED <<cancelled, late, waited, drained, streamVars, call>>

AdminReturn ==
    /\ step = "admin wait" /\ (Running("admin") = {} \/ late) /\ step' = "tunnel"
    /\ UNCHANGED <<up, cancelled, late, waited, drained, streamVars, call>>

\* tunnel.Server.Shutdown: the listener is closed and a goroutine waits.
TunnelClose ==
    /\ step = "tunnel" /\ step' = "tunnel wait" /\ up' = up \ {"tunnel"}
    /\ UNCHANGED <<cancelled, late, waited, drained, streamVars, call>>

\* The goroutine: active.Wait returns.  It may still do so after Shutdown did.
WaitReturns ==
    /\ step \in {"tunnel wait", "rpc", "rpc wait", "gossip", "mesh"}
    /\ ~waited /\ active = 0 /\ waited' = TRUE
    /\ UNCHANGED <<step, up, cancelled, late, drained, streamVars, call>>

\* Slips: Shutdown does not wait, or has no deadline.
TunnelReturnAtOnce ==
    /\ step = "tunnel wait" /\ step' = "rpc" /\ drained' = waited
    /\ UNCHANGED <<up, cancelled, late, waited, streamVars, call>>

TunnelReturnWaited ==
    /\ step = "tunnel wait" /\ step' = "rpc"
    /\ waited /\ drained' = TRUE
    /\ UNCHANGED <<up, cancelled, late, waited, streamVars, call>>

\* Shutdown returns, nil when all counted streams have ended.
TunnelReturn ==
    /\ step = "tunnel wait" /\ step' = "rpc"
    /\ (waited /\ drained' = TRUE) \/ (late /\ drained' = FALSE)
    /\ UNCHANGED <<up, cancelled, late, waited, streamVars, call>>

\* rpc.Server.Shutdown: GracefulStop takes no new calls and waits.
RpcClose ==
    /\ step = "rpc" /\ step' = "rpc wait" /\ up' = up \ {"rpc"}
    /\ UNCHANGED <<cancelled, late, waited, drained, streamVars, call>>

\* Slip: Stop is called at once.
RpcStops ==
    /\ step = "rpc wait" /\ step' = "gossip"
    /\ call' = [c \in Call |-> IF c \in Running("rpc") THEN "cut" ELSE call[c]]
    /\ UNCHANGED <<up, cancelled, late, waited, drained, streamVars>>

\* It returns when no call is left; at the deadline Stop cuts those that are.
RpcReturn ==
    /\ step = "rpc wait" /\ step' = "gossip"
    /\ \/ Running("rpc") = {} /\ call' = call
       \/ late /\ call' = [c \in Call |-> IF c \in Running("rpc") THEN "cut" ELSE call[c]]
    /\ UNCHANGED <<up, cancelled, late, waited, drained, streamVars>>

GossipStop ==
    /\ step = "gossip" /\ step' = "mesh" /\ up' = up \ {"gossip"}
    /\ UNCHANGED <<cancelled, late, waited, drained, streamVars, call>>

\* mesh.Close, after which Run returns and the process ends.
MeshClose ==
    /\ step = "mesh" /\ Exit("done")
    /\ UNCHANGED <<cancelled, late, active, waited, drained, before>>
-----------------------------------------------------------------------------
\* acceptLoop: a client has connected; the loop ends with the listener or the
\* context.
AcceptConn(c) ==
    /\ "tunnel" \in up /\ c \notin loop
    /\ \A s \in Stream : ConnOf[s] = c => stream[s] = "none"
    /\ loop' = loop \cup {c}
    /\ UNCHANGED <<runVars, stream, active, before, call>>

\* handleConn: AcceptStream fails once the context is cancelled; it may first
\* return streams that have arrived.
LoopEnds(c) ==
    /\ c \in loop /\ cancelled /\ loop' = loop \ {c}
    /\ UNCHANGED <<runVars, stream, active, before, call>>

\* A client opens a stream on a connection that was accepted.
OpenStream(s) ==
    /\ stream[s] = "none" /\ ConnOf[s] \in loop
    /\ stream' = [stream EXCEPT ![s] = "sent"]
    /\ UNCHANGED <<runVars, loop, active, before, call>>

\* handleConn: the stream's handler is started in a goroutine.
AcceptStream(s) ==
    /\ stream[s] = "sent" /\ ConnOf[s] \in loop
    /\ stream' = [stream EXCEPT ![s] = "spawned"]
    /\ UNCHANGED <<runVars, loop, active, before, call>>

\* handleStream: the goroutine runs, and counts itself.
Begin(s) ==
    /\ stream[s] = "spawned" /\ stream' = [stream EXCEPT ![s] = "routing"]
    /\ active' = active + 1
    /\ before' = IF step \in FromTunnelWait \cup Over THEN before ELSE before \cup {s}
    /\ UNCHANGED <<runVars, loop, call>>

\* A candidate is connected, and the client told.  The signal, whose context OpenRelay
\* has, leaves instances of this node and streams that OpenRelay has opened before.
Routed(s) ==
    /\ stream[s] = "routing" /\ stream' = [stream EXCEPT ![s] = "relay"]
    /\ UNCHANGED <<runVars, loop, active, before, call>>

\* The stream is denied, or there is no candidate left: after the signal, no other
\* node is asked any more.
Refused(s) ==
    /\ stream[s] = "routing" /\ stream' = [stream EXCEPT ![s] = "refused"]
    /\ active' = active - 1
    /\ UNCHANGED <<runVars, loop, before, call>>

\* Slip: a handler that is done twice.
EndTwice(s) ==
    /\ stream[s] = "relay" /\ stream' = [stream EXCEPT ![s] = "done"]
    /\ active' = IF active > 1 THEN active - 2 ELSE 0
    /\ UNCHANGED <<runVars, loop, before, call>>

\* The relay of the stream ends.
End(s) ==
    /\ stream[s] = "relay" /\ stream' = [stream EXCEPT ![s] = "done"]
    /\ active' = active - 1
    /\ UNCHANGED <<runVars, loop, before, call>>

CallBegins(c) ==
    /\ call[c] = "none" /\ ServerOf(c) \in up /\ call' = [call EXCEPT ![c] = "running"]
    /\ UNCHANGED <<runVars, streamVars>>

CallEnds(c) ==
    /\ call[c] = "running" /\ call' = [call EXCEPT ![c] = "answered"]
    /\ UNCHANGED <<runVars, streamVars>>

Shutdown ==
    \/ Leave \/ AdminClose \/ AdminReturn \/ TunnelClose \/ WaitReturns \/ TunnelReturn
    \/ RpcClose \/ RpcReturn \/ GossipStop \/ MeshClose

Next ==
    \/ Start \/ Signal \/ Expire \/ Shutdown
    \/ \E c \in Conn : AcceptConn(c) \/ LoopEnds(c)
    \/ \E s \in Stream : \/ OpenStream(s) \/ AcceptStream(s) \/ Begin(s)
                         \/ Routed(s) \/ Refused(s) \/ End(s)
    \/ \E c \in Call : CallBegins(c) \/ CallEnds(c)

Spec == Init /\ [][Next]_vars

\* Run's own steps are taken and the deadline comes.  Nothing is assumed of
\* clients: a stream or a call may last for ever.
FairSpec == Spec /\ WF_vars(Start) /\ WF_vars(Shutdown) /\ WF_vars(Expire)
-----------------------------------------------------------------------------
\* Types; and Server.active is the number of handlers that have counted
\* themselves and not ended, as long as the process is there.
TypeOK ==
    /\ step \in {StartStep[i] : i \in DOMAIN StartStep} \cup Stops \cup Over \cup {"run"}
    /\ up \subseteq Server /\ loop \subseteq Conn /\ before \subseteq Stream
    /\ cancelled \in BOOLEAN /\ late \in BOOLEAN /\ waited \in BOOLEAN /\ drained \in BOOLEAN
    /\ stream \in [Stream -> {"none", "sent", "spawned", "routing", "relay", "refused",
                              "done", "cut"}]
    /\ call \in [Call -> {"none", "running", "answered", "cut"}]
    /\ step \notin Over =>
          active = Cardinality({s \in Stream : stream[s] \in Handled})

\* "Shutdown stops accepting and waits for active streams to finish": a stream that a
\* node which came up began to handle, at any time before the tunnel was shut down, is
\* cut only by the deadline; in particular not by the end of the mesh, which may carry it.
DrainsActive == ~late /\ step # "failed" => \A s \in before : stream[s] # "cut"

\* A call that the node took is answered, unless the deadline passes or the node
\* fails to start.
CallsFinish == (\E c \in Call : call[c] = "cut") => late \/ step = "failed"

\* The deadline of leaveCluster is one for all servers: a node that got the
\* signal ends, whatever its clients do.
NodeStops == cancelled ~> step \in Over

\* Shutdown returns nil only when no stream is being handled.
NilMeansDrained ==
    step = "rpc" /\ drained => \A s \in Stream : stream[s] \notin {"spawned"} \cup Handled
-----------------------------------------------------------------------------
(* The invariant the proofs are by.                                        *)

\* The streams that tunnel Shutdown found have ended once its goroutine has seen
\* the count at zero, which it must have before the deadline to go on.
StreamInv ==
    /\ step \notin FromTunnelWait \cup Over => ~waited
    /\ \A s \in before : stream[s] \in Handled \cup {"refused", "done", "cut"}
    /\ step \notin Over => \A s \in Stream : stream[s] # "cut"
    /\ waited => \A s \in before : stream[s] \notin Handled
    /\ step \in FromRpc /\ ~late => waited

\* A server that was told to stop takes no call, and, before the deadline, has
\* none left when the next one is told.
CallInv ==
    /\ step \in FromAdminWait => "admin" \notin up
    /\ step \in FromRpcWait => "rpc" \notin up
    /\ step \in FromTunnel /\ ~late => Running("admin") = {}
    /\ step \in FromGossip /\ ~late => Running("rpc") = {}

\* The inductive invariant.
IndInv == TypeOK /\ StreamInv /\ CallInv /\ DrainsActive /\ CallsFinish
=============================================================================
