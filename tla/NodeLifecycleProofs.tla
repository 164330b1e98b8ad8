------------------------- MODULE NodeLifecycleProofs -------------------------
(***************************************************************************)
(* Proofs about the shutdown of a node, for any set of connections and of  *)
(* calls and any finite set of streams: a stream whose handler began       *)
(* before the tunnel was shut down, and a call that a server took, are cut *)
(* by the deadline only.                                                   *)
(***************************************************************************)
EXTENDS NodeLifecycle, FiniteSetTheorems, TLAPS

\* The provers that a step tries, in this order, and the seconds each may take.
USE ZenonT(5), SMTT(30), SMTT(40), SMTT(50), ZenonT(60)

StepNames == {"start 1", "start 2", "start 3", "start 4", "start 5", "run", "done", "failed"}
                \cup Stops
StreamStates == {"none", "sent", "spawned", "routing", "relay", "refused", "done", "cut"}
CallStates == {"none", "running", "answered", "cut"}

\* The streams that Server.active counts, of a map of streams.
ActiveIn(str) == {s \in Stream : str[s] \in Handled}

\* The names of the steps, spelled out.
LEMMA StepNamesAre ==
    /\ {StartStep[i] : i \in DOMAIN StartStep} \cup Stops \cup Over \cup {"run"} = StepNames
    /\ DOMAIN Starts = 1 .. 5 /\ DOMAIN StartStep = 1 .. 5 /\ Len(Starts) = 5
    /\ Server = {"mesh", "rpc", "tunnel", "gossip", "admin"}
<1>1. DOMAIN Starts = 1 .. 5 /\ DOMAIN StartStep = 1 .. 5 /\ Len(Starts) = 5
  BY DEF Starts, StartStep
<1>2. 1 .. 5 = {1, 2, 3, 4, 5}
  OBVIOUS
<1>3. /\ StartStep[1] = "start 1" /\ StartStep[2] = "start 2" /\ StartStep[3] = "start 3"
      /\ StartStep[4] = "start 4" /\ StartStep[5] = "start 5"
  BY DEF StartStep
<1>4. /\ Starts[1] = "mesh" /\ Starts[2] = "rpc" /\ Starts[3] = "tunnel"
      /\ Starts[4] = "gossip" /\ Starts[5] = "admin"
  BY DEF Starts
<1>5. {StartStep[i] : i \in DOMAIN StartStep} = {"start 1", "start 2", "start 3", "start 4", "start 5"}
  BY <1>1, <1>2, <1>3
<1>6. Server = {"mesh", "rpc", "tunnel", "gossip", "admin"}
  BY <1>1, <1>2, <1>4 DEF Server
<1> QED
  BY <1>1, <1>5, <1>6 DEF StepNames, Over

\* TypeOK, with the names of the steps spelled out.
Types ==
    /\ step \in StepNames
    /\ up \subseteq Server /\ loop \subseteq Conn /\ before \subseteq Stream
    /\ cancelled \in BOOLEAN /\ late \in BOOLEAN /\ waited \in BOOLEAN /\ drained \in BOOLEAN
    /\ stream \in [Stream -> StreamStates] /\ call \in [Call -> CallStates]
    /\ step \notin Over => active = Cardinality(ActiveIn(stream))

LEMMA TypeIs == (TypeOK <=> Types) /\ (TypeOK' <=> Types')
<1>1. TypeOK <=> Types
  BY StepNamesAre DEF TypeOK, Types, ActiveIn, Over, StreamStates, CallStates
<1>2. TypeOK' <=> Types'
  BY StepNamesAre DEF TypeOK, Types, ActiveIn, Over, StreamStates, CallStates
<1> QED
  BY <1>1, <1>2

\* The count is a natural number, and zero only when no stream is handled.
LEMMA CountOf ==
    ASSUME NEW str
    PROVE  /\ IsFiniteSet(ActiveIn(str)) /\ Cardinality(ActiveIn(str)) \in Nat
           /\ Cardinality(ActiveIn(str)) = 0 => \A s \in Stream : str[s] \notin Handled
<1>1. ActiveIn(str) \subseteq Stream
  BY DEF ActiveIn
<1>2. IsFiniteSet(ActiveIn(str))
  BY <1>1, NodeLifecycleAssumption, FS_Subset
<1>3. Cardinality(ActiveIn(str)) = 0 => ActiveIn(str) = {}
  BY <1>2, FS_EmptySet
<1>4. Cardinality(ActiveIn(str)) \in Nat
  BY <1>2, FS_CardinalityType
<1> QED
  BY <1>2, <1>3, <1>4 DEF ActiveIn

\* handleStream counts the handler that begins and the one that ends: what the
\* counter shows stays the number of handlers.
LEMMA CountStep ==
    ASSUME NEW str \in [Stream -> StreamStates], NEW s \in Stream
    PROVE  /\ str[s] \notin Handled => \A new \in Handled :
                 Cardinality(ActiveIn([str EXCEPT ![s] = new])) = Cardinality(ActiveIn(str)) + 1
           /\ str[s] \in Handled => \A new \in StreamStates \ Handled :
                 Cardinality(ActiveIn([str EXCEPT ![s] = new])) = Cardinality(ActiveIn(str)) - 1
<1>1. IsFiniteSet(ActiveIn(str))
  BY CountOf
<1>2. ASSUME str[s] \notin Handled, NEW new \in Handled
      PROVE  Cardinality(ActiveIn([str EXCEPT ![s] = new])) = Cardinality(ActiveIn(str)) + 1
  <2>1. ActiveIn([str EXCEPT ![s] = new]) = ActiveIn(str) \cup {s} /\ s \notin ActiveIn(str)
    BY <1>2 DEF ActiveIn
  <2> QED
    BY <1>1, <2>1, FS_AddElement
<1>3. ASSUME str[s] \in Handled, NEW new \in StreamStates \ Handled
      PROVE  Cardinality(ActiveIn([str EXCEPT ![s] = new])) = Cardinality(ActiveIn(str)) - 1
  <2>1. ActiveIn([str EXCEPT ![s] = new]) = ActiveIn(str) \ {s} /\ s \in ActiveIn(str)
    BY <1>3 DEF ActiveIn
  <2> QED
    BY <1>1, <2>1, FS_RemoveElement
<1> QED
  BY <1>2, <1>3

\* Every set of steps by its members.
LEMMA StepSets ==
    /\ Stops = {"admin", "admin wait", "tunnel", "tunnel wait", "rpc", "rpc wait", "gossip", "mesh"}
    /\ FromGossip = {"gossip", "mesh"} /\ FromRpcWait = {"rpc wait", "gossip", "mesh"}
    /\ FromRpc = {"rpc", "rpc wait", "gossip", "mesh"}
    /\ FromTunnelWait = {"tunnel wait", "rpc", "rpc wait", "gossip", "mesh"}
    /\ FromTunnel = {"tunnel", "tunnel wait", "rpc", "rpc wait", "gossip", "mesh"}
    /\ FromAdminWait = {"admin wait", "tunnel", "tunnel wait", "rpc", "rpc wait", "gossip", "mesh"}
    /\ Over = {"done", "failed"}
BY DEF Stops, FromMesh, FromGossip, FromRpcWait, FromRpc, FromTunnelWait, FromTunnel,
       FromAdminWait, Over
-----------------------------------------------------------------------------
(* The invariant.                                                          *)

LEMMA InitInv == Init => IndInv
<1> SUFFICES ASSUME Init PROVE IndInv
  OBVIOUS
<1>1. ActiveIn(stream) = {}
  BY DEF Init, ActiveIn, Handled
<1>2. TypeOK
  BY <1>1, FS_EmptySet, TypeIs DEF Types, Init, StepNames, StreamStates, CallStates
<1>3. StreamInv /\ CallInv
  BY StepSets DEF Init, StreamInv, CallInv
<1>4. DrainsActive /\ CallsFinish
  BY DEF Init, DrainsActive, CallsFinish
<1> QED
  BY <1>2, <1>3, <1>4 DEF IndInv

\* A step of Run that leaves streams, calls and what Shutdown found alone, and
\* takes it no further than a step from which nothing is claimed.
LEMMA StartKeeps ==
    ASSUME IndInv, Start
    PROVE  IndInv'
<1>1. PICK i \in 1 .. 5 :
        /\ step = StartStep[i]
        /\ \/ /\ up' = up \cup {Starts[i]}
              /\ step' = IF i = 5 THEN "run" ELSE StartStep[i + 1]
              /\ UNCHANGED <<loop, stream, call>>
           \/ Exit("failed")
  BY StepNamesAre DEF Start
<1>2. /\ StartStep[i] \in {"start 1", "start 2", "start 3", "start 4", "start 5"}
      /\ Starts[i] \in Server
      /\ i # 5 => StartStep[i + 1] \in {"start 1", "start 2", "start 3", "start 4", "start 5"}
  <2>1. \/ i = 1 /\ i + 1 = 2
        \/ i = 2 /\ i + 1 = 3
        \/ i = 3 /\ i + 1 = 4
        \/ i = 4 /\ i + 1 = 5
        \/ i = 5
    BY <1>1
  <2>2. /\ StartStep[1] = "start 1" /\ StartStep[2] = "start 2" /\ StartStep[3] = "start 3"
        /\ StartStep[4] = "start 4" /\ StartStep[5] = "start 5"
    BY DEF StartStep
  <2>3. Starts[i] \in Server
    BY <1>1, StepNamesAre DEF Server
  <2> QED
    BY <2>1, <2>2, <2>3
<1>3. ~waited /\ UNCHANGED <<cancelled, late, active, waited, drained, before>>
  BY <1>1, <1>2, StepSets DEF IndInv, StreamInv, Start
<1>4. CASE UNCHANGED <<loop, stream, call>> /\ up' = up \cup {Starts[i]}
             /\ step' = IF i = 5 THEN "run" ELSE StartStep[i + 1]
  <2>1. step' \in {"start 1", "start 2", "start 3", "start 4", "start 5", "run"}
    BY <1>2, <1>4
  <2>2. TypeOK'
    BY <1>1, <1>2, <1>3, <1>4, <2>1, StepSets, TypeIs DEF Types, IndInv, StepNames
  <2>3. StreamInv' /\ CallInv'
    BY <1>1, <1>2, <1>3, <1>4, <2>1, StepSets DEF IndInv, StreamInv, CallInv
  <2>4. DrainsActive' /\ CallsFinish'
    BY <1>1, <1>2, <1>3, <1>4 DEF IndInv, DrainsActive, CallsFinish
  <2> QED
    BY <2>2, <2>3, <2>4 DEF IndInv
<1>5. CASE Exit("failed")
  <2>1. TypeOK'
    BY <1>3, <1>5, StepSets, TypeIs DEF Types, IndInv, Exit, StepNames, StreamStates, CallStates
  <2>2. StreamInv'
    BY <1>3, <1>5, StepSets, TypeIs DEF Types, IndInv, Exit, StreamInv, Handled
  <2>3. CallInv' /\ DrainsActive' /\ CallsFinish'
    BY <1>5, StepSets DEF Exit, CallInv, DrainsActive, CallsFinish
  <2> QED
    BY <2>1, <2>2, <2>3 DEF IndInv
<1> QED
  BY <1>1, <1>4, <1>5

\* The signal, the deadline, and the steps of leaveCluster that change neither a
\* stream nor a call.
LEMMA StopKeeps ==
    ASSUME IndInv,
           \/ Signal \/ Leave \/ Expire \/ AdminClose \/ AdminReturn \/ TunnelClose
           \/ WaitReturns \/ TunnelReturn \/ RpcClose \/ GossipStop
    PROVE  IndInv'
<1>1. UNCHANGED <<loop, stream, active, before, call>>
  BY DEF Signal, Leave, Expire, AdminClose, AdminReturn, TunnelClose, WaitReturns,
         TunnelReturn, RpcClose, GossipStop, streamVars
<1>2. TypeOK'
  BY <1>1, StepSets, TypeIs
  DEF Types, IndInv, Signal, Leave, Expire, AdminClose, AdminReturn, TunnelClose, WaitReturns,
      TunnelReturn, RpcClose, GossipStop, StepNames
<1>3. step \notin Over /\ step' \notin Over
  BY StepSets
  DEF Signal, Leave, Expire, AdminClose, AdminReturn, TunnelClose, WaitReturns,
      TunnelReturn, RpcClose, GossipStop
<1>4. active = 0 => \A s \in Stream : stream[s] \notin Handled
  BY <1>3, CountOf, TypeIs DEF Types, IndInv
<1>5. StreamInv'
  <2>1. CASE TunnelClose
    <3>1. ~waited /\ waited' = waited
      BY <2>1, StepSets DEF IndInv, StreamInv, TunnelClose
    <3>2. step' = "tunnel wait" /\ \A s \in Stream : stream[s] # "cut"
      BY <1>3, <2>1 DEF IndInv, StreamInv, TunnelClose
    <3> QED
      BY <1>1, <3>1, <3>2, StepSets DEF IndInv, StreamInv
  <2>2. CASE WaitReturns
    <3>1. \A s \in before : stream[s] \notin Handled
      BY <1>4, <2>2, TypeIs DEF Types, IndInv, WaitReturns
    <3> QED
      BY <1>1, <2>2, <3>1, StepSets DEF IndInv, StreamInv, WaitReturns
  <2>3. CASE TunnelReturn
    <3>1. UNCHANGED <<waited, before, late>> /\ step' = "rpc" /\ (waited \/ late)
      BY <1>1, <2>3 DEF TunnelReturn
    <3>2. step = "tunnel wait"
      BY <2>3 DEF TunnelReturn
    <3> QED
      BY <1>1, <3>1, <3>2, StepSets DEF IndInv, StreamInv
  <2>4. CASE Signal \/ Expire
    <3>1. UNCHANGED <<step, waited, before>> /\ (late => late')
      BY <1>1, <2>4 DEF Signal, Expire
    <3> QED
      BY <1>1, <3>1, StepSets DEF IndInv, StreamInv
  <2>5. CASE Leave \/ AdminClose \/ AdminReturn \/ RpcClose \/ GossipStop
    <3>1. /\ UNCHANGED <<waited, before, late>> /\ step \notin Over /\ step' \notin Over
          /\ step' \in FromTunnelWait => step \in FromRpc
          /\ step' \in FromRpc => step \in FromRpc
          /\ step' \notin FromTunnelWait => step \notin FromTunnelWait
      BY <1>1, <1>3, <2>5, StepSets DEF Leave, AdminClose, AdminReturn, RpcClose, GossipStop
    <3> QED
      BY <1>1, <3>1, StepSets DEF IndInv, StreamInv
  <2> QED
    BY <2>1, <2>2, <2>3, <2>4, <2>5
<1>6. CallInv'
  <2>1. Running("admin")' = Running("admin") /\ Running("rpc")' = Running("rpc")
    BY <1>1 DEF Running
  <2> HIDE DEF Running
  <2>2. CASE AdminClose \/ AdminReturn \/ RpcClose
    BY <2>1, <2>2, StepSets DEF IndInv, CallInv, AdminClose, AdminReturn, RpcClose
  <2>3. CASE GossipStop \/ TunnelClose \/ TunnelReturn
    BY <2>1, <2>3, StepSets DEF IndInv, CallInv, GossipStop, TunnelClose, TunnelReturn
  <2>4. CASE Signal \/ Leave \/ Expire \/ WaitReturns
    BY <2>1, <2>4, StepSets DEF IndInv, CallInv, Signal, Leave, Expire, WaitReturns
  <2> QED
    BY <2>2, <2>3, <2>4
<1>7. DrainsActive'
  BY <1>1, <1>2, <1>3, StepSets, TypeIs DEF Types, IndInv, StreamInv, DrainsActive
<1>8. CallsFinish'
  <2>1. late => late'
    BY DEF Signal, Leave, Expire, AdminClose, AdminReturn, TunnelClose, WaitReturns,
           TunnelReturn, RpcClose, GossipStop
  <2>2. step # "failed"
    BY <1>3, StepSets
  <2> QED
    BY <1>1, <2>1, <2>2 DEF IndInv, CallsFinish
<1> QED
  BY <1>2, <1>5, <1>6, <1>7, <1>8 DEF IndInv

\* GracefulStop returns, or Stop cuts what is left.
LEMMA RpcReturnKeeps ==
    ASSUME IndInv, RpcReturn
    PROVE  IndInv'
<1>1. UNCHANGED <<up, late, waited, before, loop, stream, active, cancelled, drained>>
  BY DEF RpcReturn, streamVars
<1>2. /\ step = "rpc wait" /\ step' = "gossip"
      /\ \/ Running("rpc") = {} /\ call' = call
         \/ late /\ call' = [c \in Call |-> IF c \in Running("rpc") THEN "cut" ELSE call[c]]
  BY DEF RpcReturn
<1>3. call' \in [Call -> CallStates]
  BY <1>2, TypeIs DEF Types, IndInv, CallStates
<1>4. TypeOK'
  BY <1>1, <1>2, <1>3, StepSets, TypeIs DEF Types, IndInv, StepNames
<1>5. StreamInv' /\ DrainsActive'
  BY <1>1, <1>2, StepSets DEF IndInv, StreamInv, DrainsActive
<1>6. ~late => Running("rpc")' = {} /\ Running("admin")' = {}
  BY <1>2, StepSets DEF IndInv, CallInv, Running
<1>7. CallInv'
  BY <1>1, <1>2, <1>6, StepSets DEF IndInv, CallInv
<1>8. CallsFinish'
  BY <1>1, <1>2 DEF IndInv, CallsFinish
<1> QED
  BY <1>4, <1>5, <1>7, <1>8 DEF IndInv

\* mesh.Close and the end of the process: before the deadline nothing that the
\* properties are about is left to cut.
LEMMA MeshCloseKeeps ==
    ASSUME IndInv, MeshClose
    PROVE  IndInv'
<1>1. /\ step = "mesh" /\ step' = "done" /\ up' = {} /\ loop' = {}
      /\ stream' = [s \in Stream |->
            IF stream[s] \in {"sent", "spawned"} \cup Handled THEN "cut" ELSE stream[s]]
      /\ call' = [c \in Call |-> IF call[c] = "running" THEN "cut" ELSE call[c]]
      /\ UNCHANGED <<cancelled, late, active, waited, drained, before>>
  BY DEF MeshClose, Exit
<1>2. before \subseteq Stream
  BY TypeIs DEF Types, IndInv
<1>3. TypeOK'
  BY <1>1, StepSets, TypeIs DEF Types, IndInv, StepNames, StreamStates, CallStates
<1>4. ~late => \A s \in before : stream[s] \in {"refused", "done"}
  BY <1>1, <1>2, StepSets DEF IndInv, StreamInv
<1>5. StreamInv' /\ DrainsActive'
  BY <1>1, <1>2, <1>4, StepSets DEF IndInv, StreamInv, DrainsActive, Handled
<1>6. ~late => \A c \in Call : call[c] # "running"
  BY <1>1, StepSets DEF IndInv, CallInv, Running, ServerOf
<1>7. CallInv'
  BY <1>1, StepSets DEF CallInv
<1>8. CallsFinish'
  BY <1>1, <1>6 DEF IndInv, CallsFinish
<1> QED
  BY <1>3, <1>5, <1>7, <1>8 DEF IndInv

\* Connections come and go: no part of the invariant looks at them.
LEMMA ConnKeeps ==
    ASSUME IndInv, NEW c \in Conn, AcceptConn(c) \/ LoopEnds(c)
    PROVE  IndInv'
<1>1. loop' \subseteq Conn /\ UNCHANGED <<runVars, stream, active, before, call>>
  BY TypeIs DEF Types, IndInv, AcceptConn, LoopEnds
<1>2. TypeOK'
  BY <1>1, TypeIs DEF Types, IndInv, runVars
<1>3. StreamInv' /\ CallInv'
  BY <1>1 DEF IndInv, StreamInv, CallInv, Running, runVars
<1>4. DrainsActive' /\ CallsFinish'
  BY <1>1 DEF IndInv, DrainsActive, CallsFinish, runVars
<1> QED
  BY <1>2, <1>3, <1>4 DEF IndInv

\* A stream is opened, accepted, routed, relayed and ends: a stream that Shutdown
\* found does not begin again.
LEMMA StreamKeeps ==
    ASSUME IndInv, NEW s \in Stream,
           \/ OpenStream(s) \/ AcceptStream(s) \/ Begin(s)
           \/ Routed(s) \/ Refused(s) \/ End(s)
    PROVE  IndInv'
<1>1. UNCHANGED <<runVars, loop, call>> /\ stream \in [Stream -> StreamStates]
  BY TypeIs DEF Types, IndInv, OpenStream, AcceptStream, Begin, Routed, Refused, End
<1>2. PICK new \in {"sent", "spawned", "routing", "relay", "refused", "done"} :
        /\ stream' = [stream EXCEPT ![s] = new]
        /\ new \in {"sent", "spawned", "routing"} => stream[s] \in {"none", "sent", "spawned"}
        /\ new \in {"relay", "refused", "done"} => stream[s] \in Handled
        /\ before' = IF new = "routing" /\ step \notin FromTunnelWait \cup Over
                       THEN before \cup {s} ELSE before
  <2>1. CASE OpenStream(s)
    BY <2>1 DEF OpenStream
  <2>2. CASE AcceptStream(s)
    BY <2>2 DEF AcceptStream
  <2>3. CASE Begin(s)
    BY <2>3 DEF Begin
  <2>4. CASE Routed(s) \/ Refused(s) \/ End(s)
    BY <2>4 DEF Routed, Refused, End, Handled
  <2> QED
    BY <2>1, <2>2, <2>3, <2>4
<1>3. stream' \in [Stream -> StreamStates] /\ before' \subseteq Stream
  BY <1>1, <1>2, TypeIs DEF Types, IndInv, StreamStates
<1>4. step \notin Over => active' = Cardinality(ActiveIn(stream'))
  <2> SUFFICES ASSUME step \notin Over PROVE active' = Cardinality(ActiveIn(stream'))
    OBVIOUS
  <2>1. active = Cardinality(ActiveIn(stream))
    BY TypeIs DEF Types, IndInv
  <2>2. CASE OpenStream(s) \/ AcceptStream(s) \/ Routed(s)
    <3>1. ActiveIn(stream') = ActiveIn(stream) /\ active' = active
      BY <1>1, <2>2 DEF OpenStream, AcceptStream, Routed, ActiveIn, Handled
    <3> QED
      BY <2>1, <3>1
  <2>3. CASE Begin(s)
    <3>1. "routing" \in Handled /\ stream[s] \notin Handled
      BY <2>3 DEF Begin, Handled
    <3> QED
      BY <1>1, <2>1, <2>3, <3>1, CountStep DEF Begin
  <2>4. CASE Refused(s)
    <3>1. "refused" \in StreamStates \ Handled /\ stream[s] \in Handled
      BY <2>4 DEF Refused, Handled, StreamStates
    <3> QED
      BY <1>1, <2>1, <2>4, <3>1, CountStep DEF Refused
  <2>5. CASE End(s)
    <3>1. "done" \in StreamStates \ Handled /\ stream[s] \in Handled
      BY <2>5 DEF End, Handled, StreamStates
    <3> QED
      BY <1>1, <2>1, <2>5, <3>1, CountStep DEF End
  <2> QED
    BY <2>2, <2>3, <2>4, <2>5
<1>5. TypeOK'
  BY <1>1, <1>3, <1>4, TypeIs DEF Types, IndInv, runVars, Over
<1>6. StreamInv'
  <2>1. \A t \in Stream : stream'[t] = IF t = s THEN new ELSE stream[t]
    BY <1>1, <1>2
  <2>2. new \in {"sent", "spawned"} => s \notin before
    BY <1>2 DEF IndInv, StreamInv, Handled
  <2>3. \A t \in before' : stream'[t] \in Handled \cup {"refused", "done", "cut"}
    BY <1>2, <1>3, <2>1, <2>2 DEF IndInv, StreamInv, Handled
  <2>4. waited' => \A t \in before' : stream'[t] \notin Handled
    BY <1>1, <1>2, <1>3, <2>1 DEF IndInv, StreamInv, Handled, runVars
  <2>5. step' \notin Over => \A t \in Stream : stream'[t] # "cut"
    BY <1>1, <1>2, <2>1 DEF IndInv, StreamInv, runVars
  <2> QED
    BY <1>1, <2>3, <2>4, <2>5 DEF IndInv, StreamInv, runVars
<1>7. CallInv' /\ CallsFinish'
  BY <1>1 DEF IndInv, CallInv, CallsFinish, Running, runVars
<1>8. DrainsActive'
  BY <1>1, <1>2, <1>3 DEF IndInv, DrainsActive, runVars
<1> QED
  BY <1>5, <1>6, <1>7, <1>8 DEF IndInv

\* A call begins at a server that is up and is answered.
LEMMA CallKeeps ==
    ASSUME IndInv, NEW c \in Call, CallBegins(c) \/ CallEnds(c)
    PROVE  IndInv'
<1>1. UNCHANGED <<runVars, streamVars>> /\ call \in [Call -> CallStates]
  BY TypeIs DEF Types, IndInv, CallBegins, CallEnds
<1>2. PICK new \in {"running", "answered"} :
        call' = [call EXCEPT ![c] = new] /\ (new = "running" => ServerOf(c) \in up)
  BY DEF CallBegins, CallEnds
<1>3. TypeOK'
  BY <1>1, <1>2, TypeIs DEF Types, IndInv, runVars, streamVars, CallStates
<1>4. StreamInv' /\ DrainsActive'
  BY <1>1 DEF IndInv, StreamInv, DrainsActive, runVars, streamVars
<1>5. CallInv'
  BY <1>1, <1>2, StepSets DEF IndInv, CallInv, Running, runVars
<1>6. CallsFinish'
  BY <1>1, <1>2 DEF IndInv, CallsFinish, runVars
<1> QED
  BY <1>3, <1>4, <1>5, <1>6 DEF IndInv

LEMMA StutterKeeps ==
    ASSUME IndInv, UNCHANGED vars
    PROVE  IndInv'
<1>1. TypeOK'
  BY TypeIs DEF Types, IndInv, vars
<1>2. StreamInv' /\ CallInv' /\ DrainsActive' /\ CallsFinish'
  BY DEF IndInv, StreamInv, CallInv, Running, DrainsActive, CallsFinish, vars
<1> QED
  BY <1>1, <1>2 DEF IndInv

LEMMA NextKeeps == IndInv /\ [Next]_vars => IndInv'
<1> SUFFICES ASSUME IndInv, [Next]_vars PROVE IndInv'
  OBVIOUS
<1>1. CASE Start
  BY <1>1, StartKeeps
<1>2. CASE Signal \/ Expire \/ (Shutdown /\ ~RpcReturn /\ ~MeshClose)
  BY <1>2, StopKeeps DEF Shutdown
<1>3. CASE RpcReturn
  BY <1>3, RpcReturnKeeps
<1>4. CASE MeshClose
  BY <1>4, MeshCloseKeeps
<1>5. ASSUME NEW c \in Conn, AcceptConn(c) \/ LoopEnds(c) PROVE IndInv'
  BY <1>5, ConnKeeps
<1>6. ASSUME NEW s \in Stream,
             \/ OpenStream(s) \/ AcceptStream(s) \/ Begin(s)
             \/ Routed(s) \/ Refused(s) \/ End(s)
      PROVE  IndInv'
  BY <1>6, StreamKeeps
<1>7. ASSUME NEW c \in Call, CallBegins(c) \/ CallEnds(c) PROVE IndInv'
  BY <1>7, CallKeeps
<1>8. CASE UNCHANGED vars
  BY <1>8, StutterKeeps
<1> QED
  BY <1>1, <1>2, <1>3, <1>4, <1>5, <1>6, <1>7, <1>8 DEF Next

\* The invariant holds in every run of a node: Server.active is the number of
\* handlers, and what each server has left is known at each step of leaveCluster.
THEOREM Invariance == Spec => []IndInv
BY InitInv, NextKeeps, PTL DEF Spec

\* A stream whose handler began before the tunnel was shut down is cut only by the
\* deadline of leaveCluster, whatever streams and connections there are.
THEOREM DrainsActiveHolds == Spec => []DrainsActive
<1>1. IndInv => DrainsActive
  BY DEF IndInv
<1> QED
  BY <1>1, Invariance, PTL

\* A call that the admin API or the RPC server took is answered, unless the
\* deadline passes or the node fails to start.
THEOREM CallsFinishHolds == Spec => []CallsFinish
<1>1. IndInv => CallsFinish
  BY DEF IndInv
<1> QED
  BY <1>1, Invariance, PTL
=============================================================================
