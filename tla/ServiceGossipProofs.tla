------------------------ MODULE ServiceGossipProofs -------------------------
(* Proofs of the safety properties of ServiceGossip, for every set of nodes, *)
(* names, endpoints and requests, every clock offset and every bound.        *)
EXTENDS ServiceGossip, SequenceTheorems, TLAPS

\* The provers that a step tries, in this order, and the seconds each may take.
USE ZenonT(5), SMTT(30), SMTT(40), SMTT(50), ZenonT(60)
-----------------------------------------------------------------------------
(* What the constructors build.                                            *)

\* RegisterLocal and DeregisterLocal build well-formed services.
LEMMA ServiceTypes ==
    ASSUME NEW n \in Node, NEW s \in Name, NEW v \in Nat, NEW t \in Int
    PROVE  /\ \A e \in Endpoint : NewService(n, s, e, v, t) \in Service
           /\ Tombstone(n, s, v, t) \in Service
    BY RegistryAssumption DEF NewService, Tombstone, Service

\* A snapshot, a tombstone state and an empty state are states that gossip carries.
LEMMA StateTypes ==
    ASSUME NEW n \in Node, NEW S \in SUBSET Service
    PROVE  /\ LocalSnapshot(n, S) \in LocalState
           /\ [node |-> n, services |-> S] \in LocalState
           /\ NoData(n) \in LocalState
    BY DEF LocalSnapshot, NoData, LocalState

\* A signed state, addressed to a node, is a message.
LEMMA EnvelopeTypes ==
    ASSUME NEW n \in Node, NEW state \in LocalState
    PROVE  /\ signEnvelope(n, state) \in Envelope
           /\ \A m \in Node : [to |-> m, env |-> signEnvelope(n, state)] \in Message
    BY ServiceGossipAssumption DEF signEnvelope, Envelope, Message

\* A local state's services are services; a message's parts have their types.
LEMMA Fields ==
    /\ \A state \in LocalState : state.node \in Node /\ state.services \subseteq Service
    /\ \A env \in Envelope : env.state \in LocalState
    /\ \A msg \in Message : msg.to \in Node /\ msg.env \in Envelope
    /\ \A m \in Node, env \in Envelope : [to |-> m, env |-> env] \in Message
    /\ \A x \in Service : x.node \in Node /\ x.name \in Name
    BY DEF LocalState, Envelope, Message, Service

\* Clocks are integers.
LEMMA ClockType == ASSUME TypeOK, NEW n \in Node PROVE Clock(n) \in Int
    BY ServiceGossipAssumption DEF TypeOK, Clock
-----------------------------------------------------------------------------
(* Type correctness.                                                       *)

\* Every step of the cluster keeps every variable in its type.
LEMMA TypeStep == TypeOK /\ [Next]_vars => TypeOK'
<1> SUFFICES ASSUME TypeOK, [Next]_vars PROVE TypeOK'
    OBVIOUS
<1> USE ServiceGossipAssumption DEF Thread
<1>1. ASSUME NEW q \in Request, NEW n \in Origin, NEW s \in Name, NEW e \in Endpoint,
             RegisterLocal(q, n, s, e)
      PROVE  TypeOK'
    <2> DEFINE svc == NewService(n, s, e, version[n][s] + 1, Clock(n))
    <2>0. version \in [Node -> [Name -> Nat]]
        BY DEF TypeOK
    <2>1. version[n] \in [Name -> Nat] /\ version[n][s] + 1 \in Nat
        BY <2>0
    <2>6. version' \in [Node -> [Name -> Nat]]
        BY <1>1, <2>1 DEF TypeOK, RegisterLocal
    <2>2. svc \in Service
        BY <2>1, ClockType, ServiceTypes
    <2>3. local' \in [Node -> SUBSET Service]
        BY <1>1, <2>2 DEF TypeOK, RegisterLocal, PutLocal
    <2>4. registered' \subseteq Registration
        <3>1. [svc |-> svc, incarnation |-> restarts[n], time |-> now] \in Registration
            BY <2>2 DEF TypeOK, Registration
        <3>2. registered' = registered \cup
                  {[svc |-> svc, incarnation |-> restarts[n], time |-> now]}
            BY <1>1 DEF RegisterLocal
        <3> QED
            BY <3>1, <3>2 DEF TypeOK
    <2>5. at' \in [Thread -> Node] /\ pc' \in [Thread -> PC]
        BY <1>1 DEF TypeOK, RegisterLocal, PC
    <2> QED
        BY <1>1, <2>3, <2>4, <2>5, <2>6 DEF TypeOK, RegisterLocal
<1>2. ASSUME NEW t \in Thread, NEW n \in Node, NEW s \in Name, TakeTombstone(t, n, s)
      PROVE  /\ version' \in [Node -> [Name -> Nat]]
             /\ local' \in [Node -> SUBSET Service]
             /\ data' \in [Thread -> LocalState]
             /\ pc' \in [Thread -> PC]
    <2> DEFINE dead == Tombstone(n, s, version[n][s] + 1, Clock(n))
    <2>0. version \in [Node -> [Name -> Nat]]
        BY DEF TypeOK
    <2>1. version[n] \in [Name -> Nat] /\ version[n][s] + 1 \in Nat
        BY <2>0
    <2>4. version' \in [Node -> [Name -> Nat]]
        BY <1>2, <2>1 DEF TypeOK, TakeTombstone
    <2>2. dead \in Service
        BY <2>1, ClockType, ServiceTypes
    <2>3. data' \in [Thread -> LocalState]
        BY <1>2, <2>2, StateTypes DEF TypeOK, TakeTombstone
    <2> QED
        BY <1>2, <2>3, <2>4 DEF TypeOK, TakeTombstone, DropLocal, PC
<1>3. ASSUME NEW q \in Request, NEW n \in Origin, NEW s \in Name,
             DeregisterLocal(q, n, s)
      PROVE  TypeOK'
    BY <1>2, <1>3 DEF TypeOK, DeregisterLocal
<1>4. ASSUME NEW q \in Request, MarshalLocalState(q)
      PROVE  TypeOK'
    BY <1>4, StateTypes DEF TypeOK, MarshalLocalState, PC
<1>5. ASSUME NEW n \in Node, QueueStateBroadcast(n)
      PROVE  queue' \in [Node -> Seq(Envelope)]
    <2> DEFINE env == signEnvelope(n, LocalSnapshot(n, local[n]))
    <2>1. env \in Envelope
        BY StateTypes, EnvelopeTypes DEF TypeOK
    <2>2. queue[n] \in Seq(Envelope)
        BY DEF TypeOK
    <2>3. Append(queue[n], env) \in Seq(Envelope)
        BY <2>1, <2>2
    <2> QED
        BY <1>5, <2>3 DEF TypeOK, QueueStateBroadcast
<1>6. ASSUME NEW t \in Thread, BroadcastState(t)
      PROVE  TypeOK'
    BY <1>5, <1>6 DEF TypeOK, BroadcastState, PC
<1>7. ASSUME NEW t \in Thread, PropagateState(t)
      PROVE  TypeOK'
    <2>1. net' \subseteq Message
        <3>1. at[t] \in Node /\ data[t] \in LocalState
            BY DEF TypeOK
        <3>2. net' = net \cup {[to |-> m, env |-> signEnvelope(at[t], data[t])] :
                                   m \in Node \ {at[t]}}
            BY <1>7 DEF PropagateState
        <3>3. \A m \in Node : [to |-> m, env |-> signEnvelope(at[t], data[t])] \in Message
            BY <3>1, EnvelopeTypes
        <3>4. net \subseteq Message
            BY DEF TypeOK
        <3> QED
            BY <3>2, <3>3, <3>4
    <2>2. data' \in [Thread -> LocalState]
        BY <1>7, StateTypes DEF TypeOK, PropagateState
    <2> QED
        BY <1>7, <2>1, <2>2 DEF TypeOK, PropagateState, PC
<1>8. ASSUME NEW n \in Node, LeaveCluster(n)
      PROVE  TypeOK'
    <2>1. LocalNames(local[n]) \subseteq Name
        <3>1. local[n] \subseteq Service
            BY DEF TypeOK
        <3> QED
            BY <3>1, Fields DEF LocalNames
    <2> QED
        BY <1>8, <2>1 DEF TypeOK, LeaveCluster, PC
<1>9. ASSUME NEW n \in Node, NEW s \in Name, LeaveNext(n, s)
      PROVE  TypeOK'
    <2>1. CASE TakeTombstone(n, n, s)
        BY <1>2, <1>9, <2>1 DEF TypeOK, LeaveNext
    <2>2. CASE UNCHANGED <<version, local, data, pc>>
        BY <1>9, <2>2 DEF TypeOK, LeaveNext
    <2> QED
        BY <1>9, <2>1, <2>2 DEF LeaveNext
<1>10. ASSUME NEW n \in Node, Stop(n)
       PROVE  TypeOK'
    <2>1. NoData(n) \in LocalState
        BY StateTypes
    <2>2. data' \in [Thread -> LocalState]
        BY <1>10, <2>1 DEF TypeOK, Stop
    <2>3. pc' \in [Thread -> PC]
        BY <1>10 DEF TypeOK, Stop, PC
    <2>4. queue' \in [Node -> Seq(Envelope)]
        BY <1>10 DEF TypeOK, Stop
    <2>5. version' \in [Node -> [Name -> Nat]]
        BY <1>10 DEF TypeOK, Stop
    <2>6. /\ up' \subseteq Node
          /\ local' \in [Node -> SUBSET Service]
          /\ remote' \in [Node -> SUBSET Service]
        BY <1>10 DEF TypeOK, Stop
    <2>7. /\ pubkeys' \in [Node -> SUBSET Node]
          /\ todo' \in [Node -> SUBSET Name]
        BY <1>10 DEF TypeOK, Stop
    <2> QED
        BY <1>10, <2>2, <2>3, <2>4, <2>5, <2>6, <2>7 DEF TypeOK, Stop
<1>11. ASSUME NEW n \in Node, Restart(n)
       PROVE  TypeOK'
    <2>1. restarts \in [Node -> Nat]
        BY DEF TypeOK
    <2>2. restarts' \in [Node -> Nat]
        BY <1>11, <2>1 DEF Restart
    <2> QED
        BY <1>11, <2>2 DEF TypeOK, Restart
<1>12. ASSUME NEW n \in Node, NEW m \in Node, NotifyJoin(n, m)
       PROVE  TypeOK'
    BY <1>12 DEF TypeOK, NotifyJoin
<1>13. ASSUME NEW n \in Node, Reannounce(n)
       PROVE  TypeOK'
    BY <1>5, <1>13 DEF TypeOK, Reannounce
<1>14. ASSUME NEW n \in Node, NEW m \in Node, GetBroadcasts(n, m)
       PROVE  TypeOK'
    <2> DEFINE k == IF Len(queue[n]) < BatchLimit THEN Len(queue[n]) ELSE BatchLimit
    <2>6. queue[n] \in Seq(Envelope)
        BY DEF TypeOK
    <2>7. queue[n] # <<>>
        BY <1>14 DEF GetBroadcasts
    <2>1. queue[n] \in Seq(Envelope) /\ k \in 1..Len(queue[n])
        BY <2>6, <2>7
    <2>2. SubSeq(queue[n], k + 1, Len(queue[n])) \in Seq(Envelope)
        BY <2>1
    <2>3. \A i \in 1..k : queue[n][i] \in Envelope
        BY <2>1
    <2>4. net' \subseteq Message
        <3>1. net' = net \cup {[to |-> m, env |-> queue[n][i]] : i \in 1..k}
            BY <1>14 DEF GetBroadcasts
        <3>2. \A i \in 1..k : [to |-> m, env |-> queue[n][i]] \in Message
            BY <2>3, Fields
        <3>3. net \subseteq Message
            BY DEF TypeOK
        <3> QED
            BY <3>1, <3>2, <3>3
    <2>5. queue' \in [Node -> Seq(Envelope)]
        BY <1>14, <2>2 DEF TypeOK, GetBroadcasts
    <2> QED
        BY <1>14, <2>4, <2>5 DEF TypeOK, GetBroadcasts
<1>15. ASSUME NEW n \in Node, NEW m \in Node, PushPull(n, m)
       PROVE  TypeOK'
    <2>1. LocalSnapshot(n, local[n]) \in LocalState /\ LocalSnapshot(m, local[m]) \in LocalState
        BY StateTypes DEF TypeOK
    <2>2. net' \subseteq Message
        <3>1. /\ [to |-> m, env |-> signEnvelope(n, LocalSnapshot(n, local[n]))] \in Message
              /\ [to |-> n, env |-> signEnvelope(m, LocalSnapshot(m, local[m]))] \in Message
            BY <2>1, EnvelopeTypes
        <3>2. net \subseteq Message
            BY DEF TypeOK
        <3> QED
            BY <1>15, <3>1, <3>2 DEF PushPull
    <2> QED
        BY <1>15, <2>2 DEF TypeOK, PushPull
<1>16. ASSUME NEW msg \in net, ingestState(msg)
       PROVE  TypeOK'
    <2>1. MergeRemoteState(msg.to, remote[msg.to], msg.env.state) \in SUBSET Service
        BY Fields DEF TypeOK, MergeRemoteState, Accepted
    <2> QED
        BY <1>16, <2>1 DEF TypeOK, ingestState
<1>17. ASSUME NEW n \in Node, PruneRemote(n)
       PROVE  TypeOK'
    BY <1>17 DEF TypeOK, PruneRemote, Prune
<1>20. ASSUME NEW q \in Request, Reply(q)
       PROVE  TypeOK'
    BY <1>20 DEF TypeOK, Reply, Prune, PC
<1>18. CASE Tick
    <2>1. now' \in Nat
        BY <1>18 DEF TypeOK, Tick
    <2> QED
        BY <1>18, <2>1 DEF TypeOK, Tick
<1>19. CASE UNCHANGED vars
    BY <1>19 DEF TypeOK, vars
<1> QED
    BY <1>1, <1>3, <1>4, <1>6, <1>7, <1>8, <1>9, <1>10, <1>11, <1>12, <1>13,
       <1>14, <1>15, <1>16, <1>17, <1>18, <1>19, <1>20 DEF Next, LeaveDone, Crash
-----------------------------------------------------------------------------
\* What each action leaves alone.
LEMMA Frames ==
    /\ \A q \in Request, n \in Origin, s \in Name, e \in Endpoint : RegisterLocal(q, n, s, e) =>
           UNCHANGED <<up, remote, pubkeys, queue, data, todo, net, now, restarts>>
    /\ \A q \in Request, n \in Origin, s \in Name : DeregisterLocal(q, n, s) =>
           UNCHANGED <<up, remote, pubkeys, queue, todo, net, now, restarts,
                      registered>>
    /\ \A q \in Request : MarshalLocalState(q) =>
           UNCHANGED <<up, local, remote, version, pubkeys, queue, at, todo, net, now,
                      restarts, registered>>
    /\ \A q \in Request : Reply(q) =>
           UNCHANGED <<up, local, version, pubkeys, queue, at, data, todo, net, now,
                      restarts, registered>>
    /\ \A t \in Thread : BroadcastState(t) =>
           UNCHANGED <<up, local, remote, version, pubkeys, at, data, todo, net, now,
                      restarts, registered>>
    /\ \A t \in Thread : PropagateState(t) =>
           UNCHANGED <<up, local, remote, version, pubkeys, queue, at, todo, now,
                      restarts, registered>>
    /\ \A n \in Stoppable : LeaveCluster(n) =>
           UNCHANGED <<up, local, remote, version, pubkeys, queue, at, data, net, now,
                      restarts, registered>>
    /\ \A n \in Stoppable, s \in Name : LeaveNext(n, s) =>
           UNCHANGED <<up, remote, pubkeys, queue, at, net, now, restarts, registered>>
    /\ \A n \in Node : Stop(n) =>
           UNCHANGED <<at, net, now, restarts, registered>>
    /\ \A n \in Stoppable : Restart(n) =>
           UNCHANGED <<local, remote, version, pubkeys, queue, pc, at, data, todo, net,
                      now, registered>>
    /\ \A n, m \in Node : NotifyJoin(n, m) =>
           UNCHANGED <<up, local, remote, version, queue, pc, at, data, todo, net, now,
                      restarts, registered>>
    /\ \A n \in Node : Reannounce(n) =>
           UNCHANGED <<up, local, remote, version, pubkeys, pc, at, data, todo, net,
                      now, restarts, registered>>
    /\ \A n, m \in Node : GetBroadcasts(n, m) =>
           UNCHANGED <<up, local, remote, version, pubkeys, pc, at, data, todo, now,
                      restarts, registered>>
    /\ \A n, m \in Node : PushPull(n, m) =>
           UNCHANGED <<up, local, remote, version, pubkeys, queue, pc, at, data, todo,
                      now, restarts, registered>>
    /\ \A msg \in net : ingestState(msg) =>
           UNCHANGED <<up, local, version, pubkeys, queue, pc, at, data, todo, net, now,
                      restarts, registered>>
    /\ \A n \in Node : PruneRemote(n) =>
           UNCHANGED <<up, local, version, pubkeys, queue, pc, at, data, todo, net, now,
                      restarts, registered>>
    /\ Tick =>
           UNCHANGED <<up, local, remote, version, pubkeys, queue, pc, at, data, todo,
                      net, restarts, registered>>
<1>1. \A q \in Request, n \in Origin, s \in Name, e \in Endpoint : RegisterLocal(q, n, s, e) =>
          UNCHANGED <<up, remote, pubkeys, queue, data, todo, net, now, restarts>>
    BY DEF RegisterLocal
<1>2. \A q \in Request, n \in Origin, s \in Name : DeregisterLocal(q, n, s) =>
          UNCHANGED <<up, remote, pubkeys, queue, todo, net, now, restarts, registered>>
    BY DEF DeregisterLocal
<1>3. \A q \in Request : MarshalLocalState(q) =>
          UNCHANGED <<up, local, remote, version, pubkeys, queue, at, todo, net, now,
                     restarts, registered>>
    BY DEF MarshalLocalState
<1>4. \A q \in Request : Reply(q) =>
          UNCHANGED <<up, local, version, pubkeys, queue, at, data, todo, net, now,
                     restarts, registered>>
    BY DEF Reply
<1>5. \A t \in Thread : BroadcastState(t) =>
          UNCHANGED <<up, local, remote, version, pubkeys, at, data, todo, net, now,
                     restarts, registered>>
    BY DEF BroadcastState
<1>6. \A t \in Thread : PropagateState(t) =>
          UNCHANGED <<up, local, remote, version, pubkeys, queue, at, todo, now,
                     restarts, registered>>
    BY DEF PropagateState
<1>7. \A n \in Stoppable : LeaveCluster(n) =>
          UNCHANGED <<up, local, remote, version, pubkeys, queue, at, data, net, now,
                     restarts, registered>>
    BY DEF LeaveCluster
<1>8. \A n \in Stoppable, s \in Name : LeaveNext(n, s) =>
          UNCHANGED <<up, remote, pubkeys, queue, at, net, now, restarts, registered>>
    BY DEF LeaveNext
<1>9. \A n \in Node : Stop(n) =>
          UNCHANGED <<at, net, now, restarts, registered>>
    BY DEF Stop
<1>10. \A n \in Stoppable : Restart(n) =>
          UNCHANGED <<local, remote, version, pubkeys, queue, pc, at, data, todo, net,
                     now, registered>>
    BY DEF Restart
<1>11. \A n, m \in Node : NotifyJoin(n, m) =>
          UNCHANGED <<up, local, remote, version, queue, pc, at, data, todo, net, now,
                     restarts, registered>>
    BY DEF NotifyJoin
<1>12. \A n \in Node : Reannounce(n) =>
          UNCHANGED <<up, local, remote, version, pubkeys, pc, at, data, todo, net, now,
                     restarts, registered>>
    BY DEF Reannounce
<1>13. \A n, m \in Node : GetBroadcasts(n, m) =>
          UNCHANGED <<up, local, remote, version, pubkeys, pc, at, data, todo, now,
                     restarts, registered>>
    BY DEF GetBroadcasts
<1>14. \A n, m \in Node : PushPull(n, m) =>
          UNCHANGED <<up, local, remote, version, pubkeys, queue, pc, at, data, todo,
                     now, restarts, registered>>
    BY DEF PushPull
<1>15. \A msg \in net : ingestState(msg) =>
          UNCHANGED <<up, local, version, pubkeys, queue, pc, at, data, todo, net, now,
                     restarts, registered>>
    BY DEF ingestState
<1>16. \A n \in Node : PruneRemote(n) =>
          UNCHANGED <<up, local, version, pubkeys, queue, pc, at, data, todo, net, now,
                     restarts, registered>>
    BY DEF PruneRemote
<1>17. Tick =>
          UNCHANGED <<up, local, remote, version, pubkeys, queue, pc, at, data, todo,
                     net, restarts, registered>>
    BY DEF Tick
<1> QED
    BY <1>1, <1>2, <1>3, <1>4, <1>5, <1>6, <1>7, <1>8, <1>9, <1>10, <1>11, <1>12, <1>13, <1>14, <1>15, <1>16, <1>17
-----------------------------------------------------------------------------
(* The history only grows, so what is authentic stays authentic.           *)

\* Registrations are never taken out of the history.
LEMMA HistoryGrows == [Next]_vars => registered \subseteq registered'
<1>1. ASSUME NEW q \in Request, NEW n \in Origin, NEW s \in Name, NEW e \in Endpoint,
             RegisterLocal(q, n, s, e)
      PROVE  registered \subseteq registered'
    BY <1>1 DEF RegisterLocal
<1> QED
    BY <1>1, Frames, ServiceGossipAssumption DEF Next, vars, LeaveDone, Crash

\* A service or state that is backed by the history is backed by a longer one.
LEMMA StaysAuthentic ==
    ASSUME registered \subseteq registered'
    PROVE  /\ \A x : Known(x) => Known(x)'
           /\ \A state : Authentic(state) => Authentic(state)'
           /\ \A env : AuthenticEnvelope(env) => AuthenticEnvelope(env)'
<1>1. \A x : Known(x) => Known(x)'
    BY DEF Known
<1>2. \A state : Authentic(state) => Authentic(state)'
    BY <1>1 DEF Authentic
<1> QED
    BY <1>1, <1>2 DEF AuthenticEnvelope

\* Registrations keep their record, and no service id is given out twice while
\* its node runs.
LEMMA HistoryStep == TypeOK /\ TypeOK' /\ HistoryInv /\ [Next]_vars => HistoryInv'
<1> SUFFICES ASSUME TypeOK, TypeOK', HistoryInv, [Next]_vars PROVE HistoryInv'
    OBVIOUS
<1> USE ServiceGossipAssumption
<1>0. \A r \in registered : /\ r.svc.node \in Node /\ r.svc.name \in Name
                            /\ r.svc.version \in Nat /\ r.time \in Nat
                            /\ r.incarnation \in Nat
    BY DEF TypeOK, Registration, Service
<1>1. ASSUME NEW q \in Request, NEW n \in Origin, NEW s \in Name, NEW e \in Endpoint,
             RegisterLocal(q, n, s, e)
      PROVE  HistoryInv'
    <2> DEFINE v == version[n][s] + 1
               new == [svc |-> NewService(n, s, e, v, Clock(n)),
                       incarnation |-> restarts[n], time |-> now]
    <2>1. /\ registered' = registered \cup {new} /\ n \in up
          /\ version' = [version EXCEPT ![n][s] = v]
          /\ UNCHANGED <<up, now, restarts>>
        BY <1>1 DEF RegisterLocal
    <2>2. /\ version \in [Node -> [Name -> Nat]] /\ restarts \in [Node -> Nat]
          /\ now \in Nat /\ n \in Node
        BY DEF TypeOK
    <2>3. /\ new.svc.node = n /\ new.svc.name = s /\ new.svc.version = v
          /\ new.svc.ttl = TTL /\ new.svc.announced = now + Offset[n]
          /\ new.incarnation = restarts[n] /\ new.time = now
        BY DEF NewService, Clock
    <2>4. \A m \in Node, t \in Name : version[m][t] <= version'[m][t]
        BY <2>1, <2>2
    <2>5. version'[n][s] = v
        BY <2>1, <2>2
    <2>6. \A r \in registered : Recorded(r)'
        BY <1>0, <2>1, <2>2, <2>4 DEF HistoryInv, Recorded
    <2>7. ASSUME NEW r, r = new PROVE Recorded(r)'
        BY <2>1, <2>2, <2>3, <2>5, <2>7 DEF Recorded
    <2>8. \A r \in registered : SameKey(r.svc, new.svc) /\ r.incarnation = new.incarnation
                                    => r.svc.version # new.svc.version
        <3> SUFFICES ASSUME NEW r \in registered, SameKey(r.svc, new.svc),
                            r.incarnation = new.incarnation
                     PROVE  r.svc.version # new.svc.version
            OBVIOUS
        <3>1. r.svc.node = n /\ r.svc.name = s /\ r.incarnation = restarts[n]
            BY <2>3 DEF SameKey
        <3>2. Recorded(r)
            BY DEF HistoryInv
        <3> HIDE DEF new
        <3>3. r.svc.version <= version[n][s]
            BY <2>1, <3>1, <3>2 DEF Recorded
        <3>4. r.svc.version \in Nat /\ version[n][s] \in Nat
            BY <1>0, <2>2
        <3> QED
            BY <2>3, <3>3, <3>4
    <2> HIDE DEF new
    <2>9. ServiceIDUnique'
        BY <2>1, <2>8 DEF HistoryInv, ServiceIDUnique, SameKey
    <2> QED
        BY <2>1, <2>6, <2>7, <2>9 DEF HistoryInv
<1>2. ASSUME NEW t \in Thread, NEW n \in Node, NEW s \in Name, TakeTombstone(t, n, s),
             UNCHANGED <<up, now, restarts, registered>>
      PROVE  HistoryInv'
    <2>1. version \in [Node -> [Name -> Nat]]
        BY DEF TypeOK
    <2>2. \A m \in Node, u \in Name : /\ version[m][u] <= version'[m][u]
                                      /\ version[m][u] \in Nat /\ version'[m][u] \in Nat
        BY <1>2, <2>1 DEF TakeTombstone
    <2>3. ASSUME NEW r \in registered PROVE Recorded(r)'
        <3>1. /\ r.svc.node \in Node /\ r.svc.name \in Name /\ r.svc.version \in Nat
              /\ Recorded(r)
            BY <1>0 DEF HistoryInv
        <3>2. /\ version[r.svc.node][r.svc.name] <= version'[r.svc.node][r.svc.name]
              /\ version[r.svc.node][r.svc.name] \in Nat
              /\ version'[r.svc.node][r.svc.name] \in Nat
            BY <2>2, <3>1
        <3>3. up' = up /\ now' = now /\ restarts' = restarts
            BY <1>2
        <3>4. (r.svc.node \in up /\ r.incarnation = restarts[r.svc.node])
                  => r.svc.version <= version[r.svc.node][r.svc.name]
            BY <3>1 DEF Recorded
        <3>5. (r.svc.node \in up /\ r.incarnation = restarts[r.svc.node])
                  => r.svc.version <= version'[r.svc.node][r.svc.name]
            BY <3>1, <3>2, <3>4
        <3>6. /\ r.svc.ttl = TTL /\ r.svc.announced = r.time + Offset[r.svc.node]
              /\ r.time <= now /\ r.incarnation <= restarts[r.svc.node]
            BY <3>1 DEF Recorded
        <3> QED
            BY <3>3, <3>5, <3>6 DEF Recorded
    <2> QED
        BY <1>2, <2>3 DEF HistoryInv, ServiceIDUnique
<1>3. ASSUME NEW n \in Node, Stop(n)
      PROVE  HistoryInv'
    <2>1. \A r \in registered : Recorded(r)'
        BY <1>3, ZenonT(60) DEF TypeOK, HistoryInv, Recorded, Stop
    <2> QED
        BY <1>3, <2>1 DEF HistoryInv, ServiceIDUnique, Stop
<1>4. ASSUME NEW n \in Node, Restart(n)
      PROVE  HistoryInv'
    <2>1. restarts \in [Node -> Nat] /\ restarts' = [restarts EXCEPT ![n] = @ + 1]
        BY <1>4 DEF TypeOK, Restart
    <2>2. \A r \in registered : Recorded(r)'
        BY <1>0, <1>4, <2>1 DEF HistoryInv, Recorded, Restart
    <2>3. registered' = registered
        BY <1>4 DEF Restart
    <2>4. ServiceIDUnique'
        BY <2>3 DEF HistoryInv, ServiceIDUnique
    <2> QED
        BY <2>2, <2>3, <2>4 DEF HistoryInv
<1>5. CASE Tick
    <2>1. now \in Nat /\ now' = now + 1
        BY <1>5 DEF TypeOK, Tick
    <2>2. \A r \in registered : Recorded(r)'
        BY <1>0, <1>5, <2>1 DEF HistoryInv, Recorded, Tick
    <2> QED
        BY <1>5, <2>2 DEF HistoryInv, ServiceIDUnique, Tick
<1>6. CASE UNCHANGED <<up, version, now, restarts, registered>>
    BY <1>6 DEF HistoryInv, Recorded, ServiceIDUnique
<1>7. ASSUME NEW q \in Request, NEW n \in Origin, NEW s \in Name, DeregisterLocal(q, n, s)
      PROVE  HistoryInv'
    BY <1>2, <1>7 DEF DeregisterLocal, Thread
<1>8. ASSUME NEW n \in Stoppable, NEW s \in Name, LeaveNext(n, s)
      PROVE  HistoryInv'
    BY <1>2, <1>6, <1>8 DEF LeaveNext, Thread
<1> QED
    BY <1>1, <1>3, <1>4, <1>5, <1>6, <1>7, <1>8, Frames, ServiceGossipAssumption
       DEF Next, vars, LeaveDone, Crash
-----------------------------------------------------------------------------
(* One lemma per part of the invariant: which actions touch it, and why they *)
(* keep it.                                                                  *)

\* The local map of a registry holds what its own node registered.
LEMMA LocalStep == TypeOK /\ LocalInv /\ [Next]_vars => LocalInv'
<1> SUFFICES ASSUME TypeOK, LocalInv, [Next]_vars PROVE LocalInv'
    OBVIOUS
<1> USE ServiceGossipAssumption
<1>0. \A x : Known(x) => Known(x)'
    BY HistoryGrows, StaysAuthentic
<1>1. local \in [Node -> SUBSET Service]
    BY DEF TypeOK
<1>2. ASSUME NEW q \in Request, NEW n \in Origin, NEW s \in Name, NEW e \in Endpoint,
             RegisterLocal(q, n, s, e)
      PROVE  LocalInv'
    <2> DEFINE svc == NewService(n, s, e, version[n][s] + 1, Clock(n))
    <2>1. svc.node = n
        BY DEF NewService
    <2>2. \E r \in registered' : r.svc = svc
        <3> DEFINE new == [svc |-> svc, incarnation |-> restarts[n], time |-> now]
        <3>1. new \in registered'
            BY <1>2 DEF RegisterLocal
        <3> QED
            BY <3>1
    <2>3. ASSUME NEW x, x = svc PROVE Known(x)'
        BY <2>2, <2>3 DEF Known
    <2>4. local' = [local EXCEPT ![n] = {x \in local[n] : x.name # svc.name} \cup {svc}]
        BY <1>2 DEF RegisterLocal, PutLocal
    <2> HIDE DEF svc
    <2>5. /\ n \in Node /\ local'[n] = {x \in local[n] : x.name # svc.name} \cup {svc}
          /\ \A m \in Node \ {n} : local'[m] = local[m]
        BY <1>1, <2>4
    <2>6. \A x \in local'[n] : x.node = n /\ Known(x)'
        BY <1>0, <2>1, <2>3, <2>5 DEF LocalInv
    <2>7. \A x, y \in local'[n] : x.name = y.name => x = y
        BY <2>5 DEF LocalInv
    <2>8. \A m \in Node \ {n} :
              /\ \A x \in local'[m] : x.node = m /\ Known(x)'
              /\ \A x, y \in local'[m] : x.name = y.name => x = y
        BY <1>0, <2>5 DEF LocalInv
    <2> QED
        BY <2>6, <2>7, <2>8 DEF LocalInv
<1>3. ASSUME NEW t \in Thread, NEW n \in Node, NEW s \in Name, TakeTombstone(t, n, s)
      PROVE  LocalInv'
    BY <1>0, <1>1, <1>3 DEF LocalInv, TakeTombstone, DropLocal
<1>4. ASSUME NEW n \in Node, Stop(n)
      PROVE  LocalInv'
    BY <1>0, <1>1, <1>4, ZenonT(60) DEF LocalInv, Stop
<1>5. CASE UNCHANGED local
    BY <1>0, <1>5 DEF LocalInv
<1>6. ASSUME NEW q \in Request, NEW n \in Origin, NEW s \in Name, DeregisterLocal(q, n, s)
      PROVE  LocalInv'
    BY <1>3, <1>6 DEF DeregisterLocal, Thread
<1>7. ASSUME NEW n \in Stoppable, NEW s \in Name, LeaveNext(n, s)
      PROVE  LocalInv'
    BY <1>3, <1>5, <1>7 DEF LeaveNext, Thread
<1> QED
    BY <1>2, <1>4, <1>5, <1>6, <1>7, Frames, ServiceGossipAssumption
       DEF Next, vars, LeaveDone, Crash

\* A snapshot of the local map is authentic, and so is its envelope.
LEMMA SnapshotAuthentic ==
    ASSUME LocalInv, NEW n \in Node
    PROVE  /\ Authentic(LocalSnapshot(n, local[n]))
           /\ AuthenticEnvelope(signEnvelope(n, LocalSnapshot(n, local[n])))
    BY DEF LocalInv, Authentic, LocalSnapshot, AuthenticEnvelope, signEnvelope

\* A goroutine that is about to push has an authentic state of its node.
LEMMA ThreadStep == TypeOK /\ LocalInv /\ ThreadInv /\ [Next]_vars => ThreadInv'
<1> SUFFICES ASSUME TypeOK, LocalInv, ThreadInv, [Next]_vars PROVE ThreadInv'
    OBVIOUS
<1> USE ServiceGossipAssumption
<1> DEFINE Ready == {"broadcast", "push", "pushAgain"}
<1>0. \A state : Authentic(state) => Authentic(state)'
    BY HistoryGrows, StaysAuthentic
<1>1. /\ pc \in [Thread -> PC] /\ at \in [Thread -> Node] /\ data \in [Thread -> LocalState]
      /\ Node \subseteq Thread /\ Request \subseteq Thread
    BY DEF TypeOK, Thread
<1>2. ASSUME NEW q \in Request, NEW n \in Origin, NEW s \in Name, NEW e \in Endpoint,
             RegisterLocal(q, n, s, e)
      PROVE  ThreadInv'
    BY <1>0, <1>1, <1>2 DEF ThreadInv, RegisterLocal
<1>3. ASSUME NEW q \in Request, MarshalLocalState(q)
      PROVE  ThreadInv'
    <2> DEFINE snap == LocalSnapshot(at[q], local[at[q]])
    <2>1. Authentic(snap) /\ snap.node = at[q]
        BY <1>1, SnapshotAuthentic DEF LocalSnapshot
    <2>2. ASSUME NEW state, state = snap PROVE Authentic(state)'
        BY <1>0, <2>1, <2>2
    <2>3. /\ data' = [data EXCEPT ![q] = snap] /\ at' = at
          /\ pc' = [pc EXCEPT ![q] = "broadcast"]
        BY <1>3 DEF MarshalLocalState
    <2> QED
        BY <1>0, <1>1, <2>1, <2>2, <2>3 DEF ThreadInv
<1>4. ASSUME NEW t \in Thread, NEW n \in Node, NEW s \in Name, TakeTombstone(t, n, s),
             at' = [at EXCEPT ![t] = n], t \in Node => t = n
      PROVE  ThreadInv'
    <2> DEFINE dead == [node |-> n,
                        services |-> {Tombstone(n, s, version[n][s] + 1, Clock(n))}]
    <2> DEFINE tomb == Tombstone(n, s, version[n][s] + 1, Clock(n))
    <2>0. tomb.node = n /\ tomb.ttl = 0
        BY DEF Tombstone
    <2>1. Authentic(dead) /\ dead.node = n
        <3>1. dead.node = n /\ dead.services = {tomb}
            OBVIOUS
        <3> HIDE DEF dead, tomb
        <3> QED
            BY <2>0, <3>1 DEF Authentic
    <2>2. ASSUME NEW state, state = dead PROVE Authentic(state)'
        BY <1>0, <2>1, <2>2
    <2>3. data' = [data EXCEPT ![t] = dead] /\ pc' = [pc EXCEPT ![t] = "broadcast"]
        BY <1>4 DEF TakeTombstone
    <2> QED
        BY <1>0, <1>1, <1>4, <2>1, <2>2, <2>3, ZenonT(60) DEF ThreadInv
<1>5. ASSUME NEW q \in Request, NEW n \in Origin, NEW s \in Name, DeregisterLocal(q, n, s)
      PROVE  ThreadInv'
    BY <1>1, <1>4, <1>5 DEF DeregisterLocal
<1>6. ASSUME NEW n \in Stoppable, NEW s \in Name, LeaveNext(n, s)
      PROVE  ThreadInv'
    <2>1. CASE TakeTombstone(n, n, s)
        <3>1. at' = [at EXCEPT ![n] = n]
            BY <1>1, <1>6 DEF LeaveNext, ThreadInv
        <3> QED
            BY <1>1, <1>4, <2>1, <3>1
    <2>2. CASE UNCHANGED <<data, pc>>
        BY <1>0, <1>6, <2>2 DEF ThreadInv, LeaveNext
    <2> QED
        BY <1>6, <2>1, <2>2 DEF LeaveNext
<1>7. ASSUME NEW t \in Thread, BroadcastState(t) \/ PropagateState(t)
      PROVE  ThreadInv'
    <2>1. /\ at' = at
          /\ \A u \in Thread : pc'[u] \in Ready => pc[u] \in Ready /\ data'[u] = data[u]
        BY <1>1, <1>7 DEF BroadcastState, PropagateState
    <2> QED
        BY <1>0, <2>1 DEF ThreadInv
<1>8. ASSUME NEW n \in Node, LeaveCluster(n)
      PROVE  ThreadInv'
    BY <1>0, <1>1, <1>8 DEF ThreadInv, LeaveCluster
<1>9. ASSUME NEW n \in Node, Stop(n)
      PROVE  ThreadInv'
    BY <1>0, <1>1, <1>9 DEF ThreadInv, Stop
<1>10. CASE UNCHANGED <<pc, at, data>>
    BY <1>0, <1>10 DEF ThreadInv
<1>11. ASSUME NEW q \in Request, Reply(q)
       PROVE  ThreadInv'
    BY <1>0, <1>1, <1>11 DEF ThreadInv, Reply
<1> QED
    BY <1>2, <1>3, <1>5, <1>6, <1>7, <1>8, <1>9, <1>10, <1>11, Frames, ServiceGossipAssumption
       DEF Next, vars, LeaveDone, Crash

\* Broadcast queues and the network carry authentic envelopes only.
LEMMA TransitStep ==
    TypeOK /\ LocalInv /\ ThreadInv /\ TransitInv /\ [Next]_vars => TransitInv'
<1> SUFFICES ASSUME TypeOK, LocalInv, ThreadInv, TransitInv, [Next]_vars PROVE TransitInv'
    OBVIOUS
<1> USE ServiceGossipAssumption
<1>0. \A env : AuthenticEnvelope(env) => AuthenticEnvelope(env)'
    BY HistoryGrows, StaysAuthentic
<1>1. queue \in [Node -> Seq(Envelope)] /\ at \in [Thread -> Node]
    BY DEF TypeOK
<1> DEFINE Queues == \A n \in Node : \A i \in 1..Len(queue[n]) : AuthenticEnvelope(queue[n][i])
           Net == \A msg \in net : AuthenticEnvelope(msg.env)
<1>2. ASSUME NEW n \in Node, QueueStateBroadcast(n)
      PROVE  Queues'
    <2> DEFINE env == signEnvelope(n, LocalSnapshot(n, local[n]))
    <2>1. AuthenticEnvelope(env)
        BY SnapshotAuthentic
    <2>2. queue' = [queue EXCEPT ![n] = Append(queue[n], env)]
        BY <1>2 DEF QueueStateBroadcast
    <2>3. \A m \in Node : \A i \in 1..Len(queue'[m]) :
              \/ queue'[m][i] = env
              \/ i \in 1..Len(queue[m]) /\ queue'[m][i] = queue[m][i]
        BY <1>1, <2>2
    <2>4. \A m \in Node : \A i \in 1..Len(queue'[m]) : AuthenticEnvelope(queue'[m][i])
        BY <2>1, <2>3 DEF TransitInv
    <2> QED
        BY <1>0, <2>4
<1>3. ASSUME UNCHANGED queue PROVE Queues'
    BY <1>0, <1>3 DEF TransitInv
<1>4. ASSUME UNCHANGED net PROVE Net'
    BY <1>0, <1>4 DEF TransitInv
<1>5. ASSUME NEW t \in Thread, PropagateState(t)
      PROVE  TransitInv'
    <2> DEFINE env == signEnvelope(at[t], data[t])
    <2>1. AuthenticEnvelope(env)
        BY <1>5 DEF ThreadInv, PropagateState, AuthenticEnvelope, signEnvelope
    <2>2. net' = net \cup {[to |-> m, env |-> env] : m \in Node \ {at[t]}} /\ queue' = queue
        BY <1>5 DEF PropagateState
    <2> HIDE DEF env
    <2>3. \A msg \in net' : msg \in net \/ msg.env = env
        BY <2>2
    <2>4. \A msg \in net' : AuthenticEnvelope(msg.env)
        BY <2>1, <2>3 DEF TransitInv
    <2> QED
        BY <1>0, <1>3, <2>2, <2>4 DEF TransitInv
<1>6. ASSUME NEW n \in Node, NEW m \in Node, PushPull(n, m)
      PROVE  TransitInv'
    <2>1. \A msg \in net' : AuthenticEnvelope(msg.env)
        <3> DEFINE a == signEnvelope(n, LocalSnapshot(n, local[n]))
                   b == signEnvelope(m, LocalSnapshot(m, local[m]))
        <3>1. AuthenticEnvelope(a) /\ AuthenticEnvelope(b)
            BY SnapshotAuthentic
        <3>2. net' = net \cup {[to |-> m, env |-> a], [to |-> n, env |-> b]}
            BY <1>6 DEF PushPull
        <3> HIDE DEF a, b
        <3>3. \A msg \in net' : msg \in net \/ msg.env = a \/ msg.env = b
            BY <3>2
        <3> QED
            BY <3>1, <3>3 DEF TransitInv
    <2> QED
        BY <1>0, <1>3, <1>6, <2>1 DEF TransitInv, PushPull
<1>7. ASSUME NEW n \in Node, NEW m \in Node, GetBroadcasts(n, m)
      PROVE  TransitInv'
    <2> DEFINE k == IF Len(queue[n]) < BatchLimit THEN Len(queue[n]) ELSE BatchLimit
    <2>1. queue[n] \in Seq(Envelope) /\ Len(queue[n]) \in Nat
        BY <1>1
    <2>2. k \in 0..Len(queue[n])
        BY <2>1
    <2>3. /\ net' = net \cup {[to |-> m, env |-> queue[n][i]] : i \in 1..k}
          /\ queue' = [queue EXCEPT ![n] = SubSeq(queue[n], k + 1, Len(queue[n]))]
        BY <1>7 DEF GetBroadcasts
    <2> HIDE DEF k
    <2>8. ASSUME NEW msg \in net', msg \notin net
          PROVE  \E i \in 1..k : msg.env = queue[n][i]
        <3>1. \E i \in 1..k : msg = [to |-> m, env |-> queue[n][i]]
            BY <2>3, <2>8
        <3> QED
            BY <3>1
    <2>9. \A i \in 1..k : i \in 1..Len(queue[n])
        BY <2>1, <2>2
    <2>4. \A msg \in net' : AuthenticEnvelope(msg.env)
        BY <2>8, <2>9 DEF TransitInv
    <2>5. \A o \in Node : \A i \in 1..Len(queue'[o]) :
              \E j \in 1..Len(queue[o]) : queue'[o][i] = queue[o][j]
        <3> SUFFICES ASSUME NEW o \in Node, NEW i \in 1..Len(queue'[o])
                     PROVE  \E j \in 1..Len(queue[o]) : queue'[o][i] = queue[o][j]
            OBVIOUS
        <3>1. CASE o # n
            BY <1>1, <2>3, <3>1
        <3>2. CASE o = n
            <4>1. queue'[n] = SubSeq(queue[n], k + 1, Len(queue[n]))
                BY <1>1, <2>3
            <4>2. Len(queue'[n]) = Len(queue[n]) - k /\ i \in 1..(Len(queue[n]) - k)
                BY <2>1, <2>2, <3>2, <4>1
            <4>3. k + i \in 1..Len(queue[n]) /\ k + i = i + (k + 1) - 1
                BY <2>1, <2>2, <4>2
            <4>4. queue'[n][i] = queue[n][i + (k + 1) - 1]
                <5> DEFINE s == queue[n]
                           L == Len(queue[n])
                <5>1. k + 1 \in Int /\ L \in Int /\ \A j \in (k + 1)..L : s[j] \in Envelope
                    BY <2>1, <2>2
                <5>2. \A j \in 1..(L - (k + 1) + 1) : SubSeq(s, k + 1, L)[j] = s[(k + 1) + j - 1]
                    BY <5>1, SubSeqProperties
                <5>3. i \in 1..(L - (k + 1) + 1) /\ (k + 1) + i - 1 = i + (k + 1) - 1
                    BY <2>1, <2>2, <4>2
                <5> QED
                    BY <4>1, <5>2, <5>3
            <4> QED
                BY <3>2, <4>3, <4>4
        <3> QED
            BY <3>1, <3>2
    <2>6. \A o \in Node : \A i \in 1..Len(queue'[o]) : AuthenticEnvelope(queue'[o][i])
        <3>1. \A o \in Node : \A j \in 1..Len(queue[o]) : AuthenticEnvelope(queue[o][j])
            BY DEF TransitInv
        <3> QED
            BY <2>5, <3>1
    <2> QED
        BY <1>0, <2>4, <2>6 DEF TransitInv
<1>8. ASSUME NEW n \in Node, Stop(n)
      PROVE  TransitInv'
    <2>1. queue' = [queue EXCEPT ![n] = <<>>] /\ net' = net
        BY <1>8 DEF Stop
    <2>2. \A o \in Node : \A i \in 1..Len(queue'[o]) :
              i \in 1..Len(queue[o]) /\ queue'[o][i] = queue[o][i]
        BY <1>1, <2>1
    <2> QED
        BY <1>0, <1>4, <2>1, <2>2 DEF TransitInv
<1>9. ASSUME NEW t \in Thread, BroadcastState(t)
      PROVE  TransitInv'
    BY <1>1, <1>2, <1>4, <1>9 DEF TransitInv, BroadcastState
<1>10. ASSUME NEW n \in Node, Reannounce(n)
       PROVE  TransitInv'
    BY <1>2, <1>4, <1>10 DEF TransitInv, Reannounce
<1>11. CASE UNCHANGED <<queue, net>>
    BY <1>3, <1>4, <1>11 DEF TransitInv
<1> QED
    BY <1>5, <1>6, <1>7, <1>8, <1>9, <1>10, <1>11, Frames, ServiceGossipAssumption, ZenonT(60)
       DEF Next, vars, LeaveDone, Crash

\* What a merge leaves: the entries of other nodes, and services of the message
\* that were registered and are newer than what they replace.
Merged(msg) ==
    /\ msg.to \in Node
    /\ \A m \in Node \ {msg.to} : remote'[m] = remote[m]
    /\ \A x \in remote[msg.to] : x.node # msg.env.state.node => x \in remote'[msg.to]
    /\ \A x \in remote'[msg.to] :
          \/ x \in remote[msg.to] /\ x.node # msg.env.state.node
          \/ x \in remote[msg.to] /\ msg.env.state.node = msg.to
          \/ /\ x \in msg.env.state.services
             /\ x.node = msg.env.state.node /\ x.node # msg.to /\ Known(x)
             /\ ClusterOf[x.node] = ClusterOf[msg.to]
             /\ \A cur \in remote[msg.to] : SameKey(x, cur) => x.version > cur.version

\* That is what MergeRemoteState does with an envelope that passed its checks.
LEMMA MergeResult ==
    ASSUME TypeOK, TransitInv, RemoteInv, NEW msg \in net, ingestState(msg)
    PROVE  Merged(msg)
<1>1. /\ msg.to \in Node /\ remote \in [Node -> SUBSET Service]
      /\ msg \in Message
    BY Fields DEF TypeOK
<1>2. remote' = [remote EXCEPT ![msg.to] =
                    MergeRemoteState(msg.to, remote[msg.to], msg.env.state)]
    BY DEF ingestState
<1>3. remote'[msg.to] = MergeRemoteState(msg.to, remote[msg.to], msg.env.state)
    BY <1>1, <1>2
<1>4. \A m \in Node \ {msg.to} : remote'[m] = remote[m]
    BY <1>1, <1>2
<1>5. msg.env.cluster = ClusterOf[msg.to] /\ AuthenticEnvelope(msg.env)
    BY DEF ingestState, unwrapEnvelope, TransitInv
<1> QED
    BY <1>1, <1>3, <1>4, <1>5
       DEF Merged, MergeRemoteState, Accepted, svcIsNewer, AuthenticEnvelope, Authentic

\* The remote map of a registry holds registrations of other nodes of the cluster.
LEMMA RemoteStep == TypeOK /\ TransitInv /\ RemoteInv /\ [Next]_vars => RemoteInv'
<1> SUFFICES ASSUME TypeOK, TransitInv, RemoteInv, [Next]_vars PROVE RemoteInv'
    OBVIOUS
<1> USE ServiceGossipAssumption
<1>0. \A x : Known(x) => Known(x)'
    BY HistoryGrows, StaysAuthentic
<1>1. remote \in [Node -> SUBSET Service]
    BY DEF TypeOK
<1>2. ASSUME NEW msg \in net, ingestState(msg)
      PROVE  RemoteInv'
    <2> DEFINE n == msg.to
    <2>0. Merged(msg)
        BY <1>2, MergeResult
    <2>1. \A x \in remote'[n] :
              x.node # n /\ ClusterOf[x.node] = ClusterOf[n] /\ Known(x)
        BY <2>0 DEF Merged, RemoteInv
    <2>2. \A x, y \in msg.env.state.services : x.name = y.name => x = y
        BY DEF TransitInv, AuthenticEnvelope, Authentic
    <2>3. \A x, y \in remote'[n] : SameKey(x, y) => x = y
        <3> SUFFICES ASSUME NEW x \in remote'[n], NEW y \in remote'[n], SameKey(x, y)
                     PROVE  x = y
            OBVIOUS
        <3>1. CASE x \in remote[n] /\ y \in remote[n]
            BY <2>0, <3>1 DEF Merged, RemoteInv
        <3>2. CASE x \notin remote[n] /\ y \notin remote[n]
            BY <2>0, <2>2, <3>2 DEF Merged, SameKey
        <3>3. CASE x \in remote[n] /\ y \notin remote[n]
            BY <2>0, <2>2, <3>3 DEF Merged, SameKey
        <3>4. CASE x \notin remote[n] /\ y \in remote[n]
            BY <2>0, <2>2, <3>4 DEF Merged, SameKey
        <3> QED
            BY <3>1, <3>2, <3>3, <3>4
    <2> QED
        BY <1>0, <2>0, <2>1, <2>3 DEF Merged, RemoteInv
<1>3. ASSUME NEW n \in Node, PruneRemote(n)
      PROVE  RemoteInv'
    BY <1>0, <1>1, <1>3 DEF RemoteInv, PruneRemote, Prune
<1>6. ASSUME NEW q \in Request, Reply(q)
      PROVE  RemoteInv'
    <2>1. at[q] \in Node
        BY DEF TypeOK, Thread
    <2> QED
        BY <1>0, <1>1, <1>6, <2>1 DEF RemoteInv, Reply, Prune
<1>4. ASSUME NEW n \in Node, Stop(n)
      PROVE  RemoteInv'
    BY <1>0, <1>1, <1>4 DEF RemoteInv, Stop
<1>5. CASE UNCHANGED remote
    BY <1>0, <1>5 DEF RemoteInv
<1> QED
    BY <1>2, <1>3, <1>4, <1>5, <1>6, Frames, ServiceGossipAssumption
       DEF Next, vars, LeaveDone, Crash

\* The cluster starts in the invariant.
LEMMA InitInv == Init => IndInv
<1> SUFFICES ASSUME Init PROVE IndInv
    OBVIOUS
<1> USE ServiceGossipAssumption DEF Init
<1>1. TypeOK
    <2>1. at \in [Thread -> Node]
        BY DEF Thread
    <2>2. data \in [Thread -> LocalState]
        BY <2>1, StateTypes
    <2> QED
        BY <2>1, <2>2 DEF TypeOK, PC
<1>2. HistoryInv
    BY DEF HistoryInv, ServiceIDUnique
<1>3. LocalInv /\ RemoteInv
    BY DEF LocalInv, RemoteInv
<1>4. ThreadInv
    BY DEF ThreadInv, Thread
<1>5. TransitInv
    BY DEF TransitInv
<1> QED
    BY <1>1, <1>2, <1>3, <1>4, <1>5 DEF IndInv
-----------------------------------------------------------------------------
(* The theorems.                                                           *)

\* Every variable keeps its type in every behaviour of the cluster.
THEOREM TypeCorrect == Spec => []TypeOK
<1>1. Init => TypeOK
    BY InitInv DEF IndInv
<1> QED
    BY <1>1, TypeStep, PTL DEF Spec

\* The inductive invariant holds whatever is lost, repeated, reordered, crashed
\* or restarted.
THEOREM Invariance == Spec => []IndInv
<1>1. IndInv /\ [Next]_vars => IndInv'
    BY TypeStep, HistoryStep, LocalStep, ThreadStep, TransitStep, RemoteStep DEF IndInv
<1> QED
    BY <1>1, InitInv, PTL DEF Spec

\* A merged entry is always a service that another node registered.
THEOREM ProvenanceHolds == Spec => []Provenance
<1>1. IndInv => Provenance
    BY DEF IndInv, RemoteInv, Provenance
<1> QED
    BY <1>1, Invariance, PTL

\* No lookup returns a service of another cluster.
THEOREM ClusterIsolationHolds == Spec => []ClusterIsolation
<1>1. IndInv => ClusterIsolation
    BY DEF IndInv, RemoteInv, LocalInv, ClusterIsolation, FindByName, List, Prune
<1> QED
    BY <1>1, Invariance, PTL

\* A service id is given out once per run of its node.
THEOREM ServiceIDUniqueHolds == Spec => []ServiceIDUnique
<1>1. IndInv => ServiceIDUnique
    BY DEF IndInv, HistoryInv
<1> QED
    BY <1>1, Invariance, PTL

\* No lookup returns a remote service older than the TTL, up to clock skew.
THEOREM FreshListingHolds == Spec => []FreshListing
<1>1. IndInv => FreshListing
    <2> SUFFICES ASSUME IndInv, NEW n \in Node, NEW s \in Name,
                        NEW x \in FindByName(local[n], remote[n], s, Clock(n)) \ local[n]
                 PROVE  \E r \in registered :
                            r.svc = x /\ now - r.time <= TTL + Offset[x.node] - Offset[n]
        BY DEF FreshListing
    <2>1. x \in remote[n] /\ ~(Clock(n) > x.announced + x.ttl)
        BY DEF FindByName, List, Prune, Expired
    <2>2. PICK r \in registered : r.svc = x
        BY <2>1 DEF IndInv, RemoteInv, Known
    <2>3. x.ttl = TTL /\ x.announced = r.time + Offset[x.node]
        BY <2>2 DEF IndInv, HistoryInv, Recorded
    <2>4. /\ r.time \in Nat /\ now \in Nat /\ TTL \in Nat
          /\ x.node \in Node /\ Offset[x.node] \in Int /\ Offset[n] \in Int
        BY <2>2, RegistryAssumption, ServiceGossipAssumption
           DEF IndInv, TypeOK, Registration, Service
    <2> QED
        BY <2>1, <2>2, <2>3, <2>4 DEF Clock
<1> QED
    BY <1>1, Invariance, PTL

\* While an entry stays in a registry, its version does not go down.
THEOREM VersionMonotoneHolds == Spec => VersionMonotone
<1> DEFINE Monotone == \A n \in Node : \A x \in remote[n], y \in remote'[n] :
                           SameKey(x, y) => y.version >= x.version
<1>1. ASSUME IndInv, [Next]_vars PROVE Monotone
    <2>0. /\ remote \in [Node -> SUBSET Service]
          /\ \A n \in Node : \A x \in remote[n] : x.version \in Nat
          /\ \A n \in Node : \A x, y \in remote[n] : SameKey(x, y) => x = y
          /\ \A msg \in net : \A x \in msg.env.state.services : x.version \in Nat
        <3>1. \A x \in Service : x.version \in Nat
            BY DEF Service
        <3> QED
            BY <1>1, <3>1, Fields DEF IndInv, TypeOK, RemoteInv
    <2>1. ASSUME NEW msg \in net, ingestState(msg) PROVE Monotone
        <3>1. TypeOK /\ TransitInv /\ RemoteInv
            BY <1>1 DEF IndInv
        <3>3. Merged(msg)
            BY <2>1, <3>1, MergeResult
        <3>2. ASSUME NEW x \in remote[msg.to], NEW y \in remote'[msg.to], SameKey(x, y)
              PROVE  y.version >= x.version
            <4>0. msg.to \in Node
                BY <3>3 DEF Merged
            <4>1. CASE y \in remote[msg.to]
                <5>1. x = y /\ x.version \in Nat
                    BY <2>0, <3>2, <4>0, <4>1
                <5> QED
                    BY <5>1
            <4>2. CASE y \notin remote[msg.to]
                BY <2>0, <3>2, <3>3, <4>2 DEF Merged, SameKey
            <4> QED
                BY <4>1, <4>2
        <3>4. \A m \in Node \ {msg.to} : remote'[m] = remote[m]
            BY <3>3 DEF Merged
        <3>5. ASSUME NEW m \in Node \ {msg.to}, NEW x \in remote[m], NEW y \in remote'[m],
                     SameKey(x, y)
              PROVE  y.version >= x.version
            <4>1. y \in remote[m] /\ x.version \in Nat
                BY <2>0, <3>4
            <4>2. x = y
                BY <2>0, <3>5, <4>1
            <4> QED
                BY <4>1, <4>2
        <3> QED
            BY <3>2, <3>5
    <2>2. CASE \A n \in Node : remote'[n] \subseteq remote[n]
        BY <2>0, <2>2
    <2>3. ASSUME NEW n \in Node, PruneRemote(n) PROVE Monotone
        BY <2>0, <2>2, <2>3 DEF PruneRemote, Prune
    <2>6. ASSUME NEW q \in Request, Reply(q) PROVE Monotone
        <3>1. at[q] \in Node
            BY <1>1 DEF IndInv, TypeOK, Thread
        <3> QED
            BY <2>0, <2>2, <2>6, <3>1 DEF Reply, Prune
    <2>4. ASSUME NEW n \in Node, Stop(n) PROVE Monotone
        BY <2>0, <2>2, <2>4 DEF Stop
    <2>5. CASE UNCHANGED remote
        BY <2>2, <2>5
    <2> HIDE DEF Monotone
    <2>7. CASE \E n \in Stoppable : LeaveDone(n) \/ Crash(n)
        BY <2>4, <2>7, ServiceGossipAssumption DEF LeaveDone, Crash
    <2>8. CASE \E q \in Request, n \in Origin, s \in Name :
                   \/ \E e \in Endpoint : RegisterLocal(q, n, s, e)
                   \/ DeregisterLocal(q, n, s)
        BY <2>5, <2>8, Frames
    <2> QED
        BY <1>1, <2>1, <2>3, <2>5, <2>6, <2>7, <2>8, Frames
           DEF Next, vars
<1> QED
    BY <1>1, Invariance, PTL DEF Spec, VersionMonotone
-----------------------------------------------------------------------------
(* Gossip implements the directory.                                        *)

Published == {r.svc : r \in registered}

\* A step in which one node loses entries is a Forget.
LEMMA ForgetStep ==
    ASSUME NEW n \in Node, remote'[n] \subseteq remote[n], UNCHANGED registered,
           \A k \in Node \ {n} : remote'[k] = remote[k]
    PROVE  Listings!Next
<1>1. Listings!Forget(n)
    BY DEF Listings!Forget, Listings!OnlyAt
<1> QED
    BY <1>1 DEF Listings!Next

\* Every step of the cluster is a step of the directory, or changes nothing there.
LEMMA DirectoryStep == IndInv /\ [Next]_vars => [Listings!Next]_(Listings!vars)
<1> SUFFICES ASSUME IndInv, [Next]_vars PROVE [Listings!Next]_(Listings!vars)
    OBVIOUS
<1> USE ServiceGossipAssumption
<1>0. /\ TypeOK /\ TransitInv /\ RemoteInv
      /\ remote \in [Node -> SUBSET Service] /\ at \in [Thread -> Node]
      /\ \A n \in Node : \A x \in remote[n] : x.version \in Nat
      /\ \A msg \in net : \A x \in msg.env.state.services : x.version \in Nat
    <2>1. \A x \in Service : x.version \in Nat
        BY DEF Service
    <2> QED
        BY <2>1, Fields DEF IndInv, TypeOK
<1>1. ASSUME NEW q \in Request, NEW n \in Origin, NEW s \in Name, NEW e \in Endpoint,
             RegisterLocal(q, n, s, e)
      PROVE  Listings!Next
    <2> DEFINE svc == NewService(n, s, e, version[n][s] + 1, Clock(n))
               new == [svc |-> svc, incarnation |-> restarts[n], time |-> now]
    <2>1. registered' = registered \cup {new} /\ new.svc = svc
        BY <1>1 DEF RegisterLocal
    <2> HIDE DEF svc, new
    <2>2. Published' = Published \cup {svc}
        <3>1. Published' = {r.svc : r \in registered \cup {new}}
            BY <2>1 DEF Published
        <3> QED
            BY <2>1, <3>1 DEF Published
    <2>3. UNCHANGED remote
        BY <1>1 DEF RegisterLocal
    <2>4. Listings!Publish
        BY <2>2, <2>3 DEF Listings!Publish, Published
    <2> QED
        BY <2>4 DEF Listings!Next
<1>2. ASSUME NEW msg \in net, ingestState(msg)
      PROVE  [Listings!Next]_(Listings!vars)
    <2>0. Merged(msg) /\ UNCHANGED registered
        BY <1>0, <1>2, MergeResult DEF ingestState
    <2>1. CASE msg.env.state.node = msg.to
        <3>1. remote' = [remote EXCEPT ![msg.to] = remote[msg.to]]
            BY <1>2, <2>1 DEF ingestState, MergeRemoteState
        <3>2. UNCHANGED remote
            BY <1>0, <3>1
        <3> QED
            BY <2>0, <3>2 DEF Listings!vars
    <2>2. CASE msg.env.state.node # msg.to
        <3> DEFINE n == msg.to
                   m == msg.env.state.node
        <3>1. n \in Node /\ m \in Node
            BY <1>0, Fields DEF TypeOK
        <3>2. ClusterOf[m] = ClusterOf[n]
            BY <1>0, <1>2 DEF ingestState, unwrapEnvelope, TransitInv, AuthenticEnvelope
        <3>3. \A x \in remote[n] \cup remote'[n] :
                  x.node # m => x \in remote[n] /\ x \in remote'[n]
            BY <2>0 DEF Merged
        <3>4. \A x \in remote'[n] : x.node = m =>
                  /\ x \in Published
                  /\ x \in msg.env.state.services
                  /\ \A y \in remote[n] : y.node = m /\ y.name = x.name => x.version > y.version
            <4>1. \A x : Known(x) => x \in Published
                BY DEF Known, Published
            <4> QED
                BY <2>0, <2>2, <4>1 DEF Merged, SameKey
        <3>5. \A x \in remote'[n] : x.node = m =>
                  \A y \in remote[n] : y.node = m /\ y.name = x.name => x.version >= y.version
            BY <1>0, <3>1, <3>4
        <3>6. \A x, y \in msg.env.state.services : x.name = y.name => x = y
            BY <1>0 DEF TransitInv, AuthenticEnvelope, Authentic
        <3>7. Listings!OnlyAt(n)
            BY <2>0 DEF Merged, Listings!OnlyAt
        <3>8. PICK a \in Node, b \in Node : a = n /\ b = m
            BY <3>1
        <3>9. Listings!Learn(a, b)
            BY <2>0, <2>2, <3>2, <3>3, <3>4, <3>5, <3>6, <3>7, <3>8
               DEF Listings!Learn, Listings!OnlyAt, Published
        <3> QED
            BY <3>9 DEF Listings!Next
    <2> QED
        BY <2>1, <2>2
<1>3. ASSUME NEW n \in Node, PruneRemote(n) PROVE Listings!Next
    BY <1>0, <1>3, ForgetStep DEF PruneRemote, Prune
<1>4. ASSUME NEW q \in Request, Reply(q) PROVE Listings!Next
    <2>1. PICK n \in Node : n = at[q]
        BY <1>0 DEF Thread
    <2> QED
        BY <1>0, <1>4, <2>1, ForgetStep DEF Reply, Prune
<1>5. ASSUME NEW n \in Node, Stop(n) PROVE Listings!Next
    BY <1>0, <1>5, ForgetStep DEF Stop
<1>6. CASE UNCHANGED <<remote, registered>>
    BY <1>6 DEF Listings!vars
<1>7. CASE \E n \in Stoppable : LeaveDone(n) \/ Crash(n)
    BY <1>5, <1>7 DEF LeaveDone, Crash
<1>8. CASE \E q \in Request, n \in Origin, s \in Name :
               \/ \E e \in Endpoint : RegisterLocal(q, n, s, e)
               \/ DeregisterLocal(q, n, s)
    BY <1>1, <1>6, <1>8, Frames
<1> QED
    BY <1>2, <1>3, <1>4, <1>6, <1>7, <1>8, Frames DEF Next, vars

\* The cluster implements Directory: a node's listing of another node changes only
\* to services that node registered in this cluster, one per name and no older
\* than before, and without touching what is listed of anyone else.
THEOREM ImplementsDirectoryHolds == Spec => ImplementsDirectory
<1>1. Init => Listings!Init
    BY DEF Init, Listings!Init
<1> QED
    BY <1>1, DirectoryStep, Invariance, PTL DEF Spec, ImplementsDirectory, Listings!Spec
=============================================================================
