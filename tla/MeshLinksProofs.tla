-------------------------- MODULE MeshLinksProofs ---------------------------
(***************************************************************************)
(* Proofs about MeshLinks: the marks of connectMeshPeer, the dials and the *)
(* connections that own them, and the transport's map of peers, for any    *)
(* number of nodes, connections, restarts and broken connections.          *)
(***************************************************************************)
EXTENDS MeshLinks, TLAPS

\* The provers that a step tries, in this order, and the seconds each may take.
USE ZenonT(5), SMTT(30), SMTT(40), SMTT(50), ZenonT(60)

(* Records and functions, once, so that the steps below need not open them. *)

\* The fields of tasks and connections have their types.
LEMMA Fields ==
    /\ \A t \in Task : /\ t.peer \in Node /\ t.conn \in Conn \cup {NoConn}
                       /\ t.addr \in Addr \cup {NoAddr}
    /\ \A x \in Connection : /\ x.from \in Node /\ x.to \in Node
                             /\ x.stage \in [Side -> Stage] /\ x # NoConn
    /\ \A r \in Meta : r.peer \in Node /\ r.addr \in Addr
    /\ NoAddr \notin Addr
    BY MeshLinksAssumption DEF Task, Connection, Meta, Addr, Side, Stage

\* An end of a connection is not the marker for none.
LEMMA EndsDiffer == \A j \in Conn, z \in Side : <<j, z>> # NoEnd
    BY MeshLinksAssumption DEF Side

\* What the calls of connectMeshPeer write into their task is a task.
ClaimTask(t, p, a) == [t EXCEPT !.pc = "claim", !.peer = p, !.addr = a]
DialTask(t) == [t EXCEPT !.pc = "dial"]
HelloTask(t, k) == [t EXCEPT !.pc = "hello", !.conn = k]

\* A call that has returned, and the calls of a process that just started.
LEMMA IdleType ==
    ASSUME NEW n \in Node
    PROVE  /\ Idle(n) \in Task /\ Idle(n).pc = "idle"
           /\ \A c \in Caller : Starting(n)[c] \in Task /\ Starting(n)[c].pc \in {"start", "idle"}
<1>1. Idle(n) \in Task /\ Idle(n).pc = "idle"
    BY DEF Idle, Task
<1>2. ASSUME NEW c \in Caller
      PROVE  Starting(n)[c] \in Task /\ Starting(n)[c].pc \in {"start", "idle"}
    BY DEF Starting, Idle, Task
<1> QED
    BY <1>1, <1>2

\* A call that was given a member.
LEMMA ClaimType ==
    ASSUME NEW t \in Task, NEW p \in Node, NEW a \in Addr
    PROVE  /\ ClaimTask(t, p, a) \in Task /\ ClaimTask(t, p, a).pc = "claim"
           /\ ClaimTask(t, p, a).peer = p /\ ClaimTask(t, p, a).addr = a
    BY DEF ClaimTask, Task

\* A call that marked its peer.
LEMMA DialType ==
    ASSUME NEW t \in Task
    PROVE  /\ DialTask(t) \in Task /\ DialTask(t).pc = "dial"
           /\ DialTask(t).peer = t.peer /\ DialTask(t).addr = t.addr
    BY DEF DialTask, Task

\* A call that dialed.
LEMMA HelloType ==
    ASSUME NEW t \in Task, NEW k \in Conn
    PROVE  /\ HelloTask(t, k) \in Task /\ HelloTask(t, k).pc = "hello"
           /\ HelloTask(t, k).peer = t.peer /\ HelloTask(t, k).conn = k
    BY DEF HelloTask, Task

\* One task is replaced, the others stay.
LEMMA TaskPut ==
    ASSUME task \in [Node -> [Caller -> Task]], NEW n \in Node, NEW c \in Caller,
           NEW t \in Task, task' = [task EXCEPT ![n][c] = t]
    PROVE  /\ task' \in [Node -> [Caller -> Task]]
           /\ task'[n][c] = t
           /\ \A m \in Node, d \in Caller : m # n \/ d # c => task'[m][d] = task[m][d]
    OBVIOUS

\* One connection is replaced, the others stay.
LEMMA ConnPut ==
    ASSUME conn \in [Conn -> Connection \cup {NoConn}], NEW k \in Conn,
           NEW x \in Connection \cup {NoConn}, conn' = [conn EXCEPT ![k] = x]
    PROVE  /\ conn' \in [Conn -> Connection \cup {NoConn}]
           /\ conn'[k] = x
           /\ \A j \in Conn \ {k} : conn'[j] = conn[j]
    OBVIOUS

\* A connection whose stage on one side changes.
Staged(x, side, st) == [x EXCEPT !.stage[side] = st]

\* Such a change touches nothing else of the connection.
LEMMA StagedShape ==
    ASSUME NEW x \in Connection, NEW side \in Side, NEW st \in Stage
    PROVE  LET y == Staged(x, side, st)
           IN  /\ y \in Connection /\ y.from = x.from /\ y.to = x.to
               /\ y.stage[side] = st
               /\ \A z \in Side : z # side => y.stage[z] = x.stage[z]
    BY DEF Staged, Connection

\* Leave forgets a connection only when the other side is over, too.
LEMMA LeaveShape ==
    ASSUME NEW k \in Conn, conn[k] \in Connection, NEW side \in Side
    PROVE  LET y == Leave(k, side)
           IN  /\ y \in Connection \cup {NoConn}
               /\ y # NoConn => /\ y.from = conn[k].from /\ y.to = conn[k].to
                                /\ y.stage[side] = "none"
                                /\ \A z \in Side : z # side => y.stage[z] = conn[k].stage[z]
               /\ y = NoConn => \A z \in Side : z # side => conn[k].stage[z] = "none"
<1> DEFINE w == Staged(conn[k], side, "none")
<1>1. Leave(k, side) = IF \A z \in Side : w.stage[z] = "none" THEN NoConn ELSE w
    BY DEF Leave, Staged
<1>2. /\ w \in Connection /\ w.from = conn[k].from /\ w.to = conn[k].to
      /\ w.stage[side] = "none"
      /\ \A z \in Side : z # side => w.stage[z] = conn[k].stage[z]
    <2>1. "none" \in Stage
        BY DEF Stage
    <2> QED
        BY <2>1, StagedShape
<1> HIDE DEF w
<1>3. CASE \A z \in Side : w.stage[z] = "none"
    BY <1>1, <1>2, <1>3
<1>4. CASE ~\A z \in Side : w.stage[z] = "none"
    <2>1. Leave(k, side) = w /\ w # NoConn
        BY <1>1, <1>2, <1>4, Fields
    <2> QED
        BY <1>2, <2>1
<1> QED
    BY <1>3, <1>4
-----------------------------------------------------------------------------
(* Steps that leave one part of the invariant alone, told by what they do to *)
(* each task and each connection.                                            *)

Busy == {"dial", "hello"}

\* The dialing side of a connection is past the handshake and not yet reported.
Out(x) == x # NoConn /\ x.stage["out"] \in {"watch", "notify"}

\* A task holds the mark of the same peer as before, or of none as before.
SameMark(t, u) == /\ t.pc \in Busy <=> u.pc \in Busy
                  /\ t.pc \in Busy => t.peer = u.peer

SameOut(x, y) == /\ Out(x) <=> Out(y)
                 /\ Out(x) => x.from = y.from /\ x.to = y.to

\* Tasks that keep their marks leave the dials of a peer as they are.
LEMMA DialingSame ==
    ASSUME NEW n \in Node, NEW p \in Node,
           \A d \in Caller : SameMark(task[n][d], task'[n][d])
    PROVE  Dialing(n, p)' = Dialing(n, p)
    BY DEF SameMark, Busy, Dialing

\* Connections that keep their dialing side leave the links as they are.
LEMMA LinkedSame ==
    ASSUME \A k \in Conn : SameOut(conn[k], conn'[k])
    PROVE  \A n, p \in Node : Linked(n, p)' = Linked(n, p)
    BY DEF SameOut, Out, Linked

\* Then every mark has the same owner as before.
LEMMA KeepMarks ==
    ASSUME MarkInv, NoDuplicateDials, UNCHANGED meshConnected,
           \A n \in Node, d \in Caller : SameMark(task[n][d], task'[n][d]),
           \A k \in Conn : SameOut(conn[k], conn'[k])
    PROVE  MarkInv' /\ NoDuplicateDials'
<1>1. \A n, p \in Node : Dialing(n, p)' = Dialing(n, p)
    BY DialingSame
<1>2. \A n, p \in Node : Linked(n, p)' = Linked(n, p)
    BY LinkedSame
<1> QED
    BY <1>1, <1>2 DEF MarkInv, NoDuplicateDials

\* Addresses stay right when no new one is taken up.
LEMMA KeepAddr ==
    ASSUME AddrInv, UNCHANGED <<port, view>>,
           \A n \in Node : todo'[n] \subseteq todo[n],
           \A n \in Node, d \in Caller : task'[n][d].pc \in {"claim", "dial"} =>
               /\ task[n][d].pc \in {"claim", "dial"}
               /\ task'[n][d].addr = task[n][d].addr /\ task'[n][d].peer = task[n][d].peer
    PROVE  AddrInv'
    BY DEF AddrInv

\* The connection of a call that waits for its ack is left alone.
SameHello(x, y) == x # NoConn /\ x.stage["out"] = "hello" =>
                       /\ y # NoConn /\ y.stage["out"] = "hello"
                       /\ y.from = x.from /\ y.to = x.to

\* Calls that wait for an ack keep their connections.
LEMMA KeepConn ==
    ASSUME ConnInv,
           \A n \in Node, d \in Caller : task'[n][d].pc = "hello" =>
               task'[n][d] = task[n][d] /\ SameHello(conn[task[n][d].conn], conn'[task[n][d].conn]),
           \A k \in Conn : conn'[k] # NoConn =>
               conn[k] # NoConn /\ conn'[k].from = conn[k].from /\ conn'[k].to = conn[k].to
    PROVE  ConnInv'
<1>1. ASSUME NEW n \in Node, NEW d \in Caller, task'[n][d].pc = "hello"
      PROVE  LET k == task'[n][d].conn
             IN  /\ k \in Conn /\ conn'[k] # NoConn
                 /\ conn'[k].from = n /\ conn'[k].to = task'[n][d].peer
                 /\ conn'[k].stage["out"] = "hello"
    BY <1>1 DEF ConnInv, SameHello
<1>2. \A k \in Conn : conn'[k] # NoConn => conn'[k].from < conn'[k].to
    BY DEF ConnInv
<1> QED
    BY <1>1, <1>2 DEF ConnInv

\* A monitor that watches goes on watching.
SameWatch(x, y) ==
    x # NoConn => \A side \in Side : x.stage[side] = "watch" =>
        /\ y # NoConn /\ y.stage[side] = "watch"
        /\ y.from = x.from /\ y.to = x.to

\* An entry of the map stays watched when its connection does.
LEMMA KeepWatched ==
    ASSUME PeersWatched, UNCHANGED peers, \A k \in Conn : SameWatch(conn[k], conn'[k])
    PROVE  PeersWatched'
    BY DEF PeersWatched, SameWatch, Owner, Peer

\* The parts of the invariant that say that a task or a connection that does not
\* change is fine.
LEMMA Same ==
    /\ \A t : SameMark(t, t)
    /\ \A x : SameOut(x, x) /\ SameHello(x, x) /\ SameWatch(x, x)
    BY DEF SameMark, SameOut, SameHello, SameWatch
-----------------------------------------------------------------------------
(* One lemma per group of actions.                                         *)

Types ==
    /\ task \in [Node -> [Caller -> Task]]
    /\ conn \in [Conn -> Connection \cup {NoConn}]
    /\ peers \in [Node -> [Node -> End \cup {NoEnd}]]
    /\ view \in [Node -> [Node -> Addr \cup {NoAddr}]]
    /\ todo \in [Node -> SUBSET Meta]
    /\ port \in [Node -> Port] /\ Node \subseteq Nat
    /\ meshConnected \in [Node -> SUBSET Node]

\* What the steps below use of the invariant.
LEMMA Parts ==
    ASSUME LinkInv
    PROVE  Types /\ TypeOK /\ AddrInv /\ ConnInv /\ MarkInv /\ NoDuplicateDials /\ PeersWatched
    BY MeshLinksAssumption DEF LinkInv, TypeOK, Types

\* memberlist's callbacks change what is known of a member, and start a call.
LEMMA NotifyStep ==
    ASSUME LinkInv, NEW n \in Node, NEW m \in Node, NotifyMember(n, m) \/ NotifyLeave(n, m)
    PROVE  LinkInv'
<1> USE Parts
<1>0. MeshAddr(m) \in Addr /\ MeshAddr(m).port = port[m] /\ port[m] \in Ports[m]
    BY MeshLinksAssumption DEF MeshAddr, Addr, Types, AddrInv
<1>1. UNCHANGED <<up, port, meshConnected, peers, todo, conn, ended, faults>>
    BY DEF NotifyMember, NotifyLeave
<1>2. PICK a \in Addr \cup {NoAddr} :
          /\ view' = [view EXCEPT ![n][m] = a]
          /\ a # NoAddr => a.port \in Ports[m]
    BY <1>0, MeshLinksAssumption DEF NotifyMember, NotifyLeave
<1>3. /\ view' \in [Node -> [Node -> Addr \cup {NoAddr}]]
      /\ view'[n][m] = a
      /\ \A x, y \in Node : x # n \/ y # m => view'[x][y] = view[x][y]
    BY <1>2 DEF Types
<1>4. /\ task' \in [Node -> [Caller -> Task]]
      /\ \A x \in Node, d \in Caller :
             \/ task'[x][d] = task[x][d]
             \/ /\ task[x][d].pc = "idle" /\ task'[x][d].pc = "claim"
                /\ task'[x][d].addr # NoAddr /\ task'[x][d].addr.port \in Ports[task'[x][d].peer]
    <2>1. CASE UNCHANGED task
        BY <2>1 DEF Types
    <2>2. CASE ~UNCHANGED task
        <3> DEFINE t == ClaimTask(task[n]["event"], m, MeshAddr(m))
        <3>0. task[n]["event"] \in Task /\ "event" \in Caller
            BY DEF Types, Caller
        <3>1. task' = [task EXCEPT ![n]["event"] = t] /\ task[n]["event"].pc = "idle"
            BY <2>2 DEF NotifyMember, NotifyLeave, ClaimTask
        <3>2. t \in Task /\ t.pc = "claim" /\ t.peer = m /\ t.addr = MeshAddr(m)
            BY <1>0, <3>0, ClaimType
        <3> HIDE DEF t
        <3>3. /\ task' \in [Node -> [Caller -> Task]]
              /\ task'[n]["event"] = t
              /\ \A x \in Node, d \in Caller : x # n \/ d # "event" => task'[x][d] = task[x][d]
            BY <3>0, <3>1, <3>2, TaskPut DEF Types
        <3> QED
            BY <1>0, <3>1, <3>2, <3>3, Fields
    <2> QED
        BY <2>1, <2>2
<1>5. TypeOK'
    BY <1>1, <1>3, <1>4 DEF TypeOK
<1>6. AddrInv'
    <2>1. \A x, y \in Node : view'[x][y] # NoAddr => view'[x][y].port \in Ports[y]
        BY <1>2, <1>3 DEF AddrInv
    <2>2. \A x \in Node, d \in Caller : task'[x][d].pc \in {"claim", "dial"} =>
              task'[x][d].addr # NoAddr /\ task'[x][d].addr.port \in Ports[task'[x][d].peer]
        BY <1>4 DEF AddrInv
    <2> QED
        BY <1>1, <2>1, <2>2 DEF AddrInv
<1>7. ConnInv'
    BY <1>1, <1>4, KeepConn, Same
<1>8. \A x \in Node, d \in Caller : SameMark(task[x][d], task'[x][d])
    BY <1>4 DEF SameMark, Busy
<1>9. MarkInv' /\ NoDuplicateDials'
    BY <1>1, <1>8, KeepMarks, Same
<1>10. PeersWatched'
    BY <1>1, KeepWatched, Same
<1> QED
    BY <1>5, <1>6, <1>7, <1>9, <1>10 DEF LinkInv

\* The main goroutine takes a list of members, or starts a call for the next.
LEMMA LoopStep ==
    ASSUME LinkInv, NEW n \in Node,
           StartMembers(n) \/ MaintainTick(n) \/ (\E r \in todo[n] : NextMember(n, r))
    PROVE  LinkInv'
<1> USE Parts
<1>1. UNCHANGED <<up, port, view, meshConnected, peers, conn, ended, faults>>
    BY DEF StartMembers, MaintainTick, NextMember
<1>0. task[n]["main"] \in Task /\ "main" \in Caller
    BY DEF Types, Caller
<1>2. ASSUME NEW members \in SUBSET Members(n)
      PROVE  \A r \in Metas(n, members) :
                 r \in Meta /\ r.addr # NoAddr /\ r.addr.port \in Ports[r.peer]
    BY DEF Metas, Members, Meta, Types, AddrInv
<1>3. /\ todo' \in [Node -> SUBSET Meta]
      /\ \A x \in Node : \A r \in todo'[x] : r.addr # NoAddr /\ r.addr.port \in Ports[r.peer]
    <2>1. CASE StartMembers(n)
        BY <1>2, <2>1 DEF StartMembers, Types, AddrInv
    <2>2. CASE MaintainTick(n)
        <3> DEFINE ms == {m \in Members(n) : n < m /\ peers[n][m] = NoEnd}
        <3>1. ms \in SUBSET Members(n) /\ todo' = [todo EXCEPT ![n] = Metas(n, ms)]
            BY <2>2 DEF MaintainTick
        <3> HIDE DEF ms
        <3> QED
            BY <1>2, <3>1 DEF Types, AddrInv
    <2>3. CASE \E r \in todo[n] : NextMember(n, r)
        <3>1. PICK r \in todo[n] : todo' = [todo EXCEPT ![n] = todo[n] \ {r}]
            BY <2>3 DEF NextMember
        <3>2. todo' \in [Node -> SUBSET Meta] /\ \A x \in Node : todo'[x] \subseteq todo[x]
            BY <3>1 DEF Types
        <3> QED
            BY <3>2 DEF AddrInv
    <2> QED
        BY <2>1, <2>2, <2>3
<1>4. /\ task' \in [Node -> [Caller -> Task]]
      /\ \A x \in Node, d \in Caller :
             \/ task'[x][d] = task[x][d]
             \/ task[x][d].pc = "start" /\ task'[x][d].pc = "idle"
             \/ /\ task[x][d].pc = "idle" /\ task'[x][d].pc = "claim"
                /\ task'[x][d].addr # NoAddr /\ task'[x][d].addr.port \in Ports[task'[x][d].peer]
    <2>1. CASE StartMembers(n)
        <3>1. task' = [task EXCEPT ![n]["main"] = Idle(n)] /\ task[n]["main"].pc = "start"
            BY <2>1 DEF StartMembers
        <3>2. Idle(n) \in Task /\ Idle(n).pc = "idle"
            BY IdleType
        <3>3. /\ task' \in [Node -> [Caller -> Task]]
              /\ task'[n]["main"] = Idle(n)
              /\ \A x \in Node, d \in Caller : x # n \/ d # "main" => task'[x][d] = task[x][d]
            BY <1>0, <3>1, <3>2, TaskPut DEF Types
        <3> QED
            BY <3>1, <3>2, <3>3
    <2>2. CASE MaintainTick(n)
        BY <2>2 DEF MaintainTick, Types
    <2>3. ASSUME NEW r \in todo[n], NextMember(n, r)
          PROVE  <1>4!2 /\ task' \in [Node -> [Caller -> Task]]
        <3> DEFINE t == ClaimTask(task[n]["main"], r.peer, r.addr)
        <3>1. task' = [task EXCEPT ![n]["main"] = t] /\ task[n]["main"].pc = "idle"
            BY <2>3 DEF NextMember, ClaimTask
        <3>2. r.peer \in Node /\ r.addr \in Addr /\ r.addr # NoAddr /\ r.addr.port \in Ports[r.peer]
            BY Fields DEF Types, AddrInv
        <3>3. t \in Task /\ t.pc = "claim" /\ t.peer = r.peer /\ t.addr = r.addr
            BY <1>0, <3>2, ClaimType
        <3> HIDE DEF t
        <3>4. /\ task' \in [Node -> [Caller -> Task]]
              /\ task'[n]["main"] = t
              /\ \A x \in Node, d \in Caller : x # n \/ d # "main" => task'[x][d] = task[x][d]
            BY <1>0, <3>1, <3>3, TaskPut DEF Types
        <3> QED
            BY <3>1, <3>2, <3>3, <3>4
    <2> QED
        BY <2>1, <2>2, <2>3
<1>5. TypeOK'
    BY <1>1, <1>3, <1>4 DEF TypeOK
<1>6. AddrInv'
    <2>1. \A x \in Node, d \in Caller : task'[x][d].pc \in {"claim", "dial"} =>
              task'[x][d].addr # NoAddr /\ task'[x][d].addr.port \in Ports[task'[x][d].peer]
        BY <1>4 DEF AddrInv
    <2> QED
        BY <1>1, <1>3, <2>1 DEF AddrInv
<1>7. ConnInv'
    BY <1>1, <1>4, KeepConn, Same
<1>8. \A x \in Node, d \in Caller : SameMark(task[x][d], task'[x][d])
    BY <1>4 DEF SameMark, Busy
<1>9. MarkInv' /\ NoDuplicateDials'
    BY <1>1, <1>8, KeepMarks, Same
<1>10. PeersWatched'
    BY <1>1, KeepWatched, Same
<1> QED
    BY <1>5, <1>6, <1>7, <1>9, <1>10 DEF LinkInv

\* connectMeshPeer marks a peer that nobody dials or is linked to, or returns.
LEMMA ClaimStep ==
    ASSUME LinkInv, NEW n \in Node, NEW c \in Caller, Claim(n, c)
    PROVE  LinkInv'
<1> USE Parts
<1>0a. task[n][c] \in Task /\ task[n][c].peer \in Node /\ task[n][c].pc = "claim"
    BY Fields DEF Types, Claim
<1>0b. PICK p \in Node : p = task[n][c].peer
    BY <1>0a
<1>0. task[n][c] \in Task /\ p \in Node /\ task[n][c].pc = "claim" /\ p = task[n][c].peer
    BY <1>0a, <1>0b
<1>1. UNCHANGED <<up, port, view, peers, todo, conn, ended, faults>>
    BY DEF Claim
<1>2. PICK t \in Task :
          /\ task' = [task EXCEPT ![n][c] = t]
          /\ IF MayDial(n, p)
             THEN t.pc = "dial" /\ t.peer = p /\ t.addr = task[n][c].addr
             ELSE t.pc = "idle"
    <2>1. CASE MayDial(n, p)
        <3>1. task' = [task EXCEPT ![n][c] = DialTask(task[n][c])]
            BY <1>0, <2>1 DEF Claim, DialTask
        <3> QED
            BY <1>0, <2>1, <3>1, DialType
    <2>2. CASE ~MayDial(n, p)
        <3>1. task' = [task EXCEPT ![n][c] = Idle(n)]
            BY <1>0, <2>2 DEF Claim
        <3> QED
            BY <2>2, <3>1, IdleType
    <2> QED
        BY <2>1, <2>2
<1>3. /\ task' \in [Node -> [Caller -> Task]]
      /\ task'[n][c] = t
      /\ \A x \in Node, d \in Caller : x # n \/ d # c => task'[x][d] = task[x][d]
    BY <1>2, TaskPut DEF Types
<1>4. TypeOK'
    <2>1. meshConnected' \in [Node -> SUBSET Node]
        BY <1>0 DEF Claim, Types
    <2> QED
        BY <1>1, <1>3, <2>1 DEF TypeOK
<1>5. AddrInv'
    BY <1>0, <1>1, <1>2, <1>3, KeepAddr
<1>6. ConnInv'
    BY <1>1, <1>2, <1>3, KeepConn, Same
<1>7. PeersWatched'
    BY <1>1, KeepWatched, Same
<1>8. CASE ~MayDial(n, p)
    <2>1. UNCHANGED meshConnected
        BY <1>0, <1>8 DEF Claim, Types
    <2>2. \A x \in Node, d \in Caller : SameMark(task[x][d], task'[x][d])
        BY <1>0, <1>2, <1>3, <1>8 DEF SameMark, Busy
    <2>3. MarkInv' /\ NoDuplicateDials'
        BY <1>1, <2>1, <2>2, KeepMarks, Same
    <2> QED
        BY <1>4, <1>5, <1>6, <1>7, <2>3 DEF LinkInv
<1>9. CASE MayDial(n, p)
    <2>1. n < p /\ p \notin meshConnected[n]
        BY <1>9 DEF MayDial
    <2>2. /\ meshConnected'[n] = meshConnected[n] \cup {p}
          /\ \A x \in Node \ {n} : meshConnected'[x] = meshConnected[x]
        BY <1>0, <1>9 DEF Claim, Types
    <2>3. Dialing(n, p) = {} /\ Linked(n, p) = {}
        BY <1>0, <2>1 DEF MarkInv
    <2>4. \A x, y \in Node : Linked(x, y)' = Linked(x, y)
        BY <1>1, LinkedSame, Same
    <2>5. \A x, y \in Node : Dialing(x, y)' = IF x = n /\ y = p THEN {c} ELSE Dialing(x, y)
        <3>1. Dialing(n, p)' = {c}
            BY <1>0, <1>2, <1>3, <1>9, <2>3 DEF Dialing
        <3>2. ASSUME NEW x \in Node, NEW y \in Node, x # n \/ y # p
              PROVE  Dialing(x, y)' = Dialing(x, y)
            BY <1>0, <1>2, <1>3, <1>9, <3>2 DEF Dialing
        <3> QED
            BY <3>1, <3>2
    <2>6. MarkInv'
        BY <1>0, <2>1, <2>2, <2>3, <2>4, <2>5 DEF MarkInv
    <2>7. NoDuplicateDials'
        BY <1>0, <2>3, <2>4, <2>5 DEF NoDuplicateDials
    <2> QED
        BY <1>4, <1>5, <1>6, <1>7, <2>6, <2>7 DEF LinkInv
<1> QED
    BY <1>8, <1>9

\* A call that ends without a link takes its mark away: the mark was its own.
LEMMA FailStep ==
    ASSUME LinkInv, NEW n \in Node, NEW c \in Caller, DialFails(n, c) \/ HandshakeFails(n, c)
    PROVE  LinkInv'
<1> USE Parts
<1> DEFINE k == task[n][c].conn
<1>0a. task[n][c] \in Task /\ task[n][c].peer \in Node /\ task[n][c].pc \in Busy
    BY Fields DEF Types, DialFails, HandshakeFails, Busy
<1>0b. PICK p \in Node : p = task[n][c].peer
    BY <1>0a
<1>0. task[n][c] \in Task /\ p \in Node /\ task[n][c].pc \in Busy /\ p = task[n][c].peer
    BY <1>0a, <1>0b
<1>1. UNCHANGED <<up, port, view, peers, todo, faults>>
    BY DEF DialFails, HandshakeFails
<1>2. /\ task' = [task EXCEPT ![n][c] = Idle(n)]
      /\ meshConnected' = [meshConnected EXCEPT ![n] = meshConnected[n] \ {p}]
    BY <1>0 DEF DialFails, HandshakeFails, ConnectFails
<1>3. /\ task' \in [Node -> [Caller -> Task]]
      /\ task'[n][c].pc = "idle"
      /\ \A x \in Node, d \in Caller : x # n \/ d # c => task'[x][d] = task[x][d]
    BY <1>2, IdleType, TaskPut DEF Types
<1>4. Dialing(n, p) = {c} /\ Linked(n, p) = {}
    <2>1. c \in Dialing(n, p)
        BY <1>0 DEF Dialing, Busy
    <2>2. Dialing(n, p) \subseteq Caller /\ Linked(n, p) \subseteq Conn
        BY DEF Dialing, Linked
    <2>3. \A x, y \in Dialing(n, p) \cup Linked(n, p) : x = y
        BY DEF NoDuplicateDials
    <2>4. c \notin Conn
        BY MeshLinksAssumption DEF Caller
    <2> QED
        BY <2>1, <2>2, <2>3, <2>4
<1>5. /\ conn' \in [Conn -> Connection \cup {NoConn}]
      /\ \A j \in Conn : SameOut(conn[j], conn'[j]) /\ SameWatch(conn[j], conn'[j])
      /\ \A j \in Conn : conn'[j] # NoConn =>
             conn[j] # NoConn /\ conn'[j].from = conn[j].from /\ conn'[j].to = conn[j].to
      /\ \A j \in Conn : j # k \/ task[n][c].pc # "hello" => conn'[j] = conn[j]
    <2>1. CASE DialFails(n, c)
        BY <2>1, Same DEF DialFails, Types
    <2>2. CASE HandshakeFails(n, c)
        <3>1. /\ task[n][c].pc = "hello" /\ k \in Conn /\ conn[k] # NoConn
              /\ conn[k].stage["out"] = "hello"
            BY <2>2, ZenonT(60) DEF HandshakeFails, ConnInv
        <3>2. conn[k] \in Connection /\ "out" \in Side
            BY <3>1 DEF Types, Side
        <3>3. conn' = [conn EXCEPT ![k] = Leave(k, "out")]
            BY <2>2 DEF HandshakeFails
        <3>4. LET y == Leave(k, "out")
              IN  /\ y \in Connection \cup {NoConn}
                  /\ y # NoConn => /\ y.from = conn[k].from /\ y.to = conn[k].to
                                   /\ y.stage["out"] = "none"
                                   /\ \A z \in Side : z # "out" => y.stage[z] = conn[k].stage[z]
                  /\ y = NoConn => \A z \in Side : z # "out" => conn[k].stage[z] = "none"
            BY <3>1, <3>2, LeaveShape
        <3>5. /\ conn' \in [Conn -> Connection \cup {NoConn}]
              /\ conn'[k] = Leave(k, "out")
              /\ \A j \in Conn \ {k} : conn'[j] = conn[j]
            BY <3>1, <3>3, <3>4, ConnPut DEF Types
        <3>6. SameOut(conn[k], conn'[k]) /\ SameWatch(conn[k], conn'[k])
            BY <3>1, <3>4, <3>5 DEF SameOut, Out, SameWatch
        <3> QED
            BY <3>1, <3>4, <3>5, <3>6, Same
    <2> QED
        BY <2>1, <2>2
<1>6. TypeOK'
    <2>1. ended' \subseteq End
        BY DEF DialFails, HandshakeFails, Kept, TypeOK
    <2>2. meshConnected' \in [Node -> SUBSET Node]
        BY <1>2 DEF Types
    <2> QED
        BY <1>1, <1>3, <1>5, <2>1, <2>2 DEF TypeOK
<1>7. AddrInv'
    BY <1>1, <1>3, KeepAddr
<1>8. ConnInv'
    <2>1. ASSUME NEW x \in Node, NEW d \in Caller, task'[x][d].pc = "hello"
          PROVE  task'[x][d] = task[x][d] /\ SameHello(conn[task[x][d].conn], conn'[task[x][d].conn])
        <3>1. task'[x][d] = task[x][d] /\ (x # n \/ d # c)
            BY <1>3, <2>1
        <3>2. CASE task[n][c].pc = "hello" /\ task[x][d].conn = k
            <4>1. x = n /\ task[x][d].peer = p
                BY <1>0, <2>1, <3>1, <3>2 DEF ConnInv
            <4>2. d \in Dialing(n, p)
                BY <2>1, <3>1, <4>1 DEF Dialing
            <4> QED
                BY <1>4, <3>1, <4>1, <4>2
        <3>3. CASE task[n][c].pc # "hello" \/ task[x][d].conn # k
            <4>1. task[x][d].conn \in Conn
                BY <2>1, <3>1 DEF ConnInv
            <4> QED
                BY <1>5, <3>1, <3>3, <4>1, Same
        <3> QED
            BY <3>2, <3>3
    <2> QED
        BY <1>5, <2>1, KeepConn
<1>9. MarkInv' /\ NoDuplicateDials'
    <2>1. \A x, y \in Node : Linked(x, y)' = Linked(x, y)
        BY <1>5, LinkedSame
    <2>2. Dialing(n, p)' = {}
        BY <1>3, <1>4 DEF Dialing
    <2>3. ASSUME NEW x \in Node, NEW y \in Node, x # n \/ y # p
          PROVE  Dialing(x, y)' = Dialing(x, y)
        BY <1>0, <1>3, <2>3 DEF Dialing
    <2>4. /\ meshConnected'[n] = meshConnected[n] \ {p}
          /\ \A x \in Node \ {n} : meshConnected'[x] = meshConnected[x]
        BY <1>2 DEF Types
    <2>5. MarkInv'
        BY <1>0, <1>4, <2>1, <2>2, <2>3, <2>4 DEF MarkInv
    <2>6. NoDuplicateDials'
        BY <1>4, <2>1, <2>2, <2>3 DEF NoDuplicateDials
    <2> QED
        BY <2>5, <2>6
<1>10. PeersWatched'
    BY <1>1, <1>5, KeepWatched
<1> QED
    BY <1>6, <1>7, <1>8, <1>9, <1>10 DEF LinkInv

\* A dial is answered by the peer it is for, where no two nodes share a port.
LEMMA DialStep ==
    ASSUME LinkInv, PortsDisjoint, NEW n \in Node, NEW c \in Caller, Dial(n, c)
    PROVE  LinkInv'
<1> USE Parts
<1>0. task[n][c] \in Task /\ task[n][c].peer \in Node /\ task[n][c].pc = "dial"
    BY Fields DEF Types, Dial
<1>1. UNCHANGED <<up, port, view, meshConnected, peers, todo, ended, faults>>
    BY DEF Dial
<1> DEFINE Fresh(m) == [from |-> n, to |-> m, stage |-> [z \in Side |-> "hello"], ack |-> 0]
<1>2. PICK m \in Node, k \in Conn :
          /\ Answers(n, ResolveHost(task[n][c].addr), m)
          /\ conn[k] = NoConn
          /\ conn' = [conn EXCEPT ![k] = Fresh(m)]
          /\ task' = [task EXCEPT ![n][c] = HelloTask(task[n][c], k)]
    BY DEF Dial, HelloTask
<1>3. m = task[n][c].peer
    <2>1. task[n][c].addr \in Addr /\ task[n][c].addr.port \in Ports[task[n][c].peer]
        BY <1>0, Fields DEF AddrInv
    <2>2. ResolveHost(task[n][c].addr).port = task[n][c].addr.port
        BY <2>1 DEF ResolveHost, Addr
    <2>3. port[m] = task[n][c].addr.port /\ port[m] \in Ports[m]
        BY <1>2, <2>2 DEF Answers, AddrInv
    <2> QED
        BY <1>0, <2>1, <2>3 DEF PortsDisjoint
<1>4. n < m
    <2>1. c \in Dialing(n, m)
        BY <1>0, <1>3 DEF Dialing
    <2> QED
        BY <2>1 DEF MarkInv
<1>5. /\ Fresh(m) \in Connection /\ Fresh(m).from = n /\ Fresh(m).to = m
      /\ Fresh(m) # NoConn /\ \A z \in Side : Fresh(m).stage[z] = "hello"
    <2>1. Fresh(m) \in Connection
        BY DEF Connection, Stage
    <2> QED
        BY <2>1, Fields
<1> HIDE DEF Fresh
<1>6. /\ conn' \in [Conn -> Connection \cup {NoConn}]
      /\ conn'[k] = Fresh(m)
      /\ \A j \in Conn \ {k} : conn'[j] = conn[j]
    BY <1>2, <1>5, ConnPut DEF Types
<1>7. /\ HelloTask(task[n][c], k) \in Task /\ HelloTask(task[n][c], k).pc = "hello"
      /\ HelloTask(task[n][c], k).peer = m /\ HelloTask(task[n][c], k).conn = k
    BY <1>0, <1>3, HelloType
<1>8. /\ task' \in [Node -> [Caller -> Task]]
      /\ task'[n][c].pc = "hello" /\ task'[n][c].peer = m /\ task'[n][c].conn = k
      /\ \A x \in Node, d \in Caller : x # n \/ d # c => task'[x][d] = task[x][d]
    <2>1. /\ task' \in [Node -> [Caller -> Task]]
          /\ task'[n][c] = HelloTask(task[n][c], k)
          /\ \A x \in Node, d \in Caller : x # n \/ d # c => task'[x][d] = task[x][d]
        BY <1>2, <1>7, TaskPut DEF Types
    <2> QED
        BY <1>7, <2>1
<1>9. TypeOK'
    BY <1>1, <1>6, <1>8 DEF TypeOK
<1>10. AddrInv'
    BY <1>1, <1>8, KeepAddr
<1>11. ConnInv'
    <2>1. ASSUME NEW x \in Node, NEW d \in Caller, task'[x][d].pc = "hello", x # n \/ d # c
          PROVE  LET j == task'[x][d].conn
                 IN  /\ j \in Conn /\ conn'[j] # NoConn
                     /\ conn'[j].from = x /\ conn'[j].to = task'[x][d].peer
                     /\ conn'[j].stage["out"] = "hello"
        <3>1. task'[x][d] = task[x][d]
            BY <1>8, <2>1
        <3>2. task[x][d].conn \in Conn /\ conn[task[x][d].conn] # NoConn
            BY <2>1, <3>1 DEF ConnInv
        <3>3. conn'[task[x][d].conn] = conn[task[x][d].conn]
            BY <1>2, <1>6, <3>2
        <3>4. LET j == task[x][d].conn
              IN  conn[j].from = x /\ conn[j].to = task[x][d].peer /\ conn[j].stage["out"] = "hello"
            BY <2>1, <3>1 DEF ConnInv
        <3> QED
            BY <3>1, <3>2, <3>3, <3>4
    <2>2. \A j \in Conn : conn'[j] # NoConn => conn'[j].from < conn'[j].to
        BY <1>4, <1>5, <1>6 DEF ConnInv
    <2>3. LET j == task'[n][c].conn
          IN  /\ j \in Conn /\ conn'[j] # NoConn
              /\ conn'[j].from = n /\ conn'[j].to = task'[n][c].peer
              /\ conn'[j].stage["out"] = "hello"
        <3>1. "out" \in Side
            BY DEF Side
        <3> QED
            BY <1>5, <1>6, <1>8, <3>1
    <2>4. \A x \in Node, d \in Caller : task'[x][d].pc = "hello" =>
              LET j == task'[x][d].conn
              IN  /\ j \in Conn /\ conn'[j] # NoConn
                  /\ conn'[j].from = x /\ conn'[j].to = task'[x][d].peer
                  /\ conn'[j].stage["out"] = "hello"
        <3> SUFFICES ASSUME NEW x \in Node, NEW d \in Caller, task'[x][d].pc = "hello"
                     PROVE  LET j == task'[x][d].conn
                            IN  /\ j \in Conn /\ conn'[j] # NoConn
                                /\ conn'[j].from = x /\ conn'[j].to = task'[x][d].peer
                                /\ conn'[j].stage["out"] = "hello"
            OBVIOUS
        <3>1. CASE x = n /\ d = c
            BY <2>3, <3>1
        <3>2. CASE x # n \/ d # c
            BY <2>1, <3>2
        <3> QED
            BY <3>1, <3>2
    <2> QED
        BY <2>2, <2>4 DEF ConnInv
<1>12. MarkInv' /\ NoDuplicateDials'
    <2>1. \A x \in Node, d \in Caller : SameMark(task[x][d], task'[x][d])
        BY <1>0, <1>3, <1>8 DEF SameMark, Busy
    <2>2. \A j \in Conn : SameOut(conn[j], conn'[j])
        BY <1>2, <1>5, <1>6, Same DEF SameOut, Out, Side
    <2> QED
        BY <1>1, <2>1, <2>2, KeepMarks
<1>13. PeersWatched'
    <2>1. \A j \in Conn : SameWatch(conn[j], conn'[j])
        BY <1>2, <1>6, Same DEF SameWatch
    <2> QED
        BY <1>1, <2>1, KeepWatched
<1> QED
    BY <1>9, <1>10, <1>11, <1>12, <1>13 DEF LinkInv

\* The accepting side answers or refuses, or a connection ends at one side.
LEMMA InboundStep ==
    ASSUME LinkInv, NEW k \in Conn, NEW side \in Side,
           HandshakeInbound(k) \/ RefuseInbound(k) \/ Break(k, side) \/ Notice(k, side)
    PROVE  LinkInv'
<1> USE Parts
<1>1. UNCHANGED <<up, port, view, meshConnected, peers, task, todo>>
    BY DEF HandshakeInbound, RefuseInbound, Break, Notice
<1>2. ended' \subseteq End /\ faults' \in 0..MaxFaults
    BY MeshLinksAssumption
       DEF HandshakeInbound, RefuseInbound, Break, Notice, TypeOK, End, Side, Kept
<1>3. PICK x \in Connection \cup {NoConn} :
          /\ conn' = [conn EXCEPT ![k] = x]
          /\ SameOut(conn[k], x) /\ SameWatch(conn[k], x) /\ SameHello(conn[k], x)
          /\ x # NoConn => conn[k] # NoConn /\ x.from = conn[k].from /\ x.to = conn[k].to
    <2>1. CASE UNCHANGED conn
        <3>1. conn' = [conn EXCEPT ![k] = conn[k]] /\ conn[k] \in Connection \cup {NoConn}
            BY <2>1 DEF Types
        <3> QED
            BY <3>1, Same
    <2>2. CASE HandshakeInbound(k)
        <3> DEFINE x == [Staged(conn[k], "in", "acked") EXCEPT !.ack = 1]
        <3>1. conn[k] \in Connection /\ conn[k].stage["in"] = "hello" /\ conn[k] # NoConn
            BY <2>2 DEF HandshakeInbound, Types
        <3>2. conn' = [conn EXCEPT ![k] = x]
            BY <2>2, <3>1 DEF HandshakeInbound, Staged
        <3>3. LET y == Staged(conn[k], "in", "acked")
              IN  /\ y \in Connection /\ y.from = conn[k].from /\ y.to = conn[k].to
                  /\ y.stage["in"] = "acked" /\ y.stage["out"] = conn[k].stage["out"]
            BY <3>1, StagedShape DEF Side, Stage
        <3>4. ASSUME NEW y \in Connection
              PROVE  LET z == [y EXCEPT !.ack = 1]
                     IN  z \in Connection /\ z.from = y.from /\ z.to = y.to /\ z.stage = y.stage
            BY DEF Connection
        <3>5. /\ x \in Connection /\ x.from = conn[k].from /\ x.to = conn[k].to
              /\ x.stage["in"] = "acked" /\ x.stage["out"] = conn[k].stage["out"]
            BY <3>3, <3>4
        <3> HIDE DEF x
        <3>6. x # NoConn
            BY <3>5, Fields
        <3>7. SameOut(conn[k], x) /\ SameWatch(conn[k], x) /\ SameHello(conn[k], x)
            BY <3>1, <3>5, <3>6 DEF SameOut, Out, SameWatch, SameHello, Side
        <3> QED
            BY <3>1, <3>2, <3>5, <3>6, <3>7
    <2>3. CASE RefuseInbound(k)
        <3>1. conn[k] \in Connection /\ conn[k].stage["in"] = "hello" /\ conn[k] # NoConn
            BY <2>3 DEF RefuseInbound, Types
        <3>2. LET y == Leave(k, "in")
              IN  /\ y \in Connection \cup {NoConn}
                  /\ y # NoConn => /\ y.from = conn[k].from /\ y.to = conn[k].to
                                   /\ y.stage["in"] = "none"
                                   /\ y.stage["out"] = conn[k].stage["out"]
                  /\ y = NoConn => conn[k].stage["out"] = "none"
            BY <3>1, LeaveShape DEF Side
        <3>3. SameOut(conn[k], Leave(k, "in")) /\ SameWatch(conn[k], Leave(k, "in"))
              /\ SameHello(conn[k], Leave(k, "in"))
            BY <3>1, <3>2 DEF SameOut, Out, SameWatch, SameHello, Side
        <3> QED
            BY <2>3, <3>1, <3>2, <3>3 DEF RefuseInbound
    <2> QED
        BY <2>1, <2>2, <2>3 DEF Break, Notice
<1>4. /\ conn' \in [Conn -> Connection \cup {NoConn}]
      /\ conn'[k] = x
      /\ \A j \in Conn \ {k} : conn'[j] = conn[j]
    BY <1>3, ConnPut DEF Types
<1>5. /\ \A j \in Conn : /\ SameOut(conn[j], conn'[j]) /\ SameWatch(conn[j], conn'[j])
                         /\ SameHello(conn[j], conn'[j])
      /\ \A j \in Conn : conn'[j] # NoConn =>
             conn[j] # NoConn /\ conn'[j].from = conn[j].from /\ conn'[j].to = conn[j].to
    BY <1>3, <1>4, Same
<1>6. TypeOK'
    BY <1>1, <1>2, <1>4 DEF TypeOK
<1>7. AddrInv'
    BY <1>1, KeepAddr
<1>8. ConnInv'
    <2>1. \A x1 \in Node, d \in Caller : task[x1][d].pc = "hello" => task[x1][d].conn \in Conn
        BY DEF ConnInv
    <2> QED
        BY <1>1, <1>5, <2>1, KeepConn
<1>9. MarkInv' /\ NoDuplicateDials'
    BY <1>1, <1>5, KeepMarks, Same
<1>10. PeersWatched'
    BY <1>1, <1>5, KeepWatched
<1> QED
    BY <1>6, <1>7, <1>8, <1>9, <1>10 DEF LinkInv

\* addPeer puts one end into the map.
LEMMA AddPeerEffect ==
    ASSUME TypeOK, NEW n \in Node, NEW p \in Node, NEW e \in End, AddPeer(n, p, e)
    PROVE  /\ peers' \in [Node -> [Node -> End \cup {NoEnd}]]
           /\ ended' \subseteq End
           /\ peers'[n][p] = e
           /\ \A x, y \in Node : x # n \/ y # p => peers'[x][y] = peers[x][y]
    BY DEF AddPeer, TypeOK

\* An end that is put into the map with its monitor started is watched.
LEMMA PutWatched ==
    ASSUME PeersWatched, NEW n \in Node, NEW p \in Node, NEW k \in Conn, NEW side \in Side,
           peers'[n][p] = <<k, side>>,
           \A x, y \in Node : x # n \/ y # p => peers'[x][y] = peers[x][y],
           \A j \in Conn : SameWatch(conn[j], conn'[j]),
           conn'[k] # NoConn, conn'[k].stage[side] = "watch",
           Owner(conn'[k], side) = n, Peer(conn'[k], side) = p
    PROVE  PeersWatched'
<1> SUFFICES ASSUME NEW x \in Node, NEW y \in Node, NEW j \in Conn, NEW z \in Side,
                    peers'[x][y] = <<j, z>>
             PROVE  /\ conn'[j] # NoConn /\ conn'[j].stage[z] = "watch"
                    /\ Owner(conn'[j], z) = x /\ Peer(conn'[j], z) = y
    BY DEF PeersWatched
<1>1. CASE x = n /\ y = p
    BY <1>1
<1>2. CASE x # n \/ y # p
    <2>1. /\ conn[j] # NoConn /\ conn[j].stage[z] = "watch"
          /\ Owner(conn[j], z) = x /\ Peer(conn[j], z) = y
        BY <1>2 DEF PeersWatched
    <2> QED
        BY <2>1 DEF SameWatch, Owner, Peer
<1> QED
    BY <1>1, <1>2

\* handleInbound adds the peer that the handshake returned.
LEMMA AcceptStep ==
    ASSUME LinkInv, NEW k \in Conn, AcceptPeer(k)
    PROVE  LinkInv'
<1> USE Parts
<1>0. conn[k] \in Connection /\ conn[k] # NoConn /\ conn[k].stage["in"] = "acked"
    BY DEF AcceptPeer, Types
<1>1. UNCHANGED <<up, port, view, meshConnected, task, todo, faults>>
    BY DEF AcceptPeer
<1>2. PICK n \in Node, p \in Node : n = conn[k].to /\ p = conn[k].from
    BY <1>0, Fields
<1>3. conn' = [conn EXCEPT ![k] = Staged(conn[k], "in", "watch")]
    BY <1>0 DEF AcceptPeer, Staged
<1>4. LET y == Staged(conn[k], "in", "watch")
      IN  /\ y \in Connection /\ y.from = p /\ y.to = n
          /\ y.stage["in"] = "watch" /\ y.stage["out"] = conn[k].stage["out"]
    BY <1>0, <1>2, StagedShape DEF Side, Stage
<1>5. /\ conn' \in [Conn -> Connection \cup {NoConn}]
      /\ conn'[k] \in Connection /\ conn'[k] # NoConn
      /\ conn'[k].from = p /\ conn'[k].to = n
      /\ conn'[k].stage["in"] = "watch" /\ conn'[k].stage["out"] = conn[k].stage["out"]
      /\ \A j \in Conn \ {k} : conn'[j] = conn[j]
    <2>1. /\ conn' \in [Conn -> Connection \cup {NoConn}]
          /\ conn'[k] = Staged(conn[k], "in", "watch")
          /\ \A j \in Conn \ {k} : conn'[j] = conn[j]
        BY <1>3, <1>4, ConnPut DEF Types
    <2> QED
        BY <1>4, <2>1, Fields
<1>6. SameOut(conn[k], conn'[k]) /\ SameHello(conn[k], conn'[k]) /\ SameWatch(conn[k], conn'[k])
    BY <1>0, <1>2, <1>5 DEF SameOut, Out, SameHello, SameWatch, Side
<1>7. \A j \in Conn : /\ SameOut(conn[j], conn'[j]) /\ SameHello(conn[j], conn'[j])
                      /\ SameWatch(conn[j], conn'[j])
    BY <1>5, <1>6, Same
<1>8. <<k, "in">> \in End /\ "in" \in Side
    BY DEF End, Side
<1>9. /\ peers' \in [Node -> [Node -> End \cup {NoEnd}]] /\ ended' \subseteq End
      /\ peers'[n][p] = <<k, "in">>
      /\ \A x, y \in Node : x # n \/ y # p => peers'[x][y] = peers[x][y]
    <2>1. AddPeer(n, p, <<k, "in">>)
        BY <1>2 DEF AcceptPeer
    <2> QED
        BY <1>8, <2>1, AddPeerEffect
<1>10. TypeOK'
    BY <1>1, <1>5, <1>9 DEF TypeOK
<1>11. AddrInv'
    BY <1>1, KeepAddr
<1>12. ConnInv'
    <2>1. \A x \in Node, d \in Caller : task[x][d].pc = "hello" => task[x][d].conn \in Conn
        BY DEF ConnInv
    <2>2. \A j \in Conn : conn'[j] # NoConn =>
              conn[j] # NoConn /\ conn'[j].from = conn[j].from /\ conn'[j].to = conn[j].to
        BY <1>0, <1>2, <1>5
    <2> QED
        BY <1>1, <1>7, <2>1, <2>2, KeepConn
<1>13. MarkInv' /\ NoDuplicateDials'
    BY <1>1, <1>7, KeepMarks, Same
<1>14. PeersWatched'
    <2>1. Owner(conn'[k], "in") = n /\ Peer(conn'[k], "in") = p
        BY <1>5 DEF Owner, Peer
    <2> QED
        BY <1>5, <1>7, <1>8, <1>9, <2>1, PutWatched
<1> QED
    BY <1>10, <1>11, <1>12, <1>13, <1>14 DEF LinkInv

\* Connect adds the peer: the mark passes from the call to the connection.
LEMMA ConnectStep ==
    ASSUME LinkInv, NEW n \in Node, NEW c \in Caller, ConnectPeer(n, c)
    PROVE  LinkInv'
<1> USE Parts
<1>0. PICK k \in Conn, p \in Node :
          /\ k = task[n][c].conn /\ p = task[n][c].peer
          /\ task[n][c] \in Task /\ task[n][c].pc = "hello"
          /\ conn[k] \in Connection /\ conn[k] # NoConn /\ conn[k].stage["out"] = "hello"
          /\ conn[k].from = n /\ conn[k].to = p
    <2>1. task[n][c] \in Task /\ task[n][c].pc = "hello" /\ task[n][c].peer \in Node
        BY Fields DEF ConnectPeer, Types
    <2>2. /\ task[n][c].conn \in Conn /\ conn[task[n][c].conn] # NoConn
          /\ conn[task[n][c].conn].from = n /\ conn[task[n][c].conn].to = task[n][c].peer
          /\ conn[task[n][c].conn].stage["out"] = "hello"
        BY <2>1 DEF ConnInv
    <2>3. conn[task[n][c].conn] \in Connection
        BY <2>2 DEF Types
    <2> QED
        BY <2>1, <2>2, <2>3
<1>1. UNCHANGED <<up, port, view, meshConnected, todo, faults>>
    BY DEF ConnectPeer
<1>2. conn' = [conn EXCEPT ![k] = Staged(conn[k], "out", "watch")]
    BY <1>0 DEF ConnectPeer, Staged
<1>3. LET y == Staged(conn[k], "out", "watch")
      IN  /\ y \in Connection /\ y.from = n /\ y.to = p
          /\ y.stage["out"] = "watch" /\ y.stage["in"] = conn[k].stage["in"]
    <2>1. conn[k] \in Connection /\ conn[k].from = n /\ conn[k].to = p
        BY <1>0
    <2>2. "out" \in Side /\ "in" \in Side /\ "in" # "out" /\ "watch" \in Stage
        BY DEF Side, Stage
    <2> QED
        BY <2>1, <2>2, StagedShape
<1>4. /\ conn' \in [Conn -> Connection \cup {NoConn}]
      /\ conn'[k] \in Connection /\ conn'[k] # NoConn
      /\ conn'[k].from = n /\ conn'[k].to = p
      /\ conn'[k].stage["out"] = "watch" /\ conn'[k].stage["in"] = conn[k].stage["in"]
      /\ \A j \in Conn \ {k} : conn'[j] = conn[j]
    <2>1. /\ conn' \in [Conn -> Connection \cup {NoConn}]
          /\ conn'[k] = Staged(conn[k], "out", "watch")
          /\ \A j \in Conn \ {k} : conn'[j] = conn[j]
        BY <1>2, <1>3, ConnPut DEF Types
    <2> QED
        BY <1>3, <2>1, Fields
<1>5. /\ task' \in [Node -> [Caller -> Task]]
      /\ task'[n][c].pc = "idle"
      /\ \A x \in Node, d \in Caller : x # n \/ d # c => task'[x][d] = task[x][d]
    <2>1. task' = [task EXCEPT ![n][c] = Idle(n)]
        BY DEF ConnectPeer
    <2> QED
        BY <2>1, IdleType, TaskPut DEF Types
<1>6. Dialing(n, p) = {c} /\ Linked(n, p) = {}
    <2>1. c \in Dialing(n, p)
        BY <1>0 DEF Dialing
    <2>2. Dialing(n, p) \subseteq Caller /\ Linked(n, p) \subseteq Conn
        BY DEF Dialing, Linked
    <2>3. \A x, y \in Dialing(n, p) \cup Linked(n, p) : x = y
        BY DEF NoDuplicateDials
    <2>4. c \notin Conn
        BY MeshLinksAssumption DEF Caller
    <2> QED
        BY <2>1, <2>2, <2>3, <2>4
<1>7. <<k, "out">> \in End /\ "out" \in Side
    BY DEF End, Side
<1>8. /\ peers' \in [Node -> [Node -> End \cup {NoEnd}]] /\ ended' \subseteq End
      /\ peers'[n][p] = <<k, "out">>
      /\ \A x, y \in Node : x # n \/ y # p => peers'[x][y] = peers[x][y]
    <2>1. AddPeer(n, p, <<k, "out">>)
        BY <1>0 DEF ConnectPeer
    <2> QED
        BY <1>7, <2>1, AddPeerEffect
<1>9. TypeOK'
    BY <1>1, <1>4, <1>5, <1>8 DEF TypeOK
<1>10. AddrInv'
    BY <1>1, <1>5, KeepAddr
<1>11. ConnInv'
    <2>1. ASSUME NEW x \in Node, NEW d \in Caller, task'[x][d].pc = "hello"
          PROVE  task'[x][d] = task[x][d] /\ SameHello(conn[task[x][d].conn], conn'[task[x][d].conn])
        <3>1. task'[x][d] = task[x][d] /\ (x # n \/ d # c) /\ task[x][d].conn \in Conn
            BY <1>5, <2>1 DEF ConnInv
        <3>2. task[x][d].conn # k
            <4> SUFFICES ASSUME task[x][d].conn = k PROVE FALSE
                OBVIOUS
            <4>0. conn[task[x][d].conn].from = x /\ conn[task[x][d].conn].to = task[x][d].peer
                BY <2>1, <3>1 DEF ConnInv
            <4>1. x = n /\ task[x][d].peer = p
                BY <1>0, <4>0
            <4>2. d \in Dialing(n, p)
                BY <2>1, <3>1, <4>1 DEF Dialing
            <4> QED
                BY <1>6, <3>1, <4>1, <4>2
        <3> QED
            BY <1>4, <3>1, <3>2, Same
    <2>2. \A j \in Conn : conn'[j] # NoConn =>
              conn[j] # NoConn /\ conn'[j].from = conn[j].from /\ conn'[j].to = conn[j].to
        BY <1>0, <1>4
    <2> QED
        BY <2>1, <2>2, KeepConn
<1>12. MarkInv' /\ NoDuplicateDials'
    <2>1. Dialing(n, p)' = {}
        <3>1. \A d \in Dialing(n, p)' : d \in Caller /\ task'[n][d].pc # "idle"
            BY DEF Dialing
        <3>2. \A d \in Dialing(n, p)' : d # c => d \in Dialing(n, p)
            BY <1>5 DEF Dialing
        <3> QED
            BY <1>5, <1>6, <3>1, <3>2
    <2>2. ASSUME NEW x \in Node, NEW y \in Node, x # n \/ y # p
          PROVE  Dialing(x, y)' = Dialing(x, y) /\ Linked(x, y)' = Linked(x, y)
        <3>1. \A d \in Caller : d \in Dialing(x, y)' <=> d \in Dialing(x, y)
            <4>1. x = n => c \notin Dialing(x, y) /\ c \notin Dialing(x, y)'
                BY <1>0, <1>5, <2>2 DEF Dialing
            <4>2. \A d \in Caller : x # n \/ d # c =>
                      (d \in Dialing(x, y)' <=> d \in Dialing(x, y))
                BY <1>5 DEF Dialing
            <4> QED
                BY <4>1, <4>2
        <3>2. \A j \in Conn : j \in Linked(x, y)' <=> j \in Linked(x, y)
            <4>1. k \notin Linked(x, y) /\ k \notin Linked(x, y)'
                BY <1>0, <1>4, <2>2 DEF Linked
            <4>2. \A j \in Conn \ {k} : j \in Linked(x, y)' <=> j \in Linked(x, y)
                BY <1>4 DEF Linked
            <4> QED
                BY <4>1, <4>2
        <3> QED
            BY <3>1, <3>2 DEF Dialing, Linked
    <2>3. Linked(n, p)' = {k}
        BY <1>4, <1>6 DEF Linked
    <2>4. MarkInv'
        BY <1>1, <1>6, <2>1, <2>2, <2>3 DEF MarkInv
    <2>5. NoDuplicateDials'
        BY <2>1, <2>2, <2>3 DEF NoDuplicateDials
    <2> QED
        BY <2>4, <2>5
<1>13. PeersWatched'
    <2>1. Owner(conn'[k], "out") = n /\ Peer(conn'[k], "out") = p
        BY <1>4 DEF Owner, Peer
    <2>2. \A j \in Conn : SameWatch(conn[j], conn'[j])
        BY <1>0, <1>4, Same, ZenonT(60) DEF SameWatch, Side
    <2> QED
        BY <1>4, <1>7, <1>8, <2>1, <2>2, PutWatched
<1> QED
    BY <1>9, <1>10, <1>11, <1>12, <1>13 DEF LinkInv

\* monitorPeer takes its own entry out of the map, and no other.
LEMMA DeleteStep ==
    ASSUME LinkInv, NEW k \in Conn, NEW side \in Side, MonitorDelete(k, side)
    PROVE  LinkInv'
<1> USE Parts
<1>0. conn[k] \in Connection /\ conn[k] # NoConn /\ conn[k].stage[side] = "watch"
    BY DEF MonitorDelete, Types
<1>1. UNCHANGED <<up, port, view, meshConnected, task, todo, ended, faults>>
    BY DEF MonitorDelete
<1>2. PICK n \in Node, p \in Node : n = Owner(conn[k], side) /\ p = Peer(conn[k], side)
    BY <1>0, Fields DEF Owner, Peer
<1>3. conn' = [conn EXCEPT ![k] = Staged(conn[k], side, "notify")]
    BY <1>0 DEF MonitorDelete, Staged
<1>4. LET y == Staged(conn[k], side, "notify")
      IN  /\ y \in Connection /\ y.from = conn[k].from /\ y.to = conn[k].to
          /\ y.stage[side] = "notify"
          /\ \A z \in Side : z # side => y.stage[z] = conn[k].stage[z]
    <2>1. "notify" \in Stage
        BY DEF Stage
    <2> QED
        BY <1>0, <2>1, StagedShape
<1>5. /\ conn' \in [Conn -> Connection \cup {NoConn}]
      /\ conn'[k] # NoConn
      /\ conn'[k].from = conn[k].from /\ conn'[k].to = conn[k].to
      /\ conn'[k].stage[side] = "notify"
      /\ \A z \in Side : z # side => conn'[k].stage[z] = conn[k].stage[z]
      /\ \A j \in Conn \ {k} : conn'[j] = conn[j]
    <2>1. /\ conn' \in [Conn -> Connection \cup {NoConn}]
          /\ conn'[k] = Staged(conn[k], side, "notify")
          /\ \A j \in Conn \ {k} : conn'[j] = conn[j]
        BY <1>3, <1>4, ConnPut DEF Types
    <2> QED
        BY <1>4, <2>1, Fields
<1>6. SameOut(conn[k], conn'[k]) /\ SameHello(conn[k], conn'[k])
    BY <1>0, <1>5 DEF SameOut, Out, SameHello, Side
<1>7. \A j \in Conn : SameOut(conn[j], conn'[j]) /\ SameHello(conn[j], conn'[j])
    BY <1>5, <1>6, Same
<1>8. /\ peers' \in [Node -> [Node -> End \cup {NoEnd}]]
      /\ peers'[n][p] \in {NoEnd, peers[n][p]} /\ peers'[n][p] # <<k, side>>
      /\ \A x, y \in Node : x # n \/ y # p => peers'[x][y] = peers[x][y]
    <2>1. peers' = [peers EXCEPT ![n][p] =
                       IF peers[n][p] = <<k, side>> THEN NoEnd ELSE peers[n][p]]
        BY <1>2 DEF MonitorDelete, Current
    <2>2. <<k, side>> # NoEnd
        BY EndsDiffer
    <2> QED
        BY <2>1, <2>2 DEF Types
<1>9. TypeOK'
    BY <1>1, <1>5, <1>8 DEF TypeOK
<1>10. AddrInv'
    BY <1>1, KeepAddr
<1>11. ConnInv'
    <2>1. \A x \in Node, d \in Caller : task[x][d].pc = "hello" => task[x][d].conn \in Conn
        BY DEF ConnInv
    <2>2. \A j \in Conn : conn'[j] # NoConn =>
              conn[j] # NoConn /\ conn'[j].from = conn[j].from /\ conn'[j].to = conn[j].to
        BY <1>0, <1>5
    <2> QED
        BY <1>1, <1>7, <2>1, <2>2, KeepConn
<1>12. MarkInv' /\ NoDuplicateDials'
    BY <1>1, <1>7, KeepMarks, Same
<1>13. PeersWatched'
    <2> SUFFICES ASSUME NEW x \in Node, NEW y \in Node, NEW j \in Conn, NEW z \in Side,
                        peers'[x][y] = <<j, z>>
                 PROVE  /\ conn'[j] # NoConn /\ conn'[j].stage[z] = "watch"
                        /\ Owner(conn'[j], z) = x /\ Peer(conn'[j], z) = y
        BY DEF PeersWatched
    <2>1. <<j, z>> # NoEnd
        BY EndsDiffer
    <2>2. peers[x][y] = <<j, z>>
        BY <1>8, <2>1
    <2>3. /\ conn[j] # NoConn /\ conn[j].stage[z] = "watch"
          /\ Owner(conn[j], z) = x /\ Peer(conn[j], z) = y
        BY <2>2 DEF PeersWatched
    <2>4. j # k \/ z # side
        BY <1>2, <1>8, <2>3
    <2> QED
        BY <1>5, <2>3, <2>4 DEF Owner, Peer
<1> QED
    BY <1>9, <1>10, <1>11, <1>12, <1>13 DEF LinkInv

\* onMeshPeerDisconnected unmarks the peer of the connection: its own mark when
\* this side dialed, and none when the other side did.
LEMMA ReportStep ==
    ASSUME LinkInv, NEW k \in Conn, NEW side \in Side, MonitorNotify(k, side)
    PROVE  LinkInv'
<1> USE Parts
<1>0. conn[k] \in Connection /\ conn[k] # NoConn /\ conn[k].stage[side] = "notify"
    BY DEF MonitorNotify, Types
<1>1. UNCHANGED <<up, port, view, peers, task, todo, faults>>
    BY DEF MonitorNotify
<1>2. PICK n \in Node, p \in Node : n = Owner(conn[k], side) /\ p = Peer(conn[k], side)
    BY <1>0, Fields DEF Owner, Peer
<1>3. LET y == Leave(k, side)
      IN  /\ y \in Connection \cup {NoConn}
          /\ y # NoConn => /\ y.from = conn[k].from /\ y.to = conn[k].to
                           /\ y.stage[side] = "none"
                           /\ \A z \in Side : z # side => y.stage[z] = conn[k].stage[z]
          /\ y = NoConn => \A z \in Side : z # side => conn[k].stage[z] = "none"
    BY <1>0, LeaveShape
<1>4. /\ conn' \in [Conn -> Connection \cup {NoConn}]
      /\ conn'[k] = Leave(k, side)
      /\ \A j \in Conn \ {k} : conn'[j] = conn[j]
    BY <1>3, ConnPut DEF MonitorNotify, Types
<1>5. /\ meshConnected' \in [Node -> SUBSET Node]
      /\ meshConnected'[n] = meshConnected[n] \ {p}
      /\ \A x \in Node \ {n} : meshConnected'[x] = meshConnected[x]
    BY <1>2 DEF MonitorNotify, Types
<1>6. SameHello(conn[k], conn'[k]) /\ SameWatch(conn[k], conn'[k])
    BY <1>0, <1>3, <1>4 DEF SameHello, SameWatch, Side
<1>7. \A j \in Conn : SameHello(conn[j], conn'[j]) /\ SameWatch(conn[j], conn'[j])
    BY <1>4, <1>6, Same
<1>8. TypeOK'
    <2>1. ended' \subseteq End
        BY DEF MonitorNotify, Kept, TypeOK
    <2> QED
        BY <1>1, <1>4, <1>5, <2>1 DEF TypeOK
<1>9. AddrInv'
    BY <1>1, KeepAddr
<1>10. ConnInv'
    <2>1. \A x \in Node, d \in Caller : task[x][d].pc = "hello" => task[x][d].conn \in Conn
        BY DEF ConnInv
    <2>2. \A j \in Conn : conn'[j] # NoConn =>
              conn[j] # NoConn /\ conn'[j].from = conn[j].from /\ conn'[j].to = conn[j].to
        BY <1>0, <1>3, <1>4
    <2> QED
        BY <1>1, <1>7, <2>1, <2>2, KeepConn
<1>11. PeersWatched'
    BY <1>1, <1>7, KeepWatched
<1>12. CASE side = "in"
    <2>1. p < n
        BY <1>0, <1>2, <1>12 DEF Owner, Peer, ConnInv
    <2>2. p \notin meshConnected[n]
        <3>1. n \in Nat /\ p \in Nat
            BY DEF Types
        <3> QED
            BY <2>1, <3>1 DEF MarkInv
    <2>3. UNCHANGED meshConnected
        <3>1. \A x \in Node : meshConnected'[x] = meshConnected[x]
            BY <1>5, <2>2
        <3>2. /\ meshConnected = [x \in Node |-> meshConnected[x]]
              /\ meshConnected' = [x \in Node |-> meshConnected'[x]]
            BY <1>5 DEF Types
        <3> QED
            BY <3>1, <3>2
    <2>4. \A j \in Conn : SameOut(conn[j], conn'[j])
        BY <1>0, <1>3, <1>4, <1>12, Same, ZenonT(60) DEF SameOut, Out, Side
    <2>5. MarkInv' /\ NoDuplicateDials'
        BY <1>1, <2>3, <2>4, KeepMarks, Same
    <2> QED
        BY <1>8, <1>9, <1>10, <1>11, <2>5 DEF LinkInv
<1>13. CASE side = "out"
    <2>1. n = conn[k].from /\ p = conn[k].to
        BY <1>2, <1>13 DEF Owner, Peer
    <2>2. Linked(n, p) = {k} /\ Dialing(n, p) = {}
        <3>1. k \in Linked(n, p)
            BY <1>0, <1>13, <2>1 DEF Linked
        <3>2. Dialing(n, p) \subseteq Caller /\ Linked(n, p) \subseteq Conn
            BY DEF Dialing, Linked
        <3>3. \A x, y \in Dialing(n, p) \cup Linked(n, p) : x = y
            BY DEF NoDuplicateDials
        <3>4. k \notin Caller
            BY MeshLinksAssumption DEF Caller
        <3> QED
            BY <3>1, <3>2, <3>3, <3>4
    <2>3. \A x, y \in Node : Dialing(x, y)' = Dialing(x, y)
        BY <1>1, DialingSame, Same
    <2>4. Linked(n, p)' = {}
        BY <1>3, <1>4, <1>13, <2>2 DEF Linked
    <2>5. ASSUME NEW x \in Node, NEW y \in Node, x # n \/ y # p
          PROVE  Linked(x, y)' = Linked(x, y)
        <3>1. \A j \in Conn : j \in Linked(x, y)' <=> j \in Linked(x, y)
            <4>1. k \notin Linked(x, y) /\ k \notin Linked(x, y)'
                BY <1>3, <1>4, <1>13, <2>1, <2>5 DEF Linked
            <4>2. \A j \in Conn \ {k} : j \in Linked(x, y)' <=> j \in Linked(x, y)
                BY <1>4 DEF Linked
            <4> QED
                BY <4>1, <4>2
        <3> QED
            BY <3>1 DEF Linked
    <2>6. MarkInv'
        BY <1>5, <2>2, <2>3, <2>4, <2>5 DEF MarkInv
    <2>7. NoDuplicateDials'
        <3>1. \A x, y \in Node :
                  /\ Dialing(x, y)' \subseteq Dialing(x, y)
                  /\ Linked(x, y)' \subseteq Linked(x, y)
            BY <2>3, <2>4, <2>5
        <3> QED
            BY <3>1 DEF NoDuplicateDials
    <2> QED
        BY <1>8, <1>9, <1>10, <1>11, <2>6, <2>7 DEF LinkInv
<1> QED
    BY <1>12, <1>13 DEF Side

\* The process of n ends: its marks, calls and ends go, those of others stay.
LEMMA StopStep ==
    ASSUME LinkInv, NEW n \in Node, Stop(n)
    PROVE  LinkInv'
<1> USE Parts
<1> DEFINE mine(k) == {x \in Side : conn[k] # NoConn /\ Owner(conn[k], x) = n}
           left(k) == [conn[k] EXCEPT !.stage =
                          [x \in Side |-> IF x \in mine(k) THEN "none" ELSE @[x]]]
<1>1. UNCHANGED port
    BY DEF Stop
<1>2. /\ view' = [view EXCEPT ![n] = [m \in Node |-> NoAddr]]
      /\ meshConnected' = [meshConnected EXCEPT ![n] = {}]
      /\ peers' = [peers EXCEPT ![n] = [m \in Node |-> NoEnd]]
      /\ task' = [task EXCEPT ![n] = [c \in Caller |-> Idle(n)]]
      /\ todo' = [todo EXCEPT ![n] = {}]
      /\ up' = up \ {n}
      /\ ended' = Kept(ended \cup {e \in End : e[2] \in mine(e[1])})
      /\ faults < MaxFaults /\ faults' = faults + 1
    BY DEF Stop
<1>3. conn' = [k \in Conn |->
          IF mine(k) = {} THEN conn[k]
          ELSE IF \A x \in Side : left(k).stage[x] = "none" THEN NoConn ELSE left(k)]
    BY DEF Stop
<1>4. ASSUME NEW k \in Conn, conn[k] # NoConn
      PROVE  /\ left(k) \in Connection
             /\ left(k).from = conn[k].from /\ left(k).to = conn[k].to
             /\ \A x \in Side : left(k).stage[x] =
                    IF Owner(conn[k], x) = n THEN "none" ELSE conn[k].stage[x]
    <2>1. conn[k] \in Connection
        BY <1>4 DEF Types
    <2>2. \A x \in Side : x \in mine(k) <=> Owner(conn[k], x) = n
        BY <1>4
    <2> HIDE DEF mine
    <2> QED
        BY <2>1, <2>2 DEF Connection, Stage
<1>5. ASSUME NEW k \in Conn
      PROVE  /\ conn'[k] \in Connection \cup {NoConn}
             /\ conn[k] = NoConn => conn'[k] = NoConn
             /\ conn'[k] # NoConn => conn'[k].from = conn[k].from /\ conn'[k].to = conn[k].to
             /\ \A x \in Side : conn[k] # NoConn /\ Owner(conn[k], x) = n /\ conn'[k] # NoConn
                    => conn'[k].stage[x] = "none"
             /\ \A x \in Side : conn[k] # NoConn /\ Owner(conn[k], x) # n /\ conn[k].stage[x] # "none"
                    => conn'[k] # NoConn /\ conn'[k].stage[x] = conn[k].stage[x]
    <2>1. CASE mine(k) = {}
        BY <1>3, <2>1 DEF Types
    <2>2. CASE mine(k) # {}
        <3>1. conn[k] # NoConn
            BY <2>2
        <3>2. conn'[k] = IF \A x \in Side : left(k).stage[x] = "none" THEN NoConn ELSE left(k)
            BY <1>3, <2>2
        <3> HIDE DEF mine, left
        <3>3. left(k) # NoConn
            BY <1>4, <3>1, Fields
        <3> QED
            BY <1>4, <3>1, <3>2, <3>3
    <2> QED
        BY <2>1, <2>2
<1> HIDE DEF left, mine
<1>6. /\ conn' \in [Conn -> Connection \cup {NoConn}]
      /\ task' \in [Node -> [Caller -> Task]]
      /\ \A c \in Caller : task'[n][c].pc = "idle"
      /\ \A x \in Node \ {n}, c \in Caller : task'[x][c] = task[x][c]
    <2>1. Idle(n) \in Task /\ Idle(n).pc = "idle"
        BY IdleType
    <2>2. conn' \in [Conn -> Connection \cup {NoConn}]
        <3>1. DOMAIN conn' = Conn /\ conn' = [k \in Conn |-> conn'[k]]
            BY <1>3
        <3> QED
            BY <1>5, <3>1
    <2> QED
        BY <1>2, <2>1, <2>2 DEF Types
<1>7. TypeOK'
    <2>1. ended' \subseteq End
        BY <1>2 DEF Kept, TypeOK
    <2>2. faults' \in 0..MaxFaults
        BY <1>2, MeshLinksAssumption DEF TypeOK
    <2>3. /\ view' \in [Node -> [Node -> Addr \cup {NoAddr}]]
          /\ meshConnected' \in [Node -> SUBSET Node]
          /\ peers' \in [Node -> [Node -> End \cup {NoEnd}]]
          /\ todo' \in [Node -> SUBSET Meta]
        BY <1>2 DEF Types
    <2>4. up' \subseteq Node
        BY <1>2 DEF TypeOK
    <2> QED
        BY <1>1, <1>6, <2>1, <2>2, <2>3, <2>4 DEF TypeOK
<1>8. AddrInv'
    <2>1. \A x, m \in Node : view'[x][m] # NoAddr => view'[x][m] = view[x][m]
        BY <1>2 DEF Types
    <2>2. \A x \in Node : todo'[x] \subseteq todo[x]
        BY <1>2 DEF Types
    <2>3. \A x \in Node, d \in Caller : task'[x][d].pc \in {"claim", "dial"} =>
              task'[x][d] = task[x][d]
        BY <1>6
    <2> QED
        BY <1>1, <2>1, <2>2, <2>3 DEF AddrInv
<1>9. ConnInv'
    <2>1. ASSUME NEW x \in Node, NEW d \in Caller, task'[x][d].pc = "hello"
          PROVE  task'[x][d] = task[x][d] /\ SameHello(conn[task[x][d].conn], conn'[task[x][d].conn])
        <3>1. x # n /\ task'[x][d] = task[x][d]
            BY <1>6, <2>1
        <3>2. PICK k \in Conn : k = task[x][d].conn
            BY <2>1, <3>1 DEF ConnInv
        <3>3. conn[k] # NoConn /\ conn[k].from = x /\ conn[k].stage["out"] = "hello"
            BY <2>1, <3>1, <3>2 DEF ConnInv
        <3>4. conn'[k] # NoConn /\ conn'[k].stage["out"] = "hello"
            BY <1>5, <3>1, <3>3 DEF Owner, Side
        <3> QED
            BY <1>5, <3>1, <3>2, <3>4 DEF SameHello
    <2>2. \A k \in Conn : conn'[k] # NoConn =>
              conn[k] # NoConn /\ conn'[k].from = conn[k].from /\ conn'[k].to = conn[k].to
        BY <1>5
    <2> QED
        BY <2>1, <2>2, KeepConn
<1>10. \A p \in Node : Dialing(n, p)' = {} /\ Linked(n, p)' = {}
    <2>1. \A p \in Node : Dialing(n, p)' = {}
        BY <1>6 DEF Dialing
    <2>2. ASSUME NEW p \in Node, NEW k \in Conn, k \in Linked(n, p)' PROVE FALSE
        <3>1. /\ conn'[k] # NoConn /\ conn'[k].from = n
              /\ conn'[k].stage["out"] \in {"watch", "notify"}
            BY <2>2 DEF Linked
        <3>2. conn[k] # NoConn /\ conn[k].from = n
            BY <1>5, <3>1
        <3>3. conn'[k].stage["out"] = "none"
            BY <1>5, <3>1, <3>2 DEF Owner, Side
        <3> QED
            BY <3>1, <3>3
    <2>3. \A p \in Node : Linked(n, p)' \subseteq Conn
        BY DEF Linked
    <2> QED
        BY <2>1, <2>2, <2>3
<1>11. ASSUME NEW x \in Node \ {n}, NEW p \in Node
       PROVE  Dialing(x, p)' = Dialing(x, p) /\ Linked(x, p)' = Linked(x, p)
    <2>1. Dialing(x, p)' = Dialing(x, p)
        BY <1>6 DEF Dialing
    <2>2. ASSUME NEW k \in Conn PROVE k \in Linked(x, p)' <=> k \in Linked(x, p)
        <3>1. ASSUME k \in Linked(x, p) PROVE k \in Linked(x, p)'
            <4>1. /\ conn[k] # NoConn /\ conn[k].from = x /\ conn[k].to = p
                  /\ conn[k].stage["out"] \in {"watch", "notify"}
                BY <3>1 DEF Linked
            <4>2. conn'[k] # NoConn /\ conn'[k].stage["out"] = conn[k].stage["out"]
                BY <1>5, <1>11, <4>1 DEF Owner, Side
            <4>3. conn'[k].from = x /\ conn'[k].to = p
                BY <1>5, <4>1, <4>2
            <4> QED
                BY <4>1, <4>2, <4>3 DEF Linked
        <3>2. ASSUME k \in Linked(x, p)' PROVE k \in Linked(x, p)
            <4>1. /\ conn'[k] # NoConn /\ conn'[k].from = x /\ conn'[k].to = p
                  /\ conn'[k].stage["out"] \in {"watch", "notify"}
                BY <3>2 DEF Linked
            <4>2. conn[k] # NoConn /\ conn[k].from = x /\ conn[k].to = p
                BY <1>5, <4>1
            <4>3. Owner(conn[k], "out") # n /\ "out" \in Side
                BY <1>11, <4>2 DEF Owner, Side
            <4>4. conn'[k].stage["out"] = conn[k].stage["out"]
                <5>1. CASE conn[k].stage["out"] = "none"
                    <6>1. mine(k) = {} => conn'[k] = conn[k]
                        BY <1>3
                    <6>2. mine(k) # {} => conn'[k] = left(k)
                        BY <1>3, <4>1
                    <6> QED
                        BY <1>4, <4>2, <4>3, <6>1, <6>2
                <5>2. CASE conn[k].stage["out"] # "none"
                    BY <1>5, <4>2, <4>3, <5>2
                <5> QED
                    BY <5>1, <5>2
            <4> QED
                BY <4>1, <4>2, <4>4 DEF Linked
        <3> QED
            BY <3>1, <3>2
    <2>3. Linked(x, p)' = Linked(x, p)
        BY <2>2 DEF Linked
    <2> QED
        BY <2>1, <2>3
<1>12. MarkInv'
    <2>1. meshConnected'[n] = {} /\ \A x \in Node \ {n} : meshConnected'[x] = meshConnected[x]
        BY <1>2 DEF Types
    <2> QED
        BY <1>10, <1>11, <2>1 DEF MarkInv
<1>13. NoDuplicateDials'
    BY <1>10, <1>11 DEF NoDuplicateDials
<1>14. PeersWatched'
    <2> SUFFICES ASSUME NEW x \in Node, NEW y \in Node, NEW j \in Conn, NEW z \in Side,
                        peers'[x][y] = <<j, z>>
                 PROVE  /\ conn'[j] # NoConn /\ conn'[j].stage[z] = "watch"
                        /\ Owner(conn'[j], z) = x /\ Peer(conn'[j], z) = y
        BY DEF PeersWatched
    <2>1. <<j, z>> # NoEnd
        BY EndsDiffer
    <2>2. x # n /\ peers[x][y] = <<j, z>>
        BY <1>2, <2>1 DEF Types
    <2>3. /\ conn[j] # NoConn /\ conn[j].stage[z] = "watch"
          /\ Owner(conn[j], z) = x /\ Peer(conn[j], z) = y
        BY <2>2, ZenonT(60) DEF PeersWatched
    <2>4. conn'[j] # NoConn /\ conn'[j].stage[z] = "watch"
        BY <1>5, <2>2, <2>3
    <2> QED
        BY <1>5, <2>3, <2>4 DEF Owner, Peer
<1> QED
    BY <1>7, <1>8, <1>9, <1>12, <1>13, <1>14 DEF LinkInv

\* The process starts again, on one of its ports.
LEMMA StartStep ==
    ASSUME LinkInv, DownInv, NEW n \in Node, Start(n)
    PROVE  LinkInv'
<1> USE Parts
<1>1. UNCHANGED <<view, meshConnected, peers, todo, conn, ended, faults>>
    BY DEF Start
<1>2. PICK y \in Ports[n] : port' = [port EXCEPT ![n] = y]
    BY DEF Start
<1>3. y \in Port
    BY MeshLinksAssumption
<1>4. /\ task' \in [Node -> [Caller -> Task]]
      /\ \A c \in Caller : task[n][c].pc = "idle" /\ task'[n][c].pc \in {"start", "idle"}
      /\ \A x \in Node \ {n}, c \in Caller : task'[x][c] = task[x][c]
    <2>1. task' = [task EXCEPT ![n] = Starting(n)]
        BY DEF Start
    <2>2. Starting(n) \in [Caller -> Task]
        <3>1. DOMAIN Starting(n) = Caller /\ Starting(n) = [c \in Caller |-> Starting(n)[c]]
            BY DEF Starting
        <3> QED
            BY <3>1, IdleType
    <2>3. \A c \in Caller : task[n][c].pc = "idle"
        BY DEF DownInv, Start
    <2> QED
        BY <2>1, <2>2, <2>3, IdleType DEF Types
<1>5. TypeOK'
    <2>1. up' \subseteq Node /\ port' \in [Node -> Port]
        BY <1>2, <1>3 DEF Start, TypeOK
    <2> QED
        BY <1>1, <1>4, <2>1 DEF TypeOK
<1>6. AddrInv'
    <2>1. \A x \in Node : port'[x] \in Ports[x]
        BY <1>2 DEF Types, AddrInv
    <2>2. \A x \in Node, d \in Caller : task'[x][d].pc \in {"claim", "dial"} =>
              task'[x][d] = task[x][d]
        BY <1>4
    <2> QED
        BY <1>1, <2>1, <2>2 DEF AddrInv
<1>7. ConnInv'
    BY <1>1, <1>4, KeepConn, Same
<1>8. \A x \in Node, d \in Caller : SameMark(task[x][d], task'[x][d])
    BY <1>4, Same, ZenonT(60) DEF SameMark, Busy
<1>9. MarkInv' /\ NoDuplicateDials'
    BY <1>1, <1>8, KeepMarks, Same
<1>10. PeersWatched'
    BY <1>1, KeepWatched, Same
<1> QED
    BY <1>5, <1>6, <1>7, <1>9, <1>10 DEF LinkInv

\* A node that is down starts nothing: its calls, its list and its threads are
\* gone with the process.
LEMMA DownStep ==
    ASSUME TypeOK, TypeOK', DownInv, [Next]_vars
    PROVE  DownInv'
<1>0. /\ task \in [Node -> [Caller -> Task]] /\ todo \in [Node -> SUBSET Meta]
      /\ task' \in [Node -> [Caller -> Task]] /\ todo' \in [Node -> SUBSET Meta]
    BY DEF TypeOK
<1>1. ASSUME NEW n \in up, n \in Node, UNCHANGED up,
             \A x \in Node \ {n} : todo'[x] = todo[x] /\ task'[x] = task[x]
      PROVE  DownInv'
    <2> SUFFICES ASSUME NEW x \in Node, x \notin up
                 PROVE  todo'[x] = {} /\ \A c \in Caller : task'[x][c].pc = "idle"
        BY <1>1 DEF DownInv
    <2>1. todo[x] = {} /\ \A c \in Caller : task[x][c].pc = "idle"
        BY DEF DownInv
    <2>2. todo'[x] = todo[x] /\ task'[x] = task[x]
        BY <1>1
    <2> QED
        BY <2>1, <2>2
<1>2. ASSUME NEW n \in Node, NEW c \in Caller, task[n][c].pc # "idle"
      PROVE  n \in up
    BY <1>2 DEF DownInv
<1>3. ASSUME NEW n \in Node, NEW m \in Node, NotifyMember(n, m) \/ NotifyLeave(n, m)
      PROVE  DownInv'
    BY <1>0, <1>1, <1>3 DEF NotifyMember, NotifyLeave
<1>4. ASSUME NEW n \in Node, StartMembers(n) PROVE DownInv'
    <2>1. n \in up
        BY <1>2, <1>4 DEF StartMembers, Caller
    <2> QED
        BY <1>0, <1>1, <1>4, <2>1 DEF StartMembers
<1>5. ASSUME NEW n \in Node, MaintainTick(n) PROVE DownInv'
    BY <1>0, <1>1, <1>5 DEF MaintainTick
<1>6. ASSUME NEW n \in Node, NEW r \in todo[n], NextMember(n, r) PROVE DownInv'
    <2>1. n \in up
        BY <1>6 DEF DownInv
    <2> QED
        BY <1>0, <1>1, <1>6, <2>1 DEF NextMember
<1>7. ASSUME NEW n \in Node, NEW c \in Caller,
             Claim(n, c) \/ DialFails(n, c) \/ Dial(n, c) \/ ConnectPeer(n, c) \/ HandshakeFails(n, c)
      PROVE  DownInv'
    <2>1. n \in up
        BY <1>2, <1>7 DEF Claim, DialFails, Dial, ConnectPeer, HandshakeFails
    <2>2. UNCHANGED <<up, todo>>
        BY <1>7 DEF Claim, DialFails, Dial, ConnectPeer, HandshakeFails
    <2>3. \A x \in Node \ {n} : task'[x] = task[x]
        BY <1>0, <1>7 DEF Claim, DialFails, Dial, ConnectPeer, HandshakeFails, ConnectFails
    <2> QED
        BY <1>1, <2>1, <2>2, <2>3
<1>8. ASSUME NEW n \in Node, Stop(n) PROVE DownInv'
    <2>1. /\ todo' = [todo EXCEPT ![n] = {}] /\ up' = up \ {n}
          /\ task' = [task EXCEPT ![n] = [c \in Caller |-> Idle(n)]]
        BY <1>8 DEF Stop
    <2>2. Idle(n).pc = "idle"
        BY DEF Idle
    <2> QED
        BY <1>0, <2>1, <2>2 DEF DownInv
<1>9. ASSUME NEW n \in Node, Start(n) PROVE DownInv'
    <2>1. up' = up \cup {n} /\ task' = [task EXCEPT ![n] = Starting(n)] /\ UNCHANGED todo
        BY <1>9 DEF Start
    <2> QED
        BY <1>0, <2>1 DEF DownInv
<1>10. CASE UNCHANGED <<up, task, todo>>
    BY <1>10 DEF DownInv
<1>11. ASSUME NEW k \in Conn,
              \/ HandshakeInbound(k) \/ RefuseInbound(k) \/ AcceptPeer(k)
              \/ \E side \in Side :
                     \/ Break(k, side) \/ Notice(k, side)
                     \/ MonitorDelete(k, side) \/ MonitorNotify(k, side)
       PROVE  DownInv'
    BY <1>10, <1>11 DEF HandshakeInbound, RefuseInbound, AcceptPeer, Break, Notice,
                        MonitorDelete, MonitorNotify
<1> QED
    BY <1>3, <1>4, <1>5, <1>6, <1>7, <1>8, <1>9, <1>10, <1>11 DEF Next, vars
-----------------------------------------------------------------------------
(* The theorems.                                                           *)

\* The initial states satisfy the invariant.
LEMMA InitInv == Init => IndInv
<1> SUFFICES ASSUME Init PROVE IndInv
    OBVIOUS
<1> USE DEF Init
<1>0. \A n \in Node, c \in Caller :
          task[n][c] \in Task /\ task[n][c].pc \in {"start", "idle"}
    BY IdleType
<1>1. TypeOK
    <2>1. task \in [Node -> [Caller -> Task]]
        <3>1. \A n \in Node : Starting(n) \in [Caller -> Task]
            <4>1. \A n \in Node : Starting(n) = [c \in Caller |-> Starting(n)[c]]
                BY DEF Starting
            <4> QED
                BY <4>1, IdleType
        <3> QED
            BY <3>1
    <2> QED
        BY <2>1, MeshLinksAssumption DEF TypeOK
<1>2. AddrInv
    BY <1>0 DEF AddrInv
<1>3. ConnInv
    BY <1>0 DEF ConnInv
<1>4. \A n, p \in Node : Dialing(n, p) = {} /\ Linked(n, p) = {}
    BY <1>0 DEF Dialing, Linked
<1>5. MarkInv
    BY <1>4 DEF MarkInv
<1>6. NoDuplicateDials
    BY <1>4 DEF NoDuplicateDials
<1>7. PeersWatched
    BY MeshLinksAssumption DEF PeersWatched, Side
<1>8. DownInv
    BY DEF DownInv
<1> QED
    BY <1>1, <1>2, <1>3, <1>5, <1>6, <1>7, <1>8 DEF IndInv, LinkInv

\* Every step keeps the invariant of the links.
LEMMA LinkStep ==
    ASSUME PortsDisjoint, LinkInv, DownInv, [Next]_vars
    PROVE  LinkInv'
<1>1. CASE UNCHANGED vars
    <2>1. TypeOK' /\ AddrInv'
        BY <1>1 DEF LinkInv, TypeOK, AddrInv, vars
    <2>2. task' = task /\ conn' = conn /\ peers' = peers /\ meshConnected' = meshConnected
        BY <1>1 DEF vars
    <2>3. ConnInv'
        BY <2>2, ZenonT(60) DEF LinkInv, ConnInv
    <2>4. PeersWatched'
        BY <2>2 DEF LinkInv, PeersWatched
    <2>5. \A n, p \in Node : Dialing(n, p)' = Dialing(n, p) /\ Linked(n, p)' = Linked(n, p)
        BY <2>2 DEF Dialing, Linked
    <2>6. MarkInv'
        BY <2>2, <2>5 DEF LinkInv, MarkInv
    <2>7. NoDuplicateDials'
        BY <2>5 DEF LinkInv, NoDuplicateDials
    <2> QED
        BY <2>1, <2>3, <2>4, <2>6, <2>7 DEF LinkInv
<1>2. ASSUME NEW n \in Node,
             \/ \E m \in Node : NotifyMember(n, m) \/ NotifyLeave(n, m)
             \/ StartMembers(n) \/ MaintainTick(n) \/ Stop(n) \/ Start(n)
             \/ \E r \in todo[n] : NextMember(n, r)
      PROVE  LinkInv'
    BY <1>2, NotifyStep, LoopStep, StopStep, StartStep
<1>3. ASSUME NEW n \in Node, NEW c \in Caller,
             \/ Claim(n, c) \/ DialFails(n, c) \/ Dial(n, c)
             \/ ConnectPeer(n, c) \/ HandshakeFails(n, c)
      PROVE  LinkInv'
    BY <1>3, ClaimStep, FailStep, DialStep, ConnectStep
<1>4. ASSUME NEW k \in Conn,
             \/ HandshakeInbound(k) \/ RefuseInbound(k) \/ AcceptPeer(k)
             \/ \E side \in Side :
                    \/ Break(k, side) \/ Notice(k, side)
                    \/ MonitorDelete(k, side) \/ MonitorNotify(k, side)
      PROVE  LinkInv'
    <2>1. "in" \in Side
        BY DEF Side
    <2> QED
        BY <1>4, <2>1, InboundStep, AcceptStep, DeleteStep, ReportStep
<1> QED
    BY <1>1, <1>2, <1>3, <1>4 DEF Next

\* Where no two nodes share a port, so that a dial reaches the node it is for, the
\* invariant of the links holds whatever breaks, restarts or overlaps.
THEOREM Invariance ==
    ASSUME PortsDisjoint
    PROVE  Spec => []IndInv
<1>1. IndInv /\ [Next]_vars => IndInv'
    <2>1. LinkInv => TypeOK
        BY DEF LinkInv
    <2>2. LinkInv' => TypeOK'
        BY DEF LinkInv
    <2> QED
        BY <2>1, <2>2, LinkStep, DownStep DEF IndInv
<1> QED
    BY <1>1, InitInv, PTL DEF Spec

\* A marked peer always has a dial or a monitored link that will take the mark
\* away: no interleaving of the callers of connectMeshPeer and the monitors
\* leaves a peer that is never dialed again.
THEOREM NoStuckMarkHolds ==
    ASSUME PortsDisjoint
    PROVE  Spec => []NoStuckMark
<1>1. IndInv => NoStuckMark
    BY DEF IndInv, LinkInv, MarkInv, NoStuckMark
<1> QED
    BY <1>1, Invariance, PTL

\* A node never has two dials or links of its own to one peer.
THEOREM NoDuplicateDialsHolds ==
    ASSUME PortsDisjoint
    PROVE  Spec => []NoDuplicateDials
<1>1. IndInv => NoDuplicateDials
    BY DEF IndInv, LinkInv
<1> QED
    BY <1>1, Invariance, PTL

\* The map of peers holds only connections with that peer whose monitor will take
\* them out.
THEOREM PeersWatchedHolds ==
    ASSUME PortsDisjoint
    PROVE  Spec => []PeersWatched
<1>1. IndInv => PeersWatched
    BY DEF IndInv, LinkInv
<1> QED
    BY <1>1, Invariance, PTL
=============================================================================
