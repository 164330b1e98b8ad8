------------------------------- MODULE Relay --------------------------------
(***************************************************************************)
(* A relayed session, from an application to a backend, through the chain  *)
(* of the handlers that copy it: the SOCKS5 handler of ztm-client, the     *)
(* tunnel handler of the edge node and, when the backend is another node's *)
(* the relay handler of that node.  Each handler opens the next link,      *)
(* waits for its acknowledgement, acknowledges its own opener, and starts  *)
(* two copies.  A chain without the SOCKS5 handler is a program that uses  *)
(* tunnel.Client itself.  Each end sends the numbers 1, 2, ... and closes. *)
(***************************************************************************)
EXTENDS Integers, Sequences

CONSTANTS
    Count,          \* Count[c]: how much each end sends in a session of chain c
    ServerFirst,    \* whether the backend speaks before it has heard anything
    Window,         \* how much may be on a link for a handler to write more
    Chains          \* the chains of handlers considered

ASSUME RelayAssumption ==
    /\ Count \in [Chains -> Nat] /\ ServerFirst \in BOOLEAN /\ Window \in Nat \ {0}
    /\ Chains \subseteq {<<"edge">>, <<"socks", "edge">>, <<"edge", "owner">>,
                         <<"socks", "edge", "owner">>}

Ack == 0            \* the connect_ack line, and the reply of SOCKS5
Dir == {"up", "down"}
Hop == 1..3
Link == 0..3        \* link h is between handler h and the next, or the backend

VARIABLES
    chain,      \* the handlers of this session, from the client on
    app,        \* "wait" for the reply, "open", "shut" for writing, "closed"
    backend,    \* "open" or "closed"
    sent,       \* sent[d]: how much of the data of that direction was sent
    got,        \* got[d]: what the receiving end of d has read
    wire,       \* wire[l][d]: what was written on link l and not read
    fin,        \* fin[l]: the directions in which link l was closed
    lost,       \* the links whose connection is lost
    stage,      \* stage[h]: "wait", "relay" or "done"
    copier,     \* copier[h][d]: "idle", "copy", "eof", "error"
    buf,        \* buf[h][d]: what the copier has read and not written
    bytes,      \* bytes[h][d]: relayBytesOut (up) and relayBytesIn (down)
    outcome     \* outcome[h]: "none", "success" or "failure" was counted

vars == <<chain, app, backend, sent, got, wire, fin, lost, stage, copier, buf, bytes, outcome>>
ends == <<app, backend, sent, got>>
copies == <<copier, buf, bytes>>

N == Count[chain]
H == Len(chain)
Socks(h) == chain[h] = "socks"

TypeOK ==
    /\ chain \in Chains
    /\ app \in {"wait", "open", "shut", "closed"} /\ backend \in {"open", "closed"}
    /\ sent \in [Dir -> 0..N] /\ got \in [Dir -> Seq(1..N)]
    /\ wire \in [Link -> [Dir -> Seq(0..N)]]
    /\ fin \in [Link -> SUBSET Dir] /\ lost \subseteq Link
    /\ stage \in [Hop -> {"wait", "relay", "done"}]
    /\ copier \in [Hop -> [Dir -> {"idle", "copy", "eof", "error"}]]
    /\ buf \in [Hop -> [Dir -> Seq(1..N)]]
    /\ bytes \in [Hop -> [Dir -> 0..N]]
    /\ outcome \in [Hop -> {"none", "success", "failure"}]

\* A link between two processes of ztm is a QUIC stream, the others are TCP.
Quic(l) == l < H /\ (l > 0 \/ ~Socks(1))

\* The links that a handler reads and writes in a direction.
In(h, d) == IF d = "up" THEN h - 1 ELSE h
Out(h, d) == IF d = "up" THEN h ELSE h - 1

\* Every backend was dialed, every stream opened and every request sent.
Init ==
    /\ chain \in Chains /\ app = "wait" /\ backend = "open"
    /\ sent = [d \in Dir |-> 0] /\ got = [d \in Dir |-> <<>>]
    /\ wire = [l \in Link |-> [d \in Dir |-> <<>>]]
    /\ fin = [l \in Link |-> {}] /\ lost = {}
    /\ stage = [h \in Hop |-> "wait"]
    /\ copier = [h \in Hop |-> [d \in Dir |-> "idle"]]
    /\ buf = [h \in Hop |-> [d \in Dir |-> <<>>]]
    /\ bytes = [h \in Hop |-> [d \in Dir |-> 0]]
    /\ outcome = [h \in Hop |-> "none"]
-----------------------------------------------------------------------------
(* The handlers open their links.                                          *)

\* Handler h has its link: it acknowledges, and both copies start.
Starts(h, w) ==
    /\ stage[h] = "wait" /\ h - 1 \notin lost
    /\ stage' = [stage EXCEPT ![h] = "relay"]
    /\ copier' = [copier EXCEPT ![h] = [d \in Dir |-> "copy"]]
    /\ wire' = [w EXCEPT ![h - 1]["down"] = Append(@, Ack)]
    /\ UNCHANGED <<chain, ends, fin, lost, buf, bytes, outcome>>

\* The last handler has dialed the backend: WriteConnectResponse, then Relay.
Acknowledge == Starts(H, wire)

\* What is left on a link when one read of a bufio.Reader has taken k items: what is
\* behind the acknowledgement stays in the reader, which is dropped.
Taken(w, l, k) == [w EXCEPT ![l]["down"] = SubSeq(@, k + 1, Len(@))]

\* Slip: the stream is returned before its answer was read.
ReadNoResponse(h, k) ==
    /\ h < H /\ h \notin lost /\ k \in 1..Len(wire[h]["down"])
    /\ Starts(h, wire)

\* OpenStream or OpenRelay: ReadConnectResponse through a reader of its own, and
\* the raw stream is returned; then the handler answers its own opener.
ReadConnectResponse(h, k) ==
    /\ h < H /\ h \notin lost /\ k \in 1..Len(wire[h]["down"])
    /\ Starts(h, Taken(wire, h, k))

\* The next link is lost, or the answer comes and the opener cannot be told: the
\* handler returns, and what it opened is closed.
OpenFails(h) ==
    /\ stage[h] = "wait"
    /\ h \in lost \/ (h - 1 \in lost /\ (h < H => wire[h]["down"] # <<>>))
    /\ stage' = [stage EXCEPT ![h] = "done"]
    /\ fin' = [fin EXCEPT ![h - 1] = @ \cup {"down"}, ![h] = @ \cup {"up"}]
    /\ UNCHANGED <<chain, ends, wire, lost, copies, outcome>>
-----------------------------------------------------------------------------
(* The ends.                                                               *)

\* The application has its answer: the reply of SOCKS5, or that of OpenStream.
AppOpened(k) ==
    /\ app = "wait" /\ 0 \notin lost /\ k \in 1..Len(wire[0]["down"]) /\ (Socks(1) => k = 1)
    /\ app' = "open" /\ wire' = Taken(wire, 0, k)
    /\ UNCHANGED <<chain, backend, sent, got, fin, lost, stage, copies, outcome>>

\* The application sends; only once it has its stream.
Send ==
    /\ app = "open" /\ sent["up"] < N
    /\ sent' = [sent EXCEPT !["up"] = @ + 1]
    /\ wire' = [wire EXCEPT ![0]["up"] = Append(@, sent["up"] + 1)]
    /\ UNCHANGED <<chain, app, backend, got, fin, lost, stage, copies, outcome>>

\* It has sent all that it wants to, and may still read.
CloseWrite ==
    /\ app = "open" /\ app' = "shut"
    /\ fin' = [fin EXCEPT ![0] = @ \cup {"up"}]
    /\ UNCHANGED <<chain, backend, sent, got, wire, lost, stage, copies, outcome>>

\* It closes: the TCP connection to the SOCKS5 handler, or the QUIC connection.
Close ==
    /\ app # "closed" /\ app' = "closed"
    /\ IF Socks(1) THEN fin' = [fin EXCEPT ![0] = @ \cup {"up"}] /\ UNCHANGED lost
                   ELSE lost' = lost \cup {0} /\ UNCHANGED fin
    /\ UNCHANGED <<chain, backend, sent, got, wire, stage, copies, outcome>>

\* A QUIC connection ends, by its process or its idle timeout.
Lose(l) ==
    /\ Quic(l) /\ l \notin lost /\ lost' = lost \cup {l}
    /\ UNCHANGED <<chain, ends, wire, fin, stage, copies, outcome>>

\* The backend sends: an answer, or at once when it speaks first.
BackendSend ==
    /\ backend = "open" /\ sent["down"] < N
    /\ ServerFirst \/ got["up"] # <<>>
    /\ sent' = [sent EXCEPT !["down"] = @ + 1]
    /\ wire' = [wire EXCEPT ![H]["down"] = Append(@, sent["down"] + 1)]
    /\ UNCHANGED <<chain, app, backend, got, fin, lost, stage, copies, outcome>>

BackendClose ==
    /\ backend = "open" /\ backend' = "closed"
    /\ fin' = [fin EXCEPT ![H] = @ \cup {"down"}]
    /\ UNCHANGED <<chain, app, sent, got, wire, lost, stage, copies, outcome>>

\* The receiving end of d reads what has arrived.
Receive(d) ==
    LET l == IF d = "up" THEN H ELSE 0 IN
    /\ wire[l][d] # <<>> /\ l \notin lost
    /\ d = "down" => app \in {"open", "shut"}
    /\ d = "up" => backend = "open"
    /\ got' = [got EXCEPT ![d] = @ \o wire[l][d]]
    /\ wire' = [wire EXCEPT ![l][d] = <<>>]
    /\ UNCHANGED <<chain, app, backend, sent, fin, lost, stage, copies, outcome>>
-----------------------------------------------------------------------------
(* The copies: copyCount of metrics.Relay, io.Copy in the SOCKS5 handler.  *)

\* An end has closed its TCP connection altogether.
EndClosed(l) == (l = H /\ backend = "closed") \/ (l = 0 /\ Socks(1) /\ app = "closed")

\* The handler itself has closed its connections, which only the one of SOCKS5 does
\* while a copy goes on.
Shut(h) == Socks(h) /\ stage[h] = "done"

\* A read fails: the connection is lost, the other end closed it with something
\* unread, which resets it, or it was closed here.
SourceLost(h, d) ==
    LET l == In(h, d) IN
    \/ l \in lost \/ Shut(h)
    \/ EndClosed(l) /\ \E e \in Dir : e # d /\ wire[l][e] # <<>>

\* There is room on the link that a copy writes: nobody has to read before.
Room(h, d) == Len(wire[Out(h, d)][d]) < Window

\* A write fails, or may fail.  One that waits for room in a QUIC stream goes on waiting
\* when the stream is closed here.
DestLost(h, d) ==
    LET l == Out(h, d) IN l \in lost \/ EndClosed(l) \/ (Shut(h) /\ Room(h, d))

\* TCP takes what an end that is closed will not read.
DestTakes(h, d) == LET l == Out(h, d) IN l \notin lost /\ ~Shut(h) /\ Room(h, d)

\* Slip: a reader that is late finds the oldest data overwritten.
ReadLossy(h, d, k) ==
    LET l == In(h, d) IN
    /\ copier[h][d] = "copy" /\ buf[h][d] = <<>> /\ k \in 1..Len(wire[l][d])
    /\ l \notin lost /\ ~Shut(h)
    /\ buf' = [buf EXCEPT ![h][d] = SubSeq(wire[l][d], Len(wire[l][d]) - k + 1, Len(wire[l][d]))]
    /\ wire' = [wire EXCEPT ![l][d] = <<>>]
    /\ UNCHANGED <<chain, ends, fin, lost, stage, copier, bytes, outcome>>

\* src.Read returns some of what has arrived.
Read(h, d, k) ==
    LET l == In(h, d) IN
    /\ copier[h][d] = "copy" /\ buf[h][d] = <<>> /\ k \in 1..Len(wire[l][d])
    /\ l \notin lost /\ ~Shut(h)
    /\ buf' = [buf EXCEPT ![h][d] = SubSeq(wire[l][d], 1, k)]
    /\ wire' = [wire EXCEPT ![l][d] = SubSeq(@, k + 1, Len(@))]
    /\ UNCHANGED <<chain, ends, fin, lost, stage, copier, bytes, outcome>>

\* Slip: what was read is counted, written or not.
WriteCountedFirst(h, d) ==
    /\ copier[h][d] = "copy" /\ buf[h][d] # <<>>
    /\ bytes' = [bytes EXCEPT ![h][d] = @ + Len(buf[h][d])]
    /\ buf' = [buf EXCEPT ![h][d] = <<>>]
    /\ IF DestTakes(h, d)
         THEN wire' = [wire EXCEPT ![Out(h, d)][d] = @ \o buf[h][d]] /\ UNCHANGED copier
         ELSE copier' = [copier EXCEPT ![h][d] = "error"] /\ UNCHANGED wire
    /\ UNCHANGED <<chain, ends, fin, lost, stage, outcome>>

\* dst.Write succeeds, as soon as the link has room, and is counted (the SOCKS5
\* handler has no counters).
Write(h, d) ==
    /\ copier[h][d] = "copy" /\ buf[h][d] # <<>> /\ DestTakes(h, d)
    /\ wire' = [wire EXCEPT ![Out(h, d)][d] = @ \o buf[h][d]]
    /\ bytes' = [bytes EXCEPT ![h][d] = IF Socks(h) THEN 0 ELSE @ + Len(buf[h][d])]
    /\ buf' = [buf EXCEPT ![h][d] = <<>>]
    /\ UNCHANGED <<chain, ends, fin, lost, stage, copier, outcome>>

\* Slip: what is still to be read when the source closes is dropped.
EOFEarly(h, d) ==
    /\ copier[h][d] = "copy" /\ buf[h][d] = <<>> /\ d \in fin[In(h, d)]
    /\ copier' = [copier EXCEPT ![h][d] = "eof"]
    /\ UNCHANGED <<chain, ends, wire, fin, lost, stage, buf, bytes, outcome>>

\* Everything was read and the source is closed.  The destination is not told.
EOF(h, d) ==
    /\ copier[h][d] = "copy" /\ buf[h][d] = <<>>
    /\ d \in fin[In(h, d)] /\ wire[In(h, d)][d] = <<>> /\ In(h, d) \notin lost
    /\ copier' = [copier EXCEPT ![h][d] = "eof"]
    /\ UNCHANGED <<chain, ends, wire, fin, lost, stage, buf, bytes, outcome>>

\* Slip: only failed writes end a copy.
WriteFails(h, d) ==
    /\ copier[h][d] = "copy" /\ DestLost(h, d) /\ buf[h][d] # <<>>
    /\ copier' = [copier EXCEPT ![h][d] = "error"]
    /\ UNCHANGED <<chain, ends, wire, fin, lost, stage, buf, bytes, outcome>>

\* A read or a write fails.
CopyFails(h, d) ==
    /\ copier[h][d] = "copy"
    /\ IF buf[h][d] = <<>> THEN SourceLost(h, d) ELSE DestLost(h, d)
    /\ copier' = [copier EXCEPT ![h][d] = "error"]
    /\ UNCHANGED <<chain, ends, wire, fin, lost, stage, buf, bytes, outcome>>

Ended(h, d) == copier[h][d] \in {"eof", "error"}

\* The SOCKS5 handler returns when the copy to the application has ended, and
\* closes the application's connection and the stream.
SocksReturns(h) ==
    /\ Socks(h) /\ stage[h] = "relay" /\ Ended(h, "down")
    /\ stage' = [stage EXCEPT ![h] = "done"]
    /\ fin' = [fin EXCEPT ![h - 1] = @ \cup {"down"}, ![h] = @ \cup {"up"}]
    /\ UNCHANGED <<chain, ends, wire, lost, copies, outcome>>

\* metrics.Relay has both results and counts; the handler returns and closes its
\* opener's stream.  Only the relay handler closes the link that it opened.
RelayReturns(h) ==
    /\ ~Socks(h) /\ stage[h] = "relay" /\ \A d \in Dir : Ended(h, d)
    /\ outcome' = [outcome EXCEPT ![h] =
          IF \A d \in Dir : copier[h][d] = "eof" THEN "success" ELSE "failure"]
    /\ stage' = [stage EXCEPT ![h] = "done"]
    /\ fin' = [fin EXCEPT ![h - 1] = @ \cup {"down"},
                          ![h] = IF chain[h] = "owner" THEN @ \cup {"up"} ELSE @]
    /\ UNCHANGED <<chain, ends, wire, lost, copies>>

Copy(h, d) == (\E k \in 1..N : Read(h, d, k)) \/ Write(h, d) \/ EOF(h, d) \/ CopyFails(h, d)

Opens(h) == (\E k \in 1..(N + 1) : ReadConnectResponse(h, k)) \/ OpenFails(h)

Returns(h) == SocksReturns(h) \/ RelayReturns(h)

Next ==
    \/ Acknowledge \/ \E k \in 1..(N + 1) : AppOpened(k)
    \/ Send \/ CloseWrite \/ Close \/ BackendSend \/ BackendClose
    \/ \E l \in Link : Lose(l)
    \/ \E d \in Dir : Receive(d)
    \/ \E h \in 1..H : Opens(h) \/ Returns(h) \/ \E d \in Dir : Copy(h, d)

\* The goroutines of the handlers go on; a write that waits for room is not one that can.
Spec ==
    /\ Init /\ [][Next]_vars
    /\ WF_vars(Acknowledge)
    /\ \A h \in Hop :
          /\ WF_vars(h \in 1..H /\ Opens(h)) /\ WF_vars(h \in 1..H /\ Returns(h))
          /\ \A d \in Dir : WF_vars(h \in 1..H /\ Copy(h, d))
-----------------------------------------------------------------------------
\* metrics/relay.go:75: "Relay copies between endpoints and tracks directional
\* relay bytes."  Through all handlers, what an end has got is what the other sent,
\* from its beginning and without a gap.
InOrder ==
    \A d \in Dir : Len(got[d]) <= sent[d] /\ got[d] = [i \in 1..Len(got[d]) |-> i]

\* copyCount, Relay: a relay that is counted as a success has passed on all that was
\* written on its links, and its counters say how much.
SuccessIsWhole ==
    \A h \in 1..H : outcome[h] = "success" =>
        \A d \in Dir : /\ wire[In(h, d)][d] = <<>> /\ buf[h][d] = <<>>
                       /\ In(h, d) \in {0, H} => bytes[h][d] = sent[d]

\* What is on a link without the acknowledgement, which comes first.
Data(s) == IF s # <<>> /\ Head(s) = Ack THEN Tail(s) ELSE s

\* What handler h has passed on and the receiving end has not read yet: on the links
\* behind it, and in the handlers behind it.
Beyond(h, d) ==
    LET Behind(x, y) == IF d = "up" THEN x <= y ELSE y < x
        Wire(l) == IF l <= H /\ Behind(h, l) THEN Len(Data(wire[l][d])) ELSE 0
        Held(g) == IF g <= H /\ g # h /\ Behind(h, g) THEN Len(buf[g][d]) ELSE 0
    IN  Wire(0) + Wire(1) + Wire(2) + Wire(3) + Held(1) + Held(2) + Held(3)

\* copyCount counts what was written: at every node the counter of a direction is
\* what the receiving end has got or the rest of the chain still holds.
Counted ==
    \A h \in 1..H : ~Socks(h) => \A d \in Dir : bytes[h][d] = Len(got[d]) + Beyond(h, d)

\* Nothing more comes from a link.
Finished(h, d) == d \in fin[In(h, d)] \/ In(h, d) \in lost

\* Both links of a handler are closed or lost at their other ends; for the SOCKS5
\* handler, the stream.
Over(h) == h \in 1..H /\ stage[h] = "relay" /\ Finished(h, "down") /\ (Socks(h) \/ Finished(h, "up"))

Returned(h) == stage[h] = "done" /\ \A d \in Dir : Ended(h, d)

\* dst.Write of copyCount waits for a reader of the link.
Blocked(h, d) ==
    h \in 1..H /\ copier[h][d] = "copy" /\ buf[h][d] # <<>> /\ ~DestLost(h, d) /\ ~Room(h, d)

\* Relay: once both links of a handler are closed or lost at their other ends, it
\* returns and its goroutines end, unless a write of its own waits for ever for a reader.
HopEnds ==
    \A h \in Hop : (\A d \in Dir : []<>~Blocked(h, d)) => [](Over(h) => <>Returned(h))

\* Relay: once both links of a handler are closed or lost at their other ends, it
\* returns and its goroutines end.
HandlerReturns == \A h \in Hop : [](Over(h) => <>Returned(h))

\* metrics/collector.go:59: "Active client tunnel streams."  A stream whose
\* application and whose backend have closed is active no more.
SessionEnds ==
    [](app = "closed" /\ backend = "closed" => <>(\A h \in 1..H : stage[h] = "done"))
-----------------------------------------------------------------------------
(* What the invariants rest on, when the backend does not speak first.     *)

\* The link on which the sending end of d writes, and that which the receiving end
\* reads.
Entry(d) == IF d = "up" THEN 0 ELSE H
Exit(d) == IF d = "up" THEN H ELSE 0

\* The handler has been through its opening.
Started(h) == copier[h]["up"] # "idle"

StageInv(h) ==
    /\ \A d \in Dir : copier[h][d] # "idle" <=> Started(h)
    /\ stage[h] = "wait" => ~Started(h)
    /\ stage[h] = "relay" => Started(h)
    /\ stage[h] = "done" /\ ~Socks(h) => \A d \in Dir : copier[h][d] # "copy"

\* What is under way was sent; the links to the application may hold an
\* acknowledgement, alone.
Holds(l, d) == wire[l][d] \in Seq(1..sent[d]) \/ (d = "down" /\ wire[l][d] = <<Ack>>)

DataInv ==
    \A d \in Dir : /\ got[d] \in Seq(1..sent[d])
                  /\ \A h \in 1..H : buf[h][d] \in Seq(1..sent[d])
                  /\ \A l \in 0..H : Holds(l, d)

\* The handlers start from the backend to the client, and read the acknowledgement of
\* the next one when they do.
OpenInv(h) ==
    /\ ~Started(h) => wire[h - 1]["down"] = <<>>
    /\ Started(h) \/ h = H => wire[h]["down"] # <<Ack>>
    /\ Started(h) => \A g \in h..H : Started(g)

\* Nothing is sent before the application has its stream.
SendInv ==
    /\ app \in {"open", "shut"} => Started(1) /\ wire[0]["down"] # <<Ack>>
    /\ sent["up"] > 0 => app # "wait" /\ Started(1) /\ wire[0]["down"] # <<Ack>>
    /\ sent["down"] > 0 => sent["up"] > 0

\* The numbers after a, in order.
From(s, a) == \A i \in 1..Len(s) : s[i] = a + i

\* Item number w[l] + 1 is the first on link l, and the first in handler h comes after
\* those that it has passed on: the numbers go on from the receiving end to the
\* sending one, without a gap.
Passed(h, d, w) == w[Out(h, d)] + Len(Data(wire[Out(h, d)][d]))

Laid(d, w) ==
    /\ w[Exit(d)] = Len(got[d]) /\ sent[d] = w[Entry(d)] + Len(Data(wire[Entry(d)][d]))
    /\ From(got[d], 0) /\ \A l \in 0..H : From(Data(wire[l][d]), w[l])
    /\ \A h \in 1..H : /\ From(buf[h][d], Passed(h, d, w))
                       /\ w[In(h, d)] = Passed(h, d, w) + Len(buf[h][d])
                       /\ ~Socks(h) => bytes[h][d] = Passed(h, d, w)

Flow(d) == \E w \in [0..H -> 0..N] : Laid(d, w)

\* A direction of a link is closed by its writer, which writes no more.
FinInv(l) ==
    /\ "up" \in fin[l] => IF l = 0 THEN app \in {"shut", "closed"} ELSE stage[l] = "done"
    /\ "down" \in fin[l] => IF l = H THEN backend = "closed" ELSE stage[l + 1] = "done"

\* A copy that ended well has passed on all that there was and ever will be.
EofInv(h) ==
    /\ \A d \in Dir : copier[h][d] = "eof" =>
          d \in fin[In(h, d)] /\ wire[In(h, d)][d] = <<>> /\ buf[h][d] = <<>>
    /\ outcome[h] = "success" => ~Socks(h) /\ \A d \in Dir : copier[h][d] = "eof"

HopInv(h) == StageInv(h) /\ OpenInv(h) /\ EofInv(h)

\* The inductive invariant.
IndInv ==
    /\ TypeOK /\ DataInv /\ SendInv /\ \A d \in Dir : Flow(d)
    /\ (\A h \in 1..H : HopInv(h)) /\ \A l \in 0..H : FinInv(l)
=============================================================================
