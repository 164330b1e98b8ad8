---------------------------- MODULE RelayProofs -----------------------------
(***************************************************************************)
(* Proofs about Relay, for every amount of data and every set of chains,   *)
(* when the backend does not speak first.                                  *)
(***************************************************************************)
EXTENDS Relay, TLAPS

\* The provers that a step tries, in this order, and the seconds each may take.
USE ZenonT(5), SMTT(30), SMTT(40), SMTT(50), ZenonT(60)

(* Sequences, once, so that the steps below need not open them.            *)

\* What is left, and what is taken, when the first k items go.
LEMMA Split ==
    ASSUME NEW S, NEW s \in Seq(S), NEW k \in 1..Len(s)
    PROVE  /\ SubSeq(s, 1, k) \in Seq(S) /\ Len(SubSeq(s, 1, k)) = k
           /\ \A i \in 1..k : SubSeq(s, 1, k)[i] = s[i]
           /\ SubSeq(s, k + 1, Len(s)) \in Seq(S)
           /\ Len(SubSeq(s, k + 1, Len(s))) = Len(s) - k
           /\ \A i \in 1..(Len(s) - k) : SubSeq(s, k + 1, Len(s))[i] = s[i + k]
    OBVIOUS

LEMMA Joined ==
    ASSUME NEW S, NEW s \in Seq(S), NEW t \in Seq(S)
    PROVE  /\ s \o t \in Seq(S) /\ Len(s \o t) = Len(s) + Len(t)
           /\ \A i \in 1..Len(s) : (s \o t)[i] = s[i]
           /\ \A i \in (Len(s) + 1)..(Len(s) + Len(t)) : (s \o t)[i] = t[i - Len(s)]
    OBVIOUS

LEMMA Grown ==
    ASSUME NEW S, NEW s \in Seq(S), NEW x \in S
    PROVE  /\ Append(s, x) \in Seq(S) /\ Len(Append(s, x)) = Len(s) + 1
           /\ \A i \in 1..Len(s) : Append(s, x)[i] = s[i]
           /\ Append(s, x)[Len(s) + 1] = x
    OBVIOUS

LEMMA Empty ==
    ASSUME NEW S, NEW s \in Seq(S)
    PROVE  (s = <<>> <=> Len(s) = 0) /\ Len(s) \in Nat
    OBVIOUS

LEMMA Nil ==
    \A S : <<>> \in Seq(S) /\ Len(<<>>) = 0
    OBVIOUS

\* Numbers in order stay in order when they are taken, put together and sent.
LEMMA FromNil ==
    ASSUME NEW a
    PROVE  From(<<>>, a)
    BY Nil DEF From

LEMMA FromSplit ==
    ASSUME NEW S, NEW s \in Seq(S), NEW k \in 1..Len(s), NEW a \in Nat, From(s, a)
    PROVE  From(SubSeq(s, 1, k), a) /\ From(SubSeq(s, k + 1, Len(s)), a + k)
<1>1. /\ Len(SubSeq(s, 1, k)) = k /\ (\A i \in 1..k : SubSeq(s, 1, k)[i] = s[i])
      /\ Len(SubSeq(s, k + 1, Len(s))) = Len(s) - k
      /\ \A i \in 1..(Len(s) - k) : SubSeq(s, k + 1, Len(s))[i] = s[i + k]
    BY Split
<1>2. Len(s) \in Nat
    BY Empty
<1>3. From(SubSeq(s, 1, k), a)
    BY <1>1, <1>2 DEF From
<1>4. ASSUME NEW i \in 1..(Len(s) - k)
      PROVE  SubSeq(s, k + 1, Len(s))[i] = (a + k) + i
    <2>1. i + k \in 1..Len(s) /\ a + (i + k) = (a + k) + i
        BY <1>2
    <2>2. s[i + k] = a + (i + k)
        BY <2>1 DEF From
    <2> QED
        BY <1>1, <2>1, <2>2
<1> QED
    BY <1>1, <1>3, <1>4 DEF From

LEMMA FromJoined ==
    ASSUME NEW S, NEW s \in Seq(S), NEW t \in Seq(S), NEW a \in Nat, From(s, a), From(t, a + Len(s))
    PROVE  From(s \o t, a)
<1>1. /\ Len(s \o t) = Len(s) + Len(t) /\ \A i \in 1..Len(s) : (s \o t)[i] = s[i]
      /\ \A i \in (Len(s) + 1)..(Len(s) + Len(t)) : (s \o t)[i] = t[i - Len(s)]
    BY Joined
<1>2. Len(s) \in Nat /\ Len(t) \in Nat
    BY Empty
<1>3. ASSUME NEW i \in 1..(Len(s) + Len(t))
      PROVE  (s \o t)[i] = a + i
    <2>1. CASE i \in 1..Len(s)
        BY <1>1, <2>1 DEF From
    <2>2. CASE i \in (Len(s) + 1)..(Len(s) + Len(t))
        <3>1. i - Len(s) \in 1..Len(t) /\ (a + Len(s)) + (i - Len(s)) = a + i
            BY <1>2, <2>2
        <3>2. t[i - Len(s)] = (a + Len(s)) + (i - Len(s))
            BY <3>1 DEF From
        <3> QED
            BY <1>1, <2>2, <3>1, <3>2
    <2> QED
        BY <1>2, <2>1, <2>2
<1> QED
    BY <1>1, <1>3 DEF From

LEMMA FromGrown ==
    ASSUME NEW S, NEW s \in Seq(S), NEW a \in Nat, From(s, a), NEW x \in S, x = a + Len(s) + 1
    PROVE  From(Append(s, x), a)
<1>1. /\ Len(Append(s, x)) = Len(s) + 1 /\ (\A i \in 1..Len(s) : Append(s, x)[i] = s[i])
      /\ Append(s, x)[Len(s) + 1] = x
    BY Grown
<1>2. Len(s) \in Nat
    BY Empty
<1>3. ASSUME NEW i \in 1..(Len(s) + 1)
      PROVE  Append(s, x)[i] = a + i
    <2>1. CASE i \in 1..Len(s)
        BY <1>1, <2>1 DEF From
    <2>2. CASE i = Len(s) + 1
        BY <1>1, <1>2, <2>2
    <2> QED
        BY <1>2, <2>1, <2>2
<1> QED
    BY <1>1, <1>3 DEF From

\* The last number shows how many there are.
LEMMA FromBound ==
    ASSUME NEW n \in Nat, NEW s \in Seq(1..n), NEW a \in 0..n, From(s, a)
    PROVE  a + Len(s) \in 0..n
<1>1. Len(s) \in Nat /\ (Len(s) = 0 \/ Len(s) \in 1..Len(s))
    OBVIOUS
<1>2. CASE Len(s) = 0
    BY <1>2
<1>3. CASE Len(s) \in 1..Len(s)
    <2>1. s[Len(s)] \in 1..n
        BY <1>3
    <2>2. s[Len(s)] = a + Len(s)
        BY <1>3 DEF From
    <2> QED
        BY <1>1, <2>1, <2>2
<1> QED
    BY <1>1, <1>2, <1>3

\* Sequences of what was sent.
LEMMA Wider ==
    ASSUME NEW m \in Nat, NEW n \in Nat, m <= n, NEW s \in Seq(1..m)
    PROVE  s \in Seq(1..n) /\ (m = 0 => s = <<>>)
    OBVIOUS

\* What is on a link, with and without an acknowledgement.
LEMMA DataOf ==
    /\ Data(<<>>) = <<>> /\ Data(<<Ack>>) = <<>> /\ <<Ack>> # <<>> /\ Len(<<Ack>>) = 1
    /\ \A n \in Nat : \A s \in Seq(1..n) : Data(s) = s /\ s # <<Ack>>
<1>1. Data(<<>>) = <<>>
    BY DEF Data
<1>2. Data(<<Ack>>) = <<>> /\ <<Ack>> # <<>> /\ Len(<<Ack>>) = 1
    BY DEF Data
<1>3. ASSUME NEW n \in Nat, NEW s \in Seq(1..n)
      PROVE  Data(s) = s /\ s # <<Ack>>
    <2>1. s # <<>> => Head(s) \in 1..n
        OBVIOUS
    <2>2. Head(<<Ack>>) = Ack /\ <<Ack>> # <<>>
        OBVIOUS
    <2>3. Ack \notin 1..n
        BY DEF Ack
    <2> QED
        BY <2>1, <2>2, <2>3 DEF Data
<1> QED
    BY <1>1, <1>2, <1>3

\* A reader that has found something has found the acknowledgement.
LEMMA AckAlone ==
    ASSUME NEW s, s \in {<<>>, <<Ack>>}, NEW k \in 1..Len(s)
    PROVE  s = <<Ack>> /\ k = 1
<1>1. CASE s = <<>>
    <2>1. Len(s) = 0
        BY <1>1
    <2> QED
        BY <2>1
<1>2. CASE s = <<Ack>>
    <2>1. Len(s) = 1
        BY <1>2, DataOf
    <2> QED
        BY <1>2, <2>1
<1> QED
    BY <1>1, <1>2

\* One place of a table of links, or of handlers, is replaced.
LEMMA Put ==
    ASSUME NEW S, NEW T, NEW f \in [S -> [Dir -> T]], NEW x \in S, NEW d \in Dir, NEW v \in T
    PROVE  /\ [f EXCEPT ![x][d] = v] \in [S -> [Dir -> T]]
           /\ [f EXCEPT ![x][d] = v][x][d] = v
           /\ \A y \in S : \A e \in Dir : y # x \/ e # d => [f EXCEPT ![x][d] = v][y][e] = f[y][e]
    OBVIOUS

\* A direction of a link is closed.
LEMMA Closed ==
    ASSUME NEW f \in [Link -> SUBSET Dir], NEW l \in Link, NEW e \in SUBSET Dir
    PROVE  /\ [f EXCEPT ![l] = f[l] \cup e] \in [Link -> SUBSET Dir]
           /\ [f EXCEPT ![l] = f[l] \cup e][l] = f[l] \cup e
           /\ \A k \in Link \ {l} : [f EXCEPT ![l] = f[l] \cup e][k] = f[k]
<1>1. f[l] \cup e \in SUBSET Dir
    OBVIOUS
<1> QED
    BY <1>1
-----------------------------------------------------------------------------
(* The chain.                                                              *)

LEMMA Shape ==
    ASSUME TypeOK
    PROVE  H \in 1..3 /\ N \in Nat
<1>1. chain \in {<<"edge">>, <<"socks", "edge">>, <<"edge", "owner">>, <<"socks", "edge", "owner">>}
    BY RelayAssumption DEF TypeOK
<1>2. Len(<<"edge">>) = 1 /\ Len(<<"socks", "edge">>) = 2 /\ Len(<<"edge", "owner">>) = 2
      /\ Len(<<"socks", "edge", "owner">>) = 3
    OBVIOUS
<1>3. H \in 1..3
    BY <1>1, <1>2 DEF H
<1>4. N \in Nat
    BY RelayAssumption DEF TypeOK, N
<1> QED
    BY <1>3, <1>4

\* A handler reads one link and writes another, no two handlers the same one.
LEMMA Links ==
    ASSUME H \in 1..3, NEW h \in 1..H, NEW d \in Dir
    PROVE  /\ In(h, d) \in 0..H /\ Out(h, d) \in 0..H /\ In(h, d) # Out(h, d)
           /\ In(h, d) # Exit(d) /\ Out(h, d) # Entry(d)
           /\ Entry(d) \in 0..H /\ Exit(d) \in 0..H
           /\ \A g \in 1..H : g # h => In(g, d) # In(h, d) /\ Out(g, d) # Out(h, d)
    BY DEF In, Out, Entry, Exit, Dir

\* The tables at the places in use.
LEMMA Typed ==
    ASSUME TypeOK
    PROVE  /\ \A l \in 0..H : l \in Link /\ \A d \in Dir : wire[l][d] \in Seq(0..N)
           /\ \A h \in 1..H : h \in Hop /\ \A d \in Dir : buf[h][d] \in Seq(1..N) /\ bytes[h][d] \in 0..N
           /\ \A d \in Dir : sent[d] \in 0..N /\ got[d] \in Seq(1..N)
           /\ N \in Nat /\ H \in 1..3
<1>1. H \in 1..3 /\ N \in Nat
    BY Shape
<1>2. \A l \in 0..H : l \in Link /\ \A d \in Dir : wire[l][d] \in Seq(0..N)
    <2>1. \A l \in 0..H : l \in Link
        BY <1>1 DEF Link
    <2> QED
        BY <2>1 DEF TypeOK
<1>3. \A h \in 1..H : h \in Hop /\ \A d \in Dir : buf[h][d] \in Seq(1..N) /\ bytes[h][d] \in 0..N
    <2>1. \A h \in 1..H : h \in Hop
        BY <1>1 DEF Hop
    <2> QED
        BY <2>1 DEF TypeOK
<1>4. \A d \in Dir : sent[d] \in 0..N /\ got[d] \in Seq(1..N)
    BY DEF TypeOK
<1> QED
    BY <1>1, <1>2, <1>3, <1>4
-----------------------------------------------------------------------------
(* What a step leaves alone.                                               *)

\* A direction in which nothing is sent, moved or received.
LEMMA FlowSame ==
    ASSUME TypeOK, NEW d \in Dir, Flow(d), chain' = chain, got'[d] = got[d], sent'[d] = sent[d],
           \A l \in 0..H : Data(wire'[l][d]) = Data(wire[l][d]),
           \A h \in 1..H : buf'[h][d] = buf[h][d] /\ bytes'[h][d] = bytes[h][d]
    PROVE  Flow(d)'
<1>1. PICK w \in [0..H -> 0..N] : Laid(d, w)
    BY DEF Flow
<1>2. H \in 1..3 /\ H' = H /\ N' = N
    <2>1. H' = H /\ N' = N
        BY DEF H, N
    <2> QED
        BY <2>1, Shape
<1>3. \A h \in 1..H : Passed(h, d, w)' = Passed(h, d, w)
    BY <1>2, Links DEF Passed, Out
<1>4. Exit(d)' = Exit(d) /\ Entry(d)' = Entry(d) /\ Entry(d) \in 0..H
    BY <1>2 DEF Exit, Entry
<1>5. \A h : Socks(h)' = Socks(h)
    BY DEF Socks
<1>6. Laid(d, w)'
    <2>1. /\ w[Exit(d)'] = Len(got'[d]) /\ sent'[d] = w[Entry(d)'] + Len(Data(wire'[Entry(d)'][d]))
          /\ From(got'[d], 0)
        BY <1>1, <1>4 DEF Laid
    <2>2. \A l \in 0..H : From(Data(wire'[l][d]), w[l])
        BY <1>1 DEF Laid
    <2>3. \A h \in 1..H : /\ From(buf'[h][d], Passed(h, d, w)')
                          /\ w[In(h, d)] = Passed(h, d, w)' + Len(buf'[h][d])
                          /\ ~Socks(h)' => bytes'[h][d] = Passed(h, d, w)'
        BY <1>1, <1>3, <1>5 DEF Laid
    <2> QED
        BY <1>2, <2>1, <2>2, <2>3 DEF Laid, Data, In, From
<1> QED
    BY <1>2, <1>6 DEF Flow

\* A step that moves nothing at all.
LEMMA FlowsSame ==
    ASSUME TypeOK, \A d \in Dir : Flow(d), UNCHANGED <<chain, got, sent, wire, buf, bytes>>
    PROVE  \A d \in Dir : Flow(d)'
    BY FlowSame

LEMMA StageSame ==
    ASSUME NEW h, StageInv(h), chain' = chain, stage'[h] = stage[h], copier'[h] = copier[h]
    PROVE  StageInv(h)'
    BY DEF StageInv, Started, Socks

LEMMA OpenSame ==
    ASSUME NEW h \in 1..H, OpenInv(h), chain' = chain, H \in 1..3,
           \A g \in 1..H : Started(g)' <=> Started(g),
           wire'[h - 1]["down"] = wire[h - 1]["down"],
           wire'[h]["down"] = wire[h]["down"] \/ wire'[h]["down"] # <<Ack>>
    PROVE  OpenInv(h)'
<1>1. H' = H
    BY DEF H
<1> QED
    BY <1>1 DEF OpenInv

LEMMA EofSame ==
    ASSUME NEW h \in 1..H, EofInv(h), chain' = chain, copier'[h] = copier[h], outcome'[h] = outcome[h],
           \A d \in Dir : copier[h][d] = "eof" =>
               /\ fin[In(h, d)] \subseteq fin'[In(h, d)]
               /\ wire'[In(h, d)][d] = wire[In(h, d)][d] /\ buf'[h][d] = buf[h][d]
    PROVE  EofInv(h)'
    BY DEF EofInv, Socks, In

LEMMA FinSame ==
    ASSUME NEW l \in 0..H, FinInv(l), chain' = chain, H \in 1..3, fin'[l] = fin[l],
           app \in {"shut", "closed"} => app' \in {"shut", "closed"},
           backend = "closed" => backend' = "closed",
           \A h \in 1..H : stage[h] = "done" => stage'[h] = "done"
    PROVE  FinInv(l)'
<1>1. H' = H
    BY DEF H
<1>2. (l # 0 => l \in 1..H) /\ (l # H => l + 1 \in 1..H)
    OBVIOUS
<1> QED
    BY <1>1, <1>2 DEF FinInv

\* What the steps use of the invariant, at the places in use.
LEMMA Parts ==
    ASSUME IndInv
    PROVE  /\ TypeOK /\ DataInv /\ SendInv /\ H \in 1..3 /\ N \in Nat /\ "up" \in Dir /\ "down" \in Dir
           /\ \A d \in Dir : Flow(d)
           /\ \A h \in 1..H : StageInv(h) /\ OpenInv(h) /\ EofInv(h) /\ h \in Hop
           /\ \A l \in 0..H : FinInv(l) /\ l \in Link
<1>1. TypeOK /\ H \in 1..3 /\ N \in Nat
    BY Shape DEF IndInv
<1>2. (\A h \in 1..H : h \in Hop) /\ \A l \in 0..H : l \in Link
    BY <1>1 DEF Hop, Link
<1>3. DataInv /\ SendInv /\ (\A d \in Dir : Flow(d)) /\ "up" \in Dir /\ "down" \in Dir
    BY DEF IndInv, Dir
<1>4. (\A h \in 1..H : StageInv(h) /\ OpenInv(h) /\ EofInv(h)) /\ \A l \in 0..H : FinInv(l)
    BY DEF IndInv, HopInv
<1> QED
    BY <1>1, <1>2, <1>3, <1>4

\* And what they have to show.
LEMMA Whole ==
    ASSUME H' = H, TypeOK', DataInv', SendInv', \A d \in Dir : Flow(d)',
           \A h \in 1..H : StageInv(h)' /\ OpenInv(h)' /\ EofInv(h)',
           \A l \in 0..H : FinInv(l)'
    PROVE  IndInv'
<1>1. \A h \in 1..H : HopInv(h)'
    BY DEF HopInv
<1> QED
    BY <1>1 DEF IndInv

\* The steps of the ends that move nothing.
LEMMA EndSteps ==
    ASSUME IndInv, CloseWrite \/ Close \/ BackendClose \/ \E l \in Link : Lose(l)
    PROVE  IndInv'
<1>1. TypeOK /\ H \in 1..3 /\ H \in Link /\ 0 \in Link
    BY Parts
<1>2. /\ chain' = chain /\ got' = got /\ sent' = sent /\ wire' = wire /\ stage' = stage
      /\ copier' = copier /\ buf' = buf /\ bytes' = bytes /\ outcome' = outcome
    <2>1. CASE \E l \in Link : Lose(l)
        BY <2>1 DEF Lose, ends, copies
    <2>2. CASE CloseWrite \/ Close \/ BackendClose
        BY <2>2 DEF CloseWrite, Close, BackendClose, copies
    <2> QED
        BY <2>1, <2>2
<1>3. /\ app' = app \/ app' = "closed" \/ (app = "open" /\ app' = "shut")
      /\ backend' = backend \/ backend' = "closed"
    BY DEF CloseWrite, Close, BackendClose, Lose, ends
<1>4. \/ fin' = fin
      \/ fin' = [fin EXCEPT ![0] = @ \cup {"up"}] /\ app' \in {"shut", "closed"}
      \/ fin' = [fin EXCEPT ![H] = @ \cup {"down"}] /\ backend' = "closed"
    BY DEF CloseWrite, Close, BackendClose, Lose
<1>5. fin' \in [Link -> SUBSET Dir]
    <2>1. fin \in [Link -> SUBSET Dir] /\ {"up"} \in SUBSET Dir /\ {"down"} \in SUBSET Dir
        BY <1>1 DEF TypeOK, Dir
    <2> QED
        BY <1>1, <1>4, <2>1, Closed
<1>6. lost' \subseteq Link
    <2>1. lost' = lost \/ \E l \in Link : lost' = lost \cup {l}
        BY <1>1 DEF CloseWrite, Close, BackendClose, Lose
    <2> QED
        BY <1>1, <2>1 DEF TypeOK
<1>7. H' = H /\ N' = N
    BY <1>2 DEF H, N
<1>8. TypeOK'
    BY <1>1, <1>2, <1>3, <1>5, <1>6, <1>7 DEF TypeOK
<1>9. DataInv' /\ SendInv'
    BY <1>2, <1>3, <1>7, Parts DEF DataInv, Holds, SendInv, Started
<1>10. \A d \in Dir : Flow(d)'
    BY <1>1, <1>2, Parts, FlowsSame
<1>11. \A l \in Link :
          /\ fin[l] \subseteq fin'[l]
          /\ "up" \in fin'[l] => "up" \in fin[l] \/ (l = 0 /\ app' \in {"shut", "closed"})
          /\ "down" \in fin'[l] => "down" \in fin[l] \/ (l = H /\ backend' = "closed")
    BY <1>1, <1>4 DEF TypeOK
<1>12. ASSUME NEW h \in 1..H
       PROVE  StageInv(h)' /\ OpenInv(h)' /\ EofInv(h)'
    <2>1. StageInv(h)'
        BY <1>2, Parts, StageSame
    <2>2. OpenInv(h)'
        BY <1>1, <1>2, Parts, OpenSame DEF Started
    <2>3. \A d \in Dir : In(h, d) \in Link
        BY <1>1, Links, Parts
    <2>4. EofInv(h)'
        BY <1>2, <1>11, <2>3, Parts, EofSame
    <2> QED
        BY <2>1, <2>2, <2>4
<1>13. ASSUME NEW l \in 0..H
       PROVE  FinInv(l)'
    BY <1>2, <1>3, <1>7, <1>11, Parts DEF FinInv
<1> QED
    BY <1>7, <1>8, <1>9, <1>10, <1>12, <1>13, Whole
-----------------------------------------------------------------------------
(* The handlers open their links.                                          *)

\* As long as a handler waits, or the application, nothing was sent.
LEMMA Nothing ==
    ASSUME IndInv, app = "wait" \/ \E h \in 1..H : ~Started(h)
    PROVE  /\ sent["up"] = 0 /\ sent["down"] = 0
           /\ \A l \in 0..H : wire[l]["down"] \in {<<>>, <<Ack>>} /\ Data(wire[l]["down"]) = <<>>
<1>1. SendInv /\ DataInv /\ sent["up"] \in 0..N /\ sent["down"] \in 0..N /\ N \in Nat /\ H \in 1..3
      /\ "down" \in Dir /\ OpenInv(1)
    BY Parts, Typed
<1>2. Started(1) => \A h \in 1..H : Started(h)
    BY <1>1 DEF OpenInv
<1>3. sent["up"] = 0 /\ sent["down"] = 0
    BY <1>1, <1>2 DEF SendInv
<1>4. ASSUME NEW l \in 0..H
      PROVE  wire[l]["down"] \in {<<>>, <<Ack>>} /\ Data(wire[l]["down"]) = <<>>
    <2>1. \A s \in Seq(1..0) : s = <<>>
        OBVIOUS
    <2>2. wire[l]["down"] \in Seq(1..0) \/ wire[l]["down"] = <<Ack>>
        BY <1>1, <1>3 DEF DataInv, Holds
    <2>3. wire[l]["down"] \in {<<>>, <<Ack>>}
        BY <2>1, <2>2
    <2> QED
        BY <2>3, DataOf
<1> QED
    BY <1>3, <1>4

\* A handler acknowledges, having read the acknowledgement that it waited for.
LEMMA StartsStep ==
    ASSUME IndInv, NEW h \in 1..H, NEW v \in [Link -> [Dir -> Seq(0..N)]], Starts(h, v), ~Started(h),
           \A l \in 0..H : v[l]["up"] = wire[l]["up"],
           \A l \in (0..H) \ {h} : v[l]["down"] = wire[l]["down"],
           v[h]["down"] = <<>>, h < H => Started(h + 1)
    PROVE  IndInv'
<1>1. /\ TypeOK /\ H \in 1..3 /\ N \in Nat /\ "up" \in Dir /\ "down" \in Dir
      /\ h - 1 \in 0..H /\ h \in 0..H /\ h - 1 # h /\ h - 1 \in Link /\ h \in Hop
    BY Parts
<1>2. /\ chain' = chain /\ app' = app /\ backend' = backend /\ sent' = sent /\ got' = got
      /\ fin' = fin /\ lost' = lost /\ buf' = buf /\ bytes' = bytes /\ outcome' = outcome
    BY DEF Starts, ends
<1>3. H' = H /\ N' = N
    BY <1>2 DEF H, N
<1>4. v[h - 1]["down"] = <<>>
    BY <1>1, Parts DEF OpenInv
<1>5. /\ wire' \in [Link -> [Dir -> Seq(0..N)]] /\ wire'[h - 1]["down"] = <<Ack>>
      /\ \A y \in Link : \A e \in Dir : y # h - 1 \/ e # "down" => wire'[y][e] = v[y][e]
    <2>1. Append(<<>>, Ack) = <<Ack>> /\ <<Ack>> \in Seq(0..N)
        BY <1>1 DEF Ack
    <2>2. wire' = [v EXCEPT ![h - 1]["down"] = <<Ack>>]
        BY <1>1, <1>4, <2>1 DEF Starts
    <2> QED
        BY <1>1, <2>1, <2>2, Put
<1>6. /\ \A l \in 0..H : wire'[l]["up"] = wire[l]["up"]
      /\ \A l \in (0..H) \ {h, h - 1} : wire'[l]["down"] = wire[l]["down"]
      /\ wire'[h]["down"] = <<>>
    BY <1>1, <1>5, Parts, ZenonT(60)
<1>7. /\ stage' = [stage EXCEPT ![h] = "relay"] /\ stage[h] = "wait"
      /\ copier' = [copier EXCEPT ![h] = [d \in Dir |-> "copy"]]
    BY DEF Starts
<1>8. /\ stage'[h] = "relay" /\ \A d \in Dir : copier'[h][d] = "copy"
      /\ \A g \in (1..H) \ {h} : stage'[g] = stage[g] /\ copier'[g] = copier[g]
    BY <1>1, <1>7, Parts DEF TypeOK
<1>9. Started(h)' /\ \A g \in (1..H) \ {h} : Started(g)' <=> Started(g)
    BY <1>1, <1>8 DEF Started
<1>10. TypeOK'
    BY <1>1, <1>2, <1>3, <1>5, <1>7 DEF TypeOK
<1>11. \A d \in Dir : Flow(d)'
    <2>1. \A l \in 0..H : Data(wire'[l]["down"]) = Data(wire[l]["down"])
        BY <1>1, <1>5, <1>6, DataOf, Nothing
    <2>2. \A d \in Dir : \A l \in 0..H : Data(wire'[l][d]) = Data(wire[l][d])
        BY <1>6, <2>1 DEF Dir
    <2> QED
        BY <1>1, <1>2, <2>2, FlowSame, Parts
<1>12. DataInv'
    <2>1. <<>> \in Seq(1..sent["down"])
        OBVIOUS
    <2>2. ASSUME NEW l \in 0..H
          PROVE  Holds(l, "up")' /\ Holds(l, "down")'
        <3>1. Holds(l, "up") /\ Holds(l, "down")
            BY Parts DEF DataInv
        <3>2. Holds(l, "up")'
            BY <1>2, <1>6, <3>1 DEF Holds
        <3>3. wire'[l]["down"] = wire[l]["down"] \/ wire'[l]["down"] = <<Ack>> \/ wire'[l]["down"] = <<>>
            BY <1>5, <1>6
        <3>4. Holds(l, "down")'
            BY <1>2, <2>1, <3>1, <3>3 DEF Holds
        <3> QED
            BY <3>2, <3>4
    <2>3. \A d \in Dir : \A l \in 0..H : Holds(l, d)'
        BY <2>2 DEF Dir
    <2> QED
        BY <1>2, <1>3, <2>3, Parts DEF DataInv
<1>13. SendInv'
    <2>1. sent["up"] = 0 /\ sent["down"] = 0
        BY Nothing
    <2>2. app \in {"open", "shut"} => h # 1
        BY Parts DEF SendInv
    <2>3. h # 1 => wire'[0]["down"] = wire[0]["down"]
        <3>1. h # 1 => 0 \in (0..H) \ {h, h - 1}
            BY <1>1
        <3> QED
            BY <1>6, <3>1
    <2>4. SendInv /\ (h # 1 => (Started(1)' <=> Started(1)))
        BY <1>1, <1>9, Parts
    <2>5. app \in {"open", "shut"} => Started(1)' /\ wire'[0]["down"] # <<Ack>>
        BY <2>2, <2>3, <2>4 DEF SendInv
    <2> QED
        BY <1>2, <2>1, <2>5 DEF SendInv
<1>14. ASSUME NEW g \in 1..H
       PROVE  StageInv(g)' /\ OpenInv(g)' /\ EofInv(g)'
    <2>1. StageInv(g) /\ OpenInv(g) /\ EofInv(g) /\ OpenInv(h)
        BY Parts
    <2>2. CASE g = h
        <3>1. StageInv(g)'
            BY <1>8, <1>9, <2>2 DEF StageInv
        <3>2. \A k \in (h + 1)..H : Started(k)
            <4>1. CASE h < H
                <5>1. h + 1 \in 1..H
                    BY <1>1, <4>1
                <5>2. OpenInv(h + 1)
                    BY <5>1, Parts
                <5> QED
                    BY <4>1, <5>2 DEF OpenInv
            <4>2. CASE ~(h < H)
                <5>1. \A k \in (h + 1)..H : FALSE
                    BY <1>1, <4>2
                <5> QED
                    BY <5>1
            <4> QED
                BY <4>1, <4>2
        <3>3. OpenInv(g)'
            <4>1. \A k \in h..H : k = h \/ (k \in (h + 1)..H /\ k \in (1..H) \ {h})
                BY <1>1
            <4>2. \A k \in h..H : Started(k)'
                BY <1>9, <3>2, <4>1
            <4>3. wire'[h]["down"] # <<Ack>>
                BY <1>6, DataOf
            <4> QED
                BY <1>3, <1>9, <2>2, <4>2, <4>3 DEF OpenInv
        <3>4. EofInv(g)'
            BY <1>1, <1>2, <1>7, <1>8, <2>1, <2>2, Parts DEF EofInv, StageInv, Started
        <3> QED
            BY <3>1, <3>3, <3>4
    <2>3. CASE g # h
        <3>1. StageInv(g)'
            BY <1>2, <1>8, <2>1, <2>3, StageSame
        <3>2. OpenInv(g)'
            <4>1. ~Started(g)' => wire'[g - 1]["down"] = <<>>
                <5>1. g - 1 \in 0..H /\ g - 1 # h - 1
                    BY <1>1, <2>3
                <5> QED
                    BY <1>6, <1>9, <2>1, <2>3, <5>1 DEF OpenInv
            <4>2. Started(g)' \/ g = H => wire'[g]["down"] # <<Ack>>
                <5>1. Started(g) \/ g = H => g # h - 1
                    BY <1>1, <2>1 DEF OpenInv
                <5>2. g \in (0..H) \ {h}
                    BY <1>1, <2>3
                <5> QED
                    BY <1>6, <1>9, <2>1, <2>3, <5>1, <5>2 DEF OpenInv
            <4>3. Started(g)' => \A k \in g..H : Started(k)'
                <5>1. \A k \in g..H : k \in 1..H
                    BY <1>1
                <5> QED
                    BY <1>9, <2>1, <2>3, <5>1 DEF OpenInv
            <4> QED
                BY <1>3, <4>1, <4>2, <4>3 DEF OpenInv
        <3>3. EofInv(g)'
            <4>1. ASSUME NEW d \in Dir, copier[g][d] = "eof"
                  PROVE  wire'[In(g, d)][d] = wire[In(g, d)][d]
                <5>1. In(g, d) \in 0..H /\ d \in fin[In(g, d)] /\ FinInv(In(g, d))
                    BY <1>1, <2>1, <4>1, Links, Parts DEF EofInv
                <5>2. d = "down" => In(g, d) # h - 1
                    BY <1>1, <1>7, <5>1 DEF FinInv
                <5>3. d = "down" => In(g, d) = g
                    BY DEF In
                <5> QED
                    BY <1>6, <2>3, <5>1, <5>2, <5>3 DEF Dir
            <4> QED
                BY <1>2, <1>8, <2>1, <2>3, <4>1, EofSame
        <3> QED
            BY <3>1, <3>2, <3>3
    <2> QED
        BY <2>2, <2>3
<1>15. ASSUME NEW l \in 0..H
       PROVE  FinInv(l)'
    <2>1. \A g \in 1..H : stage[g] = "done" => stage'[g] = "done"
        BY <1>7, <1>8
    <2> QED
        BY <1>1, <1>2, <2>1, FinSame, Parts
<1> QED
    BY <1>3, <1>10, <1>11, <1>12, <1>13, <1>14, <1>15, Whole

\* OpenStream or OpenRelay, and the last handler: each finds one acknowledgement.
LEMMA OpenStep ==
    ASSUME IndInv, Acknowledge \/ \E h \in 1..H, k \in 1..(N + 1) : ReadConnectResponse(h, k)
    PROVE  IndInv'
<1>1. TypeOK /\ H \in 1..3 /\ H \in 1..H
    BY Parts
<1>2. CASE Acknowledge
    <2>1. Starts(H, wire) /\ stage[H] = "wait" /\ wire \in [Link -> [Dir -> Seq(0..N)]]
        BY <1>1, <1>2 DEF Acknowledge, Starts, TypeOK
    <2>2. ~Started(H) /\ H \in 0..H
        BY <1>1, <2>1, Parts DEF StageInv
    <2>3. wire[H]["down"] # <<Ack>> /\ wire[H]["down"] \in {<<>>, <<Ack>>}
        BY <1>1, <2>2, Parts, Nothing DEF OpenInv
    <2>4. wire[H]["down"] = <<>> /\ ~(H < H)
        BY <1>1, <2>3
    <2> QED
        BY <1>1, <2>1, <2>2, <2>4, StartsStep
<1>3. ASSUME NEW h \in 1..H, NEW k \in 1..(N + 1), ReadConnectResponse(h, k)
      PROVE  IndInv'
    <2>1. h < H /\ k \in 1..Len(wire[h]["down"]) /\ Starts(h, Taken(wire, h, k)) /\ stage[h] = "wait"
        BY <1>3 DEF ReadConnectResponse, Starts
    <2>2. ~Started(h) /\ h \in 0..H /\ h \in Link /\ "down" \in Dir /\ "up" \in Dir
        BY <1>1, <2>1, Parts DEF StageInv
    <2>3. wire[h]["down"] \in {<<>>, <<Ack>>} /\ Len(<<>>) = 0 /\ Len(<<Ack>>) = 1
        BY <2>2, Nothing, DataOf
    <2>4. wire[h]["down"] = <<Ack>> /\ k = 1
        BY <2>1, <2>3, AckAlone
    <2>5. SubSeq(<<Ack>>, 1 + 1, 1) = <<>> /\ <<>> \in Seq(0..N)
        OBVIOUS
    <2>6. wire \in [Link -> [Dir -> Seq(0..N)]]
        BY <1>1 DEF TypeOK
    <2>7. Taken(wire, h, k) = [wire EXCEPT ![h]["down"] = <<>>]
        BY <2>3, <2>4, <2>5 DEF Taken
    <2>8. /\ Taken(wire, h, k) \in [Link -> [Dir -> Seq(0..N)]] /\ Taken(wire, h, k)[h]["down"] = <<>>
          /\ \A y \in Link : \A e \in Dir : y # h \/ e # "down" => Taken(wire, h, k)[y][e] = wire[y][e]
        BY <2>2, <2>5, <2>6, <2>7, Put
    <2>9. /\ \A l \in 0..H : Taken(wire, h, k)[l]["up"] = wire[l]["up"]
          /\ \A l \in (0..H) \ {h} : Taken(wire, h, k)[l]["down"] = wire[l]["down"]
        BY <2>2, <2>8, Parts
    <2>10. h + 1 \in 1..H /\ (h + 1) - 1 = h
        BY <1>1, <2>1
    <2>11. Started(h + 1)
        BY <2>4, <2>10, Parts, DataOf DEF OpenInv
    <2> QED
        BY <2>1, <2>2, <2>8, <2>9, <2>11, StartsStep
<1> QED
    BY <1>2, <1>3

\* The application reads its acknowledgement.
LEMMA AppStep ==
    ASSUME IndInv, NEW k \in 1..(N + 1), AppOpened(k)
    PROVE  IndInv'
<1>1. TypeOK /\ H \in 1..3 /\ 0 \in 0..H /\ 0 \in Link /\ "down" \in Dir /\ "up" \in Dir /\ 1 \in 1..H
    BY Parts
<1>2. /\ app = "wait" /\ app' = "open" /\ k \in 1..Len(wire[0]["down"]) /\ wire' = Taken(wire, 0, k)
      /\ chain' = chain /\ backend' = backend /\ sent' = sent /\ got' = got /\ fin' = fin
      /\ lost' = lost /\ stage' = stage /\ copier' = copier /\ buf' = buf /\ bytes' = bytes
      /\ outcome' = outcome
    BY DEF AppOpened, copies
<1>3. wire[0]["down"] \in {<<>>, <<Ack>>} /\ Len(<<>>) = 0 /\ Len(<<Ack>>) = 1
    BY <1>1, <1>2, Nothing, DataOf
<1>4. wire[0]["down"] = <<Ack>> /\ k = 1
    BY <1>2, <1>3, AckAlone
<1>5. SubSeq(<<Ack>>, 1 + 1, 1) = <<>> /\ <<>> \in Seq(0..N) /\ <<>> \in Seq(1..sent["down"])
    OBVIOUS
<1>6. wire' = [wire EXCEPT ![0]["down"] = <<>>]
    BY <1>2, <1>3, <1>4, <1>5 DEF Taken
<1>7. /\ wire' \in [Link -> [Dir -> Seq(0..N)]] /\ wire'[0]["down"] = <<>>
      /\ \A y \in Link : \A e \in Dir : y # 0 \/ e # "down" => wire'[y][e] = wire[y][e]
    <2>1. wire \in [Link -> [Dir -> Seq(0..N)]]
        BY <1>1 DEF TypeOK
    <2> QED
        BY <1>1, <1>5, <1>6, <2>1, Put
<1>8. H' = H /\ N' = N
    BY <1>2 DEF H, N
<1>9. TypeOK'
    BY <1>1, <1>2, <1>7, <1>8 DEF TypeOK
<1>10. \A l \in 0..H : \A d \in Dir :
           wire'[l][d] = wire[l][d] \/ (l = 0 /\ d = "down" /\ wire'[l][d] = <<>>)
    BY <1>7, Parts
<1>11. DataInv'
    <2>1. ASSUME NEW d \in Dir, NEW l \in 0..H
          PROVE  Holds(l, d)'
        <3>1. Holds(l, d)
            BY Parts DEF DataInv
        <3>2. CASE wire'[l][d] = wire[l][d]
            BY <1>2, <3>1, <3>2 DEF Holds
        <3>3. CASE d = "down" /\ wire'[l][d] = <<>>
            BY <1>2, <1>5, <3>3 DEF Holds
        <3> QED
            BY <1>10, <3>2, <3>3
    <2> QED
        BY <1>2, <1>8, <2>1, Parts DEF DataInv
<1>12. Started(1)
    BY <1>1, <1>4, Parts, DataOf DEF OpenInv
<1>13. SendInv'
    BY <1>2, <1>7, <1>12, DataOf, Nothing DEF SendInv, Started
<1>14. \A d \in Dir : Flow(d)'
    <2>1. \A l \in 0..H : \A d \in Dir : Data(wire'[l][d]) = Data(wire[l][d])
        BY <1>4, <1>10, DataOf
    <2> QED
        BY <1>1, <1>2, <2>1, FlowSame, Parts
<1>15. ASSUME NEW h \in 1..H
       PROVE  StageInv(h)' /\ OpenInv(h)' /\ EofInv(h)'
    <2>1. StageInv(h) /\ OpenInv(h) /\ EofInv(h) /\ h - 1 \in 0..H /\ h \in 0..H /\ OpenInv(1)
        BY <1>1, Parts
    <2>2. \A g \in 1..H : Started(g)' /\ Started(g)
        BY <1>2, <1>12, <2>1 DEF OpenInv, Started
    <2>3. OpenInv(h)'
        BY <1>1, <1>8, <1>10, <2>1, <2>2, DataOf DEF OpenInv
    <2>4. ASSUME NEW d \in Dir, copier[h][d] = "eof"
          PROVE  wire'[In(h, d)][d] = wire[In(h, d)][d]
        <3>1. In(h, d) \in 0..H /\ wire[In(h, d)][d] = <<>>
            BY <1>1, <2>1, <2>4, Links DEF EofInv
        <3> QED
            BY <1>10, <3>1
    <2>5. StageInv(h)' /\ EofInv(h)'
        BY <1>2, <2>1, <2>4, StageSame, EofSame
    <2> QED
        BY <2>3, <2>5
<1>16. ASSUME NEW l \in 0..H
       PROVE  FinInv(l)'
    BY <1>1, <1>2, FinSame, Parts
<1> QED
    BY <1>8, <1>9, <1>11, <1>13, <1>14, <1>15, <1>16, Whole
-----------------------------------------------------------------------------
(* The handlers return, and the copies end.                                *)

\* A handler returns, relayed or not, and closes its links.
LEMMA ReturnStep ==
    ASSUME IndInv, NEW h \in 1..H, OpenFails(h) \/ Returns(h)
    PROVE  IndInv'
<1>1. TypeOK /\ H \in 1..3 /\ h \in Hop /\ h \in Link /\ h - 1 \in Link /\ h - 1 # h
    BY Parts
<1>2. /\ chain' = chain /\ app' = app /\ backend' = backend /\ sent' = sent /\ got' = got
      /\ wire' = wire /\ lost' = lost /\ copier' = copier /\ buf' = buf /\ bytes' = bytes
      /\ stage' = [stage EXCEPT ![h] = "done"]
    BY DEF OpenFails, Returns, SocksReturns, RelayReturns, ends, copies
<1>3. \E a \in SUBSET Dir : /\ a \subseteq {"up"}
                           /\ fin' = [fin EXCEPT ![h - 1] = @ \cup {"down"}, ![h] = @ \cup a]
    <2>1. {} \in SUBSET Dir /\ {"up"} \in SUBSET Dir
        BY DEF Dir
    <2>2. CASE OpenFails(h) \/ SocksReturns(h) \/ (RelayReturns(h) /\ chain[h] = "owner")
        BY <2>1, <2>2 DEF OpenFails, SocksReturns, RelayReturns
    <2>3. CASE RelayReturns(h) /\ chain[h] # "owner"
        <3>1. fin' = [fin EXCEPT ![h - 1] = @ \cup {"down"}, ![h] = @]
            BY <2>3 DEF RelayReturns
        <3>2. \A s : s \cup {} = s
            OBVIOUS
        <3>3. fin' = [fin EXCEPT ![h - 1] = @ \cup {"down"}, ![h] = @ \cup {}]
            BY <3>1, <3>2
        <3> QED
            BY <2>1, <3>3
    <2> QED
        BY <2>2, <2>3 DEF Returns
<1>4. /\ fin' \in [Link -> SUBSET Dir]
      /\ \A l \in Link : /\ fin[l] \subseteq fin'[l]
                         /\ "up" \in fin'[l] => "up" \in fin[l] \/ l = h
                         /\ "down" \in fin'[l] => "down" \in fin[l] \/ l = h - 1
    <2>1. PICK a \in SUBSET Dir : /\ a \subseteq {"up"}
                                /\ fin' = [fin EXCEPT ![h - 1] = @ \cup {"down"}, ![h] = @ \cup a]
        BY <1>3
    <2>2. fin \in [Link -> SUBSET Dir] /\ {"down"} \in SUBSET Dir
        BY <1>1 DEF TypeOK, Dir
    <2> DEFINE f == [fin EXCEPT ![h - 1] = fin[h - 1] \cup {"down"}]
    <2>3. f \in [Link -> SUBSET Dir] /\ f[h - 1] = fin[h - 1] \cup {"down"}
          /\ \A k \in Link \ {h - 1} : f[k] = fin[k]
        BY <1>1, <2>2, Closed
    <2>4. fin' = [f EXCEPT ![h] = f[h] \cup a]
        BY <1>1, <2>1, <2>2
    <2> HIDE DEF f
    <2>5. fin' \in [Link -> SUBSET Dir] /\ fin'[h] = f[h] \cup a /\ \A k \in Link \ {h} : fin'[k] = f[k]
        BY <1>1, <2>3, <2>4, Closed
    <2> QED
        BY <1>1, <2>1, <2>3, <2>5
<1>5. \/ outcome' = outcome
      \/ \E o \in {"success", "failure"} :
            /\ outcome' = [outcome EXCEPT ![h] = o]
            /\ o = "success" => ~Socks(h) /\ \A d \in Dir : copier[h][d] = "eof"
    BY DEF OpenFails, Returns, SocksReturns, RelayReturns
<1>6. /\ outcome' \in [Hop -> {"none", "success", "failure"}]
      /\ \A g \in 1..H : outcome'[g] = "success" =>
            outcome[g] = "success" \/ (g = h /\ ~Socks(g) /\ \A d \in Dir : copier[g][d] = "eof")
    BY <1>1, <1>5, Parts, ZenonT(60) DEF TypeOK
<1>7. H' = H /\ N' = N
    BY <1>2 DEF H, N
<1>8. stage'[h] = "done" /\ \A g \in 1..H : g # h => stage'[g] = stage[g]
    BY <1>1, <1>2, Parts DEF TypeOK
<1>9. TypeOK'
    BY <1>1, <1>2, <1>4, <1>6, <1>7 DEF TypeOK
<1>10. DataInv' /\ SendInv'
    BY <1>2, <1>7, Parts DEF DataInv, Holds, SendInv, Started
<1>11. \A d \in Dir : Flow(d)'
    BY <1>1, <1>2, Parts, FlowsSame
<1>12. ~Socks(h) => \A d \in Dir : copier[h][d] # "copy"
    <2>1. CASE OpenFails(h)
        BY <2>1, Parts DEF OpenFails, StageInv
    <2>2. CASE RelayReturns(h)
        BY <2>2 DEF RelayReturns, Ended
    <2>3. CASE SocksReturns(h)
        BY <2>3 DEF SocksReturns
    <2> QED
        BY <2>1, <2>2, <2>3 DEF Returns
<1>13. ASSUME NEW g \in 1..H
       PROVE  StageInv(g)' /\ OpenInv(g)' /\ EofInv(g)'
    <2>1. StageInv(g) /\ OpenInv(g) /\ EofInv(g) /\ \A d \in Dir : In(g, d) \in Link
        BY <1>1, Links, Parts
    <2>2. StageInv(g)'
        BY <1>2, <1>8, <1>12, <2>1 DEF StageInv, Started, Socks
    <2>3. OpenInv(g)'
        BY <1>1, <1>2, <2>1, OpenSame DEF Started
    <2>4. \A d \in Dir : copier[g][d] = "eof" =>
              d \in fin'[In(g, d)] /\ wire[In(g, d)][d] = <<>> /\ buf[g][d] = <<>>
        BY <1>4, <2>1 DEF EofInv
    <2>5. outcome'[g] = "success" => ~Socks(g) /\ \A d \in Dir : copier[g][d] = "eof"
        BY <1>6, <2>1 DEF EofInv
    <2>6. EofInv(g)'
        BY <1>2, <2>4, <2>5 DEF EofInv, Socks, In
    <2> QED
        BY <2>2, <2>3, <2>6
<1>14. ASSUME NEW l \in 0..H
       PROVE  FinInv(l)'
    <2>1. (l # 0 => l \in 1..H) /\ (l # H => l + 1 \in 1..H) /\ (l = h - 1 => l + 1 = h /\ l # H) /\ h # 0
        BY <1>1
    <2>2. FinInv(l) /\ l \in Link
        BY Parts
    <2> QED
        BY <1>2, <1>4, <1>7, <1>8, <2>1, <2>2 DEF FinInv
<1> QED
    BY <1>7, <1>9, <1>10, <1>11, <1>13, <1>14, Whole

\* A copy ends.
LEMMA CopyEnds ==
    ASSUME IndInv, NEW h \in 1..H, NEW d \in Dir, EOF(h, d) \/ CopyFails(h, d)
    PROVE  IndInv'
<1>1. TypeOK /\ H \in 1..3 /\ h \in Hop
    BY Parts
<1>2. /\ chain' = chain /\ app' = app /\ backend' = backend /\ sent' = sent /\ got' = got
      /\ wire' = wire /\ lost' = lost /\ buf' = buf /\ bytes' = bytes /\ fin' = fin
      /\ stage' = stage /\ outcome' = outcome /\ copier[h][d] = "copy"
    BY DEF EOF, CopyFails, ends
<1>3. PICK c \in {"eof", "error"} :
         /\ copier' = [copier EXCEPT ![h][d] = c]
         /\ c = "eof" => d \in fin[In(h, d)] /\ wire[In(h, d)][d] = <<>> /\ buf[h][d] = <<>>
    BY DEF EOF, CopyFails
<1>4. /\ copier' \in [Hop -> [Dir -> {"idle", "copy", "eof", "error"}]] /\ copier'[h][d] = c
      /\ \A y \in Hop : \A e \in Dir : y # h \/ e # d => copier'[y][e] = copier[y][e]
    <2>1. copier \in [Hop -> [Dir -> {"idle", "copy", "eof", "error"}]]
        BY <1>1 DEF TypeOK
    <2>2. c \in {"idle", "copy", "eof", "error"}
        OBVIOUS
    <2> QED
        BY <1>1, <1>3, <2>1, <2>2, Put
<1>5. H' = H /\ N' = N
    BY <1>2 DEF H, N
<1>6. TypeOK'
    BY <1>1, <1>2, <1>4, <1>5 DEF TypeOK
<1>7. \A g \in 1..H : Started(g)' <=> Started(g)
    BY <1>2, <1>4, Parts DEF Started
<1>8. DataInv' /\ SendInv'
    <2>1. 1 \in 1..H
        BY <1>1
    <2> QED
        BY <1>2, <1>5, <1>7, <2>1, Parts DEF DataInv, Holds, SendInv
<1>9. \A e \in Dir : Flow(e)'
    BY <1>1, <1>2, Parts, FlowsSame
<1>10. ASSUME NEW g \in 1..H
       PROVE  StageInv(g)' /\ OpenInv(g)' /\ EofInv(g)'
    <2>1. StageInv(g) /\ OpenInv(g) /\ EofInv(g) /\ g \in Hop
        BY Parts
    <2>2. \A e \in Dir : copier'[g][e] = copier[g][e] \/ (g = h /\ e = d /\ copier'[g][e] = c)
        BY <1>4, <2>1
    <2>3. StageInv(g)'
        BY <1>2, <1>7, <2>1, <2>2 DEF StageInv, Socks
    <2>4. OpenInv(g)'
        BY <1>1, <1>2, <1>7, <2>1, OpenSame
    <2>5. EofInv(g)'
        BY <1>2, <1>3, <2>1, <2>2 DEF EofInv, Socks, In
    <2> QED
        BY <2>3, <2>4, <2>5
<1>11. \A l \in 0..H : FinInv(l)'
    BY <1>1, <1>2, FinSame, Parts
<1> QED
    BY <1>5, <1>6, <1>8, <1>9, <1>10, <1>11, Whole
-----------------------------------------------------------------------------
(* The data move.                                                          *)

\* No acknowledgement is left on the way of data.
LEMMA Flowing ==
    ASSUME IndInv, NEW d \in Dir, d = "up" \/ sent["up"] > 0
    PROVE  /\ \A l \in 0..H : wire[l][d] \in Seq(1..sent[d]) /\ Data(wire[l][d]) = wire[l][d]
           /\ d = "down" => \A h \in 1..H : Started(h)
<1>1. H \in 1..3 /\ DataInv /\ SendInv /\ OpenInv(1) /\ \A h \in 1..H : OpenInv(h)
    BY Parts
<1>2. d = "down" => Started(1) /\ wire[0]["down"] # <<Ack>>
    BY <1>1 DEF SendInv
<1>3. d = "down" => \A h \in 1..H : Started(h) /\ wire[h]["down"] # <<Ack>>
    BY <1>1, <1>2 DEF OpenInv
<1>4. ASSUME NEW l \in 0..H
      PROVE  wire[l][d] \in Seq(1..sent[d]) /\ Data(wire[l][d]) = wire[l][d]
    <2>1. l # 0 => l \in 1..H
        OBVIOUS
    <2>2. wire[l][d] \in Seq(1..sent[d])
        <3>1. Holds(l, d)
            BY <1>1 DEF DataInv
        <3>2. d = "down" => wire[l]["down"] # <<Ack>>
            BY <1>2, <1>3, <2>1
        <3> QED
            BY <3>1, <3>2 DEF Holds
    <2>3. sent[d] \in Nat
        BY Parts, Typed
    <2> QED
        BY <2>2, <2>3, DataOf
<1> QED
    BY <1>3, <1>4

\* The numbers, in tables without an acknowledgement; p[h] is what handler h has passed
\* on.
Order(d, w, p, g, n, x, b, c) ==
    /\ w[Exit(d)] = Len(g[d]) /\ n[d] = w[Entry(d)] + Len(x[Entry(d)][d])
    /\ From(g[d], 0) /\ \A l \in 0..H : From(x[l][d], w[l])
    /\ \A h \in 1..H : /\ p[h] = w[Out(h, d)] + Len(x[Out(h, d)][d]) /\ From(b[h][d], p[h])
                       /\ w[In(h, d)] = p[h] + Len(b[h][d]) /\ (~Socks(h) => c[h][d] = p[h])

LEMMA Lay ==
    ASSUME TypeOK, NEW d \in Dir, Flow(d), \A l \in 0..H : Data(wire[l][d]) = wire[l][d]
    PROVE  \E w \in [0..H -> 0..N], p \in [1..H -> Nat] : Order(d, w, p, got, sent, wire, buf, bytes)
<1>1. PICK w \in [0..H -> 0..N] : Laid(d, w)
    BY DEF Flow
<1>2. H \in 1..3 /\ N \in Nat /\ Entry(d) \in 0..H
    BY Shape DEF Entry
<1> DEFINE p == [h \in 1..H |-> Passed(h, d, w)]
<1>3. \A h \in 1..H : p[h] = Passed(h, d, w)
    OBVIOUS
<1>4. \A h \in 1..H : Passed(h, d, w) = w[Out(h, d)] + Len(wire[Out(h, d)][d])
    BY <1>2, Links DEF Passed
<1>5. p \in [1..H -> Nat]
    <2>1. ASSUME NEW h \in 1..H
          PROVE  Passed(h, d, w) \in Nat
        <3>1. Out(h, d) \in 0..H
            BY <1>2, Links
        <3>2. wire[Out(h, d)][d] \in Seq(0..N)
            BY <3>1, Typed
        <3>3. Len(wire[Out(h, d)][d]) \in Nat
            BY <3>2, Empty
        <3>4. w[Out(h, d)] \in Nat
            BY <1>2, <3>1
        <3> QED
            BY <1>4, <3>3, <3>4
    <2> QED
        BY <2>1
<1> HIDE DEF p
<1>6. Order(d, w, p, got, sent, wire, buf, bytes)
    <2>1. /\ w[Exit(d)] = Len(got[d]) /\ sent[d] = w[Entry(d)] + Len(wire[Entry(d)][d])
          /\ From(got[d], 0) /\ \A l \in 0..H : From(wire[l][d], w[l])
        BY <1>1, <1>2 DEF Laid
    <2>2. \A h \in 1..H : /\ From(buf[h][d], p[h]) /\ w[In(h, d)] = p[h] + Len(buf[h][d])
                          /\ ~Socks(h) => bytes[h][d] = p[h]
        BY <1>1, <1>3 DEF Laid
    <2> QED
        BY <1>3, <1>4, <2>1, <2>2 DEF Order
<1> QED
    BY <1>5, <1>6

\* And back, after a step.
LEMMA Lays ==
    ASSUME TypeOK, NEW d \in Dir, chain' = chain, NEW w \in [0..H -> 0..N], NEW p \in [1..H -> Nat],
           \A l \in 0..H : Data(wire'[l][d]) = wire'[l][d],
           Order(d, w, p, got', sent', wire', buf', bytes')
    PROVE  Flow(d)'
<1>1. H \in 1..3 /\ H' = H /\ N' = N
    <2>1. H' = H /\ N' = N
        BY DEF H, N
    <2> QED
        BY <2>1, Shape
<1>2. Exit(d)' = Exit(d) /\ Entry(d)' = Entry(d) /\ Entry(d) \in 0..H
    BY <1>1 DEF Exit, Entry
<1>3. \A h : Socks(h)' = Socks(h)
    BY DEF Socks
<1>4. ASSUME NEW h \in 1..H
      PROVE  Passed(h, d, w)' = p[h]
    <2>1. Passed(h, d, w)' = w[Out(h, d)] + Len(Data(wire'[Out(h, d)][d]))
        BY DEF Passed, Out, Data
    <2>2. Data(wire'[Out(h, d)][d]) = wire'[Out(h, d)][d]
        BY <1>1, Links
    <2> QED
        BY <2>1, <2>2 DEF Order
<1>5. Laid(d, w)'
    <2>1. /\ w[Exit(d)'] = Len(got'[d]) /\ sent'[d] = w[Entry(d)'] + Len(Data(wire'[Entry(d)'][d]))
          /\ From(got'[d], 0) /\ \A l \in 0..H : From(Data(wire'[l][d]), w[l])
        BY <1>2 DEF Order
    <2>2. \A h \in 1..H : /\ From(buf'[h][d], Passed(h, d, w)')
                          /\ w[In(h, d)] = Passed(h, d, w)' + Len(buf'[h][d])
                          /\ ~Socks(h)' => bytes'[h][d] = Passed(h, d, w)'
        BY <1>3, <1>4 DEF Order
    <2> QED
        BY <1>1, <2>1, <2>2 DEF Laid, Data, In, From
<1> QED
    BY <1>1, <1>5 DEF Flow

\* What the steps that move data do not touch.
still == <<chain, app, backend, fin, lost, stage, copier, outcome>>

\* The tables keep their shape.
Shaped ==
    /\ sent' \in [Dir -> 0..N] /\ got' \in [Dir -> Seq(1..N)] /\ wire' \in [Link -> [Dir -> Seq(0..N)]]
    /\ buf' \in [Hop -> [Dir -> Seq(1..N)]] /\ bytes' \in [Hop -> [Dir -> 0..N]]

\* Nothing moves in the other direction.
OnlyIn(d) ==
    \A e \in Dir \ {d} : /\ sent'[e] = sent[e] /\ got'[e] = got[e]
                         /\ \A l \in 0..H : wire'[l][e] = wire[l][e]
                         /\ \A h \in 1..H : buf'[h][e] = buf[h][e] /\ bytes'[h][e] = bytes[h][e]

\* What there is in a direction was sent in it.
SentData(d) ==
    /\ sent'[d] \in Nat /\ sent[d] <= sent'[d] /\ got'[d] \in Seq(1..sent'[d])
    /\ \A h \in 1..H : buf'[h][d] \in Seq(1..sent'[d])
    /\ \A l \in 0..H : wire'[l][d] \in Seq(1..sent'[d])

\* A copy that ended well gets nothing more.
EofKeeps(d) ==
    \A h \in 1..H : copier[h][d] = "eof" =>
                       wire'[In(h, d)][d] = wire[In(h, d)][d] /\ buf'[h][d] = buf[h][d]

LEMMA MoveStep ==
    ASSUME IndInv, NEW d \in Dir, UNCHANGED still, d = "up" \/ sent["up"] > 0, Shaped, OnlyIn(d),
           SentData(d), sent'[d] = sent[d] \/ d = "down" \/ app = "open", EofKeeps(d), Flow(d)'
    PROVE  IndInv'
<1>1. /\ TypeOK /\ H \in 1..3 /\ N \in Nat /\ "up" \in Dir /\ "down" \in Dir /\ 0 \in 0..H
      /\ DataInv /\ SendInv
    BY Parts
<1>2. /\ chain' = chain /\ app' = app /\ backend' = backend /\ fin' = fin /\ lost' = lost
      /\ stage' = stage /\ copier' = copier /\ outcome' = outcome
    BY DEF still
<1>3. H' = H /\ N' = N
    BY <1>2 DEF H, N
<1>4. TypeOK'
    BY <1>1, <1>2, <1>3 DEF TypeOK, Shaped
<1>5. \A g : Started(g)' <=> Started(g)
    BY <1>2 DEF Started
<1>6. \A l \in 0..H : (d = "down" => wire'[l]["down"] # <<Ack>>)
                     /\ (d = "up" => wire'[l]["down"] = wire[l]["down"])
    <2>1. \A l \in 0..H : wire'[l][d] # <<Ack>>
        BY DataOf DEF SentData
    <2> QED
        BY <1>1, <2>1 DEF OnlyIn
<1>7. \A e \in Dir : Flow(e)'
    <2>1. ASSUME NEW e \in Dir \ {d}
          PROVE  Flow(e)'
        <3>1. \A l \in 0..H : Data(wire'[l][e]) = Data(wire[l][e])
            BY DEF OnlyIn
        <3>2. /\ got'[e] = got[e] /\ sent'[e] = sent[e]
              /\ \A h \in 1..H : buf'[h][e] = buf[h][e] /\ bytes'[h][e] = bytes[h][e]
            BY DEF OnlyIn
        <3> QED
            BY <1>1, <1>2, <3>1, <3>2, FlowSame, Parts
    <2> QED
        BY <2>1
<1>8. DataInv'
    <2>1. ASSUME NEW e \in Dir
          PROVE  /\ got'[e] \in Seq(1..sent'[e]) /\ \A h \in 1..H : buf'[h][e] \in Seq(1..sent'[e])
                 /\ \A l \in 0..H : Holds(l, e)'
        <3>1. CASE e = d
            BY <3>1 DEF Holds, SentData
        <3>2. CASE e # d
            <4>1. /\ got'[e] = got[e] /\ sent'[e] = sent[e]
                  /\ \A l \in 0..H : wire'[l][e] = wire[l][e]
                  /\ \A h \in 1..H : buf'[h][e] = buf[h][e]
                BY <3>2 DEF OnlyIn
            <4>2. ASSUME NEW l \in 0..H
                  PROVE  Holds(l, e)'
                <5>1. Holds(l, e)
                    BY <1>1 DEF DataInv
                <5> QED
                    BY <4>1, <5>1 DEF Holds
            <4>3. got[e] \in Seq(1..sent[e]) /\ \A h \in 1..H : buf[h][e] \in Seq(1..sent[e])
                BY <1>1 DEF DataInv
            <4> QED
                BY <4>1, <4>2, <4>3
        <3> QED
            BY <3>1, <3>2
    <2> QED
        BY <1>3, <2>1 DEF DataInv
<1>9. SendInv'
    <2>1. /\ sent["up"] \in Nat /\ sent["down"] \in Nat /\ sent'["up"] \in Nat /\ sent'["down"] \in Nat
        <3>1. sent \in [Dir -> 0..N] /\ sent' \in [Dir -> 0..N]
            BY <1>1 DEF Shaped, TypeOK
        <3> QED
            BY <1>1, <3>1
    <2>2. CASE d = "up"
        <3>1. sent'["down"] = sent["down"] /\ sent["up"] <= sent'["up"] /\ wire'[0]["down"] = wire[0]["down"]
            BY <1>1, <1>6, <2>2 DEF OnlyIn, SentData
        <3>2. sent'["up"] = sent["up"] \/ app = "open"
            BY <2>2
        <3> QED
            BY <1>1, <1>2, <1>5, <2>1, <3>1, <3>2 DEF SendInv
    <2>3. CASE d = "down"
        <3>1. sent'["up"] = sent["up"] /\ sent["up"] > 0 /\ wire'[0]["down"] # <<Ack>>
            BY <1>1, <1>6, <2>3 DEF OnlyIn
        <3> QED
            BY <1>1, <1>2, <1>5, <2>1, <3>1 DEF SendInv
    <2> QED
        BY <2>2, <2>3 DEF Dir
<1>10. ASSUME NEW h \in 1..H
       PROVE  StageInv(h)' /\ OpenInv(h)' /\ EofInv(h)'
    <2>1. StageInv(h) /\ OpenInv(h) /\ EofInv(h) /\ h - 1 \in 0..H /\ h \in 0..H
        BY <1>1, Parts
    <2>2. StageInv(h)'
        BY <1>2, <2>1, StageSame
    <2>3. OpenInv(h)'
        <3>1. CASE d = "up"
            BY <1>1, <1>2, <1>5, <1>6, <2>1, <3>1, OpenSame
        <3>2. CASE d = "down"
            <4>1. \A g \in 1..H : Started(g)'
                BY <1>5, <3>2, Flowing
            <4>2. \A g \in h..H : g \in 1..H
                BY <1>1
            <4> QED
                BY <1>3, <1>6, <2>1, <3>2, <4>1, <4>2 DEF OpenInv
        <3> QED
            BY <3>1, <3>2 DEF Dir
    <2>4. ASSUME NEW e \in Dir, copier[h][e] = "eof"
          PROVE  wire'[In(h, e)][e] = wire[In(h, e)][e] /\ buf'[h][e] = buf[h][e]
        <3>1. In(h, e) \in 0..H
            BY <1>1, Links
        <3> QED
            BY <2>4, <3>1 DEF OnlyIn, EofKeeps
    <2>5. EofInv(h)'
        BY <1>2, <2>1, <2>4, EofSame
    <2> QED
        BY <2>2, <2>3, <2>5
<1>11. \A l \in 0..H : FinInv(l)'
    BY <1>1, <1>2, FinSame, Parts
<1> QED
    BY <1>3, <1>4, <1>7, <1>8, <1>9, <1>10, <1>11, Whole

\* Nothing comes from the backend before something was sent to it.
LEMMA Sending ==
    ASSUME IndInv, NEW d \in Dir, NEW s \in Seq(1..sent[d]), s # <<>>
    PROVE  d = "up" \/ sent["up"] > 0
<1>1. sent[d] \in Nat /\ SendInv
    BY Parts, Typed
<1>2. sent[d] # 0
    BY <1>1, Wider
<1> QED
    BY <1>1, <1>2 DEF SendInv, Dir

\* An end sends.
Sends(d) ==
    /\ UNCHANGED <<still, got, buf, bytes>> /\ sent[d] < N /\ sent' = [sent EXCEPT ![d] = @ + 1]
    /\ wire' = [wire EXCEPT ![Entry(d)][d] = Append(@, sent[d] + 1)]
    /\ d = "down" \/ app = "open"
    /\ d \notin fin[Entry(d)]

LEMMA SendStep ==
    ASSUME IndInv, NEW d \in Dir, Sends(d), d = "up" \/ sent["up"] > 0
    PROVE  IndInv'
<1>1. /\ TypeOK /\ H \in 1..3 /\ 1 \in 1..H /\ N \in Nat /\ sent[d] \in 0..N /\ DataInv
      /\ got[d] \in Seq(1..N)
    BY Parts, Typed
<1>2. UNCHANGED still /\ got' = got /\ buf' = buf /\ bytes' = bytes /\ chain' = chain
    BY DEF Sends, still
<1>3. Entry(d) \in 0..H /\ Entry(d) \in Link /\ \A h \in 1..H : Out(h, d) # Entry(d)
    BY <1>1, Links, Parts
<1>4. \A l \in 0..H : wire[l][d] \in Seq(1..sent[d]) /\ Data(wire[l][d]) = wire[l][d]
    BY Flowing
<1>5. sent'[d] = sent[d] + 1 /\ sent' \in [Dir -> 0..N] /\ \A e \in Dir \ {d} : sent'[e] = sent[e]
    <2>1. sent \in [Dir -> 0..N] /\ sent[d] + 1 \in 0..N
        BY <1>1 DEF TypeOK, Sends
    <2>2. sent' = [sent EXCEPT ![d] = sent[d] + 1]
        BY DEF Sends
    <2> QED
        BY <2>1, <2>2
<1> DEFINE s == wire[Entry(d)][d]
           v == Append(s, sent[d] + 1)
<1>6. s \in Seq(1..(sent[d] + 1)) /\ sent[d] + 1 \in 1..(sent[d] + 1) /\ s \in Seq(0..N)
      /\ sent[d] + 1 \in 0..N
    <2>1. s \in Seq(1..sent[d]) /\ s \in Seq(0..N) /\ sent[d] + 1 \in 0..N
        BY <1>1, <1>3, <1>4, Typed DEF Sends
    <2>2. sent[d] + 1 \in 1..(sent[d] + 1) /\ sent[d] + 1 \in Nat /\ sent[d] <= sent[d] + 1 /\ sent[d] \in Nat
        BY <1>1
    <2>3. s \in Seq(1..(sent[d] + 1))
        BY <2>1, <2>2, Wider
    <2> QED
        BY <2>1, <2>2, <2>3
<1>7. wire' = [wire EXCEPT ![Entry(d)][d] = v]
    BY DEF Sends
<1> HIDE DEF s
<1>8. v \in Seq(1..(sent[d] + 1)) /\ v \in Seq(0..N) /\ Len(v) = Len(s) + 1 /\ Len(s) \in Nat
    BY <1>6, Grown, Empty
<1>9. \A a \in Nat : From(s, a) /\ sent[d] = a + Len(s) => From(v, a)
    BY <1>6, FromGrown
<1> HIDE DEF v
<1>10. /\ wire' \in [Link -> [Dir -> Seq(0..N)]] /\ wire'[Entry(d)][d] = v
       /\ \A y \in Link : \A e \in Dir : y # Entry(d) \/ e # d => wire'[y][e] = wire[y][e]
    <2>1. wire \in [Link -> [Dir -> Seq(0..N)]]
        BY <1>1 DEF TypeOK
    <2> QED
        BY <1>3, <1>7, <1>8, <2>1, Put
<1>11. \A l \in 0..H : l # Entry(d) => wire'[l][d] = wire[l][d]
    BY <1>10, Parts
<1>12. Shaped
    BY <1>1, <1>2, <1>5, <1>10 DEF Shaped, TypeOK
<1>13. OnlyIn(d)
    BY <1>2, <1>5, <1>10, Parts DEF OnlyIn
<1>14. SentData(d)
    <2>1. sent'[d] \in Nat /\ sent[d] \in Nat /\ sent[d] <= sent'[d]
        BY <1>1, <1>5
    <2>2. ASSUME NEW l \in 0..H
          PROVE  wire'[l][d] \in Seq(1..sent'[d])
        <3>1. CASE l = Entry(d)
            BY <1>5, <1>8, <1>10, <3>1
        <3>2. CASE l # Entry(d)
            BY <1>4, <1>11, <2>1, <3>2, Wider
        <3> QED
            BY <3>1, <3>2
    <2>3. got[d] \in Seq(1..sent[d]) /\ \A h \in 1..H : buf[h][d] \in Seq(1..sent[d])
        BY <1>1 DEF DataInv
    <2>4. got[d] \in Seq(1..sent'[d]) /\ \A h \in 1..H : buf[h][d] \in Seq(1..sent'[d])
        BY <2>1, <2>3, Wider
    <2> QED
        BY <1>2, <2>1, <2>2, <2>4 DEF SentData
<1>15. EofKeeps(d)
    <2>1. ASSUME NEW h \in 1..H, copier[h][d] = "eof"
          PROVE  wire'[In(h, d)][d] = wire[In(h, d)][d]
        <3>1. In(h, d) # Entry(d)
            BY <2>1, Parts DEF EofInv, Sends
        <3>2. In(h, d) \in 0..H
            BY <1>1, Links
        <3> QED
            BY <1>11, <3>1, <3>2
    <2> QED
        BY <1>2, <2>1 DEF EofKeeps
<1>16. Flow(d)'
    <2>1. PICK w \in [0..H -> 0..N], p \in [1..H -> Nat] : Order(d, w, p, got, sent, wire, buf, bytes)
        BY <1>1, <1>4, Lay, Parts
    <2>2. \A l \in 0..H : Data(wire'[l][d]) = wire'[l][d]
        BY <1>14, DataOf DEF SentData
    <2>3. sent[d] = w[Entry(d)] + Len(s) /\ w[Entry(d)] \in Nat /\ From(s, w[Entry(d)])
        BY <1>1, <1>3, <2>1 DEF Order, s
    <2>4. sent'[d] = w[Entry(d)] + Len(wire'[Entry(d)][d])
        BY <1>5, <1>8, <1>10, <2>3
    <2>5. From(wire'[Entry(d)][d], w[Entry(d)])
        BY <1>9, <1>10, <2>3
    <2>6. \A l \in 0..H : From(wire'[l][d], w[l])
        BY <1>11, <2>1, <2>5 DEF Order
    <2>7. \A h \in 1..H : wire'[Out(h, d)][d] = wire[Out(h, d)][d]
        BY <1>1, <1>3, <1>11, Links
    <2>8. Order(d, w, p, got', sent', wire', buf', bytes')
        BY <1>2, <2>1, <2>4, <2>6, <2>7 DEF Order
    <2> QED
        BY <1>1, <1>2, <2>2, <2>8, Lays
<1>17. sent'[d] = sent[d] \/ d = "down" \/ app = "open"
    BY DEF Sends
<1> QED
    BY <1>2, <1>12, <1>13, <1>14, <1>15, <1>16, <1>17, MoveStep

\* An end reads what has arrived.
LEMMA ReceiveStep ==
    ASSUME IndInv, NEW d \in Dir, Receive(d)
    PROVE  IndInv'
<1>1. /\ TypeOK /\ H \in 1..3 /\ 1 \in 1..H /\ N \in Nat /\ sent[d] \in 0..N /\ DataInv
      /\ got[d] \in Seq(1..N) /\ SendInv
    BY Parts, Typed
<1>2. /\ UNCHANGED still /\ sent' = sent /\ buf' = buf /\ bytes' = bytes /\ chain' = chain
      /\ wire[Exit(d)][d] # <<>> /\ (d = "down" => app \in {"open", "shut"})
    BY DEF Receive, still, copies, Exit
<1>3. Exit(d) \in 0..H /\ Exit(d) \in Link /\ Entry(d) \in 0..H /\ Entry(d) # Exit(d)
      /\ \A h \in 1..H : In(h, d) # Exit(d)
    BY <1>1, Links, Parts DEF Entry, Exit
<1>4. d = "up" \/ sent["up"] > 0
    <2>1. Holds(Exit(d), d) /\ (d = "down" => wire[Exit(d)][d] # <<Ack>>)
        BY <1>1, <1>2, <1>3 DEF DataInv, SendInv, Exit
    <2>2. wire[Exit(d)][d] \in Seq(1..sent[d])
        BY <2>1 DEF Holds
    <2> QED
        BY <1>2, <2>2, Sending
<1>5. \A l \in 0..H : wire[l][d] \in Seq(1..sent[d]) /\ Data(wire[l][d]) = wire[l][d]
    BY <1>4, Flowing
<1> DEFINE s == wire[Exit(d)][d]
           g == got[d] \o s
<1>6. s \in Seq(1..sent[d]) /\ s \in Seq(1..N) /\ got[d] \in Seq(1..sent[d])
    <2>1. s \in Seq(1..sent[d]) /\ got[d] \in Seq(1..sent[d]) /\ sent[d] \in Nat /\ sent[d] <= N
        BY <1>1, <1>3, <1>5 DEF DataInv
    <2> QED
        BY <1>1, <2>1, Wider
<1>7. got' = [got EXCEPT ![d] = g] /\ wire' = [wire EXCEPT ![Exit(d)][d] = <<>>]
    BY DEF Receive, Exit
<1> HIDE DEF s
<1>8. /\ g \in Seq(1..sent[d]) /\ g \in Seq(1..N) /\ Len(g) = Len(got[d]) + Len(s)
      /\ Len(got[d]) \in Nat /\ Len(s) \in Nat
    BY <1>1, <1>6, Joined, Empty
<1>9. From(got[d], 0) /\ From(s, Len(got[d])) => From(g, 0)
    <2>1. 0 + Len(got[d]) = Len(got[d])
        BY <1>8
    <2> QED
        BY <1>6, <2>1, FromJoined
<1> HIDE DEF g
<1>10. got' \in [Dir -> Seq(1..N)] /\ got'[d] = g /\ \A e \in Dir \ {d} : got'[e] = got[e]
    <2>1. got \in [Dir -> Seq(1..N)]
        BY <1>1 DEF TypeOK
    <2> QED
        BY <1>7, <1>8, <2>1
<1>11. /\ wire' \in [Link -> [Dir -> Seq(0..N)]] /\ wire'[Exit(d)][d] = <<>>
       /\ \A y \in Link : \A e \in Dir : y # Exit(d) \/ e # d => wire'[y][e] = wire[y][e]
    <2>1. wire \in [Link -> [Dir -> Seq(0..N)]] /\ <<>> \in Seq(0..N)
        BY <1>1, Nil DEF TypeOK
    <2> QED
        BY <1>3, <1>7, <2>1, Put
<1>12. \A l \in 0..H : l # Exit(d) => wire'[l][d] = wire[l][d]
    BY <1>11, Parts
<1>13. Shaped
    BY <1>1, <1>2, <1>10, <1>11 DEF Shaped, TypeOK
<1>14. OnlyIn(d)
    BY <1>2, <1>10, <1>11, Parts DEF OnlyIn
<1>15. SentData(d)
    <2>1. <<>> \in Seq(1..sent[d]) /\ sent[d] \in Nat /\ sent[d] <= sent[d]
        BY <1>1, Nil
    <2>2. \A l \in 0..H : wire'[l][d] \in Seq(1..sent[d])
        BY <1>5, <1>11, <1>12, <2>1
    <2>3. \A h \in 1..H : buf[h][d] \in Seq(1..sent[d])
        BY <1>1 DEF DataInv
    <2> QED
        BY <1>2, <1>8, <1>10, <2>1, <2>2, <2>3 DEF SentData
<1>16. EofKeeps(d)
    <2>1. \A h \in 1..H : In(h, d) \in 0..H
        BY <1>1, Links
    <2> QED
        BY <1>2, <1>3, <1>12, <2>1 DEF EofKeeps
<1>17. Flow(d)'
    <2>1. PICK w \in [0..H -> 0..N], p \in [1..H -> Nat] : Order(d, w, p, got, sent, wire, buf, bytes)
        BY <1>1, <1>5, Lay, Parts
    <2>2. \A l \in 0..H : Data(wire'[l][d]) = wire'[l][d]
        BY <1>15, DataOf DEF SentData
    <2>3. w[Exit(d)] = Len(got[d]) /\ From(s, w[Exit(d)]) /\ From(got[d], 0)
        BY <1>3, <2>1 DEF Order, s
    <2>4. w[Exit(d)] + Len(s) \in 0..N
        BY <1>1, <1>3, <1>6, <2>3, FromBound
    <2> DEFINE u == [w EXCEPT ![Exit(d)] = w[Exit(d)] + Len(s)]
    <2>5. /\ u \in [0..H -> 0..N] /\ u[Exit(d)] = w[Exit(d)] + Len(s)
          /\ \A l \in 0..H : l # Exit(d) => u[l] = w[l]
        BY <1>3, <2>4
    <2> HIDE DEF u
    <2>6. u[Exit(d)] = Len(got'[d]) /\ From(got'[d], 0)
        BY <1>8, <1>9, <1>10, <2>3, <2>5
    <2>7. sent'[d] = u[Entry(d)] + Len(wire'[Entry(d)][d])
        BY <1>2, <1>3, <1>12, <2>1, <2>5 DEF Order
    <2>8. \A l \in 0..H : From(wire'[l][d], u[l])
        BY <1>11, <1>12, <2>1, <2>5, FromNil DEF Order
    <2>9. ASSUME NEW h \in 1..H
          PROVE  /\ p[h] = u[Out(h, d)] + Len(wire'[Out(h, d)][d]) /\ u[In(h, d)] = w[In(h, d)]
        <3>1. In(h, d) \in 0..H /\ Out(h, d) \in 0..H
            BY <1>1, Links
        <3>2. p[h] = w[Out(h, d)] + Len(wire[Out(h, d)][d])
            BY <2>1 DEF Order
        <3>3. CASE Out(h, d) = Exit(d)
            <4>1. p[h] = u[Exit(d)] /\ p[h] \in Nat
                BY <2>5, <3>2, <3>3 DEF s
            <4>2. Len(wire'[Out(h, d)][d]) = 0
                BY <1>11, <3>3, Nil
            <4> QED
                BY <1>3, <2>5, <3>1, <3>3, <4>1, <4>2
        <3>4. CASE Out(h, d) # Exit(d)
            BY <1>3, <1>12, <2>5, <3>1, <3>2, <3>4
        <3> QED
            BY <3>3, <3>4
    <2>10. Order(d, u, p, got', sent', wire', buf', bytes')
        BY <1>2, <2>1, <2>6, <2>7, <2>8, <2>9 DEF Order
    <2> QED
        BY <1>1, <1>2, <2>2, <2>5, <2>10, Lays
<1> QED
    BY <1>2, <1>4, <1>13, <1>14, <1>15, <1>16, <1>17, MoveStep

\* A copy reads.
LEMMA ReadStep ==
    ASSUME IndInv, NEW h \in 1..H, NEW d \in Dir, NEW k \in 1..N, Read(h, d, k)
    PROVE  IndInv'
<1> DEFINE l == In(h, d)
           s == wire[l][d]
           a == SubSeq(s, 1, k)
           r == SubSeq(s, k + 1, Len(s))
<1>1. /\ TypeOK /\ H \in 1..3 /\ N \in Nat /\ sent[d] \in 0..N /\ DataInv /\ h \in Hop
      /\ StageInv(h) /\ OpenInv(h)
    BY Parts, Typed
<1>2. /\ UNCHANGED still /\ sent' = sent /\ got' = got /\ bytes' = bytes /\ chain' = chain
      /\ copier[h][d] = "copy" /\ buf[h][d] = <<>>
    BY DEF Read, still, ends
<1>k. k \in 1..Len(s)
    BY DEF Read
<1>b. buf' = [buf EXCEPT ![h][d] = a]
    BY DEF Read
<1>w. wire' = [wire EXCEPT ![l][d] = r]
    BY DEF Read
<1>3. /\ l \in 0..H /\ l \in Link /\ l # Exit(d) /\ Entry(d) \in 0..H
      /\ \A g \in 1..H : g # h => In(g, d) # l
    BY <1>1, Links, Parts
<1>4. d = "up" \/ sent["up"] > 0
    <2>1. Holds(l, d) /\ s # <<>>
        <3>1. s # <<>>
            BY <1>k, Nil
        <3> QED
            BY <1>1, <1>3, <3>1 DEF DataInv
    <2>2. d = "down" => wire[l][d] # <<Ack>>
        BY <1>1, <1>2 DEF StageInv, OpenInv, In
    <2>3. s \in Seq(1..sent[d])
        BY <2>1, <2>2 DEF Holds
    <2> QED
        BY <2>1, <2>3, Sending
<1>5. \A y \in 0..H : wire[y][d] \in Seq(1..sent[d]) /\ Data(wire[y][d]) = wire[y][d]
    BY <1>4, Flowing
<1>6. s \in Seq(1..sent[d]) /\ s \in Seq(1..N) /\ s \in Seq(0..N)
    <2>1. s \in Seq(1..sent[d]) /\ sent[d] \in Nat /\ sent[d] <= N
        BY <1>1, <1>3, <1>5
    <2>2. s \in Seq(1..N)
        BY <1>1, <2>1, Wider
    <2>3. s \in Seq(0..N)
        BY <1>1, <1>3, Typed
    <2> QED
        BY <2>1, <2>2, <2>3
<1> HIDE DEF s, l
<1>7. /\ a \in Seq(1..sent[d]) /\ a \in Seq(1..N) /\ r \in Seq(1..sent[d]) /\ r \in Seq(0..N)
      /\ Len(a) = k /\ Len(r) = Len(s) - k /\ Len(s) \in Nat
    <2>s. s \in Seq(1..sent[d])
        BY <1>6
    <2>1. a \in Seq(1..sent[d]) /\ r \in Seq(1..sent[d]) /\ Len(a) = k /\ Len(r) = Len(s) - k
        BY <1>k, <2>s, Split, ZenonT(60)
    <2>n. Len(s) \in Nat
        BY <2>s, Empty
    <2>2. a \in Seq(1..N)
        BY <1>k, <1>6, Split
    <2>3. r \in Seq(0..N)
        BY <1>k, <1>6, Split
    <2> QED
        BY <2>1, <2>2, <2>3, <2>n
<1>8. \A n \in Nat : From(s, n) => From(a, n) /\ From(r, n + k)
    BY <1>k, <1>6, FromSplit
<1> HIDE DEF a, r
<1>9. /\ wire' \in [Link -> [Dir -> Seq(0..N)]] /\ wire'[l][d] = r
      /\ \A y \in Link : \A e \in Dir : y # l \/ e # d => wire'[y][e] = wire[y][e]
    <2>1. wire \in [Link -> [Dir -> Seq(0..N)]]
        BY <1>1 DEF TypeOK
    <2> QED
        BY <1>3, <1>7, <1>w, <2>1, Put
<1>10. /\ buf' \in [Hop -> [Dir -> Seq(1..N)]] /\ buf'[h][d] = a
       /\ \A y \in Hop : \A e \in Dir : y # h \/ e # d => buf'[y][e] = buf[y][e]
    <2>1. buf \in [Hop -> [Dir -> Seq(1..N)]]
        BY <1>1 DEF TypeOK
    <2> QED
        BY <1>1, <1>7, <1>b, <2>1, Put
<1>11. /\ \A y \in 0..H : y # l => wire'[y][d] = wire[y][d]
       /\ \A g \in 1..H : g # h => buf'[g][d] = buf[g][d]
    BY <1>9, <1>10, Parts
<1>12. Shaped
    BY <1>1, <1>2, <1>9, <1>10 DEF Shaped, TypeOK
<1>13. OnlyIn(d)
    BY <1>2, <1>9, <1>10, Parts DEF OnlyIn
<1>14. SentData(d)
    <2>1. \A y \in 0..H : wire'[y][d] \in Seq(1..sent[d])
        BY <1>5, <1>7, <1>9, <1>11
    <2>2. \A g \in 1..H : buf[g][d] \in Seq(1..sent[d])
        BY <1>1 DEF DataInv
    <2>3. \A g \in 1..H : buf'[g][d] \in Seq(1..sent[d])
        BY <1>7, <1>10, <1>11, <2>2
    <2>4. got[d] \in Seq(1..sent[d]) /\ sent[d] \in Nat /\ sent[d] <= sent[d]
        BY <1>1 DEF DataInv
    <2> QED
        BY <1>2, <2>1, <2>3, <2>4 DEF SentData
<1>15. EofKeeps(d)
    <2>1. \A g \in 1..H : In(g, d) \in 0..H
        BY <1>1, Links
    <2>2. \A g \in 1..H : copier[g][d] = "eof" => g # h
        BY <1>2
    <2> QED
        BY <1>3, <1>11, <2>1, <2>2 DEF EofKeeps
<1>16. Flow(d)'
    <2>1. PICK w \in [0..H -> 0..N], p \in [1..H -> Nat] : Order(d, w, p, got, sent, wire, buf, bytes)
        BY <1>1, <1>5, Lay, Parts
    <2>2. \A y \in 0..H : Data(wire'[y][d]) = wire'[y][d]
        BY <1>14, DataOf DEF SentData
    <2>3. From(s, w[l]) /\ w[l] = p[h] /\ w[l] \in 0..N /\ w[l] \in Nat
        <3>1. From(s, w[l]) /\ w[l] = p[h] + Len(buf[h][d])
            BY <1>3, <2>1 DEF Order, s, l
        <3>2. Len(buf[h][d]) = 0 /\ p[h] \in Nat
            BY <1>2, Nil
        <3> QED
            BY <1>1, <1>3, <3>1, <3>2
    <2>4. w[l] + k \in 0..N
        <3>1. w[l] + Len(s) \in 0..N
            BY <1>1, <1>6, <2>3, FromBound
        <3> QED
            <4>1. w[l] \in Nat /\ Len(s) \in Nat /\ N \in Nat
                BY <1>1, <1>7, <2>3
            <4> QED
                BY <1>k, <3>1, <4>1
    <2> DEFINE u == [w EXCEPT ![l] = w[l] + k]
    <2>5. u \in [0..H -> 0..N] /\ u[l] = w[l] + k /\ \A y \in 0..H : y # l => u[y] = w[y]
        BY <1>3, <2>4
    <2> HIDE DEF u
    <2>6. From(wire'[l][d], u[l]) /\ From(buf'[h][d], p[h]) /\ u[l] = p[h] + Len(buf'[h][d])
        BY <1>7, <1>8, <1>9, <1>10, <2>3, <2>5
    <2>7. \A y \in 0..H : From(wire'[y][d], u[y])
        BY <1>11, <2>1, <2>5, <2>6 DEF Order
    <2>8. \A y \in 0..H : u[y] + Len(wire'[y][d]) = w[y] + Len(wire[y][d])
        <3>1. u[l] + Len(wire'[l][d]) = w[l] + Len(s)
            <4>1. Len(wire'[l][d]) = Len(s) - k /\ Len(s) \in Nat /\ w[l] \in Nat /\ u[l] = w[l] + k
                BY <1>7, <1>9, <2>3, <2>5
            <4> QED
                BY <1>k, <4>1
        <3> QED
            BY <1>11, <2>5, <3>1 DEF s
    <2>9. u[Exit(d)] = Len(got'[d]) /\ sent'[d] = u[Entry(d)] + Len(wire'[Entry(d)][d]) /\ From(got'[d], 0)
        <3>1. Exit(d) \in 0..H
            BY <1>1 DEF Exit
        <3> QED
            BY <1>2, <1>3, <2>1, <2>5, <2>8, <3>1 DEF Order
    <2>10. ASSUME NEW g \in 1..H
           PROVE  /\ p[g] = u[Out(g, d)] + Len(wire'[Out(g, d)][d]) /\ From(buf'[g][d], p[g])
                  /\ u[In(g, d)] = p[g] + Len(buf'[g][d]) /\ (~Socks(g) => bytes'[g][d] = p[g])
        <3>1. In(g, d) \in 0..H /\ Out(g, d) \in 0..H
            BY <1>1, Links
        <3>2. /\ p[g] = w[Out(g, d)] + Len(wire[Out(g, d)][d]) /\ From(buf[g][d], p[g])
              /\ w[In(g, d)] = p[g] + Len(buf[g][d]) /\ (~Socks(g) => bytes[g][d] = p[g])
            BY <2>1 DEF Order
        <3>3. p[g] = u[Out(g, d)] + Len(wire'[Out(g, d)][d]) /\ (~Socks(g) => bytes'[g][d] = p[g])
            BY <1>2, <2>8, <3>1, <3>2
        <3>4. CASE g = h
            BY <2>6, <3>3, <3>4 DEF l
        <3>5. CASE g # h
            BY <1>3, <1>11, <2>5, <3>1, <3>2, <3>3, <3>5
        <3> QED
            BY <3>4, <3>5
    <2>11. Order(d, u, p, got', sent', wire', buf', bytes')
        BY <2>7, <2>9, <2>10 DEF Order
    <2> QED
        BY <1>1, <1>2, <2>2, <2>5, <2>11, Lays
<1> QED
    BY <1>2, <1>4, <1>12, <1>13, <1>14, <1>15, <1>16, MoveStep

\* A copy writes.
LEMMA WriteStep ==
    ASSUME IndInv, NEW h \in 1..H, NEW d \in Dir, Write(h, d)
    PROVE  IndInv'
<1> DEFINE l == Out(h, d)
           s == wire[l][d]
           a == buf[h][d]
           v == s \o a
           b == IF Socks(h) THEN 0 ELSE bytes[h][d] + Len(a)
<1>1. /\ TypeOK /\ H \in 1..3 /\ N \in Nat /\ sent[d] \in 0..N /\ DataInv /\ h \in Hop
      /\ StageInv(h) /\ bytes[h][d] \in 0..N
    BY Parts, Typed
<1>2. /\ UNCHANGED still /\ sent' = sent /\ got' = got /\ chain' = chain
      /\ copier[h][d] = "copy" /\ a # <<>> /\ ~Shut(h)
    BY DEF Write, still, ends, DestTakes
<1>b. buf' = [buf EXCEPT ![h][d] = <<>>]
    BY DEF Write
<1>c. bytes' = [bytes EXCEPT ![h][d] = b]
    BY DEF Write
<1>w. wire' = [wire EXCEPT ![l][d] = v]
    BY DEF Write
<1>3. /\ l \in 0..H /\ l \in Link /\ l # Entry(d) /\ In(h, d) \in 0..H /\ In(h, d) # l
      /\ \A g \in 1..H : g # h => Out(g, d) # l
    BY <1>1, Links, Parts
<1>4. d = "up" \/ sent["up"] > 0
    <2>1. a \in Seq(1..sent[d])
        BY <1>1 DEF DataInv
    <2> QED
        BY <1>2, <2>1, Sending
<1>5. \A y \in 0..H : wire[y][d] \in Seq(1..sent[d]) /\ Data(wire[y][d]) = wire[y][d]
    BY <1>4, Flowing
<1>6. s \in Seq(1..sent[d]) /\ a \in Seq(1..sent[d]) /\ s \in Seq(0..N) /\ a \in Seq(0..N)
    <2>1. s \in Seq(1..sent[d]) /\ a \in Seq(1..sent[d])
        BY <1>1, <1>3, <1>5 DEF DataInv
    <2>2. s \in Seq(0..N) /\ a \in Seq(1..N)
        BY <1>1, <1>3, Typed
    <2>3. a \in Seq(0..N)
        BY <1>1, <2>2
    <2> QED
        BY <2>1, <2>2, <2>3
<1> HIDE DEF s, l, a
<1>7. v \in Seq(1..sent[d]) /\ v \in Seq(0..N) /\ Len(v) = Len(s) + Len(a) /\ Len(s) \in Nat /\ Len(a) \in Nat
    <2>1. v \in Seq(1..sent[d]) /\ Len(v) = Len(s) + Len(a) /\ Len(s) \in Nat /\ Len(a) \in Nat
        BY <1>6, Joined, Empty
    <2>2. v \in Seq(0..N)
        BY <1>6, Joined
    <2> QED
        BY <2>1, <2>2
<1>8. \A n \in Nat : From(s, n) /\ From(a, n + Len(s)) => From(v, n)
    BY <1>6, FromJoined
<1> HIDE DEF v
<1>9. PICK w \in [0..H -> 0..N], p \in [1..H -> Nat] : Order(d, w, p, got, sent, wire, buf, bytes)
    BY <1>1, <1>5, Lay, Parts
<1>10. /\ p[h] = w[l] + Len(s) /\ From(a, p[h]) /\ w[In(h, d)] = p[h] + Len(a)
       /\ (~Socks(h) => bytes[h][d] = p[h]) /\ From(s, w[l]) /\ w[l] \in Nat /\ p[h] \in Nat
       /\ w[In(h, d)] \in 0..N
    <2>1. /\ p[h] = w[l] + Len(s) /\ From(a, p[h]) /\ w[In(h, d)] = p[h] + Len(a)
          /\ (~Socks(h) => bytes[h][d] = p[h])
        BY <1>9 DEF Order, l, s, a
    <2>2. From(s, w[l])
        BY <1>3, <1>9 DEF Order, s
    <2>3. w[l] \in Nat /\ p[h] \in Nat /\ w[In(h, d)] \in 0..N
        BY <1>1, <1>3
    <2> QED
        BY <2>1, <2>2, <2>3
<1>11. b \in 0..N /\ (~Socks(h) => b = w[In(h, d)])
    <2>1. N \in Nat /\ Len(a) \in Nat
        BY <1>1, <1>7
    <2> QED
        BY <1>10, <2>1
<1> HIDE DEF b
<1>12. /\ wire' \in [Link -> [Dir -> Seq(0..N)]] /\ wire'[l][d] = v
       /\ \A y \in Link : \A e \in Dir : y # l \/ e # d => wire'[y][e] = wire[y][e]
    <2>1. wire \in [Link -> [Dir -> Seq(0..N)]]
        BY <1>1 DEF TypeOK
    <2> QED
        BY <1>3, <1>7, <1>w, <2>1, Put
<1>13. /\ buf' \in [Hop -> [Dir -> Seq(1..N)]] /\ buf'[h][d] = <<>>
       /\ \A y \in Hop : \A e \in Dir : y # h \/ e # d => buf'[y][e] = buf[y][e]
    <2>1. buf \in [Hop -> [Dir -> Seq(1..N)]] /\ <<>> \in Seq(1..N)
        BY <1>1, Nil DEF TypeOK
    <2> QED
        BY <1>1, <1>b, <2>1, Put
<1>14. /\ bytes' \in [Hop -> [Dir -> 0..N]] /\ bytes'[h][d] = b
       /\ \A y \in Hop : \A e \in Dir : y # h \/ e # d => bytes'[y][e] = bytes[y][e]
    <2>1. bytes \in [Hop -> [Dir -> 0..N]]
        BY <1>1 DEF TypeOK
    <2> QED
        BY <1>1, <1>11, <1>c, <2>1, Put
<1>15. /\ \A y \in 0..H : y # l => wire'[y][d] = wire[y][d]
       /\ \A g \in 1..H : g # h => buf'[g][d] = buf[g][d] /\ bytes'[g][d] = bytes[g][d]
    BY <1>12, <1>13, <1>14, Parts
<1>16. Shaped
    BY <1>1, <1>2, <1>12, <1>13, <1>14 DEF Shaped, TypeOK
<1>17. OnlyIn(d)
    BY <1>2, <1>12, <1>13, <1>14, Parts, ZenonT(60) DEF OnlyIn
<1>18. SentData(d)
    <2>1. \A y \in 0..H : wire'[y][d] \in Seq(1..sent[d])
        BY <1>5, <1>7, <1>12, <1>15
    <2>2. \A g \in 1..H : buf[g][d] \in Seq(1..sent[d])
        BY <1>1 DEF DataInv
    <2>3. \A g \in 1..H : buf'[g][d] \in Seq(1..sent[d])
        BY <1>13, <1>15, <2>2, Nil
    <2>4. got[d] \in Seq(1..sent[d]) /\ sent[d] \in Nat /\ sent[d] <= sent[d]
        BY <1>1 DEF DataInv
    <2> QED
        BY <1>2, <2>1, <2>3, <2>4 DEF SentData
<1>19. d \notin fin[l]
    <2>1. d \in fin[l] => stage[h] = "done"
        <3>1. FinInv(l)
            BY <1>3, Parts
        <3>2. (d = "up" => l = h /\ l # 0) /\ (d = "down" => l + 1 = h /\ l # H)
            BY <1>1 DEF l, Out
        <3> QED
            BY <3>1, <3>2 DEF FinInv, Dir
    <2> QED
        BY <1>1, <1>2, <2>1 DEF StageInv, Shut
<1>20. EofKeeps(d)
    <2>1. ASSUME NEW g \in 1..H, copier[g][d] = "eof"
          PROVE  wire'[In(g, d)][d] = wire[In(g, d)][d] /\ buf'[g][d] = buf[g][d]
        <3>1. In(g, d) # l
            BY <1>19, <2>1, Parts DEF EofInv
        <3>2. In(g, d) \in 0..H /\ g # h
            BY <1>1, <1>2, <2>1, Links
        <3> QED
            BY <1>15, <3>1, <3>2
    <2> QED
        BY <2>1 DEF EofKeeps
<1>21. Flow(d)'
    <2>1. \A y \in 0..H : Data(wire'[y][d]) = wire'[y][d]
        BY <1>18, DataOf DEF SentData
    <2> DEFINE q == [p EXCEPT ![h] = w[In(h, d)]]
    <2>2. q \in [1..H -> Nat] /\ q[h] = w[In(h, d)] /\ \A g \in 1..H : g # h => q[g] = p[g]
        BY <1>10
    <2> HIDE DEF q
    <2>3. \A y \in 0..H : From(wire'[y][d], w[y])
        <3>1. From(v, w[l])
            BY <1>8, <1>10
        <3> QED
            BY <1>9, <1>12, <1>15, <3>1 DEF Order
    <2>4. w[Exit(d)] = Len(got'[d]) /\ sent'[d] = w[Entry(d)] + Len(wire'[Entry(d)][d]) /\ From(got'[d], 0)
        <3>1. Entry(d) \in 0..H
            BY <1>1, Links
        <3> QED
            BY <1>2, <1>3, <1>9, <1>15, <3>1 DEF Order
    <2>5. ASSUME NEW g \in 1..H
          PROVE  /\ q[g] = w[Out(g, d)] + Len(wire'[Out(g, d)][d]) /\ From(buf'[g][d], q[g])
                 /\ w[In(g, d)] = q[g] + Len(buf'[g][d]) /\ (~Socks(g) => bytes'[g][d] = q[g])
        <3>1. CASE g = h
            <4>1. From(buf'[h][d], q[h]) /\ Len(buf'[h][d]) = 0
                BY <1>13, FromNil, Nil
            <4>2. w[In(h, d)] = q[h] + 0 /\ (~Socks(h) => bytes'[h][d] = q[h])
                BY <1>10, <1>11, <1>14, <2>2
            <4>3. q[h] = w[l] + Len(wire'[l][d])
                <5>1. Len(wire'[l][d]) = Len(s) + Len(a) /\ Len(s) \in Nat /\ Len(a) \in Nat
                    BY <1>7, <1>12
                <5> QED
                    BY <1>10, <2>2, <5>1
            <4> QED
                BY <3>1, <4>1, <4>2, <4>3 DEF l
        <3>2. CASE g # h
            <4>1. /\ p[g] = w[Out(g, d)] + Len(wire[Out(g, d)][d]) /\ From(buf[g][d], p[g])
                  /\ w[In(g, d)] = p[g] + Len(buf[g][d]) /\ (~Socks(g) => bytes[g][d] = p[g])
                BY <1>9 DEF Order
            <4>2. Out(g, d) \in 0..H
                BY <1>1, Links
            <4> QED
                BY <1>3, <1>15, <2>2, <3>2, <4>1, <4>2
        <3> QED
            BY <3>1, <3>2
    <2>6. Order(d, w, q, got', sent', wire', buf', bytes')
        BY <2>3, <2>4, <2>5 DEF Order
    <2> QED
        BY <1>1, <1>2, <2>1, <2>2, <2>6, Lays
<1> QED
    BY <1>2, <1>4, <1>16, <1>17, <1>18, <1>20, <1>21, MoveStep
-----------------------------------------------------------------------------
(* The inductive invariant.                                                *)

LEMMA InitInv ==
    ASSUME Init
    PROVE  IndInv
<1>1. H \in 1..3 /\ N \in Nat
    <2>1. chain \in {<<"edge">>, <<"socks", "edge">>, <<"edge", "owner">>, <<"socks", "edge", "owner">>}
        BY RelayAssumption DEF Init
    <2>2. Len(<<"edge">>) = 1 /\ Len(<<"socks", "edge">>) = 2 /\ Len(<<"edge", "owner">>) = 2
          /\ Len(<<"socks", "edge", "owner">>) = 3
        OBVIOUS
    <2>3. H \in 1..3
        BY <2>1, <2>2 DEF H
    <2>4. N \in Nat
        BY RelayAssumption DEF Init, N
    <2> QED
        BY <2>3, <2>4
<1>2. <<>> \in Seq(1..N) /\ <<>> \in Seq(0..N) /\ \A n : <<>> \in Seq(1..n)
    BY Nil
<1>3. TypeOK
    <2>1. chain \in Chains /\ app = "wait" /\ backend = "open" /\ lost \subseteq Link
        BY DEF Init
    <2>2. sent \in [Dir -> 0..N] /\ bytes \in [Hop -> [Dir -> 0..N]]
        BY <1>1 DEF Init
    <2>3. got \in [Dir -> Seq(1..N)] /\ buf \in [Hop -> [Dir -> Seq(1..N)]]
        BY <1>2 DEF Init
    <2>4. wire \in [Link -> [Dir -> Seq(0..N)]]
        BY <1>2 DEF Init
    <2>5. fin \in [Link -> SUBSET Dir]
        BY DEF Init
    <2>6. /\ stage \in [Hop -> {"wait", "relay", "done"}]
          /\ copier \in [Hop -> [Dir -> {"idle", "copy", "eof", "error"}]]
          /\ outcome \in [Hop -> {"none", "success", "failure"}]
        BY DEF Init
    <2> QED
        BY <2>1, <2>2, <2>3, <2>4, <2>5, <2>6 DEF TypeOK
<1>4. /\ \A l \in 0..H : l \in Link /\ fin[l] = {} /\ \A d \in Dir : wire[l][d] = <<>>
      /\ \A h \in 1..H : /\ h \in Hop /\ stage[h] = "wait" /\ outcome[h] = "none"
                         /\ \A d \in Dir : copier[h][d] = "idle" /\ buf[h][d] = <<>> /\ bytes[h][d] = 0
      /\ \A d \in Dir : sent[d] = 0 /\ got[d] = <<>>
    <2>1. (\A l \in 0..H : l \in Link) /\ \A h \in 1..H : h \in Hop
        BY <1>1 DEF Link, Hop
    <2> QED
        BY <2>1 DEF Init
<1>5. DataInv
    <2>1. ASSUME NEW d \in Dir
          PROVE  /\ got[d] \in Seq(1..sent[d]) /\ \A h \in 1..H : buf[h][d] \in Seq(1..sent[d])
                 /\ \A l \in 0..H : wire[l][d] \in Seq(1..sent[d])
        <3>1. <<>> \in Seq(1..sent[d])
            BY <1>2
        <3>2. got[d] = <<>>
            BY <1>4
        <3>3. \A h \in 1..H : buf[h][d] = <<>>
            BY <1>4
        <3>4. \A l \in 0..H : wire[l][d] = <<>>
            BY <1>4
        <3> QED
            BY <3>1, <3>2, <3>3, <3>4
    <2> QED
        BY <2>1 DEF DataInv, Holds
<1>6. SendInv
    BY <1>4 DEF Init, SendInv, Dir
<1>7. ASSUME NEW d \in Dir
      PROVE  Flow(d)
    <2> DEFINE w == [l \in 0..H |-> 0]
    <2>1. w \in [0..H -> 0..N] /\ \A l \in 0..H : w[l] = 0
        BY <1>1
    <2> HIDE DEF w
    <2>2. Exit(d) \in 0..H /\ Entry(d) \in 0..H
        BY <1>1 DEF Exit, Entry
    <2>3. \A l \in 0..H : Data(wire[l][d]) = <<>>
        BY <1>4, DataOf
    <2>4. \A h \in 1..H : Passed(h, d, w) = 0
        BY <1>1, <2>1, <2>3, Links, Nil DEF Passed
    <2>5. Laid(d, w)
        <3>1. w[Exit(d)] = 0 /\ w[Entry(d)] = 0 /\ got[d] = <<>> /\ sent[d] = 0
            BY <1>4, <2>1, <2>2
        <3>2. From(got[d], 0) /\ \A l \in 0..H : From(Data(wire[l][d]), w[l])
            BY <2>3, <3>1, FromNil
        <3>3. w[Exit(d)] = Len(got[d]) /\ sent[d] = w[Entry(d)] + Len(Data(wire[Entry(d)][d]))
            BY <2>2, <2>3, <3>1, Nil
        <3>4. ASSUME NEW h \in 1..H
              PROVE  /\ From(buf[h][d], Passed(h, d, w))
                     /\ w[In(h, d)] = Passed(h, d, w) + Len(buf[h][d])
                     /\ ~Socks(h) => bytes[h][d] = Passed(h, d, w)
            <4>1. buf[h][d] = <<>> /\ bytes[h][d] = 0 /\ Passed(h, d, w) = 0
                BY <1>4, <2>4
            <4>2. w[In(h, d)] = 0
                BY <1>1, <2>1, Links
            <4> QED
                BY <4>1, <4>2, FromNil, Nil
        <3> QED
            BY <3>2, <3>3, <3>4 DEF Laid
    <2> QED
        BY <2>1, <2>5 DEF Flow
<1>8. ASSUME NEW h \in 1..H
      PROVE  HopInv(h)
    <2>1. h - 1 \in 0..H /\ h \in 0..H /\ "up" \in Dir /\ "down" \in Dir
        BY <1>1 DEF Dir
    <2>2. /\ stage[h] = "wait" /\ outcome[h] = "none" /\ (\A d \in Dir : copier[h][d] = "idle")
          /\ wire[h - 1]["down"] = <<>> /\ wire[h]["down"] = <<>>
        BY <1>4, <2>1
    <2>3. ~Started(h)
        BY <2>1, <2>2 DEF Started
    <2>4. StageInv(h)
        BY <2>2, <2>3 DEF StageInv
    <2>5. EofInv(h)
        BY <2>2 DEF EofInv
    <2>6. OpenInv(h)
        BY <2>2, <2>3, DataOf DEF OpenInv
    <2> QED
        BY <2>4, <2>5, <2>6 DEF HopInv
<1>9. \A l \in 0..H : FinInv(l)
    BY <1>4 DEF FinInv
<1> QED
    BY <1>3, <1>5, <1>6, <1>7, <1>8, <1>9 DEF IndInv

LEMMA NextInv ==
    ASSUME ~ServerFirst, IndInv, [Next]_vars
    PROVE  IndInv'
<1>1. "up" \in Dir /\ "down" \in Dir /\ H \in 1..3 /\ DataInv
    BY Parts
<1>2. CASE Acknowledge
    BY <1>2, OpenStep
<1>3. ASSUME NEW k \in 1..(N + 1), AppOpened(k)
      PROVE  IndInv'
    BY <1>3, AppStep
<1>4. CASE Send
    <2>1. FinInv(0)
        BY <1>1, Parts
    <2>2. Sends("up")
        BY <1>4, <2>1 DEF Send, Sends, still, copies, Entry, FinInv
    <2> QED
        BY <1>1, <2>2, SendStep
<1>5. CASE BackendSend
    <2>1. FinInv(H) /\ sent["up"] \in Nat
        BY <1>1, Parts, Typed
    <2>2. Sends("down")
        BY <1>5, <2>1 DEF BackendSend, Sends, still, copies, Entry, FinInv
    <2>3. got["up"] # <<>> /\ got["up"] \in Seq(1..sent["up"])
        BY <1>1, <1>5 DEF BackendSend, DataInv
    <2>4. sent["up"] > 0
        <3>1. sent["up"] # 0
            BY <2>1, <2>3, Wider
        <3> QED
            BY <2>1, <3>1
    <2> QED
        BY <1>1, <2>2, <2>4, SendStep
<1>6. CASE CloseWrite \/ Close \/ BackendClose \/ \E l \in Link : Lose(l)
    BY <1>6, EndSteps
<1>7. ASSUME NEW d \in Dir, Receive(d)
      PROVE  IndInv'
    BY <1>7, ReceiveStep
<1>8. ASSUME NEW h \in 1..H, Opens(h) \/ Returns(h)
      PROVE  IndInv'
    BY <1>8, OpenStep, ReturnStep DEF Opens
<1>9. ASSUME NEW h \in 1..H, NEW d \in Dir, Copy(h, d)
      PROVE  IndInv'
    BY <1>9, ReadStep, WriteStep, CopyEnds DEF Copy
<1>10. CASE UNCHANGED vars
    <2>1. /\ UNCHANGED <<chain, app, backend, sent, got, wire>>
          /\ UNCHANGED <<fin, lost, stage, copier, buf, bytes, outcome>>
        BY <1>10 DEF vars
    <2>2. H' = H /\ N' = N
        BY <2>1 DEF H, N
    <2>3. TypeOK'
        BY <2>1, <2>2, Parts DEF TypeOK
    <2>4. DataInv' /\ SendInv'
        BY <2>1, <2>2, Parts DEF DataInv, Holds, SendInv, Started
    <2>5. \A d \in Dir : Flow(d)'
        BY <2>1, Parts, FlowsSame
    <2>6. \A h \in 1..H : StageInv(h)' /\ OpenInv(h)' /\ EofInv(h)'
        BY <1>1, <2>1, Parts, StageSame, OpenSame, EofSame DEF Started
    <2>7. \A l \in 0..H : FinInv(l)'
        BY <1>1, <2>1, Parts, FinSame
    <2> QED
        BY <2>2, <2>3, <2>4, <2>5, <2>6, <2>7, Whole
<1> QED
    BY <1>2, <1>3, <1>4, <1>5, <1>6, <1>7, <1>8, <1>9, <1>10 DEF Next

\* metrics.Relay, the handlers and the ends, when the backend waits to be spoken to: at
\* every moment the data of a direction lie along the chain in the order in which they were
\* sent, none twice and none missing; an acknowledgement is alone on its link.
THEOREM Invariance ==
    ASSUME ~ServerFirst
    PROVE  Spec => []IndInv
<1>1. Init => IndInv
    BY InitInv
<1>2. IndInv /\ [Next]_vars => IndInv'
    BY NextInv
<1> QED
    BY <1>1, <1>2, PTL DEF Spec
-----------------------------------------------------------------------------
(* What follows from it.                                                   *)

\* copyCount through all handlers: what an end has got is what the other sent, from its
\* beginning and without a gap, whatever was lost, closed or cut into pieces on the way.
THEOREM InOrderHolds ==
    ASSUME ~ServerFirst
    PROVE  Spec => []InOrder
<1>1. ASSUME IndInv
      PROVE  InOrder
    <2>1. ASSUME NEW d \in Dir
          PROVE  Len(got[d]) <= sent[d] /\ got[d] = [i \in 1..Len(got[d]) |-> i]
        <3>1. PICK w \in [0..H -> 0..N] : Laid(d, w)
            BY <1>1, Parts DEF Flow
        <3>2. From(got[d], 0) /\ got[d] \in Seq(1..sent[d]) /\ sent[d] \in Nat
            <4>1. TypeOK /\ DataInv
                BY <1>1 DEF IndInv
            <4>2. sent[d] \in Nat
                BY <4>1, Typed
            <4>3. got[d] \in Seq(1..sent[d])
                BY <4>1 DEF DataInv
            <4> QED
                BY <3>1, <4>2, <4>3 DEF Laid
        <3>3. 0 + Len(got[d]) \in 0..sent[d]
            BY <3>2, FromBound
        <3>4. got[d] = [i \in 1..Len(got[d]) |-> got[d][i]]
            BY <3>2
        <3>5. \A i \in 1..Len(got[d]) : got[d][i] = i
            BY <3>2 DEF From
        <3>6. Len(got[d]) <= sent[d]
            BY <3>2, <3>3
        <3>7. [i \in 1..Len(got[d]) |-> got[d][i]] = [i \in 1..Len(got[d]) |-> i]
            BY <3>5
        <3> QED
            BY <3>4, <3>6, <3>7
    <2> QED
        BY <2>1 DEF InOrder
<1> QED
    BY <1>1, Invariance, PTL

\* copyCount, Relay: a relay that is counted as a success has passed on all that was
\* written on its links, and at the ends of the chain its counters say how much was sent.
THEOREM SuccessIsWholeHolds ==
    ASSUME ~ServerFirst
    PROVE  Spec => []SuccessIsWhole
<1>1. ASSUME IndInv
      PROVE  SuccessIsWhole
    <2>1. ASSUME NEW h \in 1..H, outcome[h] = "success", NEW d \in Dir
          PROVE  /\ wire[In(h, d)][d] = <<>> /\ buf[h][d] = <<>>
                 /\ In(h, d) \in {0, H} => bytes[h][d] = sent[d]
        <3>1. ~Socks(h) /\ wire[In(h, d)][d] = <<>> /\ buf[h][d] = <<>>
            BY <1>1, <2>1, Parts DEF EofInv
        <3>2. PICK w \in [0..H -> 0..N] : Laid(d, w)
            BY <1>1, Parts DEF Flow
        <3>3. H \in 1..3 /\ N \in Nat /\ sent[d] \in Nat /\ bytes[h][d] \in Nat
            BY <1>1, Parts, Typed
        <3>4. bytes[h][d] = Passed(h, d, w) /\ w[In(h, d)] = Passed(h, d, w) + Len(buf[h][d])
            BY <3>1, <3>2 DEF Laid
        <3>5. w[In(h, d)] = bytes[h][d]
            <4>1. Len(buf[h][d]) = 0
                BY <3>1, Nil
            <4> QED
                BY <3>3, <3>4, <4>1
        <3>6. In(h, d) \in {0, H} => In(h, d) = Entry(d)
            <4>1. H \in 1..3
                BY <3>3
            <4> QED
                BY <4>1 DEF In, Entry, Dir
        <3>7. sent[d] = w[Entry(d)] + Len(Data(wire[Entry(d)][d]))
            BY <3>2 DEF Laid
        <3>8. In(h, d) = Entry(d) => bytes[h][d] = sent[d]
            BY <3>1, <3>3, <3>5, <3>7, DataOf, Nil
        <3> QED
            BY <3>1, <3>6, <3>8
    <2> QED
        BY <2>1 DEF SuccessIsWhole
<1> QED
    BY <1>1, Invariance, PTL

\* From the numbers along the chain: what a handler has passed on is what the receiving end
\* has got and what is on the way behind the handler.
LEMMA PassedOn ==
    ASSUME IndInv, NEW h \in 1..H, NEW d \in Dir, NEW w \in [0..H -> 0..N], Laid(d, w)
    PROVE  Passed(h, d, w) = Len(got[d]) + Beyond(h, d)
<1> DEFINE L(l) == Len(Data(wire[l][d]))
           B(g) == Len(buf[g][d])
           G == Len(got[d])
<1>1. H \in 1..3 /\ N \in Nat /\ TypeOK /\ DataInv
    BY Parts
<1>2. ASSUME NEW l \in 0..H
      PROVE  L(l) \in Nat /\ w[l] \in Nat
    <2>1. Holds(l, d) /\ sent[d] \in Nat
        BY <1>1, Typed DEF DataInv
    <2>2. Data(wire[l][d]) \in Seq(1..sent[d])
        BY <2>1, DataOf, Nil DEF Holds
    <2> QED
        BY <1>1, <2>2, Empty
<1>3. (\A g \in 1..H : B(g) \in Nat) /\ G \in Nat
    BY <1>1, Typed, Empty
<1>4. w[Exit(d)] = G /\ \A g \in 1..H : w[In(g, d)] = w[Out(g, d)] + L(Out(g, d)) + B(g)
    BY DEF Laid, Passed
<1>5. Passed(h, d, w) = w[Out(h, d)] + L(Out(h, d))
    BY DEF Passed
<1>6. Beyond(h, d) =
         LET Behind(x, y) == IF d = "up" THEN x <= y ELSE y < x
             Wire(l) == IF l <= H /\ Behind(h, l) THEN L(l) ELSE 0
             Held(g) == IF g <= H /\ g # h /\ Behind(h, g) THEN B(g) ELSE 0
         IN  Wire(0) + Wire(1) + Wire(2) + Wire(3) + Held(1) + Held(2) + Held(3)
    BY DEF Beyond
<1> SUFFICES Passed(h, d, w) = G + Beyond(h, d)
    OBVIOUS
<1> HIDE DEF L, B, G
<1>7. CASE d = "up"
    <2>0. /\ w[H] = G /\ Passed(h, d, w) = w[h] + L(h)
          /\ \A g \in 1..H : w[g - 1] = w[g] + L(g) + B(g)
        BY <1>4, <1>5, <1>7 DEF Exit, In, Out
    <2>1. CASE H = 1 /\ h = 1
        <3>1. L(1) \in Nat
            BY <1>2, <1>3, <2>1
        <3>2. Beyond(h, d) = L(1)
            BY <1>6, <1>7, <2>1, <3>1
        <3>3. w[1] = G /\ Passed(h, d, w) = w[1] + L(1)
            BY <2>0, <2>1
        <3> QED
            BY <1>3, <3>1, <3>2, <3>3
    <2>2. CASE H = 2 /\ h = 1
        <3>1. L(1) \in Nat /\ L(2) \in Nat /\ B(2) \in Nat
            BY <1>2, <1>3, <2>2
        <3>2. Beyond(h, d) = L(1) + L(2) + B(2)
            BY <1>6, <1>7, <2>2, <3>1
        <3>3. w[2] = G /\ Passed(h, d, w) = w[1] + L(1) /\ w[1] = w[2] + L(2) + B(2)
            BY <2>0, <2>2
        <3> QED
            BY <1>3, <3>1, <3>2, <3>3
    <2>3. CASE H = 2 /\ h = 2
        <3>1. L(2) \in Nat
            BY <1>2, <1>3, <2>3
        <3>2. Beyond(h, d) = L(2)
            BY <1>6, <1>7, <2>3, <3>1
        <3>3. w[2] = G /\ Passed(h, d, w) = w[2] + L(2)
            BY <2>0, <2>3
        <3> QED
            BY <1>3, <3>1, <3>2, <3>3
    <2>4. CASE H = 3 /\ h = 1
        <3>1. L(1) \in Nat /\ L(2) \in Nat /\ L(3) \in Nat /\ B(2) \in Nat /\ B(3) \in Nat
            BY <1>2, <1>3, <2>4
        <3>2. Beyond(h, d) = L(1) + L(2) + L(3) + B(2) + B(3)
            BY <1>6, <1>7, <2>4, <3>1
        <3>3. w[3] = G /\ Passed(h, d, w) = w[1] + L(1) /\ w[1] = w[2] + L(2) + B(2) /\ w[2] = w[3] + L(3) + B(3)
            BY <2>0, <2>4
        <3> QED
            BY <1>3, <3>1, <3>2, <3>3
    <2>5. CASE H = 3 /\ h = 2
        <3>1. L(2) \in Nat /\ L(3) \in Nat /\ B(3) \in Nat
            BY <1>2, <1>3, <2>5
        <3>2. Beyond(h, d) = L(2) + L(3) + B(3)
            BY <1>6, <1>7, <2>5, <3>1
        <3>3. w[3] = G /\ Passed(h, d, w) = w[2] + L(2) /\ w[2] = w[3] + L(3) + B(3)
            BY <2>0, <2>5
        <3> QED
            BY <1>3, <3>1, <3>2, <3>3
    <2>6. CASE H = 3 /\ h = 3
        <3>1. L(3) \in Nat
            BY <1>2, <1>3, <2>6
        <3>2. Beyond(h, d) = L(3)
            BY <1>6, <1>7, <2>6, <3>1
        <3>3. w[3] = G /\ Passed(h, d, w) = w[3] + L(3)
            BY <2>0, <2>6
        <3> QED
            BY <1>3, <3>1, <3>2, <3>3
    <2> QED
        BY <1>1, <2>1, <2>2, <2>3, <2>4, <2>5, <2>6
<1>8. CASE d = "down"
    <2>0. /\ w[0] = G /\ Passed(h, d, w) = w[h - 1] + L(h - 1)
          /\ \A g \in 1..H : w[g] = w[g - 1] + L(g - 1) + B(g)
        BY <1>4, <1>5, <1>8 DEF Exit, In, Out
    <2>1. CASE H = 1 /\ h = 1
        <3>1. L(0) \in Nat
            BY <1>2, <1>3, <2>1
        <3>2. Beyond(h, d) = L(0)
            BY <1>6, <1>8, <2>1, <3>1
        <3>3. w[0] = G /\ Passed(h, d, w) = w[0] + L(0)
            BY <2>0, <2>1
        <3> QED
            BY <1>3, <3>1, <3>2, <3>3
    <2>2. CASE H = 2 /\ h = 1
        <3>1. L(0) \in Nat
            BY <1>2, <1>3, <2>2
        <3>2. Beyond(h, d) = L(0)
            BY <1>6, <1>8, <2>2, <3>1
        <3>3. w[0] = G /\ Passed(h, d, w) = w[0] + L(0)
            BY <2>0, <2>2
        <3> QED
            BY <1>3, <3>1, <3>2, <3>3
    <2>3. CASE H = 2 /\ h = 2
        <3>1. L(0) \in Nat /\ L(1) \in Nat /\ B(1) \in Nat
            BY <1>2, <1>3, <2>3
        <3>2. Beyond(h, d) = L(0) + L(1) + B(1)
            BY <1>6, <1>8, <2>3, <3>1
        <3>3. w[0] = G /\ Passed(h, d, w) = w[1] + L(1) /\ w[1] = w[0] + L(0) + B(1)
            BY <2>0, <2>3
        <3> QED
            BY <1>3, <3>1, <3>2, <3>3
    <2>4. CASE H = 3 /\ h = 1
        <3>1. L(0) \in Nat
            BY <1>2, <1>3, <2>4
        <3>2. Beyond(h, d) = L(0)
            BY <1>6, <1>8, <2>4, <3>1
        <3>3. w[0] = G /\ Passed(h, d, w) = w[0] + L(0)
            BY <2>0, <2>4
        <3> QED
            BY <1>3, <3>1, <3>2, <3>3
    <2>5. CASE H = 3 /\ h = 2
        <3>1. L(0) \in Nat /\ L(1) \in Nat /\ B(1) \in Nat
            BY <1>2, <1>3, <2>5
        <3>2. Beyond(h, d) = L(0) + L(1) + B(1)
            BY <1>6, <1>8, <2>5, <3>1
        <3>3. w[0] = G /\ Passed(h, d, w) = w[1] + L(1) /\ w[1] = w[0] + L(0) + B(1)
            BY <2>0, <2>5
        <3> QED
            BY <1>3, <3>1, <3>2, <3>3
    <2>6. CASE H = 3 /\ h = 3
        <3>1. L(0) \in Nat /\ L(1) \in Nat /\ L(2) \in Nat /\ B(1) \in Nat /\ B(2) \in Nat
            BY <1>2, <1>3, <2>6
        <3>2. Beyond(h, d) = L(0) + L(1) + L(2) + B(1) + B(2)
            BY <1>6, <1>8, <2>6, <3>1
        <3>3. w[0] = G /\ Passed(h, d, w) = w[2] + L(2) /\ w[1] = w[0] + L(0) + B(1) /\ w[2] = w[1] + L(1) + B(2)
            BY <2>0, <2>6
        <3> QED
            BY <1>3, <3>1, <3>2, <3>3
    <2> QED
        BY <1>1, <2>1, <2>2, <2>3, <2>4, <2>5, <2>6
<1> QED
    BY <1>7, <1>8 DEF Dir

\* copyCount counts what was written: at every node the counter of a direction is what the
\* receiving end has got or the rest of the chain still holds.
THEOREM CountedHolds ==
    ASSUME ~ServerFirst
    PROVE  Spec => []Counted
<1>1. ASSUME IndInv
      PROVE  Counted
    <2>1. ASSUME NEW h \in 1..H, ~Socks(h), NEW d \in Dir
          PROVE  bytes[h][d] = Len(got[d]) + Beyond(h, d)
        <3>1. PICK w \in [0..H -> 0..N] : Laid(d, w)
            BY <1>1, Parts DEF Flow
        <3>2. bytes[h][d] = Passed(h, d, w)
            BY <2>1, <3>1 DEF Laid
        <3> QED
            BY <1>1, <3>1, <3>2, PassedOn
    <2> QED
        BY <2>1 DEF Counted
<1> QED
    BY <1>1, Invariance, PTL
=============================================================================
