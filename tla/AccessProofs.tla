---------------------------- MODULE AccessProofs ----------------------------
(***************************************************************************)
(* Proofs about the two decisions on what a connection of an application   *)
(* gets: which service the client asks a node for (TunClient), for any     *)
(* names, hash, applications and restarts; and whether a node allows it    *)
(* (Policy), for any nodes, patterns, bundles and min_version values.      *)
(***************************************************************************)
EXTENDS Policy, TunClient, SequenceTheorems, TLAPS

\* The provers that a step tries, in this order, and the seconds each may take.
USE ZenonT(5), SMTT(30), SMTT(40), SMTT(50), ZenonT(60)

-----------------------------------------------------------------------------
(* Policy.                                                                 *)

\* What a bundle allows and denies is a set of patterns.
LEMMA BundleRules ==
    ASSUME NEW b \in Bundle
    PROVE  /\ AllowsOf(b) \subseteq Pattern /\ DeniesOf(b) \subseteq Pattern
           /\ b.version \in Nat /\ b.cluster \in Cluster \cup {NoCluster}
<1>1. /\ b.version \in Nat /\ b.cluster \in Cluster \cup {NoCluster}
      /\ b.rules \subseteq Rule
    BY PolicyAssumption
<1>2. \A r \in GlobalRules(b) : /\ r.allow \subseteq Pattern \cup {NoService}
                                /\ r.deny \subseteq Pattern \cup {NoService}
    BY <1>1 DEF GlobalRules, Rule
<1>3. ASSUME NEW p, p \in AllowsOf(b) PROVE p \in Pattern
    <2>1. p # NoService /\ \E r \in GlobalRules(b) : p \in r.allow
        BY <1>3 DEF AllowsOf
    <2> QED
        BY <1>2, <2>1
<1>4. ASSUME NEW p, p \in DeniesOf(b) PROVE p \in Pattern
    <2>1. p # NoService /\ \E r \in GlobalRules(b) : p \in r.deny
        BY <1>4 DEF DeniesOf
    <2> QED
        BY <1>2, <2>1
<1> QED
    BY <1>1, <1>3, <1>4

\* A call of ApplyBundle keeps the types.
LEMMA TypeStep == TypeOK /\ [Next]_vars => TypeOK'
<1> SUFFICES ASSUME TypeOK, [Next]_vars PROVE TypeOK'
    OBVIOUS
<1>1. ASSUME NEW n \in Node, NEW b \in Bundle, NEW min \in MinVersion, ApplyBundle(n, b, min)
      PROVE  TypeOK'
    <2>1. /\ allowServices' \in [Node -> SUBSET Pattern]
          /\ denyServices' \in [Node -> SUBSET Pattern]
          /\ permissive' \subseteq Node /\ version' \in [Node -> Nat]
          /\ cluster' \in [Node -> Cluster \cup {NoCluster}]
        <3>1. CASE Replace(n, b)
            BY <3>1, BundleRules DEF TypeOK, Replace
        <3>2. CASE UNCHANGED <<allowServices, denyServices, permissive, version, cluster>>
            BY <3>2 DEF TypeOK
        <3> QED
            BY <1>1, <3>1, <3>2 DEF ApplyBundle
    <2>2. received' \in [Node -> SUBSET Bundle]
        BY <1>1 DEF TypeOK, ApplyBundle
    <2>3. reply' \in [node : Node, bundle : Bundle, accepted : Nat]
        BY <1>1, <2>1 DEF ApplyBundle
    <2> QED
        BY <2>1, <2>2, <2>3 DEF TypeOK
<1>2. CASE UNCHANGED vars
    BY <1>2 DEF TypeOK, vars
<1> QED
    BY <1>1, <1>2 DEF Next

\* Policy: the fields of a Policy and the answers of ApplyBundle have their types.
THEOREM TypeCorrect == Spec => []TypeOK
<1>1. Init => TypeOK
    BY PolicyAssumption DEF Init, TypeOK
<1> QED
    BY <1>1, TypeStep, PTL DEF Spec
-----------------------------------------------------------------------------
Named(n) == \A c \in received[n] : c.cluster # NoCluster

\* The node still has the rules of its flag.
OfFlag(n) ==
    /\ version[n] = 0 /\ cluster[n] = NoCluster
    /\ allowServices[n] = AllowFlag[n] /\ denyServices[n] = {}
    /\ n \in permissive <=> AllowFlag[n] = {}
    /\ Named(n) => \A c \in received[n] : c.version = 0

\* The node has the rules of b.
OfBundle(n, b) ==
    /\ b \in received[n]
    /\ version[n] = b.version /\ cluster[n] = b.cluster
    /\ allowServices[n] = AllowsOf(b) /\ denyServices[n] = DeniesOf(b)
    /\ n \notin permissive
    /\ Named(n) => \A c \in received[n] : c.cluster = b.cluster => c.version <= b.version

\* HighestWins in terms of the two.
LEMMA HighestWinsUnfolded ==
    HighestWins <=> \A n \in Node : OfFlag(n) \/ \E b \in received[n] : OfBundle(n, b)
BY DEF HighestWins, OfFlag, OfBundle, Named

\* A call of ApplyBundle keeps HighestWins: a bundle that is refused is not
\* newer than the rules in force, or of another cluster.
LEMMA HighestWinsStep == TypeOK /\ HighestWins /\ [Next]_vars => HighestWins'
<1> SUFFICES ASSUME TypeOK, HighestWins, [Next]_vars
             PROVE  (\A n \in Node : OfFlag(n) \/ \E b \in received[n] : OfBundle(n, b))'
    BY DEF HighestWins, OfFlag, OfBundle, Named
<1>0. \A n \in Node : OfFlag(n) \/ \E b \in received[n] : OfBundle(n, b)
    BY HighestWinsUnfolded
<1>1. ASSUME NEW n \in Node, NEW b \in Bundle, NEW min \in MinVersion, ApplyBundle(n, b, min),
             NEW m \in Node
      PROVE  OfFlag(m)' \/ \E c \in received'[m] : OfBundle(m, c)'
    <2>0. /\ allowServices \in [Node -> SUBSET Pattern] /\ denyServices \in [Node -> SUBSET Pattern]
          /\ version \in [Node -> Nat] /\ cluster \in [Node -> Cluster \cup {NoCluster}]
          /\ received \in [Node -> SUBSET Bundle]
        BY DEF TypeOK
    <2>1. CASE m # n
        <3>1. /\ allowServices'[m] = allowServices[m] /\ denyServices'[m] = denyServices[m]
              /\ version'[m] = version[m] /\ cluster'[m] = cluster[m]
              /\ m \in permissive' <=> m \in permissive
              /\ received'[m] = received[m]
            BY <1>1, <2>0, <2>1 DEF ApplyBundle, Replace
        <3> QED
            BY <1>0, <3>1 DEF OfFlag, OfBundle, Named
    <2>2. CASE m = n /\ b.version >= min /\ Accepts(n, b)
        <3>1. /\ allowServices'[n] = AllowsOf(b) /\ denyServices'[n] = DeniesOf(b)
              /\ version'[n] = b.version /\ cluster'[n] = b.cluster
              /\ n \notin permissive' /\ received'[n] = received[n] \cup {b}
            BY <1>1, <2>0, <2>2 DEF ApplyBundle, Replace
        <3>2. b.version > version[n] /\ b.version \in Nat /\ version[n] \in Nat
              /\ \A c \in received[n] : c.version \in Nat
            BY <2>0, <2>2, BundleRules DEF Accepts
        <3>3. ASSUME Named(n)', NEW c \in received'[n], c.cluster = b.cluster
              PROVE  c.version <= b.version
            <4>1. Named(n) /\ b.cluster # NoCluster
                BY <3>1, <3>3 DEF Named
            <4>2. CASE c = b
                BY <3>2, <4>2
            <4>3. CASE c \in received[n] /\ OfFlag(n)
                BY <3>2, <4>1, <4>3 DEF OfFlag
            <4>4. ASSUME c \in received[n], NEW d \in received[n], OfBundle(n, d)
                  PROVE  c.version <= b.version
                <5>1. d.cluster # NoCluster /\ d.cluster = b.cluster
                    BY <2>2, <4>1, <4>4 DEF OfBundle, Named, Accepts
                <5> QED
                    BY <3>2, <3>3, <4>1, <4>4, <5>1 DEF OfBundle
            <4> QED
                BY <1>0, <3>1, <3>3, <4>2, <4>3, <4>4
        <3> QED
            BY <2>2, <3>1, <3>3 DEF OfBundle
    <2>3. CASE m = n /\ ~(b.version >= min /\ Accepts(n, b))
        <3>1. /\ UNCHANGED <<allowServices, denyServices, permissive, version, cluster>>
              /\ received'[n] = received[n] \/ received'[n] = received[n] \cup {b}
              /\ received'[n] # received[n] => b.version >= min /\ ~Accepts(n, b)
            BY <1>1, <2>0, <2>3 DEF ApplyBundle
        <3>2. CASE received'[n] = received[n]
            BY <1>0, <2>3, <3>1, <3>2 DEF OfFlag, OfBundle, Named
        <3>3. CASE received'[n] # received[n]
            <4>1. /\ received'[n] = received[n] \cup {b} /\ ~Accepts(n, b)
                  /\ b.version \in Nat /\ version[n] \in Nat
                BY <2>0, <3>1, <3>3, BundleRules
            <4>2. Named(n)' => Named(n) /\ b.cluster # NoCluster
                BY <4>1 DEF Named
            <4>3. CASE OfFlag(n)
                <5>1. b.version = 0
                    BY <4>1, <4>3 DEF Accepts, OfFlag
                <5> QED
                    BY <2>3, <3>1, <4>1, <4>2, <4>3, <5>1 DEF OfFlag
            <4>4. ASSUME NEW d \in received[n], OfBundle(n, d)
                  PROVE  OfBundle(n, d)'
                <5>1. b.cluster = d.cluster => b.version <= d.version
                    BY <4>1, <4>4 DEF Accepts, OfBundle
                <5> QED
                    BY <3>1, <4>1, <4>2, <4>4, <5>1 DEF OfBundle
            <4> QED
                BY <1>0, <2>3, <4>1, <4>3, <4>4
        <3> QED
            BY <3>2, <3>3
    <2> QED
        BY <2>1, <2>2, <2>3
<1>2. CASE UNCHANGED vars
    BY <1>0, <1>2 DEF vars, OfFlag, OfBundle, Named
<1> QED
    BY <1>1, <1>2 DEF Next

\* ApplyBundle: whatever the order and the number of deliveries, the rules in
\* force are the flag's, or those of the newest bundle received.
THEOREM HighestWinsHolds == Spec => []HighestWins
<1>1. Init => HighestWins
    <2> SUFFICES ASSUME Init PROVE \A n \in Node : OfFlag(n)
        BY HighestWinsUnfolded
    <2> QED
        BY DEF Init, OfFlag, Named
<1> QED
    BY <1>1, HighestWinsStep, TypeCorrect, PTL DEF Spec

\* Policy.Allow: what the bundle in force denies is refused, and what its allow
\* rules do not name is refused.
THEOREM EnforcedHolds == Spec => []Enforced
<1>1. TypeOK /\ HighestWins => Enforced
    <2> SUFFICES ASSUME TypeOK, HighestWins, NEW n \in Node, version[n] > 0
                 PROVE  \E b \in received[n] :
                            /\ b.version = version[n]
                            /\ \A r \in GlobalRules(b), p \in Pattern : p \in r.deny =>
                                   \A s \in Matches[p] : ~Allow(n, s)
                            /\ \A s \in Service : Allow(n, s) =>
                                   \/ AllowsOf(b) = {}
                                   \/ \E r \in GlobalRules(b), p \in Pattern :
                                         p \in r.allow /\ s \in Matches[p]
        BY DEF Enforced
    <2>1. PICK b \in received[n] : OfBundle(n, b)
        BY HighestWinsUnfolded DEF OfFlag
    <2>2. b \in Bundle
        BY DEF TypeOK
    <2>3. ASSUME NEW r \in GlobalRules(b), NEW p \in Pattern, p \in r.deny, NEW s \in Matches[p]
          PROVE  ~Allow(n, s)
        <3>1. p \in denyServices[n] /\ n \notin permissive
            BY <2>1, <2>3, PolicyAssumption DEF OfBundle, DeniesOf
        <3> QED
            BY <2>3, <3>1 DEF Allow
    <2>4. ASSUME NEW s \in Service, Allow(n, s), AllowsOf(b) # {}
          PROVE  \E r \in GlobalRules(b), p \in Pattern : p \in r.allow /\ s \in Matches[p]
        <3>1. PICK p \in AllowsOf(b) : s \in Matches[p]
            BY <2>1, <2>4 DEF OfBundle, Allow
        <3>2. p \in Pattern /\ \E r \in GlobalRules(b) : p \in r.allow
            BY <2>2, BundleRules DEF AllowsOf
        <3> QED
            BY <3>1, <3>2
    <2> QED
        BY <2>1, <2>3, <2>4 DEF OfBundle
<1> QED
    BY <1>1, TypeCorrect, HighestWinsHolds, PTL
-----------------------------------------------------------------------------
(* TunClient.                                                              *)

\* virtualIPForService: an address is four bytes, the first of them 100, and the
\* last is neither 0 nor 1.
LEMMA Addresses ==
    ASSUME WellFormed, NEW s \in ServiceName
    PROVE  LET ip == virtualIPForService(Name(s))
           IN  /\ DOMAIN ip = 1..4 /\ Len(ip) = 4 /\ ip \in Seq(Byte)
               /\ \A i \in 1..4 : ip[i] \in Byte
               /\ ip[1] = 100 /\ ip[4] # 0 /\ ip # tunGateway
<1> DEFINE h == Hash[Name(s)]
<1>1. h \in Nat /\ h < 65536
    BY SMTT(30) DEF WellFormed
<1> HIDE DEF h
<1>2. h \div 256 \in Byte /\ h % 256 \in Byte
    BY <1>1, SMTT(30) DEF Byte
<1>3. \A b \in Byte : Or2(b) \in Byte /\ Or2(b) > 1
    BY SMTT(30) DEF Or2, Byte
<1>4. virtualIPForService(Name(s))
          = <<100, 127, h \div 256, Or2(h % 256)>>
    BY DEF virtualIPForService, h
<1> QED
    BY <1>2, <1>3, <1>4, SMTT(30) DEF Byte, tunGateway

\* stringsCutSuffix: it takes the suffix off a name.
LEMMA CutSuffix ==
    ASSUME WellFormed, NEW s \in ServiceName
    PROVE  ServiceNameFromHost(Name(s)) = s
<1> DEFINE name == Name(s)
           B == Byte
           suffix == Suffix
<1>1. s \in Seq(B) /\ Len(s) \in Nat
    BY SMTT(30) DEF WellFormed
<1>2. suffix \in Seq(B) /\ Len(suffix) = 4
    BY DEF Suffix, Byte
<1>3. name = s \o suffix
    BY DEF Name
<1> HIDE DEF name, B, suffix
<1>4. /\ name \in Seq(B) /\ Len(name) = Len(s) + 4
      /\ \A i \in 1..(Len(s) + 4) : name[i] = IF i <= Len(s) THEN s[i] ELSE suffix[i - Len(s)]
    <2>1. /\ name \in Seq(B) /\ Len(name) = Len(s) + Len(suffix)
          /\ \A i \in 1..(Len(s) + Len(suffix)) :
                name[i] = IF i <= Len(s) THEN s[i] ELSE suffix[i - Len(s)]
        BY <1>1, <1>2, <1>3, ConcatProperties
    <2> QED
        BY <1>2, <2>1
<1>5. \A i \in 1..Len(name) : name[i] \in B
    BY <1>4, ElementOfSeq
<1>6. SubSeq(name, Len(s) + 1, Len(s) + 4) = suffix
    <2> DEFINE end == SubSeq(name, Len(s) + 1, Len(s) + 4)
    <2>1. \A i \in (Len(s) + 1)..(Len(s) + 4) : name[i] \in B
        BY <1>1, <1>4, <1>5
    <2>2. /\ end \in Seq(B) /\ Len(end) = 4
          /\ \A i \in 1..4 : end[i] = name[Len(s) + i]
        BY <1>1, <2>1, SubSeqProperties
    <2> HIDE DEF end
    <2>3. ASSUME NEW i \in 1..4 PROVE end[i] = suffix[i]
        <3>1. /\ Len(s) + i \in 1..(Len(s) + 4) /\ ~(Len(s) + i <= Len(s))
              /\ (Len(s) + i) - Len(s) = i
            BY <1>1
        <3>2. name[Len(s) + i] = suffix[(Len(s) + i) - Len(s)]
            BY <1>4, <3>1
        <3> QED
            BY <2>2, <3>1, <3>2
    <2>4. end = suffix
        BY <1>2, <2>2, <2>3, SeqEqual
    <2> QED
        BY <2>4 DEF end
<1>7. SubSeq(name, 1, Len(s)) = s
    <2> DEFINE start == SubSeq(name, 1, Len(s))
    <2>1. \A i \in 1..Len(s) : name[i] \in B
        BY <1>1, <1>4, <1>5
    <2>2. /\ start \in Seq(B) /\ Len(start) = Len(s)
          /\ \A i \in 1..Len(s) : start[i] = name[i]
        BY <1>1, <2>1, SubSeqProperties
    <2> HIDE DEF start
    <2>3. \A i \in 1..Len(s) : start[i] = s[i]
        BY <1>1, <1>4, <2>2
    <2>4. start = s
        BY <1>1, <2>2, <2>3, SeqEqual
    <2> QED
        BY <2>4 DEF start
<1>8. HasSuffix(name)
    <2>1. Len(name) >= Len(suffix) /\ Len(name) - Len(suffix) + 1 = Len(s) + 1
        BY <1>1, <1>2, <1>4
    <2> QED
        BY <1>4, <1>6, <2>1 DEF HasSuffix, suffix
<1>9. Len(name) - Len(suffix) = Len(s)
    BY <1>1, <1>2, <1>4
<1> QED
    BY <1>7, <1>8, <1>9 DEF ServiceNameFromHost, name, suffix

\* ServiceNameFromHost: the text of an address stays as it is.
LEMMA AddressKept ==
    ASSUME WellFormed, NEW s \in ServiceName
    PROVE  LET ip == virtualIPForService(Name(s))
           IN  ServiceNameFromHost(ip) = ip
<1> DEFINE ip == virtualIPForService(Name(s))
<1>1. Len(ip) = 4 /\ ip \in Seq(Byte) /\ ip[1] = 100
    BY Addresses
<1> HIDE DEF ip
<1>2. Len(Suffix) = 4 /\ Suffix[1] = 46
    BY DEF Suffix
<1>3. SubSeq(ip, 1, 4) = ip
    BY <1>1, SubSeqFull
<1>4. ~HasSuffix(ip)
    BY <1>1, <1>2, <1>3 DEF HasSuffix
<1> QED
    BY <1>4 DEF ServiceNameFromHost, ip

IP(s) == virtualIPForService(Name(s))

\* What TypeOK says of the map after a step follows from MapInv.
LEMMA MapTypes ==
    ASSUME WellFormed, MapInv'
    PROVE  \A p \in toName' :
               /\ DOMAIN p[1] = 1..4 /\ \A i \in 1..4 : p[1][i] \in Byte
               /\ p[1] # tunGateway /\ p[1][4] # 0
               /\ \E s \in ServiceName : p[2] = Name(s)
<1> SUFFICES ASSUME NEW p \in toName'
             PROVE  /\ DOMAIN p[1] = 1..4 /\ \A i \in 1..4 : p[1][i] \in Byte
                    /\ p[1] # tunGateway /\ p[1][4] # 0
                    /\ \E s \in ServiceName : p[2] = Name(s)
    OBVIOUS
<1>1. PICK s \in ServiceName : p = <<IP(s), Name(s)>>
    BY DEF MapInv, IP
<1>2. p[1] = IP(s) /\ p[2] = Name(s)
    BY <1>1
<1> QED
    BY <1>2, Addresses DEF IP

\* tunnelOpener: for the address of a service, a bound name with this address, or
\* the address itself when none is bound.
LEMMA ServiceForAddress ==
    ASSUME WellFormed, MapInv, NEW s \in ServiceName
    PROVE  \/ \E u \in ServiceName : ServiceFor(IP(s)) = Name(u) /\ IP(u) = IP(s)
           \/ /\ ServiceFor(IP(s)) = IP(s)
              /\ \A p \in toName : p[1] # IP(s)
<1> DEFINE ip == IP(s)
           names == {p[2] : p \in {q \in toName : q[1] = ip}}
<1>0. ServiceFor(ip) = IF names # {} THEN CHOOSE n \in names : TRUE
                                            ELSE ServiceNameFromHost(ip)
    BY DEF ServiceFor
<1>1. CASE names # {}
    <2>1. ServiceFor(ip) \in names
        BY <1>0, <1>1
    <2>2. PICK p \in toName : p[1] = ip /\ p[2] = ServiceFor(ip)
        BY <2>1
    <2>3. PICK u \in ServiceName : p = <<IP(u), Name(u)>>
        BY DEF MapInv, IP
    <2> QED
        BY <2>2, <2>3
<1>2. CASE names = {}
    <2>1. \A p \in toName : p[1] # ip
        BY <1>2
    <2>2. ServiceFor(ip) = ip
        BY <1>0, <1>2, AddressKept DEF IP
    <2> QED
        BY <2>1, <2>2
<1> QED
    BY <1>1, <1>2

\* tunnelOpener: for an address bound to a name, that name.
LEMMA ServiceForBound ==
    ASSUME MapInv, NEW ip, NEW name, <<ip, name>> \in toName
    PROVE  ServiceFor(ip) = name
<1> DEFINE names == {p[2] : p \in {q \in toName : q[1] = ip}}
<1>1. name \in names
    <2>1. <<ip, name>>[1] = ip /\ <<ip, name>>[2] = name
        OBVIOUS
    <2>2. <<ip, name>> \in {q \in toName : q[1] = ip}
        BY <2>1
    <2> QED
        BY <2>1, <2>2
<1>2. ASSUME NEW n \in names PROVE n = name
    <2>1. PICK p \in toName : p[1] = ip /\ p[2] = n
        BY <1>2
    <2>2. <<ip, name>>[1] = p[1] /\ <<ip, name>>[2] = name
        BY <2>1
    <2>3. p = <<ip, name>>
        BY <2>2 DEF MapInv
    <2> QED
        BY <2>1, <2>3
<1>3. ServiceFor(ip) = CHOOSE n \in names : TRUE
    BY <1>1 DEF ServiceFor
<1> HIDE DEF names
<1>4. (CHOOSE n \in names : TRUE) \in names
    BY <1>1
<1> QED
    BY <1>2, <1>3, <1>4

\* tunnelOpener: with an empty map a name is that of its service.
LEMMA ServiceForName ==
    ASSUME WellFormed, WithoutSuffix, toName = {},
           NEW s \in ServiceName, NEW host \in {s, Name(s)}
    PROVE  ServiceFor(host) = s
<1>1. ServiceFor(host) = ServiceNameFromHost(host)
    BY DEF ServiceFor
<1>2. CASE host = s
    BY <1>1, <1>2 DEF ServiceNameFromHost, WithoutSuffix
<1>3. CASE host = Name(s)
    BY <1>1, <1>3, CutSuffix
<1> QED
    BY <1>2, <1>3

\* An action that leaves the map, the answers and the requests alone.
LEMMA ClientIdle ==
    ASSUME IndInv, UNCHANGED <<toName, lookup, asked, restarts>>,
           phase' \in {"start", "socks", "dns", "tun", "stopped", "failed"}, device' \in BOOLEAN,
           phase' \in {"start", "socks", "failed"} => toName = {}
    PROVE  IndInv'
<1>1. ClientTypeOK'
    BY DEF IndInv, ClientTypeOK
<1>2. MapInv'
    BY DEF IndInv, MapInv
<1>3. LookupInv'
    BY DEF IndInv, LookupInv
<1>4. AsksItsAddress' /\ AsksLookedUp'
    BY DEF IndInv, AsksItsAddress, AsksLookedUp
<1> QED
    BY <1>1, <1>2, <1>3, <1>4 DEF IndInv

\* The DNS handler binds the address of the name it answers with.
LEMMA ClientQuery ==
    ASSUME WellFormed, IndInv, NEW a \in App, NEW s \in ServiceName, Query(a, s)
    PROVE  IndInv'
<1> DEFINE answer == [service |-> s, ip |-> IP(s), state |-> "bound"]
           L == [service : ServiceName, ip : Seq(Byte), state : State]
<1>1. /\ phase \in {"dns", "tun"} /\ UNCHANGED <<phase, device, asked, restarts>>
      /\ toName' = {p \in toName : p[1] # IP(s)} \cup {<<IP(s), Name(s)>>}
      /\ lookup' = [b \in App |-> IF b = a THEN {answer}
                                  ELSE {AfterBinding(l, s, IP(s)) : l \in lookup[b]}]
    BY DEF Query, registerVirtualService, IP
<1>2. answer \in L
    BY Addresses DEF IP, State
<1>3. \A b \in App : \A l \in lookup[b] :
          /\ l \in L /\ l.ip = IP(l.service)
          /\ l.state = "bound" => <<l.ip, Name(l.service)>> \in toName
          /\ l.state = "taken" => \E p \in toName : p[1] = l.ip
    BY DEF IndInv, ClientTypeOK, LookupInv, IP
<1>4. \A p \in toName : p \in toName' <=> p[1] # IP(s) \/ p = <<IP(s), Name(s)>>
    BY <1>1
<1>5. MapInv'
    <2>1. ASSUME NEW p \in toName'
          PROVE  \E u \in ServiceName : p = <<IP(u), Name(u)>>
        <3>1. CASE p \in toName
            BY <3>1 DEF IndInv, MapInv, IP
        <3> QED
            BY <1>1, <2>1, <3>1
    <2>2. ASSUME NEW p \in toName', NEW q \in toName', p[1] = q[1]
          PROVE  p = q
        <3>1. <<IP(s), Name(s)>>[1] = IP(s)
            OBVIOUS
        <3>2. CASE p[1] = IP(s)
            BY <1>1, <2>2, <3>1, <3>2
        <3>3. CASE p[1] # IP(s)
            <4>1. p \in toName /\ q \in toName
                BY <1>1, <2>2, <3>1, <3>3
            <4> QED
                BY <2>2, <4>1 DEF IndInv, MapInv
        <3> QED
            BY <3>2, <3>3
    <2> QED
        BY <1>1, <2>1, <2>2 DEF MapInv, IP
<1>6. ASSUME NEW b \in App, NEW k \in lookup'[b]
      PROVE  /\ k \in L /\ k.ip = IP(k.service)
             /\ k.state = "bound" => <<k.ip, Name(k.service)>> \in toName'
             /\ k.state = "taken" => \E p \in toName' : p[1] = k.ip
    <2>0. <<IP(s), Name(s)>> \in toName' /\ <<IP(s), Name(s)>>[1] = IP(s)
        BY <1>1
    <2>1. CASE b = a
        <3>1. k = answer
            BY <1>1, <1>6, <2>1
        <3> QED
            BY <1>2, <2>0, <3>1
    <2>2. CASE b # a
        <3>1. PICK l \in lookup[b] : k = AfterBinding(l, s, IP(s))
            BY <1>1, <1>6, <2>2
        <3>2. /\ l \in L /\ l.ip = IP(l.service)
              /\ l.state = "bound" => <<l.ip, Name(l.service)>> \in toName
              /\ l.state = "taken" => \E p \in toName : p[1] = l.ip
            BY <1>3, <3>1
        <3>3. CASE l.state = "bound" /\ l.ip = IP(s) /\ l.service # s
            <4>1. k = [l EXCEPT !.state = "taken"]
                BY <3>1, <3>3 DEF AfterBinding
            <4>2. k \in L /\ k.ip = l.ip /\ k.service = l.service /\ k.state = "taken"
                BY <3>2, <4>1 DEF State
            <4> QED
                BY <2>0, <3>2, <3>3, <4>2
        <3>4. CASE ~(l.state = "bound" /\ l.ip = IP(s) /\ l.service # s)
            <4>1. k = l
                BY <3>1, <3>4 DEF AfterBinding
            <4>2. CASE l.ip = IP(s)
                BY <2>0, <3>2, <3>4, <4>1, <4>2
            <4>3. CASE l.ip # IP(s)
                <5>1. <<l.ip, Name(l.service)>>[1] = l.ip
                    OBVIOUS
                <5> QED
                    BY <1>4, <3>2, <4>1, <4>3, <5>1
            <4> QED
                BY <4>2, <4>3
        <3> QED
            BY <3>3, <3>4
    <2> QED
        BY <2>1, <2>2
<1>7. LookupInv'
    BY <1>6 DEF LookupInv, IP
<1>8. lookup' \in [App -> SUBSET L]
    BY <1>1, <1>6
<1>9. ClientTypeOK'
    <2>1. \A p \in toName' :
               /\ DOMAIN p[1] = 1..4 /\ \A i \in 1..4 : p[1][i] \in Byte
               /\ p[1] # tunGateway /\ p[1][4] # 0
               /\ \E u \in ServiceName : p[2] = Name(u)
        BY <1>5, MapTypes
    <2> QED
        BY <1>1, <1>8, <2>1 DEF IndInv, ClientTypeOK
<1>10. AsksItsAddress' /\ AsksLookedUp'
    BY <1>1 DEF IndInv, AsksItsAddress, AsksLookedUp
<1> QED
    BY <1>5, <1>7, <1>9, <1>10 DEF IndInv

\* A request that says what AsksItsAddress and AsksLookedUp say of every one.
LEMMA ClientAsks ==
    ASSUME IndInv, NEW a \in App, NEW r,
           r.service \in ServiceName, r.state \in State,
           \/ r.got = r.service
           \/ \E u \in ServiceName : r.got = Name(u) /\ IP(u) = IP(r.service)
           \/ r.state = "old" /\ r.got = IP(r.service),
           r.state = "bound" => r.got \in {r.service, Name(r.service)},
           asked' = [asked EXCEPT ![a] = {r}],
           UNCHANGED <<phase, device, toName, lookup, restarts>>
    PROVE  IndInv'
<1>1. DOMAIN asked = App
    BY DEF IndInv, ClientTypeOK
<1>2. /\ DOMAIN asked' = App /\ asked'[a] = {r}
      /\ \A b \in App : b # a => asked'[b] = asked[b]
    BY <1>1
<1>3. AsksItsAddress'
    <2>1. ASSUME NEW b \in App, NEW q \in asked'[b]
          PROVE  \/ q.got = q.service
                 \/ \E u \in ServiceName : q.got = Name(u) /\ IP(u) = IP(q.service)
                 \/ q.state = "old" /\ q.got = IP(q.service)
        <3>1. CASE b = a
            BY <1>2, <2>1, <3>1
        <3>2. CASE b # a
            <4>1. q \in asked[b]
                BY <1>2, <2>1, <3>2
            <4> QED
                BY <4>1 DEF IndInv, AsksItsAddress, IP
        <3> QED
            BY <3>1, <3>2
    <2> QED
        BY <2>1 DEF AsksItsAddress, IP
<1>4. ClientTypeOK'
    <2>1. ASSUME NEW b \in App, NEW q \in asked'[b]
          PROVE  q.service \in ServiceName /\ q.state \in State
        BY <1>2, <2>1 DEF IndInv, ClientTypeOK
    <2> QED
        BY <1>2, <2>1 DEF IndInv, ClientTypeOK
<1>5. MapInv'
    BY DEF IndInv, MapInv
<1>6. LookupInv'
    BY DEF IndInv, LookupInv
<1>7. AsksLookedUp'
    <2>1. ASSUME NEW b \in App, NEW q \in asked'[b], q.state = "bound"
          PROVE  q.got \in {q.service, Name(q.service)}
        <3>1. CASE b = a
            BY <1>2, <2>1, <3>1
        <3>2. CASE b # a
            BY <1>2, <2>1, <3>2 DEF IndInv, AsksLookedUp
        <3> QED
            BY <3>1, <3>2
    <2> QED
        BY <2>1 DEF AsksLookedUp
<1> QED
    BY <1>3, <1>4, <1>5, <1>6, <1>7 DEF IndInv

\* A restart: no answer is bound any more.
LEMMA ClientRestart ==
    ASSUME WellFormed, IndInv, Restart
    PROVE  IndInv'
<1> DEFINE L == [service : ServiceName, ip : Seq(Byte), state : State]
<1>1. /\ toName' = {} /\ phase' = "start" /\ restarts' = restarts + 1 /\ restarts < MaxRestarts
      /\ lookup' = [a \in App |-> {[l EXCEPT !.state = "old"] : l \in lookup[a]}]
      /\ UNCHANGED <<device, asked>>
    BY DEF Restart
<1>2. lookup \in [App -> SUBSET L] /\ restarts \in 0..MaxRestarts /\ MaxRestarts \in Nat
    BY SMTT(30) DEF IndInv, ClientTypeOK, WellFormed
<1>3. ASSUME NEW a \in App, NEW k \in lookup'[a]
      PROVE  k \in L /\ k.state = "old" /\ k.ip = IP(k.service)
    <2>1. PICK l \in lookup[a] : k = [l EXCEPT !.state = "old"]
        BY <1>1, <1>3
    <2>2. l \in L /\ l.ip = IP(l.service)
        BY <1>2 DEF IndInv, LookupInv, IP
    <2> QED
        BY <2>1, <2>2 DEF State
<1>4. lookup' \in [App -> SUBSET L]
    BY <1>1, <1>3
<1>5. restarts' \in 0..MaxRestarts
    BY <1>1, <1>2
<1>6. ClientTypeOK'
    BY <1>1, <1>4, <1>5 DEF IndInv, ClientTypeOK
<1>7. MapInv'
    BY <1>1 DEF MapInv
<1>8. LookupInv'
    BY <1>3 DEF LookupInv, IP
<1>9. AsksItsAddress' /\ AsksLookedUp'
    BY <1>1 DEF IndInv, AsksItsAddress, AsksLookedUp
<1> QED
    BY <1>6, <1>7, <1>8, <1>9 DEF IndInv

\* Every action of the client keeps the invariant.
LEMMA ClientStep ==
    ASSUME WellFormed, WithoutSuffix, IndInv, [ClientNext]_clientVars
    PROVE  IndInv'
<1>0. /\ ClientTypeOK /\ MapInv /\ LookupInv
      /\ phase \in {"start", "socks", "dns", "tun", "stopped", "failed"} /\ device \in BOOLEAN
      /\ phase \in {"start", "socks", "failed"} => toName = {}
    BY DEF IndInv, ClientTypeOK, MapInv
<1>1. CASE StartSocks
    BY <1>0, <1>1, ClientIdle DEF StartSocks
<1>2. CASE StartDNS
    <2>1. phase = "start" /\ phase' \in {"failed", "dns"}
          /\ UNCHANGED <<device, toName, lookup, asked, restarts>>
        BY <1>2 DEF StartDNS
    <2> QED
        BY <1>0, <2>1, ClientIdle
<1>11. CASE Fails
    BY <1>0, <1>11, ClientIdle DEF Fails
<1>3. CASE StartEngine
    BY <1>0, <1>3, ClientIdle DEF StartEngine
<1>4. CASE PostUp
    BY <1>0, <1>4, ClientIdle DEF PostUp
<1>5. CASE Stop
    BY <1>0, <1>5, ClientIdle DEF Stop
<1>6. CASE Restart
    BY <1>6, ClientRestart
<1>7. ASSUME NEW a \in App, ConnectIP(a)
      PROVE  IndInv'
    <2>1. PICK l \in lookup[a] :
              asked' = [asked EXCEPT ![a] = {[service |-> l.service, state |-> l.state,
                                              got |-> ServiceFor(l.ip)]}]
        BY <1>7 DEF ConnectIP
    <2>2. /\ l.service \in ServiceName /\ l.state \in State /\ l.ip = IP(l.service)
          /\ l.state = "bound" => <<IP(l.service), Name(l.service)>> \in toName
          /\ l.state = "taken" => \E p \in toName : p[1] = IP(l.service)
        <3>1. l.service \in ServiceName /\ l.state \in State
            BY <1>0 DEF ClientTypeOK
        <3>2. /\ l.ip = IP(l.service)
              /\ l.state = "bound" => <<l.ip, Name(l.service)>> \in toName
              /\ l.state = "taken" => \E p \in toName : p[1] = l.ip
            BY <1>0 DEF LookupInv, IP
        <3> QED
            BY <3>1, <3>2
    <2> DEFINE r == [service |-> l.service, state |-> l.state, got |-> ServiceFor(l.ip)]
    <2>3. /\ r.service = l.service /\ r.state = l.state
          /\ r.got = ServiceFor(IP(l.service))
        BY <2>2
    <2>4. asked' = [asked EXCEPT ![a] = {r}]
        BY <2>1
    <2>5. UNCHANGED <<phase, device, toName, lookup, restarts>>
        BY <1>7 DEF ConnectIP
    <2> HIDE DEF r
    <2>6. r.state = "bound" => r.got = Name(r.service)
        BY <1>0, <2>2, <2>3, ServiceForBound
    <2>7. \/ \E u \in ServiceName : r.got = Name(u) /\ IP(u) = IP(r.service)
          \/ r.state = "old" /\ r.got = IP(r.service)
        <3>1. CASE r.state = "bound"
            BY <2>2, <2>3, <2>6, <3>1
        <3>2. CASE r.state # "bound"
            <4>1. r.state = "taken" \/ r.state = "old"
                BY <2>2, <2>3, <3>2 DEF State
            <4> QED
                BY <1>0, <2>2, <2>3, <4>1, ServiceForAddress
        <3> QED
            BY <3>1, <3>2
    <2> QED
        BY <2>2, <2>3, <2>4, <2>5, <2>6, <2>7, ClientAsks
<1>8. ASSUME NEW a \in App, NEW s \in ServiceName, ConnectName(a, s)
      PROVE  IndInv'
    <2>1. PICK host \in {s, Name(s)} :
              asked' = [asked EXCEPT ![a] = {[service |-> s, state |-> "bound",
                                              got |-> ServiceFor(host)]}]
        BY <1>8 DEF ConnectName
    <2>2. toName = {} /\ UNCHANGED <<phase, device, toName, lookup, restarts>>
        BY <1>0, <1>8 DEF ConnectName
    <2>3. ServiceFor(host) = s
        BY <2>2, ServiceForName
    <2> DEFINE r == [service |-> s, state |-> "bound", got |-> s]
    <2>4. /\ asked' = [asked EXCEPT ![a] = {r}]
          /\ r.service = s /\ r.state \in State /\ r.got = s
        BY <2>1, <2>3 DEF State
    <2> HIDE DEF r
    <2> QED
        BY <2>2, <2>4, ClientAsks
<1>9. ASSUME NEW a \in App, NEW s \in ServiceName, Query(a, s)
      PROVE  IndInv'
    BY <1>9, ClientQuery
<1>10. CASE UNCHANGED clientVars
    BY <1>0, <1>10, ClientIdle DEF clientVars
<1> QED
    BY <1>1, <1>2, <1>3, <1>4, <1>5, <1>6, <1>7, <1>8, <1>9, <1>10, <1>11 DEF ClientNext

\* ztm-client, for any service names without the suffix and whatever hash: the map
\* binds addresses to names that have them, answers are these addresses, and what is
\* asked for has the address of what was looked up.
THEOREM ClientInvariance ==
    ASSUME WithoutSuffix
    PROVE  ClientSpec => []IndInv
<1>1. ClientInit => IndInv
    <2> SUFFICES ASSUME ClientInit PROVE IndInv
        OBVIOUS
    <2>1. /\ phase = "start" /\ device = FALSE /\ toName = {} /\ restarts = 0
          /\ lookup = [a \in App |-> {}] /\ asked = [a \in App |-> {}]
        BY DEF ClientInit
    <2>2. MaxRestarts \in Nat
        BY TunClientAssumption, SMTT(30) DEF WellFormed
    <2>3. MapInv
        BY <2>1 DEF MapInv
    <2>4. LookupInv /\ AsksItsAddress /\ AsksLookedUp
        BY <2>1 DEF LookupInv, AsksItsAddress, AsksLookedUp
    <2>5. ClientTypeOK
        <3>1. device \in BOOLEAN
            BY <2>1
        <3>2. phase \in {"start", "socks", "dns", "tun", "stopped", "failed"}
              /\ restarts \in 0..MaxRestarts
            BY <2>1, <2>2
        <3>3. /\ lookup \in [App -> SUBSET [service : ServiceName, ip : Seq(Byte), state : State]]
              /\ DOMAIN asked = App /\ \A a \in App : asked[a] = {}
            BY <2>1
        <3> QED
            BY <2>1, <3>1, <3>2, <3>3 DEF ClientTypeOK
    <2> QED
        BY <2>3, <2>4, <2>5 DEF IndInv
<1>2. IndInv /\ [ClientNext]_clientVars => IndInv'
    BY TunClientAssumption, ClientStep
<1> QED
    BY <1>1, <1>2, PTL DEF ClientSpec

\* tunnelOpener, registerVirtualService: whether or not names share addresses, a
\* connection asks for the service that its application looked up, until the client is
\* started again or a name with the same address is looked up.
THEOREM AsksLookedUpHolds ==
    ASSUME WithoutSuffix
    PROVE  ClientSpec => []AsksLookedUp
<1>1. IndInv => AsksLookedUp
    BY DEF IndInv
<1> QED
    BY <1>1, ClientInvariance, PTL
=============================================================================
