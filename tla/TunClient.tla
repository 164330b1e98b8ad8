------------------------------ MODULE TunClient ------------------------------
(***************************************************************************)
(* ztm-client (internal/client): the DNS responder of TUN mode that gives  *)
(* virtual addresses to *.ztm names, the map from addresses back to names, *)
(* the TUN device, and the opener that turns the target of a connection    *)
(* into the service name of a CONNECT request.                             *)
(*                                                                         *)
(* A name is its sequence of bytes, since its address is a hash of them;   *)
(* an address is its four bytes.  virtualServiceToIP is written together   *)
(* with the other map and never read, so it is not part of the state.      *)
(***************************************************************************)
EXTENDS Integers, Sequences

CONSTANTS
    ServiceName,  \* names of services, without the suffix
    App,          \* applications on the client's host
    DNSOnGateway, \* --tun-dns is the device's own address, as by default
    WholeRange,   \* --tun-cidr is 100.127.0.0/16; by default 100.127.0.0/24
    MaxRestarts,  \* bound on restarts of the client
    Hash          \* Hash[name]: the low 16 bits of fnv1a32(name)

Suffix == <<46, 122, 116, 109>>    \* ".ztm"

\* The name in a DNS question, without the final dot.
Name(s) == s \o Suffix

Byte == {b \in Nat : b < 256}

WellFormed ==
    /\ ServiceName \subseteq Seq(Byte)
    /\ \A s \in ServiceName : Hash[Name(s)] \in Nat /\ Hash[Name(s)] < 65536
    /\ DNSOnGateway \in BOOLEAN /\ WholeRange \in BOOLEAN /\ MaxRestarts \in Nat

ASSUME TunClientAssumption == WellFormed

VARIABLES
    phase,     \* of Agent.Run
    device,    \* the device is there, with its address and its route
    toName,    \* virtualIPToServiceName, as a set of pairs <<address, name>>
    lookup,    \* per application, the lookups whose answers it keeps, and whether the
               \* address is "bound" to the name, "taken" by another, or "old"
    asked,     \* per application, what its last connection asked the node for
    restarts

clientVars == <<phase, device, toName, lookup, asked, restarts>>
-----------------------------------------------------------------------------
\* A byte with the bit of 2 set.
Or2(b) == IF (b \div 2) % 2 = 1 THEN b ELSE b + 2

\* Slip: the last byte may be the gateway's.
PlainIP(name) == <<100, 127, Hash[name] \div 256, Hash[name] % 256>>

virtualIPForService(name) == <<100, 127, Hash[name] \div 256, Or2(Hash[name] % 256)>>

\* tunGateway: the address that the device is given.
tunGateway == <<100, 127, 0, 1>>

\* The route sends it to the device.
InCIDR(ip) == WholeRange \/ ip[3] = 0

\* Slip: the first name keeps the address.
registerFirst(name, ip) ==
    IF \E p \in toName : p[1] = ip THEN toName ELSE toName \cup {<<ip, name>>}

\* registerVirtualService: a later name takes the address over.
registerVirtualService(name, ip) ==
    {p \in toName : p[1] # ip} \cup {<<ip, name>>}

HasSuffix(s) ==
    Len(s) >= Len(Suffix) /\ SubSeq(s, Len(s) - Len(Suffix) + 1, Len(s)) = Suffix

\* proxy.ServiceNameFromHost.
ServiceNameFromHost(host) ==
    IF HasSuffix(host) THEN SubSeq(host, 1, Len(host) - Len(Suffix)) ELSE host

\* tunnelOpener: the service asked for when the target is host, which is a name
\* or an address.
ServiceFor(host) ==
    LET names == {p[2] : p \in {q \in toName : q[1] = host}}
    IN  IF names # {} THEN CHOOSE n \in names : TRUE ELSE ServiceNameFromHost(host)
-----------------------------------------------------------------------------
ClientInit ==
    /\ phase = "start" /\ device = FALSE /\ toName = {}
    /\ lookup = [a \in App |-> {}] /\ asked = [a \in App |-> {}]
    /\ restarts = 0

\* runSocks: without --tun, applications use the SOCKS5 listener themselves.
StartSocks ==
    /\ phase = "start" /\ phase' = "socks"
    /\ UNCHANGED <<device, toName, lookup, asked, restarts>>

\* Run returns an error: a certificate cannot be loaded, the node not be reached, an
\* address not be listened on, or --tun-cidr is no IPv4 prefix.
Fails ==
    /\ phase \in {"start", "dns"} /\ phase' = "stopped"
    /\ UNCHANGED <<device, toName, lookup, asked, restarts>>

\* startTUNDNS: an address that no interface has cannot be listened on, and
\* runTUN returns.
StartDNS ==
    /\ phase = "start"
    /\ phase' = IF DNSOnGateway /\ ~device THEN "failed" ELSE "dns"
    /\ UNCHANGED <<device, toName, lookup, asked, restarts>>

\* The engine is started in a goroutine; runTUN then waits for the context.
StartEngine ==
    /\ phase = "dns" /\ phase' = "tun"
    /\ UNCHANGED <<device, toName, lookup, asked, restarts>>

\* TUNPostUp: the device gets its address and its route.
PostUp ==
    /\ phase = "tun" /\ ~device /\ device' = TRUE
    /\ UNCHANGED <<phase, toName, lookup, asked, restarts>>

\* An answer kept by an application while the address is bound to the name of s.
AfterBinding(l, s, ip) ==
    IF l.state = "bound" /\ l.ip = ip /\ l.service # s THEN [l EXCEPT !.state = "taken"] ELSE l

\* The DNS handler answers a question for the address of a *.ztm name.  The
\* application keeps its last answer.
Query(a, s) ==
    /\ phase \in {"dns", "tun"}
    /\ LET ip == virtualIPForService(Name(s))
       IN  /\ toName' = registerVirtualService(Name(s), ip)
           /\ lookup' = [b \in App |->
                 IF b = a THEN {[service |-> s, ip |-> ip, state |-> "bound"]}
                          ELSE {AfterBinding(l, s, ip) : l \in lookup[b]}]
    /\ UNCHANGED <<phase, device, asked, restarts>>

\* A connection to the address of the answer: the engine makes it a SOCKS5
\* CONNECT to that address.
ConnectIP(a) ==
    /\ device
    /\ \E l \in lookup[a] :
          /\ InCIDR(l.ip)
          /\ asked' = [asked EXCEPT ![a] =
                {[service |-> l.service, state |-> l.state, got |-> ServiceFor(l.ip)]}]
    /\ UNCHANGED <<phase, device, toName, lookup, restarts>>

\* A SOCKS5 CONNECT to a name, with or without the suffix.
ConnectName(a, s) ==
    /\ phase = "socks"
    /\ \E host \in {s, Name(s)} :
          asked' = [asked EXCEPT ![a] =
                {[service |-> s, state |-> "bound", got |-> ServiceFor(host)]}]
    /\ UNCHANGED <<phase, device, toName, lookup, restarts>>

\* The context is cancelled: the engine, the responder and the listener stop.
Stop ==
    /\ phase \in {"socks", "tun"} /\ phase' = "stopped" /\ device' = FALSE
    /\ UNCHANGED <<toName, lookup, asked, restarts>>

\* The client is started again with an empty map.  Applications keep the
\* address that they were given.
Restart ==
    /\ phase = "stopped" /\ restarts < MaxRestarts
    /\ restarts' = restarts + 1
    /\ phase' = "start" /\ toName' = {}
    /\ lookup' = [a \in App |-> {[l EXCEPT !.state = "old"] : l \in lookup[a]}]
    /\ UNCHANGED <<device, asked>>

ClientNext ==
    \/ StartSocks \/ Fails \/ StartDNS \/ StartEngine \/ PostUp \/ Stop \/ Restart
    \/ \E a \in App :
          ConnectIP(a) \/ \E s \in ServiceName : Query(a, s) \/ ConnectName(a, s)

ClientSpec == ClientInit /\ [][ClientNext]_clientVars
-----------------------------------------------------------------------------
State == {"bound", "taken", "old"}

\* Types: the addresses that virtualIPForService gives out are made of bytes, and
\* since it sets a bit of the last one, none is the device's or the network's.
ClientTypeOK ==
    /\ phase \in {"start", "socks", "dns", "tun", "stopped", "failed"}
    /\ device \in BOOLEAN
    /\ \A p \in toName :
          /\ DOMAIN p[1] = 1..4 /\ \A i \in 1..4 : p[1][i] \in Byte
          /\ p[1] # tunGateway /\ p[1][4] # 0
    /\ \A p \in toName : \E s \in ServiceName : p[2] = Name(s)
    /\ lookup \in [App -> SUBSET [service : ServiceName, ip : Seq(Byte), state : State]]
    /\ DOMAIN asked = App
    /\ \A a \in App :
          \A r \in asked[a] : r.service \in ServiceName /\ r.state \in State
    /\ restarts \in 0..MaxRestarts

\* tunnelOpener, registerVirtualService, for names that may share addresses: however
\* lookups and connections of applications interleave, a connection asks the node for
\* the name that its application looked up, until the client is started again or a name
\* with the same address is looked up.
AsksLookedUp ==
    \A a \in App : \A r \in asked[a] :
        r.state = "bound" => r.got \in {r.service, Name(r.service)}

\* tunnelOpener: a connection asks the node for the name that its application looked up
\* or, with an answer from before a restart, for the text of its address; never for the
\* name of another service.
AsksItsName ==
    \A a \in App : \A r \in asked[a] :
        \/ r.got \in {r.service, Name(r.service)}
        \/ r.state = "old" /\ r.got = virtualIPForService(Name(r.service))

\* "ServiceNameFromHost maps SOCKS target host to logical service name": what is
\* asked for is a service, without the suffix.
AsksService ==
    \A a \in App : \A r \in asked[a] : r.state = "bound" => r.got = r.service

\* "full-tunnel via virtual 100.127.0.0/24": the addresses that the responder
\* gives are addresses that the route sends to the device.
Routed == \A a \in App : \A l \in lookup[a] : InCIDR(l.ip)

\* "DNS listen address for *.ztm resolution": the responder starts.
Resolves == phase # "failed"
-----------------------------------------------------------------------------
(* What the invariants rest on.                                            *)

\* The name of a service is written without the suffix.
WithoutSuffix == \A s \in ServiceName : ~HasSuffix(s)

\* The map is empty until names are looked up, and binds each address to one name,
\* that has it.
MapInv ==
    /\ phase \in {"start", "socks", "failed"} => toName = {}
    /\ \A p, q \in toName : p[1] = q[1] => p = q
    /\ \A p \in toName :
          \E s \in ServiceName : p = <<virtualIPForService(Name(s)), Name(s)>>

\* An answer is the address of the name; that of a running client is bound, and to
\* the name unless another has taken it.
LookupInv ==
    \A a \in App : \A l \in lookup[a] :
        /\ l.ip = virtualIPForService(Name(l.service))
        /\ l.state = "bound" => <<l.ip, Name(l.service)>> \in toName
        /\ l.state = "taken" => \E p \in toName : p[1] = l.ip

\* tunnelOpener, for any names: a connection asks for the service, for a name with
\* the same address as the name that was looked up, or, with an old answer, for the
\* text of that address.
AsksItsAddress ==
    \A a \in App : \A r \in asked[a] :
        LET ip == virtualIPForService(Name(r.service))
        IN  \/ r.got = r.service
            \/ \E s \in ServiceName : r.got = Name(s) /\ virtualIPForService(Name(s)) = ip
            \/ r.state = "old" /\ r.got = ip

\* The inductive invariant.
IndInv == ClientTypeOK /\ MapInv /\ LookupInv /\ AsksItsAddress /\ AsksLookedUp
=============================================================================
