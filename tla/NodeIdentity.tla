---------------------------- MODULE NodeIdentity ----------------------------
(***************************************************************************)
(* The data directory of nodes: the CA, node and client certificates, the  *)
(* gossip secret and the signing keys, as the processes that are started   *)
(* on it read and write them: a node (agent.New and Agent.Run), "ztm-node  *)
(* join" (identity.InstallFromJoin), "ztm-node push-policy", "ztm-node     *)
(* enroll-client" and a client (client.Agent).  Each file is written in    *)
(* place: it is truncated first, and a process that ends there leaves it   *)
(* torn.  Several nodes may share a directory, as those of the integration *)
(* tests do, one process starting after the other.  What a file holds is   *)
(* named after the run that made it.                                       *)
(***************************************************************************)
EXTENDS Integers, Sequences, FiniteSets

CONSTANTS
    Node,
    Client,
    Run,        \* runs of ztm-node and ztm-client on the directory
    IdOf,       \* IdOf[r]: the --node-id or the --client-id of run r
    Kind,       \* Kind[r]: "node", "join", "push", "enroll" or "connect"
    ClusterOf,  \* ClusterOf[r]: the --cluster of run r
    Remote,     \* the maker of what JoinCluster hands out: the bootstrap node
    Missing,    \* no such file
    Torn,       \* a file that was truncated and not written
    MaxCrashes,
    MaxExpired  \* bound on the certificates whose NotAfter passes

ASSUME NodeIdentityAssumption ==
    /\ Node \cap Client = {} /\ IdOf \in [Run -> Node \cup Client]
    /\ Kind \in [Run -> {"node", "join", "push", "enroll", "connect"}]
    /\ \A r \in Run : IdOf[r] \in Client <=> Kind[r] \in {"enroll", "connect"}
    /\ DOMAIN ClusterOf = Run /\ MaxCrashes \in Nat /\ MaxExpired \in Nat
    /\ Remote \notin Run /\ Missing \notin Run \cup {Remote} /\ Torn \notin Run \cup {Remote}
    /\ Missing # Torn

\* ca/cert.pem, ca/key.pem, gossip.key; nodes/<id>/cert.pem, key.pem and the
\* signing key; clients/<id>/cert.pem and key.pem.
CACert == <<"all", "ca">>
CAKey == <<"all", "ca key">>
GossipKey == <<"all", "gossip">>
Cert(n) == <<n, "cert">>
Key(n) == <<n, "key">>
SignKey(n) == <<n, "sign">>

File == {CACert, CAKey, GossipKey} \cup {SignKey(n) : n \in Node}
            \cup {Cert(x) : x \in Node \cup Client} \cup {Key(x) : x \in Node \cup Client}
Maker == Run \cup {Remote}
Joins == {r \in Run : Kind[r] = "join"}

VARIABLES
    file,       \* file[f]: who made what f holds, Missing or Torn
    signer,     \* signer[x]: the maker of the CA that signed the certificate made by x
    expired,    \* the makers of the certificates that have expired
    phase,      \* phase[r]: how far the start of run r has come
    job,        \* job[r]: the writes before the next phase: file and maker
    held,       \* held[r]: the makers of what run r has in memory
    crashes

vars == <<file, signer, expired, phase, job, held, crashes>>

Phase == {"idle", "ca", "node", "tls", "gossip", "sign", "client", "load", "dial",
          "up", "joined", "pushed", "enrolled", "failed", "stopped"}
Nothing == [ca |-> Missing, caKey |-> Missing, cert |-> Missing, gossip |-> Missing,
            sign |-> Missing]
Memory ==
    LET Part == Maker \cup {Missing} IN
    [ca : Part, caKey : Part, cert : Part, gossip : Part, sign : Part]

TypeOK ==
    /\ file \in [File -> Maker \cup {Missing, Torn}]
    /\ signer \in [Maker -> Maker] /\ expired \subseteq Maker
    /\ phase \in [Run -> Phase]
    /\ job \in [Run -> Seq(File \X Maker)]
    /\ held \in [Run -> Memory]
    /\ crashes \in 0..MaxCrashes

Init ==
    /\ file = [f \in File |-> Missing]
    /\ signer = [x \in Maker |-> x] /\ expired = {}
    /\ phase = [r \in Run |-> "idle"]
    /\ job = [r \in Run |-> <<>>]
    /\ held = [r \in Run |-> Nothing]
    /\ crashes = 0
-----------------------------------------------------------------------------
Starting(r) ==
    phase[r] \in {"ca", "node", "tls", "gossip", "sign", "client", "load", "dial"} \/ job[r] # <<>>
Complete(f) == file[f] \in Maker

\* The run goes on to a phase, after some writes.
GoOn(r, ph, writes) ==
    /\ phase' = [phase EXCEPT ![r] = ph]
    /\ job' = [job EXCEPT ![r] = writes]

\* A node, or a command that opens the directory like one, is started.  A run of
\* a node that runs already would find its ports in use.
Start(r) ==
    /\ phase[r] = "idle" /\ \A s \in Run : ~Starting(s)
    /\ Kind[r] = "node" => \A s \in Run : IdOf[s] = IdOf[r] => phase[s] # "up"
    /\ Kind[r] \in {"node", "push", "enroll"}
    /\ GoOn(r, "ca", <<>>)
    /\ UNCHANGED <<file, signer, expired, held, crashes>>

\* InstallFromJoin: the CA certificate without its key, the node's certificate
\* and key, and the gossip secret of the bootstrap node.
InstallFromJoin(r) ==
    /\ phase[r] = "idle" /\ \A s \in Run : ~Starting(s)
    /\ r \in Joins
    /\ GoOn(r, "joined", <<<<CACert, Remote>>, <<Cert(IdOf[r]), Remote>>,
                           <<Key(IdOf[r]), Remote>>, <<GossipKey, Remote>>>>)
    /\ UNCHANGED <<file, signer, expired, held, crashes>>

\* os.WriteFile, first half: the file is truncated.
Truncate(r) ==
    /\ job[r] # <<>> /\ file[Head(job[r])[1]] # Torn
    /\ file' = [file EXCEPT ![Head(job[r])[1]] = Torn]
    /\ UNCHANGED <<signer, expired, phase, job, held, crashes>>

\* os.WriteFile, second half: the file is written.
WriteFile(r) ==
    /\ job[r] # <<>> /\ file[Head(job[r])[1]] = Torn
    /\ file' = [file EXCEPT ![Head(job[r])[1]] = Head(job[r])[2]]
    /\ job' = [job EXCEPT ![r] = Tail(@)]
    /\ UNCHANGED <<signer, expired, phase, held, crashes>>

At(r, ph) == phase[r] = ph /\ job[r] = <<>>

Fail(r) ==
    /\ GoOn(r, "failed", <<>>)
    /\ UNCHANGED <<file, signer, expired, held, crashes>>

\* What follows identity.Open: EnsureNodeCert or EnsureClientCert.
AfterOpen(r) == IF Kind[r] = "enroll" THEN "client" ELSE "node"

\* Slips: the CA is made anew whenever its key is not there, or always.
CreatesWithoutKey == file[CACert] = Missing \/ file[CAKey] = Missing
CreatesAnew == TRUE

\* loadOrCreateCA makes a CA only when there is no certificate.
CreatesCA == file[CACert] = Missing

\* loadOrCreateCA: the CA is made, certificate first, or read; that the two
\* files belong together is not looked at.
LoadOrCreateCA(r) ==
    /\ At(r, "ca")
    /\ \/ /\ CreatesCA
          /\ GoOn(r, AfterOpen(r), <<<<CACert, r>>, <<CAKey, r>>>>)
          /\ held' = [held EXCEPT ![r].ca = r, ![r].caKey = r]
       \/ /\ ~CreatesCA /\ Complete(CACert) /\ Complete(CAKey)
          /\ GoOn(r, AfterOpen(r), <<>>)
          /\ held' = [held EXCEPT ![r].ca = file[CACert], ![r].caKey = file[CAKey]]
    /\ UNCHANGED <<file, signer, expired, crashes>>

\* loadOrCreateCA fails: a file does not parse, or the key is missing, when the
\* PEM text of the certificate is parsed as if it were DER.
LoadCAFails(r) ==
    /\ At(r, "ca") /\ ~CreatesCA
    /\ ~(Complete(CACert) /\ Complete(CAKey))
    /\ Fail(r)

\* EnsureNodeCert issues a certificate only when there is none.
IssuesCert(n) == file[Cert(n)] = Missing

\* Slip: the certificate is issued before the CA has been read.
EnsureNodeCertUnchecked(r) ==
    /\ phase[r] \in {"ca", "node"} /\ job[r] = <<>>
    /\ GoOn(r, "tls", <<<<Cert(IdOf[r]), r>>, <<Key(IdOf[r]), r>>>>)
    /\ signer' = [signer EXCEPT ![r] = held[r].ca]
    /\ UNCHANGED <<file, expired, held, crashes>>

\* EnsureNodeCert: a certificate is issued, and written before its key.
EnsureNodeCert(r) ==
    LET n == IdOf[r] IN
    /\ At(r, "node") /\ (IssuesCert(n) => held[r].ca = held[r].caKey)
    /\ IF IssuesCert(n)
         THEN /\ GoOn(r, "tls", <<<<Cert(n), r>>, <<Key(n), r>>>>)
              /\ signer' = [signer EXCEPT ![r] = held[r].ca]
         ELSE GoOn(r, "tls", <<>>) /\ UNCHANGED signer
    /\ UNCHANGED <<file, expired, held, crashes>>

\* x509.CreateCertificate refuses a key that is not the CA certificate's.
EnsureNodeCertFails(r) ==
    /\ At(r, "node") /\ IssuesCert(IdOf[r]) /\ held[r].ca # held[r].caKey
    /\ Fail(r)

\* TLSConfig of a node and RPCTLSConfig of a push: the certificate and its key
\* are read, and must belong together.
TLSConfig(r) ==
    LET n == IdOf[r] IN
    /\ At(r, "tls") /\ Complete(Cert(n)) /\ file[Key(n)] = file[Cert(n)]
    /\ held' = [held EXCEPT ![r].cert = file[Cert(n)]]
    /\ GoOn(r, IF Kind[r] = "push" THEN "pushed" ELSE "gossip", <<>>)
    /\ UNCHANGED <<file, signer, expired, crashes>>

TLSConfigFails(r) ==
    LET n == IdOf[r] IN
    /\ At(r, "tls") /\ ~(Complete(Cert(n)) /\ file[Key(n)] = file[Cert(n)])
    /\ Fail(r)

\* Slip: a new gossip secret is not saved.
LoadOrForgetKey(r) ==
    /\ At(r, "gossip")
    /\ GoOn(r, "sign", <<>>)
    /\ held' = [held EXCEPT ![r].gossip = IF Complete(GossipKey) THEN file[GossipKey] ELSE r]
    /\ UNCHANGED <<file, signer, expired, crashes>>

\* LoadOrCreateKey: a gossip secret that is missing or torn is replaced.
LoadOrCreateKey(r) ==
    /\ At(r, "gossip")
    /\ IF Complete(GossipKey)
         THEN GoOn(r, "sign", <<>>) /\ held' = [held EXCEPT ![r].gossip = file[GossipKey]]
         ELSE GoOn(r, "sign", <<<<GossipKey, r>>>>) /\ held' = [held EXCEPT ![r].gossip = r]
    /\ UNCHANGED <<file, signer, expired, crashes>>

\* Slip: the signing key is replaced like the gossip secret.
SignsAnew(n) == TRUE

\* EnsureGossipSigner makes a signing key only when there is none.
MakesSigner(n) == file[SignKey(n)] = Missing

\* EnsureGossipSigner, the last file of a start.
EnsureGossipSigner(r) ==
    LET n == IdOf[r] IN
    /\ At(r, "sign")
    /\ \/ /\ MakesSigner(n)
          /\ GoOn(r, "up", <<<<SignKey(n), r>>>>)
          /\ held' = [held EXCEPT ![r].sign = r]
       \/ /\ ~MakesSigner(n) /\ Complete(SignKey(n))
          /\ GoOn(r, "up", <<>>)
          /\ held' = [held EXCEPT ![r].sign = file[SignKey(n)]]
    /\ UNCHANGED <<file, signer, expired, crashes>>

\* EnsureGossipSigner fails: the key has the wrong length.
SignerFails(r) ==
    /\ At(r, "sign") /\ file[SignKey(IdOf[r])] = Torn
    /\ Fail(r)

\* EnsureClientCert: as for a node, with a certificate of one day; whether the
\* one that is there has expired, or has its key, is not looked at.
EnsureClientCert(r) ==
    LET c == IdOf[r] IN
    /\ At(r, "client") /\ (IssuesCert(c) => held[r].ca = held[r].caKey)
    /\ IF IssuesCert(c)
         THEN /\ GoOn(r, "enrolled", <<<<Cert(c), r>>, <<Key(c), r>>>>)
              /\ signer' = [signer EXCEPT ![r] = held[r].ca]
         ELSE GoOn(r, "enrolled", <<>>) /\ UNCHANGED signer
    /\ UNCHANGED <<file, expired, held, crashes>>

EnsureClientCertFails(r) ==
    /\ At(r, "client") /\ IssuesCert(IdOf[r]) /\ held[r].ca # held[r].caKey
    /\ Fail(r)

\* ztm-client is started with --data-dir and --client-id.
StartClient(r) ==
    /\ phase[r] = "idle" /\ \A s \in Run : ~Starting(s)
    /\ Kind[r] = "connect"
    /\ GoOn(r, "load", <<>>)
    /\ UNCHANGED <<file, signer, expired, held, crashes>>

\* LoadClientTLSConfig: the certificate and the key, which belong together, and
\* the CA, that ClientCertPaths names.
Loads(r) ==
    LET c == IdOf[r] IN
    Complete(Cert(c)) /\ file[Key(c)] = file[Cert(c)] /\ Complete(CACert)

LoadClientTLSConfig(r) ==
    /\ At(r, "load") /\ Loads(r)
    /\ held' = [held EXCEPT ![r].cert = file[Cert(IdOf[r])], ![r].ca = file[CACert]]
    /\ GoOn(r, "dial", <<>>)
    /\ UNCHANGED <<file, signer, expired, crashes>>

LoadClientFails(r) ==
    /\ At(r, "load") /\ ~Loads(r)
    /\ Fail(r)

\* The certificate that x made has the URI of a client of the cluster.
ParseClientID(cluster, x) == x \in Run /\ IdOf[x] \in Client /\ ClusterOf[x] = cluster

\* TLS: a certificate is signed by the CA of the other end and has not expired.
Verifies(x, ca) == signer[x] = ca /\ x \notin expired

\* The handshake of client r and node s, under the name "localhost" or a loopback
\* address, which are those in a node's certificate.
Accepts(r, s) ==
    /\ Verifies(held[r].cert, held[s].ca) /\ ParseClientID(ClusterOf[s], held[r].cert)
    /\ Verifies(held[s].cert, held[r].ca)

\* tunnel.Dial to a node that is up.
Dial(r, s) ==
    /\ At(r, "dial") /\ At(s, "up") /\ Kind[s] = "node"
    /\ Accepts(r, s) /\ GoOn(r, "up", <<>>)
    /\ UNCHANGED <<file, signer, expired, held, crashes>>

\* It fails: the node is not up, or one end refuses the other.
DialFails(r, s) ==
    /\ At(r, "dial") /\ Kind[s] = "node" /\ (At(s, "up") => ~Accepts(r, s))
    /\ Fail(r)

\* The NotAfter of a certificate that some file holds passes.
Expire(x) ==
    /\ \E i \in Node \cup Client : file[Cert(i)] = x
    /\ x \notin expired /\ expired' = expired \cup {x}
    /\ Cardinality(expired) < MaxExpired
    /\ UNCHANGED <<file, signer, phase, job, held, crashes>>

Stop(r) ==
    /\ At(r, "up")
    /\ GoOn(r, "stopped", <<>>)
    /\ UNCHANGED <<file, signer, expired, held, crashes>>

\* The process ends in the middle of its start.
Crash(r) ==
    /\ Starting(r) /\ crashes < MaxCrashes
    /\ GoOn(r, "stopped", <<>>)
    /\ held' = [held EXCEPT ![r] = Nothing]
    /\ crashes' = crashes + 1
    /\ UNCHANGED <<file, signer, expired>>

Next ==
    \E r \in Run :
        \/ Start(r) \/ InstallFromJoin(r) \/ Truncate(r) \/ WriteFile(r)
        \/ LoadOrCreateCA(r) \/ LoadCAFails(r) \/ EnsureNodeCert(r)
        \/ EnsureNodeCertFails(r)
        \/ TLSConfig(r) \/ TLSConfigFails(r) \/ LoadOrCreateKey(r)
        \/ EnsureGossipSigner(r) \/ SignerFails(r)
        \/ EnsureClientCert(r) \/ EnsureClientCertFails(r)
        \/ StartClient(r) \/ LoadClientTLSConfig(r) \/ LoadClientFails(r)
        \/ (\E s \in Run : Dial(r, s) \/ DialFails(r, s))
        \/ Expire(r) \/ Stop(r) \/ Crash(r)

Spec == Init /\ [][Next]_vars
-----------------------------------------------------------------------------
\* A node, a push or a client that got through its start, with what it had.
Ran(r) == held[r].cert # Missing /\ phase[r] \in {"up", "pushed", "stopped"}

\* A join has begun: it installs what another directory made.
Joined == \E r \in Joins : phase[r] # "idle"

\* identity.Open, EnsureNodeCert, LoadOrCreateKey: nodes and pushes on one directory
\* that no join has changed, whatever starts and commands were cut off before,
\* between or after, trust one CA, which signed the certificates of all of them,
\* and the nodes share one gossip secret.
OneTrust ==
    \A r, s \in Run : (~Joined /\ Ran(r) /\ Ran(s) /\ {IdOf[r], IdOf[s]} \subseteq Node) =>
        /\ held[r].ca = held[s].ca /\ signer[held[r].cert] = held[s].ca
        /\ (Kind[r] = "node" /\ Kind[s] = "node") => held[r].gossip = held[s].gossip

\* EnsureNodeCert, EnsureGossipSigner, EnsureClientCert: a node or a client that
\* starts again has the certificate, and the node the signing key, under which
\* the others know it, unless a join replaced it.
KeepsIdentity ==
    \A r, s \in Run : (~Joined /\ Ran(r) /\ Ran(s) /\ IdOf[r] = IdOf[s]) =>
        held[r].cert = held[s].cert /\ (Kind[r] = Kind[s] => held[r].sign = held[s].sign)

\* EnsureClientCert, LoadClientTLSConfig, TunnelServerTLSConfig: a client that has
\* read its files and dials a node that is up is refused only when a certificate
\* has expired, it was enrolled for another cluster than the node's, or a join has
\* replaced the CA, whatever was cut off, and in whatever order nodes were started and
\* the client enrolled.
EnrolledConnects ==
    \A r, s \in Run : (~Joined /\ At(r, "dial") /\ At(s, "up") /\ Kind[s] = "node") =>
        \/ Accepts(r, s) \/ ClusterOf[held[r].cert] # ClusterOf[s]
        \/ {held[r].cert, held[s].cert} \cap expired # {}

\* InstallFromJoin: what a join installed is replaced by another join only, never
\* by a start, whether or not that start gets through.
StartKeepsJoined ==
    [][\A f \in File : (file[f] = Remote /\ file'[f] # Remote) =>
           \E r \in Joins : job[r] # <<>> /\ Head(job[r])[1] = f]_vars

\* ca.go:35: "Open loads or creates a CA in dir and prepares node certificate
\* issuance.", and ca.go:222: "EnsureNodeCert loads or issues a node certificate
\* for nodeID."  A start gets through, also after one that was cut off.
StartsAgain == \A r \in Run : Kind[r] = "node" => phase[r] # "failed"

\* cmd/ztm-node/main.go:389: "start with:", after a join.  The start that the
\* command names gets through.
JoinedStarts ==
    \A r, s \in Run : (phase[s] = "joined" /\ job[s] = <<>> /\ IdOf[r] = IdOf[s]) =>
        phase[r] # "failed"

\* cmd/ztm-node/main.go:258: "enrolled client", and identity/client.go:34:
\* "EnsureClientCert loads or issues a client certificate."  What the command
\* reports the client to be enrolled with can be used.
EnrolledUsable ==
    [][\A r \in Run : (At(r, "enrolled")' /\ ~At(r, "enrolled")) =>
           LET c == IdOf[r] IN
           Complete(Cert(c))' /\ file'[Key(c)] = file'[Cert(c)] /\ file'[Cert(c)] \notin expired]_vars
-----------------------------------------------------------------------------
(* What the invariants rest on.                                            *)

\* Starts on one directory follow one another.
OneStarts == \A r, s \in Run : Starting(r) /\ Starting(s) => r = s

\* The phases that a run of each kind goes through.
PhaseOf(r) ==
    /\ Kind[r] = "node" => phase[r] \in {"idle", "ca", "node", "tls", "gossip", "sign", "up",
                                         "failed", "stopped"}
    /\ Kind[r] = "push" => phase[r] \in {"idle", "ca", "node", "tls", "pushed", "failed", "stopped"}
    /\ Kind[r] = "enroll" => phase[r] \in {"idle", "ca", "client", "enrolled", "failed", "stopped"}
    /\ Kind[r] = "connect" => phase[r] \in {"idle", "load", "dial", "up", "failed", "stopped"}
    /\ Kind[r] = "join" => phase[r] \in {"idle", "joined", "stopped"}

\* Two files that are written in this order, or what is left of that.
Both(r, f, g) == {<<<<f, r>>, <<g, r>>>>, <<<<g, r>>>>}
CertJobs(r) == Both(r, Cert(IdOf[r]), Key(IdOf[r]))
JoinJobs(n) ==
    LET a == <<CACert, Remote>>
        b == <<Cert(n), Remote>>
        c == <<Key(n), Remote>>
        d == <<GossipKey, Remote>>
    IN  {<<a, b, c, d>>, <<b, c, d>>, <<c, d>>, <<d>>}

\* What a run may have before it in a phase.
JobOf(r) == job[r] # <<>> =>
    \/ phase[r] \in {"node", "client"} /\ job[r] \in Both(r, CACert, CAKey)
    \/ phase[r] \in {"tls", "enrolled"} /\ job[r] \in CertJobs(r)
    \/ phase[r] = "sign" /\ job[r] = <<<<GossipKey, r>>>>
    \/ phase[r] = "up" /\ Kind[r] = "node" /\ job[r] = <<<<SignKey(IdOf[r]), r>>>>
    \/ phase[r] = "joined" /\ job[r] \in JoinJobs(IdOf[r])

\* What a run has in memory in a phase.
HeldOf(r) ==
    /\ phase[r] \in {"idle", "ca", "load"} => held[r] = Nothing
    /\ phase[r] \in {"node", "client", "tls"} => held[r].ca # Missing
    /\ phase[r] \in {"gossip", "sign", "dial", "up"} => held[r].cert # Missing
    /\ held[r].cert # Missing => held[r].ca # Missing
    /\ phase[r] = "sign" => held[r].gossip # Missing
    /\ Ran(r) /\ Kind[r] = "node" => held[r].gossip # Missing /\ held[r].sign # Missing
    /\ Kind[r] # "node" => held[r].sign = Missing

\* Run r is about to write f.
Writing(r, f) == job[r] # <<>> /\ Head(job[r])[1] = f

\* A start makes a file only where there is none that could be used, and a key only
\* with its certificate; a join has the certificate before the key.
FreshOf(r) ==
    IF r \in Joins
      THEN Writing(r, Key(IdOf[r])) => file[Cert(IdOf[r])] # Missing
      ELSE /\ \A f \in {CACert, GossipKey, Cert(IdOf[r]), SignKey(IdOf[r])} :
                 Writing(r, f) => file[f] \in {Missing, Torn}
           /\ job[r] \in CertJobs(r) => file[Key(IdOf[r])] # Remote

\* What a join installs, and in which order.
KeyInv ==
    /\ file[CAKey] # Remote /\ \A n \in Node : file[SignKey(n)] # Remote
    /\ \A n \in Node \cup Client : file[Key(n)] = Remote => file[Cert(n)] # Missing

\* What a run has made or read is what the file has, or is about to have.
Kept(r, x, f) == x # Missing => x = file[f] \/ (Writing(r, f) /\ x = r)

\* As long as no join has begun, what a run has in memory is in the directory.
MadeOf(r) ==
    /\ Kept(r, held[r].ca, CACert) /\ Kept(r, held[r].gossip, GossipKey)
    /\ Kept(r, held[r].sign, SignKey(IdOf[r]))
    /\ held[r].cert # Missing => held[r].cert = file[Cert(IdOf[r])]
    /\ Writing(r, Cert(IdOf[r])) => signer[r] = file[CACert]

\* A run that has not come to its certificate.
Early == {"idle", "ca", "node", "client", "load"}

\* As long as no join has begun, a certificate was made by a run of its identity and
\* signed by the CA of the directory.
CertInv ==
    \A i \in Node \cup Client : file[Cert(i)] \in Maker =>
        LET x == file[Cert(i)] IN
        x \in Run /\ IdOf[x] = i /\ signer[x] = file[CACert] /\ phase[x] \notin Early

RunInv(r) == PhaseOf(r) /\ JobOf(r) /\ HeldOf(r) /\ FreshOf(r)

\* The inductive invariant.
IndInv ==
    /\ TypeOK /\ OneStarts /\ KeyInv /\ \A r \in Run : RunInv(r)
    /\ ~Joined => CertInv /\ \A r \in Run : MadeOf(r)
=============================================================================
