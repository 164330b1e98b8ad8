------------------------- MODULE NodeIdentityProofs -------------------------
(***************************************************************************)
(* Proofs about NodeIdentity, for any number of nodes, clients and runs on *)
(* one directory, any number of runs cut off and of certificates expired.  *)
(***************************************************************************)
EXTENDS NodeIdentity, TLAPS

\* The provers that a step tries, in this order, and the seconds each may take.
USE ZenonT(5), SMTT(30), SMTT(40), SMTT(50), ZenonT(60)

(* Files, records and jobs, once, so that the steps below need not open them. *)

\* The files of the directory, of a node and of a client.
LEMMA Files ==
    /\ CACert \in File /\ CAKey \in File /\ GossipKey \in File
    /\ \A n \in Node \cup Client : Cert(n) \in File /\ Key(n) \in File
    /\ \A n \in Node : SignKey(n) \in File
    BY DEF File

\* No two of them are one file.
LEMMA FilesDiffer ==
    /\ CACert # CAKey /\ CACert # GossipKey /\ CAKey # GossipKey
    /\ \A n : Cert(n) # CACert /\ Cert(n) # CAKey /\ Cert(n) # GossipKey
    /\ \A n : Key(n) # CACert /\ Key(n) # CAKey /\ Key(n) # GossipKey
    /\ \A n : SignKey(n) # CACert /\ SignKey(n) # CAKey /\ SignKey(n) # GossipKey
    /\ \A m, n : Cert(m) # Key(n) /\ Cert(m) # SignKey(n) /\ Key(m) # SignKey(n)
    /\ \A m, n : Cert(m) = Cert(n) => m = n
    /\ \A m, n : Key(m) = Key(n) => m = n
    /\ \A m, n : SignKey(m) = SignKey(n) => m = n
<1>1. /\ CACert[2] = "ca" /\ CAKey[2] = "ca key" /\ GossipKey[2] = "gossip"
      /\ \A n : Cert(n)[2] = "cert" /\ Key(n)[2] = "key" /\ SignKey(n)[2] = "sign"
    BY DEF CACert, CAKey, GossipKey, Cert, Key, SignKey
<1>3. CACert # CAKey /\ CACert # GossipKey /\ CAKey # GossipKey
    BY <1>1
<1>4. \A n : /\ Cert(n) # CACert /\ Cert(n) # CAKey /\ Cert(n) # GossipKey
            /\ Key(n) # CACert /\ Key(n) # CAKey /\ Key(n) # GossipKey
            /\ SignKey(n) # CACert /\ SignKey(n) # CAKey /\ SignKey(n) # GossipKey
    BY <1>1
<1>5. \A m, n : Cert(m) # Key(n) /\ Cert(m) # SignKey(n) /\ Key(m) # SignKey(n)
    BY <1>1
<1>6. \A m, n : Cert(m) = Cert(n) => m = n
    BY DEF Cert
<1>7. \A m, n : Key(m) = Key(n) => m = n
    BY DEF Key
<1>8. \A m, n : SignKey(m) = SignKey(n) => m = n
    BY DEF SignKey
<1> QED
    BY <1>3, <1>4, <1>5, <1>6, <1>7, <1>8

\* The markers are no makers.
LEMMA Markers ==
    /\ Missing \notin Maker /\ Torn \notin Maker /\ Missing # Torn /\ Remote \notin Run
    /\ Run \subseteq Maker /\ Remote \in Maker
    BY NodeIdentityAssumption DEF Maker

\* Whose files a run writes.
LEMMA Ids ==
    \A r \in Run :
        /\ IdOf[r] \in Node \cup Client
        /\ Kind[r] \in {"node", "join", "push"} => IdOf[r] \in Node
        /\ IdOf[r] \in Client <=> Kind[r] \in {"enroll", "connect"}
        /\ Kind[r] \in {"node", "join", "push", "enroll", "connect"}
        /\ r \in Joins <=> Kind[r] = "join"
    BY NodeIdentityAssumption DEF Joins

\* What a run has in memory.
LEMMA Memories ==
    /\ Nothing \in Memory
    /\ \A m \in Memory : {m.ca, m.caKey, m.cert, m.gossip, m.sign} \subseteq Maker \cup {Missing}
    /\ {Nothing.ca, Nothing.cert, Nothing.gossip, Nothing.sign} = {Missing}
    BY DEF Nothing, Memory

\* No write is left; the file of the first write.
Done(w) == w = <<>>
Target(w) == Head(w)[1]

\* The first write of a job and what is left after it.
LEMMA BothJobs ==
    ASSUME NEW r, NEW f, NEW g, NEW j \in Both(r, f, g)
    PROVE  /\ Head(j)[1] \in {f, g} /\ Head(j)[2] = r
           /\ Done(Tail(j)) => Head(j)[1] = g
           /\ ~Done(Tail(j)) => Head(j)[1] = f /\ Tail(j) \in Both(r, f, g) /\ Target(Tail(j)) = g
<1> DEFINE a == <<f, r>>
           b == <<g, r>>
<1>1. a[1] = f /\ a[2] = r /\ b[1] = g /\ b[2] = r
    OBVIOUS
<1>2. Both(r, f, g) = {<<a, b>>, <<b>>}
    BY DEF Both
<1> HIDE DEF a, b
<1>3. /\ <<a, b>> # <<>> /\ Head(<<a, b>>) = a /\ Tail(<<a, b>>) = <<b>>
      /\ <<b>> # <<>> /\ Head(<<b>>) = b /\ Tail(<<b>>) = <<>>
    OBVIOUS
<1>4. CASE j = <<a, b>>
    BY <1>1, <1>2, <1>3, <1>4 DEF Done, Target
<1>5. CASE j = <<b>>
    BY <1>1, <1>3, <1>5 DEF Done, Target
<1> QED
    BY <1>2, <1>4, <1>5

LEMMA BothFirst ==
    ASSUME NEW r, NEW f, NEW g, NEW j \in Both(r, f, g)
    PROVE  j # <<>> /\ Head(j)[1] \in {f, g}
<1>1. Head(j)[1] \in {f, g}
    BY BothJobs
<1>2. j # <<>>
    BY DEF Both
<1> QED
    BY <1>1, <1>2

LEMMA CertJob ==
    ASSUME NEW r, NEW j \in CertJobs(r)
    PROVE  j # <<>> /\ Head(j)[1] \in {Cert(IdOf[r]), Key(IdOf[r])}
    BY BothFirst DEF CertJobs

\* Two files to write.
LEMMA MakeBoth ==
    ASSUME NEW r \in Maker, NEW f \in File, NEW g \in File
    PROVE  LET j == <<<<f, r>>, <<g, r>>>> IN
           j \in Seq(File \X Maker) /\ j # <<>> /\ j \in Both(r, f, g) /\ Head(j)[1] = f
<1> DEFINE a == <<f, r>>
           b == <<g, r>>
<1>1. a[1] = f /\ a \in File \X Maker /\ b \in File \X Maker
    OBVIOUS
<1>2. Both(r, f, g) = {<<a, b>>, <<b>>}
    BY DEF Both
<1> HIDE DEF a, b
<1>3. <<a, b>> # <<>> /\ Head(<<a, b>>) = a /\ <<a, b>> \in Seq(File \X Maker)
    BY <1>1
<1>4. <<a, b>> \in Both(r, f, g)
    BY <1>2
<1> QED
    BY <1>1, <1>3, <1>4 DEF a, b

LEMMA OneJob ==
    ASSUME NEW r, NEW f
    PROVE  /\ <<<<f, r>>>> # <<>> /\ Head(<<<<f, r>>>>)[1] = f /\ Head(<<<<f, r>>>>)[2] = r
           /\ Done(Tail(<<<<f, r>>>>))
    BY DEF Done

LEMMA InstallJobs ==
    ASSUME NEW n, NEW j \in JoinJobs(n)
    PROVE  /\ j # <<>> /\ Head(j)[2] = Remote /\ (~Done(Tail(j)) => Tail(j) \in JoinJobs(n))
           /\ Head(j)[1] \in {CACert, Cert(n), Key(n), GossipKey}
           /\ ~Done(Tail(j)) /\ Target(Tail(j)) = Key(n) => Head(j)[1] = Cert(n)
<1> DEFINE a == <<CACert, Remote>>
           b == <<Cert(n), Remote>>
           c == <<Key(n), Remote>>
           d == <<GossipKey, Remote>>
<1>1. a[1] = CACert /\ b[1] = Cert(n) /\ c[1] = Key(n) /\ d[1] = GossipKey
    OBVIOUS
<1>2. a[2] = Remote /\ b[2] = Remote /\ c[2] = Remote /\ d[2] = Remote
    OBVIOUS
<1>3. JoinJobs(n) = {<<a, b, c, d>>, <<b, c, d>>, <<c, d>>, <<d>>}
    BY DEF JoinJobs
<1>4. /\ Key(n) # Cert(n) /\ Key(n) # GossipKey /\ Key(n) # CACert
    BY FilesDiffer
<1> HIDE DEF a, b, c, d
<1>5. CASE j = <<a, b, c, d>>
    <2>1. j # <<>> /\ Head(j) = a /\ Tail(j) = <<b, c, d>> /\ Head(<<b, c, d>>) = b
        BY <1>5
    <2> QED
        BY <2>1, <1>1, <1>2, <1>3, <1>4 DEF Target
<1>6. CASE j = <<b, c, d>>
    <2>1. j # <<>> /\ Head(j) = b /\ Tail(j) = <<c, d>>
        BY <1>6
    <2> QED
        BY <2>1, <1>1, <1>2, <1>3
<1>7. CASE j = <<c, d>>
    <2>1. j # <<>> /\ Head(j) = c /\ Tail(j) = <<d>> /\ Head(<<d>>) = d
        BY <1>7
    <2> QED
        BY <2>1, <1>1, <1>2, <1>3, <1>4 DEF Target
<1>8. CASE j = <<d>>
    <2>1. j # <<>> /\ Head(j) = d /\ Tail(j) = <<>>
        BY <1>8
    <2> QED
        BY <2>1, <1>1, <1>2, <1>3 DEF Done
<1> QED
    BY <1>3, <1>5, <1>6, <1>7, <1>8
-----------------------------------------------------------------------------
(* Steps that write no file.                                               *)

\* What a step of run r leaves alone.
Others(r) ==
    \A s \in Run \ {r} : /\ phase'[s] = phase[s] /\ job'[s] = job[s] /\ held'[s] = held[s]
                         /\ signer'[s] = signer[s]

\* A run whose state is the same has the same invariants.
LEMMA SameRun ==
    ASSUME NEW s \in Run, file' = file, phase'[s] = phase[s], job'[s] = job[s], held'[s] = held[s]
    PROVE  RunInv(s) => RunInv(s)'
<1>1. PhaseOf(s) => PhaseOf(s)'
    BY DEF PhaseOf
<1>2. JobOf(s) => JobOf(s)'
    BY DEF JobOf
<1>3. HeldOf(s) => HeldOf(s)'
    BY DEF HeldOf, Ran
<1>4. FreshOf(s) => FreshOf(s)'
    BY DEF FreshOf, Writing
<1> QED
    BY <1>1, <1>2, <1>3, <1>4 DEF RunInv

LEMMA SameMade ==
    ASSUME NEW s \in Run, file' = file, job'[s] = job[s], held'[s] = held[s], signer'[s] = signer[s]
    PROVE  MadeOf(s) => MadeOf(s)'
    BY DEF MadeOf, Kept, Writing

\* The invariant holds after a step of run r if it does for r.
LEMMA RunStep ==
    ASSUME IndInv, TypeOK', NEW r \in Run, file' = file, Others(r), RunInv(r)',
           phase'[r] # "idle",
           Starting(r) \/ ~Starting(r)' \/ \A s \in Run : ~Starting(s),
           phase[r] \in Early \/ (phase'[r] \notin Early /\ signer'[r] = signer[r]),
           ~Joined /\ ~Joined' => MadeOf(r)'
    PROVE  IndInv'
<1>1. \A s \in Run : RunInv(s)'
    <2>1. ASSUME NEW s \in Run \ {r}
          PROVE  RunInv(s)'
        BY SameRun DEF IndInv, Others
    <2> QED
        BY <2>1
<1>2. OneStarts'
    <2>1. \A s \in Run \ {r} : Starting(s)' => Starting(s)
        BY DEF Others, Starting
    <2> QED
        BY <2>1 DEF OneStarts, IndInv
<1>3. KeyInv'
    BY DEF KeyInv, IndInv
<1>4. ~Joined' => ~Joined
    BY DEF Joined, Others, Joins
<1>5. ASSUME ~Joined'
      PROVE  CertInv' /\ \A s \in Run : MadeOf(s)'
    <2>1. CertInv /\ \A s \in Run : MadeOf(s)
        BY <1>4, <1>5 DEF IndInv
    <2>2. \A s \in Run \ {r} : MadeOf(s)'
        BY <2>1, SameMade DEF Others
    <2>3. CertInv'
        <3> SUFFICES ASSUME NEW i \in Node \cup Client, file[Cert(i)] \in Maker
                     PROVE  LET x == file[Cert(i)] IN
                            x \in Run /\ IdOf[x] = i /\ signer'[x] = file[CACert] /\ phase'[x] \notin Early
            BY DEF CertInv
        <3>1. PICK x \in Run : x = file[Cert(i)] /\ IdOf[x] = i /\ signer[x] = file[CACert]
                                /\ phase[x] \notin Early
            BY <2>1 DEF CertInv
        <3> QED
            BY <3>1 DEF Others
    <2> QED
        BY <1>4, <1>5, <2>2, <2>3
<1> QED
    BY <1>1, <1>2, <1>3, <1>5 DEF IndInv

\* GoOn: the run has its phase and its writes, the others keep theirs.
LEMMA GoOnEffect ==
    ASSUME TypeOK, NEW r \in Run, NEW ph \in Phase, NEW w \in Seq(File \X Maker), GoOn(r, ph, w)
    PROVE  /\ phase' \in [Run -> Phase] /\ job' \in [Run -> Seq(File \X Maker)]
           /\ phase'[r] = ph /\ job'[r] = w
           /\ \A s \in Run \ {r} : phase'[s] = phase[s] /\ job'[s] = job[s]
    BY DEF TypeOK, GoOn

\* A run without writes goes on to a phase without writes.
LEMMA MoveStep ==
    ASSUME IndInv, NEW r \in Run, NEW ph \in Phase \ {"idle"}, GoOn(r, ph, <<>>),
           UNCHANGED <<file, signer, expired, held, crashes>>, job[r] = <<>>,
           PhaseOf(r)', HeldOf(r)', Starting(r) \/ ~Starting(r)' \/ \A s \in Run : ~Starting(s),
           phase[r] \in Early \/ ph \notin Early
    PROVE  IndInv'
<1>1. TypeOK
    BY DEF IndInv
<1>2. <<>> \in Seq(File \X Maker)
    OBVIOUS
<1>3. /\ phase' \in [Run -> Phase] /\ job' \in [Run -> Seq(File \X Maker)]
      /\ phase'[r] = ph /\ job'[r] = <<>>
      /\ \A s \in Run \ {r} : phase'[s] = phase[s] /\ job'[s] = job[s]
    BY <1>1, <1>2, GoOnEffect
<1>4. TypeOK'
    BY <1>1, <1>3 DEF TypeOK
<1>5. Others(r)
    BY <1>3 DEF Others
<1>6. RunInv(r)'
    <2>1. JobOf(r)'
        BY <1>3 DEF JobOf
    <2>2. FreshOf(r)'
        <3>1. <<>> \notin CertJobs(r)
            BY CertJob
        <3> QED
            BY <1>3, <3>1 DEF FreshOf, Writing
    <2> QED
        BY <2>1, <2>2 DEF RunInv
<1>7. ~Joined => MadeOf(r)'
    <2>1. ~Joined => MadeOf(r)
        BY DEF IndInv
    <2> QED
        BY <1>3, <2>1, SameMade
<1> QED
    BY <1>3, <1>4, <1>5, <1>6, <1>7, RunStep

\* What the steps below use of the invariant.
LEMMA Parts ==
    ASSUME IndInv, NEW r \in Run
    PROVE  /\ TypeOK /\ PhaseOf(r) /\ JobOf(r) /\ HeldOf(r) /\ FreshOf(r)
           /\ held[r] \in Memory /\ phase[r] \in Phase /\ (~Joined => MadeOf(r) /\ CertInv)
    BY DEF IndInv, RunInv, TypeOK

\* A process is started, or a client.
LEMMA StartStep ==
    ASSUME IndInv, NEW r \in Run, Start(r) \/ StartClient(r)
    PROVE  IndInv'
<1>1. PICK ph \in {"ca", "load"} :
          /\ GoOn(r, ph, <<>>) /\ phase[r] = "idle" /\ \A s \in Run : ~Starting(s)
          /\ UNCHANGED <<file, signer, expired, held, crashes>>
          /\ IF ph = "load" THEN Kind[r] = "connect" ELSE Kind[r] \in {"node", "push", "enroll"}
    BY DEF Start, StartClient
<1>2. TypeOK /\ HeldOf(r) /\ job[r] = <<>>
    BY <1>1, Parts DEF Starting
<1>3. phase'[r] = ph
    BY <1>1, <1>2 DEF GoOn, TypeOK
<1>4. PhaseOf(r)'
    BY <1>1, <1>3 DEF PhaseOf
<1>5. HeldOf(r)'
    BY <1>1, <1>2, <1>3, Memories DEF HeldOf, Ran
<1>6. ph \in Phase \ {"idle"} /\ phase[r] \in Early
    BY <1>1 DEF Phase, Early
<1> QED
    BY <1>1, <1>2, <1>4, <1>5, <1>6, MoveStep

\* A start that fails, a node or a client that stops, a client that has its connection.
LEMMA EndStep ==
    ASSUME IndInv, NEW r \in Run, NEW ph \in {"failed", "stopped", "up"}, GoOn(r, ph, <<>>),
           job[r] = <<>>, phase[r] \notin {"idle", "joined"}, Kind[r] # "join",
           UNCHANGED <<file, signer, expired, held, crashes>>,
           ph = "up" => phase[r] = "dial", ph = "stopped" => phase[r] = "up"
    PROVE  IndInv'
<1>1. TypeOK /\ PhaseOf(r) /\ HeldOf(r)
    BY Parts
<1>2. phase'[r] = ph /\ job'[r] = <<>>
    BY <1>1 DEF GoOn, TypeOK
<1>3. PhaseOf(r)'
    BY <1>1, <1>2, Ids DEF PhaseOf
<1>4. HeldOf(r)'
    <2>1. ph = "up" => Kind[r] # "node"
        BY <1>1 DEF PhaseOf
    <2> QED
        BY <1>1, <1>2, <2>1 DEF HeldOf, Ran
<1>5. ph \in Phase \ {"idle"} /\ ph \notin Early
    BY DEF Phase, Early
<1>6. ~Starting(r)'
    BY <1>2 DEF Starting
<1> QED
    BY <1>3, <1>4, <1>5, <1>6, MoveStep

\* The CA is made or read.
LEMMA CAStep ==
    ASSUME IndInv, NEW r \in Run, LoadOrCreateCA(r)
    PROVE  IndInv'
<1>1. /\ TypeOK /\ PhaseOf(r) /\ HeldOf(r) /\ held[r] = Nothing /\ phase[r] = "ca" /\ job[r] = <<>>
      /\ ~Joined => MadeOf(r)
    BY Parts DEF LoadOrCreateCA, At, HeldOf
<1> DEFINE j == <<<<CACert, r>>, <<CAKey, r>>>>
<1>j. j \in Seq(File \X Maker) /\ j # <<>> /\ j \in Both(r, CACert, CAKey) /\ Head(j)[1] = CACert
    BY Files, Markers, MakeBoth
<1>2. PICK w \in {<<>>, j}, x \in Maker, y \in Maker :
          /\ GoOn(r, AfterOpen(r), w) /\ held' = [held EXCEPT ![r].ca = x, ![r].caKey = y]
          /\ IF w = <<>> THEN x = file[CACert] ELSE x = r /\ file[CACert] = Missing
    <2>1. r \in Maker
        BY Markers
    <2> QED
        BY <2>1, <1>j DEF LoadOrCreateCA, Complete, CreatesCA
<1> HIDE DEF j
<1>3. w \in Seq(File \X Maker) /\ AfterOpen(r) \in {"client", "node"} /\ AfterOpen(r) \in Phase
    <2>1. <<>> \in Seq(File \X Maker)
        OBVIOUS
    <2>2. w \in Seq(File \X Maker)
        BY <1>j, <2>1
    <2> QED
        BY <2>2 DEF AfterOpen, Phase
<1>4. /\ phase' \in [Run -> Phase] /\ job' \in [Run -> Seq(File \X Maker)]
      /\ phase'[r] = AfterOpen(r) /\ job'[r] = w
      /\ \A s \in Run \ {r} : phase'[s] = phase[s] /\ job'[s] = job[s]
    BY <1>1, <1>2, <1>3, GoOnEffect
<1>5. /\ held' \in [Run -> Memory] /\ held'[r].ca = x /\ held'[r].cert = Missing
      /\ held'[r].gossip = Missing /\ held'[r].sign = Missing
      /\ \A s \in Run \ {r} : held'[s] = held[s]
    <2>1. held' = [held EXCEPT ![r] = [Nothing EXCEPT !.ca = x, !.caKey = y]]
        BY <1>1, <1>2
    <2>2. [Nothing EXCEPT !.ca = x, !.caKey = y] \in Memory
        BY DEF Memory, Nothing
    <2> QED
        BY <1>1, <2>1, <2>2 DEF TypeOK, Nothing
<1>6. UNCHANGED <<file, signer, expired, crashes>>
    BY DEF LoadOrCreateCA
<1>7. TypeOK'
    BY <1>1, <1>4, <1>5, <1>6 DEF TypeOK
<1>8. Others(r)
    BY <1>4, <1>5, <1>6 DEF Others
<1>9. w # <<>> => w \in Both(r, CACert, CAKey) /\ Head(w)[1] = CACert
    BY <1>2, <1>j
<1>10. RunInv(r)'
    <2>1. PhaseOf(r)'
        BY <1>1, <1>4, Ids DEF PhaseOf, AfterOpen
    <2>2. JobOf(r)'
        BY <1>3, <1>4, <1>9 DEF JobOf
    <2>3. HeldOf(r)'
        BY <1>3, <1>4, <1>5, Markers DEF HeldOf, Ran
    <2>4. FreshOf(r)'
        <3>1. r \notin Joins
            BY <1>1, Ids DEF PhaseOf
        <3>2. w \notin CertJobs(r)
            BY <1>9, CertJob, FilesDiffer
        <3>3. w # <<>> => file[CACert] = Missing
            BY <1>2
        <3> QED
            BY <1>4, <1>6, <1>9, <3>1, <3>2, <3>3, FilesDiffer DEF FreshOf, Writing
    <2> QED
        BY <2>1, <2>2, <2>3, <2>4 DEF RunInv
<1>11. ~Joined => MadeOf(r)'
    BY <1>2, <1>4, <1>5, <1>6, <1>9, FilesDiffer DEF MadeOf, Kept, Writing
<1>12. AfterOpen(r) # "idle" /\ phase[r] \in Early /\ Starting(r)
    BY <1>1 DEF AfterOpen, Early, Starting
<1> QED
    BY <1>4, <1>6, <1>7, <1>8, <1>10, <1>11, <1>12, RunStep

\* A certificate is issued, or found.
LEMMA CertStep ==
    ASSUME IndInv, NEW r \in Run, EnsureNodeCert(r) \/ EnsureClientCert(r)
    PROVE  IndInv'
<1> DEFINE c == IdOf[r]
           j == <<<<Cert(c), r>>, <<Key(c), r>>>>
<1>j. j \in Seq(File \X Maker) /\ j # <<>> /\ j \in CertJobs(r) /\ Head(j)[1] = Cert(c)
    BY Files, Ids, Markers, MakeBoth DEF CertJobs
<1>1. PICK ph \in {"tls", "enrolled"}, w \in {<<>>, j} :
          /\ GoOn(r, ph, w) /\ phase[r] = (IF ph = "tls" THEN "node" ELSE "client")
          /\ job[r] = <<>> /\ UNCHANGED <<file, expired, held, crashes>>
          /\ IF w = <<>> THEN UNCHANGED signer
                ELSE signer' = [signer EXCEPT ![r] = held[r].ca] /\ file[Cert(c)] = Missing
    BY <1>j DEF EnsureNodeCert, EnsureClientCert, At, IssuesCert
<1> HIDE DEF j
<1>2. /\ TypeOK /\ PhaseOf(r) /\ HeldOf(r) /\ FreshOf(r) /\ held[r] \in Memory
      /\ ~Joined => MadeOf(r)
    BY Parts
<1>3. c \in Node \cup Client /\ r \in Maker /\ r \notin Joins
    BY <1>1, <1>2, Ids, Markers DEF PhaseOf
<1>4. w \in Seq(File \X Maker) /\ ph \in Phase
    <2>1. <<>> \in Seq(File \X Maker)
        OBVIOUS
    <2>2. w \in Seq(File \X Maker)
        BY <1>j, <2>1
    <2> QED
        BY <2>2 DEF Phase
<1>5. /\ phase' \in [Run -> Phase] /\ job' \in [Run -> Seq(File \X Maker)]
      /\ phase'[r] = ph /\ job'[r] = w
      /\ \A s \in Run \ {r} : phase'[s] = phase[s] /\ job'[s] = job[s]
    BY <1>1, <1>2, <1>4, GoOnEffect
<1>6. held[r].ca \in Maker
    BY <1>1, <1>2, Memories DEF HeldOf
<1>7. /\ signer' \in [Maker -> Maker] /\ (w # <<>> => signer'[r] = held[r].ca)
      /\ \A s \in Run \ {r} : signer'[s] = signer[s]
    BY <1>1, <1>2, <1>3, <1>6, Markers DEF TypeOK
<1>8. TypeOK'
    <2>1. file' = file /\ expired' = expired /\ held' = held /\ crashes' = crashes
        BY <1>1
    <2> QED
        BY <2>1, <1>2, <1>5, <1>7 DEF TypeOK
<1>9. Others(r)
    BY <1>1, <1>5, <1>7 DEF Others
<1>10. w # <<>> => w \in CertJobs(r) /\ Head(w)[1] = Cert(c)
    BY <1>1, <1>j
<1>11. RunInv(r)'
    <2>1. PhaseOf(r)'
        BY <1>1, <1>2, <1>5, Ids DEF PhaseOf
    <2>2. JobOf(r)'
        BY <1>5, <1>10 DEF JobOf
    <2>3. HeldOf(r)'
        BY <1>1, <1>2, <1>5 DEF HeldOf, Ran
    <2>4. FreshOf(r)'
        <3>1. <<>> \notin CertJobs(r)
            BY CertJob
        <3>2. w # <<>> => file[Key(c)] # Remote
            BY <1>1, <1>3, Markers DEF IndInv, KeyInv
        <3> QED
            BY <1>1, <1>3, <1>5, <1>10, <3>1, <3>2, FilesDiffer DEF FreshOf, Writing
    <2> QED
        BY <2>1, <2>2, <2>3, <2>4 DEF RunInv
<1>12. ~Joined => MadeOf(r)'
    <2>1. ~Joined => /\ held[r].ca = file[CACert]
                     /\ Kept(r, held[r].gossip, GossipKey) /\ Kept(r, held[r].sign, SignKey(c))
                     /\ held[r].cert # Missing => held[r].cert = file[Cert(c)]
        BY <1>1, <1>2, <1>6, Markers DEF MadeOf, Kept, Writing
    <2>2. Writing(r, Cert(c))' => signer'[r] = held[r].ca
        BY <1>5, <1>7 DEF Writing
    <2> QED
        BY <1>1, <2>1, <2>2, Markers DEF MadeOf, Kept, Writing
<1>13. ph # "idle" /\ phase[r] \in Early /\ Starting(r)
    BY <1>1 DEF Early, Starting
<1> QED
    BY <1>1, <1>5, <1>8, <1>9, <1>11, <1>12, <1>13, RunStep

\* A run that goes on with other things in memory.
Holds(r, ph, w, m) ==
    /\ GoOn(r, ph, w) /\ held' = [held EXCEPT ![r] = m]
    /\ UNCHANGED <<file, signer, expired>> /\ crashes' \in 0..MaxCrashes

LEMMA HoldsEffect ==
    ASSUME TypeOK, NEW r \in Run, NEW ph, NEW w, NEW m, Holds(r, ph, w, m)
    PROVE  phase'[r] = ph /\ job'[r] = w /\ held'[r] = m /\ file' = file /\ signer' = signer
    BY DEF TypeOK, Holds, GoOn

LEMMA HoldsStep ==
    ASSUME IndInv, NEW r \in Run, NEW ph \in Phase \ {"idle"}, NEW w \in Seq(File \X Maker),
           NEW m \in Memory, Holds(r, ph, w, m),
           PhaseOf(r)', JobOf(r)', HeldOf(r)', FreshOf(r)',
           Starting(r) \/ ~Starting(r)' \/ \A s \in Run : ~Starting(s),
           phase[r] \in Early \/ ph \notin Early,
           ~Joined /\ ~Joined' => MadeOf(r)'
    PROVE  IndInv'
<1>1. TypeOK /\ GoOn(r, ph, w)
    BY DEF IndInv, Holds
<1>2. /\ phase' \in [Run -> Phase] /\ job' \in [Run -> Seq(File \X Maker)]
      /\ phase'[r] = ph /\ job'[r] = w
      /\ \A s \in Run \ {r} : phase'[s] = phase[s] /\ job'[s] = job[s]
    BY <1>1, GoOnEffect
<1>3. /\ held' \in [Run -> Memory] /\ \A s \in Run \ {r} : held'[s] = held[s]
      /\ file' = file /\ signer' = signer /\ expired' = expired /\ crashes' \in 0..MaxCrashes
    BY <1>1 DEF Holds, TypeOK
<1>4. TypeOK'
    BY <1>1, <1>2, <1>3 DEF TypeOK
<1>5. Others(r)
    BY <1>2, <1>3 DEF Others
<1> QED
    BY <1>2, <1>3, <1>4, <1>5, RunStep DEF RunInv

\* What has no writes has no writes to go wrong.
LEMMA NoJob ==
    ASSUME NEW r \in Run, job'[r] = <<>>
    PROVE  JobOf(r)' /\ FreshOf(r)'
<1>1. <<>> \notin CertJobs(r)
    BY CertJob
<1> QED
    BY <1>1 DEF JobOf, FreshOf, Writing

\* A part of what is in memory is replaced.
LEMMA Replaced ==
    ASSUME TypeOK, NEW r \in Run, NEW x \in Maker
    PROVE  LET m == held[r] IN
           /\ [m EXCEPT !.cert = x] \in Memory /\ [m EXCEPT !.cert = x].cert = x
           /\ [m EXCEPT !.cert = x].ca = m.ca /\ [m EXCEPT !.cert = x].gossip = m.gossip
           /\ [m EXCEPT !.cert = x].sign = m.sign
           /\ [m EXCEPT !.gossip = x] \in Memory /\ [m EXCEPT !.gossip = x].cert = m.cert
           /\ [m EXCEPT !.gossip = x].ca = m.ca /\ [m EXCEPT !.gossip = x].gossip = x
           /\ [m EXCEPT !.gossip = x].sign = m.sign
           /\ [m EXCEPT !.sign = x] \in Memory /\ [m EXCEPT !.sign = x].cert = m.cert
           /\ [m EXCEPT !.sign = x].ca = m.ca /\ [m EXCEPT !.sign = x].gossip = m.gossip
           /\ [m EXCEPT !.sign = x].sign = x
<1>1. held[r] \in Memory
    BY DEF TypeOK
<1> QED
    BY <1>1 DEF Memory

\* A run ends in the middle of its start.
LEMMA CrashStep ==
    ASSUME IndInv, NEW r \in Run, Crash(r)
    PROVE  IndInv'
<1>1. TypeOK /\ PhaseOf(r) /\ <<>> \in Seq(File \X Maker) /\ Nothing \in Memory
    BY Parts, Memories
<1>2. Holds(r, "stopped", <<>>, Nothing)
    BY <1>1, NodeIdentityAssumption DEF Crash, Holds, TypeOK
<1>3. phase'[r] = "stopped" /\ job'[r] = <<>> /\ held'[r] = Nothing /\ file' = file
    BY <1>1, <1>2, HoldsEffect
<1>4. JobOf(r)' /\ FreshOf(r)'
    BY <1>3, NoJob
<1>5. PhaseOf(r)'
    BY <1>3 DEF PhaseOf
<1>6. HeldOf(r)'
    BY <1>3, Memories, ZenonT(60) DEF HeldOf, Ran
<1>7. MadeOf(r)'
    BY <1>3, Memories, ZenonT(60) DEF MadeOf, Kept, Writing
<1>8. "stopped" \in Phase \ {"idle"} /\ "stopped" \notin Early /\ ~Starting(r)'
    BY <1>3 DEF Phase, Early, Starting
<1> QED
    BY <1>1, <1>2, <1>4, <1>5, <1>6, <1>7, <1>8, HoldsStep

\* A node or a push reads its certificate.
LEMMA TLSStep ==
    ASSUME IndInv, NEW r \in Run, TLSConfig(r)
    PROVE  IndInv'
<1> DEFINE x == file[Cert(IdOf[r])]
           m == [held[r] EXCEPT !.cert = x]
           ph == IF Kind[r] = "push" THEN "pushed" ELSE "gossip"
<1>1. /\ TypeOK /\ PhaseOf(r) /\ HeldOf(r) /\ <<>> \in Seq(File \X Maker)
      /\ ~Joined => MadeOf(r)
    BY Parts
<1>2. x \in Maker /\ phase[r] = "tls" /\ job[r] = <<>>
    BY DEF TLSConfig, Complete, At
<1>3. Holds(r, ph, <<>>, m)
    BY <1>1 DEF TLSConfig, Holds, TypeOK
<1>4. m \in Memory /\ m.cert = x /\ m.ca = held[r].ca /\ m.gossip = held[r].gossip
      /\ m.sign = held[r].sign
    BY <1>1, <1>2, Replaced, ZenonT(60)
<1>5. ph \in Phase \ {"idle"} /\ ph \notin Early
    BY DEF Phase, Early
<1> HIDE DEF m
<1>6. phase'[r] = ph /\ job'[r] = <<>> /\ held'[r] = m /\ file' = file /\ signer' = signer
    BY <1>1, <1>3, HoldsEffect
<1>7. JobOf(r)' /\ FreshOf(r)'
    BY <1>6, NoJob
<1>8. PhaseOf(r)'
    BY <1>1, <1>2, <1>6, Ids DEF PhaseOf
<1>9. HeldOf(r)'
    BY <1>1, <1>2, <1>4, <1>6, Markers DEF HeldOf, Ran
<1>10. ~Joined => MadeOf(r)'
    BY <1>1, <1>2, <1>4, <1>6 DEF MadeOf, Kept, Writing
<1>11. Starting(r)
    BY <1>2 DEF Starting
<1> HIDE DEF ph
<1> QED
    BY <1>1, <1>3, <1>4, <1>5, <1>7, <1>8, <1>9, <1>10, <1>11, HoldsStep

\* A client reads its certificate and the CA.
LEMMA LoadStep ==
    ASSUME IndInv, NEW r \in Run, LoadClientTLSConfig(r)
    PROVE  IndInv'
<1> DEFINE x == file[Cert(IdOf[r])]
           y == file[CACert]
           m == [held[r] EXCEPT !.cert = x, !.ca = y]
<1>1. /\ TypeOK /\ PhaseOf(r) /\ HeldOf(r) /\ <<>> \in Seq(File \X Maker)
      /\ ~Joined => MadeOf(r)
    BY Parts
<1>2. x \in Maker /\ y \in Maker /\ phase[r] = "load" /\ job[r] = <<>>
    BY DEF LoadClientTLSConfig, Loads, Complete, At
<1>3. Holds(r, "dial", <<>>, m)
    BY <1>1 DEF LoadClientTLSConfig, Holds, TypeOK
<1>4. m \in Memory /\ m.cert = x /\ m.ca = y /\ m.gossip = held[r].gossip
      /\ m.sign = held[r].sign
    <2>1. held[r] \in Memory
        BY Parts
    <2> QED
        BY <1>2, <2>1 DEF Memory
<1>5. "dial" \in Phase \ {"idle"} /\ "dial" \notin Early
    BY DEF Phase, Early
<1> HIDE DEF m
<1>6. phase'[r] = "dial" /\ job'[r] = <<>> /\ held'[r] = m /\ file' = file /\ signer' = signer
    BY <1>1, <1>3, HoldsEffect
<1>7. JobOf(r)' /\ FreshOf(r)'
    BY <1>6, NoJob
<1>8. PhaseOf(r)'
    BY <1>1, <1>2, <1>6, Ids DEF PhaseOf
<1>9. HeldOf(r)'
    BY <1>1, <1>2, <1>4, <1>6, Markers DEF HeldOf, Ran
<1>10. ~Joined => MadeOf(r)'
    BY <1>1, <1>2, <1>4, <1>6 DEF MadeOf, Kept, Writing
<1>11. Starting(r)
    BY <1>2 DEF Starting
<1> QED
    BY <1>1, <1>3, <1>4, <1>5, <1>7, <1>8, <1>9, <1>10, <1>11, HoldsStep

\* One file to write.
LEMMA OneToWrite ==
    ASSUME NEW r \in Maker, NEW f \in File
    PROVE  LET w == <<<<f, r>>>> IN
           w \in Seq(File \X Maker) /\ w # <<>> /\ Head(w)[1] = f
<1>1. <<<<f, r>>>> \in Seq(File \X Maker)
    OBVIOUS
<1>2. <<<<f, r>>>> # <<>>
    OBVIOUS
<1>3. Head(<<<<f, r>>>>)[1] = f
    OBVIOUS
<1> QED
    BY <1>1, <1>2, <1>3

\* A node reads or makes the gossip secret.
LEMMA KeyStep ==
    ASSUME IndInv, NEW r \in Run, LoadOrCreateKey(r)
    PROVE  IndInv'
<1> DEFINE j == <<<<GossipKey, r>>>>
<1>1. /\ TypeOK /\ PhaseOf(r) /\ HeldOf(r) /\ <<>> \in Seq(File \X Maker)
      /\ ~Joined => MadeOf(r)
    BY Parts
<1>2. j \in Seq(File \X Maker) /\ j # <<>> /\ Head(j)[1] = GossipKey /\ r \in Maker
    BY Files, Markers, OneToWrite
<1>3. PICK w \in {<<>>, j}, x \in Maker :
          /\ GoOn(r, "sign", w) /\ held' = [held EXCEPT ![r].gossip = x]
          /\ IF w = <<>> THEN x = file[GossipKey] ELSE x = r /\ file[GossipKey] \notin Maker
    BY <1>2 DEF LoadOrCreateKey, Complete
<1>4. w \in Seq(File \X Maker) /\ (w # <<>> => w = <<<<GossipKey, r>>>> /\ Head(w)[1] = GossipKey)
    BY <1>1, <1>2, <1>3
<1> DEFINE m == [held[r] EXCEPT !.gossip = x]
<1>5. phase[r] = "gossip" /\ job[r] = <<>> /\ Holds(r, "sign", w, m)
    BY <1>1, <1>3 DEF LoadOrCreateKey, Holds, TypeOK, At
<1>6. m \in Memory /\ m.cert = held[r].cert /\ m.ca = held[r].ca /\ m.gossip = x
      /\ m.sign = held[r].sign
    BY <1>1, Replaced, ZenonT(60)
<1> HIDE DEF m, j
<1>7. phase'[r] = "sign" /\ job'[r] = w /\ held'[r] = m /\ file' = file /\ signer' = signer
    BY <1>1, <1>5, HoldsEffect
<1>8. JobOf(r)'
    BY <1>4, <1>7 DEF JobOf
<1>9. FreshOf(r)'
    <2>1. w \notin CertJobs(r)
        BY <1>4, CertJob, FilesDiffer
    <2>2. r \notin Joins
        BY <1>1, <1>5, Ids DEF PhaseOf
    <2>3. w # <<>> => file[GossipKey] \in {Missing, Torn}
        BY <1>1, <1>3, Files DEF TypeOK
    <2> QED
        BY <1>4, <1>7, <2>1, <2>2, <2>3, FilesDiffer DEF FreshOf, Writing
<1>10. PhaseOf(r)'
    BY <1>1, <1>5, <1>7, Ids DEF PhaseOf
<1>11. HeldOf(r)'
    BY <1>1, <1>5, <1>6, <1>7, Markers DEF HeldOf, Ran
<1>12. ~Joined => MadeOf(r)'
    BY <1>1, <1>3, <1>4, <1>5, <1>6, <1>7, FilesDiffer DEF MadeOf, Kept, Writing
<1>13. Starting(r) /\ "sign" \in Phase \ {"idle"} /\ "sign" \notin Early
    BY <1>5 DEF Starting, Phase, Early
<1> QED
    BY <1>4, <1>5, <1>6, <1>8, <1>9, <1>10, <1>11, <1>12, <1>13, HoldsStep

\* A node reads or makes its signing key, and is up.
LEMMA SignStep ==
    ASSUME IndInv, NEW r \in Run, EnsureGossipSigner(r)
    PROVE  IndInv'
<1> DEFINE f == SignKey(IdOf[r])
           j == <<<<f, r>>>>
<1>1. /\ TypeOK /\ PhaseOf(r) /\ HeldOf(r) /\ <<>> \in Seq(File \X Maker)
      /\ ~Joined => MadeOf(r)
    BY Parts
<1>2. phase[r] = "sign" /\ job[r] = <<>> /\ Kind[r] = "node" /\ IdOf[r] \in Node /\ r \in Maker
    BY <1>1, Ids, Markers DEF EnsureGossipSigner, At, PhaseOf
<1>3. j \in Seq(File \X Maker) /\ j # <<>> /\ Head(j)[1] = f
    BY <1>2, Files, OneToWrite
<1>4. PICK w \in {<<>>, j}, x \in Maker :
          /\ GoOn(r, "up", w) /\ held' = [held EXCEPT ![r].sign = x]
          /\ IF w = <<>> THEN x = file[f] ELSE x = r /\ file[f] = Missing
    BY <1>2, <1>3 DEF EnsureGossipSigner, Complete, MakesSigner
<1>5. w \in Seq(File \X Maker) /\ (w # <<>> => w = <<<<f, r>>>> /\ Head(w)[1] = f)
    BY <1>1, <1>3, <1>4
<1> DEFINE m == [held[r] EXCEPT !.sign = x]
<1>6. Holds(r, "up", w, m)
    BY <1>1, <1>4 DEF EnsureGossipSigner, Holds, TypeOK
<1>7. m \in Memory /\ m.cert = held[r].cert /\ m.ca = held[r].ca /\ m.gossip = held[r].gossip
      /\ m.sign = x
    BY <1>1, Replaced, ZenonT(60)
<1> HIDE DEF m, j
<1>8. phase'[r] = "up" /\ job'[r] = w /\ held'[r] = m /\ file' = file /\ signer' = signer
    BY <1>1, <1>6, HoldsEffect
<1>9. JobOf(r)'
    BY <1>2, <1>5, <1>8 DEF JobOf
<1>10. FreshOf(r)'
    <2>1. w \notin CertJobs(r)
        BY <1>5, CertJob, FilesDiffer
    <2>2. r \notin Joins
        BY <1>2, Ids
    <2> QED
        BY <1>4, <1>5, <1>8, <2>1, <2>2, FilesDiffer DEF FreshOf, Writing
<1>11. PhaseOf(r)'
    BY <1>2, <1>8 DEF PhaseOf
<1>12. HeldOf(r)'
    BY <1>1, <1>2, <1>7, <1>8, Markers DEF HeldOf, Ran
<1>13. ~Joined => MadeOf(r)'
    BY <1>1, <1>2, <1>4, <1>5, <1>7, <1>8, FilesDiffer DEF MadeOf, Kept, Writing
<1>14. Starting(r) /\ "up" \in Phase \ {"idle"} /\ "up" \notin Early
    BY <1>2 DEF Starting, Phase, Early
<1> QED
    BY <1>5, <1>6, <1>7, <1>9, <1>10, <1>11, <1>12, <1>13, <1>14, HoldsStep

\* A join is started.
LEMMA JoinStep ==
    ASSUME IndInv, NEW r \in Run, InstallFromJoin(r)
    PROVE  IndInv'
<1> DEFINE n == IdOf[r]
           a == <<CACert, Remote>>
           b == <<Cert(n), Remote>>
           c == <<Key(n), Remote>>
           d == <<GossipKey, Remote>>
           j == <<a, b, c, d>>
<1>1. TypeOK /\ HeldOf(r) /\ held[r] \in Memory
    BY Parts
<1>2. r \in Joins /\ phase[r] = "idle" /\ Kind[r] = "join" /\ n \in Node \cup Client
    BY Ids DEF InstallFromJoin
<1>3. Holds(r, "joined", j, held[r]) /\ \A s \in Run : ~Starting(s)
    <2>1. held = [held EXCEPT ![r] = held[r]]
        BY <1>1 DEF TypeOK
    <2> QED
        BY <1>1, <2>1 DEF InstallFromJoin, Holds, TypeOK
<1>4. a \in File \X Maker /\ b \in File \X Maker /\ c \in File \X Maker /\ d \in File \X Maker
    BY <1>2, Files, Markers
<1>5. a[1] = CACert /\ j \in JoinJobs(n)
    BY DEF JoinJobs
<1> HIDE DEF a, b, c, d
<1>6. j \in Seq(File \X Maker) /\ j # <<>> /\ Head(j) = a
    BY <1>4
<1> HIDE DEF j
<1>7. phase'[r] = "joined" /\ job'[r] = j /\ held'[r] = held[r]
    BY <1>1, <1>3, HoldsEffect
<1>8. JobOf(r)'
    BY <1>5, <1>7 DEF JobOf
<1>9. FreshOf(r)'
    BY <1>2, <1>5, <1>6, <1>7, FilesDiffer DEF FreshOf, Writing
<1>10. PhaseOf(r)'
    BY <1>2, <1>7 DEF PhaseOf
<1>11. HeldOf(r)'
    BY <1>1, <1>2, <1>7, Memories DEF HeldOf, Ran
<1>12. Joined'
    BY <1>2, <1>7 DEF Joined
<1>13. "joined" \in Phase \ {"idle"} /\ "joined" \notin Early
    BY DEF Phase, Early
<1> QED
    BY <1>1, <1>3, <1>6, <1>8, <1>9, <1>10, <1>11, <1>12, <1>13, HoldsStep

\* A certificate expires.
LEMMA ExpireStep ==
    ASSUME IndInv, NEW r \in Run, Expire(r)
    PROVE  IndInv'
<1>1. /\ file' = file /\ signer' = signer /\ phase' = phase /\ job' = job /\ held' = held
      /\ crashes' = crashes /\ expired' = expired \cup {r}
    BY DEF Expire
<1>2. TypeOK'
    BY <1>1, Markers DEF IndInv, TypeOK
<1>3. OneStarts' /\ KeyInv' /\ (~Joined' => ~Joined /\ CertInv')
    BY <1>1 DEF IndInv, OneStarts, Starting, KeyInv, Joined, CertInv
<1>4. \A s \in Run : RunInv(s)'
    BY <1>1, SameRun DEF IndInv
<1>5. ~Joined => \A s \in Run : MadeOf(s)'
    BY <1>1, SameMade DEF IndInv
<1> QED
    BY <1>2, <1>3, <1>4, <1>5 DEF IndInv
-----------------------------------------------------------------------------
(* Steps that write a file.                                                *)

\* What the run r writes next, with what is left after it.
First(r, f, x, w) ==
    \/ /\ phase[r] \in {"node", "client"} /\ x = r /\ f \in {CACert, CAKey}
       /\ ~Done(w) => w \in Both(r, CACert, CAKey) /\ Target(w) = CAKey
    \/ /\ phase[r] \in {"tls", "enrolled"} /\ x = r
       /\ IF Done(w) THEN f = Key(IdOf[r])
            ELSE w \in CertJobs(r) /\ Target(w) = Key(IdOf[r]) /\ f = Cert(IdOf[r])
    \/ phase[r] = "sign" /\ x = r /\ f = GossipKey /\ Done(w)
    \/ phase[r] = "up" /\ Kind[r] = "node" /\ x = r /\ f = SignKey(IdOf[r]) /\ Done(w)
    \/ /\ phase[r] = "joined" /\ x = Remote
       /\ f \in {CACert, Cert(IdOf[r]), Key(IdOf[r]), GossipKey}
       /\ ~Done(w) => w \in JoinJobs(IdOf[r]) /\ (Target(w) = Key(IdOf[r]) => f = Cert(IdOf[r]))

LEMMA FirstWrite ==
    ASSUME IndInv, NEW r \in Run, job[r] # <<>>
    PROVE  LET f == Head(job[r])[1]
               x == Head(job[r])[2]
               w == Tail(job[r])
           IN  f \in File /\ x \in Maker /\ w \in Seq(File \X Maker) /\ First(r, f, x, w)
<1> DEFINE f == Head(job[r])[1]
           x == Head(job[r])[2]
           w == Tail(job[r])
<1>1. f \in File /\ x \in Maker /\ w \in Seq(File \X Maker)
    BY DEF IndInv, TypeOK
<1>2. JobOf(r)
    BY Parts
<1>3. First(r, f, x, w)
    <2>1. CASE phase[r] \in {"node", "client"} /\ job[r] \in Both(r, CACert, CAKey)
        <3>1. x = r /\ f \in {CACert, CAKey}
            BY <2>1, BothJobs
        <3>2. ~Done(w) => w \in Both(r, CACert, CAKey) /\ Target(w) = CAKey
            BY <2>1, BothJobs
        <3> QED
            BY <2>1, <3>1, <3>2 DEF First
    <2>2. CASE phase[r] \in {"tls", "enrolled"} /\ job[r] \in CertJobs(r)
        <3>1. job[r] \in Both(r, Cert(IdOf[r]), Key(IdOf[r]))
            BY <2>2 DEF CertJobs
        <3>2. ~Done(w) => w \in CertJobs(r) /\ Target(w) = Key(IdOf[r]) /\ f = Cert(IdOf[r])
            <4>1. ~Done(w) => Target(w) = Key(IdOf[r]) /\ f = Cert(IdOf[r])
                BY <3>1, BothJobs
            <4>2. ~Done(w) => w \in Both(r, Cert(IdOf[r]), Key(IdOf[r]))
                BY <3>1, BothJobs
            <4> QED
                BY <4>1, <4>2 DEF CertJobs
        <3>3. x = r /\ (Done(w) => f = Key(IdOf[r]))
            BY <3>1, BothJobs
        <3> QED
            BY <2>2, <3>2, <3>3 DEF First
    <2>3. CASE phase[r] = "sign" /\ job[r] = <<<<GossipKey, r>>>>
        BY <2>3, OneJob DEF First
    <2>4. CASE phase[r] = "up" /\ Kind[r] = "node" /\ job[r] = <<<<SignKey(IdOf[r]), r>>>>
        BY <2>4, OneJob DEF First
    <2>5. CASE phase[r] = "joined" /\ job[r] \in JoinJobs(IdOf[r])
        BY <2>5, InstallJobs DEF First
    <2> QED
        BY <1>2, <2>1, <2>2, <2>3, <2>4, <2>5 DEF JobOf
<1> QED
    BY <1>1, <1>3

\* Only one run writes.
LEMMA Writer ==
    ASSUME IndInv, NEW r \in Run, job[r] # <<>>
    PROVE  (\A s \in Run \ {r} : job[s] = <<>>) /\ (r \in Joins => Joined)
<1>1. phase[r] # "idle"
    BY Parts DEF JobOf
<1>2. \A s \in Run \ {r} : job[s] = <<>>
    BY DEF IndInv, OneStarts, Starting
<1>3. r \in Joins => Joined
    BY <1>1 DEF Joined
<1> QED
    BY <1>2, <1>3

\* Of the files that others rely on a start replaces only those that cannot be used.
Replaces(f) ==
    /\ (\E n : f = Cert(n)) => file[f] \in {Missing, Torn}
    /\ (\E n : f = SignKey(n)) => file[f] \in {Missing, Torn}
    /\ f \in {CACert, GossipKey} => file[f] \in {Missing, Torn}

LEMMA StartReplaces ==
    ASSUME IndInv, NEW r \in Run \ Joins, job[r] # <<>>
    PROVE  Replaces(Head(job[r])[1])
<1> DEFINE f == Head(job[r])[1]
<1>1. FreshOf(r) /\ Writing(r, f)
    BY Parts DEF Writing
<1>2. f \in {CACert, CAKey, GossipKey, Cert(IdOf[r]), Key(IdOf[r]), SignKey(IdOf[r])}
    BY FirstWrite DEF First
<1> HIDE DEF f
<1>3. Replaces(f)
    BY <1>1, <1>2, FilesDiffer DEF FreshOf, Replaces
<1> QED
    BY <1>3 DEF f

\* What stays when the file f is replaced that is not a complete one.
LEMMA Stays ==
    ASSUME NEW f \in File, \A g \in File \ {f} : file'[g] = file[g], Replaces(f)
    PROVE  /\ \A x \in Maker : file[CACert] = x => file'[CACert] = x
           /\ \A x \in Maker : file[GossipKey] = x => file'[GossipKey] = x
           /\ \A x \in Maker : \A n \in Node : file[SignKey(n)] = x => file'[SignKey(n)] = x
           /\ \A x \in Maker : \A n \in Node \cup Client : file[Cert(n)] = x => file'[Cert(n)] = x
    BY Files, Markers DEF Replaces

\* A file is truncated.
LEMMA TruncateStep ==
    ASSUME IndInv, NEW r \in Run, Truncate(r)
    PROVE  IndInv'
<1>1. PICK f \in File : f = Head(job[r])[1] /\ job[r] # <<>>
    BY FirstWrite DEF Truncate
<1>2. /\ file' = [file EXCEPT ![f] = Torn]
      /\ signer' = signer /\ expired' = expired /\ phase' = phase /\ job' = job /\ held' = held
      /\ crashes' = crashes
    BY <1>1 DEF Truncate
<1>3. TypeOK /\ KeyInv /\ OneStarts
    BY DEF IndInv
<1>4. file'[f] = Torn /\ \A g \in File \ {f} : file'[g] = file[g]
    BY <1>2, <1>3 DEF TypeOK
<1>5. TypeOK'
    BY <1>2, <1>3 DEF TypeOK
<1>6. OneStarts'
    BY <1>2, <1>3 DEF OneStarts, Starting
<1>7. KeyInv'
    <2>1. Torn # Remote /\ Torn # Missing
        BY Markers
    <2> QED
        BY <1>3, <1>4, <2>1, Files DEF KeyInv
<1>8. ASSUME NEW s \in Run
      PROVE  RunInv(s)'
    <2>1. PhaseOf(s) /\ JobOf(s) /\ HeldOf(s) /\ FreshOf(s)
        BY Parts
    <2>2. PhaseOf(s)' /\ JobOf(s)' /\ HeldOf(s)'
        BY <1>2, <2>1 DEF PhaseOf, JobOf, HeldOf, Ran
    <2>3. FreshOf(s)'
        <3>1. CASE s # r
            BY <1>1, <1>2, <3>1, Writer, NoJob
        <3>2. CASE s = r
            <4>1. Torn # Remote /\ Torn # Missing /\ Cert(IdOf[s]) \in File /\ Key(IdOf[s]) \in File
                BY Markers, Files, Ids
            <4> QED
                BY <1>1, <1>2, <1>4, <2>1, <3>2, <4>1 DEF FreshOf, Writing
        <3> QED
            BY <3>1, <3>2
    <2> QED
        BY <2>2, <2>3 DEF RunInv
<1>9. ASSUME ~Joined'
      PROVE  CertInv' /\ \A s \in Run : MadeOf(s)'
    <2>1. ~Joined /\ r \notin Joins
        BY <1>1, <1>2, <1>9, Writer DEF Joined
    <2>2. CertInv /\ \A s \in Run : MadeOf(s)
        BY <2>1 DEF IndInv
    <2>3. /\ \A x \in Maker : file[CACert] = x => file'[CACert] = x
          /\ \A x \in Maker : file[GossipKey] = x => file'[GossipKey] = x
          /\ \A x \in Maker : \A n \in Node : file[SignKey(n)] = x => file'[SignKey(n)] = x
          /\ \A x \in Maker : \A n \in Node \cup Client : file[Cert(n)] = x => file'[Cert(n)] = x
        <3>1. Replaces(f)
            BY <1>1, <2>1, StartReplaces
        <3> QED
            BY <1>4, <3>1, Stays
    <2>4. CertInv'
        <3> SUFFICES ASSUME NEW i \in Node \cup Client, file'[Cert(i)] \in Maker
                     PROVE  LET x == file'[Cert(i)] IN
                            x \in Run /\ IdOf[x] = i /\ signer[x] = file'[CACert] /\ phase[x] \notin Early
            BY <1>2 DEF CertInv
        <3>1. file'[Cert(i)] = file[Cert(i)]
            BY <1>4, Files, Markers
        <3>2. PICK x \in Run : x = file[Cert(i)] /\ IdOf[x] = i /\ signer[x] = file[CACert]
                                /\ phase[x] \notin Early
            BY <2>2, <3>1 DEF CertInv
        <3>3. signer[x] = file'[CACert]
            BY <1>3, <2>3, <3>2, Markers DEF TypeOK
        <3> QED
            BY <3>1, <3>2, <3>3
    <2>5. ASSUME NEW s \in Run
          PROVE  MadeOf(s)'
        <3>1. MadeOf(s) /\ held[s] \in Memory /\ signer[s] \in Maker
            BY <1>3, <2>2, Markers DEF TypeOK
        <3>2. {held[s].ca, held[s].gossip, held[s].sign, held[s].cert} \subseteq Maker \cup {Missing}
            BY <3>1, Memories
        <3>3. held[s].sign # Missing => IdOf[s] \in Node
            BY Parts, Ids DEF HeldOf
        <3>4. IdOf[s] \in Node \cup Client
            BY Ids
        <3> QED
            BY <1>2, <2>3, <3>1, <3>2, <3>3, <3>4, ZenonT(60) DEF MadeOf, Kept, Writing
    <2> QED
        BY <2>4, <2>5
<1> QED
    BY <1>5, <1>6, <1>7, <1>8, <1>9 DEF IndInv

\* A file is written.
LEMMA WriteStep ==
    ASSUME IndInv, NEW r \in Run, WriteFile(r)
    PROVE  IndInv'
<1> DEFINE w == Tail(job[r])
<1>1. PICK f \in File, x \in Maker : f = Head(job[r])[1] /\ x = Head(job[r])[2]
    BY FirstWrite DEF WriteFile
<1>2. /\ job[r] # <<>> /\ file[f] = Torn
      /\ file' = [file EXCEPT ![f] = x] /\ job' = [job EXCEPT ![r] = w]
      /\ signer' = signer /\ expired' = expired /\ phase' = phase /\ held' = held
      /\ crashes' = crashes
    BY <1>1 DEF WriteFile
<1>3. TypeOK /\ KeyInv /\ OneStarts /\ JobOf(r) /\ FreshOf(r) /\ PhaseOf(r)
    BY Parts DEF IndInv
<1>4. w \in Seq(File \X Maker) /\ First(r, f, x, w)
    BY <1>1, <1>2, FirstWrite
<1> HIDE DEF w
<1>5. /\ file'[f] = x /\ \A g \in File \ {f} : file'[g] = file[g]
      /\ job'[r] = w /\ \A s \in Run \ {r} : job'[s] = job[s] /\ job[s] = <<>>
    BY <1>1, <1>2, <1>3, Writer DEF TypeOK
<1>6. TypeOK'
    BY <1>2, <1>3, <1>4 DEF TypeOK
<1>7. OneStarts'
    <2>1. Starting(r) /\ \A s \in Run : Starting(s)' => Starting(s)
        BY <1>2, <1>5 DEF Starting
    <2> QED
        BY <1>3, <2>1 DEF OneStarts
<1>8. r \in Joins <=> phase[r] = "joined"
    BY <1>3, <1>4, Ids DEF PhaseOf, First
<1>9. x = IF r \in Joins THEN Remote ELSE r
    BY <1>4, <1>8 DEF First
<1>10. KeyInv'
    <2>1. \A n : f = SignKey(n) \/ f = CAKey => x # Remote
        BY <1>4, FilesDiffer, Markers DEF First
    <2>2. ASSUME NEW n \in Node \cup Client, f = Key(n), x = Remote
          PROVE  file[Cert(n)] # Missing
        <3>1. r \in Joins
            BY <1>9, <2>2, Markers
        <3>2. n = IdOf[r]
            BY <1>4, <2>2, FilesDiffer DEF First
        <3> QED
            BY <1>1, <1>2, <1>3, <2>2, <3>1, <3>2 DEF FreshOf, Writing
    <2> QED
        BY <1>3, <1>5, <2>1, <2>2, Files, FilesDiffer, Markers DEF KeyInv
<1>11. ASSUME NEW s \in Run
       PROVE  RunInv(s)'
    <2>1. PhaseOf(s) /\ JobOf(s) /\ HeldOf(s) /\ FreshOf(s)
        BY Parts
    <2>2. PhaseOf(s)' /\ HeldOf(s)'
        BY <1>2, <2>1 DEF PhaseOf, HeldOf, Ran
    <2>3. CASE s # r
        <3>1. JobOf(s)' /\ FreshOf(s)'
            BY <1>5, <2>3, NoJob
        <3> QED
            BY <2>2, <3>1 DEF RunInv
    <2>4. CASE s = r /\ Done(w)
        <3>1. JobOf(s)' /\ FreshOf(s)'
            BY <1>5, <2>4, NoJob DEF Done
        <3> QED
            BY <2>2, <3>1 DEF RunInv
    <2>5. CASE s = r /\ ~Done(w)
        <3>1. JobOf(r)'
            BY <1>2, <1>4, <1>5, <2>5 DEF First, JobOf
        <3>2. FreshOf(r)'
            <4>1. \A g : Writing(r, g)' => g = Target(w)
                BY <1>5 DEF Writing, Target
            <4>2. CASE r \in Joins
                <5>1. Target(w) = Key(IdOf[r]) => f = Cert(IdOf[r])
                    BY <1>4, <1>8, <2>5, <4>2 DEF First
                <5>2. x # Missing
                    BY Markers
                <5> QED
                    BY <1>5, <4>1, <4>2, <5>1, <5>2 DEF FreshOf
            <4>3. CASE r \notin Joins
                <5>1. /\ Target(w) \in {CAKey, Key(IdOf[r])}
                      /\ w \in CertJobs(r) => f = Cert(IdOf[r]) /\ phase[r] \in {"tls", "enrolled"}
                    <6>1. \A j \in Both(r, CACert, CAKey) : j \notin CertJobs(r)
                        BY BothFirst, CertJob, FilesDiffer
                    <6>2. CASE phase[r] \in {"node", "client"}
                        <7>1. w \in Both(r, CACert, CAKey) /\ Target(w) = CAKey
                            BY <1>4, <2>5, <6>2 DEF First
                        <7> QED
                            BY <6>1, <7>1
                    <6>3. CASE phase[r] \in {"tls", "enrolled"}
                        <7>1. Target(w) = Key(IdOf[r]) /\ f = Cert(IdOf[r])
                            BY <1>4, <2>5, <6>3 DEF First
                        <7> QED
                            BY <6>3, <7>1
                    <6>4. phase[r] \in {"node", "client", "tls", "enrolled"}
                        BY <1>4, <1>8, <2>5, <4>3 DEF First
                    <6> QED
                        BY <6>2, <6>3, <6>4
                <5>2. w \in CertJobs(r) => file[Key(IdOf[r])] # Remote
                    <6>1. w \in CertJobs(r) => job[r] \in CertJobs(r)
                        BY <1>2, <1>3, <5>1 DEF JobOf
                    <6> QED
                        BY <1>3, <4>3, <6>1 DEF FreshOf
                <5>3. Cert(IdOf[r]) # Key(IdOf[r]) /\ Key(IdOf[r]) \in File
                    BY Files, FilesDiffer, Ids
                <5> QED
                    BY <1>5, <4>1, <4>3, <5>1, <5>2, <5>3, FilesDiffer, ZenonT(60) DEF FreshOf
            <4> QED
                BY <4>2, <4>3
        <3> QED
            BY <2>2, <2>5, <3>1, <3>2 DEF RunInv
    <2> QED
        BY <2>3, <2>4, <2>5
<1>12. ASSUME ~Joined'
       PROVE  CertInv' /\ \A s \in Run : MadeOf(s)'
    <2>1. ~Joined /\ r \notin Joins /\ x = r
        BY <1>2, <1>9, <1>12, Writer DEF Joined
    <2>2. CertInv /\ \A s \in Run : MadeOf(s)
        BY <2>1 DEF IndInv
    <2>3. \A g \in File : file[g] \in Maker => file'[g] = file[g]
        BY <1>2, <1>5, Markers
    <2>4. CertInv'
        <3> SUFFICES ASSUME NEW i \in Node \cup Client, file'[Cert(i)] \in Maker
                     PROVE  LET y == file'[Cert(i)] IN
                            y \in Run /\ IdOf[y] = i /\ signer[y] = file'[CACert] /\ phase[y] \notin Early
            BY <1>2 DEF CertInv
        <3>1. CASE f = Cert(i)
            <4>1. i = IdOf[r] /\ phase[r] \in {"tls", "enrolled"}
                BY <1>4, <1>8, <2>1, <3>1, FilesDiffer DEF First
            <4>2. signer[r] = file[CACert]
                BY <1>1, <1>2, <2>2, <3>1, <4>1 DEF MadeOf, Writing
            <4>3. file'[CACert] = file[CACert]
                BY <1>5, <3>1, Files, FilesDiffer
            <4> QED
                BY <1>5, <2>1, <3>1, <4>1, <4>2, <4>3 DEF Early
        <3>2. CASE f # Cert(i)
            <4>1. file'[Cert(i)] = file[Cert(i)]
                BY <1>5, <3>2, Files
            <4>2. PICK y \in Run : y = file[Cert(i)] /\ IdOf[y] = i /\ signer[y] = file[CACert]
                                    /\ phase[y] \notin Early
                BY <2>2, <4>1 DEF CertInv
            <4>3. signer[y] = file'[CACert]
                BY <1>3, <2>3, <4>2, Files, Markers DEF TypeOK
            <4> QED
                BY <4>1, <4>2, <4>3
        <3> QED
            BY <3>1, <3>2
    <2>5. ASSUME NEW s \in Run
          PROVE  MadeOf(s)'
        <3>1. MadeOf(s) /\ held[s] \in Memory /\ signer[s] \in Maker
            BY <1>3, <2>2, Markers DEF TypeOK
        <3>2. {held[s].ca, held[s].gossip, held[s].sign, held[s].cert} \subseteq Maker \cup {Missing}
            BY <3>1, Memories
        <3>3. (held[s].sign # Missing => SignKey(IdOf[s]) \in File) /\ Cert(IdOf[s]) \in File
            BY Parts, Ids, Files DEF HeldOf
        <3>4. ASSUME NEW y \in Maker \cup {Missing}, NEW g, Kept(s, y, g), y # Missing => g \in File
              PROVE  Kept(s, y, g)'
            <4>1. CASE Writing(s, g) /\ y = s
                <5>1. s = r /\ f = g
                    BY <1>1, <1>5, <4>1 DEF Writing
                <5> QED
                    BY <1>5, <2>1, <4>1, <5>1 DEF Kept
            <4>2. CASE ~(Writing(s, g) /\ y = s)
                BY <2>3, <3>4, <4>2 DEF Kept
            <4> QED
                BY <4>1, <4>2
        <3>5. ~Writing(s, Cert(IdOf[s]))'
            <4>1. CASE s # r
                BY <1>5, <4>1 DEF Writing
            <4>2. CASE s = r
                BY <1>4, <1>5, <1>8, <2>1, <4>2, FilesDiffer, ZenonT(60) DEF First, Writing, Target, Done
            <4> QED
                BY <4>1, <4>2
        <3>6. /\ Kept(s, held[s].ca, CACert)' /\ Kept(s, held[s].gossip, GossipKey)'
              /\ Kept(s, held[s].sign, SignKey(IdOf[s]))'
            BY <1>2, <3>1, <3>2, <3>3, <3>4, Files DEF MadeOf
        <3>7. held[s].cert # Missing => held[s].cert = file'[Cert(IdOf[s])]
            BY <2>3, <3>1, <3>2, <3>3 DEF MadeOf
        <3> QED
            BY <1>2, <3>5, <3>6, <3>7 DEF MadeOf
    <2> QED
        BY <2>4, <2>5
<1> QED
    BY <1>6, <1>7, <1>10, <1>11, <1>12 DEF IndInv
-----------------------------------------------------------------------------
(* The theorems.                                                           *)

\* A start that fails: it is not a join, and has begun.
LEMMA FailStep ==
    ASSUME IndInv, NEW r \in Run, NEW ph \in {"ca", "node", "tls", "sign", "client", "load", "dial"},
           At(r, ph), Fail(r)
    PROVE  IndInv'
<1>1. PhaseOf(r)
    BY Parts
<1>2. phase[r] \notin {"idle", "joined"} /\ Kind[r] # "join" /\ job[r] = <<>>
    BY <1>1 DEF At, PhaseOf
<1> QED
    BY <1>2, EndStep DEF Fail

LEMMA InitInv == Init => IndInv
<1> SUFFICES ASSUME Init
             PROVE  IndInv
    OBVIOUS
<1>1. TypeOK
    BY Markers, Memories, NodeIdentityAssumption DEF Init, TypeOK, Phase
<1>2. OneStarts
    BY DEF Init, OneStarts, Starting
<1>3. KeyInv
    BY Files, Markers DEF Init, KeyInv
<1>4. ASSUME NEW r \in Run
      PROVE  RunInv(r) /\ MadeOf(r)
    <2>1. phase[r] = "idle" /\ job[r] = <<>> /\ held[r] = Nothing
        BY DEF Init
    <2>2. <<>> \notin CertJobs(r)
        BY CertJob
    <2>3. PhaseOf(r) /\ JobOf(r)
        BY <2>1 DEF PhaseOf, JobOf
    <2>4. HeldOf(r) /\ FreshOf(r)
        BY <2>1, <2>2, Memories DEF HeldOf, Ran, FreshOf, Writing
    <2>5. MadeOf(r)
        BY <2>1, Memories DEF MadeOf, Kept, Writing
    <2> QED
        BY <2>3, <2>4, <2>5 DEF RunInv
<1>5. CertInv
    BY Files, Markers DEF Init, CertInv
<1> QED
    BY <1>1, <1>2, <1>3, <1>4, <1>5 DEF IndInv

LEMMA NextInv == IndInv /\ [Next]_vars => IndInv'
<1> SUFFICES ASSUME IndInv, [Next]_vars
             PROVE  IndInv'
    OBVIOUS
<1>1. CASE UNCHANGED vars
    <2>1. /\ file' = file /\ signer' = signer /\ expired' = expired /\ phase' = phase
          /\ job' = job /\ held' = held /\ crashes' = crashes
        BY <1>1 DEF vars
    <2>2. TypeOK' /\ OneStarts' /\ KeyInv' /\ (~Joined' => ~Joined /\ CertInv')
        BY <2>1 DEF IndInv, TypeOK, OneStarts, Starting, KeyInv, Joined, CertInv
    <2>3. \A s \in Run : RunInv(s)'
        BY <2>1, SameRun DEF IndInv
    <2>4. ~Joined => \A s \in Run : MadeOf(s)'
        BY <2>1, SameMade DEF IndInv
    <2> QED
        BY <2>2, <2>3, <2>4 DEF IndInv
<1>2. ASSUME NEW r \in Run, Start(r) \/ StartClient(r)
      PROVE  IndInv'
    BY <1>2, StartStep
<1>3. ASSUME NEW r \in Run, LoadCAFails(r) \/ EnsureNodeCertFails(r) \/ TLSConfigFails(r) \/ SignerFails(r)
                            \/ EnsureClientCertFails(r) \/ LoadClientFails(r)
                            \/ \E s \in Run : DialFails(r, s)
      PROVE  IndInv'
    <2>1. PICK ph \in {"ca", "node", "tls", "sign", "client", "load", "dial"} : At(r, ph) /\ Fail(r)
        BY <1>3 DEF LoadCAFails, EnsureNodeCertFails, TLSConfigFails, SignerFails,
                    EnsureClientCertFails, LoadClientFails, DialFails
    <2> QED
        BY <2>1, FailStep
<1>4. ASSUME NEW r \in Run, NEW s \in Run, Dial(r, s)
      PROVE  IndInv'
    <2>1. PhaseOf(r)
        BY Parts
    <2>2. phase[r] = "dial" /\ job[r] = <<>> /\ Kind[r] # "join"
        BY <1>4, <2>1 DEF Dial, At, PhaseOf
    <2> QED
        BY <1>4, <2>2, EndStep DEF Dial
<1>5. ASSUME NEW r \in Run, Stop(r)
      PROVE  IndInv'
    <2>1. PhaseOf(r)
        BY Parts
    <2>2. phase[r] = "up" /\ job[r] = <<>> /\ Kind[r] # "join"
        BY <1>5, <2>1 DEF Stop, At, PhaseOf
    <2> QED
        BY <1>5, <2>2, EndStep DEF Stop
<1> QED
    BY <1>1, <1>2, <1>3, <1>4, <1>5, CAStep, CertStep, CrashStep, TLSStep, LoadStep, KeyStep, SignStep,
       JoinStep, ExpireStep, TruncateStep, WriteStep DEF Next

\* The inductive invariant holds, whatever starts are cut off and in whatever order.
THEOREM Invariance == Spec => []IndInv
    BY InitInv, NextInv, PTL DEF Spec

\* What a run that came to its certificate has in memory is what the files hold.
LEMMA InFiles ==
    ASSUME IndInv, ~Joined, NEW q \in Run, held[q].cert # Missing,
           phase[q] \in {"dial", "up", "pushed", "stopped"}
    PROVE  /\ held[q].ca = file[CACert] /\ held[q].cert = file[Cert(IdOf[q])]
           /\ held[q].cert \in Run /\ IdOf[held[q].cert] = IdOf[q]
           /\ signer[held[q].cert] = file[CACert]
           /\ Ran(q) /\ Kind[q] = "node" => held[q].gossip = file[GossipKey]
<1>1. HeldOf(q) /\ MadeOf(q) /\ held[q] \in Memory /\ CertInv
    BY Parts
<1>2. ~Writing(q, CACert) /\ ~Writing(q, GossipKey)
    <2>1. CASE job[q] = <<>>
        BY <2>1 DEF Writing
    <2>2. CASE job[q] # <<>>
        <3>1. Head(job[q])[1] = SignKey(IdOf[q])
            BY <2>2, FirstWrite DEF First
        <3> QED
            BY <3>1, FilesDiffer DEF Writing
    <2> QED
        BY <2>1, <2>2
<1>3. held[q].ca = file[CACert] /\ held[q].cert = file[Cert(IdOf[q])]
    BY <1>1, <1>2 DEF HeldOf, MadeOf, Kept
<1>4. held[q].cert \in Maker
    BY <1>1, Memories
<1>5. Ran(q) /\ Kind[q] = "node" => held[q].gossip = file[GossipKey]
    BY <1>1, <1>2 DEF HeldOf, MadeOf, Kept
<1>6. IdOf[q] \in Node \cup Client
    BY Ids
<1> QED
    BY <1>1, <1>3, <1>4, <1>5, <1>6 DEF CertInv

\* OneTrust: nodes and pushes on a directory that no join has changed trust one CA,
\* which signed the certificates of all of them, and share one gossip secret.
THEOREM OneTrustHolds == Spec => []OneTrust
<1>1. ASSUME IndInv
      PROVE  OneTrust
    BY <1>1, InFiles, ZenonT(60) DEF OneTrust, Ran
<1> QED
    BY <1>1, Invariance, PTL

\* KeepsIdentity: a node or a client that starts again has the certificate, and the
\* node the signing key, that it had, unless a join replaced it.
THEOREM KeepsIdentityHolds == Spec => []KeepsIdentity
<1>1. ASSUME IndInv
      PROVE  KeepsIdentity
    <2> SUFFICES ASSUME NEW r \in Run, NEW s \in Run, ~Joined, Ran(r), Ran(s), IdOf[r] = IdOf[s]
                 PROVE  /\ held[r].cert = held[s].cert
                        /\ Kind[r] = Kind[s] => held[r].sign = held[s].sign
        BY DEF KeepsIdentity
    <2>1. held[r].cert = held[s].cert
        BY <1>1, InFiles DEF Ran
    <2>2. ASSUME Kind[r] = Kind[s], r # s
          PROVE  held[r].sign = held[s].sign
        <3> DEFINE f == SignKey(IdOf[r])
        <3>1. CASE Kind[r] # "node"
            BY <1>1, <2>2, <3>1, Parts DEF HeldOf
        <3>2. CASE Kind[r] = "node"
            <4>1. /\ held[r].sign # Missing /\ Kept(r, held[r].sign, f) /\ held[r].sign \in Maker
                  /\ held[s].sign # Missing /\ Kept(s, held[s].sign, f) /\ held[s].sign \in Maker
                BY <1>1, <2>2, <3>2, Parts, Memories, ZenonT(60) DEF HeldOf, MadeOf
            <4>2. ~(Writing(r, f) /\ Writing(s, f))
                BY <1>1, <2>2, Writer DEF Writing
            <4>3. \A q \in {r, s} : Writing(q, f) => file[f] \notin Maker
                <5>1. \A q \in {r, s} : q \notin Joins /\ FreshOf(q) /\ IdOf[q] = IdOf[r]
                    BY <1>1, <2>2, <3>2, Parts, Ids
                <5> QED
                    BY <5>1, Markers DEF FreshOf
            <4> QED
                BY <4>1, <4>2, <4>3 DEF Kept
        <3> QED
            BY <3>1, <3>2
    <2> QED
        BY <2>1, <2>2
<1> QED
    BY <1>1, Invariance, PTL

\* EnrolledConnects: a client that has read its files and dials a node that is up is
\* refused only when a certificate has expired or the client was enrolled for another
\* cluster, as long as no join replaced the CA.
THEOREM EnrolledConnectsHolds == Spec => []EnrolledConnects
<1>1. ASSUME IndInv
      PROVE  EnrolledConnects
    <2> SUFFICES ASSUME NEW r \in Run, NEW s \in Run, ~Joined, At(r, "dial"), At(s, "up"),
                        Kind[s] = "node"
                 PROVE  \/ Accepts(r, s) \/ ClusterOf[held[r].cert] # ClusterOf[s]
                        \/ {held[r].cert, held[s].cert} \cap expired # {}
        BY DEF EnrolledConnects
    <2>1. \A q \in {r, s} :
              /\ held[q].ca = file[CACert] /\ held[q].cert \in Run
              /\ IdOf[held[q].cert] = IdOf[q] /\ signer[held[q].cert] = file[CACert]
        <3>1. held[r].cert # Missing /\ held[s].cert # Missing
            BY <1>1, Parts DEF HeldOf, At
        <3> QED
            BY <1>1, <3>1, InFiles DEF At
    <2>2. IdOf[r] \in Client
        BY <1>1, Parts, Ids DEF PhaseOf, At
    <2> QED
        BY <2>1, <2>2 DEF Accepts, Verifies, ParseClientID
<1> QED
    BY <1>1, Invariance, PTL

\* StartKeepsJoined: what a join installed is replaced by another join only, never by
\* a start, whether or not that start gets through.
THEOREM StartKeepsJoinedHolds == Spec => StartKeepsJoined
<1> DEFINE Keeps == \A f \in File : (file[f] = Remote /\ file'[f] # Remote) =>
                        \E r \in Joins : job[r] # <<>> /\ Head(job[r])[1] = f
<1>1. ASSUME IndInv, [Next]_vars
      PROVE  Keeps
    <2> SUFFICES ASSUME NEW f \in File, file[f] = Remote, file'[f] # Remote
                 PROVE  \E r \in Joins : job[r] # <<>> /\ Head(job[r])[1] = f
        OBVIOUS
    <2>1. PICK r \in Run : Truncate(r)
        <3>1. TypeOK /\ Remote # Torn
            BY <1>1, Markers DEF IndInv
        <3> QED
            BY <1>1, <3>1, ZenonT(60) DEF Next, vars, TypeOK, Start, InstallFromJoin, WriteFile, LoadOrCreateCA,
               LoadCAFails, EnsureNodeCert, EnsureNodeCertFails, TLSConfig, TLSConfigFails, Fail,
               LoadOrCreateKey, EnsureGossipSigner, SignerFails, EnsureClientCert,
               EnsureClientCertFails, StartClient, LoadClientTLSConfig, LoadClientFails, Dial,
               DialFails, Expire, Stop, Crash
    <2>2. job[r] # <<>> /\ Head(job[r])[1] = f
        BY <1>1, <2>1 DEF Truncate, IndInv, TypeOK
    <2>3. ASSUME r \notin Joins
          PROVE  FALSE
        <3>1. Replaces(f) /\ FreshOf(r) /\ KeyInv /\ JobOf(r)
            BY <1>1, <2>2, <2>3, StartReplaces, Parts DEF IndInv
        <3>2. f \in {CAKey, Key(IdOf[r])}
            <4>1. f \in {CACert, CAKey, GossipKey, Cert(IdOf[r]), Key(IdOf[r]), SignKey(IdOf[r])}
                BY <1>1, <2>2, FirstWrite DEF First
            <4> QED
                BY <3>1, <4>1, Markers DEF Replaces
        <3>3. f = Key(IdOf[r])
            BY <3>1, <3>2 DEF KeyInv
        <3>4. phase[r] \in {"tls", "enrolled"}
            <4>1. phase[r] # "joined"
                BY <1>1, <2>3, Parts, Ids DEF PhaseOf
            <4> DEFINE x == Head(job[r])[2]
                       w == Tail(job[r])
            <4>2. First(r, f, x, w)
                BY <1>1, <2>2, FirstWrite
            <4> HIDE DEF x, w
            <4> QED
                BY <3>3, <4>1, <4>2, FilesDiffer, ZenonT(60) DEF First
        <3>5. job[r] \in CertJobs(r)
            BY <2>2, <3>1, <3>4 DEF JobOf
        <3> QED
            BY <2>3, <3>1, <3>3, <3>5 DEF FreshOf
    <2> QED
        BY <2>2, <2>3
<1> QED
    BY <1>1, Invariance, PTL DEF Spec, StartKeepsJoined
=============================================================================
