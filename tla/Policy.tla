------------------------------- MODULE Policy -------------------------------
(***************************************************************************)
(* The access policy of every node (package policy), and the policy        *)
(* bundles that operators push to the nodes.  A node starts with the rules *)
(* of its --allow-service flag; each bundle is handed to ApplyBundle, which *)
(* replaces the rules or refuses the bundle.  Bundles reach the nodes in   *)
(* any order, more than once, or not at all.  The order of the patterns of *)
(* a list changes no answer of Allow, so a list is a set here.             *)
(***************************************************************************)
EXTENDS Integers

CONSTANTS
    Node,
    Service,        \* service names a client asks for
    Pattern,        \* service patterns of rules and flags
    Matches,        \* Matches[p]: the services that pattern p matches
    NoService,      \* a PolicyMatch that names no service
    Cluster,
    NoCluster,      \* the empty cluster name
    AllowFlag,      \* AllowFlag[n]: the patterns of n's --allow-service flag
    Bundle,         \* the policy bundles that operators push
    MinVersion      \* the min_version values of push requests

\* A rule of a bundle: its subject, and what it allows and denies.
Rule == [subject : STRING, allow : SUBSET (Pattern \cup {NoService}),
         deny : SUBSET (Pattern \cup {NoService})]

ASSUME PolicyAssumption ==
    /\ Matches \in [Pattern -> SUBSET Service]
    /\ NoService \notin Pattern /\ NoCluster \notin Cluster
    /\ AllowFlag \in [Node -> SUBSET Pattern]
    /\ Bundle \subseteq [version : Nat, cluster : Cluster \cup {NoCluster},
                         rules : SUBSET Rule]
    /\ MinVersion \subseteq Nat

VARIABLES
    allowServices,  \* allowServices[n], denyServices[n]: the rules of n's Policy
    denyServices,
    permissive,     \* the nodes whose Policy allows everything
    version,        \* version[n], cluster[n]: those of the last bundle applied
    cluster,
    received,       \* received[n]: the bundles handed to n with a low enough min_version
    reply           \* the last answer of ApplyBundle: node, bundle, accepted version

vars == <<allowServices, denyServices, permissive, version, cluster, received, reply>>

NoReply == [node |-> NoService]

TypeOK ==
    /\ allowServices \in [Node -> SUBSET Pattern]
    /\ denyServices \in [Node -> SUBSET Pattern]
    /\ permissive \subseteq Node
    /\ version \in [Node -> Nat]
    /\ cluster \in [Node -> Cluster \cup {NoCluster}]
    /\ received \in [Node -> SUBSET Bundle]
    /\ reply \in {NoReply} \cup [node : Node, bundle : Bundle, accepted : Nat]

\* Agent.Run: Permissive without a flag, New and AllowService with one.
Init ==
    /\ allowServices = AllowFlag
    /\ denyServices = [n \in Node |-> {}]
    /\ permissive = {n \in Node : AllowFlag[n] = {}}
    /\ version = [n \in Node |-> 0]
    /\ cluster = [n \in Node |-> NoCluster]
    /\ received = [n \in Node |-> {}]
    /\ reply = NoReply
-----------------------------------------------------------------------------
\* Slip: an allow rule is looked at before the deny rules.
AllowFirst(n, s) ==
    \/ n \in permissive
    \/ \E p \in allowServices[n] : s \in Matches[p]
    \/ denyServices[n] = {} /\ allowServices[n] = {}

\* Policy.Allow: deny rules first; with no rules at all, yes.
Allow(n, s) ==
    \/ n \in permissive
    \/ /\ \A p \in denyServices[n] : s \notin Matches[p]
       /\ IF allowServices[n] = {} THEN denyServices[n] = {}
                                   ELSE \E p \in allowServices[n] : s \in Matches[p]

\* The rules of a bundle that are applied: those for every subject.
GlobalRules(b) == {r \in b.rules : r.subject \in {"", "*"}}

\* Slip: a match that names no service is kept as an empty pattern.
AllowsWithEmpty(b) == UNION {r.allow : r \in GlobalRules(b)}

AllowsOf(b) == (UNION {r.allow : r \in GlobalRules(b)}) \ {NoService}
DeniesOf(b) == (UNION {r.deny : r \in GlobalRules(b)}) \ {NoService}

\* Slip: any bundle of the right cluster replaces the rules.
AcceptsAnyVersion(n, b) ==
    b.cluster = NoCluster \/ cluster[n] = NoCluster \/ b.cluster = cluster[n]

\* ApplyBundle's checks under the lock: the cluster, then the version.
Accepts(n, b) ==
    /\ b.cluster = NoCluster \/ cluster[n] = NoCluster \/ b.cluster = cluster[n]
    /\ b.version > version[n]

\* The rules, the version and the cluster of the Policy become the bundle's.
Replace(n, b) ==
    /\ allowServices' = [allowServices EXCEPT ![n] = AllowsOf(b)]
    /\ denyServices' = [denyServices EXCEPT ![n] = DeniesOf(b)]
    /\ permissive' = permissive \ {n}
    /\ version' = [version EXCEPT ![n] = b.version]
    /\ cluster' = [cluster EXCEPT ![n] = b.cluster]

\* ApplyBundle: a bundle older than min_version is not looked at; one that is
\* refused leaves the Policy alone; the answer is the version in force.
ApplyBundle(n, b, min) ==
    /\ IF b.version >= min /\ Accepts(n, b)
         THEN Replace(n, b)
         ELSE UNCHANGED <<allowServices, denyServices, permissive, version, cluster>>
    /\ received' = IF b.version >= min THEN [received EXCEPT ![n] = @ \cup {b}]
                                       ELSE received
    /\ reply' = [node |-> n, bundle |-> b, accepted |-> version'[n]]

Next == \E n \in Node, b \in Bundle, min \in MinVersion : ApplyBundle(n, b, min)

Spec == Init /\ [][Next]_vars
-----------------------------------------------------------------------------
\* ApplyBundle, bundles delivered late, twice or in any order: the rules in
\* force at a node are those of a bundle it received, or of its flag before the
\* first one.  As long as every bundle it received names a cluster, which those
\* of push-policy do, it received no newer bundle of that cluster.
HighestWins ==
    \A n \in Node :
        LET named == \A c \in received[n] : c.cluster # NoCluster IN
        \/ /\ version[n] = 0 /\ cluster[n] = NoCluster
           /\ allowServices[n] = AllowFlag[n] /\ denyServices[n] = {}
           /\ n \in permissive <=> AllowFlag[n] = {}
           /\ named => \A c \in received[n] : c.version = 0
        \/ \E b \in received[n] :
              /\ version[n] = b.version /\ cluster[n] = b.cluster
              /\ allowServices[n] = AllowsOf(b) /\ denyServices[n] = DeniesOf(b)
              /\ n \notin permissive
              /\ named => \A c \in received[n] :
                              c.cluster = b.cluster => c.version <= b.version

\* Policy.Allow after ApplyBundle: a service that a rule of the bundle in force
\* denies to everyone is refused, and when the bundle lists allowed services,
\* every other service is refused too.
Enforced ==
    \A n \in Node : version[n] > 0 =>
        \E b \in received[n] :
            /\ b.version = version[n]
            /\ \A r \in GlobalRules(b), p \in Pattern : p \in r.deny =>
                   \A s \in Matches[p] : ~Allow(n, s)
            /\ \A s \in Service : Allow(n, s) =>
                   \/ AllowsOf(b) = {}
                   \/ \E r \in GlobalRules(b), p \in Pattern : p \in r.allow /\ s \in Matches[p]

\* policy.go:122: "Empty bundle means default-deny (not permissive)."
EmptyBundleDenies ==
    \A n \in Node : (version[n] > 0 /\ allowServices[n] = {} /\ denyServices[n] = {}) =>
        \A s \in Service : ~Allow(n, s)

\* policy.go:81: "Returns accepted version or an error when rejected."  An
\* answer that names the version of the pushed bundle means that the bundle's
\* rules are in force.
AnsweredMeansApplied ==
    (reply # NoReply /\ reply.accepted = reply.bundle.version) =>
        /\ allowServices[reply.node] = AllowsOf(reply.bundle)
        /\ denyServices[reply.node] = DeniesOf(reply.bundle)
=============================================================================
