----------------------------- MODULE JoinTokens -----------------------------
(***************************************************************************)
(* Join tokens: the store in join_tokens.json (package jointoken), the     *)
(* node that consumes tokens in its JoinCluster handlers, and the          *)
(* "token create" commands that add tokens to the same file.  The node     *)
(* reads the file once, when it starts; every save writes the whole map.   *)
(* os.WriteFile truncates the file and then writes it, so another process, *)
(* or the next start after a crash, may find it torn.                      *)
(***************************************************************************)
EXTENDS Integers

CONSTANTS
    Token,
    NodeID,         \* node ids that joins ask for
    Taken,          \* the ids of members, of this node and of certificates on disk
    Request,        \* JoinCluster calls
    Command,        \* runs of "token create"
    Torn,           \* what a file in the middle of a write holds
    NoRequest,
    WhileRunning,   \* whether "token create" is also run while the node is up
    MaxCrashes

ASSUME JoinTokensAssumption ==
    /\ Taken \subseteq NodeID /\ NoRequest \notin Request
    /\ WhileRunning \in BOOLEAN /\ MaxCrashes \in Nat
    /\ Torn \notin [known : SUBSET Token, used : SUBSET Token]

\* Store.data: the tokens in the map, and those marked as used.
Entries == [known : SUBSET Token, used : SUBSET Token]
Empty == [known |-> {}, used |-> {}]

VARIABLES
    up,             \* the node runs
    data,           \* the map in the node's memory
    lock,           \* the handler that holds Store.mu across a save
    disk,           \* join_tokens.json; a missing file reads as the empty map
    pc,             \* pc[r]: where a JoinCluster call is
    token,          \* token[r], node[r]: its arguments
    node,
    step,           \* step[c]: where a "token create" is
    copy,           \* copy[c]: the map in its memory
    created,        \* created[c]: the token it made
    expired,        \* tokens whose ttl is over
    issued,         \* certificates handed out: call, token and node id
    crashes

storeVars == <<data, lock, disk>>
callVars == <<pc, token, node>>
commandVars == <<step, copy, created>>
vars == <<up, storeVars, callVars, commandVars, expired, issued, crashes>>

TypeOK ==
    /\ up \in BOOLEAN
    /\ data \in Entries /\ disk \in Entries \cup {Torn}
    /\ lock \in Request \cup {NoRequest}
    /\ pc \in [Request -> {"idle", "consume", "truncate", "write", "issue",
                           "granted", "denied", "lost"}]
    /\ token \in [Request -> Token] /\ node \in [Request -> NodeID]
    /\ step \in [Command -> {"idle", "create", "truncate", "write", "printed", "failed"}]
    /\ copy \in [Command -> Entries] /\ created \in [Command -> Token]
    /\ expired \subseteq Token
    /\ issued \subseteq [call : Request, token : Token, node : NodeID]
    /\ crashes \in 0..MaxCrashes

Init ==
    /\ up = FALSE /\ data = Empty /\ disk = Empty /\ lock = NoRequest
    /\ pc = [r \in Request |-> "idle"]
    /\ token \in [Request -> Token] /\ node \in [Request -> NodeID]
    /\ step = [c \in Command |-> "idle"] /\ copy = [c \in Command |-> Empty]
    /\ created \in [Command -> Token]
    /\ \A c, d \in Command : created[c] = created[d] => c = d
    /\ expired = {} /\ issued = {} /\ crashes = 0
-----------------------------------------------------------------------------
Working(c) == step[c] \in {"create", "truncate", "write"}

\* What a write leaves in the file: the map; or a mixture of two maps, when
\* another process wrote between the truncation and the write.
Written(entries) == IF disk = Torn THEN {entries} ELSE {entries, Torn}

\* Slip: a file that does not parse is taken as it is.
OpenTorn ==
    /\ ~up
    /\ WhileRunning \/ \A c \in Command : ~Working(c)
    /\ up' = TRUE /\ data' = disk /\ lock' = NoRequest
    /\ UNCHANGED <<disk, callVars, commandVars, expired, issued, crashes>>

\* Agent.Run, jointoken.Open: the node starts and reads the file.  With a torn
\* file it does not start.
Open ==
    /\ ~up /\ disk # Torn
    /\ WhileRunning \/ \A c \in Command : ~Working(c)
    /\ up' = TRUE /\ data' = disk /\ lock' = NoRequest
    /\ UNCHANGED <<disk, callVars, commandVars, expired, issued, crashes>>

\* The process ends at any point; its handlers go with it.
Crash ==
    /\ up /\ crashes < MaxCrashes
    /\ up' = FALSE /\ crashes' = crashes + 1 /\ lock' = NoRequest
    /\ pc' = [r \in Request |-> IF pc[r] \in {"consume", "truncate", "write", "issue"}
                                  THEN "lost" ELSE pc[r]]
    /\ UNCHANGED <<data, disk, token, node, commandVars, expired, issued>>

Expire(t) ==
    /\ t \notin expired
    /\ expired' = expired \cup {t}
    /\ UNCHANGED <<up, storeVars, callVars, commandVars, issued, crashes>>
-----------------------------------------------------------------------------
\* cliTokenCreate, jointoken.Open: the command reads the file, or gives up.
CommandOpen(c) ==
    /\ step[c] = "idle" /\ (WhileRunning \/ ~up)
    /\ step' = [step EXCEPT ![c] = IF disk = Torn THEN "failed" ELSE "create"]
    /\ copy' = IF disk = Torn THEN copy ELSE [copy EXCEPT ![c] = disk]
    /\ UNCHANGED <<up, storeVars, callVars, created, expired, issued, crashes>>

\* Store.Create: the new token goes into the command's own map.
Create(c) ==
    /\ step[c] = "create"
    /\ copy' = [copy EXCEPT ![c].known = @ \cup {created[c]}]
    /\ step' = [step EXCEPT ![c] = "truncate"]
    /\ UNCHANGED <<up, storeVars, callVars, created, expired, issued, crashes>>

CommandTruncate(c) ==
    /\ step[c] = "truncate"
    /\ disk' = Torn /\ step' = [step EXCEPT ![c] = "write"]
    /\ UNCHANGED <<up, data, lock, callVars, copy, created, expired, issued, crashes>>

\* The file is written and the token printed.
CommandWrite(c) ==
    /\ step[c] = "write"
    /\ disk' \in Written(copy[c]) /\ step' = [step EXCEPT ![c] = "printed"]
    /\ UNCHANGED <<up, data, lock, callVars, copy, created, expired, issued, crashes>>

\* The file cannot be opened or written: the command ends and prints nothing.
CommandFails(c) ==
    /\ step[c] \in {"truncate", "write"}
    /\ step' = [step EXCEPT ![c] = "failed"]
    /\ UNCHANGED <<up, storeVars, callVars, copy, created, expired, issued, crashes>>
-----------------------------------------------------------------------------
\* A "ztm-node join" calls JoinCluster.
Call(r) ==
    /\ up /\ pc[r] = "idle"
    /\ pc' = [pc EXCEPT ![r] = "consume"]
    /\ UNCHANGED <<up, storeVars, token, node, commandVars, expired, issued, crashes>>

\* Slip: the ttl is not looked at.
ValidForEver(t) == t \in data.known /\ t \notin data.used

\* The checks of Store.Consume.
Valid(t) == t \in data.known /\ t \notin data.used /\ t \notin expired

\* Store.Consume takes the lock and refuses the token.
Refuse(r) ==
    /\ pc[r] = "consume" /\ lock = NoRequest /\ ~Valid(token[r])
    /\ pc' = [pc EXCEPT ![r] = "denied"]
    /\ UNCHANGED <<up, storeVars, token, node, commandVars, expired, issued, crashes>>

\* Store.Consume takes the lock, keeps it for the save, and marks the token.
Mark(r) ==
    /\ pc[r] = "consume" /\ lock = NoRequest /\ Valid(token[r])
    /\ lock' = r /\ data' = [data EXCEPT !.used = @ \cup {token[r]}]
    /\ pc' = [pc EXCEPT ![r] = "truncate"]
    /\ UNCHANGED <<up, disk, token, node, commandVars, expired, issued, crashes>>

SaveTruncate(r) ==
    /\ pc[r] = "truncate"
    /\ disk' = Torn /\ pc' = [pc EXCEPT ![r] = "write"]
    /\ UNCHANGED <<up, data, lock, token, node, commandVars, expired, issued, crashes>>

\* Slip: Consume fails without giving the lock back.
SaveFailsLocked(r) ==
    /\ pc[r] \in {"truncate", "write"}
    /\ pc' = [pc EXCEPT ![r] = "denied"]
    /\ UNCHANGED <<up, storeVars, token, node, commandVars, expired, issued, crashes>>

\* Slip: the map is saved without the marks.
SaveUnmarked(r) ==
    /\ pc[r] = "write"
    /\ disk' \in Written([data EXCEPT !.used = {}]) /\ lock' = NoRequest
    /\ pc' = [pc EXCEPT ![r] = "issue"]
    /\ UNCHANGED <<up, data, token, node, commandVars, expired, issued, crashes>>

\* saveLocked is done, and Consume returns.
SaveWrite(r) ==
    /\ pc[r] = "write"
    /\ disk' \in Written(data) /\ lock' = NoRequest
    /\ pc' = [pc EXCEPT ![r] = "issue"]
    /\ UNCHANGED <<up, data, token, node, commandVars, expired, issued, crashes>>

\* The file cannot be opened or written: Consume fails, the mark stays in memory.
SaveFails(r) ==
    /\ pc[r] \in {"truncate", "write"}
    /\ lock' = NoRequest /\ pc' = [pc EXCEPT ![r] = "denied"]
    /\ UNCHANGED <<up, data, disk, token, node, commandVars, expired, issued, crashes>>

\* JoinCluster: the node id is taken, or the certificate, the CA's or the gossip secret
\* cannot be had; the token is gone all the same.
NotIssued(r) ==
    /\ pc[r] = "issue"
    /\ pc' = [pc EXCEPT ![r] = "denied"]
    /\ UNCHANGED <<up, storeVars, token, node, commandVars, expired, issued, crashes>>

\* JoinCluster: GenerateNodeCert, which keeps nothing on this node.
Issue(r) ==
    /\ pc[r] = "issue" /\ node[r] \notin Taken
    /\ issued' = issued \cup {[call |-> r, token |-> token[r], node |-> node[r]]}
    /\ pc' = [pc EXCEPT ![r] = "granted"]
    /\ UNCHANGED <<up, storeVars, token, node, commandVars, expired, crashes>>
-----------------------------------------------------------------------------
Handler(r) ==
    \/ Refuse(r) \/ Mark(r) \/ SaveTruncate(r) \/ SaveWrite(r) \/ SaveFails(r)
    \/ NotIssued(r) \/ Issue(r)

Next ==
    \/ Open \/ Crash \/ \E t \in Token : Expire(t)
    \/ \E c \in Command :
          \/ CommandOpen(c) \/ Create(c)
          \/ CommandTruncate(c) \/ CommandWrite(c) \/ CommandFails(c)
    \/ \E r \in Request : Call(r) \/ Handler(r)

Spec == Init /\ [][Next]_vars

\* Handlers do not stop in the middle while their process runs.
Fairness == \A r \in Request : WF_vars(Handler(r))

FairSpec == Spec /\ Fairness
-----------------------------------------------------------------------------
\* Store, "one-time join tokens": over concurrent JoinCluster calls, crashes in
\* the middle of a save and restarts, a token admits one node.
OneTime == \A i, j \in issued : i.token = j.token => i = j

-----------------------------------------------------------------------------
(* The invariant the proofs are by.                                        *)

\* The tokens of certificates handed out are marked in a map.
Marked(entries) == \A i \in issued : i.token \in entries.used

\* The tokens that the operator was given.
Printed == {created[c] : c \in {d \in Command : step[d] = "printed"}}

\* A call that has marked its token and has not been answered.
Holds(r) == pc[r] \in {"truncate", "write", "issue"}

\* Maps: whichever one the next decision will be made from has the marks.  The
\* file may be torn, and a command's copy exists only while the node is down.
MapInv ==
    /\ disk # Torn => Marked(disk)
    /\ up => Marked(data)
    /\ \A c \in Command : Working(c) => ~up /\ Marked(copy[c])

\* ... and lists no token that was not printed, but for a command's new one.
KnownInv ==
    /\ disk # Torn => disk.known \subseteq Printed
    /\ up => data.known \subseteq Printed
    /\ \A c \in Command : Working(c) => copy[c].known \subseteq Printed \cup {created[c]}

\* Calls: a token is held by one call, which nobody was admitted with; when the
\* call is about to be answered the mark is in the file too.
CallInv ==
    /\ \A r \in Request : pc[r] = "consume" => up
    /\ \A r \in Request : Holds(r) =>
           /\ up /\ token[r] \in data.used
           /\ \A i \in issued : i.token # token[r]
    /\ \A r, s \in Request : Holds(r) /\ Holds(s) /\ token[r] = token[s] => r = s
    /\ \A r \in Request : pc[r] = "issue" => disk = Torn \/ token[r] \in disk.used

\* The inductive invariant, when "token create" is used while the node is down:
\* a token is accepted from a map only if it was printed, is held by no other
\* call, and admitted nobody.
IndInv == TypeOK /\ MapInv /\ KnownInv /\ CallInv /\ OneTime

\* What the store, its file and the calls amount to: a call has a token from the
\* mark until it is answered.
Tokens == INSTANCE OneTimeToken WITH
    made <- Printed,
    lapsed <- expired,
    held <- {[call |-> r, token |-> token[r]] : r \in {q \in Request : Holds(q)}},
    admitted <- issued

\* jointoken.Store and JoinCluster implement one-time tokens: through crashes in
\* the middle of saves, failed saves and restarts, only a printed token is taken,
\* before its ttl is over, by one call at a time, and never after an admission.
OneTimeTokens == Tokens!Spec
-----------------------------------------------------------------------------
\* JoinCluster, with the lock kept across the save: a call that is not cut off
\* by a crash is answered.
Answered == \A r \in Request : pc[r] = "consume" ~> pc[r] \in {"granted", "denied", "lost"}

\* store.go:45: "Create issues a new one-time token valid for ttl."  A token
\* that was printed and is neither used nor expired is one the node accepts.
PrintedIsValid ==
    \A c \in Command :
        (up /\ step[c] = "printed" /\ created[c] \notin expired
            /\ \A r \in Request : pc[r] # "idle" => token[r] # created[c]) =>
        Valid(created[c])

\* store.go:30: "Open loads or creates a token store in dataDir."  When no
\* process is writing, the file can be opened.
OpensAgain == (~up /\ \A c \in Command : ~Working(c)) => disk # Torn

\* cmd/ztm-node/main.go:107: "unique node identifier (required)".  No two
\* certificates are handed out for one node id.
UniqueNodeID == \A i, j \in issued : i.node = j.node => i = j
=============================================================================
