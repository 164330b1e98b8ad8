-------------------------- MODULE JoinTokensProofs --------------------------
(***************************************************************************)
(* A join token admits one node, for any number of tokens, calls, commands *)
(* and crashes, when "token create" is used only while the node is down.   *)
(***************************************************************************)
EXTENDS JoinTokens, TLAPS

\* The provers that a step tries, in this order, and the seconds each may take.
USE ZenonT(5), SMTT(30), SMTT(40), SMTT(50), ZenonT(60)

\* Where a call can be.
Where == {"idle", "consume", "truncate", "write", "issue", "granted", "denied", "lost"}
-----------------------------------------------------------------------------
\* The maps of the store keep their shape when a token is added or marked.
LEMMA EntriesTyped ==
    ASSUME NEW e \in Entries, NEW t \in Token
    PROVE  /\ [e EXCEPT !.used = @ \cup {t}] \in Entries
           /\ [e EXCEPT !.known = @ \cup {t}] \in Entries
           /\ [e EXCEPT !.used = @ \cup {t}].used = e.used \cup {t}
           /\ [e EXCEPT !.known = @ \cup {t}].used = e.used
    BY DEF Entries

\* What a write can leave in the file.
LEMMA WrittenIs ==
    ASSUME NEW e, NEW d, d \in Written(e)
    PROVE  d = e \/ d = Torn
    BY DEF Written

\* jointoken.Store and JoinCluster keep the types of their state.
LEMMA TypeStep == TypeOK /\ [Next]_vars => TypeOK'
<1> SUFFICES ASSUME TypeOK, [Next]_vars PROVE TypeOK'
    OBVIOUS
<1> USE JoinTokensAssumption
<1>1. CASE Open
    BY <1>1 DEF TypeOK, Open, callVars, commandVars
<1>2. CASE Crash
    <2>1. crashes' \in 0..MaxCrashes
        BY <1>2 DEF TypeOK, Crash
    <2> QED
        BY <1>2, <2>1 DEF TypeOK, Crash, commandVars
<1>3. ASSUME NEW t \in Token, Expire(t) PROVE TypeOK'
    BY <1>3 DEF TypeOK, Expire, storeVars, callVars, commandVars
<1>4. ASSUME NEW c \in Command, CommandOpen(c) PROVE TypeOK'
    BY <1>4 DEF TypeOK, CommandOpen, storeVars, callVars
<1>5. ASSUME NEW c \in Command, Create(c) PROVE TypeOK'
    <2>1. [copy[c] EXCEPT !.known = @ \cup {created[c]}] \in Entries
        BY EntriesTyped DEF TypeOK
    <2>2. copy' = [copy EXCEPT ![c] = [copy[c] EXCEPT !.known = @ \cup {created[c]}]]
        BY <1>5 DEF Create, TypeOK
    <2>3. copy' \in [Command -> Entries]
        BY <2>1, <2>2 DEF TypeOK
    <2> QED
        BY <1>5, <2>3 DEF TypeOK, Create, storeVars, callVars
<1>6. ASSUME NEW c \in Command, CommandTruncate(c) PROVE TypeOK'
    BY <1>6 DEF TypeOK, CommandTruncate, callVars
<1>7. ASSUME NEW c \in Command, CommandWrite(c) PROVE TypeOK'
    <2>1. disk' = copy[c] \/ disk' = Torn
        BY <1>7, WrittenIs DEF CommandWrite
    <2> QED
        BY <1>7, <2>1 DEF TypeOK, CommandWrite, callVars
<1>7a. ASSUME NEW c \in Command, CommandFails(c) PROVE TypeOK'
    BY <1>7a DEF TypeOK, CommandFails, storeVars, callVars
<1>8. ASSUME NEW r \in Request, Call(r) PROVE TypeOK'
    BY <1>8 DEF TypeOK, Call, storeVars, commandVars
<1>9. ASSUME NEW r \in Request, Refuse(r) PROVE TypeOK'
    BY <1>9 DEF TypeOK, Refuse, storeVars, commandVars
<1>10. ASSUME NEW r \in Request, Mark(r) PROVE TypeOK'
    <2>1. data' \in Entries
        BY <1>10, EntriesTyped DEF TypeOK, Mark
    <2> QED
        BY <1>10, <2>1 DEF TypeOK, Mark, commandVars
<1>11. ASSUME NEW r \in Request, SaveTruncate(r) PROVE TypeOK'
    BY <1>11 DEF TypeOK, SaveTruncate, commandVars
<1>12. ASSUME NEW r \in Request, SaveWrite(r) PROVE TypeOK'
    <2>1. disk' = data \/ disk' = Torn
        BY <1>12, WrittenIs DEF SaveWrite
    <2> QED
        BY <1>12, <2>1 DEF TypeOK, SaveWrite, commandVars
<1>13. ASSUME NEW r \in Request, SaveFails(r) PROVE TypeOK'
    BY <1>13 DEF TypeOK, SaveFails, commandVars
<1>14. ASSUME NEW r \in Request, NotIssued(r) PROVE TypeOK'
    BY <1>14 DEF TypeOK, NotIssued, storeVars, commandVars
<1>15. ASSUME NEW r \in Request, Issue(r) PROVE TypeOK'
    <2>1. issued' \subseteq [call : Request, token : Token, node : NodeID]
        BY <1>15 DEF TypeOK, Issue
    <2> QED
        BY <1>15, <2>1 DEF TypeOK, Issue, storeVars, commandVars
<1>16. CASE UNCHANGED vars
    BY <1>16 DEF TypeOK, vars, storeVars, callVars, commandVars
<1>17. CASE \E r \in Request : Call(r) \/ Handler(r)
    BY <1>8, <1>9, <1>10, <1>11, <1>12, <1>13, <1>14, <1>15, <1>17 DEF Handler
<1> QED
    BY <1>1, <1>2, <1>3, <1>4, <1>5, <1>6, <1>7, <1>7a, <1>16, <1>17 DEF Next

\* A step that hands out no certificate, marks nothing and lets no call get further
\* keeps what is known about maps and calls, if the maps it writes have the marks.
LEMMA QuietStep ==
    ASSUME MapInv, CallInv, OneTime,
           issued' = issued, token' = token, data' = data, up' = up,
           \A r \in Request : Holds(r)' => Holds(r),
           \A r \in Request : pc'[r] = "issue" => pc[r] = "issue",
           \A r \in Request : pc'[r] = "consume" => pc[r] = "consume" \/ up,
           disk' = disk \/ disk' = Torn,
           \A c \in Command : Working(c)' => ~up /\ Marked(copy[c])'
    PROVE  MapInv' /\ CallInv' /\ OneTime'
<1>1. MapInv'
    BY DEF MapInv, Marked
<1>2. CallInv'
    BY DEF CallInv
<1>3. OneTime'
    BY DEF OneTime
<1> QED
    BY <1>1, <1>2, <1>3

\* jointoken.Store and JoinCluster preserve the invariant, one step per action.
LEMMA IndStep ==
    ASSUME ~WhileRunning, TypeOK, MapInv, CallInv, OneTime, [Next]_vars
    PROVE  MapInv' /\ CallInv' /\ OneTime'
<1> USE JoinTokensAssumption
<1>0. TypeOK /\ MapInv /\ CallInv /\ OneTime /\ TypeOK'
    BY TypeStep
<1>p. pc \in [Request -> Where]
    BY <1>0 DEF TypeOK, Where
<1>c. ASSUME UNCHANGED <<up, issued, commandVars>>
      PROVE  \A c \in Command : Working(c)' => ~up /\ Marked(copy[c])'
    BY <1>0, <1>c DEF MapInv, Marked, Working, commandVars
<1>1. CASE Open
    <2>1. /\ up' /\ data' = disk /\ disk # Torn /\ disk' = disk
          /\ issued' = issued /\ pc' = pc /\ token' = token /\ ~up
          /\ step' = step /\ \A c \in Command : ~Working(c)
        BY <1>1 DEF Open, callVars, commandVars
    <2>2. \A r \in Request : ~Holds(r) /\ pc[r] # "consume"
        BY <1>0, <2>1 DEF CallInv
    <2>3. MapInv'
        BY <1>0, <2>1 DEF MapInv, Marked, Working
    <2>4. CallInv'
        BY <2>1, <2>2 DEF CallInv, Holds
    <2> QED
        BY <1>0, <2>1, <2>3, <2>4 DEF OneTime
<1>2. CASE Crash
    <2>1. /\ ~up' /\ data' = data /\ disk' = disk /\ up
          /\ issued' = issued /\ token' = token /\ step' = step /\ copy' = copy
          /\ pc' = [r \in Request |-> IF pc[r] \in {"consume", "truncate", "write", "issue"}
                                        THEN "lost" ELSE pc[r]]
        BY <1>2 DEF Crash, commandVars
    <2>2. \A r \in Request : ~Holds(r)' /\ pc'[r] # "issue" /\ pc'[r] # "consume"
        BY <1>p, <2>1 DEF Holds
    <2>3. MapInv'
        BY <1>0, <2>1 DEF MapInv, Marked, Working
    <2>4. CallInv'
        BY <2>2 DEF CallInv
    <2> QED
        BY <1>0, <2>1, <2>3, <2>4 DEF OneTime
<1>3. ASSUME NEW t \in Token, Expire(t) PROVE MapInv' /\ CallInv' /\ OneTime'
    BY <1>0, <1>p, <1>c, <1>3, QuietStep DEF Expire, storeVars, callVars, Holds
<1>4. ASSUME NEW c \in Command, CommandOpen(c) PROVE MapInv' /\ CallInv' /\ OneTime'
    <2>1. ~up /\ up' = up /\ disk' = disk /\ issued' = issued /\ pc' = pc
        BY <1>4 DEF CommandOpen, storeVars, callVars
    <2>2. ASSUME NEW b \in Command, Working(b)' PROVE Marked(copy[b])'
        <3>1. CASE b = c
            BY <1>0, <1>4, <2>1, <2>2, <3>1 DEF CommandOpen, Working, MapInv, Marked, TypeOK
        <3>2. CASE b # c
            BY <1>0, <1>4, <2>1, <2>2, <3>2 DEF CommandOpen, Working, MapInv, Marked, TypeOK
        <3> QED
            BY <3>1, <3>2
    <2> QED
        BY <1>0, <1>p, <1>4, <2>1, <2>2, QuietStep DEF CommandOpen, storeVars, callVars, Holds
<1>5. ASSUME NEW c \in Command, Create(c) PROVE MapInv' /\ CallInv' /\ OneTime'
    <2>1. /\ Working(c) /\ issued' = issued /\ pc' = pc /\ disk' = disk /\ up' = up
          /\ data' = data /\ token' = token
        BY <1>5 DEF Create, Working, storeVars, callVars
    <2>2. ~up
        BY <1>0, <2>1 DEF MapInv
    <2>3. ASSUME NEW b \in Command, Working(b)' PROVE Marked(copy[b])'
        <3>1. CASE b = c
            <4>1. copy'[c] = [copy[c] EXCEPT !.known = @ \cup {created[c]}]
                BY <1>0, <1>5 DEF Create, TypeOK
            <4>2. copy'[c].used = copy[c].used
                BY <1>0, <4>1, EntriesTyped DEF TypeOK
            <4> QED
                BY <1>0, <2>1, <3>1, <4>2 DEF MapInv, Marked
        <3>2. CASE b # c
            BY <1>0, <1>5, <2>1, <2>3, <3>2 DEF Create, Working, MapInv, Marked, TypeOK
        <3> QED
            BY <3>1, <3>2
    <2> QED
        BY <1>0, <1>p, <2>1, <2>2, <2>3, QuietStep DEF Holds
<1>6. ASSUME NEW c \in Command, CommandTruncate(c) PROVE MapInv' /\ CallInv' /\ OneTime'
    <2>1. /\ Working(c) /\ issued' = issued /\ pc' = pc /\ disk' = Torn /\ up' = up
          /\ data' = data /\ token' = token /\ copy' = copy
        BY <1>6 DEF CommandTruncate, Working, callVars
    <2>2. \A b \in Command : Working(b)' => Working(b)
        BY <1>0, <1>6 DEF CommandTruncate, Working, TypeOK
    <2>3. \A b \in Command : Working(b)' => ~up /\ Marked(copy[b])'
        BY <1>0, <2>1, <2>2 DEF MapInv, Marked
    <2> QED
        BY <1>0, <1>p, <2>1, <2>3, QuietStep DEF Holds
<1>7. ASSUME NEW c \in Command, CommandWrite(c) PROVE MapInv' /\ CallInv' /\ OneTime'
    <2>1. /\ Working(c) /\ issued' = issued /\ pc' = pc /\ up' = up
          /\ data' = data /\ token' = token /\ copy' = copy
        BY <1>7 DEF CommandWrite, Working, callVars
    <2>2. disk' = copy[c] \/ disk' = Torn
        BY <1>7, WrittenIs DEF CommandWrite
    <2>3. ~up /\ Marked(copy[c])
        BY <1>0, <2>1 DEF MapInv
    <2>4. \A b \in Command : Working(b)' => Working(b)
        BY <1>0, <1>7 DEF CommandWrite, Working, TypeOK
    <2>5. MapInv'
        BY <1>0, <2>1, <2>2, <2>3, <2>4 DEF MapInv, Marked
    <2>6. \A r \in Request : ~Holds(r) /\ pc[r] # "consume"
        BY <1>0, <2>3 DEF CallInv
    <2>7. CallInv'
        BY <2>1, <2>6 DEF CallInv, Holds
    <2> QED
        BY <1>0, <2>1, <2>5, <2>7 DEF OneTime
<1>7a. ASSUME NEW c \in Command, CommandFails(c) PROVE MapInv' /\ CallInv' /\ OneTime'
    <2>1. /\ issued' = issued /\ pc' = pc /\ disk' = disk /\ up' = up
          /\ data' = data /\ token' = token /\ copy' = copy
        BY <1>7a DEF CommandFails, storeVars, callVars
    <2>2. \A b \in Command : Working(b)' => Working(b)
        BY <1>0, <1>7a DEF CommandFails, Working, TypeOK
    <2>3. \A b \in Command : Working(b)' => ~up /\ Marked(copy[b])'
        BY <1>0, <2>1, <2>2 DEF MapInv, Marked
    <2> QED
        BY <1>0, <1>p, <2>1, <2>3, QuietStep DEF Holds
<1>8. ASSUME NEW r \in Request, Call(r) PROVE MapInv' /\ CallInv' /\ OneTime'
    BY <1>0, <1>p, <1>c, <1>8, QuietStep DEF Call, storeVars, Holds
<1>9. ASSUME NEW r \in Request, Refuse(r) PROVE MapInv' /\ CallInv' /\ OneTime'
    BY <1>0, <1>p, <1>c, <1>9, QuietStep DEF Refuse, storeVars, Holds
<1>10. ASSUME NEW r \in Request, Mark(r) PROVE MapInv' /\ CallInv' /\ OneTime'
    <2>1. /\ issued' = issued /\ token' = token /\ disk' = disk /\ up' = up
          /\ step' = step /\ copy' = copy /\ pc' = [pc EXCEPT ![r] = "truncate"]
          /\ pc[r] = "consume" /\ token[r] \notin data.used
        BY <1>10 DEF Mark, Valid, commandVars
    <2>2. data'.used = data.used \cup {token[r]}
        BY <1>0, <1>10, EntriesTyped DEF Mark, TypeOK
    <2>3. up
        BY <1>0, <2>1 DEF CallInv
    <2>4. MapInv'
        BY <1>0, <2>1, <2>2 DEF MapInv, Marked, Working
    <2>5. \A q \in Request : q # r /\ Holds(q)' => Holds(q) /\ token[q] # token[r]
        BY <1>0, <1>p, <2>1 DEF CallInv, Holds
    <2>6. \A i \in issued : i.token # token[r]
        BY <1>0, <2>1, <2>3 DEF MapInv, Marked
    <2>7. CallInv'
        BY <1>0, <1>p, <2>1, <2>2, <2>3, <2>5, <2>6 DEF CallInv, Holds
    <2> QED
        BY <1>0, <2>1, <2>4, <2>7 DEF OneTime
<1>11. ASSUME NEW r \in Request, SaveTruncate(r) PROVE MapInv' /\ CallInv' /\ OneTime'
    BY <1>0, <1>p, <1>c, <1>11, QuietStep DEF SaveTruncate, Holds
<1>12. ASSUME NEW r \in Request, SaveWrite(r) PROVE MapInv' /\ CallInv' /\ OneTime'
    <2>1. /\ issued' = issued /\ token' = token /\ data' = data /\ up' = up
          /\ step' = step /\ copy' = copy /\ pc' = [pc EXCEPT ![r] = "issue"]
          /\ pc[r] = "write"
        BY <1>12 DEF SaveWrite, commandVars
    <2>2. disk' = data \/ disk' = Torn
        BY <1>12, WrittenIs DEF SaveWrite
    <2>3. up /\ Marked(data)
        BY <1>0, <2>1 DEF CallInv, Holds, MapInv
    <2>4. MapInv'
        BY <1>0, <2>1, <2>2, <2>3 DEF MapInv, Marked, Working
    <2>5. \A q \in Request : /\ Holds(q)' => Holds(q)
                             /\ pc'[q] = "issue" => Holds(q)
                             /\ pc'[q] = "consume" => pc[q] = "consume"
        BY <1>p, <2>1 DEF Holds
    <2>6. \A q \in Request : pc'[q] = "issue" => disk' = Torn \/ token[q] \in disk'.used
        <3>1. ASSUME NEW q \in Request, pc'[q] = "issue" PROVE token[q] \in data.used
            BY <1>0, <2>5, <3>1 DEF CallInv
        <3>2. CASE disk' = data
            BY <3>1, <3>2
        <3>3. CASE disk' = Torn
            BY <3>3
        <3> QED
            BY <2>2, <3>2, <3>3
    <2>7. CallInv'
        BY <1>0, <1>p, <2>1, <2>5, <2>6 DEF CallInv, Holds
    <2> QED
        BY <1>0, <2>1, <2>4, <2>7 DEF OneTime
<1>13. ASSUME NEW r \in Request, SaveFails(r) PROVE MapInv' /\ CallInv' /\ OneTime'
    BY <1>0, <1>p, <1>c, <1>13, QuietStep DEF SaveFails, Holds
<1>14. ASSUME NEW r \in Request, NotIssued(r) PROVE MapInv' /\ CallInv' /\ OneTime'
    BY <1>0, <1>p, <1>c, <1>14, QuietStep DEF NotIssued, storeVars, Holds
<1>15. ASSUME NEW r \in Request, Issue(r) PROVE MapInv' /\ CallInv' /\ OneTime'
    <2> DEFINE new == [call |-> r, token |-> token[r], node |-> node[r]]
    <2>1. /\ issued' = issued \cup {new} /\ token' = token /\ data' = data /\ up' = up
          /\ disk' = disk /\ step' = step /\ copy' = copy
          /\ pc' = [pc EXCEPT ![r] = "granted"] /\ pc[r] = "issue"
        BY <1>15 DEF Issue, storeVars, commandVars
    <2>2. new.token = token[r]
        OBVIOUS
    <2> HIDE DEF new
    <2>3. /\ up /\ token[r] \in data.used /\ \A i \in issued : i.token # token[r]
          /\ disk = Torn \/ token[r] \in disk.used
        BY <1>0, <2>1 DEF CallInv, Holds
    <2>4. MapInv'
        BY <1>0, <2>1, <2>2, <2>3 DEF MapInv, Marked, Working
    <2>5. \A q \in Request : Holds(q)' => Holds(q) /\ q # r /\ token[q] # token[r]
        BY <1>0, <1>p, <2>1 DEF CallInv, Holds
    <2>6. \A q \in Request : /\ pc'[q] = "issue" => pc[q] = "issue"
                             /\ pc'[q] = "consume" => pc[q] = "consume"
        BY <1>p, <2>1
    <2>7. CallInv'
        BY <1>0, <2>1, <2>2, <2>5, <2>6 DEF CallInv
    <2>8. OneTime'
        BY <1>0, <2>1, <2>2, <2>3 DEF OneTime
    <2> QED
        BY <2>4, <2>7, <2>8
<1>16. CASE UNCHANGED vars
    BY <1>0, <1>p, <1>c, <1>16, QuietStep DEF vars, storeVars, callVars, Holds
<1>17. CASE \E r \in Request : Call(r) \/ Handler(r)
    BY <1>8, <1>9, <1>10, <1>11, <1>12, <1>13, <1>14, <1>15, <1>17 DEF Handler
<1> QED
    BY <1>1, <1>2, <1>3, <1>4, <1>5, <1>6, <1>7, <1>7a, <1>16, <1>17 DEF Next

\* A node that is not started, with no token file, has the types.
LEMMA InitTyped == Init => TypeOK
<1> SUFFICES ASSUME Init PROVE TypeOK
    OBVIOUS
<1>1. Empty \in Entries
    BY DEF Empty, Entries
<1>2. 0 \in 0..MaxCrashes
    BY JoinTokensAssumption
<1>3. /\ pc \in [Request -> {"idle", "consume", "truncate", "write", "issue",
                            "granted", "denied", "lost"}]
      /\ step \in [Command -> {"idle", "create", "truncate", "write", "printed", "failed"}]
    BY DEF Init
<1>4. copy \in [Command -> Entries]
    BY <1>1 DEF Init
<1> QED
    BY <1>1, <1>2, <1>3, <1>4 DEF Init, TypeOK

\* The state of jointoken.Store and of JoinCluster calls keeps its types.
THEOREM TypeCorrect == Spec => []TypeOK
<1> QED
    BY InitTyped, TypeStep, PTL DEF Spec

\* The maps list printed tokens only: a command's new token is in its own copy
\* until the file is written, which is when it is printed.
LEMMA KnownStep ==
    ASSUME TypeOK, MapInv, KnownInv, CallInv, [Next]_vars
    PROVE  KnownInv'
<1> USE JoinTokensAssumption
<1>0. TypeOK'
    BY TypeStep
<1>1. ASSUME disk' = disk \/ disk' = Torn, up' => up, data' = data,
             copy' = copy, created' = created, Printed' = Printed,
             \A c \in Command : Working(c)' => Working(c)
      PROVE  KnownInv'
    BY <1>1 DEF KnownInv
<1>2. ASSUME UNCHANGED <<step, created>> PROVE Printed' = Printed
    BY <1>2 DEF Printed
<1>3. CASE Open
    BY <1>2, <1>3 DEF Open, KnownInv, Working, commandVars
<1>4. ASSUME UNCHANGED <<up, data, disk, commandVars>> PROVE KnownInv'
    BY <1>1, <1>2, <1>4 DEF commandVars, Working
<1>5. CASE Crash
    BY <1>1, <1>2, <1>5 DEF Crash, commandVars, Working
<1>6. ASSUME NEW t \in Token, Expire(t) PROVE KnownInv'
    BY <1>4, <1>6 DEF Expire, storeVars
<1>7. ASSUME NEW c \in Command, CommandOpen(c) PROVE KnownInv'
    <2>1. Printed' = Printed
        BY <1>7 DEF CommandOpen, Printed, TypeOK
    <2>2. /\ up' = up /\ data' = data /\ disk' = disk /\ created' = created
          /\ \A b \in Command : b # c => step'[b] = step[b] /\ copy'[b] = copy[b]
          /\ step'[c] = "create" => disk # Torn /\ copy'[c] = disk
        BY <1>7 DEF CommandOpen, storeVars, TypeOK
    <2>3. ASSUME NEW b \in Command, Working(b)'
          PROVE  copy'[b].known \subseteq Printed \cup {created[b]}
        <3>1. CASE b = c
            <4>1. step'[c] = "create"
                BY <1>7, <2>3, <3>1 DEF CommandOpen, Working, TypeOK
            <4> QED
                BY <2>2, <3>1, <4>1 DEF KnownInv
        <3>2. CASE b # c
            BY <2>2, <2>3, <3>2 DEF KnownInv, Working
        <3> QED
            BY <3>1, <3>2
    <2> QED
        BY <2>1, <2>2, <2>3 DEF KnownInv
<1>8. ASSUME NEW c \in Command, Create(c) PROVE KnownInv'
    <2>1. Printed' = Printed
        BY <1>8 DEF Create, Printed, TypeOK
    <2>2. /\ up' = up /\ data' = data /\ disk' = disk /\ created' = created
          /\ \A b \in Command : b # c => step'[b] = step[b] /\ copy'[b] = copy[b]
          /\ Working(c)
          /\ copy'[c] = [copy[c] EXCEPT !.known = @ \cup {created[c]}]
        BY <1>8 DEF Create, storeVars, TypeOK, Working
    <2>3. copy'[c].known = copy[c].known \cup {created[c]}
        BY <2>2, EntriesTyped DEF TypeOK
    <2>4. ASSUME NEW b \in Command, Working(b)'
          PROVE  copy'[b].known \subseteq Printed \cup {created[b]}
        BY <2>2, <2>3, <2>4 DEF KnownInv, Working
    <2> QED
        BY <2>1, <2>2, <2>4 DEF KnownInv
<1>9. ASSUME NEW c \in Command, CommandTruncate(c) PROVE KnownInv'
    <2>1. Printed' = Printed
        BY <1>9 DEF CommandTruncate, Printed, TypeOK
    <2>2. \A b \in Command : Working(b)' => Working(b)
        BY <1>9 DEF CommandTruncate, Working, TypeOK
    <2> QED
        BY <1>1, <1>9, <2>1, <2>2 DEF CommandTruncate
<1>10. ASSUME NEW c \in Command, CommandWrite(c) PROVE KnownInv'
    <2>1. /\ up' = up /\ data' = data /\ created' = created /\ copy' = copy
          /\ step[c] = "write" /\ step' = [step EXCEPT ![c] = "printed"]
        BY <1>10 DEF CommandWrite
    <2>2. disk' = copy[c] \/ disk' = Torn
        BY <1>10, WrittenIs DEF CommandWrite
    <2>3. Printed' = Printed \cup {created[c]}
        BY <2>1 DEF Printed, TypeOK
    <2>4. \A b \in Command : Working(b)' => Working(b)
        BY <2>1 DEF Working, TypeOK
    <2>5. copy[c].known \subseteq Printed \cup {created[c]}
        BY <2>1 DEF KnownInv, Working
    <2> QED
        BY <2>1, <2>2, <2>3, <2>4, <2>5 DEF KnownInv
<1>11. ASSUME NEW c \in Command, CommandFails(c) PROVE KnownInv'
    <2>1. Printed' = Printed
        BY <1>11 DEF CommandFails, Printed, TypeOK
    <2>2. \A b \in Command : Working(b)' => Working(b)
        BY <1>11 DEF CommandFails, Working, TypeOK
    <2> QED
        BY <1>1, <1>11, <2>1, <2>2 DEF CommandFails, storeVars
<1>12. ASSUME NEW r \in Request, Call(r) PROVE KnownInv'
    BY <1>4, <1>12 DEF Call, storeVars
<1>13. ASSUME NEW r \in Request, Refuse(r) PROVE KnownInv'
    BY <1>4, <1>13 DEF Refuse, storeVars
<1>14. ASSUME NEW r \in Request, Mark(r) PROVE KnownInv'
    <2>1. data'.known = data.known
        BY <1>14 DEF Mark, TypeOK, Entries
    <2>2. up' = up /\ disk' = disk /\ copy' = copy /\ step' = step /\ created' = created
        BY <1>14 DEF Mark, commandVars
    <2> QED
        BY <1>2, <2>1, <2>2 DEF KnownInv, Working
<1>15. ASSUME NEW r \in Request, SaveTruncate(r) PROVE KnownInv'
    BY <1>1, <1>2, <1>15 DEF SaveTruncate, commandVars, Working
<1>16. ASSUME NEW r \in Request, SaveWrite(r) PROVE KnownInv'
    <2>1. disk' = data \/ disk' = Torn
        BY <1>16, WrittenIs DEF SaveWrite
    <2>2. up
        BY <1>16 DEF SaveWrite, CallInv, Holds
    <2> QED
        BY <1>2, <1>16, <2>1, <2>2 DEF SaveWrite, KnownInv, Working, commandVars
<1>17. ASSUME NEW r \in Request, SaveFails(r) PROVE KnownInv'
    BY <1>4, <1>17 DEF SaveFails
<1>18. ASSUME NEW r \in Request, NotIssued(r) PROVE KnownInv'
    BY <1>4, <1>18 DEF NotIssued, storeVars
<1>19. ASSUME NEW r \in Request, Issue(r) PROVE KnownInv'
    BY <1>4, <1>19 DEF Issue, storeVars
<1>20. CASE UNCHANGED vars
    BY <1>4, <1>20 DEF vars, storeVars
<1>21. CASE \E r \in Request : Call(r) \/ Handler(r)
    BY <1>12, <1>13, <1>14, <1>15, <1>16, <1>17, <1>18, <1>19, <1>21 DEF Handler
<1> QED
    BY <1>3, <1>5, <1>6, <1>7, <1>8, <1>9, <1>10, <1>11, <1>20, <1>21 DEF Next

\* The inductive invariant of jointoken.Store and JoinCluster, when the file has
\* one process at a time.
THEOREM Invariance ==
    ASSUME ~WhileRunning
    PROVE  Spec => []IndInv
<1>1. Init => IndInv
    <2> SUFFICES ASSUME Init PROVE IndInv
        OBVIOUS
    <2>1. TypeOK
        BY InitTyped
    <2>2. MapInv /\ CallInv /\ OneTime
        BY DEF Init, MapInv, CallInv, OneTime, Marked, Holds, Working
    <2>3. KnownInv
        BY DEF Init, KnownInv, Working, Empty
    <2> QED
        BY <2>1, <2>2, <2>3 DEF IndInv
<1>2. IndInv /\ [Next]_vars => IndInv'
    BY IndStep, KnownStep, TypeStep DEF IndInv
<1> QED
    BY <1>1, <1>2, PTL DEF Spec

\* jointoken.Store: a token admits one node, over concurrent JoinCluster calls,
\* failed saves, crashes and restarts, when the file has one process at a time.
THEOREM OneTimeHolds ==
    ASSUME ~WhileRunning
    PROVE  Spec => []OneTime
<1>1. IndInv => OneTime
    BY DEF IndInv
<1> QED
    BY <1>1, Invariance, PTL
-----------------------------------------------------------------------------
(* The store implements OneTimeToken.                                      *)

\* The calls that have a token.
Held == {[call |-> r, token |-> token[r]] : r \in {q \in Request : Holds(q)}}

\* A step that prints nothing, lets no token lapse, admits nobody, and in which no
\* call gets a token, is a step of OneTimeToken: calls may give up theirs.
LEMMA GiveUpStep ==
    ASSUME UNCHANGED <<step, created, expired, issued, token>>,
           \A r \in Request : Holds(r)' => Holds(r)
    PROVE  Tokens!Next
<1>1. Printed' = Printed
    BY DEF Printed
<1>2. Held' \subseteq Held
    BY DEF Held
<1> QED
    BY <1>1, <1>2 DEF Tokens!Next, Tokens!GiveUp, Held

\* Every step of the store, its commands and the calls is a step of OneTimeToken,
\* or changes nothing that OneTimeToken sees.
LEMMA TokenStep ==
    ASSUME IndInv, [Next]_vars
    PROVE  [Tokens!Next]_(Tokens!vars)
<1> USE JoinTokensAssumption
<1>0. TypeOK /\ MapInv /\ KnownInv /\ CallInv
    BY DEF IndInv
<1>p. pc \in [Request -> Where]
    BY <1>0 DEF TypeOK, Where
<1>1. CASE Open
    BY <1>1, GiveUpStep DEF Open, callVars, commandVars, Holds
<1>2. CASE Crash
    <2>1. \A r \in Request : Holds(r)' => Holds(r)
        BY <1>p, <1>2 DEF Crash, Holds
    <2> QED
        BY <1>2, <2>1, GiveUpStep DEF Crash, commandVars
<1>3. ASSUME NEW t \in Token, Expire(t) PROVE Tokens!Next
    <2>1. Printed' = Printed /\ Held' = Held
        BY <1>3 DEF Expire, Printed, Held, Holds, callVars, commandVars
    <2>2. expired' = expired \cup {t} /\ issued' = issued
        BY <1>3 DEF Expire
    <2>3. Tokens!Lapse(t)
        BY <2>1, <2>2 DEF Tokens!Lapse, Held
    <2> QED
        BY <2>3 DEF Tokens!Next
<1>4. ASSUME NEW c \in Command,
             CommandOpen(c) \/ Create(c) \/ CommandTruncate(c) \/ CommandFails(c)
      PROVE  UNCHANGED Tokens!vars
    <2>1. Printed' = Printed
        BY <1>0, <1>4
           DEF CommandOpen, Create, CommandTruncate, CommandFails, Printed, TypeOK
    <2>2. UNCHANGED <<pc, token, expired, issued>>
        BY <1>4 DEF CommandOpen, Create, CommandTruncate, CommandFails, callVars
    <2> QED
        BY <2>1, <2>2 DEF Tokens!vars, Holds
<1>5. ASSUME NEW c \in Command, CommandWrite(c) PROVE Tokens!Next
    <2>1. Printed' = Printed \cup {created[c]} /\ created[c] \in Token
        BY <1>0, <1>5 DEF CommandWrite, Printed, TypeOK
    <2>2. Held' = Held /\ expired' = expired /\ issued' = issued
        BY <1>5 DEF CommandWrite, Held, Holds, callVars
    <2>3. Tokens!Make(created[c])
        BY <2>1, <2>2 DEF Tokens!Make, Held
    <2> QED
        BY <2>1, <2>3 DEF Tokens!Next
<1>6. ASSUME NEW r \in Request, Mark(r) PROVE Tokens!Next
    <2>1. /\ token' = token /\ pc' = [pc EXCEPT ![r] = "truncate"] /\ pc[r] = "consume"
          /\ expired' = expired /\ issued' = issued /\ Printed' = Printed
          /\ token[r] \in data.known /\ token[r] \notin data.used
          /\ token[r] \notin expired /\ token[r] \in Token
        BY <1>0, <1>6 DEF Mark, Valid, Printed, commandVars, TypeOK
    <2>2. up
        BY <1>0, <2>1 DEF CallInv
    <2>3. token[r] \in Printed /\ \A i \in issued : i.token # token[r]
        BY <1>0, <2>1, <2>2 DEF KnownInv, MapInv, Marked
    <2>4. \A q \in Request : Holds(q) => token[q] # token[r]
        BY <1>0, <2>1 DEF CallInv
    <2>5. \A h \in Held : h.token # token[r]
        BY <2>4 DEF Held
    <2>6. \A q \in Request : Holds(q)' <=> Holds(q) \/ q = r
        BY <1>p, <2>1 DEF Holds
    <2>7. Held' = Held \cup {[call |-> r, token |-> token[r]]}
        BY <2>1, <2>6 DEF Held
    <2>8. PICK t \in Token : t = token[r]
        BY <2>1
    <2>9. Tokens!Take(r, t)
        BY <2>1, <2>3, <2>5, <2>7, <2>8 DEF Tokens!Take, Held
    <2> QED
        BY <2>9 DEF Tokens!Next
<1>7. ASSUME NEW r \in Request,
             \/ Call(r) \/ Refuse(r) \/ SaveTruncate(r) \/ SaveWrite(r)
             \/ SaveFails(r) \/ NotIssued(r)
      PROVE  Tokens!Next
    <2>1. \A q \in Request : Holds(q)' => Holds(q)
        BY <1>p, <1>7
           DEF Call, Refuse, SaveTruncate, SaveWrite, SaveFails, NotIssued, Holds
    <2>2. UNCHANGED <<step, created, expired, issued, token>>
        BY <1>7
           DEF Call, Refuse, SaveTruncate, SaveWrite, SaveFails, NotIssued, commandVars
    <2> QED
        BY <2>1, <2>2, GiveUpStep
<1>8. ASSUME NEW r \in Request, Issue(r) PROVE Tokens!Next
    <2> DEFINE h == [call |-> r, token |-> token[r]]
    <2>1. /\ token' = token /\ pc' = [pc EXCEPT ![r] = "granted"] /\ pc[r] = "issue"
          /\ expired' = expired /\ Printed' = Printed /\ node[r] \in NodeID
          /\ issued' = issued \cup {[call |-> r, token |-> token[r], node |-> node[r]]}
        BY <1>0, <1>8 DEF Issue, Printed, commandVars, TypeOK
    <2>2. h \in Held /\ h.call = r /\ h.token = token[r]
        BY <2>1 DEF Held, Holds
    <2>3. \A q \in Request : Holds(q)' <=> Holds(q) /\ q # r
        BY <1>p, <2>1 DEF Holds
    <2>4. Held' = Held \ {h}
        BY <2>1, <2>3 DEF Held
    <2>5. PICK g \in Held, n \in NodeID : g = h /\ n = node[r]
        BY <2>1, <2>2
    <2>6. Tokens!Admit(g, n)
        BY <2>1, <2>2, <2>4, <2>5 DEF Tokens!Admit, Held
    <2> QED
        BY <2>6 DEF Tokens!Next, Held
<1>9. CASE UNCHANGED vars
    BY <1>9 DEF vars, callVars, commandVars, Tokens!vars, Printed, Holds
<1>10. CASE \E r \in Request : Call(r) \/ Handler(r)
    BY <1>6, <1>7, <1>8, <1>10 DEF Handler
<1> QED
    BY <1>1, <1>2, <1>3, <1>4, <1>5, <1>9, <1>10 DEF Next

\* jointoken.Store and JoinCluster implement OneTimeToken, when the file has one
\* process at a time: a token is taken by one call at a time, only after it was
\* printed and before its ttl is over, and never once it admitted a node.
THEOREM OneTimeTokensHold ==
    ASSUME ~WhileRunning
    PROVE  Spec => OneTimeTokens
<1>1. Init => Tokens!Init
    BY DEF Init, Tokens!Init, Printed, Holds
<1>2. IndInv /\ [Next]_vars => [Tokens!Next]_(Tokens!vars)
    BY TokenStep
<1> QED
    BY <1>1, <1>2, Invariance, PTL DEF Spec, OneTimeTokens, Tokens!Spec
=============================================================================
