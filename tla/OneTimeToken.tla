---------------------------- MODULE OneTimeToken ----------------------------
(***************************************************************************)
(* What join tokens promise, without files, maps, locks and processes: a   *)
(* token that was handed to the operator and has not lapsed can be taken   *)
(* by one call at a time; the call gives it up, or its node is admitted,   *)
(* and then the token is never taken again.  JoinTokens implements this.   *)
(***************************************************************************)
CONSTANTS Token, Request, NodeID

VARIABLES
    made,       \* the tokens that were printed
    lapsed,     \* those whose ttl is over
    held,       \* which call has which token
    admitted    \* which call got a certificate, with which token, for which node

vars == <<made, lapsed, held, admitted>>

Init == made = {} /\ lapsed = {} /\ held = {} /\ admitted = {}

Make(t) ==
    /\ made' = made \cup {t}
    /\ UNCHANGED <<lapsed, held, admitted>>

Lapse(t) ==
    /\ lapsed' = lapsed \cup {t}
    /\ UNCHANGED <<made, held, admitted>>

Take(r, t) ==
    /\ t \in made \ lapsed
    /\ \A x \in held \cup admitted : x.token # t
    /\ held' = held \cup {[call |-> r, token |-> t]}
    /\ UNCHANGED <<made, lapsed, admitted>>

\* Calls end without an admission: one that is refused, or all of them when the
\* node crashes.
GiveUp ==
    /\ held' \subseteq held
    /\ UNCHANGED <<made, lapsed, admitted>>

Admit(h, n) ==
    /\ held' = held \ {h}
    /\ admitted' = admitted \cup {[call |-> h.call, token |-> h.token, node |-> n]}
    /\ UNCHANGED <<made, lapsed>>

Next ==
    \/ \E t \in Token : Make(t) \/ Lapse(t)
    \/ \E r \in Request : \E t \in Token : Take(r, t)
    \/ GiveUp
    \/ \E h \in held : \E n \in NodeID : Admit(h, n)

Spec == Init /\ [][Next]_vars
=============================================================================
