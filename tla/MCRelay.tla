------------------------------ MODULE MCRelay -------------------------------
(***************************************************************************)
(* Instances of Relay.                                                     *)
(***************************************************************************)
EXTENDS Relay

OneHop == {<<"edge">>}
AllChains == {<<"edge">>, <<"socks", "edge">>, <<"edge", "owner">>, <<"socks", "edge", "owner">>}

\* One number each way when the stream is relayed to an owner, two otherwise.
Amounts == [c \in Chains |-> IF c[Len(c)] = "owner" THEN 1 ELSE 2]
=============================================================================
