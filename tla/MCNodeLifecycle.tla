--------------------------- MODULE MCNodeLifecycle ---------------------------
(***************************************************************************)
(* Instances of NodeLifecycle: two streams that share a connection, one    *)
(* admin request and one RPC call.                                         *)
(***************************************************************************)
EXTENDS NodeLifecycle, TLC

CONSTANTS c1, s1, s2, admin1, rpc1

Shared == s1 :> c1 @@ s2 :> c1
Alone == s1 :> c1
=============================================================================
