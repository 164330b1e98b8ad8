---------------------------- MODULE MCJoinTokens ----------------------------
(***************************************************************************)
(* Instances of JoinTokens: calls, commands, tokens and node ids are model *)
(* values.  Each call picks its token and its node id in Init.             *)
(***************************************************************************)
EXTENDS JoinTokens
=============================================================================
