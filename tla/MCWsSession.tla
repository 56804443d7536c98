---------------------------- MODULE MCWsSession ----------------------------
(***************************************************************************)
(* Instances of the sandbox and its session for TLC.                       *)
(***************************************************************************)
EXTENDS WsSessionProperties
=============================================================================
