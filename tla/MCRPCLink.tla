----------------------------- MODULE MCRPCLink -----------------------------
(***************************************************************************)
(* Constants for checking RPCLink with TLC.                                *)
(***************************************************************************)
EXTENDS RPCLink
=============================================================================
