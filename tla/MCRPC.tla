------------------------------- MODULE MCRPC -------------------------------
(***************************************************************************)
(* Constants for checking RPC with TLC.                                    *)
(***************************************************************************)
EXTENDS RPC

MCPeers == {Client} \cup Servers
MCMessages == Calls \cup Replies
=============================================================================
