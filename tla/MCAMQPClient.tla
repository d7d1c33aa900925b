---------------------------- MODULE MCAMQPClient ----------------------------
(***************************************************************************)
(* Constants for checking AMQPClient with TLC.                             *)
(***************************************************************************)
EXTENDS AMQPClient, TLC

MCObjects == [bucket : {"music"}, key : {"/a.tar", "/b.tar"}]

\* Requests, correlation ids and result files are interchangeable.
Symmetry == Permutations(Requests) \cup Permutations(CorrIds)
              \cup Permutations(Addresses)
=============================================================================
