------------------------------ MODULE MCSystem ------------------------------
(***************************************************************************)
(* Constants for checking System with TLC.                                 *)
(***************************************************************************)
EXTENDS System, TLC

MCObjects == [bucket : {"music"}, key : {"/a.tar"}]

MCCompressMsgs == RequestsOf("compress")
MCDecompressMsgs == RequestsOf("decompress")

\* Requests, correlation ids and result files are interchangeable.
Symmetry == Permutations(Requests) \cup Permutations(CorrIds)
              \cup Permutations(Addresses)
=============================================================================
