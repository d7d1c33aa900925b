------------------------ MODULE MCDecompressionCache ------------------------
(***************************************************************************)
(* Constants for checking DecompressionCache with TLC.                     *)
(***************************************************************************)
EXTENDS DecompressionCache
=============================================================================
