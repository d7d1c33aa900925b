---------------------------- MODULE MCLifecycle ----------------------------
(***************************************************************************)
(* Constants for checking Lifecycle with TLC, with 10 seconds to a tick.   *)
(***************************************************************************)
EXTENDS Lifecycle
=============================================================================
