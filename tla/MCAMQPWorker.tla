---------------------------- MODULE MCAMQPWorker ----------------------------
(***************************************************************************)
(* Constants for checking AMQPWorker with TLC.                             *)
(***************************************************************************)
EXTENDS AMQPWorker
=============================================================================
