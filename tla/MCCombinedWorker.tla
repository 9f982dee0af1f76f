-------------------------- MODULE MCCombinedWorker --------------------------
(***************************************************************************)
(* An instance of CombinedWorker: Run and two concurrent calls of Shutdown.*)
(***************************************************************************)
EXTENDS CombinedWorker
=============================================================================
