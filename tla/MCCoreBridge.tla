---------------------------- MODULE MCCoreBridge ----------------------------
(***************************************************************************)
(* Instances of CoreBridge.                                                *)
(***************************************************************************)
EXTENDS CoreBridge
=============================================================================
