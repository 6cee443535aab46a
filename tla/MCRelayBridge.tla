---------------------------- MODULE MCRelayBridge ----------------------------
(* Instances of RelayBridge for model checking.                             *)
EXTENDS RelayBridge

=============================================================================
