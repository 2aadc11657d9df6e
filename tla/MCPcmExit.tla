----------------------------- MODULE MCPcmExit ------------------------------
(* Instances of PcmExit for TLC. *)
EXTENDS PcmExit
=============================================================================
