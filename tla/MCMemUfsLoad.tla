---------------------------- MODULE MCMemUfsLoad ----------------------------
(***************************************************************************)
(* An instance of MemUfsLoad for TLC.                                      *)
(***************************************************************************)
EXTENDS MemUfsLoad

\* Both sockets at the script's default, both low, and one of each.
MCStartFreqs == {<<24, 24>>, <<8, 8>>, <<24, 8>>}
=============================================================================
