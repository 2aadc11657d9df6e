------------------------------ MODULE MCPcmPmu ------------------------------
(***************************************************************************)
(* Two processes with different events for TLC: a server, whose events     *)
(* count cycles, and another program.                                      *)
(***************************************************************************)
EXTENDS PcmPmu, TLC

CONSTANTS p1, p2, A, B, nmi

Events2 == p1 :> A @@ p2 :> B
CycleEvents == {nmi, B}
=============================================================================
