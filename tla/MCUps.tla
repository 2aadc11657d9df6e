------------------------------- MODULE MCUps --------------------------------
(***************************************************************************)
(* Instances of Ups for TLC.                                               *)
(***************************************************************************)
EXTENDS Ups

\* A wrapped counter, an idle period, a power, one inside its band of 5%, and
\* one above.
MCPowers == {-500, 0, 100, 104, 120}

MCStartPairs == {<<24, 24>>, <<8, 8>>}
=============================================================================
