------------------------------ MODULE MCGpuUfs ------------------------------
(***************************************************************************)
(* An instance of GpuUfs for TLC: one monitor, and pcm-memory beside it.   *)
(***************************************************************************)
EXTENDS GpuUfs

MCStartPairs == {<<22, 22>>}
=============================================================================
