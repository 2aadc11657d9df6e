----------------------------- MODULE MCMotifRun -----------------------------
(***************************************************************************)
(* MotifRun with two benchmarks, ups as a controller, read_gpu_power as a  *)
(* monitor that an exception can end, and pcm-memory.                      *)
(***************************************************************************)
EXTENDS MotifRun

MCOrder       == <<"ups", "gpu">>
MCControllers == {"ups"}
MCRaising     == {"gpu"}
=============================================================================
