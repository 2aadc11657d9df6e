---------------------------- MODULE MCDaemonShm -----------------------------
(***************************************************************************)
(* Instances of DaemonShm for TLC: a daemon and the one started beside it  *)
(* or after it, with their clients.                                        *)
(***************************************************************************)
EXTENDS DaemonShm, TLC

CONSTANTS d1, d2

\* The first daemon updates its segment twice; the other never does.
Rounds == d1 :> 3 @@ d2 :> 1

AllClasses == {{"core", "memory", "qpi"}}
=============================================================================
