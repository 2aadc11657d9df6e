----------------------------- MODULE MemUfsLoad -----------------------------
(***************************************************************************)
(* The controller MemUfs together with the load it samples: the benchmark  *)
(* changes its memory throughput whenever it likes, and mainLoop of        *)
(* pcm-memory calls dynamic_ufs with the throughput of the last period.    *)
(* The two are separate processes, so that the controller can be scheduled *)
(* fairly while nothing is asked of the benchmark.                         *)
(***************************************************************************)
EXTENDS MemUfs

VARIABLE load       \* the throughput of the running benchmark

loadVars == <<load, vars>>

LoadInit == Init /\ load \in Throughputs

\* The benchmark enters another phase.
ChangeLoad(t) ==
    /\ t # load
    /\ load' = t
    /\ UNCHANGED vars

\* One turn of mainLoop.
Period ==
    /\ dynamic_ufs(load)
    /\ UNCHANGED load

LoadNext == Period \/ \E t \in Throughputs : ChangeLoad(t)

\* mainLoop runs the controller once per period until pcm-memory is stopped; the
\* benchmark need never change its load again.
LoadSpec == LoadInit /\ [][LoadNext]_loadVars /\ WF_loadVars(Period)

\* Once the throughput stays level the burst ends and the sockets are left alone.
SettlesWhenLevel ==
    \A t \in Throughputs :
        <>[](load = t) => <>[](burst_status = 0) /\ <>[][msr' = msr]_loadVars
=============================================================================
