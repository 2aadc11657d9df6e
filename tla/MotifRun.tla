------------------------------ MODULE MotifRun ------------------------------
(***************************************************************************)
(* The experiment driver, GPGPU/script/exp_power_motif.py, under           *)
(* start_power_motif.sh: it runs a list of benchmarks one after the other, *)
(* each with pcm-memory and with monitors that watch the benchmark's       *)
(* process, and in the end the uncore frequency is set back to 2.2 GHz.    *)
(*                                                                         *)
(* The driver waits for the benchmark and for nothing else.  It sends      *)
(* SIGTERM to pcm-memory, which runs as root, and goes on whether or not   *)
(* the signal was allowed; a monitor (ups, SoC, read_gpu_power,            *)
(* read_cpu_power) ends on its own when it finds the benchmark's process   *)
(* gone, at the end of the turn it is in, or of an exception in a turn,    *)
(* without a result.  So the processes of one benchmark can live on into   *)
(* the next ones, and past the last.                                       *)
(*                                                                         *)
(* All instances of pcm-memory program the same monitoring units, and an   *)
(* instance that ends zeroes them, unless a second SIGTERM kills it in its *)
(* cleanup (PcmExit): the driver signals sudo and pcm-memory both, and     *)
(* sudo passes its signal on.  All controllers write the same uncore       *)
(* frequency (UncoreMsr); here a write is one step, and what matters is    *)
(* who wrote last.  A process number is not reused while the monitors of   *)
(* its benchmark run.                                                      *)
(***************************************************************************)
EXTENDS Naturals, Sequences

CONSTANTS
    N,              \* benchmarks in the list
    Order,          \* the monitors started for each benchmark, in their order
    Controllers,    \* those that set the uncore frequency
    Raising,        \* those that an exception in a turn ends
    Pcm             \* --pcm

Runs     == 1 .. N
Monitors == {Order[n] : n \in DOMAIN Order}

ASSUME NAssumption        == N \in Nat \ {0}
ASSUME MonitorsAssumption == Controllers \subseteq Monitors /\ Raising \subseteq Monitors
ASSUME NamesAssumption    == Controllers \cap {"driver", "reset", "pcm"} = {}
ASSUME PcmAssumption      == Pcm \in BOOLEAN

VARIABLES
    root,           \* the driver runs as root
    pc, run,        \* the driver: its place, and the benchmark it is at
    bench,          \* the benchmark processes; a zombie until the driver waits
    pcm,            \* the pcm-memory processes
    before,         \* those of other benchmarks there when one programmed the units
    units,          \* whose programming the monitoring units hold; 0: nobody's
    mon,            \* the monitor processes; one that ended has left its file
    uncore,         \* who set the uncore frequency last, and for which benchmark
    late            \* turns a controller finished after its benchmark was gone

driver == <<root, pc, run>>
pcms   == <<pcm, before, units>>
vars   == <<driver, bench, pcms, mon, uncore, late>>

Writes == ({"driver", "reset"} \X {0}) \cup ((Controllers \cup {"pcm"}) \X Runs)

Exists(i) == bench[i] \in {"running", "zombie"}

TypeOK ==
    /\ root \in BOOLEAN
    /\ pc \in {"init", "pcm", "bench", "monitors", "wait", "terminate", "reset", "done"}
    /\ run \in Runs
    /\ bench \in [Runs -> {"none", "running", "zombie", "gone"}]
    /\ pcm \in [Runs -> {"none", "starting", "running", "stopping", "gone", "killed"}]
    /\ before \in [Runs -> SUBSET Runs]
    /\ units \in Runs \cup {0}
    /\ mon \in [Runs -> [Monitors -> {"none", "polling", "turn", "ended", "dead"}]]
    /\ uncore \in Writes
    /\ late \in [Runs -> [Controllers -> 0 .. 1]]

Init ==
    /\ root \in BOOLEAN
    /\ pc = "init" /\ run = 1
    /\ bench = [i \in Runs |-> "none"]
    /\ pcm = [i \in Runs |-> "none"]
    /\ before = [i \in Runs |-> {}]
    /\ units = 0
    /\ mon = [i \in Runs |-> [k \in Monitors |-> "none"]]
    /\ uncore = <<"driver", 0>>
    /\ late = [i \in Runs |-> [k \in Controllers |-> 0]]

-----------------------------------------------------------------------------
\* The driver.

\* The frequency is set once, before the first benchmark.
SetInitial ==
    /\ pc = "init"
    /\ pc' = "pcm"
    /\ uncore' = <<"driver", 0>>
    /\ UNCHANGED <<root, run, bench, pcms, mon, late>>

StartPcm ==
    /\ pc = "pcm"
    /\ pc' = "bench"
    /\ pcm' = IF Pcm THEN [pcm EXCEPT ![run] = "starting"] ELSE pcm
    /\ UNCHANGED <<root, run, bench, before, units, mon, uncore, late>>

StartBenchmark ==
    /\ pc = "bench"
    /\ pc' = "monitors"
    /\ bench' = [bench EXCEPT ![run] = "running"]
    /\ UNCHANGED <<root, run, pcms, mon, uncore, late>>

StartMonitor(n) ==
    /\ pc = "monitors" /\ mon[run][Order[n]] = "none"
    /\ \A m \in 1 .. n - 1 : mon[run][Order[m]] # "none"
    /\ mon' = [mon EXCEPT ![run][Order[n]] = "polling"]
    /\ UNCHANGED <<driver, bench, pcms, uncore, late>>

MonitorsStarted ==
    /\ pc = "monitors" /\ \A k \in Monitors : mon[run][k] # "none"
    /\ pc' = "wait"
    /\ UNCHANGED <<root, run, bench, pcms, mon, uncore, late>>

\* Mutant of Wait: the driver goes on as soon as everything is started.
WaitNot ==
    /\ pc = "wait"
    /\ bench' = [bench EXCEPT ![run] = IF @ = "zombie" THEN "gone" ELSE @]
    /\ pc' = "terminate"
    /\ UNCHANGED <<root, run, pcms, mon, uncore, late>>

\* Mutant of Wait: the driver sees the end of the benchmark and does not reap it.
WaitUnreaped ==
    /\ pc = "wait" /\ bench[run] = "zombie"
    /\ pc' = "terminate"
    /\ UNCHANGED <<root, run, bench, pcms, mon, uncore, late>>

\* benchmark_process.wait() reaps the zombie.
Wait ==
    /\ pc = "wait" /\ bench[run] = "zombie"
    /\ bench' = [bench EXCEPT ![run] = "gone"]
    /\ pc' = "terminate"
    /\ UNCHANGED <<root, run, pcms, mon, uncore, late>>

\* The next benchmark of the list, or the end of the script.
NextRun == IF run < N THEN pc' = "pcm" /\ run' = run + 1 ELSE pc' = "reset" /\ UNCHANGED run

\* Mutant of Terminate: pcm-memory is not told to end.
TerminateNothing ==
    /\ pc = "terminate"
    /\ NextRun
    /\ UNCHANGED <<root, bench, pcms, mon, uncore, late>>

\* child.terminate() for every process under pcm-memory's shell, exceptions
\* passed over, without waiting.  One that was only starting may be gone at once.
Terminate ==
    /\ pc = "terminate"
    /\ NextRun
    /\ IF Pcm /\ root
       THEN \/ pcm' = [pcm EXCEPT ![run] = "stopping"]
            \/ pcm[run] = "starting" /\ pcm' = [pcm EXCEPT ![run] = "gone"]
       ELSE UNCHANGED pcm
    /\ UNCHANGED <<root, bench, before, units, mon, uncore, late>>

\* set_uncore_freq.sh 2.2 2.2, after the script ended.
Reset ==
    /\ pc = "reset"
    /\ pc' = "done"
    /\ uncore' = <<"reset", 0>>
    /\ UNCHANGED <<root, run, bench, pcms, mon, late>>

Driver ==
    \/ SetInitial \/ StartPcm \/ StartBenchmark
    \/ \E n \in DOMAIN Order : StartMonitor(n)
    \/ MonitorsStarted \/ Wait \/ Terminate \/ Reset

-----------------------------------------------------------------------------
\* The other processes.

BenchmarkEnds(i) ==
    /\ bench[i] = "running"
    /\ bench' = [bench EXCEPT ![i] = "zombie"]
    /\ UNCHANGED <<driver, pcms, mon, uncore, late>>

\* pcm-memory programs the units and makes its first request.
PcmStarts(i) ==
    /\ pcm[i] = "starting"
    /\ pcm' = [pcm EXCEPT ![i] = "running"]
    /\ before' = [before EXCEPT ![i] = {j \in Runs : pcm[j] \in {"running", "stopping"}}]
    /\ units' = i
    /\ uncore' = <<"pcm", i>>
    /\ UNCHANGED <<driver, bench, mon, late>>

\* A request of dynamic_ufs; one that is under way when the signal comes still
\* lands.
PcmSets(i) ==
    /\ pcm[i] \in {"running", "stopping"}
    /\ uncore' = <<"pcm", i>>
    /\ UNCHANGED <<driver, bench, pcms, mon, late>>

\* exit_cleanup zeroes the units, whoever programmed them.
PcmEnds(i) ==
    /\ pcm[i] = "stopping"
    /\ pcm' = [pcm EXCEPT ![i] = "gone"]
    /\ units' = 0
    /\ UNCHANGED <<driver, bench, before, mon, uncore, late>>

\* exit_cleanup first gives up the handler: the second signal kills it before
\* the units are zeroed, or with some of them zeroed.
PcmKilled(i) ==
    /\ pcm[i] = "stopping"
    /\ pcm' = [pcm EXCEPT ![i] = "killed"]
    /\ UNCHANGED <<driver, bench, before, units, mon, uncore, late>>

Process(i) == BenchmarkEnds(i) \/ PcmStarts(i) \/ PcmSets(i) \/ PcmEnds(i) \/ PcmKilled(i)

\* kill(pid, 0), psutil.pid_exists(pid): a turn as long as the process exists.
Poll(i, k) ==
    /\ mon[i][k] = "polling" /\ Exists(i)
    /\ mon' = [mon EXCEPT ![i][k] = "turn"]
    /\ UNCHANGED <<driver, bench, pcms, uncore, late>>

\* What a turn changes: in a controller there is perhaps a request.
Effect(i, k) ==
    IF k \in Controllers
    THEN /\ uncore' \in {uncore, <<k, i>>}
         /\ late' = IF Exists(i) THEN late ELSE [late EXCEPT ![i][k] = @ + 1]
    ELSE UNCHANGED <<uncore, late>>

\* The rest of the turn: a sample and what the controller makes of it.
Turn(i, k) ==
    /\ mon[i][k] = "turn"
    /\ mon' = [mon EXCEPT ![i][k] = "polling"]
    /\ Effect(i, k)
    /\ UNCHANGED <<driver, bench, pcms>>

\* nvidia-smi or set_uncore_freq.sh, which may have set a socket, failed: nobody
\* catches the exception, and what was sampled is lost.
TurnRaises(i, k) ==
    /\ mon[i][k] = "turn" /\ k \in Raising
    /\ mon' = [mon EXCEPT ![i][k] = "dead"]
    /\ Effect(i, k)
    /\ UNCHANGED <<driver, bench, pcms>>

\* The process is gone: the result is written and the monitor ends.  (A
\* read_gpu_power that took no turn leaves an empty file: its header names a
\* variable that only a turn assigns.)
Finish(i, k) ==
    /\ mon[i][k] = "polling" /\ ~Exists(i)
    /\ mon' = [mon EXCEPT ![i][k] = "ended"]
    /\ UNCHANGED <<driver, bench, pcms, uncore, late>>

Monitor(i, k) == Poll(i, k) \/ Turn(i, k) \/ TurnRaises(i, k) \/ Finish(i, k)

Next ==
    \/ Driver
    \/ \E i \in Runs : Process(i) \/ \E k \in Monitors : Monitor(i, k)

Spec == Init /\ [][Next]_vars

\* Every process is scheduled, and a benchmark comes to its end.
FairSpec ==
    /\ Spec
    /\ WF_vars(Driver)
    /\ \A i \in Runs :
        /\ WF_vars(BenchmarkEnds(i)) /\ WF_vars(PcmStarts(i)) /\ WF_vars(PcmEnds(i))
        /\ \A k \in Monitors : WF_vars(Monitor(i, k))

-----------------------------------------------------------------------------
\* Properties.

\* The driver, as root, does not wait for the pcm-memory of the benchmark before
\* (exp_power_motif.py l. 204-216).  So a pcm-memory can lose the units while it
\* measures, but only to the cleanup of one that was on its way out when it
\* programmed them: never to one of a later benchmark, and never twice programmed.
UnitsLostToLeftover ==
    \A i \in Runs : root /\ pcm[i] = "running" =>
        units = i \/ (units = 0 /\ \E j \in before[i] : pcm[j] = "gone")

\* When a controller undoes the frequency that start_power_motif.sh set last, it
\* does so in the one turn that was under way when its benchmark went away, and
\* it takes no other.
ResetUndoneOnce ==
    LET k == uncore[1]  i == uncore[2] IN
    pc = "done" /\ k \in Controllers =>
        late[i][k] = 1 /\ mon[i][k] \in {"polling", "ended", "dead"}

\* Every benchmark that is started ends, and every monitor of it leaves a file,
\* except one that an exception ended (read_gpu_power.py l. 23, 27, 32): the
\* driver's wait reaps the process the monitors look for.
MonitorsEnd ==
    \A i \in Runs : bench[i] = "running" ~>
        \A k \in Monitors : mon[i][k] = "ended" \/ (mon[i][k] = "dead" /\ k \in Raising)

\* When the driver runs as root, the whole system comes to rest: in the end
\* nothing sets the uncore frequency or programs the monitoring units, and if
\* they still hold a programming, the pcm-memory that made it was killed in its
\* cleanup.
ComesToRest ==
    root => /\ <>[](units = 0 \/ pcm[units] = "killed")
            /\ <>[][UNCHANGED <<uncore, units>>]_vars
=============================================================================
