------------------------------- MODULE GpuUfs -------------------------------
(***************************************************************************)
(* The GPU-power driven controller, scale_uncore_freq of read_gpu_power.py *)
(* (--dynamic_uncore_frequency 1), composed with the script through which  *)
(* it and everybody else sets the uncore frequency (UncoreMsrShared).      *)
(*                                                                         *)
(* A monitor samples the power of all GPUs, scans the sample GPU by GPU,   *)
(* and runs the script whenever the GPU at hand is on the other side of    *)
(* the threshold than its flag says.  A power is hot (above gpu_power_ts)  *)
(* or not.  The other callers (pcm-memory, ups, the driver) ask for any    *)
(* frequencies at any time.                                                *)
(*                                                                         *)
(* Left out: the samples kept for the csv.                                 *)
(***************************************************************************)
EXTENDS UncoreMsrShared, Sequences

CONSTANTS
    Monitors,           \* the callers that are read_gpu_power.py
    Gpus                \* number of GPUs nvidia-smi lists

ASSUME MonitorsAssumption == Monitors \subseteq Callers
ASSUME GpusAssumption     == Gpus \in Nat \ {0}
ASSUME PairsAssumption    == {8, 24} \subseteq Freqs

VARIABLES
    life,               \* "running", "ended" with its benchmark, "dead" of an exception
    high_uncore_freq,   \* 1: the monitor believes the frequency is high
    gpu_powers,         \* the last sample: TRUE for a hot GPU
    at                  \* the GPU scanned next, 0 between two samples

gpuVars == <<life, high_uncore_freq, gpu_powers, at>>
systemVars == <<sharedVars, gpuVars>>

High == <<24, 24>>
Low  == <<8, 8>>

GpuTypeOK ==
    /\ SharedTypeOK
    /\ life \in [Monitors -> {"running", "ended", "dead"}]
    /\ high_uncore_freq \in [Monitors -> {0, 1}]
    /\ gpu_powers \in [Monitors -> [1 .. Gpus -> BOOLEAN]]
    /\ at \in [Monitors -> 0 .. Gpus]
    /\ \A m \in Monitors : pc[m] # "idle" => at[m] # 0

\* The flag starts at 1, whatever the sockets have; before the first sample no
\* GPU counts as hot.
GpuInit ==
    /\ SharedInit
    /\ life = [m \in Monitors |-> "running"]
    /\ high_uncore_freq = [m \in Monitors |-> 1]
    /\ gpu_powers = [m \in Monitors |-> [g \in 1 .. Gpus |-> FALSE]]
    /\ at = [m \in Monitors |-> 0]

Ready(m) == life[m] = "running" /\ pc[m] = "idle"

\* The benchmark is there: sleep, nvidia-smi, and into the scan.
get_gpu_power(m, hot) ==
    /\ Ready(m) /\ at[m] = 0
    /\ gpu_powers' = [gpu_powers EXCEPT ![m] = hot]
    /\ at' = [at EXCEPT ![m] = 1]
    /\ UNCHANGED <<life, high_uncore_freq, sharedVars>>

\* The benchmark is gone.
EndMonitor(m) ==
    /\ Ready(m) /\ at[m] = 0
    /\ life' = [life EXCEPT ![m] = "ended"]
    /\ UNCHANGED <<high_uncore_freq, gpu_powers, at, sharedVars>>

\* nvidia-smi fails: check_output raises, and nobody catches it.
SampleFails(m) ==
    /\ Ready(m) /\ at[m] = 0
    /\ life' = [life EXCEPT ![m] = "dead"]
    /\ UNCHANGED <<high_uncore_freq, gpu_powers, at, sharedVars>>

Hot(m) == gpu_powers[m][at[m]]

\* On to the next GPU, or out of the scan.
Advance(m) == at' = [at EXCEPT ![m] = IF @ = Gpus THEN 0 ELSE @ + 1]

\* The GPU at hand asks for what the flag says is there.
PassOver(m) ==
    /\ Ready(m) /\ at[m] # 0
    /\ Hot(m) <=> high_uncore_freq[m] = 0
    /\ Advance(m)
    /\ UNCHANGED <<life, high_uncore_freq, gpu_powers, sharedVars>>

ScaleUp(m) ==
    /\ Ready(m) /\ at[m] # 0
    /\ ~Hot(m) /\ high_uncore_freq[m] = 0
    /\ SharedCall(m, High)
    /\ UNCHANGED gpuVars

ScaleDown(m) ==
    /\ Ready(m) /\ at[m] # 0
    /\ Hot(m) /\ high_uncore_freq[m] = 1
    /\ SharedCall(m, Low)
    /\ UNCHANGED gpuVars

\* The script's first write.
FirstWrite(m) ==
    /\ WriteCpu0(m) /\ SharedWrite(m)
    /\ UNCHANGED gpuVars

\* Its first write fails: the script goes on, and nobody notices.
FirstWriteFails(m) ==
    /\ FailCpu0(m) /\ SharedFail(m)
    /\ UNCHANGED gpuVars

\* Mutant of Return: the flag is not reset after a scale-down.
ReturnNoReset(m) ==
    /\ WriteCpu1(m) /\ SharedWrite(m)
    /\ high_uncore_freq' = [high_uncore_freq EXCEPT ![m] = 1]
    /\ Advance(m)
    /\ UNCHANGED <<life, gpu_powers>>

\* Its second write, after which it returns and the flag is set.
Return(m) ==
    /\ WriteCpu1(m) /\ SharedWrite(m)
    /\ high_uncore_freq' = [high_uncore_freq EXCEPT ![m] = IF Hot(m) THEN 0 ELSE 1]
    /\ Advance(m)
    /\ UNCHANGED <<life, gpu_powers>>

\* Its second write fails: check=True raises in the middle of the scan.
ReturnFails(m) ==
    /\ FailCpu1(m) /\ SharedFail(m)
    /\ life' = [life EXCEPT ![m] = "dead"]
    /\ UNCHANGED <<high_uncore_freq, gpu_powers, at>>

Monitor(m) ==
    \/ \E hot \in [1 .. Gpus -> BOOLEAN] : get_gpu_power(m, hot)
    \/ EndMonitor(m) \/ SampleFails(m)
    \/ PassOver(m) \/ ScaleUp(m) \/ ScaleDown(m)
    \/ FirstWrite(m) \/ FirstWriteFails(m) \/ Return(m) \/ ReturnFails(m)

\* The other callers: any frequencies at any time, and terminated at any time.
Other(c) ==
    /\ c \notin Monitors
    /\ \/ \E p \in Freqs \X Freqs : SharedCall(c, p)
       \/ SharedWrite(c)
       \/ SharedFail(c)
       \/ SharedTerminate(c)
    /\ UNCHANGED gpuVars

SystemNext == \E c \in Callers : Other(c) \/ (c \in Monitors /\ Monitor(c))

\* A monitor and the script it started run.
SystemSpec ==
    /\ GpuInit /\ [][SystemNext]_systemVars
    /\ \A m \in Monitors : WF_systemVars(Monitor(m))

-----------------------------------------------------------------------------
\* The flag, by which the monitor decides whether to ask at all, says what the
\* sockets have.  In a monitor that check=True ended in the middle of a scan it is
\* wrong instead: socket 0 has the frequency the flag denies, and nobody will
\* put it right.  Excepted is a monitor that has started no script yet, or whose
\* last script another caller wrote beside or failed to write socket 0 unnoticed.
FlagIsHardware ==
    \A m \in Monitors : undisturbed[m] =>
        /\ pc[m] = "idle" => msr = IF high_uncore_freq[m] = 1 THEN High ELSE Low
        /\ pc[m] = "failed" =>
               life[m] = "dead" /\ msr[1] = IF high_uncore_freq[m] = 1 THEN 8 ELSE 24

\* Of GPUs that disagree the last one decides: between two samples the flag
\* asks for the high frequency exactly when that GPU was not hot, whatever
\* requests the others made in the same scan.
LastGpuDecides ==
    \A m \in Monitors : at[m] = 0 => (high_uncore_freq[m] = 1 <=> ~gpu_powers[m][Gpus])

\* GPUs that stay together on one side of the threshold get at most one more
\* request; GPUs that disagree may get one per GPU and sample, for ever.
SettlesWhenAgreed ==
    \A m \in Monitors, b \in BOOLEAN :
        <>[](\A g \in 1 .. Gpus : gpu_powers[m][g] = b) => <>[]~Active(m)
=============================================================================
