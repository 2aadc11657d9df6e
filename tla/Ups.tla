-------------------------------- MODULE Ups ---------------------------------
(***************************************************************************)
(* The UPS controller, GPGPU/script/power_util/UPS/ups.c: it watches DRAM  *)
(* power and instructions per cycle and lowers the uncore frequency by one *)
(* step as long as the DRAM power stays within 5% of a setpoint.  When the *)
(* power leaves that band it goes back to 2.2 GHz.                         *)
(*                                                                         *)
(* One turn of the monitoring loop is one action: it reads the power and   *)
(* the IPC of the load and calls ups(), whose system() waits for           *)
(* set_uncore_freq.sh.  The load changes between turns, when it likes.     *)
(* Frequencies are in 0.1 GHz; in binary floating point ten subtractions   *)
(* of 0.1 from 2.2 end just below 1.2, so that the comparison with 1.2     *)
(* gives what it gives for whole tenths.  A power is a whole number of     *)
(* watts and may be negative: the RAPL counter wraps around and the code   *)
(* takes the difference as it is.  IPC is in hundredths.                   *)
(*                                                                         *)
(* The names that MemUfs also has carry the prefix Ups here, because       *)
(* ControllerProofs extends both modules.                                  *)
(***************************************************************************)
EXTENDS Integers

CONSTANTS
    Powers,         \* DRAM powers a sample can have
    Ipcs,           \* IPCs a sample can have; 0: perf gave none, -100: no pipe
    dual_cap,       \* --dual_cap=1
    StartPairs      \* frequencies of the sockets when ups starts

ASSUME SamplesAssumption == Powers \subseteq Int /\ Ipcs \subseteq Int
ASSUME DualCapAssumption == dual_cap \in BOOLEAN
ASSUME StartAssumption   == StartPairs \subseteq (8..24) \X (8..24)

VARIABLES
    power, ipc,             \* what the next sample will be: the load
    init,                   \* no sample has been seen yet
    setpoint_dram_power,
    pre_ipc,
    current_uf,             \* frequency the controller believes in
    sockets,                \* frequencies of the two sockets
    state,                  \* the branch the last call took (for the properties)
    since                   \* powers sampled since 2.2 GHz was left (for the properties)

sample == <<power, ipc>>

upsVars == <<power, ipc, init, setpoint_dram_power, pre_ipc, current_uf, sockets, state, since>>

UpsTypeOK ==
    /\ power \in Powers /\ ipc \in Ipcs
    /\ init \in {0, 1}
    /\ setpoint_dram_power \in Powers \cup {0}
    /\ pre_ipc \in Ipcs \cup {0}
    /\ current_uf \in 12..22
    /\ sockets \in (8..24) \X (8..24)
    /\ state \in {"start", "decrement", "floor", "restore", "boost", "none"}
    /\ since \subseteq Powers

UpsInit ==
    /\ power \in Powers /\ ipc \in Ipcs
    /\ init = 1
    /\ setpoint_dram_power = 0
    /\ pre_ipc = 0
    /\ current_uf = 22
    /\ sockets \in StartPairs
    /\ state = "start"
    /\ since = {}

-----------------------------------------------------------------------------
\* The band of 5% around the setpoint, as the code's comparisons read it.  With a
\* negative setpoint nothing is Within, and Above is tested first.
Within(p) == /\ 20 * (p - setpoint_dram_power) <= setpoint_dram_power
             /\ 20 * (setpoint_dram_power - p) <= setpoint_dram_power
Above(p)  == ~Within(p) /\ 20 * (p - setpoint_dram_power) > setpoint_dram_power
Below(p)  == /\ ~Within(p) /\ ~Above(p)
             /\ 20 * (setpoint_dram_power - p) > setpoint_dram_power

IpcUp(i)   == 20 * (i - pre_ipc) >= pre_ipc
IpcDown(i) == ~IpcUp(i) /\ 20 * (pre_ipc - i) > pre_ipc

\* The pair that state 3 and state 2 ask for.
Full == <<22, IF dual_cap THEN 22 ELSE 12>>

\* The first sample: nothing is requested.
First(p, i) ==
    /\ init = 1
    /\ init' = 0
    /\ setpoint_dram_power' = p
    /\ pre_ipc' = i
    /\ state' = "start"
    /\ UNCHANGED <<current_uf, sockets>>

\* Mutant of Decrement: the band is not looked at.
DecrementUnbanded(p) ==
    /\ init = 0 /\ current_uf > 12
    /\ current_uf' = current_uf - 1
    /\ sockets' = <<current_uf', current_uf'>>
    /\ state' = "decrement"
    /\ UNCHANGED <<init, setpoint_dram_power, pre_ipc>>

\* "state 1: decrement uf", one step for both sockets.
Decrement(p) ==
    /\ init = 0 /\ Within(p) /\ current_uf > 12
    /\ current_uf' = current_uf - 1
    /\ sockets' = <<current_uf', current_uf'>>
    /\ state' = "decrement"
    /\ UNCHANGED <<init, setpoint_dram_power, pre_ipc>>

\* State 1 at the lowest frequency.
Floor(p) ==
    /\ init = 0 /\ Within(p) /\ current_uf <= 12
    /\ state' = "floor"
    /\ UNCHANGED <<init, setpoint_dram_power, pre_ipc, current_uf, sockets>>

\* Mutant of Restore: the setpoint is not renewed.
RestoreStale(p, i) ==
    /\ init = 0
    /\ Above(p) \/ (Below(p) /\ IpcUp(i))
    /\ pre_ipc' = i
    /\ current_uf' = 22
    /\ sockets' = Full
    /\ state' = "restore"
    /\ UNCHANGED <<init, setpoint_dram_power>>

\* Mutant of Restore: current_uf is not reset.
RestoreForgetful(p, i) ==
    /\ init = 0
    /\ Above(p) \/ (Below(p) /\ IpcUp(i))
    /\ setpoint_dram_power' = p
    /\ pre_ipc' = i
    /\ sockets' = Full
    /\ state' = "restore"
    /\ UNCHANGED <<init, current_uf>>

\* "state 3": a new phase, by more power or by less power and a higher IPC.
Restore(p, i) ==
    /\ init = 0
    /\ Above(p) \/ (Below(p) /\ IpcUp(i))
    /\ setpoint_dram_power' = p
    /\ pre_ipc' = i
    /\ current_uf' = 22
    /\ sockets' = Full
    /\ state' = "restore"
    /\ UNCHANGED init

\* "state 2: increment": less power and a lower IPC.  The step up is overwritten
\* by 2.2 GHz, and the setpoint stays.
Boost(p, i) ==
    /\ init = 0 /\ Below(p) /\ IpcDown(i)
    /\ pre_ipc' = i
    /\ current_uf' = 22
    /\ sockets' = Full
    /\ state' = "boost"
    /\ UNCHANGED <<init, setpoint_dram_power>>

\* No branch applies.
Nothing(p, i) ==
    /\ init = 0
    /\ ~Within(p) /\ ~Above(p)
    /\ ~(Below(p) /\ (IpcUp(i) \/ IpcDown(i)))
    /\ state' = "none"
    /\ UNCHANGED <<init, setpoint_dram_power, pre_ipc, current_uf, sockets>>

ups(p, i) ==
    \/ First(p, i)
    \/ Decrement(p)
    \/ Floor(p)
    \/ Restore(p, i)
    \/ Boost(p, i)
    \/ Nothing(p, i)

\* The benchmark enters another phase.
ChangePhase ==
    /\ power' \in Powers /\ ipc' \in Ipcs
    /\ sample' # sample
    /\ UNCHANGED <<init, setpoint_dram_power, pre_ipc, current_uf, sockets, state, since>>

\* One turn of the loop of monitor_dram_power_and_ipc.
UpsPeriod ==
    /\ ups(power, ipc)
    /\ since' = IF current_uf' = 22 THEN {} ELSE since \cup {power}
    /\ UNCHANGED sample

UpsNext == UpsPeriod \/ ChangePhase

UpsSpec == UpsInit /\ [][UpsNext]_upsVars

\* The loop turns as long as the benchmark runs; the load need never change.
UpsFairSpec == UpsSpec /\ WF_upsVars(UpsPeriod)

-----------------------------------------------------------------------------
\* The sockets have what the controller believes in: in a descent both of them,
\* with --dual_cap or without (what every other state keeps at 1.2 GHz without it
\* is then raised), and at 2.2 GHz the pair of a restore, or what was found at the
\* start as long as nothing was requested.
HardwareFollows ==
    IF current_uf < 22 THEN sockets = <<current_uf, current_uf>>
                       ELSE sockets \in StartPairs \cup {Full}

\* A descent spends one budget: of all the powers sampled since the frequency left
\* 2.2 GHz none was more than 5% above the setpoint of now, whichever branches,
\* the one for no state included, the calls took.
DescentInBudget ==
    current_uf < 22 => \A p \in since : 20 * (p - setpoint_dram_power) <= setpoint_dram_power

\* A setpoint taken from a wrapped RAPL counter does not outlive the next proper
\* sample, and that sample restores the full frequency.
WrapForgotten ==
    [][init = 0 /\ setpoint_dram_power < 0 /\ power >= 0 /\ UNCHANGED sample
        /\ upsVars' # upsVars =>
            setpoint_dram_power' = power /\ current_uf' = 22 /\ sockets' = Full]_upsVars

\* While the load stays level the controller comes to rest.
RestsWhenLevel == \A p \in Powers, i \in Ipcs :
    <>[](power = p /\ ipc = i) => <>[][sockets' = sockets]_upsVars
=============================================================================
