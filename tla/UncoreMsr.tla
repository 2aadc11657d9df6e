----------------------------- MODULE UncoreMsr ------------------------------
(***************************************************************************)
(* The script GPGPU/script/power_util/set_uncore_freq.sh, through which    *)
(* every controller and every experiment driver sets the uncore frequency. *)
(*                                                                         *)
(* One invocation is two runs of wrmsr, one per socket, with nothing that  *)
(* keeps another invocation out in between.  A caller waits for the script *)
(* it started (system(), subprocess.run), so it has at most one in flight; *)
(* different callers run theirs at the same time.  A caller's process tree *)
(* can be terminated at any point, script included.                        *)
(*                                                                         *)
(* A frequency outside 0.8 .. 2.4 GHz does not stop the script: exit 1     *)
(* leaves only the subshell of $( ), whose error text becomes the value    *)
(* given to wrmsr.  It is not quoted, so each of its words is a value,     *)
(* which wrmsr reads with strtoull and writes, one after the other; the    *)
(* last word, GHz, is 0.  The values before it last as long as that run of *)
(* wrmsr and are left out.  A run of wrmsr can also fail and write         *)
(* nothing; the script goes on and has the exit status of the second run.  *)
(***************************************************************************)
EXTENDS Integers

CONSTANTS
    Callers,        \* processes that call the script
    Freqs,          \* the frequencies they may pass, in 0.1 GHz
    StartPairs      \* frequencies of the sockets before the first call

ASSUME FreqsAssumption      == Freqs \subseteq Int
ASSUME StartPairsAssumption == StartPairs \subseteq (0..127) \X (0..127)

VARIABLES
    msr,            \* the ratio (0.1 GHz) in MSR 0x620 of socket 0 and of socket 1
    arg,            \* the arguments of the caller's last invocation
    pc              \* "idle", the write the caller's script makes next, or
                    \* "failed": it returned an error

vars == <<msr, arg, pc>>

\* calculate_ratio: the allowed range.
InRange(f) == f \in 8..24

\* What wrmsr leaves in a socket: the ratio, or the last word of the error text.
Written(f) == IF InRange(f) THEN f ELSE 0

TypeOK ==
    /\ msr \in (0..127) \X (0..127)
    /\ arg \in [Callers -> Freqs \X Freqs]
    /\ pc \in [Callers -> {"idle", "cpu0", "cpu1", "failed"}]

Init ==
    /\ msr \in StartPairs
    /\ arg \in [Callers -> Freqs \X Freqs]
    /\ pc = [c \in Callers |-> "idle"]

\* The caller's script is at work.
Active(c) == pc[c] \in {"cpu0", "cpu1"}

\* The caller starts the script, which checks and converts its arguments.
Call(c, p) ==
    /\ ~Active(c)
    /\ arg' = [arg EXCEPT ![c] = p]
    /\ pc' = [pc EXCEPT ![c] = "cpu0"]
    /\ UNCHANGED msr

\* sudo wrmsr -p 0 0x620 ...
WriteCpu0(c) ==
    /\ pc[c] = "cpu0"
    /\ msr' = <<Written(arg[c][1]), msr[2]>>
    /\ pc' = [pc EXCEPT ![c] = "cpu1"]
    /\ UNCHANGED arg

\* Mutant of WriteCpu1: the ratio of the first socket is written to the second.
WriteCpu1Swapped(c) ==
    /\ pc[c] = "cpu1"
    /\ msr' = <<msr[1], Written(arg[c][1])>>
    /\ pc' = [pc EXCEPT ![c] = "idle"]
    /\ UNCHANGED arg

\* sudo wrmsr -p 1 0x620 ..., after which the script and its caller go on.
WriteCpu1(c) ==
    /\ pc[c] = "cpu1"
    /\ msr' = <<msr[1], Written(arg[c][2])>>
    /\ pc' = [pc EXCEPT ![c] = "idle"]
    /\ UNCHANGED arg

\* The first wrmsr fails, and nobody looks at its status.
FailCpu0(c) ==
    /\ pc[c] = "cpu0"
    /\ pc' = [pc EXCEPT ![c] = "cpu1"]
    /\ UNCHANGED <<msr, arg>>

\* The second wrmsr fails, and with it the script.
FailCpu1(c) ==
    /\ pc[c] = "cpu1"
    /\ pc' = [pc EXCEPT ![c] = "failed"]
    /\ UNCHANGED <<msr, arg>>

\* The driver terminates the caller's whole process tree (exp_power_motif.py).
Terminate(c) ==
    /\ Active(c)
    /\ pc' = [pc EXCEPT ![c] = "idle"]
    /\ UNCHANGED <<msr, arg>>

Step(c) ==
    \/ \E p \in Freqs \X Freqs : Call(c, p)
    \/ WriteCpu0(c)
    \/ WriteCpu1(c)

\* What the scripts do, as long as nobody terminates one and wrmsr works.
Scripts == \E c \in Callers : Step(c)

Next == Scripts \/ \E c \in Callers : FailCpu0(c) \/ FailCpu1(c) \/ Terminate(c)

Spec == Init /\ [][Next]_vars

-----------------------------------------------------------------------------
\* A caller that is alone sees the script as atomic: the call takes effect as a
\* whole at the first write, the second socket's value being already decided.
Alone == \A c, d \in Callers :
    (Active(c) \/ Active(c)') /\ (Active(d) \/ Active(d)') => c = d

AtomicPair ==
    IF \E c \in Callers : pc[c] = "cpu1"
    THEN LET c == CHOOSE c \in Callers : pc[c] = "cpu1"
         IN  <<msr[1], Written(arg[c][2])>>
    ELSE msr

AtomicPending == {arg[c] : c \in {d \in Callers : pc[d] = "cpu0"}}

Atomic == INSTANCE AtomicUncore WITH pair <- AtomicPair, pending <- AtomicPending

\* While one caller has a script at work, its two wrmsr runs implement one atomic
\* write of both sockets, to this call's own arguments, whatever the callers
\* before it left half written: nothing of another call ever surfaces later.  A
\* frequency out of range is a request too: the ratio 0, for its socket only.
AloneIsAtomic == [][Scripts /\ Alone => [Atomic!Next]_(Atomic!vars)]_vars
=============================================================================
