------------------------------- MODULE MemUfs -------------------------------
(***************************************************************************)
(* The memory-throughput driven uncore-frequency controller that this      *)
(* repository adds to pcm-memory (src/tools/pcm/src/pcm-memory.cpp).       *)
(*                                                                         *)
(* Every sampling period pcm-memory computes the DRAM throughput and calls *)
(* dynamic_ufs.  The controller raises the uncore frequency of the sockets *)
(* when the throughput rises, lowers it when it falls, and, when the       *)
(* direction changed too often in the last WindowSize calls (a "burst"),   *)
(* holds it high.  One call of dynamic_ufs is one action: pcm-memory is    *)
(* single threaded here and system() returns only when the command ended.  *)
(*                                                                         *)
(* Frequencies are in units of 0.1 GHz, throughputs are levels in          *)
(* Throughputs, and the 0.1 s period is one unit of time, so that the      *)
(* code's (last - first) / (0.1 * (history-1)) / 10 > inc_ts reads         *)
(* last - first > IncTs * (History - 1).                                   *)
(*                                                                         *)
(* Left out: the branch avgMem < 0 (l. 1886-1894).  A throughput is a sum  *)
(* of byte counts over an elapsed time, so an average of them is never     *)
(* negative; ASSUME ThroughputsAssumption says so.                         *)
(***************************************************************************)
EXTENDS Integers, Sequences, FiniteSets

CONSTANTS
    Throughputs,    \* the throughput levels a sample can have
    StartFreqs,     \* the pairs --uncore_0, --uncore_1 can have
    DualCap,        \* --dual_cap: both sockets are scaled
    PowerShift,     \* --power_shift and --g_cap are both 1
    History,        \* --history: samples the derivative looks at
    WindowSize,     \* calls the burst detection looks at (10 in the code)
    IncTs, DecTs,   \* --inc_ts, --dec_ts
    BurstUp,        \* --burst_up * WindowSize: changes that make a burst
    BurstLow,       \* --burst_low * WindowSize: compared, without effect
    MemTs           \* --memory_throughput_ts

ASSUME ThroughputsAssumption == Throughputs \subseteq Nat /\ Throughputs # {}
ASSUME StartFreqsAssumption  == StartFreqs \subseteq (8..24) \X (8..24)
ASSUME OptionsAssumption     == DualCap \in BOOLEAN /\ PowerShift \in BOOLEAN
ASSUME HistoryAssumption     == History \in Nat \ {0}
ASSUME WindowAssumption      == WindowSize \in Nat \ {0}
ASSUME ThresholdsAssumption  == /\ IncTs \in Nat /\ DecTs \in Nat
                                /\ BurstUp \in Nat \ {0} /\ BurstLow \in Nat
                                /\ MemTs \in Nat

VARIABLES
    throughputHistory,          \* the last History samples, oldest first
    uncoreChangeWindow,         \* 1 for a call that changed the expectation
    expect_current_max_uncore,  \* the frequency the throughput asks for: 1 max
    high_uncore,                \* what the controller last asked for: 1 max
    max_mem_throughput,         \* highest throughput seen so far
    uncore_lower_bound,         \* the low setting
    burst_status,               \* value the local burst_status had in the last call
    msr,                        \* uncore frequency of socket 0 and socket 1
    high_gpu_power,             \* the GPU power cap has been raised
    gpu_cap                     \* GPU power cap, in watts

vars == <<throughputHistory, uncoreChangeWindow, expect_current_max_uncore,
          high_uncore, max_mem_throughput, uncore_lower_bound, burst_status,
          msr, high_gpu_power, gpu_cap>>

uncore_upper_bound == 22

\* The frequencies the power shift compares with: no line assigns them.
newUncoreFreq == <<8, 8>>

\* What set_uncore_freq.sh is asked for by a raise and by a lowering.
HighPair(lb) == <<uncore_upper_bound, IF DualCap THEN uncore_upper_bound ELSE lb>>
LowPair(lb)  == <<lb, lb>>

Ones(w) == Cardinality({i \in DOMAIN w : w[i] = 1})

TypeOK ==
    /\ throughputHistory \in Seq(Throughputs)
    /\ Len(throughputHistory) <= History
    /\ uncoreChangeWindow \in Seq({0, 1})
    /\ Len(uncoreChangeWindow) <= WindowSize
    /\ expect_current_max_uncore \in {0, 1}
    /\ high_uncore \in {0, 1}
    /\ max_mem_throughput \in Throughputs \cup {0}
    /\ uncore_lower_bound \in {8, 15}
    /\ burst_status \in {0, 1}
    /\ msr \in (8..24) \X (8..24)
    /\ high_gpu_power \in {0, 1}
    /\ gpu_cap \in {150, 233}

\* The globals' initial values, the first set_uncore_freq.sh of mainThrows and
\* the expectation it derives from the requested frequencies.
Init ==
    /\ throughputHistory = <<>>
    /\ uncoreChangeWindow = <<>>
    /\ high_uncore = 0
    /\ max_mem_throughput = 0
    /\ uncore_lower_bound = 8
    /\ burst_status = 0
    /\ msr \in StartFreqs
    /\ expect_current_max_uncore = IF msr[1] >= 20 \/ msr[2] >= 20 THEN 1 ELSE 0
    /\ high_gpu_power = 0
    /\ gpu_cap = 150

-----------------------------------------------------------------------------
\* Steps every call takes first: the maximum, the lower bound, the history.

Higher(a, b) == IF a >= b THEN a ELSE b

LowerBound(max) == IF max > MemTs THEN 15 ELSE uncore_lower_bound

Remember(t) ==
    LET h == Append(throughputHistory, t)
    IN  IF Len(h) > History THEN Tail(h) ELSE h

Observe(t) ==
    /\ max_mem_throughput' = Higher(t, max_mem_throughput)
    /\ uncore_lower_bound' = LowerBound(max_mem_throughput')
    /\ throughputHistory' = Remember(t)

\* The derivative over the history that was just extended.
Rises == throughputHistory'[History] - throughputHistory'[1] > IncTs * (History - 1)
Falls == throughputHistory'[1] - throughputHistory'[History] > DecTs * (History - 1)

\* Too many changes in a full window, as it was before this call.
Burst == Len(uncoreChangeWindow) >= WindowSize /\ Ones(uncoreChangeWindow) >= BurstUp

Record(change) ==
    LET w == Append(uncoreChangeWindow, change)
    IN  uncoreChangeWindow' = IF Len(w) > WindowSize THEN Tail(w) ELSE w

-----------------------------------------------------------------------------
\* The requests to the hardware.  Each is made only when the flag changes.

Raise ==
    /\ high_uncore' = 1
    /\ msr' = IF high_uncore = 0 THEN HighPair(uncore_lower_bound') ELSE msr

\* Mutant of Lower: the flag is not reset.
LowerNoReset ==
    /\ high_uncore' = high_uncore
    /\ msr' = IF high_uncore = 1 THEN LowPair(uncore_lower_bound') ELSE msr

Lower ==
    /\ high_uncore' = 0
    /\ msr' = IF high_uncore = 1 THEN LowPair(uncore_lower_bound') ELSE msr

Keep == UNCHANGED <<high_uncore, msr>>

\* The tail of dynamic_ufs: one-way, because newUncoreFreq never changes.
ShiftPower ==
    IF PowerShift /\ (newUncoreFreq[1] = 8 \/ newUncoreFreq[2] = 8) /\ high_gpu_power = 0
    THEN high_gpu_power' = 1 /\ gpu_cap' = 233
    ELSE IF PowerShift /\ newUncoreFreq = <<22, 22>> /\ high_gpu_power = 1
         THEN high_gpu_power' = 0 /\ gpu_cap' = 150
         ELSE UNCHANGED <<high_gpu_power, gpu_cap>>

\* A call whose history is not full yet: nothing but the observation.
WarmUp(t) ==
    /\ Observe(t)
    /\ Len(throughputHistory') # History
    /\ burst_status' = 0
    /\ UNCHANGED <<uncoreChangeWindow, expect_current_max_uncore, high_uncore,
                   msr, high_gpu_power, gpu_cap>>

\* A call with a full history, up to the choice on the derivative.  The local
\* burst_status starts at 0 in every call, so resetting it when the share of
\* changes is at most burst_low (l. 1921) does nothing.
Decide(t) ==
    /\ Observe(t)
    /\ Len(throughputHistory') = History
    /\ burst_status' = IF Burst THEN 1 ELSE 0
    /\ ShiftPower

\* The throughput rose while the low frequency was expected.
MemIncrease(t) ==
    /\ Decide(t)
    /\ Rises /\ expect_current_max_uncore = 0
    /\ Record(1)
    /\ expect_current_max_uncore' = 1
    /\ Raise

\* Mutant of MemDecrease: a burst does not keep the frequency.
MemDecreaseUnguarded(t) ==
    /\ Decide(t)
    /\ Falls /\ expect_current_max_uncore = 1
    /\ Record(1)
    /\ expect_current_max_uncore' = 0
    /\ Lower

\* It fell while the high frequency was expected: a burst overrides the lowering.
MemDecrease(t) ==
    /\ Decide(t)
    /\ Falls /\ expect_current_max_uncore = 1
    /\ Record(1)
    /\ expect_current_max_uncore' = 0
    /\ IF Burst THEN Raise ELSE Lower

\* Mutant of MemSteady: a call without a change is not recorded.
MemSteadyUnrecorded(t) ==
    /\ Decide(t)
    /\ ~(Rises /\ expect_current_max_uncore = 0)
    /\ ~(Falls /\ expect_current_max_uncore = 1)
    /\ UNCHANGED <<uncoreChangeWindow, expect_current_max_uncore>>
    /\ IF Burst THEN Raise ELSE Keep

\* Neither: the expectation stands; a burst still raises.
MemSteady(t) ==
    /\ Decide(t)
    /\ ~(Rises /\ expect_current_max_uncore = 0)
    /\ ~(Falls /\ expect_current_max_uncore = 1)
    /\ Record(0)
    /\ UNCHANGED expect_current_max_uncore
    /\ IF Burst THEN Raise ELSE Keep

dynamic_ufs(t) == WarmUp(t) \/ MemIncrease(t) \/ MemDecrease(t) \/ MemSteady(t)

Next == \E t \in Throughputs : dynamic_ufs(t)

Spec == Init /\ [][Next]_vars

-----------------------------------------------------------------------------
\* The flag high_uncore, by which every later request is decided, agrees with
\* what the controller last wrote: after a raise the sockets are where a raise
\* puts them, otherwise they are where a lowering or the start put them.
FlagMatchesHardware ==
    /\ high_uncore = 1 => \E lb \in {8, 15} : msr = HighPair(lb)
    /\ high_uncore = 0 => msr \in StartFreqs \cup {LowPair(8), LowPair(15)}

\* While a burst is on the sockets are held high, whatever the throughput does.
BurstHoldsHigh == burst_status = 1 => high_uncore = 1 /\ msr[1] = uncore_upper_bound

\* The high frequency is expected of hardware that the controller never raised
\* only as long as it has recorded no change since a start at 2 GHz or more.
UnraisedOnlyAtStart ==
    expect_current_max_uncore = 1 /\ high_uncore = 0 =>
        /\ \A i \in DOMAIN uncoreChangeWindow : uncoreChangeWindow[i] = 0
        /\ msr \in StartFreqs /\ (msr[1] >= 20 \/ msr[2] >= 20)

\* The low setting is 1.5 GHz exactly when a throughput above the threshold has
\* been seen, in this call or in an earlier one.
LowerBoundFollowsMaximum == (uncore_lower_bound = 15) <=> (max_mem_throughput > MemTs)

\* Expectation and request part only in a burst.
OnlyBurstsDiverge ==
    [][expect_current_max_uncore = high_uncore
        /\ expect_current_max_uncore' # high_uncore' => burst_status' = 1]_vars

\* The sockets leave the upper bound only in a call that records a fall, that is
\* not in a burst, and to the lower bound of the highest throughput seen so far.
LoweredOnlyWhenCalm ==
    [][msr[1] = uncore_upper_bound /\ msr'[1] # uncore_upper_bound =>
        /\ expect_current_max_uncore = 1 /\ expect_current_max_uncore' = 0
        /\ ~Burst
        /\ msr' = IF max_mem_throughput' > MemTs THEN <<15, 15>> ELSE <<8, 8>>]_vars

-----------------------------------------------------------------------------
\* What the source's comments say, and the code does not do.

\* l. 1921-1922: control returns once the share of changes is at most burst_low.
BurstEndsAtLowMark ==
    [][burst_status = 1 /\ burst_status' = 0 => Ones(uncoreChangeWindow) <= BurstLow]_vars
=============================================================================
