-------------------------- MODULE UncoreMsrProofs ---------------------------
(***************************************************************************)
(* Theorems about set_uncore_freq.sh, for every set of callers and of      *)
(* frequencies: a caller that is alone sees an atomic write of both        *)
(* sockets, and an undisturbed invocation leaves exactly what it was asked *)
(* for.  Then about the GPU-power controllers among the callers, for any   *)
(* number of them and of GPUs.                                             *)
(***************************************************************************)
EXTENDS GpuUfs, TLAPS

LEMMA WrittenType ==
    ASSUME NEW f \in Freqs
    PROVE  Written(f) \in 0..127
  BY DEF Written, InRange

LEMMA InitType == Init => TypeOK
  BY StartPairsAssumption DEF Init, TypeOK

LEMMA StepType == TypeOK /\ [Next]_vars => TypeOK'
  <1> SUFFICES ASSUME TypeOK, [Next]_vars PROVE TypeOK'
    OBVIOUS
  <1>1. ASSUME NEW c \in Callers, NEW p \in Freqs \X Freqs, Call(c, p) PROVE TypeOK'
    BY <1>1 DEF TypeOK, Call
  <1>2. ASSUME NEW c \in Callers, WriteCpu0(c) PROVE TypeOK'
    BY <1>2, WrittenType DEF TypeOK, WriteCpu0
  <1>3. ASSUME NEW c \in Callers, WriteCpu1(c) PROVE TypeOK'
    BY <1>3, WrittenType DEF TypeOK, WriteCpu1
  <1>4. ASSUME NEW c \in Callers, Terminate(c) PROVE TypeOK'
    BY <1>4 DEF TypeOK, Terminate
  <1>5. ASSUME NEW c \in Callers, FailCpu0(c) \/ FailCpu1(c) PROVE TypeOK'
    BY <1>5 DEF TypeOK, FailCpu0, FailCpu1
  <1>6. CASE UNCHANGED vars
    BY <1>6 DEF vars, TypeOK
  <1> QED
    BY <1>1, <1>2, <1>3, <1>4, <1>5, <1>6 DEF Next, Scripts, Step

\* The types.
THEOREM TypeCorrect == Spec => []TypeOK
  <1> QED
    BY InitType, StepType, PTL DEF Spec

\* The script keeps the sockets in the allowed range only as long as its callers
\* do: if all their arguments are in range, and the sockets are at the start,
\* the sockets always are, whoever fails or is terminated.
THEOREM RangeCorrect ==
    ASSUME Freqs \subseteq 8..24, StartPairs \subseteq (8..24) \X (8..24)
    PROVE  Spec => [](msr \in (8..24) \X (8..24))
  <1> DEFINE In == msr \in (8..24) \X (8..24)
  <1>1. Init => In
    BY DEF Init
  <1>2. TypeOK /\ In /\ [Next]_vars => In'
    <2> SUFFICES ASSUME TypeOK, In, [Next]_vars PROVE In'
      OBVIOUS
    <2>1. ASSUME NEW c \in Callers PROVE Written(arg[c][1]) \in 8..24 /\ Written(arg[c][2]) \in 8..24
      BY DEF TypeOK, Written, InRange
    <2>2. ASSUME NEW c \in Callers, WriteCpu0(c) \/ WriteCpu1(c) PROVE In'
      BY <2>1, <2>2 DEF WriteCpu0, WriteCpu1
    <2> QED
      BY <2>2 DEF Next, Scripts, Step, Call, FailCpu0, FailCpu1, Terminate, vars
  <1> QED
    BY <1>1, <1>2, TypeCorrect, PTL DEF Spec

-----------------------------------------------------------------------------
\* When all others are idle, a caller's own place decides what the mapping is.
LEMMA AloneMapping ==
    ASSUME NEW c \in Callers, \A d \in Callers : d # c => ~Active(d)
    PROVE  /\ pc[c] = "cpu1" => AtomicPair = <<msr[1], Written(arg[c][2])>>
           /\ pc[c] # "cpu1" => AtomicPair = msr
           /\ pc[c] = "cpu0" => AtomicPending = {arg[c]}
           /\ pc[c] # "cpu0" => AtomicPending = {}
  BY DEF AtomicPair, AtomicPending, Active

LEMMA AloneMappingNext ==
    ASSUME NEW c \in Callers, \A d \in Callers : d # c => ~Active(d)'
    PROVE  /\ pc'[c] = "cpu1" => AtomicPair' = <<msr'[1], Written(arg'[c][2])>>
           /\ pc'[c] # "cpu1" => AtomicPair' = msr'
           /\ pc'[c] = "cpu0" => AtomicPending' = {arg'[c]}
           /\ pc'[c] # "cpu0" => AtomicPending' = {}
  BY DEF AtomicPair, AtomicPending, Written, InRange, Active

LEMMA StepRefines ==
    ASSUME TypeOK, Scripts, Alone
    PROVE  [Atomic!Next]_(Atomic!vars)
  <1> DEFINE Others(c) == \A d \in Callers : d # c => ~Active(d) /\ ~Active(d)'
  <1>5. ASSUME NEW c \in Callers, Active(c) \/ Active(c)' PROVE Others(c)
    BY <1>5 DEF Alone
  <1>1. ASSUME NEW c \in Callers, NEW p \in Freqs \X Freqs, Call(c, p)
        PROVE  Atomic!Next
    <2>1. ~Active(c) /\ Active(c)' /\ pc[c] \notin {"cpu0", "cpu1"}
          /\ pc'[c] = "cpu0" /\ arg'[c] = p /\ msr' = msr
      BY <1>1 DEF Call, TypeOK, Active
    <2>2. Atomic!Call(p)
      BY <1>5, <2>1, AloneMapping, AloneMappingNext DEF Atomic!Call
    <2> QED
      BY <2>2 DEF Atomic!Next
  <1>2. ASSUME NEW c \in Callers, WriteCpu0(c)
        PROVE  Atomic!Next
    <2>1. pc[c] = "cpu0" /\ pc'[c] = "cpu1" /\ arg' = arg /\ Active(c)
          /\ msr' = <<Written(arg[c][1]), msr[2]>>
      BY <1>2 DEF WriteCpu0, TypeOK, Active
    <2>2. AtomicPair = msr
          /\ AtomicPair' = <<Written(arg[c][1]), Written(arg[c][2])>>
      BY <1>5, <2>1, AloneMapping, AloneMappingNext
    <2>3. AtomicPending = {arg[c]} /\ AtomicPending' = {}
      BY <1>5, <2>1, AloneMapping, AloneMappingNext
    <2>4. arg[c] \in Freqs \X Freqs
      BY DEF TypeOK
    <2>5. Atomic!Set(arg[c])
      BY <2>2, <2>3 DEF Atomic!Set, Atomic!Applied, Atomic!InRange, Written, InRange
    <2> QED
      BY <2>4, <2>5 DEF Atomic!Next
  <1>3. ASSUME NEW c \in Callers, WriteCpu1(c)
        PROVE  UNCHANGED Atomic!vars
    <2>1. pc[c] = "cpu1" /\ pc'[c] = "idle" /\ Active(c)
          /\ msr' = <<msr[1], Written(arg[c][2])>>
      BY <1>3 DEF WriteCpu1, TypeOK, Active
    <2> QED
      BY <1>5, <2>1, AloneMapping, AloneMappingNext DEF Atomic!vars
  <1> QED
    BY <1>1, <1>2, <1>3 DEF Scripts, Step

\* A script that is alone at work is an atomic write of both sockets, for any
\* number of callers before and after it and wherever those were terminated.
THEOREM AtomicCorrect == Spec => AloneIsAtomic
  <1>1. TypeOK => [Scripts /\ Alone => [Atomic!Next]_(Atomic!vars)]_vars
    BY StepRefines
  <1> QED
    BY <1>1, TypeCorrect, PTL DEF AloneIsAtomic

-----------------------------------------------------------------------------
SharedInv == SharedTypeOK /\ UndisturbedLands

LEMMA SharedInitInv == SharedInit => SharedInv
  BY InitType DEF SharedInit, SharedInv, SharedTypeOK, UndisturbedLands, Init

LEMMA SharedStepInv == SharedInv /\ [SharedNext]_sharedVars => SharedInv'
  <1> SUFFICES ASSUME SharedInv, [SharedNext]_sharedVars PROVE SharedInv'
    OBVIOUS
  <1>1. TypeOK'
    BY StepType DEF SharedInv, SharedTypeOK, SharedNext, SharedCall, SharedWrite,
                    SharedFail, SharedTerminate, sharedVars, Next, Scripts, Step
  <1>2. ASSUME NEW c \in Callers, NEW p \in Freqs \X Freqs, SharedCall(c, p)
        PROVE  SharedInv'
    BY <1>1, <1>2 DEF SharedInv, SharedTypeOK, UndisturbedLands, SharedCall, Call, TypeOK, Active
  <1>3. ASSUME NEW c \in Callers, SharedWrite(c) PROVE SharedInv'
    <2>1. undisturbed' \in [Callers -> BOOLEAN]
          /\ \A d \in Callers : undisturbed'[d] => d = c /\ undisturbed[c]
      BY <1>3 DEF SharedWrite, SharedInv, SharedTypeOK
    <2>2. CASE WriteCpu0(c)
      BY <1>1, <2>1, <2>2 DEF WriteCpu0, Written, SharedInv, SharedTypeOK,
                              UndisturbedLands, TypeOK
    <2>3. CASE WriteCpu1(c)
      BY <1>1, <2>1, <2>3 DEF WriteCpu1, Written, SharedInv, SharedTypeOK,
                              UndisturbedLands, TypeOK
    <2> QED
      BY <1>3, <2>2, <2>3 DEF SharedWrite
  <1>4. ASSUME NEW c \in Callers, SharedTerminate(c) PROVE SharedInv'
    BY <1>1, <1>4 DEF SharedTerminate, Terminate, Active, SharedInv, SharedTypeOK,
                      UndisturbedLands, TypeOK
  <1>5. ASSUME NEW c \in Callers, SharedFail(c) PROVE SharedInv'
    BY <1>1, <1>5 DEF SharedFail, FailCpu0, FailCpu1, SharedInv, SharedTypeOK,
                      UndisturbedLands, TypeOK
  <1>6. CASE UNCHANGED sharedVars
    BY <1>6 DEF sharedVars, vars, SharedInv, SharedTypeOK, UndisturbedLands, TypeOK
  <1> QED
    BY <1>2, <1>3, <1>4, <1>5, <1>6 DEF SharedNext

\* The types, and that the history variable is one truth value per caller.
THEOREM SharedTypeCorrect == SharedSpec => []SharedTypeOK
  <1>1. SharedInv => SharedTypeOK
    BY DEF SharedInv
  <1> QED
    BY SharedInitInv, SharedStepInv, <1>1, PTL DEF SharedSpec

\* An invocation during which nobody else wrote leaves exactly its request.
THEOREM UndisturbedCorrect == SharedSpec => []UndisturbedLands
  <1>1. SharedInv => UndisturbedLands
    BY DEF SharedInv
  <1> QED
    BY SharedInitInv, SharedStepInv, <1>1, PTL DEF SharedSpec

-----------------------------------------------------------------------------
\* The GPU-power controllers.  What each scan has decided so far: the flag is
\* that of the last GPU passed, and the script at work is for the GPU at hand.
Scanned ==
    \A m \in Monitors :
        /\ at[m] > 1 => (high_uncore_freq[m] = 1 <=> ~gpu_powers[m][at[m] - 1])
        /\ pc[m] # "idle" => arg[m] = IF gpu_powers[m][at[m]] THEN Low ELSE High
        /\ Active(m) => /\ life[m] = "running"
                        /\ high_uncore_freq[m] = 1 <=> gpu_powers[m][at[m]]

GpuInv == /\ GpuTypeOK /\ UndisturbedLands
          /\ Scanned /\ FlagIsHardware /\ LastGpuDecides

\* Every step of the composition is one of the scripts', or leaves them alone.
LEMMA SystemIsShared == [SystemNext]_systemVars => [SharedNext]_sharedVars
  <1> SUFFICES ASSUME [SystemNext]_systemVars PROVE [SharedNext]_sharedVars
    OBVIOUS
  <1>1. ASSUME NEW c \in Callers, Other(c) PROVE SharedNext
    BY <1>1 DEF Other, SharedNext
  <1>2. ASSUME NEW m \in Monitors, Monitor(m) PROVE [SharedNext]_sharedVars
    <2> m \in Callers /\ High \in Freqs \X Freqs /\ Low \in Freqs \X Freqs
      BY MonitorsAssumption, PairsAssumption DEF High, Low
    <2>1. CASE ScaleUp(m) \/ ScaleDown(m)
      BY <2>1 DEF ScaleUp, ScaleDown, SharedNext
    <2>2. CASE FirstWrite(m) \/ Return(m)
      BY <2>2 DEF FirstWrite, Return, SharedNext
    <2>3. CASE FirstWriteFails(m) \/ ReturnFails(m)
      BY <2>3 DEF FirstWriteFails, ReturnFails, SharedNext
    <2>4. CASE PassOver(m) \/ EndMonitor(m) \/ SampleFails(m)
      BY <2>4 DEF PassOver, EndMonitor, SampleFails
    <2>5. ASSUME NEW hot \in [1 .. Gpus -> BOOLEAN], get_gpu_power(m, hot)
          PROVE  UNCHANGED sharedVars
      BY <2>5 DEF get_gpu_power
    <2> QED
      BY <1>2, <2>1, <2>2, <2>3, <2>4, <2>5 DEF Monitor
  <1>3. CASE UNCHANGED systemVars
    BY <1>3 DEF systemVars
  <1> QED
    BY <1>1, <1>2, <1>3 DEF SystemNext

LEMMA GpuInitInv == GpuInit => GpuInv
  <1> SUFFICES ASSUME GpuInit PROVE GpuInv
    OBVIOUS
  <1>1. SharedTypeOK /\ UndisturbedLands
    BY SharedInitInv DEF GpuInit, SharedInv
  <1>2. GpuTypeOK
    BY <1>1, GpusAssumption, MonitorsAssumption DEF GpuInit, GpuTypeOK, SharedInit, Init
  <1>3. Scanned /\ FlagIsHardware /\ LastGpuDecides
    BY GpusAssumption, MonitorsAssumption
       DEF GpuInit, Scanned, FlagIsHardware, LastGpuDecides, SharedInit, Init, Active
  <1> QED
    BY <1>1, <1>2, <1>3 DEF GpuInv

\* What a monitor leaves alone of another.
LEMMA OtherMonitors ==
    ASSUME GpuInv, NEW m \in Monitors, NEW k \in Monitors, k # m, Monitor(m)
    PROVE  /\ pc'[k] = pc[k] /\ arg'[k] = arg[k] /\ life'[k] = life[k]
           /\ high_uncore_freq'[k] = high_uncore_freq[k]
           /\ gpu_powers'[k] = gpu_powers[k] /\ at'[k] = at[k]
           /\ undisturbed'[k] => undisturbed[k] /\ msr' = msr
  <1> USE MonitorsAssumption DEF GpuInv, GpuTypeOK, SharedTypeOK, TypeOK
  <1>1. CASE ScaleUp(m) \/ ScaleDown(m)
    BY <1>1 DEF ScaleUp, ScaleDown, SharedCall, Call, gpuVars
  <1>2. CASE FirstWrite(m)
    BY <1>2 DEF FirstWrite, SharedWrite, WriteCpu0, gpuVars
  <1>3. CASE Return(m)
    BY <1>3 DEF Return, SharedWrite, WriteCpu1, Advance
  <1>4. CASE FirstWriteFails(m) \/ ReturnFails(m)
    BY <1>4 DEF FirstWriteFails, ReturnFails, SharedFail, FailCpu0, FailCpu1, gpuVars
  <1>5. CASE PassOver(m) \/ EndMonitor(m) \/ SampleFails(m)
    BY <1>5 DEF PassOver, EndMonitor, SampleFails, Advance, sharedVars, vars
  <1>6. ASSUME NEW hot \in [1 .. Gpus -> BOOLEAN], get_gpu_power(m, hot)
        PROVE  /\ pc'[k] = pc[k] /\ arg'[k] = arg[k] /\ life'[k] = life[k]
               /\ high_uncore_freq'[k] = high_uncore_freq[k]
               /\ gpu_powers'[k] = gpu_powers[k] /\ at'[k] = at[k]
               /\ undisturbed'[k] => undisturbed[k] /\ msr' = msr
    BY <1>6 DEF get_gpu_power, sharedVars, vars
  <1> QED
    BY <1>1, <1>2, <1>3, <1>4, <1>5, <1>6 DEF Monitor

\* The parts of the invariant that are about one monitor.
OneInv(m) ==
    /\ at[m] > 1 => (high_uncore_freq[m] = 1 <=> ~gpu_powers[m][at[m] - 1])
    /\ pc[m] # "idle" => arg[m] = IF gpu_powers[m][at[m]] THEN Low ELSE High
    /\ Active(m) => /\ life[m] = "running"
                    /\ high_uncore_freq[m] = 1 <=> gpu_powers[m][at[m]]
    /\ undisturbed[m] =>
        /\ pc[m] = "idle" => msr = IF high_uncore_freq[m] = 1 THEN High ELSE Low
        /\ pc[m] = "failed" =>
               life[m] = "dead" /\ msr[1] = IF high_uncore_freq[m] = 1 THEN 8 ELSE 24
    /\ at[m] = 0 => (high_uncore_freq[m] = 1 <=> ~gpu_powers[m][Gpus])

LEMMA OneByOne ==
    GpuInv <=> GpuTypeOK /\ UndisturbedLands /\ \A m \in Monitors : OneInv(m)
  BY DEF GpuInv, Scanned, FlagIsHardware, LastGpuDecides, OneInv

\* A monitor's own step keeps its types.
LEMMA MonitorType ==
    ASSUME GpuInv, SharedTypeOK', NEW m \in Monitors, Monitor(m)
    PROVE  GpuTypeOK'
  <1> USE MonitorsAssumption, GpusAssumption DEF GpuInv, GpuTypeOK
  <1> m \in Callers
    OBVIOUS
  <1>1. CASE ScaleUp(m) \/ ScaleDown(m)
    BY <1>1 DEF ScaleUp, ScaleDown, SharedCall, Call, gpuVars, SharedTypeOK, TypeOK
  <1>2. CASE FirstWrite(m)
    BY <1>2 DEF FirstWrite, SharedWrite, WriteCpu0, gpuVars, SharedTypeOK, TypeOK
  <1>3. CASE Return(m)
    <2>1. pc' = [pc EXCEPT ![m] = "idle"] /\ life' = life /\ gpu_powers' = gpu_powers
      BY <1>3 DEF Return, WriteCpu1
    <2>2. high_uncore_freq' \in [Monitors -> {0, 1}] /\ at' \in [Monitors -> 0 .. Gpus]
      BY <1>3 DEF Return, Advance
    <2>3. \A k \in Monitors : k # m => at'[k] = at[k] /\ pc'[k] = pc[k]
      BY <1>3, <2>1 DEF Return, Advance, SharedTypeOK, TypeOK
    <2>4. pc'[m] = "idle"
      BY <2>1 DEF SharedTypeOK, TypeOK
    <2> QED
      BY <2>1, <2>2, <2>3, <2>4
  <1>4. CASE FirstWriteFails(m) \/ ReturnFails(m)
    BY <1>4 DEF FirstWriteFails, ReturnFails, SharedFail, FailCpu0, FailCpu1, gpuVars,
                SharedTypeOK, TypeOK
  <1>5. CASE EndMonitor(m) \/ SampleFails(m)
    BY <1>5 DEF EndMonitor, SampleFails, sharedVars, vars
  <1>6. CASE PassOver(m)
    <2>1. pc' = pc /\ pc[m] = "idle" /\ UNCHANGED <<life, high_uncore_freq, gpu_powers>>
      BY <1>6 DEF PassOver, Ready, sharedVars, vars
    <2>2. at' \in [Monitors -> 0 .. Gpus] /\ \A k \in Monitors : k # m => at'[k] = at[k]
      BY <1>6 DEF PassOver, Advance
    <2> QED
      BY <2>1, <2>2
  <1>7. ASSUME NEW hot \in [1 .. Gpus -> BOOLEAN], get_gpu_power(m, hot) PROVE GpuTypeOK'
    BY <1>7 DEF get_gpu_power, Ready, sharedVars, vars
  <1> QED
    BY <1>1, <1>2, <1>3, <1>4, <1>5, <1>6, <1>7 DEF Monitor

\* A monitor's own step keeps what its scan, its script and its flag say.
LEMMA MonitorOne ==
    ASSUME GpuInv, NEW m \in Monitors, Monitor(m)
    PROVE  OneInv(m)'
  <1> USE MonitorsAssumption, GpusAssumption
  <1>0. /\ m \in Callers /\ at[m] \in 0 .. Gpus /\ high_uncore_freq[m] \in {0, 1}
        /\ gpu_powers[m] \in [1 .. Gpus -> BOOLEAN] /\ OneInv(m)
        /\ pc[m] # "idle" => at[m] # 0
        /\ msr \in (0..127) \X (0..127)
    BY OneByOne DEF GpuInv, GpuTypeOK, SharedTypeOK, TypeOK
  <1>1. CASE ScaleUp(m) \/ ScaleDown(m)
    <2>1. /\ at[m] # 0 /\ pc'[m] = "cpu0" /\ life[m] = "running"
          /\ arg'[m] = IF gpu_powers[m][at[m]] THEN Low ELSE High
      BY <1>0, <1>1 DEF ScaleUp, ScaleDown, SharedCall, Call, Ready, Hot,
                        GpuInv, GpuTypeOK, SharedTypeOK, TypeOK
    <2>2. UNCHANGED <<life, high_uncore_freq, gpu_powers, at>>
      BY <1>1 DEF ScaleUp, ScaleDown, gpuVars
    <2>3. high_uncore_freq[m] = 1 <=> gpu_powers[m][at[m]]
      BY <1>0, <1>1 DEF ScaleUp, ScaleDown, Hot
    <2> QED
      BY <1>0, <2>1, <2>2, <2>3 DEF OneInv, Active
  <1>2. CASE FirstWrite(m) \/ FirstWriteFails(m)
    <2>1. pc[m] = "cpu0" /\ pc'[m] = "cpu1" /\ arg' = arg
      BY <1>0, <1>2 DEF FirstWrite, WriteCpu0, FirstWriteFails, FailCpu0,
                        GpuInv, GpuTypeOK, SharedTypeOK, TypeOK
    <2>2. UNCHANGED <<life, high_uncore_freq, gpu_powers, at>>
      BY <1>2 DEF FirstWrite, FirstWriteFails, gpuVars
    <2> QED
      BY <1>0, <2>1, <2>2 DEF OneInv, Active
  <1>3. CASE Return(m)
    <2>1. /\ pc[m] = "cpu1" /\ pc'[m] = "idle"
          /\ msr' = <<msr[1], Written(arg[m][2])>>
          /\ undisturbed'[m] => undisturbed[m]
      BY <1>0, <1>3 DEF Return, WriteCpu1, SharedWrite, GpuInv, GpuTypeOK, SharedTypeOK, TypeOK
    <2>2. /\ high_uncore_freq'[m] = IF gpu_powers[m][at[m]] THEN 0 ELSE 1
          /\ gpu_powers' = gpu_powers
          /\ at'[m] = IF at[m] = Gpus THEN 0 ELSE at[m] + 1
      BY <1>3 DEF Return, Advance, Hot, GpuInv, GpuTypeOK
    <2>3. arg[m] = IF gpu_powers[m][at[m]] THEN Low ELSE High
      BY <1>0, <2>1 DEF OneInv
    <2>4. ASSUME undisturbed[m]
          PROVE  msr' = IF high_uncore_freq'[m] = 1 THEN High ELSE Low
      <3>1. Written(arg[m][1]) = arg[m][1] /\ Written(arg[m][2]) = arg[m][2]
        BY <2>3 DEF Written, InRange, High, Low
      <3>2. msr[1] = arg[m][1]
        BY <1>0, <2>1, <2>4, <3>1 DEF GpuInv, UndisturbedLands
      <3>3. msr' = <<arg[m][1], arg[m][2]>>
        BY <2>1, <3>1, <3>2
      <3> QED
        BY <2>2, <2>3, <3>3 DEF High, Low
    <2> QED
      BY <1>0, <2>1, <2>2, <2>4 DEF OneInv, Active
  <1>4. CASE ReturnFails(m)
    <2>1. /\ pc[m] = "cpu1" /\ pc'[m] = "failed" /\ arg' = arg /\ msr' = msr
          /\ undisturbed' = undisturbed /\ life'[m] = "dead" /\ Active(m)
      BY <1>0, <1>4 DEF ReturnFails, SharedFail, FailCpu0, FailCpu1, Active,
                        GpuInv, GpuTypeOK, SharedTypeOK, TypeOK
    <2>2. UNCHANGED <<high_uncore_freq, gpu_powers, at>>
      BY <1>4 DEF ReturnFails
    <2>3. arg[m] = (IF gpu_powers[m][at[m]] THEN Low ELSE High)
          /\ (high_uncore_freq[m] = 1 <=> gpu_powers[m][at[m]])
      BY <1>0, <2>1 DEF OneInv
    <2>4. undisturbed[m] => msr[1] = Written(arg[m][1])
      BY <1>0, <2>1 DEF GpuInv, UndisturbedLands
    <2>5. undisturbed[m] => msr[1] = IF high_uncore_freq[m] = 1 THEN 8 ELSE 24
      BY <2>3, <2>4 DEF Written, InRange, High, Low
    <2> QED
      BY <1>0, <2>1, <2>2, <2>3, <2>5 DEF OneInv, Active
  <1>5. CASE EndMonitor(m) \/ SampleFails(m)
    BY <1>0, <1>5 DEF EndMonitor, SampleFails, Ready, sharedVars, vars, OneInv, Active
  <1>6. CASE PassOver(m)
    <2>1. /\ pc' = pc /\ pc[m] = "idle" /\ msr' = msr /\ undisturbed' = undisturbed
          /\ UNCHANGED <<high_uncore_freq, gpu_powers>>
          /\ gpu_powers[m][at[m]] <=> high_uncore_freq[m] = 0
      BY <1>6 DEF PassOver, Ready, sharedVars, vars, Hot
    <2>2. at[m] # 0 /\ at'[m] = IF at[m] = Gpus THEN 0 ELSE at[m] + 1
      BY <1>6 DEF PassOver, Advance, GpuInv, GpuTypeOK
    <2> QED
      BY <1>0, <2>1, <2>2 DEF OneInv, Active
  <1>7. ASSUME NEW hot \in [1 .. Gpus -> BOOLEAN], get_gpu_power(m, hot) PROVE OneInv(m)'
    <2>1. /\ pc' = pc /\ pc[m] = "idle" /\ msr' = msr /\ undisturbed' = undisturbed
          /\ high_uncore_freq' = high_uncore_freq /\ at'[m] = 1
      BY <1>7 DEF get_gpu_power, Ready, sharedVars, vars, GpuInv, GpuTypeOK
    <2> QED
      BY <1>0, <2>1 DEF OneInv, Active
  <1> QED
    BY <1>1, <1>2, <1>3, <1>4, <1>5, <1>6, <1>7 DEF Monitor

LEMMA GpuStepInv == GpuInv /\ [SystemNext]_systemVars => GpuInv'
  <1> SUFFICES ASSUME GpuInv, [SystemNext]_systemVars PROVE GpuInv'
    OBVIOUS
  <1> USE MonitorsAssumption
  <1>1. SharedTypeOK' /\ UndisturbedLands'
    BY SystemIsShared, SharedStepInv DEF GpuInv, GpuTypeOK, SharedInv
  <1>2. ASSUME NEW c \in Callers, Other(c) PROVE GpuInv'
    <2>1. UNCHANGED <<life, high_uncore_freq, gpu_powers, at>> /\ c \notin Monitors
      BY <1>2 DEF Other, gpuVars
    <2>2. ASSUME NEW k \in Monitors
          PROVE  /\ pc'[k] = pc[k] /\ arg'[k] = arg[k]
                 /\ undisturbed'[k] => undisturbed[k] /\ msr' = msr
      <3> USE DEF GpuInv, GpuTypeOK, SharedTypeOK, TypeOK
      <3>1. ASSUME NEW p \in Freqs \X Freqs, SharedCall(c, p)
            PROVE  /\ pc'[k] = pc[k] /\ arg'[k] = arg[k]
                   /\ undisturbed'[k] => undisturbed[k] /\ msr' = msr
        BY <2>1, <3>1 DEF SharedCall, Call
      <3>2. CASE SharedWrite(c)
        BY <2>1, <3>2 DEF SharedWrite, WriteCpu0, WriteCpu1
      <3>3. CASE SharedTerminate(c)
        BY <2>1, <3>3 DEF SharedTerminate, Terminate
      <3>4. CASE SharedFail(c)
        BY <2>1, <3>4 DEF SharedFail, FailCpu0, FailCpu1
      <3> QED
        BY <1>2, <3>1, <3>2, <3>3, <3>4 DEF Other
    <2>3. GpuTypeOK'
      BY <1>1, <2>1, <2>2 DEF GpuInv, GpuTypeOK
    <2>4. ASSUME NEW k \in Monitors PROVE OneInv(k)'
      BY <2>1, <2>2, OneByOne DEF OneInv, Active
    <2> QED
      BY <1>1, <2>3, <2>4
       DEF GpuInv, Scanned, FlagIsHardware, LastGpuDecides, OneInv
  <1>3. ASSUME NEW m \in Monitors, Monitor(m) PROVE GpuInv'
    <2>1. GpuTypeOK'
      BY <1>1, <1>3, MonitorType
    <2>2. OneInv(m)'
      BY <1>3, MonitorOne
    <2>3. ASSUME NEW k \in Monitors, k # m PROVE OneInv(k)'
      BY <1>3, <2>3, OtherMonitors, OneByOne DEF OneInv, Active
    <2> QED
      BY <1>1, <2>1, <2>2, <2>3
       DEF GpuInv, Scanned, FlagIsHardware, LastGpuDecides, OneInv
  <1>4. CASE UNCHANGED systemVars
    BY <1>1, <1>4 DEF systemVars, gpuVars, sharedVars, vars, GpuInv, GpuTypeOK,
                 Scanned, FlagIsHardware, LastGpuDecides, Active
  <1> QED
    BY <1>2, <1>3, <1>4 DEF SystemNext

LEMMA GpuInvariance == SystemSpec => []GpuInv
  BY GpuInitInv, GpuStepInv, PTL DEF SystemSpec

\* The types, for any number of monitors, GPUs and other callers.
THEOREM GpuTypeCorrect == SystemSpec => []GpuTypeOK
  <1>1. GpuInv => GpuTypeOK
    BY DEF GpuInv
  <1> QED
    BY <1>1, GpuInvariance, PTL

\* Each monitor's flag says what the sockets have as long as nobody else wrote and
\* no write failed unnoticed; that of a monitor that died in a scan says the
\* opposite of what socket 0 has.
THEOREM FlagCorrect == SystemSpec => []FlagIsHardware
  <1>1. GpuInv => FlagIsHardware
    BY DEF GpuInv
  <1> QED
    BY <1>1, GpuInvariance, PTL

\* After every scan the flag is that of the last GPU.
THEOREM LastGpuCorrect == SystemSpec => []LastGpuDecides
  <1>1. GpuInv => LastGpuDecides
    BY DEF GpuInv
  <1> QED
    BY <1>1, GpuInvariance, PTL

\* An invocation nobody disturbed leaves its request in the composition as well.
THEOREM SystemUndisturbed == SystemSpec => []UndisturbedLands
  <1>1. GpuInv => UndisturbedLands
    BY DEF GpuInv
  <1> QED
    BY <1>1, GpuInvariance, PTL

-----------------------------------------------------------------------------
\* What settling rests on, in steps: the GPUs agree, and the flag is theirs.
Agreed(m, b)  == \A g \in 1 .. Gpus : gpu_powers[m][g] = b
Settled(m, b) == pc[m] = "idle" /\ high_uncore_freq[m] = IF b THEN 0 ELSE 1

\* A monitor that is settled and running asks for nothing.
LEMMA SettledStays ==
    ASSUME GpuInv, NEW m \in Monitors, NEW b \in BOOLEAN, Monitor(m),
           Agreed(m, b), Settled(m, b)
    PROVE  Settled(m, b)'
  <1> USE MonitorsAssumption, GpusAssumption
        DEF GpuInv, GpuTypeOK, SharedTypeOK, TypeOK, Settled, Ready
  <1>1. at[m] # 0 => at[m] \in 1 .. Gpus /\ (Hot(m) <=> b)
    BY DEF Agreed, Hot
  <1>2. ~ScaleUp(m) /\ ~ScaleDown(m)
    BY <1>1 DEF ScaleUp, ScaleDown
  <1>3. ~FirstWrite(m) /\ ~FirstWriteFails(m) /\ ~Return(m) /\ ~ReturnFails(m)
    BY DEF FirstWrite, WriteCpu0, Return, WriteCpu1, FirstWriteFails, FailCpu0,
           ReturnFails, FailCpu1
  <1>4. UNCHANGED <<pc, high_uncore_freq>>
    BY <1>2, <1>3 DEF Monitor, get_gpu_power, EndMonitor, SampleFails, PassOver,
                      sharedVars, vars
  <1> QED
    BY <1>4

\* Whatever the script was started for, when it returns the flag is set to the
\* GPU at hand.
LEMMA ReturnSettles ==
    ASSUME GpuInv, NEW m \in Monitors, NEW b \in BOOLEAN, Return(m), Agreed(m, b)
    PROVE  Settled(m, b)'
  <1> USE MonitorsAssumption, GpusAssumption
        DEF GpuInv, GpuTypeOK, SharedTypeOK, TypeOK
  <1>1. pc[m] = "cpu1" /\ pc'[m] = "idle"
    BY DEF Return, WriteCpu1
  <1>2. at[m] \in 1 .. Gpus
    BY <1>1
  <1>3. Hot(m) <=> b
    BY <1>2 DEF Agreed, Hot
  <1> QED
    BY <1>1, <1>3 DEF Return, Settled

\* As long as the GPUs of a monitor agree, the script it is running, or the one
\* it starts next, is its last: when that returns the flag is as they ask, and
\* a monitor whose flag is as they ask starts none (the safety half of
\* SettlesWhenAgreed), whatever other callers and monitors do.
THEOREM AgreedCorrect ==
    SystemSpec => [][\A m \in Monitors, b \in BOOLEAN : Agreed(m, b) =>
                        /\ Return(m) => Settled(m, b)'
                        /\ Settled(m, b) => Settled(m, b)']_systemVars
  <1>1. ASSUME GpuInv, [SystemNext]_systemVars, NEW m \in Monitors, NEW b \in BOOLEAN,
               Agreed(m, b)
        PROVE  /\ Return(m) => Settled(m, b)'
               /\ Settled(m, b) => Settled(m, b)'
    <2> USE MonitorsAssumption
    <2>1. Return(m) => Settled(m, b)'
      BY <1>1, ReturnSettles
    <2>2. ASSUME Settled(m, b) PROVE Settled(m, b)'
      <3>1. CASE Monitor(m)
        BY <1>1, <2>2, <3>1, SettledStays
      <3>2. ASSUME NEW k \in Monitors, k # m, Monitor(k) PROVE Settled(m, b)'
        BY <1>1, <2>2, <3>2, OtherMonitors DEF Settled
      <3>3. ASSUME NEW c \in Callers, Other(c) PROVE Settled(m, b)'
        <4>1. c # m /\ UNCHANGED high_uncore_freq
          BY <3>3 DEF Other, gpuVars
        <4>2. pc'[m] = pc[m]
          <5> USE <1>1 DEF GpuInv, GpuTypeOK, SharedTypeOK, TypeOK
          <5>1. ASSUME NEW p \in Freqs \X Freqs, SharedCall(c, p) PROVE pc'[m] = pc[m]
            BY <4>1, <5>1 DEF SharedCall, Call
          <5>2. CASE SharedWrite(c)
            BY <4>1, <5>2 DEF SharedWrite, WriteCpu0, WriteCpu1
          <5>3. CASE SharedTerminate(c)
            BY <4>1, <5>3 DEF SharedTerminate, Terminate
          <5>4. CASE SharedFail(c)
            BY <4>1, <5>4 DEF SharedFail, FailCpu0, FailCpu1
          <5> QED
            BY <3>3, <5>1, <5>2, <5>3, <5>4 DEF Other
        <4> QED
          BY <2>2, <4>1, <4>2 DEF Settled
      <3>4. CASE UNCHANGED systemVars
        BY <2>2, <3>4 DEF systemVars, gpuVars, sharedVars, vars, Settled
      <3> QED
        BY <1>1, <3>1, <3>2, <3>3, <3>4 DEF SystemNext
    <2> QED
      BY <2>1, <2>2
  <1>2. GpuInv /\ [SystemNext]_systemVars =>
            [\A m \in Monitors, b \in BOOLEAN : Agreed(m, b) =>
                /\ Return(m) => Settled(m, b)'
                /\ Settled(m, b) => Settled(m, b)']_systemVars
    BY <1>1
  <1> QED
    BY <1>2, GpuInvariance, PTL DEF SystemSpec

-----------------------------------------------------------------------------
LEMMA SharedIsPlain == [SharedNext]_sharedVars => [Next]_vars
  <1> SUFFICES ASSUME [SharedNext]_sharedVars PROVE [Next]_vars
    OBVIOUS
  <1>1. ASSUME NEW c \in Callers, NEW p \in Freqs \X Freqs, SharedCall(c, p) PROVE Next
    BY <1>1 DEF SharedCall, Next, Scripts, Step
  <1>2. ASSUME NEW c \in Callers, SharedWrite(c) PROVE Next
    BY <1>2 DEF SharedWrite, Next, Scripts, Step
  <1>3. ASSUME NEW c \in Callers, SharedTerminate(c) PROVE Next
    BY <1>3 DEF SharedTerminate, Next
  <1>4. ASSUME NEW c \in Callers, SharedFail(c) PROVE Next
    BY <1>4 DEF SharedFail, Next
  <1>5. CASE UNCHANGED sharedVars
    BY <1>5 DEF sharedVars
  <1> QED
    BY <1>1, <1>2, <1>3, <1>4, <1>5 DEF SharedNext

\* GPU monitors and their competitors do to the registers nothing but what
\* callers of set_uncore_freq.sh do: the composition implements the script with
\* its history, and the script without it.
THEOREM SystemImplements == SystemSpec => SharedSpec /\ Spec
  <1>1. GpuInit => SharedInit /\ Init
    BY DEF GpuInit, SharedInit
  <1> QED
    BY <1>1, SystemIsShared, SharedIsPlain, PTL DEF SystemSpec, SharedSpec, Spec

\* In the composition, too, a script that is alone at work is one atomic write.
THEOREM SystemAtomic == SystemSpec => AloneIsAtomic
  BY SystemImplements, AtomicCorrect, PTL
=============================================================================
