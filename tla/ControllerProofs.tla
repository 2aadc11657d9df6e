-------------------------- MODULE ControllerProofs --------------------------
(***************************************************************************)
(* Theorems about the two frequency controllers, for every choice of their *)
(* constants.  MemUfs, alone and under the load of MemUfsLoad: its         *)
(* invariants, its action properties, and what a level load leaves of its  *)
(* behaviour.  Ups, whose variables are its own: the two specifications    *)
(* share no state.                                                         *)
(***************************************************************************)
EXTENDS MemUfsLoad, Ups, FiniteSetTheorems, TLAPS

\* Trimming a sequence to a bound keeps it in the set of sequences and within
\* the bound; it is how both the history and the change window are kept.
LEMMA TrimLemma ==
    ASSUME NEW S, NEW w \in Seq(S), NEW e \in S, NEW n \in Nat \ {0}, Len(w) <= n
    PROVE  LET a == Append(w, e)
               r == IF Len(a) > n THEN Tail(a) ELSE a
           IN  /\ r \in Seq(S)
               /\ Len(r) <= n
               /\ \A i \in DOMAIN r : (r[i] = e \/ \E j \in DOMAIN w : r[i] = w[j])
  <1> DEFINE a == Append(w, e)
  <1>1. a \in Seq(S) /\ Len(a) = Len(w) + 1 /\ Len(w) \in Nat
    OBVIOUS
  <1>2. \A i \in 1..Len(a) : a[i] = IF i <= Len(w) THEN w[i] ELSE e
    OBVIOUS
  <1>3. CASE Len(a) > n
    <2>1. Tail(a) \in Seq(S) /\ Len(Tail(a)) = Len(a) - 1
      BY <1>1, <1>3
    <2>2. \A i \in 1..Len(Tail(a)) : Tail(a)[i] = a[i + 1]
      BY <1>1, <2>1, <1>3
    <2> QED
      BY <1>1, <1>2, <1>3, <2>1, <2>2
  <1>4. CASE ~(Len(a) > n)
    BY <1>1, <1>2, <1>4
  <1> QED
    BY <1>3, <1>4

-----------------------------------------------------------------------------
IInv ==
    /\ TypeOK
    /\ FlagMatchesHardware
    /\ BurstHoldsHigh
    /\ UnraisedOnlyAtStart
    /\ LowerBoundFollowsMaximum

LEMMA InitIInv == Init => IInv
  <1> SUFFICES ASSUME Init PROVE IInv
    OBVIOUS
  <1> USE ThroughputsAssumption, StartFreqsAssumption, OptionsAssumption,
          HistoryAssumption, WindowAssumption, ThresholdsAssumption DEF Init
  <1>1. TypeOK
    BY DEF TypeOK
  <1>2. FlagMatchesHardware /\ BurstHoldsHigh /\ UnraisedOnlyAtStart
    BY DEF FlagMatchesHardware, BurstHoldsHigh, UnraisedOnlyAtStart
  <1>3. LowerBoundFollowsMaximum
    BY DEF LowerBoundFollowsMaximum
  <1> QED
    BY <1>1, <1>2, <1>3 DEF IInv

\* What the first steps of every call leave: the observed variables are typed,
\* and the lower bound follows the maximum.
LEMMA ObserveLemma ==
    ASSUME IInv, NEW t \in Throughputs, Observe(t)
    PROVE  /\ throughputHistory' \in Seq(Throughputs)
           /\ Len(throughputHistory') <= History
           /\ max_mem_throughput' \in Throughputs \cup {0}
           /\ uncore_lower_bound' \in {8, 15}
           /\ LowerBoundFollowsMaximum'
  <1> USE ThroughputsAssumption, HistoryAssumption, ThresholdsAssumption
  <1>1. throughputHistory' \in Seq(Throughputs) /\ Len(throughputHistory') <= History
    <2> DEFINE a == Append(throughputHistory, t)
    <2> DEFINE r == IF Len(a) > History THEN Tail(a) ELSE a
    <2>1. throughputHistory \in Seq(Throughputs) /\ Len(throughputHistory) <= History
      BY DEF IInv, TypeOK
    <2>2. r \in Seq(Throughputs) /\ Len(r) <= History
      BY <2>1, TrimLemma
    <2>3. throughputHistory' = r
      BY DEF Observe, Remember
    <2> QED
      BY <2>2, <2>3
  <1>2. /\ max_mem_throughput' \in Throughputs \cup {0}
        /\ max_mem_throughput' >= max_mem_throughput
        /\ max_mem_throughput \in Nat /\ max_mem_throughput' \in Nat
    BY DEF IInv, TypeOK, Observe, Higher
  <1>3. uncore_lower_bound' \in {8, 15} /\ LowerBoundFollowsMaximum'
    BY <1>2 DEF IInv, TypeOK, Observe, LowerBound, LowerBoundFollowsMaximum
  <1> QED
    BY <1>1, <1>2, <1>3

\* A recorded bit keeps the window typed and bounded, and a recorded 0 adds no 1.
LEMMA RecordLemma ==
    ASSUME IInv, NEW b \in {0, 1}, Record(b)
    PROVE  /\ uncoreChangeWindow' \in Seq({0, 1})
           /\ Len(uncoreChangeWindow') <= WindowSize
           /\ \A i \in DOMAIN uncoreChangeWindow' :
                \/ uncoreChangeWindow'[i] = b
                \/ \E j \in DOMAIN uncoreChangeWindow :
                        uncoreChangeWindow'[i] = uncoreChangeWindow[j]
  <1> DEFINE a == Append(uncoreChangeWindow, b)
  <1> DEFINE r == IF Len(a) > WindowSize THEN Tail(a) ELSE a
  <1>1. uncoreChangeWindow \in Seq({0, 1}) /\ Len(uncoreChangeWindow) <= WindowSize
    BY DEF IInv, TypeOK
  <1>2. /\ r \in Seq({0, 1})
        /\ Len(r) <= WindowSize
        /\ \A i \in DOMAIN r : (r[i] = b \/ \E j \in DOMAIN uncoreChangeWindow :
                                                r[i] = uncoreChangeWindow[j])
    BY <1>1, WindowAssumption, TrimLemma
  <1>3. uncoreChangeWindow' = r
    BY DEF Record
  <1> QED
    BY <1>2, <1>3

\* A raise leaves the flag and the sockets high.
LEMMA RaiseLemma ==
    ASSUME IInv, Raise, uncore_lower_bound' \in {8, 15}
    PROVE  /\ high_uncore' = 1
           /\ \E lb \in {8, 15} : msr' = HighPair(lb)
           /\ msr' \in (8..24) \X (8..24)
           /\ msr'[1] = uncore_upper_bound
  <1>1. high_uncore' = 1 /\ \E lb \in {8, 15} : msr' = HighPair(lb)
    <2>1. CASE high_uncore = 0
      BY <2>1 DEF Raise
    <2>2. CASE high_uncore = 1
      BY <2>2 DEF Raise, IInv, FlagMatchesHardware
    <2> QED
      BY <2>1, <2>2 DEF IInv, TypeOK
  <1> QED
    BY <1>1, OptionsAssumption DEF HighPair, uncore_upper_bound

\* A lowering leaves the flag low and the sockets where the start or a lowering
\* put them.
LEMMA LowerLemma ==
    ASSUME IInv, Lower, uncore_lower_bound' \in {8, 15}
    PROVE  /\ high_uncore' = 0
           /\ msr' \in StartFreqs \cup {LowPair(8), LowPair(15)}
           /\ msr' \in (8..24) \X (8..24)
  <1>1. high_uncore' = 0 /\ msr' \in StartFreqs \cup {LowPair(8), LowPair(15)}
    <2>1. CASE high_uncore = 1
      BY <2>1 DEF Lower
    <2>2. CASE high_uncore = 0
      BY <2>2 DEF Lower, IInv, FlagMatchesHardware
    <2> QED
      BY <2>1, <2>2 DEF IInv, TypeOK
  <1> QED
    BY <1>1, StartFreqsAssumption DEF LowPair

LEMMA ShiftLemma ==
    ASSUME IInv, ShiftPower
    PROVE  high_gpu_power' \in {0, 1} /\ gpu_cap' \in {150, 233}
  BY DEF IInv, TypeOK, ShiftPower

LEMMA NextIInv == IInv /\ [Next]_vars => IInv'
  <1> SUFFICES ASSUME IInv, [Next]_vars PROVE IInv'
    OBVIOUS
  <1>1. ASSUME NEW t \in Throughputs, WarmUp(t) PROVE IInv'
    <2>1. Observe(t)
      BY <1>1 DEF WarmUp
    <2>2. /\ UNCHANGED <<uncoreChangeWindow, expect_current_max_uncore, high_uncore,
                         msr, high_gpu_power, gpu_cap>>
          /\ burst_status' = 0
      BY <1>1 DEF WarmUp
    <2>3. TypeOK'
      BY <2>1, <2>2, ObserveLemma DEF IInv, TypeOK
    <2>4. FlagMatchesHardware' /\ BurstHoldsHigh' /\ UnraisedOnlyAtStart'
      BY <2>2 DEF IInv, FlagMatchesHardware, BurstHoldsHigh, UnraisedOnlyAtStart
    <2> QED
      BY <2>1, <2>3, <2>4, ObserveLemma DEF IInv
  <1>2. ASSUME NEW t \in Throughputs, MemIncrease(t) PROVE IInv'
    <2>1. Observe(t) /\ Record(1) /\ Raise /\ ShiftPower /\ burst_status' \in {0, 1}
          /\ expect_current_max_uncore' = 1
      BY <1>2 DEF MemIncrease, Decide
    <2>2. TypeOK'
      BY <2>1, ObserveLemma, RecordLemma, RaiseLemma, ShiftLemma DEF TypeOK
    <2>3. FlagMatchesHardware' /\ BurstHoldsHigh' /\ UnraisedOnlyAtStart'
      BY <2>1, ObserveLemma, RaiseLemma
         DEF FlagMatchesHardware, BurstHoldsHigh, UnraisedOnlyAtStart
    <2> QED
      BY <2>1, <2>2, <2>3, ObserveLemma DEF IInv
  <1>3. ASSUME NEW t \in Throughputs, MemDecrease(t) PROVE IInv'
    <2>1. Observe(t) /\ Record(1) /\ ShiftPower /\ expect_current_max_uncore' = 0
          /\ burst_status' \in {0, 1}
      BY <1>3 DEF MemDecrease, Decide
    <2>2. CASE Burst
      <3>1. Raise
        BY <1>3, <2>2 DEF MemDecrease
      <3>2. TypeOK'
        BY <2>1, <3>1, ObserveLemma, RecordLemma, RaiseLemma, ShiftLemma DEF TypeOK
      <3>3. FlagMatchesHardware' /\ BurstHoldsHigh' /\ UnraisedOnlyAtStart'
        BY <2>1, <3>1, ObserveLemma, RaiseLemma
           DEF FlagMatchesHardware, BurstHoldsHigh, UnraisedOnlyAtStart
      <3> QED
        BY <2>1, <3>2, <3>3, ObserveLemma DEF IInv
    <2>3. CASE ~Burst
      <3>1. Lower /\ burst_status' = 0
        BY <1>3, <2>3 DEF MemDecrease, Decide
      <3>2. TypeOK'
        BY <2>1, <3>1, ObserveLemma, RecordLemma, LowerLemma, ShiftLemma DEF TypeOK
      <3>3. FlagMatchesHardware' /\ BurstHoldsHigh' /\ UnraisedOnlyAtStart'
        <4>1. msr' \in StartFreqs \cup {LowPair(8), LowPair(15)}
          BY <2>1, <3>1, ObserveLemma, LowerLemma
        <4>2. high_uncore' = 0
          BY <3>1 DEF Lower
        <4> QED
          BY <2>1, <3>1, <4>1, <4>2
             DEF FlagMatchesHardware, BurstHoldsHigh, UnraisedOnlyAtStart, LowPair
      <3> QED
        BY <2>1, <3>2, <3>3, ObserveLemma DEF IInv
    <2> QED
      BY <2>2, <2>3
  <1>4. ASSUME NEW t \in Throughputs, MemSteady(t) PROVE IInv'
    <2>1. Observe(t) /\ Record(0) /\ ShiftPower /\ burst_status' \in {0, 1}
          /\ UNCHANGED expect_current_max_uncore
      BY <1>4 DEF MemSteady, Decide
    <2>2. CASE Burst
      <3>1. Raise
        BY <1>4, <2>2 DEF MemSteady
      <3>2. TypeOK'
        BY <2>1, <3>1, ObserveLemma, RecordLemma, RaiseLemma, ShiftLemma
           DEF TypeOK, IInv
      <3>3. FlagMatchesHardware' /\ BurstHoldsHigh' /\ UnraisedOnlyAtStart'
        BY <2>1, <3>1, ObserveLemma, RaiseLemma
           DEF FlagMatchesHardware, BurstHoldsHigh, UnraisedOnlyAtStart
      <3> QED
        BY <2>1, <3>2, <3>3, ObserveLemma DEF IInv
    <2>3. CASE ~Burst
      <3>1. UNCHANGED <<high_uncore, msr>> /\ burst_status' = 0
        BY <1>4, <2>3 DEF MemSteady, Decide, Keep
      <3>2. TypeOK'
        BY <2>1, <3>1, ObserveLemma, RecordLemma, ShiftLemma DEF TypeOK, IInv
      <3>3. FlagMatchesHardware' /\ BurstHoldsHigh'
        BY <3>1 DEF IInv, FlagMatchesHardware, BurstHoldsHigh
      <3>4. UnraisedOnlyAtStart'
        BY <2>1, <3>1, RecordLemma DEF IInv, UnraisedOnlyAtStart
      <3> QED
        BY <2>1, <3>2, <3>3, <3>4, ObserveLemma DEF IInv
    <2> QED
      BY <2>2, <2>3
  <1>5. CASE UNCHANGED vars
    BY <1>5 DEF vars, IInv, TypeOK, FlagMatchesHardware, BurstHoldsHigh,
                UnraisedOnlyAtStart, LowerBoundFollowsMaximum
  <1> QED
    BY <1>1, <1>2, <1>3, <1>4, <1>5 DEF Next, dynamic_ufs

-----------------------------------------------------------------------------
\* The inductive invariant holds in every behaviour of the controller.
THEOREM Invariance == Spec => []IInv
  <1>1. Init => IInv
    BY InitIInv
  <1>2. IInv /\ [Next]_vars => IInv'
    BY NextIInv
  <1> QED
    BY <1>1, <1>2, PTL DEF Spec

\* The state of dynamic_ufs is always within its types and the two windows
\* within their bounds.
THEOREM TypeCorrect == Spec => []TypeOK
  <1>1. IInv => TypeOK
    BY DEF IInv
  <1> QED
    BY <1>1, Invariance, PTL

\* The flag high_uncore always agrees with what was last written to the sockets.
THEOREM FlagCorrect == Spec => []FlagMatchesHardware
  <1>1. IInv => FlagMatchesHardware
    BY DEF IInv
  <1> QED
    BY <1>1, Invariance, PTL

\* A burst always holds the sockets high.
THEOREM BurstCorrect == Spec => []BurstHoldsHigh
  <1>1. IInv => BurstHoldsHigh
    BY DEF IInv
  <1> QED
    BY <1>1, Invariance, PTL

\* An unraised high expectation only ever stems from the start frequencies.
THEOREM StartCorrect == Spec => []UnraisedOnlyAtStart
  <1>1. IInv => UnraisedOnlyAtStart
    BY DEF IInv
  <1> QED
    BY <1>1, Invariance, PTL

\* The low setting always follows the highest throughput seen.
THEOREM LowerBoundCorrect == Spec => []LowerBoundFollowsMaximum
  <1>1. IInv => LowerBoundFollowsMaximum
    BY DEF IInv
  <1> QED
    BY <1>1, Invariance, PTL

\* Expectation and request part only in a burst.
THEOREM DivergenceCorrect == Spec => OnlyBurstsDiverge
  <1> DEFINE A == expect_current_max_uncore = high_uncore
                  /\ expect_current_max_uncore' # high_uncore' => burst_status' = 1
  <1>1. ASSUME NEW t \in Throughputs, dynamic_ufs(t) PROVE A
    BY <1>1 DEF dynamic_ufs, WarmUp, MemIncrease, MemDecrease, MemSteady, Decide,
                Raise, Lower, Keep
  <1>2. [Next]_vars => [A]_vars
    BY <1>1 DEF Next
  <1> QED
    BY <1>2, PTL DEF Spec, OnlyBurstsDiverge

\* The sockets leave the upper bound only by a fall outside a burst.
THEOREM LoweringCorrect == Spec => LoweredOnlyWhenCalm
  <1> DEFINE A == msr[1] = uncore_upper_bound /\ msr'[1] # uncore_upper_bound =>
                    /\ expect_current_max_uncore = 1 /\ expect_current_max_uncore' = 0
                    /\ ~Burst
                    /\ msr' = IF max_mem_throughput' > MemTs THEN <<15, 15>> ELSE <<8, 8>>
  <1>1. ASSUME IInv, NEW t \in Throughputs, dynamic_ufs(t) PROVE A
    <2> SUFFICES ASSUME msr[1] = uncore_upper_bound, msr'[1] # uncore_upper_bound
                 PROVE  /\ expect_current_max_uncore = 1 /\ expect_current_max_uncore' = 0
                        /\ ~Burst
                        /\ msr' = IF max_mem_throughput' > MemTs THEN <<15, 15>> ELSE <<8, 8>>
      OBVIOUS
    <2>1. Observe(t)
      BY <1>1 DEF dynamic_ufs, WarmUp, MemIncrease, MemDecrease, MemSteady, Decide
    <2>2. ~Raise
      BY <1>1, <2>1, ObserveLemma, RaiseLemma
    <2>3. MemDecrease(t) /\ ~Burst /\ Lower
      BY <1>1, <2>2 DEF dynamic_ufs, WarmUp, MemIncrease, MemDecrease, MemSteady, Keep
    <2>4. msr' = LowPair(uncore_lower_bound')
      BY <2>3 DEF Lower
    <2>5. uncore_lower_bound' \in {8, 15} /\ LowerBoundFollowsMaximum'
      BY <1>1, <2>1, ObserveLemma
    <2> QED
      BY <2>3, <2>4, <2>5 DEF MemDecrease, LowPair, LowerBoundFollowsMaximum
  <1>2. IInv /\ [Next]_vars => [A]_vars
    BY <1>1 DEF Next
  <1> QED
    BY <1>2, Invariance, PTL DEF Spec, LoweredOnlyWhenCalm

-----------------------------------------------------------------------------
\* Under a level load

\* The last k entries of w are e.
Last(w, e, k) == \A i \in DOMAIN w : i > Len(w) - k => w[i] = e

Level(t) == Len(throughputHistory) = History /\ Last(throughputHistory, t, History)

LEMMA TrimRun ==
    ASSUME NEW S, NEW w \in Seq(S), NEW e \in S, NEW n \in Nat \ {0}, Len(w) <= n,
           NEW k \in Nat, Last(w, e, k)
    PROVE  LET a == Append(w, e)
               r == IF Len(a) > n THEN Tail(a) ELSE a
           IN  /\ Last(r, e, k + 1)
               /\ Len(r) = IF Len(w) < n THEN Len(w) + 1 ELSE n
  <1> DEFINE a == Append(w, e)
             r == IF Len(a) > n THEN Tail(a) ELSE a
  <1>1. /\ a \in Seq(S) /\ Len(a) = Len(w) + 1 /\ Len(w) \in Nat /\ DOMAIN w = 1 .. Len(w)
        /\ \A i \in 1 .. Len(a) : a[i] = IF i <= Len(w) THEN w[i] ELSE e
    OBVIOUS
  <1>2. CASE Len(a) > n
    <2>1. /\ Len(w) = n /\ Len(Tail(a)) = n /\ DOMAIN Tail(a) = 1 .. n
          /\ \A i \in 1 .. n : Tail(a)[i] = a[i + 1]
      <3>1. Len(w) = n /\ Len(a) = n + 1
        <4>1. Len(a) = Len(w) + 1 /\ Len(w) \in Nat
          BY <1>1
        <4> HIDE DEF a
        <4> QED
          BY <1>2, <4>1
      <3>2. /\ Tail(a) \in Seq(S) /\ Len(Tail(a)) = Len(a) - 1
            /\ \A i \in 1 .. Len(Tail(a)) : Tail(a)[i] = a[i + 1]
        <4>1. a # <<>>
          BY <1>1
        <4> HIDE DEF a
        <4> QED
          BY <1>1, <3>1, <4>1
      <3> HIDE DEF a
      <3> QED
        BY <3>1, <3>2
    <2>2. ASSUME NEW i \in 1 .. n, i > n - (k + 1) PROVE Tail(a)[i] = e
      <3>1. CASE i = n
        BY <1>1, <2>1, <3>1
      <3>2. CASE i # n
        <4>1. i + 1 \in 1 .. n /\ i + 1 > n - k
          BY <2>2, <3>2
        <4>2. Tail(a)[i] = w[i + 1]
          BY <1>1, <2>1, <4>1
        <4> QED
          BY <1>1, <2>1, <4>1, <4>2 DEF Last
      <3> QED
        BY <3>1, <3>2
    <2> QED
      BY <1>2, <2>1, <2>2 DEF Last
  <1>3. CASE ~(Len(a) > n)
    <2>1. Len(w) < n /\ DOMAIN a = 1 .. Len(w) + 1
      BY <1>1, <1>3
    <2>2. ASSUME NEW i \in 1 .. Len(w) + 1, i > Len(w) + 1 - (k + 1) PROVE a[i] = e
      <3>1. i <= Len(w) => i \in DOMAIN w /\ i > Len(w) - k
        BY <1>1, <2>2
      <3> QED
        BY <1>1, <2>2, <3>1 DEF Last
    <2> QED
      BY <1>1, <1>3, <2>1, <2>2 DEF Last
  <1> QED
    BY <1>2, <1>3

\* What a call with the throughput t does to a run of equal samples, and what it
\* does when all samples are equal.
Settling(t, k) ==
    /\ Len(throughputHistory') = IF Len(throughputHistory) < History
                                 THEN Len(throughputHistory) + 1 ELSE History
    /\ Last(throughputHistory, t, k) => Last(throughputHistory', t, k + 1)
    /\ Level(t) /\ Last(uncoreChangeWindow, 0, k) =>
        /\ Last(uncoreChangeWindow', 0, k + 1)
        /\ expect_current_max_uncore' = expect_current_max_uncore
        /\ msr' = msr \/ Burst
        /\ k >= WindowSize => burst_status' = 0 /\ msr' = msr

LEMMA SettlingLemma ==
    ASSUME IInv, NEW t \in Throughputs, NEW k \in Nat, dynamic_ufs(t)
    PROVE  Settling(t, k)
  <1>1. Observe(t)
    BY DEF dynamic_ufs, WarmUp, MemIncrease, MemDecrease, MemSteady, Decide
  <1>2. /\ throughputHistory \in Seq(Throughputs) /\ Len(throughputHistory) <= History
        /\ throughputHistory' = LET a == Append(throughputHistory, t)
                                IN  IF Len(a) > History THEN Tail(a) ELSE a
    BY <1>1 DEF IInv, TypeOK, Observe, Remember
  <1>3. Len(throughputHistory') = IF Len(throughputHistory) < History
                                  THEN Len(throughputHistory) + 1 ELSE History
    <2>1. Last(throughputHistory, t, 0)
      BY <1>2 DEF Last
    <2> QED
      BY <1>2, <2>1, TrimRun, HistoryAssumption
  <1>4. ASSUME NEW j \in Nat, Last(throughputHistory, t, j) PROVE Last(throughputHistory', t, j + 1)
    BY <1>2, <1>4, TrimRun, HistoryAssumption
  <1>5. ASSUME Level(t), Last(uncoreChangeWindow, 0, k)
        PROVE  /\ Last(uncoreChangeWindow', 0, k + 1)
               /\ expect_current_max_uncore' = expect_current_max_uncore
               /\ msr' = msr \/ Burst
               /\ k >= WindowSize => burst_status' = 0 /\ msr' = msr
    <2>1. Len(throughputHistory') = History
      BY <1>2, <1>3, <1>5 DEF Level
    <2>2. throughputHistory'[1] = t /\ throughputHistory'[History] = t
      <3>1. Last(throughputHistory', t, History + 1)
        BY <1>4, <1>5, HistoryAssumption DEF Level
      <3>2. throughputHistory' \in Seq(Throughputs)
        BY <1>1, ObserveLemma
      <3>3. 1 \in DOMAIN throughputHistory' /\ History \in DOMAIN throughputHistory'
        BY <2>1, <3>2, HistoryAssumption
      <3> QED
        BY <2>1, <3>1, <3>3, HistoryAssumption DEF Last
    <2>3. ~Rises /\ ~Falls
      <3> DEFINE up == IncTs * (History - 1)
                 down == DecTs * (History - 1)
      <3>1. t \in Nat /\ up \in Nat /\ down \in Nat
        BY ThroughputsAssumption, ThresholdsAssumption, HistoryAssumption
      <3>2. (Rises <=> t - t > up) /\ (Falls <=> t - t > down)
        BY <2>2 DEF Rises, Falls
      <3> HIDE DEF up, down
      <3> QED
        BY <3>1, <3>2
    <2>4. MemSteady(t)
      BY <2>1, <2>3 DEF dynamic_ufs, WarmUp, MemIncrease, MemDecrease
    <2>5. Record(0) /\ expect_current_max_uncore' = expect_current_max_uncore
      BY <2>4 DEF MemSteady
    <2>6. /\ uncoreChangeWindow \in Seq({0, 1}) /\ Len(uncoreChangeWindow) <= WindowSize
          /\ uncoreChangeWindow' = LET a == Append(uncoreChangeWindow, 0)
                                   IN  IF Len(a) > WindowSize THEN Tail(a) ELSE a
      BY <2>5 DEF IInv, TypeOK, Record
    <2>7. Last(uncoreChangeWindow', 0, k + 1)
      BY <1>5, <2>6, TrimRun, WindowAssumption
    <2>8. msr' = msr \/ Burst
      BY <2>4 DEF MemSteady, Keep
    <2>9. ASSUME k >= WindowSize PROVE ~Burst
      <3>1. \A i \in DOMAIN uncoreChangeWindow : uncoreChangeWindow[i] = 0
        BY <1>5, <2>6, <2>9, WindowAssumption DEF Last
      <3>2. {i \in DOMAIN uncoreChangeWindow : uncoreChangeWindow[i] = 1} = {}
        BY <3>1
      <3>3. Ones(uncoreChangeWindow) = 0
        BY <3>2, FS_EmptySet DEF Ones
      <3> QED
        BY <3>3, ThresholdsAssumption DEF Burst
    <2>10. k >= WindowSize => burst_status' = 0 /\ msr' = msr
      BY <2>4, <2>9 DEF MemSteady, Decide, Keep
    <2> QED
      BY <2>5, <2>7, <2>8, <2>10
  <1> QED
    BY <1>3, <1>4, <1>5 DEF Settling

\* The safety half of SettlesWhenLevel, with its bounds: History calls with one
\* throughput make the history level; from then on each call adds a 0 to the run
\* at the end of the change window, changes no expectation and touches the
\* sockets only for a burst; after WindowSize of them there is no burst left.
THEOREM SettlingCorrect ==
    Spec => [][\A t \in Throughputs, k \in Nat : dynamic_ufs(t) => Settling(t, k)]_vars
  <1>1. IInv => [\A t \in Throughputs, k \in Nat : dynamic_ufs(t) => Settling(t, k)]_vars
    BY SettlingLemma
  <1> QED
    BY <1>1, Invariance, PTL

LEMMA LoadType == LoadSpec => [](load \in Throughputs)
  <1>1. LoadInit => load \in Throughputs
    BY DEF LoadInit
  <1>2. load \in Throughputs /\ [LoadNext]_loadVars => (load \in Throughputs)'
    BY DEF LoadNext, Period, ChangeLoad, loadVars
  <1> QED
    BY <1>1, <1>2, PTL DEF LoadSpec

\* The controller under a load of its own is the controller: what is proved of
\* Spec holds of every behaviour of LoadSpec.
THEOREM LoadImplements == LoadSpec => Spec
  <1>1. LoadInit => Init
    BY DEF LoadInit
  <1>2. load \in Throughputs /\ [LoadNext]_loadVars => [Next]_vars
    BY DEF LoadNext, Period, ChangeLoad, loadVars, Next
  <1> QED
    BY <1>1, <1>2, LoadType, PTL DEF LoadSpec, Spec

-----------------------------------------------------------------------------
\* The UPS controller.
UpsInv ==
    /\ UpsTypeOK /\ HardwareFollows /\ DescentInBudget
    /\ init = 1 => current_uf = 22
    /\ current_uf = 22 => since = {}

LEMMA UpsInitInv == UpsInit => UpsInv
  BY StartAssumption DEF UpsInit, UpsInv, UpsTypeOK, HardwareFollows, DescentInBudget

LEMMA UpsFull == Full \in (8..24) \X (8..24) /\ Full[1] = 22
  BY DualCapAssumption DEF Full

LEMMA UpsPeriodInv ==
    ASSUME UpsInv, UpsPeriod
    PROVE  UpsInv'
  <1> DEFINE p == power
             i == ipc
  <1>0. /\ p \in Powers /\ i \in Ipcs /\ power' = power /\ ipc' = ipc
        /\ since' = IF current_uf' = 22 THEN {} ELSE since \cup {p}
    BY DEF UpsInv, UpsTypeOK, UpsPeriod, sample
  <1>7. /\ p \in Int /\ setpoint_dram_power \in Int /\ current_uf \in 12..22
        /\ \A q \in since : q \in Int
    BY <1>0, SamplesAssumption DEF UpsInv, UpsTypeOK
  <1>8. since' \subseteq Powers
    BY <1>0 DEF UpsInv, UpsTypeOK
  <1>1. CASE First(p, i)
    BY <1>0, <1>7, <1>8, <1>1 DEF First, UpsInv, UpsTypeOK, HardwareFollows, DescentInBudget
  <1>2. CASE Decrement(p)
    <2>1. /\ init = 0 /\ init' = 0 /\ current_uf' = current_uf - 1 /\ current_uf' \in 12..22
          /\ current_uf' < 22 /\ sockets' = <<current_uf', current_uf'>>
          /\ UNCHANGED <<setpoint_dram_power, pre_ipc>> /\ state' = "decrement"
      BY <1>7, <1>2 DEF Decrement
    <2>2. 20 * (p - setpoint_dram_power) <= setpoint_dram_power
      BY <1>2 DEF Decrement, Within
    <2>3. current_uf = 22 => since = {}
      BY DEF UpsInv
    <2>4. \A q \in since : 20 * (q - setpoint_dram_power) <= setpoint_dram_power
      BY <1>7, <2>3 DEF UpsInv, DescentInBudget
    <2>5. DescentInBudget'
      BY <1>0, <1>7, <2>1, <2>2, <2>4 DEF DescentInBudget
    <2> QED
      BY <1>0, <1>7, <1>8, <2>1, <2>5 DEF UpsInv, UpsTypeOK, HardwareFollows
  <1>3. CASE Floor(p)
    BY <1>0, <1>7, <1>8, <1>3 DEF Floor, Within, UpsInv, UpsTypeOK, HardwareFollows, DescentInBudget
  <1>4. CASE Restore(p, i)
    BY <1>0, <1>7, <1>8, <1>4, UpsFull DEF Full, Restore, UpsInv, UpsTypeOK, HardwareFollows, DescentInBudget
  <1>5. CASE Boost(p, i)
    BY <1>0, <1>7, <1>8, <1>5, UpsFull DEF Full, Boost, UpsInv, UpsTypeOK, HardwareFollows, DescentInBudget
  <1>6. CASE Nothing(p, i)
    BY <1>0, <1>7, <1>8, <1>6 DEF Nothing, Within, Above, UpsInv, UpsTypeOK, HardwareFollows, DescentInBudget
  <1> QED
    BY <1>1, <1>2, <1>3, <1>4, <1>5, <1>6 DEF UpsPeriod, ups

LEMMA UpsNextInv == UpsInv /\ [UpsNext]_upsVars => UpsInv'
  <1> SUFFICES ASSUME UpsInv, [UpsNext]_upsVars PROVE UpsInv'
    OBVIOUS
  <1>1. CASE UpsPeriod
    BY <1>1, UpsPeriodInv
  <1>2. CASE ChangePhase
    BY <1>2 DEF ChangePhase, UpsInv, UpsTypeOK, HardwareFollows, DescentInBudget
  <1>3. CASE UNCHANGED upsVars
    BY <1>3 DEF upsVars, UpsInv, UpsTypeOK, HardwareFollows, DescentInBudget
  <1> QED
    BY <1>1, <1>2, <1>3 DEF UpsNext

\* The inductive invariant holds throughout, for every sample that can be taken.
THEOREM UpsInvariance == UpsSpec => []UpsInv
  <1> QED
    BY UpsInitInv, UpsNextInv, PTL DEF UpsSpec

\* The frequency the controller believes in never leaves 1.2 .. 2.2 GHz.
THEOREM UpsTypeCorrect == UpsSpec => []UpsTypeOK
  <1>1. UpsInv => UpsTypeOK
    BY DEF UpsInv
  <1> QED
    BY <1>1, UpsInvariance, PTL

\* From the first request on both sockets have what ups believes in.
THEOREM HardwareCorrect == UpsSpec => []HardwareFollows
  <1>1. UpsInv => HardwareFollows
    BY DEF UpsInv
  <1> QED
    BY <1>1, UpsInvariance, PTL

\* In a descent no sample was more than 5% above the setpoint.
THEOREM DescentCorrect == UpsSpec => []DescentInBudget
  <1>1. UpsInv => DescentInBudget
    BY DEF UpsInv
  <1> QED
    BY <1>1, UpsInvariance, PTL

\* A setpoint from a wrapped counter is replaced by the next proper sample.
THEOREM WrapCorrect == UpsSpec => WrapForgotten
  <1> DEFINE A == init = 0 /\ setpoint_dram_power < 0 /\ power >= 0 /\ UNCHANGED sample
                  /\ upsVars' # upsVars =>
                    setpoint_dram_power' = power /\ current_uf' = 22 /\ sockets' = Full
  <1>1. ASSUME UpsInv, UpsPeriod PROVE A
    <2> SUFFICES ASSUME init = 0, setpoint_dram_power < 0, power >= 0
                 PROVE  setpoint_dram_power' = power /\ current_uf' = 22 /\ sockets' = Full
      OBVIOUS
    <2>1. power \in Int /\ setpoint_dram_power \in Int
      BY <1>1, SamplesAssumption DEF UpsInv, UpsTypeOK
    <2>2. ~Within(power) /\ Above(power)
      BY <2>1 DEF Within, Above
    <2>3. Restore(power, ipc)
      BY <1>1, <2>2 DEF UpsPeriod, ups, First, Decrement, Floor, Boost, Nothing, Below
    <2> QED
      BY <2>3 DEF Restore
  <1>2. ASSUME ChangePhase PROVE A
    BY <1>2 DEF ChangePhase
  <1>3. UpsInv /\ [UpsNext]_upsVars => [A]_upsVars
    BY <1>1, <1>2 DEF UpsNext
  <1> QED
    BY <1>3, UpsInvariance, PTL DEF UpsSpec, WrapForgotten
-----------------------------------------------------------------------------
\* How far the UPS controller is from rest under the load that the next sample
\* shows: the steps of the descent, above them the ways into it.
Distance ==
    IF init = 1 THEN 40
    ELSE IF Within(power) THEN current_uf - 12
    ELSE IF Below(power) /\ IpcDown(ipc) THEN 30
    ELSE IF Above(power) \/ (Below(power) /\ IpcUp(ipc))
         THEN IF power < 0 /\ sockets = Full THEN 0 ELSE 20
    ELSE 0

Approaches == Distance' <= Distance /\ (sockets' # sockets => Distance' < Distance)

LEMMA DistanceLemma ==
    ASSUME UpsInv, UpsPeriod
    PROVE  Distance \in 0 .. 40 /\ Approaches
  <1> DEFINE p == power
             i == ipc
  <1>1. /\ p \in Int /\ i \in Int /\ power' = p /\ ipc' = i /\ init \in {0, 1}
        /\ setpoint_dram_power \in Int /\ pre_ipc \in Int /\ current_uf \in 12..22
    BY SamplesAssumption DEF UpsInv, UpsTypeOK, UpsPeriod, sample
  <1> USE DEF Within, Above, Below, IpcUp, IpcDown
  <1>2. Distance \in 0 .. 40
    BY <1>1 DEF Distance
  <1>3. CASE First(p, i)
    BY <1>1, <1>3 DEF First, Distance, Approaches, Full
  <1>4. CASE Decrement(p)
    BY <1>1, <1>4 DEF Decrement, Distance, Approaches
  <1>5. CASE Floor(p)
    BY <1>1, <1>5 DEF Floor, Distance, Approaches
  <1>6. CASE Restore(p, i)
    BY <1>1, <1>6 DEF Restore, Distance, Approaches, Full
  <1>7. CASE Boost(p, i)
    BY <1>1, <1>7 DEF Boost, Distance, Approaches, Full
  <1>8. CASE Nothing(p, i)
    BY <1>1, <1>8 DEF Nothing, Distance, Approaches, Full
  <1> QED
    BY <1>2, <1>3, <1>4, <1>5, <1>6, <1>7, <1>8 DEF UpsPeriod, ups

\* The safety half of RestsWhenLevel: under a level load a call never moves the
\* controller away from rest, and each change of the sockets brings it nearer, so
\* that at most 40 of them are left whatever the setpoint and the load are.
THEOREM UpsSettling == UpsSpec => [][UpsPeriod => Approaches]_upsVars
  <1>1. UpsInv => [UpsPeriod => Approaches]_upsVars
    BY DistanceLemma
  <1> QED
    BY <1>1, UpsInvariance, PTL

=============================================================================
