--------------------------- MODULE MotifRunProofs ---------------------------
(***************************************************************************)
(* Proofs about MotifRun: the types, with the bound of one late turn, how  *)
(* often the final frequency is undone, to whom a pcm-memory can lose the  *)
(* units, and how the system comes to rest, for any number of benchmarks   *)
(* and any set of monitors.                                                *)
(*                                                                         *)
(* All rest on the life of a benchmark: it is not there before the   *)
(* driver comes to it, gone once the driver has passed it, and once gone   *)
(* it never comes back, so that no monitor polls a process again after its *)
(* late turn.  How the system comes to rest follows from the same, and     *)
(* from whose programming the monitoring units hold.                       *)
(***************************************************************************)
EXTENDS MotifRun, TLAPS

\* The life of the benchmarks, relative to the driver's place.
Life ==
    /\ \A i \in Runs : i > run \/ (i = run /\ pc \in {"init", "pcm", "bench"})
            => bench[i] = "none"
    /\ pc \in {"monitors", "wait"} => bench[run] # "none"
    /\ \A i \in Runs : i < run \/ (i = run /\ pc \in {"terminate", "reset", "done"})
            => bench[i] = "gone"
    /\ pc \in {"reset", "done"} => run = N

\* Nobody watches a benchmark that is not there yet.
Watch == \A i \in Runs : \A k \in Monitors : bench[i] = "none" => mon[i][k] = "none"

\* A late turn is the last.
LastTurn ==
    \A i \in Runs : \A k \in Controllers :
        /\ mon[i][k] = "turn" => late[i][k] = 0
        /\ late[i][k] = 1 => bench[i] = "gone"

IInv == TypeOK /\ Life /\ Watch /\ LastTurn /\ ResetUndoneOnce

USE NAssumption, MonitorsAssumption, PcmAssumption

LEMMA InitIInv == Init => IInv
  <1> SUFFICES ASSUME Init PROVE IInv
    OBVIOUS
  <1>1. TypeOK
    BY SMT DEF Init, TypeOK, Runs, Writes
  <1>2. Life /\ Watch
    BY SMT DEF Init, Life, Watch, Runs
  <1>3. LastTurn
    BY SMT DEF Init, LastTurn
  <1>4. ResetUndoneOnce
    BY SMT DEF Init, ResetUndoneOnce
  <1> QED
    BY <1>1, <1>2, <1>3, <1>4 DEF IInv

\* The driver's steps.
LEMMA DriverIInv == ASSUME IInv, Driver PROVE IInv'
  <1>0. TypeOK /\ Life /\ Watch /\ LastTurn /\ ResetUndoneOnce
    BY DEF IInv
  <1> USE <1>0
  <1>1. ASSUME SetInitial PROVE IInv'
    <2>1. TypeOK'
      BY <1>1, SMT DEF SetInitial, TypeOK, pcms, Writes
    <2>2. Life' /\ Watch' /\ LastTurn' /\ ResetUndoneOnce'
      BY <1>1, SMT DEF SetInitial, TypeOK, Life, Watch, LastTurn,
                       ResetUndoneOnce, Runs
    <2> QED
      BY <2>1, <2>2 DEF IInv
  <1>2. ASSUME StartPcm PROVE IInv'
    <2>1. TypeOK'
      BY <1>2, SMT DEF StartPcm, TypeOK
    <2>2. Life' /\ Watch' /\ LastTurn' /\ ResetUndoneOnce'
      BY <1>2, SMT DEF StartPcm, TypeOK, Life, Watch, LastTurn,
                       ResetUndoneOnce, Runs
    <2> QED
      BY <2>1, <2>2 DEF IInv
  <1>3. ASSUME StartBenchmark PROVE IInv'
    <2>0. bench[run] = "none" /\ run \in Runs
      BY <1>3, SMT DEF StartBenchmark, Life, TypeOK
    <2>1. TypeOK'
      BY <1>3, SMT DEF StartBenchmark, TypeOK, pcms
    <2>2. Life' /\ Watch'
      BY <1>3, <2>0, SMT DEF StartBenchmark, TypeOK, Life, Watch, Runs
    <2>3. LastTurn' /\ ResetUndoneOnce'
      BY <1>3, <2>0, SMT DEF StartBenchmark, TypeOK, LastTurn,
                             ResetUndoneOnce
    <2> QED
      BY <2>1, <2>2, <2>3 DEF IInv
  <1>4. ASSUME NEW n \in DOMAIN Order, StartMonitor(n) PROVE IInv'
    <2>0. run \in Runs /\ Order[n] \in Monitors /\ bench[run] # "none"
      BY <1>4, SMT DEF StartMonitor, Life, TypeOK, Monitors
    <2>a. mon' = [mon EXCEPT ![run][Order[n]] = "polling"] /\ pc = "monitors"
      BY <1>4 DEF StartMonitor
    <2>b. UNCHANGED <<root, pc, run, bench, pcm, before, units, uncore, late>>
      BY <1>4 DEF StartMonitor, driver, pcms
    <2>1. TypeOK'
      <3>1. mon' \in [Runs -> [Monitors -> {"none", "polling", "turn", "ended", "dead"}]]
        BY <2>0, <2>a, SMT DEF TypeOK
      <3> QED
        BY <2>b, <3>1 DEF TypeOK
    <2>2. Life'
      BY <2>b, SMT DEF Life
    <2>3. Watch'
      BY <2>0, <2>a, <2>b, SMT DEF TypeOK, Watch
    <2>4. LastTurn' /\ ResetUndoneOnce'
      BY <2>0, <2>a, <2>b, SMT DEF TypeOK, LastTurn, ResetUndoneOnce
    <2> QED
      BY <2>1, <2>2, <2>3, <2>4 DEF IInv
  <1>5. ASSUME MonitorsStarted PROVE IInv'
    <2>1. TypeOK'
      BY <1>5, SMT DEF MonitorsStarted, TypeOK, pcms
    <2>2. Life' /\ Watch' /\ LastTurn' /\ ResetUndoneOnce'
      BY <1>5, SMT DEF MonitorsStarted, TypeOK, Life, Watch, LastTurn, ResetUndoneOnce, Runs
    <2> QED
      BY <2>1, <2>2 DEF IInv
  <1>6. ASSUME Wait PROVE IInv'
    <2>1. TypeOK'
      BY <1>6, SMT DEF Wait, TypeOK, pcms
    <2>2. Life' /\ Watch'
      BY <1>6, SMT DEF Wait, TypeOK, Life, Watch, Runs
    <2>3. LastTurn' /\ ResetUndoneOnce'
      BY <1>6, SMT DEF Wait, TypeOK, LastTurn, ResetUndoneOnce
    <2> QED
      BY <2>1, <2>2, <2>3 DEF IInv
  <1>7. ASSUME Terminate PROVE IInv'
    <2>1. TypeOK'
      <3>1. pc' \in {"pcm", "reset"} /\ run' \in Runs
        BY <1>7, SMT DEF Terminate, NextRun, TypeOK, Runs
      <3>2. pcm' \in [Runs -> {"none", "starting", "running", "stopping", "gone", "killed"}]
        <4>1. \/ UNCHANGED pcm
              \/ \E p \in {"stopping", "gone"} : pcm' = [pcm EXCEPT ![run] = p]
          BY <1>7 DEF Terminate
        <4> QED
          BY <4>1 DEF TypeOK
      <3> QED
        BY <1>7, <3>1, <3>2 DEF Terminate, TypeOK
    <2>2. Life'
      BY <1>7, SMT DEF Terminate, NextRun, TypeOK, Life, Runs
    <2>3. Watch' /\ LastTurn' /\ ResetUndoneOnce'
      BY <1>7, SMT DEF Terminate, NextRun, TypeOK, Watch, LastTurn, ResetUndoneOnce
    <2> QED
      BY <2>1, <2>2, <2>3 DEF IInv
  <1>8. ASSUME Reset PROVE IInv'
    <2>1. TypeOK'
      BY <1>8, SMT DEF Reset, TypeOK, pcms, Writes
    <2>2. Life' /\ Watch' /\ LastTurn'
      BY <1>8, SMT DEF Reset, TypeOK, Life, Watch, LastTurn, Runs
    <2>3. ResetUndoneOnce'
      BY <1>8, NamesAssumption DEF Reset, ResetUndoneOnce
    <2> QED
      BY <2>1, <2>2, <2>3 DEF IInv
  <1> QED
    BY <1>1, <1>2, <1>3, <1>4, <1>5, <1>6, <1>7, <1>8 DEF Driver

\* A monitor's step: its turn, and what it leaves behind.
LEMMA MonitorIInv ==
    ASSUME IInv, NEW i \in Runs, NEW k \in Monitors, Monitor(i, k) PROVE IInv'
  <1>0. TypeOK /\ Life /\ Watch /\ LastTurn /\ ResetUndoneOnce
    BY DEF IInv
  <1> USE <1>0
  <1>1. ASSUME Poll(i, k) PROVE IInv'
    <2>a. /\ mon[i][k] = "polling" /\ Exists(i) /\ mon' = [mon EXCEPT ![i][k] = "turn"]
          /\ UNCHANGED <<root, pc, run, bench, pcm, before, units, uncore, late>>
      BY <1>1 DEF Poll, driver, pcms
    <2>b. bench[i] # "gone" /\ bench[i] # "none"
      BY <2>a DEF Exists
    <2>c. pc # "done"
      BY <2>b, SMT DEF Life, Runs
    <2>1. TypeOK'
      <3>1. mon' \in [Runs -> [Monitors -> {"none", "polling", "turn", "ended", "dead"}]]
        BY <2>a, SMT DEF TypeOK
      <3> QED
        BY <2>a, <3>1 DEF TypeOK
    <2>2. Life'
      BY <2>a, SMT DEF Life
    <2>3. Watch'
      BY <2>a, <2>b, SMT DEF TypeOK, Watch
    <2>4. LastTurn'
      BY <2>a, <2>b, SMT DEF TypeOK, LastTurn
    <2>5. ResetUndoneOnce'
      BY <2>a, <2>c DEF ResetUndoneOnce
    <2> QED
      BY <2>1, <2>2, <2>3, <2>4, <2>5 DEF IInv
  <1>2. ASSUME Turn(i, k) \/ TurnRaises(i, k) PROVE IInv'
    <2>a. /\ mon[i][k] = "turn" /\ Effect(i, k)
          /\ UNCHANGED <<root, pc, run, bench, pcm, before, units>>
      BY <1>2 DEF Turn, TurnRaises, driver, pcms
    <2>p. PICK p \in {"polling", "dead"} : mon' = [mon EXCEPT ![i][k] = p]
      BY <1>2 DEF Turn, TurnRaises
    <2>b. k \in Controllers => /\ uncore' \in {uncore, <<k, i>>}
                               /\ late' = IF Exists(i) THEN late
                                          ELSE [late EXCEPT ![i][k] = @ + 1]
      BY <2>a DEF Effect
    <2>c. k \notin Controllers => UNCHANGED <<uncore, late>>
      BY <2>a DEF Effect
    <2>d. bench[i] # "none"
      BY <2>a DEF Watch
    <2>e. k \in Controllers => late[i][k] = 0
      BY <2>a DEF LastTurn
    <2>f. ~Exists(i) => bench[i] = "gone"
      BY <2>d DEF TypeOK, Exists
    <2>1. TypeOK'
      <3>1. mon' \in [Runs -> [Monitors -> {"none", "polling", "turn", "ended", "dead"}]]
        BY <2>p, SMT DEF TypeOK
      <3>3. uncore' \in Writes
        BY <2>b, <2>c, SMT DEF TypeOK, Writes
      <3>4. late' \in [Runs -> [Controllers -> 0 .. 1]]
        <4>1. CASE k \in Controllers /\ ~Exists(i)
          <5>1. late' = [late EXCEPT ![i] = [@ EXCEPT ![k] = 1]]
            <6>1. late' = [late EXCEPT ![i][k] = @ + 1]
              BY <2>b, <4>1
            <6>2. late[i][k] + 1 = 1
              BY <2>e, <4>1, SMT
            <6> QED
              BY <6>1, <6>2
          <5>2. [late[i] EXCEPT ![k] = 1] \in [Controllers -> 0 .. 1]
            <6>1. late[i] \in [Controllers -> 0 .. 1] /\ 1 \in 0 .. 1
              BY SMT DEF TypeOK
            <6> HIDE <1>0
            <6> QED
              BY <6>1
          <5> QED
            BY <5>1, <5>2 DEF TypeOK
        <4>2. CASE ~(k \in Controllers /\ ~Exists(i))
          BY <2>b, <2>c, <4>2 DEF TypeOK
        <4> QED
          BY <4>1, <4>2
      <3> QED
        BY <2>a, <3>1, <3>3, <3>4 DEF TypeOK
    <2>2. Life'
      BY <2>a, SMT DEF Life
    <2>3. Watch'
      BY <2>p, <2>a, <2>d, SMT DEF TypeOK, Watch
    <2>4. LastTurn'
      BY <2>p, <2>a, <2>b, <2>c, <2>e, <2>f, SMT DEF TypeOK, LastTurn
    <2>5. ResetUndoneOnce'
      <3> SUFFICES ASSUME pc = "done", uncore'[1] \in Controllers
                   PROVE  /\ late'[uncore'[2]][uncore'[1]] = 1
                          /\ mon'[uncore'[2]][uncore'[1]] \in {"polling", "ended", "dead"}
        BY <2>a DEF ResetUndoneOnce
      <3>1. ~Exists(i)
        BY SMT DEF Life, Runs, Exists
      <3>2. CASE k \in Controllers /\ uncore' = <<k, i>>
        BY <2>p, <2>a, <2>b, <2>e, <3>1, <3>2, SMT DEF TypeOK
      <3>3. CASE uncore' = uncore
        <4>1. /\ late[uncore[2]][uncore[1]] = 1
              /\ mon[uncore[2]][uncore[1]] \in {"polling", "ended", "dead"}
          BY <3>3 DEF ResetUndoneOnce
        <4>2. uncore[2] # i \/ uncore[1] # k
          BY <2>a, <4>1
        <4> DEFINE j == uncore[2]  c == uncore[1]
        <4>3. j \in Runs /\ c \in Controllers /\ c \in Monitors
          BY <3>3, NamesAssumption, SMT DEF TypeOK, Writes
        <4>4. mon'[j][c] \in {mon[j][c], "polling", "dead"}
          BY <2>p, <4>3, SMT DEF TypeOK
        <4>5. late'[j][c] = late[j][c]
          <5>1. CASE k \in Controllers /\ ~Exists(i)
            BY <2>b, <4>2, <4>3, <5>1, SMT DEF TypeOK
          <5>2. CASE ~(k \in Controllers /\ ~Exists(i))
            BY <2>b, <2>c, <5>2
          <5> QED
            BY <5>1, <5>2
        <4> QED
          BY <3>3, <4>1, <4>4, <4>5
      <3> QED
        BY <2>b, <2>c, <3>2, <3>3
    <2> QED
      BY <2>1, <2>2, <2>3, <2>4, <2>5 DEF IInv
  <1>3. ASSUME Finish(i, k) PROVE IInv'
    <2>a. /\ mon[i][k] = "polling" /\ ~Exists(i) /\ mon' = [mon EXCEPT ![i][k] = "ended"]
          /\ UNCHANGED <<root, pc, run, bench, pcm, before, units, uncore, late>>
      BY <1>3 DEF Finish, driver, pcms
    <2>c. bench[i] = "gone"
      BY <2>a DEF Watch, TypeOK, Exists
    <2>1. TypeOK'
      <3>1. mon' \in [Runs -> [Monitors -> {"none", "polling", "turn", "ended", "dead"}]]
        BY <2>a, SMT DEF TypeOK
      <3> QED
        BY <2>a, <3>1 DEF TypeOK
    <2>2. Life'
      BY <2>a, SMT DEF Life
    <2>3. Watch' /\ LastTurn'
      BY <2>a, <2>c, SMT DEF TypeOK, Watch, LastTurn
    <2>5. ResetUndoneOnce'
      BY <2>a, SMT DEF TypeOK, ResetUndoneOnce
    <2> QED
      BY <2>1, <2>2, <2>3, <2>5 DEF IInv
  <1> QED
    BY <1>1, <1>2, <1>3 DEF Monitor

\* The benchmarks and pcm-memory.
LEMMA ProcessIInv == ASSUME IInv, NEW i \in Runs, Process(i) PROVE IInv'
  <1>0. TypeOK /\ Life /\ Watch /\ LastTurn /\ ResetUndoneOnce
    BY DEF IInv
  <1> USE <1>0
  <1>1. ASSUME BenchmarkEnds(i) PROVE IInv'
    <2>1. TypeOK'
      BY <1>1, SMT DEF BenchmarkEnds, TypeOK, driver, pcms
    <2>2. Life' /\ Watch'
      BY <1>1, SMT DEF BenchmarkEnds, TypeOK, Life, Watch, driver
    <2>3. LastTurn' /\ ResetUndoneOnce'
      BY <1>1, SMT DEF BenchmarkEnds, TypeOK, LastTurn,
                       ResetUndoneOnce, driver
    <2> QED
      BY <2>1, <2>2, <2>3 DEF IInv
  <1>2. ASSUME PcmStarts(i) \/ PcmSets(i) \/ PcmEnds(i) \/ PcmKilled(i) PROVE IInv'
    <2>a. /\ pcm' \in [Runs -> {"none", "starting", "running", "stopping", "gone", "killed"}]
          /\ before' \in [Runs -> SUBSET Runs]
          /\ units' \in Runs \cup {0}
          /\ uncore' \in {uncore, <<"pcm", i>>}
          /\ UNCHANGED <<root, pc, run, bench, mon, late>>
      <3>1. CASE PcmStarts(i)
        BY <3>1, SMT DEF PcmStarts, TypeOK, driver
      <3>2. CASE PcmSets(i)
        BY <3>2, SMT DEF PcmSets, TypeOK, driver, pcms
      <3>3. CASE PcmEnds(i)
        BY <3>3, SMT DEF PcmEnds, TypeOK, driver
      <3>4. CASE PcmKilled(i)
        BY <3>4, SMT DEF PcmKilled, TypeOK, driver
      <3> QED
        BY <1>2, <3>1, <3>2, <3>3, <3>4
    <2>1. TypeOK'
      BY <2>a, SMT DEF TypeOK, Writes
    <2>2. Life' /\ Watch' /\ LastTurn'
      BY <2>a, SMT DEF Life, Watch, LastTurn
    <2>3. ResetUndoneOnce'
      BY <2>a, NamesAssumption DEF ResetUndoneOnce
    <2> QED
      BY <2>1, <2>2, <2>3 DEF IInv
  <1> QED
    BY <1>1, <1>2 DEF Process

LEMMA NextIInv == IInv /\ [Next]_vars => IInv'
  <1> SUFFICES ASSUME IInv, [Next]_vars PROVE IInv'
    OBVIOUS
  <1>1. CASE UNCHANGED vars
    BY <1>1 DEF IInv, vars, driver, pcms, TypeOK, Life, Watch, LastTurn, ResetUndoneOnce
  <1> QED
    BY <1>1, DriverIInv, MonitorIInv, ProcessIInv DEF Next

LEMMA Invariance == Spec => []IInv
  BY InitIInv, NextIInv, PTL DEF Spec

-----------------------------------------------------------------------------
\* The states keep their types, and no controller finishes more than one turn
\* after its benchmark went away, for any list of benchmarks and monitors.
THEOREM TypeCorrect == Spec => []TypeOK
  <1>1. IInv => TypeOK
    BY DEF IInv
  <1> QED
    BY Invariance, <1>1, PTL

\* Whatever the number of leftover controllers, each of them can undo the final
\* frequency in one turn at most.
THEOREM ResetCorrect == Spec => []ResetUndoneOnce
  <1>1. IInv => ResetUndoneOnce
    BY DEF IInv
  <1> QED
    BY Invariance, <1>1, PTL

-----------------------------------------------------------------------------
\* The units.

\* A programming has its pcm-memory.  One that the driver has not come to is not
\* there, and one that it has passed, as root, is on its way out.
PcmInv ==
    /\ \A i \in Runs : i > run \/ (i = run /\ pc \in {"init", "pcm"}) => pcm[i] = "none"
    /\ units # 0 => pcm[units] \in {"running", "stopping", "killed"}
    /\ ~Pcm => \A i \in Runs : pcm[i] = "none"
    /\ root => \A i \in Runs : i < run \/ (i = run /\ pc \in {"reset", "done"})
            => pcm[i] \in {"none", "stopping", "gone", "killed"}

\* Every monitor of a benchmark that is over was started.
StartedInv ==
    /\ \A i \in Runs : i < run => \A k \in Monitors : mon[i][k] # "none"
    /\ pc \in {"wait", "terminate", "reset", "done"} => \A k \in Monitors : mon[run][k] # "none"

\* Whoever can still zero the units was there when they were programmed.
BeforeInv ==
    root => \A i, j \in Runs : pcm[i] = "running" /\ pcm[j] = "stopping" => j \in before[i]

RestInv == IInv /\ PcmInv /\ StartedInv /\ BeforeInv /\ UnitsLostToLeftover

LEMMA InitRestInv == Init => RestInv
  <1>1. Init => PcmInv /\ StartedInv /\ BeforeInv /\ UnitsLostToLeftover
    BY SMT DEF Init, PcmInv, StartedInv, BeforeInv, UnitsLostToLeftover, Runs
  <1> QED
    BY <1>1, InitIInv DEF RestInv

LEMMA DriverPcmInv == ASSUME RestInv, Driver PROVE PcmInv' /\ StartedInv'
  <1> USE DEF RestInv, IInv, TypeOK, Runs, PcmInv, StartedInv
  <1>1. CASE SetInitial
    BY <1>1, SMT DEF SetInitial, pcms
  <1>2. CASE StartPcm
    <2>1. /\ pc = "pcm" /\ pc' = "bench" /\ UNCHANGED <<root, run, units, mon>>
          /\ \A i \in Runs : i # run => pcm'[i] = pcm[i]
          /\ ~Pcm => pcm' = pcm
          /\ units # run
      BY <1>2, SMT DEF StartPcm
    <2> QED
      BY <2>1, SMT
  <1>3. CASE StartBenchmark \/ MonitorsStarted
    BY <1>3, SMT DEF StartBenchmark, MonitorsStarted, pcms
  <1>4. ASSUME NEW n \in DOMAIN Order, StartMonitor(n) PROVE PcmInv' /\ StartedInv'
    <2>1. /\ pc = "monitors" /\ run \in Runs /\ Order[n] \in Monitors
          /\ mon' = [mon EXCEPT ![run][Order[n]] = "polling"]
          /\ UNCHANGED <<root, pc, run, pcm, units>>
      BY <1>4 DEF StartMonitor, Monitors, driver, pcms
    <2>2. \A i \in Runs : i < run => mon'[i] = mon[i]
      BY <2>1, SMT
    <2> QED
      BY <2>1, <2>2, SMT
  <1>5. CASE Terminate
    <2>1. /\ \A i \in Runs : i # run => pcm'[i] = pcm[i]
          /\ root /\ Pcm => pcm'[run] \in {"stopping", "gone"}
          /\ ~(root /\ Pcm) => pcm' = pcm
          /\ pcm'[run] = "gone" => pcm[run] \in {"starting", "gone"}
          /\ pcm'[run] \in {pcm[run], "stopping", "gone"}
      BY <1>5, SMT DEF Terminate
    <2>2. /\ (pc' = "pcm" /\ run' = run + 1) \/ (pc' = "reset" /\ run' = run)
          /\ pc = "terminate" /\ UNCHANGED <<root, units, mon>>
      BY <1>5 DEF Terminate, NextRun
    <2>3. (units # 0 => pcm[units] \in {"running", "stopping", "killed"})'
      BY <2>1, <2>2, SMT
    <2>4. (~Pcm => \A i \in Runs : pcm[i] = "none")'
      BY <2>1, <2>2, SMT
    <2>5. (\A i \in Runs : i > run \/ (i = run /\ pc \in {"init", "pcm"}) => pcm[i] = "none")'
      BY <2>1, <2>2, SMT
    <2>6. \A i \in Runs : root /\ (i < run \/ i = run)
                => pcm'[i] \in {"none", "stopping", "gone", "killed"}
      BY <2>1, <2>2, SMT
    <2>7. PcmInv'
      BY <2>2, <2>3, <2>4, <2>5, <2>6, SMT
    <2>8. \A i \in Runs : i < run \/ i = run => \A k \in Monitors : mon[i][k] # "none"
      BY <2>2, SMT
    <2>9. StartedInv'
      BY <2>2, <2>8, SMT
    <2> QED
      BY <2>7, <2>9
  <1>6. CASE Wait
    BY <1>6, SMT DEF Wait, pcms
  <1>7. CASE Reset
    BY <1>7, SMT DEF Reset, pcms
  <1> QED
    BY <1>1, <1>2, <1>3, <1>4, <1>5, <1>6, <1>7 DEF Driver

LEMMA ProcessPcmInv ==
    ASSUME RestInv, NEW i \in Runs, Process(i) \/ \E k \in Monitors : Monitor(i, k)
    PROVE  PcmInv' /\ StartedInv'
  <1> USE DEF RestInv, IInv, TypeOK, PcmInv, StartedInv
  <1>1. CASE BenchmarkEnds(i) \/ PcmSets(i)
    BY <1>1, SMT DEF BenchmarkEnds, PcmSets, driver, pcms
  <1>2. CASE PcmStarts(i)
    BY <1>2, SMT DEF PcmStarts, driver, Runs
  <1>3. CASE PcmEnds(i)
    BY <1>3, SMT DEF PcmEnds, driver
  <1>5. CASE PcmKilled(i)
    BY <1>5, SMT DEF PcmKilled, driver
  <1>4. ASSUME NEW k \in Monitors, Monitor(i, k) PROVE PcmInv' /\ StartedInv'
    <2>1. /\ UNCHANGED <<root, pc, run, pcm, units>>
          /\ \E p \in {"turn", "polling", "ended", "dead"} : mon' = [mon EXCEPT ![i][k] = p]
      BY <1>4 DEF Monitor, Poll, Turn, TurnRaises, Finish, driver, pcms
    <2>2. \A j \in Runs : \A l \in Monitors : mon[j][l] # "none" => mon'[j][l] # "none"
      BY <2>1, SMT
    <2> QED
      BY <2>1, <2>2, SMT
  <1> QED
    BY <1>1, <1>2, <1>3, <1>4, <1>5 DEF Process

\* Under a driver that is root, only the pcm-memory of the present benchmark
\* starts or measures, so that one begins with all others on their way out.
LEMMA UnitsStep ==
    ASSUME RestInv, [Next]_vars
    PROVE  BeforeInv' /\ UnitsLostToLeftover'
  <1> USE DEF RestInv, IInv, TypeOK, Runs
  <1>0. CASE ~root
    <2>1. root' = root
      BY DEF Next, Driver, SetInitial, StartPcm, StartBenchmark, StartMonitor,
             MonitorsStarted, Wait, Terminate, Reset, Process, BenchmarkEnds, PcmStarts,
             PcmSets, PcmEnds, PcmKilled, Monitor, Poll, Turn, TurnRaises, Finish, vars, driver
    <2> QED
      BY <1>0, <2>1 DEF BeforeInv, UnitsLostToLeftover
  <1>1. ASSUME root PROVE \A i \in Runs : pcm[i] \in {"starting", "running"} => i = run
    <2> SUFFICES ASSUME NEW i \in Runs, pcm[i] \in {"starting", "running"}, i # run
                 PROVE  FALSE
      OBVIOUS
    <2>1. i \in Nat /\ run \in Nat
      BY SMT
    <2>2. i < run \/ i > run
      BY <2>1, SMT
    <2> QED
      BY <1>1, <2>2 DEF PcmInv
  <1>2. CASE UNCHANGED <<root, pcm, before, units>>
    BY <1>2 DEF BeforeInv, UnitsLostToLeftover
  <1>3. CASE root /\ StartPcm
    <2>1. /\ \A i \in Runs : pcm'[i] = pcm[i] \/ pcm'[i] = "starting"
          /\ UNCHANGED <<root, before, units>>
      BY <1>3 DEF StartPcm
    <2>2. \A i \in Runs : pcm[i] = "gone" => pcm'[i] = "gone"
      BY <1>3, SMT DEF StartPcm, PcmInv
    <2> QED
      BY <2>1, <2>2 DEF BeforeInv, UnitsLostToLeftover
  <1>4. CASE root /\ Terminate
    <2>1. pc = "terminate" /\ UNCHANGED <<root, before, units>>
      BY <1>4 DEF Terminate
    <2>2. \A i \in Runs : pcm'[i] # "running"
      <3>1. CASE Pcm
        <4>1. \E p \in {"stopping", "gone"} : pcm' = [pcm EXCEPT ![run] = p]
          BY <1>4, <3>1 DEF Terminate
        <4> QED
          BY <1>1, <1>4, <4>1
      <3>2. CASE ~Pcm
        BY <1>4, <3>2 DEF Terminate, PcmInv
      <3> QED
        BY <3>1, <3>2 DEF Terminate
    <2> QED
      BY <2>1, <2>2 DEF BeforeInv, UnitsLostToLeftover
  <1>5. ASSUME root, NEW i \in Runs, PcmStarts(i)
        PROVE  BeforeInv' /\ UnitsLostToLeftover'
    <2>1. /\ pcm[i] = "starting" /\ pcm' = [pcm EXCEPT ![i] = "running"] /\ units' = i
          /\ before' = [before EXCEPT ![i] = {j \in Runs : pcm[j] \in {"running", "stopping"}}]
      BY <1>5 DEF PcmStarts
    <2>2. \A j \in Runs : pcm'[j] = "running" => j = i
      BY <1>1, <1>5, <2>1
    <2> QED
      BY <2>1, <2>2 DEF BeforeInv, UnitsLostToLeftover
  <1>6. ASSUME root, NEW i \in Runs, PcmEnds(i)
        PROVE  BeforeInv' /\ UnitsLostToLeftover'
    <2>1. /\ pcm[i] = "stopping" /\ pcm' = [pcm EXCEPT ![i] = "gone"] /\ units' = 0
          /\ UNCHANGED <<root, before>>
      BY <1>6 DEF PcmEnds, driver
    <2>2. \A j \in Runs : pcm'[j] = "running" => i \in before'[j]
      BY <1>6, <2>1 DEF BeforeInv
    <2> QED
      BY <2>1, <2>2 DEF BeforeInv, UnitsLostToLeftover
  <1>7. ASSUME root, NEW i \in Runs, PcmKilled(i)
        PROVE  BeforeInv' /\ UnitsLostToLeftover'
    <2>1. /\ pcm[i] = "stopping" /\ pcm' = [pcm EXCEPT ![i] = "killed"]
          /\ UNCHANGED <<root, before, units>>
      BY <1>7 DEF PcmKilled, driver
    <2>2. \A j \in Runs : /\ pcm'[j] = "running" <=> pcm[j] = "running"
                          /\ pcm'[j] = "stopping" => pcm[j] = "stopping"
                          /\ pcm[j] = "gone" => pcm'[j] = "gone"
      BY <2>1
    <2> QED
      BY <2>1, <2>2 DEF BeforeInv, UnitsLostToLeftover
  <1>8. \/ UNCHANGED <<root, pcm, before, units>> \/ StartPcm \/ Terminate
        \/ \E i \in Runs : PcmStarts(i) \/ PcmEnds(i) \/ PcmKilled(i)
    BY DEF Next, Driver, SetInitial, StartBenchmark, StartMonitor, MonitorsStarted, Wait,
           Reset, Process, BenchmarkEnds, PcmSets, Monitor, Poll, Turn, TurnRaises, Finish,
           vars, driver, pcms
  <1> QED
    BY <1>0, <1>2, <1>3, <1>4, <1>5, <1>6, <1>7, <1>8

LEMMA NextRestInv == RestInv /\ [Next]_vars => RestInv'
  <1> SUFFICES ASSUME RestInv, [Next]_vars PROVE RestInv'
    OBVIOUS
  <1>1. IInv' /\ BeforeInv' /\ UnitsLostToLeftover'
    BY NextIInv, UnitsStep DEF RestInv
  <1>2. CASE UNCHANGED vars
    BY <1>1, <1>2 DEF RestInv, PcmInv, StartedInv, vars, driver, pcms
  <1> QED
    BY <1>1, <1>2, DriverPcmInv, ProcessPcmInv DEF Next, RestInv

\* The cleanup that takes the units from a pcm-memory is never that of a later
\* benchmark, however many there are.
THEOREM UnitsCorrect == Spec => []UnitsLostToLeftover
  <1>1. RestInv => UnitsLostToLeftover
    BY DEF RestInv
  <1> QED
    BY InitRestInv, NextRestInv, <1>1, PTL DEF Spec

-----------------------------------------------------------------------------
\* How the system comes to rest.

\* Nothing is left that could take a step.
AtRest == \A i \in Runs : /\ pcm[i] \in {"none", "gone", "killed"}
                          /\ \A k \in Monitors : mon[i][k] \in {"ended", "dead"}

\* A pcm-memory or a monitor goes towards its end or stays where it is.
TowardsRest ==
    \A i \in Runs :
        /\ pcm'[i] = pcm[i] \/ (pcm[i] = "stopping" /\ pcm'[i] \in {"gone", "killed"})
        /\ \A k \in Monitors :
            \/ mon'[i][k] = mon[i][k]
            \/ mon[i][k] = "turn" /\ mon'[i][k] \in {"polling", "dead"}
            \/ mon[i][k] = "polling" /\ mon'[i][k] = "ended"

\* What is left when the driver is done, as root, only ends.
LEMMA StepToRest ==
    ASSUME RestInv, root, pc = "done", Next
    PROVE  pc' = "done" /\ root' /\ TowardsRest /\ ~AtRest
  <1> USE DEF RestInv, IInv, TypeOK
  <1>1. ~Driver
    BY DEF Driver, SetInitial, StartPcm, StartBenchmark, StartMonitor, MonitorsStarted,
           Wait, Terminate, Reset
  <1>2. \A i \in Runs : bench[i] = "gone" /\ pcm[i] \in {"none", "stopping", "gone", "killed"}
    BY SMT DEF Life, PcmInv, Runs
  <1>3. PICK i \in Runs : Process(i) \/ \E k \in Monitors : Monitor(i, k)
    BY <1>1 DEF Next
  <1>4. CASE Process(i)
    <2>1. PcmSets(i) \/ PcmEnds(i) \/ PcmKilled(i)
      BY <1>2, <1>4 DEF Process, BenchmarkEnds, PcmStarts
    <2>2. pcm[i] = "stopping"
      BY <1>2, <2>1 DEF PcmSets, PcmEnds, PcmKilled
    <2>3. UNCHANGED <<root, pc, mon>>
      BY <2>1 DEF PcmSets, PcmEnds, PcmKilled, driver
    <2>4. \A j \in Runs :
            pcm'[j] = pcm[j] \/ (pcm[j] = "stopping" /\ pcm'[j] \in {"gone", "killed"})
      BY <2>1, <2>2 DEF PcmSets, PcmEnds, PcmKilled, pcms
    <2> QED
      BY <2>2, <2>3, <2>4 DEF TowardsRest, AtRest
  <1>5. ASSUME NEW k \in Monitors, Monitor(i, k)
        PROVE  pc' = "done" /\ root' /\ TowardsRest /\ ~AtRest
    <2>1. ~Poll(i, k)
      BY <1>2 DEF Poll, Exists
    <2>2. /\ UNCHANGED <<root, pc, pcm>>
          /\ \/ /\ mon[i][k] = "turn"
                /\ \E p \in {"polling", "dead"} : mon' = [mon EXCEPT ![i][k] = p]
             \/ mon[i][k] = "polling" /\ mon' = [mon EXCEPT ![i][k] = "ended"]
      BY <1>5, <2>1 DEF Monitor, Turn, TurnRaises, Finish, driver, pcms
    <2>3. mon[i][k] \notin {"ended", "dead"}
      BY <2>2
    <2>4. \A j \in Runs : \A l \in Monitors :
            \/ mon'[j][l] = mon[j][l]
            \/ mon[j][l] = "turn" /\ mon'[j][l] \in {"polling", "dead"}
            \/ mon[j][l] = "polling" /\ mon'[j][l] = "ended"
      <3> SUFFICES ASSUME NEW j \in Runs, NEW l \in Monitors
                   PROVE  \/ mon'[j][l] = mon[j][l]
                          \/ mon[j][l] = "turn" /\ mon'[j][l] \in {"polling", "dead"}
                          \/ mon[j][l] = "polling" /\ mon'[j][l] = "ended"
        OBVIOUS
      <3>1. ASSUME NEW p, mon' = [mon EXCEPT ![i][k] = p]
            PROVE  mon'[j][l] = IF j = i /\ l = k THEN p ELSE mon[j][l]
        BY <3>1
      <3> QED
        BY <2>2, <3>1
    <2> QED
      BY <2>2, <2>3, <2>4 DEF TowardsRest, AtRest
  <1> QED
    BY <1>3, <1>4, <1>5

\* When a driver that is root is done, nothing starts any more: what is left of
\* pcm-memory and the monitors, of whichever benchmark, goes step by step to its
\* end, and when all have ended nothing can change the monitoring units or the
\* frequency, and the units hold no programming but that of a pcm-memory that a
\* second SIGTERM killed in its cleanup (the safety half of ComesToRest).
THEOREM RestCorrect ==
    Spec => /\ [](root /\ pc = "done" /\ AtRest => units = 0 \/ pcm[units] = "killed")
            /\ [][root /\ pc = "done" => pc' = "done" /\ root' /\ TowardsRest /\ ~AtRest]_vars
  <1>1. RestInv => (root /\ pc = "done" /\ AtRest => units = 0 \/ pcm[units] = "killed")
    BY DEF RestInv, IInv, TypeOK, PcmInv, AtRest
  <1>2. RestInv /\ [Next]_vars =>
            [root /\ pc = "done" => pc' = "done" /\ root' /\ TowardsRest /\ ~AtRest]_vars
    BY StepToRest
  <1>3. Spec => []RestInv
    BY InitRestInv, NextRestInv, PTL DEF Spec
  <1> QED
    BY <1>1, <1>2, <1>3, PTL DEF Spec
=============================================================================
