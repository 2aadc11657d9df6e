---------------------------- MODULE PcmPmuProofs ----------------------------
(***************************************************************************)
(* Theorems about the sharing of the core counters, for every number of    *)
(* processes and of cores.  Each part of the invariant is about one        *)
(* promise; all but the first rest on the phases of a process, which say   *)
(* where its workers can be busy.                                          *)
(***************************************************************************)
EXTENDS PcmPmu, TLAPS

Types ==
    /\ watchdog \in BOOLEAN /\ atBoot \in BOOLEAN
    /\ evtsel \in [Cores -> Events \cup {Nmi, Zero}]
    /\ ctrl \in [Cores -> {"off", "on", "fixed"}]
    /\ counted \in [Cores -> SUBSET (Events \cup {Nmi})]
    /\ pc \in [Procs -> {"off"} \cup Running \cup {"cleanup", "exiting", "gone"}]
    /\ msr \in [Procs -> BOOLEAN] /\ keep \in [Procs -> BOOLEAN]
    /\ needToRestoreNMIWatchdog \in [Procs -> BOOLEAN]
    /\ tasks \in [Procs -> SUBSET Cores]
    /\ queued \in [Procs -> SUBSET Cores]
    /\ worker \in [Procs -> [Cores -> {"idle", "zeroed", "selected", "own", "corrupted"}]]
    /\ cleaned \in [Procs -> SUBSET Cores]
    /\ written \in [Procs -> SUBSET Cores] /\ disturbed \subseteq Cores
    /\ raced \in [Procs -> BOOLEAN] /\ declined \in [Procs -> BOOLEAN] /\ stranded \in BOOLEAN

\* Where the workers of a process can have something to do.
Phases == \A p \in Procs :
    /\ tasks[p] # {} => pc[p] \in {"tasks", "cleanup", "exiting"}
    /\ queued[p] # {} => tasks[p] = {} /\ pc[p] \in {"cleanup", "exiting"}
    /\ \A c \in Cores :
          /\ worker[p][c] \in {"zeroed", "selected"} => c \in tasks[p]
          /\ worker[p][c] \in {"own", "corrupted"} => pc[p] \in {"measuring", "cleanup", "exiting"}
    /\ cleaned[p] # {} => pc[p] \in {"cleanup", "exiting", "gone"}

\* With work left when the clean-up begins, a process has raced; it measures
\* with MSRs only.
Races == \A p \in Procs :
    /\ pc[p] \in {"busy", "verify", "tasks", "measuring"} => msr[p]
    /\ pc[p] \in {"cleanup", "exiting"} /\ Busy(p) => raced[p]
    /\ raced[p] => pc[p] \in {"cleanup", "exiting", "gone"}

\* Somebody is left who will turn the watchdog on again.
Holder(p) ==
    \/ pc[p] = "mark"
    \/ needToRestoreNMIWatchdog[p] /\ pc[p] \in Running
    \/ needToRestoreNMIWatchdog[p] /\ pc[p] = "cleanup"
WatchInv ==
    /\ ~atBoot => /\ ~watchdog
                  /\ \A p \in Procs : ~needToRestoreNMIWatchdog[p] /\ pc[p] \notin {"disable", "mark"}
    /\ atBoot /\ ~watchdog /\ ~stranded => \E p \in Procs : Holder(p)

\* A core with a process's events has counted nothing else, and one whose
\* counters are zeroed nothing at all, unless it was disturbed; and a worker
\* that found its own events, and that nobody wrote since, still has them.
OwnInv ==
    /\ \A c \in Cores \ disturbed :
          /\ evtsel[c] \in Events => counted[c] \subseteq {evtsel[c]}
          /\ \A p \in Procs : worker[p][c] = "zeroed" => counted[c] = {} /\ ctrl[c] # "on"
    /\ \A p \in Procs, c \in Cores :
          worker[p][c] = "own" /\ c \notin written[p] => evtsel[c] = Conf[p]

\* Somebody's events are those of a process that has still to clean them up.
Owner(p, c) == raced[p] \/ pc[p] \in {"tasks", "measuring"} \/ (pc[p] = "cleanup" /\ c \notin cleaned[p])
OwnedInv == \A c \in Cores : evtsel[c] \in Events => \E p \in Procs : Owner(p, c)

\* A core that is yet to be programmed is free, or written since the look, or
\* its events look like the watchdog's that the process has disabled.
MayTake(p, c) ==
    \/ evtsel[c] \notin Events \ {Conf[p]}
    \/ c \in written[p]
    \/ evtsel[c] \in Cycles /\ (needToRestoreNMIWatchdog[p] \/ raced[p])
UntakenInv == \A p \in Procs, c \in Cores : pc[p] = "verify" \/ c \in tasks[p] => MayTake(p, c)

IInv == Types /\ Phases /\ Races /\ WatchInv /\ OwnInv /\ FrozenOnlyWhileBusy /\ OwnedInv /\ UntakenInv

-----------------------------------------------------------------------------
LEMMA Initially == Init => IInv
<1>. SUFFICES ASSUME Init PROVE IInv
  OBVIOUS
<1>1. \A c \in Cores : evtsel[c] \in {Nmi, Zero} /\ counted[c] = {} /\ ctrl[c] = "on"
  BY DEF Init
<1>2. \A p \in Procs : /\ pc[p] = "off" /\ tasks[p] = {} /\ cleaned[p] = {} /\ written[p] = {}
                       /\ queued[p] = {} /\ \A c \in Cores : worker[p][c] = "idle"
  BY DEF Init, Nobody, Idle
<1>3. Types
  BY DEF Init, Types, Nobody, Idle, Running
<1>4. WatchInv
  BY <1>2, Zenon DEF Init, WatchInv, Nobody
<1>5. Phases
  BY <1>2 DEF Phases
<1>7. \A p \in Procs : ~raced[p]
  BY DEF Init, Nobody
<1>8. Races
  BY <1>2, <1>7 DEF Races
<1>6. \A c \in Cores : evtsel[c] \notin Events
  BY <1>1, ConfAssumption DEF Events
<1>. QED
  BY <1>1, <1>2, <1>3, <1>4, <1>5, <1>6, <1>8 DEF IInv, OwnInv, FrozenOnlyWhileBusy, OwnedInv, UntakenInv

\* The types of the registers, of the processes and of their workers.
LEMMA TypesStep == Types /\ [Next]_vars => Types'
<1>. SUFFICES ASSUME Types, [Next]_vars PROVE Types'
  OBVIOUS
<1>1. \A p \in Procs : Conf[p] \in Events
  BY DEF Events
<1>. USE DEF Types, Running, Idle, vars, machine, workers, history
<1>2. ASSUME NEW c \in Cores, Count(c) PROVE Types'
  BY <1>2, <1>1 DEF Count, Here
<1>3. ASSUME NEW p \in Procs, Launch(p) PROVE Types'
  BY <1>3, <1>1 DEF Launch, Goto
<1>4. ASSUME NEW p \in Procs, SeeWatchdog(p) PROVE Types'
  BY <1>4, <1>1 DEF SeeWatchdog, Goto, Here
<1>5. ASSUME NEW p \in Procs, DisableNMIWatchdog(p) PROVE Types'
  BY <1>5, <1>1 DEF DisableNMIWatchdog, Goto, Here
<1>6. ASSUME NEW p \in Procs, MarkRestore(p) PROVE Types'
  BY <1>6, <1>1 DEF MarkRestore, Goto, Here
<1>7. ASSUME NEW p \in Procs, PMUinUse(p) PROVE Types'
  BY <1>7, <1>1 DEF PMUinUse, Goto, Here, InUse, Ignores
<1>8. ASSUME NEW p \in Procs, ResetPMU(p) PROVE Types'
  BY <1>8, <1>1 DEF ResetPMU, Goto, Here, Wrote
<1>9. ASSUME NEW p \in Procs, Refuse(p) PROVE Types'
  BY <1>9, <1>1 DEF Refuse, Goto
<1>10. ASSUME NEW p \in Procs, PushTasks(p) PROVE Types'
  BY <1>10, <1>1 DEF PushTasks, Goto, Here
<1>11. ASSUME NEW p \in Procs, AwaitTasks(p) PROVE Types'
  BY <1>11, <1>1 DEF AwaitTasks, Goto, Here
<1>12. ASSUME NEW p \in Procs, Exit(p) PROVE Types'
  BY <1>12, <1>1 DEF Exit, ExitWith, Busy
<1>13. ASSUME NEW p \in Procs, ExitUnclean(p) PROVE Types'
  BY <1>13, <1>1 DEF ExitUnclean, ExitWith, Busy
<1>14. ASSUME NEW p \in Procs, NEW c \in Cores, CleanupPMU(p, c) PROVE Types'
  BY <1>14, <1>1 DEF CleanupPMU, Here, Wrote
<1>15. ASSUME NEW p \in Procs, RestoreWatchdog(p) PROVE Types'
  <2>1. /\ evtsel' \in [Cores -> Events \cup {Nmi, Zero}]
        /\ written' \in [Procs -> SUBSET Cores]
        /\ watchdog' \in BOOLEAN
    <3>1. CASE needToRestoreNMIWatchdog[p]
      BY <1>15, <3>1 DEF RestoreWatchdog, Wrote
    <3>2. CASE ~needToRestoreNMIWatchdog[p]
      BY <1>15, <3>2 DEF RestoreWatchdog
    <3>. QED
      BY <3>1, <3>2
  <2>2. pc' = [pc EXCEPT ![p] = "exiting"]
    BY <1>15 DEF RestoreWatchdog, Goto
  <2>3. needToRestoreNMIWatchdog' = [needToRestoreNMIWatchdog EXCEPT ![p] = FALSE]
    BY <1>15 DEF RestoreWatchdog
  <2>4. UNCHANGED <<atBoot, ctrl, counted, msr, keep, tasks, queued, worker, disturbed, cleaned, raced, declined, stranded>>
    BY <1>15 DEF RestoreWatchdog, Here
  <2>. QED
    BY <2>1, <2>2, <2>3, <2>4
<1>16. ASSUME NEW p \in Procs, Gone(p) PROVE Types'
  BY <1>16, <1>1 DEF Gone, End
<1>17. ASSUME NEW p \in Procs, Crash(p) PROVE Types'
  BY <1>17, <1>1 DEF Crash, End, Alive
<1>18. ASSUME NEW p \in Procs, NEW c \in Cores, ZeroCounters(p, c) PROVE Types'
  BY <1>18, <1>1 DEF ZeroCounters, Here, Alive
<1>19. ASSUME NEW p \in Procs, NEW c \in Cores, SelectEvents(p, c) PROVE Types'
  BY <1>19, <1>1 DEF SelectEvents, Here, Alive, Wrote
<1>20. ASSUME NEW p \in Procs, NEW c \in Cores, StartCounting(p, c) PROVE Types'
  BY <1>20, <1>1 DEF StartCounting, Here, Alive, Unfreeze
<1>21. ASSUME NEW p \in Procs, NEW c \in Cores, CheckCustomCoreProgramming(p, c) PROVE Types'
  BY <1>21, <1>1 DEF CheckCustomCoreProgramming, BeginRead, ReadStep, Here, Alive
<1>22. ASSUME NEW p \in Procs, NEW c \in Cores, ReadCounters(p, c) PROVE Types'
  BY <1>22, <1>1 DEF ReadCounters, ReadStep, Unfreeze, Here, Alive
<1>23. CASE UNCHANGED vars
  BY <1>23, <1>1
<1>. QED
  BY <1>2, <1>3, <1>4, <1>5, <1>6, <1>7, <1>8, <1>9, <1>10, <1>11, <1>12, <1>13, <1>14, <1>15, <1>16, <1>17, <1>18, <1>19, <1>20, <1>21, <1>22, <1>23
  DEF Next, MainStep, WorkerStep

\* Only the phase of the process that takes a step changes.
LEMMA PhasesStep == Types /\ Phases /\ [Next]_vars => Phases'
<1>. SUFFICES ASSUME Types /\ Phases, [Next]_vars PROVE Phases'
  OBVIOUS
<1>. USE DEF Types, Phases, Running, Idle, vars, machine, workers, history
<1>2. ASSUME NEW c \in Cores, Count(c) PROVE Phases'
  BY <1>2 DEF Count, Here
<1>3. ASSUME NEW p \in Procs, Launch(p) PROVE Phases'
  BY <1>3 DEF Launch, Goto
<1>4. ASSUME NEW p \in Procs, SeeWatchdog(p) PROVE Phases'
  BY <1>4 DEF SeeWatchdog, Goto, Here
<1>5. ASSUME NEW p \in Procs, DisableNMIWatchdog(p) PROVE Phases'
  BY <1>5 DEF DisableNMIWatchdog, Goto, Here
<1>6. ASSUME NEW p \in Procs, MarkRestore(p) PROVE Phases'
  BY <1>6 DEF MarkRestore, Goto, Here
<1>7. ASSUME NEW p \in Procs, PMUinUse(p) PROVE Phases'
  BY <1>7 DEF PMUinUse, Goto, Here, InUse, Ignores
<1>8. ASSUME NEW p \in Procs, ResetPMU(p) PROVE Phases'
  BY <1>8 DEF ResetPMU, Goto, Here, Wrote
<1>9. ASSUME NEW p \in Procs, Refuse(p) PROVE Phases'
  BY <1>9 DEF Refuse, Goto
<1>10. ASSUME NEW p \in Procs, PushTasks(p) PROVE Phases'
  BY <1>10 DEF PushTasks, Goto, Here
<1>11. ASSUME NEW p \in Procs, AwaitTasks(p) PROVE Phases'
  BY <1>11 DEF AwaitTasks, Goto, Here
<1>12. ASSUME NEW p \in Procs, Exit(p) PROVE Phases'
  BY <1>12 DEF Exit, ExitWith, Busy
<1>13. ASSUME NEW p \in Procs, ExitUnclean(p) PROVE Phases'
  BY <1>13 DEF ExitUnclean, ExitWith, Busy
<1>14. ASSUME NEW p \in Procs, NEW c \in Cores, CleanupPMU(p, c) PROVE Phases'
  BY <1>14 DEF CleanupPMU, Here, Wrote
<1>15. ASSUME NEW p \in Procs, RestoreWatchdog(p) PROVE Phases'
  BY <1>15 DEF RestoreWatchdog, Goto, Here, Wrote
<1>16. ASSUME NEW p \in Procs, Gone(p) PROVE Phases'
  BY <1>16 DEF Gone, End
<1>17. ASSUME NEW p \in Procs, Crash(p) PROVE Phases'
  BY <1>17 DEF Crash, End, Alive
<1>18. ASSUME NEW p \in Procs, NEW c \in Cores, ZeroCounters(p, c) PROVE Phases'
  BY <1>18 DEF ZeroCounters, Here, Alive
<1>19. ASSUME NEW p \in Procs, NEW c \in Cores, SelectEvents(p, c) PROVE Phases'
  BY <1>19 DEF SelectEvents, Here, Alive, Wrote
<1>20. ASSUME NEW p \in Procs, NEW c \in Cores, StartCounting(p, c) PROVE Phases'
  BY <1>20 DEF StartCounting, Here, Alive, Unfreeze
<1>21. ASSUME NEW p \in Procs, NEW c \in Cores, CheckCustomCoreProgramming(p, c) PROVE Phases'
  BY <1>21 DEF CheckCustomCoreProgramming, BeginRead, ReadStep, Here, Alive
<1>22. ASSUME NEW p \in Procs, NEW c \in Cores, ReadCounters(p, c) PROVE Phases'
  BY <1>22 DEF ReadCounters, ReadStep, Unfreeze, Here, Alive
<1>23. CASE UNCHANGED vars
  BY <1>23
<1>. QED
  BY <1>2, <1>3, <1>4, <1>5, <1>6, <1>7, <1>8, <1>9, <1>10, <1>11, <1>12, <1>13, <1>14, <1>15, <1>16, <1>17, <1>18, <1>19, <1>20, <1>21, <1>22, <1>23
  DEF Next, MainStep, WorkerStep

\* A race is noted when the clean-up begins, and work does not grow after.
LEMMA RacesStep == Types /\ Phases /\ Races /\ [Next]_vars => Races'
<1>. SUFFICES ASSUME Types /\ Phases /\ Races, [Next]_vars PROVE Races'
  OBVIOUS
<1>. USE DEF Types, Phases, Races, Running, Idle, vars, machine, workers, history
<1>2. ASSUME NEW c \in Cores, Count(c) PROVE Races'
  BY <1>2 DEF Count, Here, Busy
<1>3. ASSUME NEW p \in Procs, Launch(p) PROVE Races'
  BY <1>3 DEF Launch, Goto, Busy
<1>4. ASSUME NEW p \in Procs, SeeWatchdog(p) PROVE Races'
  BY <1>4 DEF SeeWatchdog, Goto, Here, Busy
<1>5. ASSUME NEW p \in Procs, DisableNMIWatchdog(p) PROVE Races'
  BY <1>5 DEF DisableNMIWatchdog, Goto, Here, Busy
<1>6. ASSUME NEW p \in Procs, MarkRestore(p) PROVE Races'
  BY <1>6 DEF MarkRestore, Goto, Here, Busy
<1>7. ASSUME NEW p \in Procs, PMUinUse(p) PROVE Races'
  BY <1>7 DEF PMUinUse, Goto, Here, InUse, Ignores, Busy
<1>8. ASSUME NEW p \in Procs, ResetPMU(p) PROVE Races'
  BY <1>8 DEF ResetPMU, Goto, Here, Wrote, Busy
<1>9. ASSUME NEW p \in Procs, Refuse(p) PROVE Races'
  BY <1>9 DEF Refuse, Goto, Busy
<1>10. ASSUME NEW p \in Procs, PushTasks(p) PROVE Races'
  BY <1>10 DEF PushTasks, Goto, Here, Busy
<1>11. ASSUME NEW p \in Procs, AwaitTasks(p) PROVE Races'
  BY <1>11 DEF AwaitTasks, Goto, Here, Busy
<1>12. ASSUME NEW p \in Procs, Exit(p) PROVE Races'
  BY <1>12 DEF Exit, ExitWith, Busy
<1>13. ASSUME NEW p \in Procs, ExitUnclean(p) PROVE Races'
  BY <1>13 DEF ExitUnclean, ExitWith, Busy
<1>14. ASSUME NEW p \in Procs, NEW c \in Cores, CleanupPMU(p, c) PROVE Races'
  BY <1>14 DEF CleanupPMU, Here, Wrote, Busy
<1>15. ASSUME NEW p \in Procs, RestoreWatchdog(p) PROVE Races'
  BY <1>15 DEF RestoreWatchdog, Goto, Here, Wrote, Busy
<1>16. ASSUME NEW p \in Procs, Gone(p) PROVE Races'
  BY <1>16 DEF Gone, End, Busy
<1>17. ASSUME NEW p \in Procs, Crash(p) PROVE Races'
  BY <1>17 DEF Crash, End, Alive, Busy
<1>18. ASSUME NEW p \in Procs, NEW c \in Cores, ZeroCounters(p, c) PROVE Races'
  BY <1>18 DEF ZeroCounters, Here, Alive, Busy
<1>19. ASSUME NEW p \in Procs, NEW c \in Cores, SelectEvents(p, c) PROVE Races'
  BY <1>19 DEF SelectEvents, Here, Alive, Wrote, Busy
<1>20. ASSUME NEW p \in Procs, NEW c \in Cores, StartCounting(p, c) PROVE Races'
  BY <1>20 DEF StartCounting, Here, Alive, Unfreeze, Busy
<1>21. ASSUME NEW p \in Procs, NEW c \in Cores, CheckCustomCoreProgramming(p, c) PROVE Races'
  BY <1>21 DEF CheckCustomCoreProgramming, BeginRead, ReadStep, Here, Alive, Busy
<1>22. ASSUME NEW p \in Procs, NEW c \in Cores, ReadCounters(p, c) PROVE Races'
  BY <1>22 DEF ReadCounters, ReadStep, Unfreeze, Here, Alive, Busy
<1>23. CASE UNCHANGED vars
  BY <1>23 DEF Busy
<1>. QED
  BY <1>2, <1>3, <1>4, <1>5, <1>6, <1>7, <1>8, <1>9, <1>10, <1>11, <1>12, <1>13, <1>14, <1>15, <1>16, <1>17, <1>18, <1>19, <1>20, <1>21, <1>22, <1>23
  DEF Next, MainStep, WorkerStep

\* Who turned the watchdog off is left until it is on again.
LEMMA WatchStep == Types /\ Phases /\ WatchInv /\ [Next]_vars => WatchInv'
<1>. SUFFICES ASSUME Types /\ Phases /\ WatchInv, [Next]_vars PROVE WatchInv'
  OBVIOUS
<1>. USE DEF Types, Phases, WatchInv, Running, Idle, vars, machine, workers, history
<1>2. ASSUME NEW c \in Cores, Count(c) PROVE WatchInv'
  BY <1>2 DEF Count, Here, Holder
<1>3. ASSUME NEW p \in Procs, Launch(p) PROVE WatchInv'
  BY <1>3 DEF Launch, Goto, Holder
<1>4. ASSUME NEW p \in Procs, SeeWatchdog(p) PROVE WatchInv'
  BY <1>4 DEF SeeWatchdog, Goto, Here, Holder
<1>5. ASSUME NEW p \in Procs, DisableNMIWatchdog(p) PROVE WatchInv'
  BY <1>5 DEF DisableNMIWatchdog, Goto, Here, Holder
<1>6. ASSUME NEW p \in Procs, MarkRestore(p) PROVE WatchInv'
  BY <1>6 DEF MarkRestore, Goto, Here, Holder
<1>7. ASSUME NEW p \in Procs, PMUinUse(p) PROVE WatchInv'
  BY <1>7 DEF PMUinUse, Goto, Here, InUse, Ignores, Holder
<1>8. ASSUME NEW p \in Procs, ResetPMU(p) PROVE WatchInv'
  BY <1>8 DEF ResetPMU, Goto, Here, Wrote, Holder
<1>9. ASSUME NEW p \in Procs, Refuse(p) PROVE WatchInv'
  BY <1>9 DEF Refuse, Goto, Holder
<1>10. ASSUME NEW p \in Procs, PushTasks(p) PROVE WatchInv'
  BY <1>10 DEF PushTasks, Goto, Here, Holder
<1>11. ASSUME NEW p \in Procs, AwaitTasks(p) PROVE WatchInv'
  BY <1>11 DEF AwaitTasks, Goto, Here, Holder
<1>12. ASSUME NEW p \in Procs, Exit(p) PROVE WatchInv'
  BY <1>12 DEF Exit, ExitWith, Busy, Holder
<1>13. ASSUME NEW p \in Procs, ExitUnclean(p) PROVE WatchInv'
  BY <1>13 DEF ExitUnclean, ExitWith, Busy, Holder
<1>14. ASSUME NEW p \in Procs, NEW c \in Cores, CleanupPMU(p, c) PROVE WatchInv'
  BY <1>14 DEF CleanupPMU, Here, Wrote, Holder
<1>15. ASSUME NEW p \in Procs, RestoreWatchdog(p) PROVE WatchInv'
  BY <1>15 DEF RestoreWatchdog, Goto, Here, Wrote, Holder
<1>16. ASSUME NEW p \in Procs, Gone(p) PROVE WatchInv'
  BY <1>16 DEF Gone, End, Holder
<1>17. ASSUME NEW p \in Procs, Crash(p) PROVE WatchInv'
  BY <1>17 DEF Crash, End, Alive, Holder
<1>18. ASSUME NEW p \in Procs, NEW c \in Cores, ZeroCounters(p, c) PROVE WatchInv'
  BY <1>18 DEF ZeroCounters, Here, Alive, Holder
<1>19. ASSUME NEW p \in Procs, NEW c \in Cores, SelectEvents(p, c) PROVE WatchInv'
  BY <1>19 DEF SelectEvents, Here, Alive, Wrote, Holder
<1>20. ASSUME NEW p \in Procs, NEW c \in Cores, StartCounting(p, c) PROVE WatchInv'
  BY <1>20 DEF StartCounting, Here, Alive, Unfreeze, Holder
<1>21. ASSUME NEW p \in Procs, NEW c \in Cores, CheckCustomCoreProgramming(p, c) PROVE WatchInv'
  BY <1>21 DEF CheckCustomCoreProgramming, BeginRead, ReadStep, Here, Alive, Holder
<1>22. ASSUME NEW p \in Procs, NEW c \in Cores, ReadCounters(p, c) PROVE WatchInv'
  BY <1>22 DEF ReadCounters, ReadStep, Unfreeze, Here, Alive, Holder
<1>23. CASE UNCHANGED vars
  BY <1>23 DEF Holder
<1>. QED
  BY <1>2, <1>3, <1>4, <1>5, <1>6, <1>7, <1>8, <1>9, <1>10, <1>11, <1>12, <1>13, <1>14, <1>15, <1>16, <1>17, <1>18, <1>19, <1>20, <1>21, <1>22, <1>23
  DEF Next, MainStep, WorkerStep

\* The registers of a core are programmed and zeroed together.
LEMMA OwnStep == Types /\ Phases /\ OwnInv /\ [Next]_vars => OwnInv'
<1>. SUFFICES ASSUME Types /\ Phases /\ OwnInv, [Next]_vars PROVE OwnInv'
  OBVIOUS
<1>1. /\ \A p \in Procs : Conf[p] \in Events
      /\ Nmi \notin Events /\ Zero \notin Events
  BY ConfAssumption DEF Events
<1>. USE DEF Types, Phases, OwnInv, Running, Idle, vars, machine, workers, history
<1>2. ASSUME NEW c \in Cores, Count(c) PROVE OwnInv'
  BY <1>2, <1>1 DEF Count, Here
<1>3. ASSUME NEW p \in Procs, Launch(p) PROVE OwnInv'
  BY <1>3, <1>1 DEF Launch, Goto
<1>4. ASSUME NEW p \in Procs, SeeWatchdog(p) PROVE OwnInv'
  BY <1>4, <1>1 DEF SeeWatchdog, Goto, Here
<1>5. ASSUME NEW p \in Procs, DisableNMIWatchdog(p) PROVE OwnInv'
  BY <1>5, <1>1 DEF DisableNMIWatchdog, Goto, Here
<1>6. ASSUME NEW p \in Procs, MarkRestore(p) PROVE OwnInv'
  BY <1>6, <1>1 DEF MarkRestore, Goto, Here
<1>7. ASSUME NEW p \in Procs, PMUinUse(p) PROVE OwnInv'
  <2>1. \A c \in Cores : worker[p][c] # "own"
    BY <1>7 DEF PMUinUse, Goto
  <2>2. UNCHANGED <<evtsel, ctrl, counted, disturbed, worker>>
    BY <1>7, Zenon DEF PMUinUse
  <2>3. \A q \in Procs : q # p => written'[q] = written[q]
    BY <1>7, Zenon DEF PMUinUse
  <2>4. \A q \in Procs, c \in Cores :
           worker[q][c] = "own" /\ c \notin written'[q] => evtsel[c] = Conf[q]
    BY <2>1, <2>3
  <2>. QED
    BY <2>2, <2>4
<1>8. ASSUME NEW p \in Procs, ResetPMU(p) PROVE OwnInv'
  <2>1. \A c \in Cores : worker[p][c] # "own" /\ evtsel'[c] = Zero /\ ctrl'[c] = "off"
    BY <1>8 DEF ResetPMU, Goto
  <2>2. UNCHANGED <<counted, disturbed, worker>>
    BY <1>8, Zenon DEF ResetPMU
  <2>3. \A q \in Procs, c \in Cores : q # p => c \in written'[q]
    BY <1>8 DEF ResetPMU, Wrote
  <2>. QED
    BY <1>1, <2>1, <2>2, <2>3
<1>9. ASSUME NEW p \in Procs, Refuse(p) PROVE OwnInv'
  BY <1>9, <1>1 DEF Refuse, Goto
<1>10. ASSUME NEW p \in Procs, PushTasks(p) PROVE OwnInv'
  BY <1>10, <1>1 DEF PushTasks, Goto, Here
<1>11. ASSUME NEW p \in Procs, AwaitTasks(p) PROVE OwnInv'
  BY <1>11, <1>1 DEF AwaitTasks, Goto, Here
<1>12. ASSUME NEW p \in Procs, Exit(p) PROVE OwnInv'
  BY <1>12, <1>1 DEF Exit, ExitWith, Busy
<1>13. ASSUME NEW p \in Procs, ExitUnclean(p) PROVE OwnInv'
  BY <1>13, <1>1 DEF ExitUnclean, ExitWith, Busy
<1>14. ASSUME NEW p \in Procs, NEW c \in Cores, CleanupPMU(p, c) PROVE OwnInv'
  BY <1>14, <1>1 DEF CleanupPMU, Here, Wrote
<1>15. ASSUME NEW p \in Procs, RestoreWatchdog(p) PROVE OwnInv'
  <2>1. CASE ~needToRestoreNMIWatchdog[p]
    BY <1>15, <2>1 DEF RestoreWatchdog
  <2>2. CASE needToRestoreNMIWatchdog[p]
    <3>1. PICK C \in SUBSET Cores : /\ evtsel' = [c \in Cores |-> IF c \in C THEN Nmi ELSE evtsel[c]]
                                   /\ Wrote({}, C)
      BY <1>15, <2>2 DEF RestoreWatchdog
    <3>2. UNCHANGED <<ctrl, counted, disturbed, worker>>
      BY <1>15 DEF RestoreWatchdog
    <3>3. \A c \in Cores : evtsel'[c] = evtsel[c] \/ (evtsel'[c] = Nmi /\ c \in C)
      BY <3>1
    <3>4. \A q \in Procs : written'[q] = written[q] \cup C
      BY <3>1 DEF Wrote
    <3>. QED
      BY <3>2, <3>3, <3>4, <1>1
  <2>. QED
    BY <2>1, <2>2
<1>16. ASSUME NEW p \in Procs, Gone(p) PROVE OwnInv'
  BY <1>16, <1>1 DEF Gone, End
<1>17. ASSUME NEW p \in Procs, Crash(p) PROVE OwnInv'
  BY <1>17, <1>1 DEF Crash, End, Alive
<1>18. ASSUME NEW p \in Procs, NEW c \in Cores, ZeroCounters(p, c) PROVE OwnInv'
  BY <1>18, <1>1 DEF ZeroCounters, Here, Alive
<1>19. ASSUME NEW p \in Procs, NEW c \in Cores, SelectEvents(p, c) PROVE OwnInv'
  BY <1>19, <1>1 DEF SelectEvents, Here, Alive, Wrote
<1>20. ASSUME NEW p \in Procs, NEW c \in Cores, StartCounting(p, c) PROVE OwnInv'
  BY <1>20, <1>1 DEF StartCounting, Here, Alive, Unfreeze
<1>21. ASSUME NEW p \in Procs, NEW c \in Cores, CheckCustomCoreProgramming(p, c) PROVE OwnInv'
  BY <1>21, <1>1 DEF CheckCustomCoreProgramming, BeginRead, ReadStep, Here, Alive
<1>22. ASSUME NEW p \in Procs, NEW c \in Cores, ReadCounters(p, c) PROVE OwnInv'
  BY <1>22, <1>1 DEF ReadCounters, ReadStep, Unfreeze, Here, Alive
<1>23. CASE UNCHANGED vars
  BY <1>23, <1>1
<1>. QED
  BY <1>2, <1>3, <1>4, <1>5, <1>6, <1>7, <1>8, <1>9, <1>10, <1>11, <1>12, <1>13, <1>14, <1>15, <1>16, <1>17, <1>18, <1>19, <1>20, <1>21, <1>22, <1>23
  DEF Next, MainStep, WorkerStep

\* A core is frozen by a reader, or with zeroed event selects.
LEMMA FrozenStep == Types /\ Phases /\ Races /\ FrozenOnlyWhileBusy /\ [Next]_vars => FrozenOnlyWhileBusy'
<1>. SUFFICES ASSUME Types /\ Phases /\ Races /\ FrozenOnlyWhileBusy, [Next]_vars PROVE FrozenOnlyWhileBusy'
  OBVIOUS
<1>1. /\ \A p \in Procs : Conf[p] \in Events
      /\ Nmi \notin Events /\ Zero \notin Events
  BY ConfAssumption DEF Events
<1>. USE DEF Types, Phases, Races, FrozenOnlyWhileBusy, Running, Idle, vars, machine, workers, history
<1>2. ASSUME NEW c \in Cores, Count(c) PROVE FrozenOnlyWhileBusy'
  BY <1>2, <1>1 DEF Count, Here, Busy
<1>3. ASSUME NEW p \in Procs, Launch(p) PROVE FrozenOnlyWhileBusy'
  BY <1>3, <1>1 DEF Launch, Goto, Busy
<1>4. ASSUME NEW p \in Procs, SeeWatchdog(p) PROVE FrozenOnlyWhileBusy'
  BY <1>4, <1>1 DEF SeeWatchdog, Goto, Here, Busy
<1>5. ASSUME NEW p \in Procs, DisableNMIWatchdog(p) PROVE FrozenOnlyWhileBusy'
  BY <1>5, <1>1 DEF DisableNMIWatchdog, Goto, Here, Busy
<1>6. ASSUME NEW p \in Procs, MarkRestore(p) PROVE FrozenOnlyWhileBusy'
  BY <1>6, <1>1 DEF MarkRestore, Goto, Here, Busy
<1>7. ASSUME NEW p \in Procs, PMUinUse(p) PROVE FrozenOnlyWhileBusy'
  BY <1>7, <1>1 DEF PMUinUse, Goto, Here, InUse, Ignores, Busy
<1>8. ASSUME NEW p \in Procs, ResetPMU(p) PROVE FrozenOnlyWhileBusy'
  BY <1>8, <1>1 DEF ResetPMU, Goto, Here, Wrote, Busy
<1>9. ASSUME NEW p \in Procs, Refuse(p) PROVE FrozenOnlyWhileBusy'
  BY <1>9, <1>1 DEF Refuse, Goto, Busy
<1>10. ASSUME NEW p \in Procs, PushTasks(p) PROVE FrozenOnlyWhileBusy'
  BY <1>10, <1>1 DEF PushTasks, Goto, Here, Busy
<1>11. ASSUME NEW p \in Procs, AwaitTasks(p) PROVE FrozenOnlyWhileBusy'
  BY <1>11, <1>1 DEF AwaitTasks, Goto, Here, Busy
<1>12. ASSUME NEW p \in Procs, Exit(p) PROVE FrozenOnlyWhileBusy'
  BY <1>12, <1>1 DEF Exit, ExitWith, Busy
<1>13. ASSUME NEW p \in Procs, ExitUnclean(p) PROVE FrozenOnlyWhileBusy'
  BY <1>13, <1>1 DEF ExitUnclean, ExitWith, Busy
<1>14. ASSUME NEW p \in Procs, NEW c \in Cores, CleanupPMU(p, c) PROVE FrozenOnlyWhileBusy'
  BY <1>14, <1>1 DEF CleanupPMU, Here, Wrote, Busy
<1>15. ASSUME NEW p \in Procs, RestoreWatchdog(p) PROVE FrozenOnlyWhileBusy'
  <2>1. \A d \in Cores : evtsel'[d] \in Events => evtsel'[d] = evtsel[d]
    <3>1. CASE needToRestoreNMIWatchdog[p]
      BY <1>15, <1>1, <3>1 DEF RestoreWatchdog
    <3>2. CASE ~needToRestoreNMIWatchdog[p]
      BY <1>15, <3>2 DEF RestoreWatchdog
    <3>. QED
      BY <3>1, <3>2
  <2>2. UNCHANGED <<ctrl, worker, raced>>
    BY <1>15 DEF RestoreWatchdog, Here
  <2>. QED
    BY <2>1, <2>2
<1>16. ASSUME NEW p \in Procs, Gone(p) PROVE FrozenOnlyWhileBusy'
  BY <1>16, <1>1 DEF Gone, End, Busy
<1>17. ASSUME NEW p \in Procs, Crash(p) PROVE FrozenOnlyWhileBusy'
  BY <1>17, <1>1 DEF Crash, End, Alive, Busy
<1>18. ASSUME NEW p \in Procs, NEW c \in Cores, ZeroCounters(p, c) PROVE FrozenOnlyWhileBusy'
  BY <1>18, <1>1 DEF ZeroCounters, Here, Alive, Busy
<1>19. ASSUME NEW p \in Procs, NEW c \in Cores, SelectEvents(p, c) PROVE FrozenOnlyWhileBusy'
  BY <1>19, <1>1 DEF SelectEvents, Here, Alive, Wrote, Busy
<1>20. ASSUME NEW p \in Procs, NEW c \in Cores, StartCounting(p, c) PROVE FrozenOnlyWhileBusy'
  BY <1>20, <1>1 DEF StartCounting, Here, Alive, Unfreeze, Busy
<1>21. ASSUME NEW p \in Procs, NEW c \in Cores, CheckCustomCoreProgramming(p, c) PROVE FrozenOnlyWhileBusy'
  BY <1>21, <1>1 DEF CheckCustomCoreProgramming, BeginRead, ReadStep, Here, Alive, Busy
<1>22. ASSUME NEW p \in Procs, NEW c \in Cores, ReadCounters(p, c) PROVE FrozenOnlyWhileBusy'
  BY <1>22, <1>1 DEF ReadCounters, ReadStep, Unfreeze, Here, Alive, Busy
<1>23. CASE UNCHANGED vars
  BY <1>23, <1>1 DEF Busy
<1>. QED
  BY <1>2, <1>3, <1>4, <1>5, <1>6, <1>7, <1>8, <1>9, <1>10, <1>11, <1>12, <1>13, <1>14, <1>15, <1>16, <1>17, <1>18, <1>19, <1>20, <1>21, <1>22, <1>23
  DEF Next, MainStep, WorkerStep

\* Events are written by a process that has yet to clean up.
LEMMA OwnedStep == Types /\ Phases /\ Races /\ OwnedInv /\ [Next]_vars => OwnedInv'
<1>. SUFFICES ASSUME Types /\ Phases /\ Races /\ OwnedInv, [Next]_vars PROVE OwnedInv'
  OBVIOUS
<1>1. /\ \A p \in Procs : Conf[p] \in Events
      /\ Nmi \notin Events /\ Zero \notin Events
  BY ConfAssumption DEF Events
<1>. USE DEF Types, Phases, Races, OwnedInv, Running, Idle, vars, machine, workers, history
<1>2. ASSUME NEW c \in Cores, Count(c) PROVE OwnedInv'
  BY <1>2, <1>1 DEF Count, Here, Owner, Busy
<1>3. ASSUME NEW p \in Procs, Launch(p) PROVE OwnedInv'
  BY <1>3, <1>1 DEF Launch, Goto, Owner, Busy
<1>4. ASSUME NEW p \in Procs, SeeWatchdog(p) PROVE OwnedInv'
  BY <1>4, <1>1 DEF SeeWatchdog, Goto, Here, Owner, Busy
<1>5. ASSUME NEW p \in Procs, DisableNMIWatchdog(p) PROVE OwnedInv'
  <2>1. \A d \in Cores : evtsel'[d] \in Events => evtsel'[d] = evtsel[d]
    BY <1>5, <1>1 DEF DisableNMIWatchdog
  <2>2. /\ pc[p] = "disable" /\ pc' = [pc EXCEPT ![p] = "mark"]
        /\ UNCHANGED <<cleaned, raced>>
    BY <1>5 DEF DisableNMIWatchdog, Goto, Here
  <2>3. \A q \in Procs, c \in Cores : Owner(q, c) => Owner(q, c)'
    BY <2>2 DEF Owner
  <2>. QED
    BY <2>1, <2>3
<1>6. ASSUME NEW p \in Procs, MarkRestore(p) PROVE OwnedInv'
  BY <1>6, <1>1 DEF MarkRestore, Goto, Here, Owner, Busy
<1>7. ASSUME NEW p \in Procs, PMUinUse(p) PROVE OwnedInv'
  BY <1>7, <1>1 DEF PMUinUse, Goto, Here, InUse, Ignores, Owner, Busy
<1>8. ASSUME NEW p \in Procs, ResetPMU(p) PROVE OwnedInv'
  BY <1>8, <1>1 DEF ResetPMU, Goto, Here, Wrote, Owner, Busy
<1>9. ASSUME NEW p \in Procs, Refuse(p) PROVE OwnedInv'
  BY <1>9, <1>1 DEF Refuse, Goto, Owner, Busy
<1>10. ASSUME NEW p \in Procs, PushTasks(p) PROVE OwnedInv'
  BY <1>10, <1>1 DEF PushTasks, Goto, Here, Owner, Busy
<1>11. ASSUME NEW p \in Procs, AwaitTasks(p) PROVE OwnedInv'
  BY <1>11, <1>1 DEF AwaitTasks, Goto, Here, Owner, Busy
<1>12. ASSUME NEW p \in Procs, Exit(p) PROVE OwnedInv'
  <2>1. /\ pc[p] \in Running /\ pc' = [pc EXCEPT ![p] = IF msr[p] THEN "cleanup" ELSE "exiting"]
        /\ UNCHANGED <<evtsel, cleaned>>
        /\ \A q \in Procs : q # p => raced'[q] = raced[q]
    BY <1>12 DEF Exit, ExitWith
  <2>2. ~raced[p] /\ cleaned[p] = {}
    BY <2>1
  <2>3. \A q \in Procs, c \in Cores : Owner(q, c) => Owner(q, c)'
    BY <2>1, <2>2 DEF Owner
  <2>. QED
    BY <2>1, <2>3
<1>13. ASSUME NEW p \in Procs, ExitUnclean(p) PROVE OwnedInv'
  BY <1>13, <1>1 DEF ExitUnclean, ExitWith, Owner, Busy
<1>14. ASSUME NEW p \in Procs, NEW c \in Cores, CleanupPMU(p, c) PROVE OwnedInv'
  BY <1>14, <1>1 DEF CleanupPMU, Here, Wrote, Owner, Busy
<1>15. ASSUME NEW p \in Procs, RestoreWatchdog(p) PROVE OwnedInv'
  <2>1. \A d \in Cores : evtsel'[d] \in Events => evtsel'[d] = evtsel[d]
    <3>1. CASE needToRestoreNMIWatchdog[p]
      BY <1>15, <1>1, <3>1 DEF RestoreWatchdog
    <3>2. CASE ~needToRestoreNMIWatchdog[p]
      BY <1>15, <3>2 DEF RestoreWatchdog
    <3>. QED
      BY <3>1, <3>2
  <2>2. /\ pc[p] = "cleanup" /\ cleaned[p] = Cores
        /\ pc' = [pc EXCEPT ![p] = "exiting"]
        /\ UNCHANGED <<cleaned, raced>>
    BY <1>15 DEF RestoreWatchdog, Goto, Here
  <2>. SUFFICES ASSUME NEW c \in Cores, evtsel[c] \in Events PROVE \E q \in Procs : Owner(q, c)'
    BY <2>1
  <2>3. PICK q \in Procs : Owner(q, c)
    OBVIOUS
  <2>4. Owner(q, c)'
    BY <2>2, <2>3 DEF Owner
  <2>. QED
    BY <2>4
<1>16. ASSUME NEW p \in Procs, Gone(p) PROVE OwnedInv'
  BY <1>16, <1>1 DEF Gone, End, Owner, Busy
<1>17. ASSUME NEW p \in Procs, Crash(p) PROVE OwnedInv'
  BY <1>17, <1>1 DEF Crash, End, Alive, Owner, Busy
<1>18. ASSUME NEW p \in Procs, NEW c \in Cores, ZeroCounters(p, c) PROVE OwnedInv'
  BY <1>18, <1>1 DEF ZeroCounters, Here, Alive, Owner, Busy
<1>19. ASSUME NEW p \in Procs, NEW c \in Cores, SelectEvents(p, c) PROVE OwnedInv'
  BY <1>19, <1>1 DEF SelectEvents, Here, Alive, Wrote, Owner, Busy
<1>20. ASSUME NEW p \in Procs, NEW c \in Cores, StartCounting(p, c) PROVE OwnedInv'
  BY <1>20, <1>1 DEF StartCounting, Here, Alive, Unfreeze, Owner, Busy
<1>21. ASSUME NEW p \in Procs, NEW c \in Cores, CheckCustomCoreProgramming(p, c) PROVE OwnedInv'
  BY <1>21, <1>1 DEF CheckCustomCoreProgramming, BeginRead, ReadStep, Here, Alive, Owner, Busy
<1>22. ASSUME NEW p \in Procs, NEW c \in Cores, ReadCounters(p, c) PROVE OwnedInv'
  BY <1>22, <1>1 DEF ReadCounters, ReadStep, Unfreeze, Here, Alive, Owner, Busy
<1>23. CASE UNCHANGED vars
  BY <1>23, <1>1 DEF Owner, Busy
<1>. QED
  BY <1>2, <1>3, <1>4, <1>5, <1>6, <1>7, <1>8, <1>9, <1>10, <1>11, <1>12, <1>13, <1>14, <1>15, <1>16, <1>17, <1>18, <1>19, <1>20, <1>21, <1>22, <1>23
  DEF Next, MainStep, WorkerStep

\* The look finds no events, and who writes any tells the others' history.
LEMMA UntakenStep == Types /\ Phases /\ Races /\ UntakenInv /\ [Next]_vars => UntakenInv'
<1>. SUFFICES ASSUME Types /\ Phases /\ Races /\ UntakenInv, [Next]_vars PROVE UntakenInv'
  OBVIOUS
<1>1. /\ \A p \in Procs : Conf[p] \in Events
      /\ Nmi \notin Events /\ Zero \notin Events
  BY ConfAssumption DEF Events
<1>. USE DEF Types, Phases, Races, UntakenInv, Running, Idle, vars, machine, workers, history
<1>2. ASSUME NEW c \in Cores, Count(c) PROVE UntakenInv'
  BY <1>2, <1>1 DEF Count, Here, MayTake, Busy
<1>3. ASSUME NEW p \in Procs, Launch(p) PROVE UntakenInv'
  BY <1>3, <1>1 DEF Launch, Goto, MayTake, Busy
<1>4. ASSUME NEW p \in Procs, SeeWatchdog(p) PROVE UntakenInv'
  BY <1>4, <1>1 DEF SeeWatchdog, Goto, Here, MayTake, Busy
<1>5. ASSUME NEW p \in Procs, DisableNMIWatchdog(p) PROVE UntakenInv'
  BY <1>5, <1>1 DEF DisableNMIWatchdog, Goto, Here, MayTake, Busy
<1>6. ASSUME NEW p \in Procs, MarkRestore(p) PROVE UntakenInv'
  BY <1>6, <1>1 DEF MarkRestore, Goto, Here, MayTake, Busy
<1>7. ASSUME NEW p \in Procs, PMUinUse(p) PROVE UntakenInv'
  <2>. SUFFICES ASSUME NEW q \in Procs, NEW c \in Cores, pc'[q] = "verify" \/ c \in tasks[q]
                PROVE  MayTake(q, c)'
    BY <1>7 DEF PMUinUse, Here
  <2>1. CASE q = p
    <3>1. pc[p] = "access" /\ tasks[p] = {} /\ ~InUse(p)
      BY <1>7, <2>1 DEF PMUinUse, Goto
    <3>2. evtsel[c] = Zero \/ Ignores(p, c)
      BY <3>1 DEF InUse
    <3>3. UNCHANGED <<evtsel, needToRestoreNMIWatchdog>>
      BY <1>7 DEF PMUinUse, Here
    <3>. QED
      BY <2>1, <3>2, <3>3, <1>1 DEF MayTake, Ignores
  <2>2. CASE q # p
    BY <1>7, <2>2 DEF PMUinUse, Goto, Here, MayTake
  <2>. QED
    BY <2>1, <2>2
<1>8. ASSUME NEW p \in Procs, ResetPMU(p) PROVE UntakenInv'
  BY <1>8, <1>1 DEF ResetPMU, Goto, Here, Wrote, MayTake, Busy
<1>9. ASSUME NEW p \in Procs, Refuse(p) PROVE UntakenInv'
  BY <1>9, <1>1 DEF Refuse, Goto, MayTake, Busy
<1>10. ASSUME NEW p \in Procs, PushTasks(p) PROVE UntakenInv'
  BY <1>10, <1>1 DEF PushTasks, Goto, Here, MayTake, Busy
<1>11. ASSUME NEW p \in Procs, AwaitTasks(p) PROVE UntakenInv'
  BY <1>11, <1>1 DEF AwaitTasks, Goto, Here, MayTake, Busy
<1>12. ASSUME NEW p \in Procs, Exit(p) PROVE UntakenInv'
  BY <1>12, <1>1 DEF Exit, ExitWith, MayTake, Busy
<1>13. ASSUME NEW p \in Procs, ExitUnclean(p) PROVE UntakenInv'
  BY <1>13, <1>1 DEF ExitUnclean, ExitWith, MayTake, Busy
<1>14. ASSUME NEW p \in Procs, NEW c \in Cores, CleanupPMU(p, c) PROVE UntakenInv'
  BY <1>14, <1>1 DEF CleanupPMU, Here, Wrote, MayTake, Busy
<1>15. ASSUME NEW p \in Procs, RestoreWatchdog(p) PROVE UntakenInv'
  BY <1>15, <1>1 DEF RestoreWatchdog, Goto, Here, Wrote, MayTake, Busy
<1>16. ASSUME NEW p \in Procs, Gone(p) PROVE UntakenInv'
  BY <1>16, <1>1 DEF Gone, End, MayTake, Busy
<1>17. ASSUME NEW p \in Procs, Crash(p) PROVE UntakenInv'
  BY <1>17, <1>1 DEF Crash, End, Alive, MayTake, Busy
<1>18. ASSUME NEW p \in Procs, NEW c \in Cores, ZeroCounters(p, c) PROVE UntakenInv'
  BY <1>18, <1>1 DEF ZeroCounters, Here, Alive, MayTake, Busy
<1>19. ASSUME NEW p \in Procs, NEW c \in Cores, SelectEvents(p, c) PROVE UntakenInv'
  BY <1>19, <1>1 DEF SelectEvents, Here, Alive, Wrote, MayTake, Busy
<1>20. ASSUME NEW p \in Procs, NEW c \in Cores, StartCounting(p, c) PROVE UntakenInv'
  BY <1>20, <1>1 DEF StartCounting, Here, Alive, Unfreeze, MayTake, Busy
<1>21. ASSUME NEW p \in Procs, NEW c \in Cores, CheckCustomCoreProgramming(p, c) PROVE UntakenInv'
  BY <1>21, <1>1 DEF CheckCustomCoreProgramming, BeginRead, ReadStep, Here, Alive, MayTake, Busy
<1>22. ASSUME NEW p \in Procs, NEW c \in Cores, ReadCounters(p, c) PROVE UntakenInv'
  BY <1>22, <1>1 DEF ReadCounters, ReadStep, Unfreeze, Here, Alive, MayTake, Busy
<1>23. CASE UNCHANGED vars
  BY <1>23, <1>1 DEF MayTake, Busy
<1>. QED
  BY <1>2, <1>3, <1>4, <1>5, <1>6, <1>7, <1>8, <1>9, <1>10, <1>11, <1>12, <1>13, <1>14, <1>15, <1>16, <1>17, <1>18, <1>19, <1>20, <1>21, <1>22, <1>23
  DEF Next, MainStep, WorkerStep

LEMMA Inductive == IInv /\ [Next]_vars => IInv'
BY TypesStep, PhasesStep, RacesStep, WatchStep, OwnStep, FrozenStep, OwnedStep, UntakenStep DEF IInv

THEOREM Invariance == Spec => []IInv
<1>1. Init => IInv
  BY Initially
<1>2. IInv /\ [Next]_vars => IInv'
  BY Inductive
<1>. QED
  BY <1>1, <1>2, PTL DEF Spec

-----------------------------------------------------------------------------
\* The registers and the phases of every process have their types, and no
\* worker has anything to program before or after the programming (TypeOK).
THEOREM Typed == Spec => []TypeOK
<1>1. IInv => TypeOK
  BY DEF IInv, Types, Phases, TypeOK
<1>. QED
  BY <1>1, Invariance, PTL

\* The watchdog is as at boot when all processes are over (WatchdogRestored).
THEOREM WatchdogIsRestored == Spec => []WatchdogRestored
<1>1. IInv => WatchdogRestored
  <2>. SUFFICES ASSUME IInv, \A p \in Procs : Over(p), ~stranded PROVE watchdog = atBoot
    BY DEF WatchdogRestored
  <2>1. \A p \in Procs : ~Holder(p)
    BY DEF Over, Holder, Running
  <2>2. watchdog \in BOOLEAN /\ atBoot \in BOOLEAN /\ WatchInv
    BY DEF IInv, Types
  <2>. QED
    BY <2>1, <2>2 DEF WatchInv
<1>. QED
  BY <1>1, Invariance, PTL

\* What a process reports is its own (ReportedIsOwn).
THEOREM ReportsAreOwn == Spec => []ReportedIsOwn
<1>1. IInv => ReportedIsOwn
  <2>. SUFFICES ASSUME IInv, NEW p \in Procs, NEW c \in Cores, worker[p][c] = "own", c \notin written[p], c \notin disturbed
                PROVE  counted[c] \subseteq {Conf[p]}
    BY DEF ReportedIsOwn
  <2>1. evtsel[c] = Conf[p] /\ Conf[p] \in Events
    BY DEF IInv, OwnInv, Events
  <2>. QED
    BY <2>1 DEF IInv, OwnInv
<1>. QED
  BY <1>1, Invariance, PTL

\* No core with events stays frozen (FrozenOnlyWhileBusy).
THEOREM NobodyStaysFrozen == Spec => []FrozenOnlyWhileBusy
<1>1. IInv => FrozenOnlyWhileBusy
  BY DEF IInv
<1>. QED
  BY <1>1, Invariance, PTL

\* Processes that end by their exit handlers leave no events (ExitsLeaveZero).
THEOREM NoEventsAreLeft == Spec => []ExitsLeaveZero
<1>1. IInv => ExitsLeaveZero
  <2>. SUFFICES ASSUME IInv, \A p \in Procs : Over(p) /\ ~raced[p], NEW c \in Cores
                PROVE  evtsel[c] \in {Zero, Nmi}
    BY DEF ExitsLeaveZero
  <2>1. \A p \in Procs : ~Owner(p, c)
    BY DEF Over, Owner
  <2>. QED
    BY <2>1 DEF IInv, OwnedInv, Types
<1>. QED
  BY <1>1, Invariance, PTL

\* Nobody programs a core over another's events that were there at the look
\* (NoTakeover).
THEOREM NobodyIsTakenOver == Spec => NoTakeover
<1>1. ASSUME IInv
      PROVE  [\A p \in Procs, c \in Cores :
                worker[p][c] = "zeroed" /\ worker'[p][c] = "selected" /\ evtsel[c] \in Events \ {Conf[p]}
                  => c \in written[p] \/ (evtsel[c] \in Cycles /\ (needToRestoreNMIWatchdog[p] \/ raced[p]))]_vars
  <2>1. ASSUME NEW p \in Procs, NEW c \in Cores, worker[p][c] = "zeroed", evtsel[c] \in Events \ {Conf[p]}
        PROVE  c \in written[p] \/ (evtsel[c] \in Cycles /\ (needToRestoreNMIWatchdog[p] \/ raced[p]))
    <3>1. c \in tasks[p]
      BY <1>1, <2>1 DEF IInv, Phases
    <3>. QED
      BY <1>1, <2>1, <3>1 DEF IInv, UntakenInv, MayTake
  <2>. QED
    BY <2>1
<1>. QED
  BY <1>1, Invariance, PTL DEF Spec, NoTakeover
=============================================================================
