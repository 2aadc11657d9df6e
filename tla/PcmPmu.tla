------------------------------- MODULE PcmPmu -------------------------------
(***************************************************************************)
(* The core performance counters of one machine and the PCM processes that *)
(* share them by direct programming (PCM_NO_PERF=1, or a kernel perf that  *)
(* cannot be used): PCM::program, the reading of the counters by one       *)
(* worker thread per core, and PCM::cleanup from the exit handler.  There  *)
(* is no lock between processes, only a look at the registers before they  *)
(* are programmed and before every read.  A server (pcm-sensor-server) has *)
(* no exit handler: only its signal handler cleans up.                     *)
(*                                                                         *)
(* The event selects of a core are one value, the process's whole event    *)
(* set; its counters are the set of event sets that have counted in them   *)
(* since they were zeroed.  So one select and one counter stand for all of *)
(* a core: programming it is the freeze with the zeroing, the select and   *)
(* the unfreeze.  Left out: the uncore and RDT registers, which nobody     *)
(* looks at before programming, the fixed counters, and the perf path,     *)
(* where the kernel arbitrates.                                            *)
(***************************************************************************)
EXTENDS FiniteSets

CONSTANTS Procs, Cores,
          Servers,      \* the processes that are pcm-sensor-server
          Conf,         \* the event set each process programs
          Nmi,          \* the event of the kernel's NMI watchdog, with its interrupt
          Cycles,       \* event sets with event 0x3C and umask 0 alone, Nmi among them
          Zero          \* event selects that are zero

Events == {Conf[p] : p \in Procs}
ASSUME ConfAssumption == /\ Nmi # Zero /\ \A p \in Procs : Conf[p] \notin {Nmi, Zero}
                         /\ Nmi \in Cycles /\ Zero \notin Cycles
ASSUME ServersAssumption == Servers \subseteq Procs

VARIABLES
    watchdog,   \* /proc/sys/kernel/nmi_watchdog
    atBoot,     \* its value before any process ran
    evtsel,     \* IA32_PERFEVTSELx of each core
    ctrl,       \* IA32_CR_PERF_GLOBAL_CTRL: "off", "on", or "fixed" counters only
    counted,    \* what has counted in IA32_PMCx since they were zeroed
    pc,         \* the main thread of each process
    msr, keep,  \* its MSRs can be opened; PCM_KEEP_NMI_WATCHDOG=1
    needToRestoreNMIWatchdog,
    tasks,      \* cores whose worker has yet to program, or is at it
    queued,     \* cores whose worker has yet to read when the process exits
    worker,     \* each core's worker: it has "zeroed" the counters or "selected" the
                \* events, or reads what it found: "own", "corrupted"
    cleaned,    \* cores that cleanupPMU has been to
    written,    \* (history) cores others wrote since the process last looked
    disturbed,  \* (history) cores somebody unfroze while another's worker had frozen
                \* them and not yet selected its events
    raced,      \* (history) it began to clean up with busy workers, or never did
    declined,   \* (history) its user did not want a reset
    stranded    \* (history) a process that had disabled the watchdog could not say so

machine == <<watchdog, evtsel, ctrl, counted, written, disturbed>>
workers == <<tasks, queued, worker>>
history == <<atBoot, raced, declined, stranded>>
vars == <<machine, pc, msr, keep, needToRestoreNMIWatchdog, workers, cleaned, history>>

Running == {"watchdog", "disable", "mark", "access", "busy", "verify",
            "tasks", "measuring", "refused"}
TypeOK ==
    /\ watchdog \in BOOLEAN /\ atBoot \in BOOLEAN
    /\ evtsel \in [Cores -> Events \cup {Nmi, Zero}]
    /\ ctrl \in [Cores -> {"off", "on", "fixed"}]
    /\ counted \in [Cores -> SUBSET (Events \cup {Nmi})]
    /\ pc \in [Procs -> {"off"} \cup Running \cup {"cleanup", "exiting", "gone"}]
    /\ msr \in [Procs -> BOOLEAN] /\ keep \in [Procs -> BOOLEAN]
    /\ needToRestoreNMIWatchdog \in [Procs -> BOOLEAN]
    /\ tasks \in [Procs -> SUBSET Cores]
    /\ queued \in [Procs -> SUBSET Cores]
    /\ worker \in [Procs -> [Cores -> {"idle", "zeroed", "selected", "own", "corrupted"}]]
    /\ cleaned \in [Procs -> SUBSET Cores]
    /\ written \in [Procs -> SUBSET Cores] /\ disturbed \subseteq Cores
    /\ raced \in [Procs -> BOOLEAN] /\ declined \in [Procs -> BOOLEAN] /\ stranded \in BOOLEAN
    /\ \A p \in Procs : tasks[p] # {} => pc[p] \notin {"off", "measuring", "gone"}

Nobody(x) == [p \in Procs |-> x]
Idle == [c \in Cores |-> "idle"]

Init ==
    /\ watchdog \in BOOLEAN /\ atBoot = watchdog
    /\ evtsel = [c \in Cores |-> IF watchdog THEN Nmi ELSE Zero]
    /\ ctrl = [c \in Cores |-> "on"]
    /\ counted = [c \in Cores |-> {}]
    /\ pc = Nobody("off")
    /\ msr = Nobody(TRUE) /\ keep = Nobody(FALSE)
    /\ needToRestoreNMIWatchdog = Nobody(FALSE)
    /\ tasks = Nobody({}) /\ queued = Nobody({}) /\ worker = Nobody(Idle)
    /\ cleaned = Nobody({})
    /\ written = Nobody({}) /\ disturbed = {}
    /\ raced = Nobody(FALSE) /\ declined = Nobody(FALSE) /\ stranded = FALSE

Goto(p, from, to) == pc[p] = from /\ pc' = [pc EXCEPT ![p] = to]
Here == UNCHANGED <<msr, keep, history>>

\* Cores C are written, and the processes other than those of Q do not know.
Wrote(Q, C) == written' = [q \in Procs |-> IF q \in Q THEN written[q] ELSE written[q] \cup C]

Count(c) ==
    /\ ctrl[c] = "on" /\ evtsel[c] # Zero
    /\ counted' = [counted EXCEPT ![c] = @ \cup {evtsel[c]}]
    /\ UNCHANGED <<watchdog, evtsel, ctrl, written, disturbed, pc,
                   needToRestoreNMIWatchdog, workers, cleaned>> /\ Here

-----------------------------------------------------------------------------
\* PCM::program

Launch(p) ==
    /\ Goto(p, "off", "watchdog")
    /\ \E m \in BOOLEAN, k \in BOOLEAN :
          msr' = [msr EXCEPT ![p] = m] /\ keep' = [keep EXCEPT ![p] = k]
    /\ UNCHANGED <<machine, needToRestoreNMIWatchdog, workers, cleaned, history>>

SeeWatchdog(p) ==
    /\ Goto(p, "watchdog", IF watchdog /\ ~keep[p] THEN "disable" ELSE "access")
    /\ UNCHANGED <<machine, needToRestoreNMIWatchdog, workers, cleaned>> /\ Here

\* The kernel stops its event; it does not always clear the register.
DisableNMIWatchdog(p) ==
    /\ Goto(p, "disable", "mark")
    /\ watchdog' = FALSE
    /\ \E C \in SUBSET {c \in Cores : evtsel[c] = Nmi} :
          evtsel' = [c \in Cores |-> IF c \in C THEN Zero ELSE evtsel[c]]
    /\ UNCHANGED <<ctrl, counted, written, disturbed, needToRestoreNMIWatchdog, workers, cleaned>> /\ Here

MarkRestore(p) ==
    /\ Goto(p, "mark", "access")
    /\ needToRestoreNMIWatchdog' = [needToRestoreNMIWatchdog EXCEPT ![p] = TRUE]
    /\ UNCHANGED <<machine, workers, cleaned>> /\ Here

\* Mutant of InUse: whoever restores the watchdog ignores every event.
InUseIgnored(p) == ~needToRestoreNMIWatchdog[p] /\ \E c \in Cores : evtsel[c] # Zero

\* An event of the watchdog that is not cleared does not count as use, nor does
\* any other that counts cycles.
Ignores(p, c) == evtsel[c] \in Cycles /\ needToRestoreNMIWatchdog[p]
InUse(p) == \E c \in Cores : evtsel[c] # Zero /\ ~Ignores(p, c)

\* MSRAccessDenied without MSRs, PMUBusy, or on.
PMUinUse(p) ==
    /\ Goto(p, "access", IF ~msr[p] THEN "refused" ELSE IF InUse(p) THEN "busy" ELSE "verify")
    /\ written' = [written EXCEPT ![p] = {}]
    /\ UNCHANGED <<watchdog, evtsel, ctrl, counted, disturbed, needToRestoreNMIWatchdog, workers, cleaned>> /\ Here

\* resetPMU, on the user's word; pcm-sensor-server then programs again, the other
\* programs exit.
ResetPMU(p) ==
    /\ Goto(p, "busy", IF p \in Servers THEN "watchdog" ELSE "refused")
    /\ evtsel' = [c \in Cores |-> Zero]
    /\ ctrl' = [c \in Cores |-> "off"]
    /\ Wrote({p}, Cores)
    /\ UNCHANGED <<watchdog, counted, disturbed, needToRestoreNMIWatchdog, workers, cleaned>> /\ Here

\* PMUBusy, and the user answers no.
Refuse(p) ==
    /\ Goto(p, "busy", "refused")
    /\ declined' = [declined EXCEPT ![p] = TRUE]
    /\ UNCHANGED <<machine, msr, keep, needToRestoreNMIWatchdog, workers, cleaned, atBoot, raced, stranded>>

\* A watchdog that is on again, or kept: UnknownError.  Else a task per core.
PushTasks(p) ==
    /\ Goto(p, "verify", IF watchdog THEN "refused" ELSE "tasks")
    /\ tasks' = [tasks EXCEPT ![p] = IF watchdog THEN {} ELSE Cores]
    /\ UNCHANGED <<machine, needToRestoreNMIWatchdog, queued, worker, cleaned>> /\ Here

Alive(p) == pc[p] \in Running \cup {"cleanup", "exiting"}

\* Core c is unfrozen by p; who froze it to program it does not know.
Unfreeze(p, c) ==
    /\ ctrl' = [ctrl EXCEPT ![c] = "on"]
    /\ disturbed' = IF \E q \in Procs \ {p} : worker[q][c] = "zeroed"
                    THEN disturbed \cup {c} ELSE disturbed

\* programCoreCounters, by the worker of the core: it freezes the core and zeroes
\* the counter (who unfreezes in between might as well do so after), ...
ZeroCounters(p, c) ==
    /\ Alive(p) /\ c \in tasks[p] /\ worker[p][c] = "idle"
    /\ worker' = [worker EXCEPT ![p][c] = "zeroed"]
    /\ ctrl' = [ctrl EXCEPT ![c] = "off"]
    /\ counted' = [counted EXCEPT ![c] = {}]
    /\ disturbed' = disturbed \ {c}
    /\ UNCHANGED <<watchdog, evtsel, written, pc, needToRestoreNMIWatchdog, tasks, queued, cleaned>> /\ Here

\* ... writes its event, ...
SelectEvents(p, c) ==
    /\ Alive(p) /\ worker[p][c] = "zeroed"
    /\ worker' = [worker EXCEPT ![p][c] = "selected"]
    /\ evtsel' = [evtsel EXCEPT ![c] = Conf[p]]
    /\ Wrote({p}, {c})
    /\ UNCHANGED <<watchdog, ctrl, counted, disturbed, pc, needToRestoreNMIWatchdog, tasks, queued, cleaned>> /\ Here

\* ... and starts to count.
StartCounting(p, c) ==
    /\ Alive(p) /\ worker[p][c] = "selected"
    /\ worker' = [worker EXCEPT ![p][c] = "idle"]
    /\ tasks' = [tasks EXCEPT ![p] = @ \ {c}]
    /\ Unfreeze(p, c)
    /\ UNCHANGED <<watchdog, evtsel, counted, written, pc, needToRestoreNMIWatchdog, queued, cleaned>> /\ Here

AwaitTasks(p) ==
    /\ tasks[p] = {}
    /\ Goto(p, "tasks", "measuring")
    /\ UNCHANGED <<machine, needToRestoreNMIWatchdog, workers, cleaned>> /\ Here

-----------------------------------------------------------------------------
\* BasicCounterState::readAndAggregate, by the worker of core c

ReadStep(p, c, to) ==
    /\ worker' = [worker EXCEPT ![p][c] = to]
    /\ UNCHANGED <<watchdog, evtsel, counted, pc, needToRestoreNMIWatchdog, tasks, cleaned>> /\ Here

\* A read is asked for while measuring; one that is queued when the process exits
\* begins all the same.
BeginRead(p, c) ==
    /\ worker[p][c] = "idle"
    /\ pc[p] = "measuring" \/ (Alive(p) /\ c \in queued[p])
    /\ queued' = [queued EXCEPT ![p] = @ \ {c}]
    /\ ctrl' = [ctrl EXCEPT ![c] = "off"]
    /\ written' = [written EXCEPT ![p] = @ \ {c}]
    /\ UNCHANGED disturbed

\* Mutant of CheckCustomCoreProgramming: nothing is compared.
CheckCustomCoreProgrammingSkipped(p, c) == BeginRead(p, c) /\ ReadStep(p, c, "own")

\* The core is frozen and its event selects are compared with the process's own.
CheckCustomCoreProgramming(p, c) ==
    /\ BeginRead(p, c)
    /\ ReadStep(p, c, IF evtsel[c] = Conf[p] THEN "own" ELSE "corrupted")

\* Mutant of ReadCounters: a corrupted core is not unfrozen.
ReadCountersUnlessCorrupted(p, c) ==
    /\ Alive(p) /\ worker[p][c] \in {"own", "corrupted"}
    /\ ReadStep(p, c, "idle")
    /\ IF worker[p][c] = "corrupted" THEN UNCHANGED <<ctrl, disturbed>> ELSE Unfreeze(p, c)
    /\ UNCHANGED <<written, queued>>

\* The counters are read, reported unless corrupted, and unfrozen.
ReadCounters(p, c) ==
    /\ Alive(p) /\ worker[p][c] \in {"own", "corrupted"}
    /\ ReadStep(p, c, "idle")
    /\ Unfreeze(p, c)
    /\ UNCHANGED <<written, queued>>

-----------------------------------------------------------------------------
\* exit(), from the program or a signal handler, runs PCM::cleanup while the
\* worker threads go on until the process is gone.

Busy(p) == tasks[p] # {} \/ queued[p] # {} \/ worker[p] # Idle

\* What the main thread has asked the workers to read, when it is measuring.
ExitWith(p, reads, to) ==
    /\ pc[p] \in Running
    /\ reads \subseteq {c \in Cores : pc[p] = "measuring" /\ worker[p][c] = "idle"}
    /\ queued' = [queued EXCEPT ![p] = reads]
    /\ pc' = [pc EXCEPT ![p] = to]
    /\ UNCHANGED <<machine, msr, keep, needToRestoreNMIWatchdog, tasks, worker, cleaned, atBoot, declined>>

\* exit_cleanup, which set_signal_handlers registers; a server's signal handler
\* cleans up too, but it is installed by the server that is to run.
Exit(p) ==
    /\ p \in Servers => pc[p] = "measuring"
    /\ \E reads \in SUBSET Cores :
          /\ ExitWith(p, reads, IF msr[p] THEN "cleanup" ELSE "exiting")
          /\ raced' = [raced EXCEPT ![p] = Busy(p) \/ reads # {}]
    /\ stranded' = (stranded \/ pc[p] = "mark" \/ (needToRestoreNMIWatchdog[p] /\ ~msr[p]))

\* A server that is told no, gets an error status, cannot bind its port or ends
\* by an exception has no handler that cleans up.
ExitUnclean(p) ==
    /\ p \in Servers
    /\ \E reads \in SUBSET Cores : ExitWith(p, reads, "exiting")
    /\ raced' = [raced EXCEPT ![p] = TRUE]
    /\ stranded' = (stranded \/ pc[p] = "mark" \/ needToRestoreNMIWatchdog[p])

\* Mutant of CleanupPMU: the event selects are left.
CleanupPMUKeepsEvents(p, c) ==
    /\ pc[p] = "cleanup" /\ c \notin cleaned[p]
    /\ ctrl' = [ctrl EXCEPT ![c] = "fixed"]
    /\ cleaned' = [cleaned EXCEPT ![p] = @ \cup {c}]
    /\ UNCHANGED <<watchdog, evtsel, written, disturbed, counted, pc, needToRestoreNMIWatchdog, workers>> /\ Here

\* cleanupPMU zeroes every core, whoever programmed it.  (Its two writes to a core
\* are one step: what others do in between, they may as well do before or after.)
CleanupPMU(p, c) ==
    /\ pc[p] = "cleanup" /\ c \notin cleaned[p]
    /\ ctrl' = [ctrl EXCEPT ![c] = "fixed"]
    /\ evtsel' = [evtsel EXCEPT ![c] = Zero]
    /\ Wrote({}, {c})
    /\ cleaned' = [cleaned EXCEPT ![p] = @ \cup {c}]
    /\ UNCHANGED <<watchdog, counted, disturbed, pc, needToRestoreNMIWatchdog, workers>> /\ Here

\* Mutant of RestoreWatchdog: the watchdog is forgotten.
RestoreWatchdogNever(p) ==
    /\ cleaned[p] = Cores
    /\ Goto(p, "cleanup", "exiting")
    /\ UNCHANGED <<machine, needToRestoreNMIWatchdog, workers, cleaned>> /\ Here

\* The kernel takes a counter for its event where it finds one, or not yet.
RestoreWatchdog(p) ==
    /\ cleaned[p] = Cores
    /\ Goto(p, "cleanup", "exiting")
    /\ IF needToRestoreNMIWatchdog[p]
       THEN /\ watchdog' = TRUE
            /\ \E C \in SUBSET Cores :
                  /\ evtsel' = [c \in Cores |-> IF c \in C THEN Nmi ELSE evtsel[c]]
                  /\ Wrote({}, C)
       ELSE UNCHANGED <<watchdog, evtsel, written>>
    /\ needToRestoreNMIWatchdog' = [needToRestoreNMIWatchdog EXCEPT ![p] = FALSE]
    /\ UNCHANGED <<ctrl, counted, disturbed, workers, cleaned>> /\ Here

\* The worker threads end with the process.
End(p) ==
    /\ pc' = [pc EXCEPT ![p] = "gone"]
    /\ tasks' = [tasks EXCEPT ![p] = {}]
    /\ queued' = [queued EXCEPT ![p] = {}]
    /\ worker' = [worker EXCEPT ![p] = Idle]
    /\ written' = [written EXCEPT ![p] = {}]
    /\ UNCHANGED <<watchdog, evtsel, ctrl, counted, disturbed, msr, keep, needToRestoreNMIWatchdog, cleaned, atBoot, declined>>

Gone(p) ==
    /\ pc[p] = "exiting"
    /\ End(p)
    /\ UNCHANGED <<raced, stranded>>

Crash(p) ==
    /\ Alive(p)
    /\ End(p)
    /\ raced' = [raced EXCEPT ![p] = TRUE]
    /\ stranded' = (stranded \/ pc[p] = "mark" \/ needToRestoreNMIWatchdog[p])

-----------------------------------------------------------------------------
MainStep(p) ==
    \/ Launch(p) \/ SeeWatchdog(p) \/ DisableNMIWatchdog(p) \/ MarkRestore(p)
    \/ PMUinUse(p) \/ ResetPMU(p) \/ Refuse(p) \/ PushTasks(p) \/ AwaitTasks(p)
    \/ Exit(p) \/ ExitUnclean(p) \/ (\E c \in Cores : CleanupPMU(p, c)) \/ RestoreWatchdog(p) \/ Gone(p)

WorkerStep(p, c) ==
    \/ ZeroCounters(p, c) \/ SelectEvents(p, c) \/ StartCounting(p, c)
    \/ CheckCustomCoreProgramming(p, c) \/ ReadCounters(p, c)

Next ==
    \/ \E c \in Cores : Count(c)
    \/ \E p \in Procs : MainStep(p) \/ Crash(p)
    \/ \E p \in Procs, c \in Cores : WorkerStep(p, c)

Spec == Init /\ [][Next]_vars

-----------------------------------------------------------------------------
Over(p) == pc[p] \in {"off", "gone"}

\* However the processes that found the watchdog on or off overlap, when they
\* are over it is as it was at boot - unless one was killed, was ended between
\* disabling and marking, had no access to MSRs, in which case cleanup returns
\* before it restores anything, or was a server that ended without its signal
\* handler after it had disabled it: told no, not programmed, its port in use
\* (cpucounters.cpp 3094-3101, 4798-4812; pcm-sensor-server.cpp 3459, 3470, 1172).
WatchdogRestored == (\A p \in Procs : Over(p)) /\ ~stranded => watchdog = atBoot

\* What a worker is about to report was counted for its own events alone, also
\* when others have programmed, zeroed and left the core in between: a core
\* that was taken over is never taken for one's own again.  Two races go
\* unnoticed, and no other: a write between the check and the read, and an
\* unfreeze by another process between the freeze for programming and the
\* select of the events (cpucounters.cpp 3714-3826, 5072-5116, 5234).
ReportedIsOwn ==
    \A p \in Procs, c \in Cores :
        worker[p][c] = "own" /\ c \notin written[p] /\ c \notin disturbed
            => counted[c] \subseteq {Conf[p]}

\* A core with somebody's events does not stay frozen when nobody programs or
\* reads it, however many processes freeze and unfreeze it; only a process that
\* ended in the middle of it leaves one so (cpucounters.cpp 3714, 5063-5067,
\* 5232-5235).
FrozenOnlyWhileBusy ==
    \A c \in Cores : ctrl[c] = "off" /\ evtsel[c] \in Events =>
        \E p \in Procs : worker[p][c] # "idle" \/ raced[p]

\* When all processes have ended by way of a clean-up, none of them in the
\* middle of its workers' work, no event of theirs is left, also where one had
\* programmed a core that another cleaned up (cpucounters.cpp 4601-4635).
ExitsLeaveZero ==
    (\A p \in Procs : Over(p) /\ ~raced[p]) => \A c \in Cores : evtsel[c] \in {Zero, Nmi}

\* Nobody programs a core that holds the events of another process unless that
\* process wrote them after the look at the registers, or they count cycles and
\* the process has disabled the watchdog, for whose event it then takes them
\* (it still has that to undo, or has begun to exit; PMUinUse, 4368-4468).
NoTakeover ==
    [][\A p \in Procs, c \in Cores :
         worker[p][c] = "zeroed" /\ worker'[p][c] = "selected" /\ evtsel[c] \in Events \ {Conf[p]}
           => c \in written[p] \/ (evtsel[c] \in Cycles /\ (needToRestoreNMIWatchdog[p] \/ raced[p]))]_vars

\* "PMU configuration ... Try to reset? (y/n)" (cpucounters.cpp 3572): a
\* process whose user said no does not reset the registers.
AnswerIsHeeded ==
    [][\A p \in Procs : \A c \in cleaned'[p] \ cleaned[p] :
         declined[p] => evtsel'[c] = evtsel[c]]_vars
=============================================================================
