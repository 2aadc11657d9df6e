------------------------------ MODULE PcmExit -------------------------------
(***************************************************************************)
(* How pcm-memory ends: set_signal_handlers, the handlers and exit_cleanup *)
(* of tools/pcm/src/utils.cpp, and the places of mainThrows (pcm-memory.cpp) *)
(* between which a signal can arrive.                                      *)
(*                                                                         *)
(* The performance monitoring units of the sockets are programmed one after *)
(* the other; exit_cleanup zeroes them one after the other.  It runs from  *)
(* atexit, or in a signal handler on top of whatever the thread was doing. *)
(* A signal is blocked only in the thread that runs its handler.  PCM has  *)
(* a worker thread per core, all idle here: a signal goes to the main      *)
(* thread, and to a worker while the main thread blocks it.  The threads   *)
(* that handle a signal run at the same time.                              *)
(*                                                                         *)
(* system(), which mainThrows and dynamic_ufs use to run set_uncore_freq.sh, *)
(* ignores SIGINT and blocks SIGCHLD in its thread meanwhile; the SIGCHLD  *)
(* of the command is still pending when it returns.                        *)
(*                                                                         *)
(* SIGTERM stands for SIGQUIT and SIGABRT too.  Left out: the handlers that *)
(* only print (SIGHUP, SIGUSR, SIGCONT), the suspension by SIGTSTP, and    *)
(* that the handlers call functions that are not async-signal-safe.        *)
(***************************************************************************)
EXTENDS Naturals, Sequences

CONSTANTS
    Sockets,        \* the sockets, each with its monitoring units
    Workers         \* the threads of PCM's task queues

ASSUME ThreadsAssumption == "main" \notin Workers

VARIABLES
    mode,           \* the command line: an external program, a delay, a count
    pc,             \* place of mainThrows
    initialized,    \* PCM::isInitialized()
    blocked,        \* PCM::isBlocked()
    programmed,     \* the sockets whose units hold a programming
    disp, saved,    \* dispositions of the signals; SIGINT's, kept by system()
    pending,        \* signals sent to the process and not delivered yet
    stack,          \* per thread, the exit_cleanup calls it is in
    child,          \* the external program
    failing,        \* the sockets that a child which could not be the program cleans
    status          \* of the process: "killed" by the default action

external == <<child, failing>>

vars == <<mode, pc, initialized, blocked, programmed, disp, saved, pending, stack,
          external, status>>

Modes    == {"endless", "counted", "child", "blocked"}
Signals  == {"INT", "TERM", "CHLD"}
Threads  == {"main"} \cup Workers
Places   == {"start", "construct", "program", "block", "spawn", "wait", "chld", "int",
             "request", "system", "loop", "exit"}

\* A call of exit_cleanup: who made it, and the sockets it still has to clean.
Frames == [by : Signals \cup {"exit"}, at : {"restore", "clean"}, todo : SUBSET Sockets]

Top(t) == stack[t][Len(stack[t])]

TypeOK ==
    /\ mode \in Modes /\ pc \in Places
    /\ initialized \in BOOLEAN /\ blocked \in BOOLEAN
    /\ programmed \subseteq Sockets
    /\ disp \in [Signals -> {"default", "ignore", "handler"}]
    /\ saved \in {"default", "ignore", "handler"}
    /\ pending \subseteq Signals
    /\ stack \in [Threads -> Seq(Frames)]
    /\ \A t \in Threads : \A i, j \in DOMAIN stack[t] :
            stack[t][i].by = stack[t][j].by => i = j
    /\ child \in {"none", "running", "exited"}
    /\ failing \subseteq Sockets
    /\ status \in {"running", "exited", "killed"}

Init ==
    /\ mode \in Modes
    /\ pc = "start"
    /\ initialized = FALSE /\ blocked = FALSE
    /\ programmed = {}
    /\ disp = [s \in Signals |-> "default"] /\ saved = "default"
    /\ pending = {}
    /\ stack = [t \in Threads |-> <<>>]
    /\ child = "none" /\ failing = {}
    /\ status = "running"

-----------------------------------------------------------------------------
\* mainThrows, as long as no handler runs on top of it.
At(place) == status = "running" /\ pc = place /\ stack["main"] = <<>>

\* Mutant of set_signal_handlers: SIGINT keeps its default action.
set_signal_handlersButInt ==
    /\ At("start")
    /\ pc' = "construct"
    /\ disp' = [s \in Signals |-> IF s = "INT" THEN "default" ELSE "handler"]
    /\ UNCHANGED <<mode, initialized, blocked, programmed, saved, pending, stack,
                   external, status>>

set_signal_handlers ==
    /\ At("start")
    /\ pc' = "construct"
    /\ disp' = [s \in Signals |-> "handler"]
    /\ UNCHANGED <<mode, initialized, blocked, programmed, saved, pending, stack,
                   external, status>>

\* PCM::getInstance() publishes the instance when it is complete, workers included.
getInstance ==
    /\ At("construct")
    /\ pc' = "program"
    /\ initialized' = TRUE
    /\ UNCHANGED <<mode, blocked, programmed, disp, saved, pending, stack, external,
                   status>>

\* programServerUncoreMemoryMetrics, one socket after the other.
Program(s) ==
    /\ At("program") /\ s \notin programmed
    /\ programmed' = programmed \cup {s}
    /\ UNCHANGED <<mode, pc, initialized, blocked, disp, saved, pending, stack,
                   external, status>>

Programmed ==
    /\ At("program") /\ programmed = Sockets
    /\ pc' = "block"
    /\ UNCHANGED <<mode, initialized, blocked, programmed, disp, saved, pending, stack,
                   external, status>>

setBlocked ==
    /\ At("block")
    /\ pc' = "spawn"
    /\ blocked' = (mode = "blocked")
    /\ UNCHANGED <<mode, initialized, programmed, disp, saved, pending, stack,
                   external, status>>

\* MySystem: fork, and waitpid when blocked.  A child that cannot execute the
\* program calls exit(), which runs the exit_cleanup it inherited.
MySystem ==
    /\ At("spawn")
    /\ IF mode \in {"child", "blocked"}
       THEN child' = "running" /\ failing' \in {{}, Sockets}
       ELSE UNCHANGED external
    /\ pc' = IF mode \in {"child", "blocked"} /\ blocked THEN "wait" ELSE "chld"
    /\ UNCHANGED <<mode, initialized, blocked, programmed, disp, saved, pending, stack,
                   status>>

Waited ==
    /\ At("wait") /\ child = "exited"
    /\ pc' = "chld"
    /\ UNCHANGED <<mode, initialized, blocked, programmed, disp, saved, pending, stack,
                   external, status>>

\* Mutant of DefaultChld: the handler of SIGCHLD stays.
DefaultChldKept ==
    /\ At("chld")
    /\ pc' = "int"
    /\ UNCHANGED <<mode, initialized, blocked, programmed, disp, saved, pending, stack,
                   external, status>>

\* signal(SIGCHLD, SIG_DFL)
DefaultChld ==
    /\ At("chld")
    /\ pc' = "int"
    /\ disp' = [disp EXCEPT !["CHLD"] = "default"]
    /\ UNCHANGED <<mode, initialized, blocked, programmed, saved, pending, stack,
                   external, status>>

\* signal(SIGINT, SIG_DFL)
DefaultInt ==
    /\ At("int")
    /\ pc' = "request"
    /\ disp' = [disp EXCEPT !["INT"] = "default"]
    /\ UNCHANGED <<mode, initialized, blocked, programmed, saved, pending, stack,
                   external, status>>

\* system(set_uncore_freq.sh), first by mainThrows, then by dynamic_ufs.
System ==
    /\ At("request") \/ At("loop")
    /\ pc' = "system"
    /\ saved' = disp["INT"]
    /\ disp' = [disp EXCEPT !["INT"] = "ignore"]
    /\ UNCHANGED <<mode, initialized, blocked, programmed, pending, stack, external,
                   status>>

CommandEnds ==
    /\ At("system")
    /\ pc' = "loop"
    /\ disp' = [disp EXCEPT !["INT"] = saved]
    /\ pending' = pending \cup {"CHLD"}
    /\ UNCHANGED <<mode, initialized, blocked, programmed, saved, stack, external,
                   status>>

Called(by) == Append(stack["main"], [by |-> by, at |-> "restore", todo |-> {}])

\* mainLoop is left, when blocked or after the count of -i, and exit() calls
\* exit_cleanup.
LoopEnds ==
    /\ At("loop") /\ (blocked \/ mode = "counted")
    /\ pc' = "exit"
    /\ stack' = [stack EXCEPT !["main"] = Called("exit")]
    /\ UNCHANGED <<mode, initialized, blocked, programmed, disp, saved, pending,
                   external, status>>

Main ==
    \/ set_signal_handlers \/ getInstance
    \/ \E s \in Sockets : Program(s)
    \/ Programmed \/ setBlocked \/ MySystem \/ Waited
    \/ DefaultChld \/ DefaultInt \/ System \/ CommandEnds \/ LoopEnds

-----------------------------------------------------------------------------
\* The outside world.

\* Ctrl-C, kill, sudo or the experiment driver.
Send(s) ==
    /\ status = "running"
    /\ pending' = pending \cup {s}
    /\ UNCHANGED <<mode, pc, initialized, blocked, programmed, disp, saved, stack,
                   external, status>>

\* PCM::cleanup in the child: the units are those of the parent.
ChildCleans(s) ==
    /\ s \in failing
    /\ programmed' = programmed \ {s}
    /\ failing' = failing \ {s}
    /\ UNCHANGED <<mode, pc, initialized, blocked, disp, saved, pending, stack, child,
                   status>>

\* The program ends, or a signal ends it in its own cleanup too.
ChildExits ==
    /\ child = "running"
    /\ child' = "exited"
    /\ failing' = {}
    /\ pending' = IF status = "running" THEN pending \cup {"CHLD"} ELSE pending
    /\ UNCHANGED <<mode, pc, initialized, blocked, programmed, disp, saved, stack,
                   status>>

-----------------------------------------------------------------------------
\* Delivery.

InHandler(t, s) == \E i \in DOMAIN stack[t] : stack[t][i].by = s

Masked(t, s) == InHandler(t, s) \/ (t = "main" /\ pc = "system" /\ s = "CHLD")

\* The thread a signal goes to.  The workers exist once the instance does.
Receives(t, s) ==
    /\ ~Masked(t, s)
    /\ t # "main" => initialized /\ Masked("main", s)

\* Mutant of SigINTHandler: nothing is done before the instance exists.
SigINTHandlerInitialized(t, s) ==
    /\ disp[s] = "handler"
    /\ stack' = IF blocked \/ ~initialized THEN stack
                ELSE [stack EXCEPT ![t] = Append(@, [by |-> s, at |-> "restore", todo |-> {}])]
    /\ UNCHANGED status

\* sigINT_handler: nothing while blocked, otherwise a call of exit_cleanup.
SigINTHandler(t, s) ==
    /\ disp[s] = "handler"
    /\ stack' = IF initialized /\ blocked THEN stack
                ELSE [stack EXCEPT ![t] = Append(@, [by |-> s, at |-> "restore", todo |-> {}])]
    /\ UNCHANGED status

DefaultAction(s) ==
    /\ disp[s] # "handler"
    /\ status' = IF disp[s] = "default" /\ s # "CHLD" THEN "killed" ELSE status
    /\ UNCHANGED stack

Deliver(t, s) ==
    /\ status = "running" /\ s \in pending /\ Receives(t, s)
    /\ pending' = pending \ {s}
    /\ SigINTHandler(t, s) \/ DefaultAction(s)
    /\ UNCHANGED <<mode, pc, initialized, blocked, programmed, disp, saved, external>>

-----------------------------------------------------------------------------
\* exit_cleanup, in the topmost call of a thread.
InCall(t, place) == status = "running" /\ stack[t] # <<>> /\ Top(t).at = place

SetTop(t, f) == stack' = [stack EXCEPT ![t] = [@ EXCEPT ![Len(@)] = f]]

\* restore_signal_handlers.
Restore(t) ==
    /\ InCall(t, "restore")
    /\ disp' = [s \in Signals |-> "default"]
    /\ SetTop(t, [by |-> Top(t).by, at |-> "clean",
                  todo |-> IF initialized THEN Sockets ELSE {}])
    /\ UNCHANGED <<mode, pc, initialized, blocked, programmed, saved, pending,
                   external, status>>

\* PCM::cleanup, one socket after the other.
Clean(t, s) ==
    /\ InCall(t, "clean") /\ s \in Top(t).todo
    /\ programmed' = programmed \ {s}
    /\ SetTop(t, [Top(t) EXCEPT !.todo = @ \ {s}])
    /\ UNCHANGED <<mode, pc, initialized, blocked, disp, saved, pending, external,
                   status>>

\* Mutant of Ended: the process ends while the last socket is being cleaned.
EndedEarly(t) ==
    /\ InCall(t, "clean") /\ \A s, r \in Top(t).todo : s = r
    /\ status' = "exited"
    /\ UNCHANGED <<mode, pc, initialized, blocked, programmed, disp, saved, pending,
                   stack, external>>

\* _exit in a handler, the end of exit() otherwise.
Ended(t) ==
    /\ InCall(t, "clean") /\ Top(t).todo = {}
    /\ status' = "exited"
    /\ UNCHANGED <<mode, pc, initialized, blocked, programmed, disp, saved, pending,
                   stack, external>>

Cleanup(t) == Restore(t) \/ (\E s \in Sockets : Clean(t, s)) \/ Ended(t)

Next ==
    \/ Main
    \/ \E s \in {"INT", "TERM"} : Send(s)
    \/ ChildExits
    \/ \E s \in Sockets : ChildCleans(s)
    \/ \E t \in Threads : (\E s \in Signals : Deliver(t, s)) \/ Cleanup(t)

Spec == Init /\ [][Next]_vars

\* The kernel delivers a signal that some thread does not block, and schedules
\* every thread.
FairSpec ==
    /\ Spec
    /\ WF_vars(Main)
    /\ \A s \in Signals : WF_vars(\E t \in Threads : Deliver(t, s))
    /\ \A t \in Threads : WF_vars(Cleanup(t))

-----------------------------------------------------------------------------
\* A process that ends by exit() or by one of its handlers leaves no unit
\* programmed, however the handlers nest and run side by side.
EndsClean == status = "exited" => programmed = {}

\* A process that leaves units programmed was killed: by SIGINT after mainThrows
\* gave up its handler, or during a cleanup, whose first step gave up all of them.
DirtyOnlyWhenKilled ==
    status # "running" /\ programmed # {} =>
        /\ status = "killed"
        /\ \/ pc \in {"request", "system", "loop"}
           \/ \E t \in Threads : stack[t] # <<>>

\* The commands that the controller runs do not end pcm-memory: a call of
\* exit_cleanup on SIGCHLD stems from the exit of the external program.
OwnCommandsDoNotEndIt == \A t \in Threads : InHandler(t, "CHLD") => child = "exited"

\* A blocked PCM does not leave by itself before its external program did.
BlockedOutlivesChild == status = "exited" /\ blocked => child = "exited"

\* kill ends an unblocked pcm-memory, wherever it is.
TermEndsIt == "TERM" \in pending /\ mode # "blocked" ~> status # "running"
=============================================================================
