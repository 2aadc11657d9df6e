----------------------------- MODULE DaemonShm ------------------------------
(***************************************************************************)
(* pcm-daemon and its clients.  The daemon publishes counters in a System  *)
(* V shared-memory segment of its own and leaves the segment's id in a     *)
(* file; a client finds the segment through the file, polls the time stamp *)
(* the daemon writes last, and reads the sections where they lie, with no  *)
(* lock on either side.                                                    *)
(*                                                                         *)
(* Snapshots of the counters are numbered: 1 is the one the constructor    *)
(* takes, r + 1 the one of the r-th update, 0 a zeroed allocation.  What a *)
(* section holds is the pair of snapshots it was computed from; the time   *)
(* stamps are the number of the update's snapshot.  A section is written   *)
(* and read in one step; the system section, the poll interval and the     *)
(* version, the same in every update, are left out.                        *)
(*                                                                         *)
(* Bound: MaxRound[d] snapshots of daemon d.                                 *)
(***************************************************************************)
EXTENDS Naturals

CONSTANTS Daemons,        \* one start of pcm-daemon each
          Clients,
          Modes,          \* "difference", "absolute"
          Subscriptions,  \* the sets of counter classes asked for with -c
          None,           \* no file, no segment
          Empty,          \* a file that was opened and not yet written
          MaxRound

ASSUME BoundAssumption == MaxRound \in [Daemons -> Nat \ {0}]
ASSUME ModeAssumption == "difference" \in Modes /\ Modes \subseteq {"difference", "absolute"}
ASSUME SubscriptionAssumption == Subscriptions \subseteq SUBSET {"core", "memory", "qpi"}
ASSUME NameAssumption == None \notin Daemons /\ Empty \notin Daemons /\ None # Empty

\* memoryTime is what the bytes of memory are divided by.
Fields == {"core", "memory", "memoryTime", "qpi", "qpiUtilization"}
FieldsOf(class) ==
    CASE class = "core"   -> {"core"}
      [] class = "memory" -> {"memory", "memoryTime"}
      [] class = "qpi"    -> {"qpi", "qpiUtilization"}

Snapshots == Nat
Interval(from, to) == [from |-> from, to |-> to]
Intervals == [from : Snapshots, to : Snapshots]

VARIABLES
    pc,             \* where each daemon is
    mode_, subscribers_,
    round,          \* number of the daemon's last snapshot
    states,         \* its Before and After states
    segment,        \* "none", "live", or "removed" (IPC_RMID)
    begin, end,     \* lastUpdateTscBegin, lastUpdateTscEnd in the segment
    sections,       \* the counters in the segment
    idFile,         \* what the file at DEFAULT_SHM_ID_LOCATION says
    linked,         \* the file a daemon has open is the one the path leads to
    overlap,        \* (history) two daemons were alive at once
    cpc, target,    \* where each client is, the segment it is attached to
    lastUpdatedClientTsc_,
    copy            \* what the client program took from the segment

daemonVars == <<pc, mode_, subscribers_, round, states, overlap>>
segmentVars == <<segment, begin, end, sections>>
fileVars == <<idFile, linked>>
clientVars == <<cpc, target, lastUpdatedClientTsc_, copy>>
vars == <<daemonVars, segmentVars, fileVars, clientVars>>

\* systemStates, socketStates and coreStates; the serverUncore states; the
\* copy for QPI; the collection times.
States == [before : Snapshots, after : Snapshots, uncoreBefore : Snapshots,
           uncoreAfter : Snapshots, qpiBefore : Snapshots,
           timeBefore : Snapshots, timeAfter : Snapshots]

Setup   == {"remove", "open", "write", "attach", "program"}
Updating == {"update", "core", "memory", "qpi", "end"}
Serving == {"sleep"} \cup Updating
Ended   == {"exited", "failed", "crashed"}
Alive   == Setup \cup Serving \cup {"unlink"}

TypeOK ==
    /\ pc \in [Daemons -> {"off"} \cup Alive \cup Ended]
    /\ mode_ \in [Daemons -> Modes]
    /\ subscribers_ \in [Daemons -> Subscriptions \cup {{}}]
    /\ round \in [Daemons -> Snapshots]
    /\ states \in [Daemons -> States]
    /\ segment \in [Daemons -> {"none", "live", "removed"}]
    /\ begin \in [Daemons -> Snapshots] /\ end \in [Daemons -> Snapshots]
    /\ sections \in [Daemons -> [Fields -> Intervals]]
    /\ idFile \in Daemons \cup {None, Empty}
    /\ linked \in [Daemons -> BOOLEAN]
    /\ overlap \in BOOLEAN
    /\ cpc \in [Clients -> {"start", "attach", "wait", "core", "memory", "qpi", "have", "gone"}]
    /\ target \in [Clients -> Daemons \cup {None}]
    /\ \A c \in Clients : cpc[c] \notin {"start", "gone"} => target[c] \in Daemons
    /\ lastUpdatedClientTsc_ \in [Clients -> Snapshots]
    /\ copy \in [Clients -> [Fields -> Intervals]]

Zero == [before |-> 0, after |-> 0, uncoreBefore |-> 0, uncoreAfter |-> 0,
         qpiBefore |-> 0, timeBefore |-> 0, timeAfter |-> 0]

Init ==
    /\ pc = [d \in Daemons |-> "off"]
    /\ mode_ = [d \in Daemons |-> "difference"]
    /\ subscribers_ = [d \in Daemons |-> {}]
    /\ round = [d \in Daemons |-> 0]
    /\ states = [d \in Daemons |-> Zero]
    /\ segment = [d \in Daemons |-> "none"]
    /\ begin = [d \in Daemons |-> 0] /\ end = [d \in Daemons |-> 0]
    /\ sections = [d \in Daemons |-> [f \in Fields |-> Interval(0, 0)]]
    /\ idFile = None
    /\ linked = [d \in Daemons |-> FALSE]
    /\ overlap = FALSE
    /\ cpc = [c \in Clients |-> "start"]
    /\ target = [c \in Clients |-> None]
    /\ lastUpdatedClientTsc_ = [c \in Clients |-> 0]
    /\ copy = [c \in Clients |-> [f \in Fields |-> Interval(0, 0)]]

Goto(d, from, to) == pc[d] = from /\ pc' = [pc EXCEPT ![d] = to]

-----------------------------------------------------------------------------
\* The constructor: arguments, segment, id file, PCM, the first snapshot.

Start(d) ==
    /\ Goto(d, "off", "remove")
    /\ \E m \in Modes : mode_' = [mode_ EXCEPT ![d] = m]
    /\ \E s \in Subscriptions : subscribers_' = [subscribers_ EXCEPT ![d] = s]
    /\ segment' = [segment EXCEPT ![d] = "live"]
    /\ overlap' = (overlap \/ \E e \in Daemons : pc[e] \in Alive)
    /\ UNCHANGED <<round, states, begin, end, sections, fileVars, clientVars>>

\* remove(): whatever is there, whoever wrote it.
RemoveFile == idFile' = None /\ linked' = [d \in Daemons |-> FALSE]

RemoveIdFile(d) ==
    /\ Goto(d, "remove", "open")
    /\ RemoveFile
    /\ UNCHANGED <<mode_, subscribers_, round, states, overlap, segmentVars, clientVars>>

OpenIdFile(d) ==
    /\ Goto(d, "open", "write")
    /\ idFile' = Empty
    /\ linked' = [linked EXCEPT ![d] = TRUE]
    /\ UNCHANGED <<mode_, subscribers_, round, states, overlap, segmentVars, clientVars>>

\* Mutant of WriteIdFile: fclose is missing, nothing reaches the file.
WriteIdFileUnflushed(d) ==
    /\ Goto(d, "write", "attach")
    /\ UNCHANGED <<mode_, subscribers_, round, states, overlap, segmentVars, fileVars, clientVars>>

WriteIdFile(d) ==
    /\ Goto(d, "write", "attach")
    /\ idFile' = IF linked[d] THEN d ELSE idFile
    /\ UNCHANGED <<mode_, subscribers_, round, states, overlap, segmentVars, linked, clientVars>>

\* The group of segment and file, shmat, the clearing of a segment the kernel
\* hands out zeroed, set_signal_handlers and set_post_cleanup_callback.
AttachAndSetup(d) ==
    /\ Goto(d, "attach", "program")
    /\ UNCHANGED <<mode_, subscribers_, round, states, overlap, segmentVars, fileVars, clientVars>>

\* exit(EXIT_FAILURE) before the callback is set, and any of shmget, fopen,
\* chown, shmat that fails: what is there stays there.
Fail(d) ==
    /\ pc[d] \in {"open", "write", "attach"}
    /\ pc' = [pc EXCEPT ![d] = "failed"]
    /\ UNCHANGED <<mode_, subscribers_, round, states, overlap, segmentVars, fileVars, clientVars>>

\* checkAccessAndProgramPCM and the snapshot the differences start from.
ProgramAndSnapshot(d) ==
    /\ Goto(d, "program", "sleep")
    /\ round' = [round EXCEPT ![d] = 1]
    /\ states' = [states EXCEPT ![d] = [Zero EXCEPT !.before = 1, !.qpiBefore = 1, !.timeBefore = 1]]
    /\ UNCHANGED <<mode_, subscribers_, overlap, segmentVars, fileVars, clientVars>>

-----------------------------------------------------------------------------
\* getPCMCounters, once per poll interval

\* Mutant of BeginUpdate: the time stamp the client polls is written first.
BeginUpdateStampsEnd(d) ==
    /\ round[d] < MaxRound[d]
    /\ Goto(d, "sleep", "update")
    /\ round' = [round EXCEPT ![d] = @ + 1]
    /\ begin' = [begin EXCEPT ![d] = round'[d]]
    /\ end' = [end EXCEPT ![d] = round'[d]]
    /\ UNCHANGED <<mode_, subscribers_, states, overlap, segment, sections, fileVars, clientVars>>

\* Mutant of BeginUpdate: the first time stamp is not written.
BeginUpdateUnstamped(d) ==
    /\ round[d] < MaxRound[d]
    /\ Goto(d, "sleep", "update")
    /\ round' = [round EXCEPT ![d] = @ + 1]
    /\ UNCHANGED <<mode_, subscribers_, states, overlap, segmentVars, fileVars, clientVars>>

BeginUpdate(d) ==
    /\ round[d] < MaxRound[d]
    /\ Goto(d, "sleep", "update")
    /\ round' = [round EXCEPT ![d] = @ + 1]
    /\ begin' = [begin EXCEPT ![d] = round'[d]]
    /\ UNCHANGED <<mode_, subscribers_, states, overlap, segment, end, sections, fileVars, clientVars>>

UpdatePCMState(d) ==
    /\ Goto(d, "update", "core")
    /\ states' = [states EXCEPT ![d].after = round[d], ![d].timeAfter = round[d]]
    /\ UNCHANGED <<mode_, subscribers_, round, overlap, segmentVars, fileVars, clientVars>>

\* Writes the intervals new into the fields of a class that is subscribed to.
Publish(d, class, new) ==
    /\ sections' = IF class \in subscribers_[d]
                   THEN [sections EXCEPT ![d] = [f \in Fields |->
                            IF f \in FieldsOf(class) THEN new[f] ELSE @[f]]]
                   ELSE sections
    /\ UNCHANGED <<mode_, subscribers_, round, overlap, segment, begin, end, fileVars, clientVars>>

GetPCMCore(d) ==
    /\ Goto(d, "core", "memory")
    /\ Publish(d, "core", [core |-> Interval(states[d].before, states[d].after)])
    /\ UNCHANGED states

\* The uncore counters of the sockets are read only now.
GetPCMMemory(d) ==
    /\ Goto(d, "memory", "qpi")
    /\ states' = IF "memory" \in subscribers_[d]
                 THEN [states EXCEPT ![d].uncoreAfter = round[d]] ELSE states
    /\ Publish(d, "memory", [memory |-> Interval(states[d].uncoreBefore, round[d]),
                             memoryTime |-> Interval(states[d].timeBefore, states[d].timeAfter)])

GetPCMQPI(d) ==
    /\ Goto(d, "qpi", "end")
    /\ Publish(d, "qpi", [qpi |-> Interval(states[d].before, states[d].after),
                          qpiUtilization |-> Interval(states[d].qpiBefore, states[d].after)])
    /\ UNCHANGED states

\* After becomes Before.
SwapPCMBeforeAfterState(s) ==
    [s EXCEPT !.before = s.after, !.after = s.before,
              !.uncoreBefore = s.uncoreAfter, !.uncoreAfter = s.uncoreBefore]

\* Mutant of NextStates: the collection times are not swapped.
NextStatesKeepTime(s, mode, subscribers) ==
    LET swapped == IF mode = "difference" THEN SwapPCMBeforeAfterState(s) ELSE s
    IN  [swapped EXCEPT !.qpiBefore = IF "qpi" \in subscribers THEN swapped.after ELSE @]

\* Mutant of NextStates: the states are swapped in neither mode.
NextStatesUnswapped(s, mode, subscribers) ==
    [s EXCEPT !.qpiBefore = IF "qpi" \in subscribers THEN s.after ELSE @,
              !.timeBefore = s.timeAfter, !.timeAfter = s.timeBefore]

\* The states after an update: the copy for QPI is taken after the swap.
NextStates(s, mode, subscribers) ==
    LET swapped == IF mode = "difference" THEN SwapPCMBeforeAfterState(s) ELSE s
    IN  [swapped EXCEPT !.qpiBefore = IF "qpi" \in subscribers THEN swapped.after ELSE @,
                        !.timeBefore = s.timeAfter, !.timeAfter = s.timeBefore]

\* Mutant of EndUpdate: the time stamp the client polls is left as it was.
EndUpdateUnstamped(d) ==
    /\ Goto(d, "end", "sleep")
    /\ states' = [states EXCEPT ![d] = NextStates(@, mode_[d], subscribers_[d])]
    /\ UNCHANGED <<mode_, subscribers_, round, overlap, segmentVars, fileVars, clientVars>>

EndUpdate(d) ==
    /\ Goto(d, "end", "sleep")
    /\ end' = [end EXCEPT ![d] = round[d]]
    /\ states' = [states EXCEPT ![d] = NextStates(@, mode_[d], subscribers_[d])]
    /\ UNCHANGED <<mode_, subscribers_, round, overlap, segment, begin, sections, fileVars, clientVars>>

-----------------------------------------------------------------------------
\* The end: cleanup() from the exit handler (a handled signal, or checkError),
\* or a death that runs no handler.

RemoveSegment(d) ==
    /\ pc[d] \in {"program"} \cup Serving
    /\ pc' = [pc EXCEPT ![d] = "unlink"]
    /\ segment' = [segment EXCEPT ![d] = "removed"]
    /\ UNCHANGED <<mode_, subscribers_, round, states, overlap, begin, end, sections, fileVars, clientVars>>

UnlinkIdFile(d) ==
    /\ Goto(d, "unlink", "exited")
    /\ RemoveFile
    /\ UNCHANGED <<mode_, subscribers_, round, states, overlap, segmentVars, clientVars>>

Crash(d) ==
    /\ pc[d] \in Alive
    /\ pc' = [pc EXCEPT ![d] = "crashed"]
    /\ UNCHANGED <<mode_, subscribers_, round, states, overlap, segmentVars, fileVars, clientVars>>

-----------------------------------------------------------------------------
\* The client: connect, read, and the program that uses what read returns.

ClientGoto(c, from, to) == cpc[c] = from /\ cpc' = [cpc EXCEPT ![c] = to]

\* An empty file says id 0, which is no daemon's segment.
OpenAndRead(c) ==
    /\ IF idFile \in Daemons
       THEN ClientGoto(c, "start", "attach") /\ target' = [target EXCEPT ![c] = idFile]
       ELSE ClientGoto(c, "start", "gone") /\ UNCHANGED target
    /\ UNCHANGED <<lastUpdatedClientTsc_, copy, daemonVars, segmentVars, fileVars>>

AttachedTo(c) == cpc[c] \in {"wait", "core", "memory", "qpi", "have"}

\* A removed segment lives on while somebody is attached to it.
Attachable(d) == segment[d] = "live" \/ \E c \in Clients : AttachedTo(c) /\ target[c] = d

Connect(c) ==
    /\ cpc[c] = "attach"
    /\ IF Attachable(target[c])
       THEN /\ ClientGoto(c, "attach", "wait")
            /\ lastUpdatedClientTsc_' = [lastUpdatedClientTsc_ EXCEPT ![c] = end[target[c]]]
       ELSE ClientGoto(c, "attach", "gone") /\ UNCHANGED lastUpdatedClientTsc_
    /\ UNCHANGED <<target, copy, daemonVars, segmentVars, fileVars>>

Read(c) ==
    /\ ClientGoto(c, "wait", "core")
    /\ end[target[c]] # lastUpdatedClientTsc_[c]
    /\ lastUpdatedClientTsc_' = [lastUpdatedClientTsc_ EXCEPT ![c] = end[target[c]]]
    /\ UNCHANGED <<target, copy, daemonVars, segmentVars, fileVars>>

\* read returns a reference: the sections are looked at later, one by one.
Take(c, class, next) ==
    /\ ClientGoto(c, class, next)
    /\ copy' = [copy EXCEPT ![c] = [f \in Fields |->
                   IF f \in FieldsOf(class) THEN sections[target[c]][f] ELSE @[f]]]
    /\ UNCHANGED <<target, lastUpdatedClientTsc_, daemonVars, segmentVars, fileVars>>

Again(c) ==
    /\ ClientGoto(c, "have", "wait")
    /\ UNCHANGED <<target, lastUpdatedClientTsc_, copy, daemonVars, segmentVars, fileVars>>

Quit(c) ==
    /\ AttachedTo(c)
    /\ cpc' = [cpc EXCEPT ![c] = "gone"]
    /\ UNCHANGED <<target, lastUpdatedClientTsc_, copy, daemonVars, segmentVars, fileVars>>

-----------------------------------------------------------------------------
DaemonStep(d) ==
    \/ RemoveIdFile(d) \/ OpenIdFile(d) \/ WriteIdFile(d) \/ AttachAndSetup(d)
    \/ ProgramAndSnapshot(d)
    \/ BeginUpdate(d) \/ UpdatePCMState(d) \/ GetPCMCore(d) \/ GetPCMMemory(d)
    \/ GetPCMQPI(d) \/ EndUpdate(d) \/ UnlinkIdFile(d)

ClientStep(c) ==
    \/ OpenAndRead(c) \/ Connect(c) \/ Read(c)
    \/ Take(c, "core", "memory") \/ Take(c, "memory", "qpi") \/ Take(c, "qpi", "have")
    \/ Again(c)

Next ==
    \/ \E d \in Daemons : Start(d) \/ DaemonStep(d) \/ Fail(d) \/ RemoveSegment(d) \/ Crash(d)
    \/ \E c \in Clients : ClientStep(c) \/ Quit(c)

\* A daemon that is not stopped goes on with its loop, a client that is not
\* stopped with its own: both sleep and come back.  Nobody has to start a
\* daemon, and nothing has to fail.
Fairness == (\A d \in Daemons : WF_vars(DaemonStep(d))) /\ (\A c \in Clients : WF_vars(ClientStep(c)))

Spec == Init /\ [][Next]_vars
FairSpec == Spec /\ Fairness

-----------------------------------------------------------------------------
Subscribed(d) == UNION {FieldsOf(class) : class \in subscribers_[d]}
Taken(c) == {f \in Fields : /\ \/ cpc[c] = "have"
                               \/ cpc[c] = "qpi" /\ f \notin FieldsOf("qpi")
                               \/ cpc[c] = "memory" /\ f \in FieldsOf("core")
                            /\ f \in Subscribed(target[c])}

\* All the data is in the segment before the time stamp a client polls: what
\* the client takes after read has returned is of that update or of a later
\* one, whoever is ahead (daemon.cpp 388-412, client.cpp 77-83).
UpdateIsComplete ==
    \A c \in Clients : \A f \in Taken(c) : copy[c][f].to >= lastUpdatedClientTsc_[c]

\* A client has a way to know that what it took belongs together although it
\* reads without a lock: if lastUpdateTscBegin is still no newer than the stamp
\* it was told, every section is of exactly that update (daemon.cpp 386, 412).
UnmovedBeginMeansWhole ==
    \A c \in Clients :
        AttachedTo(c) /\ begin[target[c]] <= lastUpdatedClientTsc_[c] =>
            \A f \in Taken(c) : copy[c][f].to = lastUpdatedClientTsc_[c]

\* In difference mode successive updates report adjoining intervals: no count
\* is reported twice and none falls between two updates (swapPCMBeforeAfterState).
DifferencesTile ==
    [][\A d \in Daemons : \A f \in {"core", "memory", "qpi"} :
         mode_[d] = "difference" /\ sections[d][f].to # 0 /\ sections'[d][f] # sections[d][f] =>
            sections'[d][f].from = sections[d][f].to]_vars

\* In difference mode the bandwidths are the bytes of an interval divided by
\* its own length, from the second update on (daemon.cpp 561, 578-581, 422).
\* The first update divides what was counted since the counters were programmed.
RateMatchesBytes ==
    \A d \in Daemons :
        mode_[d] = "difference" /\ sections[d].memory.from # 0 =>
            sections[d].memory = sections[d].memoryTime

\* In absolute mode the values are all since the same snapshot, in every update.
AbsoluteKeepsItsOrigin ==
    \A d \in Daemons : mode_[d] = "absolute" =>
        /\ sections[d].core.to # 0 => sections[d].core.from = 1
        /\ sections[d].memory.from = 0
        /\ sections[d].qpi.to # 0 => sections[d].qpi.from = 1

\* A daemon that stops by way of its exit handler leaves no segment behind and
\* no file that names it, wherever the signal finds it (daemon.cpp 739-766).
ExitReleases ==
    \A d \in Daemons : pc[d] = "exited" => segment[d] = "removed" /\ idFile # d

\* While daemons do not overlap, the file names the daemon that serves, also
\* after one that crashed and left its file and its segment (daemon.cpp 317-330).
FileNamesServing ==
    \A d \in Daemons : ~overlap /\ pc[d] \in Serving => idFile = d

\* A client that waits for a daemon that goes on is told of the next update.
WaitingIsServed ==
    \A c \in Clients : \A d \in Daemons :
        cpc[c] = "wait" /\ target[c] = d /\ pc[d] \in Serving /\ round[d] < MaxRound[d]
            ~> cpc[c] # "wait" \/ pc[d] \notin Serving

\* What the comment on swapPCMBeforeAfterState says: the state after one update
\* is the state before the next (daemon.cpp 443), the link utilisation's too.
AfterBecomesBefore ==
    \A d \in Daemons : sections[d].qpiUtilization.from = sections[d].qpi.from
=============================================================================
